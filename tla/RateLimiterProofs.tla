-------------------------- MODULE RateLimiterProofs --------------------------
(***************************************************************************)
(* Proofs about RateLimiter, for every set of kinds, addresses and         *)
(* mailboxes, any number of concurrent calls, every limit and window, and  *)
(* both limiters.                                                          *)
(***************************************************************************)
EXTENDS RateLimiter, FiniteSetTheorems, TLAPS

-----------------------------------------------------------------------------
(* The inductive invariant.                                                *)

CounterType == [count : Nat, left : Int, present : BOOLEAN]
CallType == [pc : {"called", "key"}, lag : 0 .. MaxLag, ip : ByIP, key : SUBSET ByKey]

\* A call is about one address and at most one email.
AtMostOne(bs) == bs = {} \/ \E b \in Buckets : bs = {b}

Typed ==
    /\ backend \in Backends /\ callCount \in 0 .. CleanupEvery - 1
    /\ counter \in [Buckets -> CounterType]
    /\ granted \in [Buckets -> Nat] /\ evicted \subseteq Buckets
    /\ DOMAIN call = Calls
    /\ \A c \in Calls : call[c] = NoCall \/ (call[c] \in CallType /\ AtMostOne(call[c].key))

\* The memory limiter counts what it lets through, and no counter passes its limit.
CountedInMemory ==
    backend = "memory" => \A b \in Buckets :
        /\ counter[b].count <= Limit(b)
        /\ b \notin evicted => granted[b] = IF counter[b].present THEN counter[b].count ELSE 0

\* The cache limiter counts at least what it lets through.
CountedInRedis ==
    backend = "redis" =>
        /\ evicted = {}
        /\ \A b \in Buckets :
              granted[b] <= Limit(b) /\ granted[b] <= IF counter[b].present THEN counter[b].count ELSE 0

\* Two entries a call since the last sweep, the sweeping call included.
Room ==
    backend = "memory" =>
        /\ IsFiniteSet(Present(counter))
        /\ Cardinality(Present(counter)) <= MaxEntries + 2 * (callCount + 1)

LimiterIInv == Typed /\ CountedInMemory /\ CountedInRedis /\ Room

-----------------------------------------------------------------------------
(* Buckets and counters.                                                   *)

\* Limits and windows are positive.
LEMMA LimitType ==
    ASSUME NEW b \in Buckets
    PROVE  Limit(b) \in Nat \ {0} /\ WindowOf(b) \in Nat \ {0}
  <1>1. {IPLimit, KeyLimit, IPWindow, KeyWindow} \subseteq Nat \ {0}
    BY LimiterAssumption
  <1>2. QED
    BY <1>1 DEF Limit, WindowOf

\* The counter of no entry.
LEMMA NoCounterType ==
    /\ NoCounter \in CounterType
    /\ NoCounter.count = 0 /\ NoCounter.left = 0 /\ NoCounter.present = FALSE
  BY DEF NoCounter, CounterType

\* A new counter is empty and has room.
LEMMA FreshType ==
    ASSUME NEW b \in Buckets, NEW lag \in Nat
    PROVE  /\ Fresh(b, lag) \in CounterType
           /\ Fresh(b, lag).count = 0 /\ Fresh(b, lag).present = TRUE
  BY LimitType DEF Fresh, CounterType

\* A counter goes up by one attempt and stays where it is.
LEMMA CountedType ==
    ASSUME NEW c \in CounterType
    PROVE  /\ Counted(c) \in CounterType
           /\ Counted(c).count = c.count + 1 /\ Counted(c).present = c.present
  <1>1. c.count \in Nat /\ c.left \in Int /\ c.present \in BOOLEAN
        /\ c = [count |-> c.count, left |-> c.left, present |-> c.present]
    BY DEF CounterType
  <1>2. Counted(c) = [count |-> c.count + 1, left |-> c.left, present |-> c.present]
    BY <1>1 DEF Counted
  <1>3. QED
    BY <1>1, <1>2 DEF CounterType

\* A counter whose time changes counts the same.
LEMMA MovedType ==
    ASSUME NEW c \in CounterType, NEW left \in Int
    PROVE  LET d == [c EXCEPT !.left = left]
           IN  d \in CounterType /\ d.count = c.count /\ d.present = c.present
  <1>1. c.count \in Nat /\ c.present \in BOOLEAN
        /\ c = [count |-> c.count, left |-> c.left, present |-> c.present]
    BY DEF CounterType
  <1>2. [c EXCEPT !.left = left] = [count |-> c.count, left |-> left, present |-> c.present]
    BY <1>1
  <1>3. QED
    BY <1>1, <1>2 DEF CounterType

\* What INCR leaves: one more attempt in the same window or the first of a new one.
LEMMA IncrementType ==
    ASSUME Typed, NEW b \in Buckets
    PROVE  /\ Increment(b) \in CounterType /\ Increment(b).present
           /\ Increment(b).count = 1 + IF counter[b].present THEN counter[b].count ELSE 0
  <1>1. counter[b] \in CounterType /\ counter[b].count \in Nat
    BY DEF Typed, CounterType
  <1>2. CASE counter[b].present
    BY <1>1, <1>2, CountedType DEF Increment
  <1>3. CASE ~counter[b].present
    <2>1. Fresh(b, 0) \in CounterType /\ Fresh(b, 0).count = 0 /\ Fresh(b, 0).present
      BY FreshType
    <2>2. Increment(b) = Counted(Fresh(b, 0))
      BY <1>3 DEF Increment
    <2>3. QED
      BY <1>3, <2>1, <2>2, CountedType
  <1>4. QED
    BY <1>2, <1>3

\* A call in progress is about a bucket of its address and at most one of an email.
LEMMA CallFacts ==
    ASSUME Typed, NEW c \in Calls, call[c] # NoCall
    PROVE  /\ call[c].pc \in {"called", "key"} /\ call[c].ip \in Buckets
           /\ call[c].lag \in Nat /\ call[c].lag <= MaxLag
           /\ call[c].key \subseteq Buckets /\ AtMostOne(call[c].key)
  <1>1. call[c] \in CallType /\ AtMostOne(call[c].key)
    BY DEF Typed
  <1>2. MaxLag \in Nat
    BY LimiterAssumption
  <1>3. QED
    BY <1>1, <1>2 DEF CallType, Buckets

\* A call that is asked for something is in progress.
LEMMA InProgress ==
    ASSUME NEW c, call[c].pc \in {"called", "key"}
    PROVE  call[c] # NoCall
  BY DEF NoCall

\* Ending a call keeps the calls' types.
LEMMA CallEnds ==
    ASSUME Typed, NEW c \in Calls, call' = [call EXCEPT ![c] = NoCall]
    PROVE  /\ DOMAIN call' = Calls
           /\ \A d \in Calls : call'[d] = NoCall \/ (call'[d] \in CallType /\ AtMostOne(call'[d].key))
  BY DEF Typed

-----------------------------------------------------------------------------
(* The initial state, arrivals, time and the cache limiter.                *)

\* The initial state satisfies the invariant.
LEMMA LimiterInitIInv == LimiterInit => LimiterIInv
  <1> SUFFICES ASSUME LimiterInit PROVE LimiterIInv
    OBVIOUS
  <1>1. CleanupEvery \in Nat \ {0} /\ MaxEntries \in Nat \ {0}
    BY LimiterAssumption
  <1>2. \A b \in Buckets : counter[b] = NoCounter /\ counter[b].count = 0 /\ ~counter[b].present
    BY NoCounterType DEF LimiterInit
  <1>3. Typed
    BY <1>1, NoCounterType DEF LimiterInit, Typed
  <1>4. CountedInMemory /\ CountedInRedis
    BY <1>2, LimitType DEF CountedInMemory, CountedInRedis, LimiterInit
  <1>5. Present(counter) = {}
    BY <1>2 DEF Present
  <1>6. Room
    BY <1>1, <1>5, FS_EmptySet DEF Room, LimiterInit
  <1>7. QED
    BY <1>3, <1>4, <1>6 DEF LimiterIInv

\* A step that leaves the counters and what was granted alone preserves what is
\* said of them.
LEMMA CountersAlone ==
    ASSUME LimiterIInv, Typed', UNCHANGED <<backend, counter, callCount, granted, evicted>>
    PROVE  LimiterIInv'
  <1>1. CountedInMemory' /\ CountedInRedis'
    BY DEF LimiterIInv, CountedInMemory, CountedInRedis
  <1>2. Room'
    BY DEF LimiterIInv, Room, Present
  <1>3. QED
    BY <1>1, <1>2 DEF LimiterIInv

\* An attempt names an address and at most one email.
LEMMA AttemptType ==
    ASSUME NEW attempt \in Attempts
    PROVE  attempt.ip \in ByIP /\ attempt.key \in SUBSET ByKey /\ AtMostOne(attempt.key)
  <1>1. ASSUME NEW kind \in {"login", "signup", "password_reset"}, attempt \in OnKey(kind)
        PROVE  attempt.ip \in ByIP /\ attempt.key \in SUBSET ByKey /\ AtMostOne(attempt.key)
    <2>1. PICK a \in Addresses, m \in IF kind \in Kinds THEN Mailboxes ELSE {} :
             attempt = [ip |-> <<kind, "ip", a>>, key |-> {<<kind, "email", m>>}]
      BY <1>1 DEF OnKey
    <2>2. kind \in Kinds /\ m \in Mailboxes /\ kind \in KeyedKinds
      BY <2>1 DEF KeyedKinds
    <2>3. <<kind, "ip", a>> \in ByIP /\ <<kind, "email", m>> \in ByKey
      BY <2>2 DEF ByIP, ByKey
    <2>4. attempt.ip = <<kind, "ip", a>> /\ attempt.key = {<<kind, "email", m>>}
      BY <2>1
    <2>5. QED
      BY <2>3, <2>4 DEF AtMostOne, Buckets
  <1>2. ASSUME NEW kind, attempt \in OnAddress(kind)
        PROVE  attempt.ip \in ByIP /\ attempt.key \in SUBSET ByKey /\ AtMostOne(attempt.key)
    <2>1. PICK a \in IF kind \in Kinds THEN Addresses ELSE {} :
             attempt = [ip |-> <<kind, "ip", a>>, key |-> {}]
      BY <1>2 DEF OnAddress
    <2>2. kind \in Kinds /\ a \in Addresses
      BY <2>1
    <2>3. <<kind, "ip", a>> \in ByIP
      BY <2>2 DEF ByIP
    <2>4. attempt.ip = <<kind, "ip", a>> /\ attempt.key = {}
      BY <2>1
    <2>5. QED
      BY <2>3, <2>4 DEF AtMostOne
  <1>3. QED
    BY <1>1, <1>2 DEF Attempts, AllowLoginAttempt, AllowOAuthAttempt, AllowSignupAttempt,
       AllowPasswordResetAttempt, AllowPasskeyLoginAttempt, AllowPasskeyLoginFinishAttempt,
       AllowChallengeVerifyAttempt, AllowChallengeResendAttempt

\* A call arrives.
LEMMA ArrivesIInv ==
    ASSUME LimiterIInv, NEW c \in Calls, Arrives(c)
    PROVE  LimiterIInv'
  <1>1. PICK attempt \in Attempts :
           /\ call' = [call EXCEPT ![c] = [pc |-> "called", lag |-> 0, ip |-> attempt.ip,
                                           key |-> attempt.key]]
           /\ UNCHANGED <<backend, counter, callCount, granted, evicted>>
    BY DEF Arrives
  <1>2. [pc |-> "called", lag |-> 0, ip |-> attempt.ip, key |-> attempt.key] \in CallType
    BY AttemptType, LimiterAssumption DEF CallType
  <1>3. DOMAIN call' = Calls
        /\ \A d \in Calls : call'[d] = NoCall \/ (call'[d] \in CallType /\ AtMostOne(call'[d].key))
    <2>1. DOMAIN call = Calls
          /\ \A d \in Calls : call[d] = NoCall \/ (call[d] \in CallType /\ AtMostOne(call[d].key))
      BY DEF LimiterIInv, Typed
    <2>2. call'[c] \in CallType /\ AtMostOne(call'[c].key)
      BY <1>1, <1>2, <2>1, AttemptType
    <2>3. \A d \in Calls \ {c} : call'[d] = call[d]
      BY <1>1, <2>1
    <2>4. DOMAIN call' = Calls
      BY <1>1, <2>1
    <2>5. QED
      BY <2>1, <2>2, <2>3, <2>4
  <1>4. Typed'
    BY <1>1, <1>3 DEF LimiterIInv, Typed
  <1>5. QED
    BY <1>1, <1>4, CountersAlone

\* Time passes: Redis forgets what an expired bucket has let through with its counter.
LEMMA TickIInv ==
    ASSUME LimiterIInv, Tick
    PROVE  LimiterIInv'
  <1> USE LimiterAssumption DEF LimiterIInv
  <1>1. \A b \in Buckets : counter[b] \in CounterType /\ counter[b].count \in Nat
                           /\ counter[b].left \in Int /\ counter[b].present \in BOOLEAN
    BY DEF Typed, CounterType
  <1>2. ASSUME NEW b \in Buckets, counter[b].present, ~Dropped(b)
        PROVE  counter'[b] \in CounterType /\ counter'[b].present /\ counter'[b].count = counter[b].count
    <2>1. PICK left \in Int : counter'[b] = [counter[b] EXCEPT !.left = left]
      <3>1. counter'[b] = [counter[b] EXCEPT !.left = IF counter[b].left > -MaxLag THEN counter[b].left - 1
                                                      ELSE counter[b].left]
        BY <1>2 DEF Tick
      <3>2. (IF counter[b].left > -MaxLag THEN counter[b].left - 1 ELSE counter[b].left) \in Int
        BY <1>1
      <3>3. QED
        BY <3>1, <3>2
    <2>2. QED
      BY <1>1, <1>2, <2>1, MovedType
  <1>3. ASSUME NEW b \in Buckets, ~counter[b].present \/ Dropped(b)
        PROVE  counter'[b] \in CounterType /\ ~counter'[b].present /\ counter'[b].count = 0
    BY <1>3, NoCounterType DEF Tick
  <1>4. counter' \in [Buckets -> CounterType]
    <2>1. \A b \in Buckets : counter'[b] \in CounterType
      BY <1>2, <1>3
    <2>2. counter' = [b \in Buckets |-> counter'[b]]
      BY DEF Tick
    <2>3. QED
      BY <2>1, <2>2
  <1>5. granted' \in [Buckets -> Nat]
        /\ \A b \in Buckets : granted'[b] = IF Dropped(b) THEN 0 ELSE granted[b]
    BY DEF Tick, Typed
  <1>6. DOMAIN call' = Calls
        /\ \A d \in Calls : call'[d] = NoCall \/ (call'[d] \in CallType /\ AtMostOne(call'[d].key))
    <2>1. DOMAIN call' = Calls
      BY DEF Tick
    <2>2. ASSUME NEW d \in Calls
          PROVE  call'[d] = NoCall \/ (call'[d] \in CallType /\ AtMostOne(call'[d].key))
      <3>1. CASE call[d].pc # "called"
        <4>1. call'[d] = call[d]
          BY <3>1 DEF Tick
        <4>2. QED
          BY <4>1 DEF Typed
      <3>2. CASE call[d].pc = "called"
        <4>1. call[d] # NoCall
          BY <3>2, InProgress
        <4>2. call[d] \in CallType /\ AtMostOne(call[d].key)
          BY <4>1 DEF Typed
        <4>3. call[d].lag \in 0 .. MaxLag /\ call[d].lag < MaxLag /\ MaxLag \in Nat /\ call[d].ip \in ByIP /\ call[d].key \in SUBSET ByKey
              /\ call[d] = [pc |-> call[d].pc, lag |-> call[d].lag, ip |-> call[d].ip, key |-> call[d].key]
          BY <3>2, <4>2 DEF CallType, Tick
        <4>4. call'[d] = [call[d] EXCEPT !.lag = call[d].lag + 1]
          BY <3>2 DEF Tick
        <4>5. call'[d] = [pc |-> "called", lag |-> call[d].lag + 1, ip |-> call[d].ip, key |-> call[d].key]
          BY <3>2, <4>3, <4>4
        <4>6. QED
          BY <4>2, <4>3, <4>5 DEF CallType
      <3>3. QED
        BY <3>1, <3>2
    <2>3. QED
      BY <2>1, <2>2
  <1>7. Typed'
    BY <1>4, <1>5, <1>6 DEF Typed, Tick
  <1>8. CountedInMemory'
    <2>1. SUFFICES ASSUME backend = "memory", NEW b \in Buckets
                   PROVE  /\ counter'[b].count <= Limit(b)
                          /\ b \notin evicted => granted'[b] = IF counter'[b].present THEN counter'[b].count ELSE 0
      BY DEF CountedInMemory, Tick
    <2>2. ~Dropped(b) /\ granted'[b] = granted[b]
      BY <1>5, <2>1 DEF Dropped
    <2>3. QED
      BY <1>2, <1>3, <2>1, <2>2, LimitType DEF CountedInMemory
  <1>9. CountedInRedis'
    <2>1. SUFFICES ASSUME backend = "redis", NEW b \in Buckets
                   PROVE  /\ granted'[b] <= Limit(b)
                          /\ granted'[b] <= IF counter'[b].present THEN counter'[b].count ELSE 0
      BY DEF CountedInRedis, Tick
    <2>2. granted[b] \in Nat
      BY DEF Typed
    <2>3. QED
      BY <1>1, <1>2, <1>3, <1>5, <2>1, <2>2, LimitType DEF CountedInRedis
  <1>10. Room'
    <2>1. SUFFICES ASSUME backend = "memory"
                   PROVE  Room'
      BY DEF Room, Tick
    <2>2. Present(counter') = Present(counter)
      BY <1>2, <1>3, <2>1 DEF Present, Dropped
    <2>3. QED
      BY <2>1, <2>2 DEF Room, Tick
  <1>11. QED
    BY <1>7, <1>8, <1>9, <1>10

\* An increment that the cache limiter counts, of a bucket that it may have let through.
LEMMA IncrementKeepsIInv ==
    ASSUME LimiterIInv, backend = "redis", NEW b \in Buckets,
           UNCHANGED <<backend, callCount, evicted>>,
           counter' = [counter EXCEPT ![b] = Increment(b)],
           IF Refused(b) THEN granted' = granted ELSE granted' = [granted EXCEPT ![b] = @ + 1],
           DOMAIN call' = Calls,
           \A d \in Calls : call'[d] = NoCall \/ (call'[d] \in CallType /\ AtMostOne(call'[d].key))
    PROVE  LimiterIInv'
  <1> USE DEF LimiterIInv
  <1>1. Increment(b) \in CounterType /\ Increment(b).present
        /\ Increment(b).count = 1 + IF counter[b].present THEN counter[b].count ELSE 0
    BY IncrementType
  <1>2. counter' \in [Buckets -> CounterType] /\ counter'[b] = Increment(b)
        /\ \A x \in Buckets \ {b} : counter'[x] = counter[x]
    BY <1>1 DEF Typed
  <1>3. granted' \in [Buckets -> Nat] /\ granted'[b] = (IF Refused(b) THEN granted[b] ELSE granted[b] + 1)
        /\ \A x \in Buckets \ {b} : granted'[x] = granted[x]
    BY DEF Typed
  <1>4. Typed'
    BY <1>2, <1>3 DEF Typed
  <1>5. CountedInRedis'
    <2>1. granted[b] \in Nat /\ counter[b].count \in Nat
      BY DEF Typed, CounterType
    <2>2. Limit(b) \in Nat
      BY LimitType
    <2>3. granted[b] <= Limit(b) /\ granted[b] <= IF counter[b].present THEN counter[b].count ELSE 0
      BY DEF CountedInRedis
    <2>4. granted'[b] <= Limit(b) /\ granted'[b] <= Increment(b).count
      BY <1>1, <1>3, <2>1, <2>2, <2>3 DEF Refused
    <2>5. QED
      BY <1>1, <1>2, <1>3, <2>4 DEF CountedInRedis
  <1>6. CountedInMemory' /\ Room'
    BY DEF CountedInMemory, Room
  <1>7. QED
    BY <1>4, <1>5, <1>6

\* The increment of the address.
LEMMA IncrementIPIInv ==
    ASSUME LimiterIInv, NEW c \in Calls, IncrementIP(c)
    PROVE  LimiterIInv'
  <1> DEFINE b == call[c].ip
  <1>1. /\ backend = "redis" /\ call[c].pc = "called"
        /\ counter' = [counter EXCEPT ![b] = Increment(b)]
        /\ call' = [call EXCEPT ![c] = IF Refused(b) \/ call[c].key = {} THEN NoCall
                                       ELSE [call[c] EXCEPT !.pc = "key"]]
        /\ IF Refused(b) THEN granted' = granted ELSE granted' = [granted EXCEPT ![b] = @ + 1]
        /\ UNCHANGED <<backend, callCount, evicted>>
    BY DEF IncrementIP
  <1>2. call[c] # NoCall
    BY <1>1, InProgress
  <1>3. call[c] \in CallType /\ AtMostOne(call[c].key) /\ b \in Buckets
    BY <1>2, CallFacts DEF LimiterIInv, Typed
  <1>4. [call[c] EXCEPT !.pc = "key"] \in CallType /\ [call[c] EXCEPT !.pc = "key"].key = call[c].key
    <2>1. call[c].lag \in 0 .. MaxLag /\ call[c].ip \in ByIP /\ call[c].key \in SUBSET ByKey
          /\ call[c] = [pc |-> call[c].pc, lag |-> call[c].lag, ip |-> call[c].ip, key |-> call[c].key]
      BY <1>3 DEF CallType
    <2>2. [call[c] EXCEPT !.pc = "key"] =
             [pc |-> "key", lag |-> call[c].lag, ip |-> call[c].ip, key |-> call[c].key]
      BY <2>1
    <2>3. QED
      BY <2>1, <2>2 DEF CallType
  <1>5. DOMAIN call' = Calls
        /\ \A d \in Calls : call'[d] = NoCall \/ (call'[d] \in CallType /\ AtMostOne(call'[d].key))
    <2>1. DOMAIN call = Calls
          /\ \A d \in Calls : call[d] = NoCall \/ (call[d] \in CallType /\ AtMostOne(call[d].key))
      BY DEF LimiterIInv, Typed
    <2>2. call'[c] = NoCall \/ call'[c] = [call[c] EXCEPT !.pc = "key"]
      BY <1>1, <2>1
    <2>3. \A d \in Calls \ {c} : call'[d] = call[d]
      BY <1>1, <2>1
    <2>4. DOMAIN call' = Calls
      BY <1>1, <2>1
    <2>5. call'[c] = NoCall \/ (call'[c] \in CallType /\ AtMostOne(call'[c].key))
      BY <1>3, <1>4, <2>2
    <2>6. QED
      BY <2>1, <2>3, <2>4, <2>5
  <1> HIDE DEF b
  <1>6. QED
    BY <1>1, <1>3, <1>5, IncrementKeepsIInv

\* The increment of the email.
LEMMA IncrementKeyIInv ==
    ASSUME LimiterIInv, NEW c \in Calls, IncrementKey(c)
    PROVE  LimiterIInv'
  <1>1. PICK b \in call[c].key :
           /\ backend = "redis" /\ call[c].pc = "key"
           /\ counter' = [counter EXCEPT ![b] = Increment(b)]
           /\ call' = [call EXCEPT ![c] = NoCall]
           /\ IF Refused(b) THEN granted' = granted ELSE granted' = [granted EXCEPT ![b] = @ + 1]
           /\ UNCHANGED <<backend, callCount, evicted>>
    BY DEF IncrementKey
  <1>2. b \in Buckets
    BY <1>1, CallFacts, InProgress DEF LimiterIInv
  <1>3. DOMAIN call' = Calls
        /\ \A d \in Calls : call'[d] = NoCall \/ (call'[d] \in CallType /\ AtMostOne(call'[d].key))
    BY <1>1, CallEnds DEF LimiterIInv
  <1>4. QED
    BY <1>1, <1>2, <1>3, IncrementKeepsIInv

\* Redis fails: a count without a grant.
LEMMA IncrementFailsIInv ==
    ASSUME LimiterIInv, NEW c \in Calls, IncrementFails(c)
    PROVE  LimiterIInv'
  <1> USE DEF LimiterIInv
  <1>1. PICK bs : /\ backend = "redis" /\ call[c] # NoCall
                  /\ call' = [call EXCEPT ![c] = NoCall]
                  /\ counter' = counter
                     \/ counter' = [x \in Buckets |-> IF x \in bs THEN Increment(x) ELSE counter[x]]
                  /\ UNCHANGED <<backend, callCount, granted, evicted>>
    BY DEF IncrementFails
  <1>2. \A x \in Buckets :
           /\ Increment(x) \in CounterType /\ Increment(x).present
           /\ Increment(x).count = 1 + IF counter[x].present THEN counter[x].count ELSE 0
    BY IncrementType
  <1>3. counter \in [Buckets -> CounterType] /\ \A x \in Buckets : counter[x].count \in Nat
    BY DEF Typed, CounterType
  <1>4. counter' \in [Buckets -> CounterType]
        /\ \A x \in Buckets : counter'[x] = counter[x] \/ counter'[x] = Increment(x)
    BY <1>1, <1>2, <1>3
  <1>5. DOMAIN call' = Calls
        /\ \A d \in Calls : call'[d] = NoCall \/ (call'[d] \in CallType /\ AtMostOne(call'[d].key))
    BY <1>1, CallEnds
  <1>6. Typed'
    BY <1>1, <1>4, <1>5 DEF Typed
  <1>7. CountedInRedis'
    <2>1. SUFFICES ASSUME NEW x \in Buckets
                   PROVE  /\ granted'[x] <= Limit(x)
                          /\ granted'[x] <= IF counter'[x].present THEN counter'[x].count ELSE 0
      BY <1>1 DEF CountedInRedis
    <2>2. granted'[x] = granted[x] /\ granted[x] \in Nat
      BY <1>1 DEF Typed
    <2>3. granted[x] <= Limit(x) /\ granted[x] <= IF counter[x].present THEN counter[x].count ELSE 0
      BY <1>1 DEF CountedInRedis
    <2>4. CASE counter'[x] = counter[x]
      BY <2>2, <2>3, <2>4
    <2>5. CASE counter'[x] = Increment(x)
      BY <1>2, <1>3, <2>2, <2>3, <2>5
    <2>6. QED
      BY <1>4, <2>4, <2>5
  <1>8. CountedInMemory' /\ Room'
    BY <1>1 DEF CountedInMemory, Room
  <1>9. QED
    BY <1>6, <1>7, <1>8

-----------------------------------------------------------------------------
(* The memory limiter.                                                     *)

\* What a cleanup may have done to the counters before they are looked up.
Cleaned(lag, swept, gone) ==
    /\ swept \in {counter, Sweep(counter, lag)} /\ gone \subseteq Present(swept)
    /\ Cleanup(lag, gone, swept)

Kept(swept, gone) == [b \in Buckets |-> IF b \in gone THEN NoCounter ELSE swept[b]]

\* Only a live counter is dropped, an expired one may be swept, the others stay.
LEMMA CleanedFacts ==
    ASSUME Typed, NEW lag \in Nat, NEW swept, NEW gone, Cleaned(lag, swept, gone), NEW b \in Buckets
    PROVE  /\ swept[b] = counter[b] \/ (swept[b] = NoCounter /\ ~Live(counter[b], lag))
           /\ b \in gone => Live(counter[b], lag)
           /\ Kept(swept, gone)[b] \in CounterType
           /\ b \notin gone => Kept(swept, gone)[b] = swept[b]
  <1>1. swept[b] = counter[b] \/ (swept[b] = NoCounter /\ ~Live(counter[b], lag))
    BY DEF Cleaned, Sweep
  <1>2. ASSUME b \in gone PROVE Live(counter[b], lag)
    <2>1. gone # {}
      BY <1>2
    <2>2. swept = Sweep(counter, lag)
      BY <2>1 DEF Cleaned, Cleanup
    <2>3. swept[b].present
      BY <1>2 DEF Cleaned, Present
    <2>4. QED
      BY <2>2, <2>3, NoCounterType DEF Sweep
  <1>3. Kept(swept, gone)[b] \in CounterType
    BY <1>1, NoCounterType DEF Kept, Typed
  <1>4. QED
    BY <1>1, <1>2, <1>3 DEF Kept

\* The counter that a call finds: the live one, or a new one.
LEMMA FoundFacts ==
    ASSUME Typed, NEW lag \in Nat, NEW swept, NEW gone, Cleaned(lag, swept, gone), NEW b \in Buckets
    PROVE  LET found == getCounter(Kept(swept, gone), b, lag)
           IN  /\ found \in CounterType /\ found.present
               /\ b \notin gone /\ Live(counter[b], lag) => found = counter[b]
               /\ b \in gone \/ ~Live(counter[b], lag) => found.count = 0
  <1> DEFINE k == Kept(swept, gone)[b]
             found == getCounter(Kept(swept, gone), b, lag)
  <1>1. /\ swept[b] = counter[b] \/ (swept[b] = NoCounter /\ ~Live(counter[b], lag))
        /\ k \in CounterType /\ (b \notin gone => k = swept[b])
    BY CleanedFacts
  <1>2. b \in gone => k = NoCounter
    BY DEF Kept
  <1>3. ~Live(NoCounter, lag)
    BY NoCounterType DEF Live
  <1>4. Fresh(b, lag) \in CounterType /\ Fresh(b, lag).count = 0 /\ Fresh(b, lag).present
    BY FreshType
  <1>5. found = IF Live(k, lag) THEN k ELSE Fresh(b, lag)
    BY DEF getCounter
  <1>6. Live(k, lag) => k.present
    BY DEF Live
  <1> HIDE DEF k, found
  <1>7. found \in CounterType /\ found.present
    BY <1>1, <1>4, <1>5, <1>6
  <1>8. b \notin gone /\ Live(counter[b], lag) => found = counter[b]
    BY <1>1, <1>5
  <1>9. b \in gone \/ ~Live(counter[b], lag) => found.count = 0
    BY <1>1, <1>2, <1>3, <1>4, <1>5
  <1>10. QED
    BY <1>7, <1>8, <1>9 DEF found

\* The maps are in an order.
LEMMA RankType ==
    ASSUME NEW b \in Buckets
    PROVE  EvictionRank(b) \in Int
  <1>1. b[1] \in {"login", "signup", "password_reset", "passkey_login", "passkey_login_finish",
                  "challenge_verify", "challenge_resend"}
    BY LimiterAssumption DEF Buckets, ByIP, ByKey, KeyedKinds
  <1>2. QED
    BY <1>1 DEF EvictionRank

\* A cleanup leaves room for the two entries of its call; without one the call adds two.
LEMMA CleanedRoom ==
    ASSUME LimiterIInv, backend = "memory", NEW lag \in Nat, NEW swept, NEW gone, Cleaned(lag, swept, gone)
    PROVE  LET left == Present(swept) \ gone
           IN  /\ IsFiniteSet(left)
               /\ Cardinality(left) <= IF callCount + 1 = CleanupEvery THEN MaxEntries
                                       ELSE MaxEntries + 2 * (callCount + 1)
  <1> DEFINE left == Present(swept) \ gone
  <1>1. IsFiniteSet(Present(counter)) /\ Cardinality(Present(counter)) <= MaxEntries + 2 * (callCount + 1)
    BY DEF LimiterIInv, Room
  <1>2. MaxEntries \in Nat /\ callCount \in Nat
    BY LimiterAssumption DEF LimiterIInv, Typed
  <1>3. Present(swept) \subseteq Present(counter)
    <2>1. SUFFICES ASSUME NEW b \in Present(swept) PROVE b \in Present(counter)
      OBVIOUS
    <2>2. b \in Buckets /\ swept[b].present
      BY DEF Present
    <2>3. swept[b] = counter[b]
      BY <2>2, CleanedFacts, NoCounterType DEF LimiterIInv
    <2>4. QED
      BY <2>2, <2>3 DEF Present
  <1>4. IsFiniteSet(Present(swept)) /\ Cardinality(Present(swept)) \in Nat
        /\ Cardinality(Present(swept)) <= Cardinality(Present(counter))
    BY <1>1, <1>3, FS_Subset, FS_CardinalityType
  <1>5. Cardinality(Present(counter)) \in Nat
    BY <1>1, FS_CardinalityType
  <1>6. IsFiniteSet(left) /\ Cardinality(left) \in Nat /\ Cardinality(left) <= Cardinality(Present(swept))
    BY <1>4, FS_Subset, FS_CardinalityType
  <1>7. CASE callCount + 1 # CleanupEvery
    BY <1>1, <1>2, <1>4, <1>5, <1>6, <1>7
  <1>8. CASE callCount + 1 = CleanupEvery
    <2>1. gone \in IF Cardinality(Present(swept)) <= MaxEntries THEN {{}} ELSE Surplus(swept)
      BY <1>8 DEF Cleaned, Cleanup
    <2>2. CASE Cardinality(Present(swept)) <= MaxEntries
      BY <1>2, <1>4, <1>6, <1>8, <2>2
    <2>3. CASE ~(Cardinality(Present(swept)) <= MaxEntries)
      <3>1. gone \subseteq Present(swept)
        BY DEF Cleaned
      <3>2. SUFFICES ASSUME Cardinality(left) > MaxEntries PROVE FALSE
        BY <1>2, <1>6, <1>8
      <3>3. left # {}
        BY <1>2, <3>2, FS_EmptySet
      <3>4. PICK b \in left : TRUE
        BY <3>3
      <3> DEFINE map == {x \in Present(swept) : EvictionRank(x) = EvictionRank(b)}
                 total == Present(swept) \ {x \in gone : EvictionRank(x) < EvictionRank(b)}
                 excess == Cardinality(total) - MaxEntries
                 lost == gone \cap map
      <3>5. Cardinality(lost) = Cleared(Cardinality(map), excess)
        BY <2>1, <2>3, <3>4 DEF Surplus
      <3>6. b \in map /\ lost \subseteq map /\ b \notin lost
        BY <3>4
      <3>7. IsFiniteSet(map) /\ IsFiniteSet(total) /\ IsFiniteSet(lost)
        BY <1>4, <3>6, FS_Subset
      <3>8. Cardinality(map) \in Nat /\ Cardinality(total) \in Nat /\ Cardinality(lost) \in Nat
        BY <3>7, FS_CardinalityType
      <3>9. Cardinality(lost) < Cardinality(map)
        <4>1. Cardinality(lost) <= Cardinality(map) /\ Cardinality(lost) # Cardinality(map)
          BY <3>6, <3>7, FS_Subset
        <4>2. QED
          BY <3>8, <4>1
      <3>10. left \cap lost = {} /\ left \cup lost \subseteq total
        <4>1. \A x \in lost : ~(EvictionRank(x) < EvictionRank(b))
          <5>1. b \in Buckets
            BY <3>4 DEF Present
          <5>2. EvictionRank(b) \in Int
            BY <5>1, RankType
          <5>3. QED
            BY <5>2
        <4>2. QED
          BY <3>1, <4>1
      <3>11. Cardinality(left) + Cardinality(lost) <= Cardinality(total)
        <4>1. Cardinality(left \cup lost) = Cardinality(left) + Cardinality(lost) - Cardinality(left \cap lost)
          BY <1>6, <3>7, FS_Union
        <4>2. Cardinality(left \cap lost) = 0
          BY <3>10, FS_EmptySet
        <4>3. Cardinality(left \cup lost) <= Cardinality(total)
          BY <3>7, <3>10, FS_Subset
        <4>4. QED
          BY <1>6, <3>8, <4>1, <4>2, <4>3
      <3> HIDE DEF left, map, total, lost
      <3>12. QED
        BY <1>2, <1>6, <3>2, <3>5, <3>8, <3>9, <3>11 DEF Cleared
    <2>4. QED
      BY <2>2, <2>3
  <1>9. QED
    BY <1>6, <1>7, <1>8

\* The buckets of a call are at most two.
LEMMA TwoBuckets ==
    ASSUME NEW ip \in Buckets, NEW key, AtMostOne(key)
    PROVE  IsFiniteSet({ip} \cup key) /\ Cardinality({ip} \cup key) \in 0 .. 2
  <1>1. IsFiniteSet({ip}) /\ Cardinality({ip}) = 1
    BY FS_Singleton
  <1>2. CASE key = {}
    BY <1>1, <1>2
  <1>3. CASE \E b \in Buckets : key = {b}
    <2>1. PICK b \in Buckets : key = {b}
      BY <1>3
    <2>2. IsFiniteSet({ip} \cup {b}) /\ Cardinality({ip} \cup {b}) \in {1, 2}
      BY <1>1, FS_AddElement
    <2>3. QED
      BY <2>1, <2>2
  <1>4. QED
    BY <1>2, <1>3 DEF AtMostOne

\* The count of calls since the last cleanup.
LEMMA CallCounts ==
    ASSUME callCount \in 0 .. CleanupEvery - 1
    PROVE  (callCount + 1) % CleanupEvery = IF callCount + 1 = CleanupEvery THEN 0 ELSE callCount + 1
  <1>1. CleanupEvery \in Nat \ {0} /\ callCount \in Nat
    BY LimiterAssumption
  <1>2. QED
    BY <1>1

\* What is left of a bucket's window is the same wherever it is computed.
LEMMA ExpiredIsNotLive ==
    ASSUME Typed, NEW b \in Buckets, NEW lag \in Nat
    PROVE  /\ Expired(counter[b], lag) => ~Live(counter[b], lag)
           /\ counter[b].present /\ ~Live(counter[b], lag) => Expired(counter[b], lag)
  <1>1. counter[b].left + lag \in Int
    BY DEF Typed, CounterType
  <1>2. QED
    BY <1>1 DEF Live, Expired

\* A call of the memory limiter.
LEMMA AllowInMemoryIInv ==
    ASSUME LimiterIInv, NEW c \in Calls, AllowInMemory(c)
    PROVE  LimiterIInv'
  <1> DEFINE lag == call[c].lag
             ip == call[c].ip
             bs == {ip} \cup call[c].key
  <1>1. PICK swept \in {counter, Sweep(counter, lag)} : \E gone \in SUBSET Present(swept) :
           /\ Cleanup(lag, gone, swept)
           /\ LET found(b) == getCounter(Kept(swept, gone), b, lag)
                  used == IF Full(found(ip), ip) THEN {ip} ELSE bs
                  allowed == \A b \in bs : ~Full(found(b), b)
              IN  /\ counter' = [b \in Buckets |-> IF b \notin used THEN Kept(swept, gone)[b]
                                                   ELSE Charge(allowed, found(b))]
                  /\ evicted' = (evicted \cup gone) \
                        {b \in Buckets : Expired(counter[b], lag) /\ (b \in used \/ ~swept[b].present)}
                  /\ granted' = [b \in Buckets |->
                        IF b \in evicted' \/ ~counter'[b].present THEN 0
                        ELSE (IF b \in used /\ ~Live(counter[b], lag) THEN 0 ELSE granted[b])
                             + (IF b \in bs /\ allowed THEN 1 ELSE 0)]
    BY DEF AllowInMemory, Kept
  <1>2. PICK gone \in SUBSET Present(swept) :
           /\ Cleanup(lag, gone, swept)
           /\ LET found(b) == getCounter(Kept(swept, gone), b, lag)
                  used == IF Full(found(ip), ip) THEN {ip} ELSE bs
                  allowed == \A b \in bs : ~Full(found(b), b)
              IN  /\ counter' = [b \in Buckets |-> IF b \notin used THEN Kept(swept, gone)[b]
                                                   ELSE Charge(allowed, found(b))]
                  /\ evicted' = (evicted \cup gone) \
                        {b \in Buckets : Expired(counter[b], lag) /\ (b \in used \/ ~swept[b].present)}
                  /\ granted' = [b \in Buckets |->
                        IF b \in evicted' \/ ~counter'[b].present THEN 0
                        ELSE (IF b \in used /\ ~Live(counter[b], lag) THEN 0 ELSE granted[b])
                             + (IF b \in bs /\ allowed THEN 1 ELSE 0)]
    BY <1>1
  <1> DEFINE kept == Kept(swept, gone)
             found(b) == getCounter(kept, b, lag)
             used == IF Full(found(ip), ip) THEN {ip} ELSE bs
             allowed == \A b \in bs : ~Full(found(b), b)
  <1>3. counter' = [b \in Buckets |-> IF b \notin used THEN kept[b] ELSE Charge(allowed, found(b))]
    BY <1>2
  <1>4. evicted' = (evicted \cup gone) \
                      {b \in Buckets : Expired(counter[b], lag) /\ (b \in used \/ ~swept[b].present)}
    BY <1>2
  <1>5. granted' = [b \in Buckets |->
                      IF b \in evicted' \/ ~counter'[b].present THEN 0
                      ELSE (IF b \in used /\ ~Live(counter[b], lag) THEN 0 ELSE granted[b])
                           + (IF b \in bs /\ allowed THEN 1 ELSE 0)]
    BY <1>2
  <1>6. /\ backend = "memory" /\ call[c].pc = "called" /\ UNCHANGED backend
        /\ callCount' = (callCount + 1) % CleanupEvery /\ call' = [call EXCEPT ![c] = NoCall]
    BY DEF AllowInMemory
  <1>7. Typed
    BY DEF LimiterIInv
  <1>8. lag \in Nat /\ ip \in Buckets /\ bs \subseteq Buckets /\ AtMostOne(call[c].key)
    BY <1>6, <1>7, CallFacts, InProgress
  <1>9. Cleaned(lag, swept, gone)
    BY <1>1, <1>2 DEF Cleaned
  <1>10. used \subseteq bs /\ ip \in bs
    OBVIOUS
  <1>11. \A b \in bs \ used : ~allowed
    OBVIOUS
  <1>12. allowed \in BOOLEAN
    OBVIOUS
  <1>13. \A b \in Buckets :
            /\ found(b) \in CounterType /\ found(b).present
            /\ b \notin gone /\ Live(counter[b], lag) => found(b) = counter[b]
            /\ b \in gone \/ ~Live(counter[b], lag) => found(b).count = 0
    BY <1>7, <1>8, <1>9, FoundFacts
  <1>14. \A b \in Buckets :
            /\ swept[b] = counter[b] \/ (swept[b] = NoCounter /\ ~Live(counter[b], lag))
            /\ b \in gone => Live(counter[b], lag)
            /\ kept[b] \in CounterType
            /\ b \notin gone => kept[b] = swept[b]
    BY <1>7, <1>8, <1>9, CleanedFacts
  <1>15. \A b \in gone : kept[b] = NoCounter
    BY <1>2 DEF Kept, Present
  <1>16. \A b \in bs : allowed => ~Full(found(b), b)
    OBVIOUS
  <1>17. gone \subseteq Buckets
    BY DEF Present
  <1>18. LET left == Present(swept) \ gone
         IN  /\ IsFiniteSet(left)
             /\ Cardinality(left) <= IF callCount + 1 = CleanupEvery THEN MaxEntries
                                     ELSE MaxEntries + 2 * (callCount + 1)
    BY <1>6, <1>8, <1>9, CleanedRoom
  <1>19. IsFiniteSet(bs) /\ Cardinality(bs) \in 0 .. 2
    BY <1>8, TwoBuckets
  <1> HIDE DEF lag, ip, bs, kept, found, used, allowed
  <1>20. \A b \in Buckets : Charge(allowed, found(b)) \in CounterType
            /\ Charge(allowed, found(b)).present
            /\ Charge(allowed, found(b)).count = found(b).count + (IF allowed THEN 1 ELSE 0)
    <2>1. SUFFICES ASSUME NEW b \in Buckets
                   PROVE  /\ Charge(allowed, found(b)) \in CounterType
                          /\ Charge(allowed, found(b)).present
                          /\ Charge(allowed, found(b)).count = found(b).count + (IF allowed THEN 1 ELSE 0)
      OBVIOUS
    <2>2. found(b) \in CounterType /\ found(b).present /\ found(b).count \in Nat
      BY <1>13 DEF CounterType
    <2>3. CASE allowed
      BY <2>2, <2>3, CountedType DEF Charge
    <2>4. CASE ~allowed
      BY <2>2, <2>4 DEF Charge
    <2>5. QED
      BY <2>3, <2>4
  <1>21. \A b \in Buckets : counter'[b] = IF b \notin used THEN kept[b] ELSE Charge(allowed, found(b))
    BY <1>3
  <1>22. counter' \in [Buckets -> CounterType]
    <2>1. \A b \in Buckets : counter'[b] \in CounterType
      BY <1>14, <1>20, <1>21
    <2>2. counter' = [b \in Buckets |-> counter'[b]]
      BY <1>3
    <2>3. QED
      BY <2>1, <2>2
  <1>23. \A b \in Buckets : granted'[b] =
            IF b \in evicted' \/ ~counter'[b].present THEN 0
            ELSE (IF b \in used /\ ~Live(counter[b], lag) THEN 0 ELSE granted[b])
                 + (IF b \in bs /\ allowed THEN 1 ELSE 0)
    BY <1>5
  <1>24. granted' \in [Buckets -> Nat]
    <2>1. granted \in [Buckets -> Nat]
      BY <1>7 DEF Typed
    <2>2. \A b \in Buckets : granted'[b] \in Nat
      BY <1>23, <2>1
    <2>3. granted' = [b \in Buckets |-> granted'[b]]
      BY <1>5
    <2>4. QED
      BY <2>2, <2>3
  <1>25. callCount' = IF callCount + 1 = CleanupEvery THEN 0 ELSE callCount + 1
    BY <1>6, <1>7, CallCounts DEF Typed
  <1>26. CleanupEvery \in Nat \ {0} /\ MaxEntries \in Nat \ {0} /\ callCount \in 0 .. CleanupEvery - 1
    BY <1>7, LimiterAssumption DEF Typed
  <1>27. Typed'
    <2>1. callCount' \in 0 .. CleanupEvery - 1
      BY <1>25, <1>26
    <2>2. evicted' \subseteq Buckets
      BY <1>4, <1>7, <1>17 DEF Typed
    <2>3. backend' \in Backends
      BY <1>6, <1>7 DEF Typed
    <2>4. QED
      BY <1>6, <1>7, <1>22, <1>24, <2>1, <2>2, <2>3, CallEnds DEF Typed
  <1>28. CountedInMemory'
    <2>1. SUFFICES ASSUME NEW b \in Buckets
                   PROVE  /\ counter'[b].count <= Limit(b)
                          /\ b \notin evicted' =>
                                granted'[b] = IF counter'[b].present THEN counter'[b].count ELSE 0
      BY DEF CountedInMemory
    <2>2. /\ counter[b].count <= Limit(b)
          /\ b \notin evicted => granted[b] = IF counter[b].present THEN counter[b].count ELSE 0
      BY <1>6 DEF LimiterIInv, CountedInMemory
    <2>3. Limit(b) \in Nat \ {0} /\ counter[b].count \in Nat /\ counter[b].present \in BOOLEAN
          /\ granted[b] \in Nat
      BY <1>7, LimitType DEF Typed, CounterType
    <2>4. Live(counter[b], lag) => counter[b].present
      BY DEF Live
    <2>5. Live(counter[b], lag) => ~Expired(counter[b], lag)
      BY <1>7, <1>8, ExpiredIsNotLive
    <2>6. counter[b].present /\ ~Live(counter[b], lag) => Expired(counter[b], lag)
      BY <1>7, <1>8, ExpiredIsNotLive
    <2>7. b \notin evicted' =>
             b \notin evicted \/ (Expired(counter[b], lag) /\ (b \in used \/ ~swept[b].present))
      BY <1>4
    <2>8. b \in gone /\ ~Expired(counter[b], lag) => b \in evicted'
      BY <1>4
    <2>9. CASE b \in used
      <3>1. counter'[b] = Charge(allowed, found(b))
        BY <1>21, <2>9
      <3>2. b \in bs
        BY <1>10, <2>9
      <3>3. counter'[b].present /\ counter'[b].count = found(b).count + (IF allowed THEN 1 ELSE 0)
        BY <1>20, <3>1
      <3>4. allowed => found(b).count < Limit(b)
        <4>1. found(b).count \in Nat
          BY <1>13 DEF CounterType
        <4>2. QED
          BY <1>16, <2>3, <3>2, <4>1 DEF Full
      <3>5. found(b).count <= Limit(b) /\ found(b).count \in Nat
        <4>1. found(b).count \in Nat
          BY <1>13 DEF CounterType
        <4>2. found(b) = counter[b] \/ found(b).count = 0
          BY <1>13
        <4>3. QED
          BY <2>2, <2>3, <4>1, <4>2
      <3>6. counter'[b].count <= Limit(b)
        BY <1>12, <2>3, <3>3, <3>4, <3>5
      <3>7. ASSUME b \notin evicted' PROVE granted'[b] = counter'[b].count
        <4>1. granted'[b] = (IF ~Live(counter[b], lag) THEN 0 ELSE granted[b])
                            + (IF allowed THEN 1 ELSE 0)
          BY <1>23, <2>9, <3>2, <3>3, <3>7
        <4>2. CASE Live(counter[b], lag)
          <5>1. b \notin gone /\ b \notin evicted
            BY <2>5, <2>7, <2>8, <3>7, <4>2
          <5>2. found(b) = counter[b]
            BY <1>13, <4>2, <5>1
          <5>3. granted[b] = counter[b].count
            BY <2>2, <2>4, <4>2, <5>1
          <5>4. QED
            BY <3>3, <4>1, <4>2, <5>2, <5>3
        <4>3. CASE ~Live(counter[b], lag)
          BY <1>13, <3>3, <4>1, <4>3
        <4>4. QED
          BY <4>2, <4>3
      <3>8. QED
        BY <3>3, <3>6, <3>7
    <2>10. CASE b \notin used
      <3>1. counter'[b] = kept[b]
        BY <1>21, <2>10
      <3>2. CASE b \in gone
        <4>1. ~counter'[b].present /\ counter'[b].count = 0
          BY <1>15, <3>1, <3>2, NoCounterType
        <4>2. QED
          BY <1>23, <2>3, <4>1
      <3>3. CASE b \notin gone /\ swept[b] = NoCounter
        <4>1. ~counter'[b].present /\ counter'[b].count = 0
          BY <1>14, <3>1, <3>3, NoCounterType
        <4>2. QED
          BY <1>23, <2>3, <4>1
      <3>4. CASE b \notin gone /\ swept[b] = counter[b]
        <4>1. counter'[b] = counter[b]
          BY <1>14, <3>1, <3>4
        <4>2. ~(b \in bs /\ allowed)
          BY <1>11, <2>10
        <4>3. ASSUME b \notin evicted'
              PROVE  granted'[b] = IF counter'[b].present THEN counter'[b].count ELSE 0
          <5>1. b \notin evicted
            BY <2>7, <2>10, <3>4, <4>3 DEF Expired
          <5>2. granted'[b] = IF ~counter'[b].present THEN 0 ELSE granted[b] + 0
            BY <1>23, <2>10, <4>2, <4>3
          <5>3. QED
            BY <2>2, <2>3, <4>1, <5>1, <5>2
        <4>4. QED
          BY <2>2, <4>1, <4>3
      <3>5. QED
        BY <1>14, <3>2, <3>3, <3>4
    <2>11. QED
      BY <2>9, <2>10
  <1>29. CountedInRedis'
    BY <1>6 DEF CountedInRedis
  <1>30. Room'
    <2> DEFINE left == Present(swept) \ gone
               all == left \cup bs
    <2>1. IsFiniteSet(left) /\ Cardinality(left) \in Nat
      BY <1>18, FS_CardinalityType
    <2>2. Cardinality(left \cap bs) \in Nat
      BY <2>1, FS_Subset, FS_CardinalityType
    <2>3. IsFiniteSet(all) /\ Cardinality(all) = Cardinality(left) + Cardinality(bs) - Cardinality(left \cap bs)
      BY <1>19, <2>1, FS_Union
    <2>4. Cardinality(all) <= Cardinality(left) + 2
      BY <1>19, <2>1, <2>2, <2>3
    <2>5. Present(counter') \subseteq all
      <3>1. SUFFICES ASSUME NEW b \in Present(counter'), b \notin bs
                     PROVE  b \in left
        OBVIOUS
      <3>2. b \in Buckets /\ counter'[b].present /\ b \notin used
        BY <1>10, <3>1 DEF Present
      <3>3. kept[b].present
        BY <1>21, <3>2
      <3>4. b \notin gone
        BY <1>15, <3>3, NoCounterType
      <3>5. swept[b].present
        BY <1>14, <3>2, <3>3, <3>4
      <3>6. QED
        BY <3>2, <3>4, <3>5 DEF Present
    <2>6. IsFiniteSet(Present(counter')) /\ Cardinality(Present(counter')) \in Nat
          /\ Cardinality(Present(counter')) <= Cardinality(all)
      BY <2>3, <2>5, FS_Subset, FS_CardinalityType
    <2>7. Cardinality(all) \in Nat
      BY <2>3, FS_CardinalityType
    <2>8. Cardinality(left) <= IF callCount + 1 = CleanupEvery THEN MaxEntries
                               ELSE MaxEntries + 2 * (callCount + 1)
      BY <1>18
    <2> HIDE DEF left, all
    <2>9. Cardinality(Present(counter')) <= MaxEntries + 2 * (callCount' + 1)
      BY <1>25, <1>26, <2>1, <2>4, <2>6, <2>7, <2>8
    <2>10. QED
      BY <2>6, <2>9 DEF Room
  <1>31. QED
    BY <1>27, <1>28, <1>29, <1>30 DEF LimiterIInv

-----------------------------------------------------------------------------

\* Every step preserves the invariant.
LEMMA LimiterNextIInv == LimiterIInv /\ [LimiterNext]_limiterVars => LimiterIInv'
  <1> SUFFICES ASSUME LimiterIInv, [LimiterNext]_limiterVars PROVE LimiterIInv'
    OBVIOUS
  <1>1. CASE UNCHANGED limiterVars
    BY <1>1 DEF limiterVars, LimiterIInv, Typed, CountedInMemory, CountedInRedis, Room, Present
  <1>2. CASE Tick
    BY <1>2, TickIInv
  <1>3. ASSUME NEW c \in Calls, Arrives(c) PROVE LimiterIInv'
    BY <1>3, ArrivesIInv
  <1>4. ASSUME NEW c \in Calls, Decides(c) PROVE LimiterIInv'
    BY <1>4, AllowInMemoryIInv, IncrementIPIInv, IncrementKeyIInv DEF Decides
  <1>5. ASSUME NEW c \in Calls, IncrementFails(c) PROVE LimiterIInv'
    BY <1>5, IncrementFailsIInv
  <1>6. QED
    BY <1>1, <1>2, <1>3, <1>4, <1>5 DEF LimiterNext

\* LimiterIInv holds in every reachable state.
THEOREM LimiterInvariant == LimiterSpec => []LimiterIInv
  BY LimiterInitIInv, LimiterNextIInv, PTL DEF LimiterSpec

-----------------------------------------------------------------------------
(* What the memory limiter forgets.                                        *)

\* A cleanup drops nothing while the entries that are not over fit.
LEMMA NothingDropped ==
    ASSUME LimiterIInv, backend = "memory", NEW lag \in Nat, lag <= MaxLag, NEW swept, NEW gone,
           Cleaned(lag, swept, gone),
           Cardinality({b \in Buckets : Live(counter[b], MaxLag)}) <= MaxEntries
    PROVE  gone = {}
  <1> DEFINE live == {b \in Buckets : Live(counter[b], MaxLag)}
  <1>1. CASE callCount + 1 # CleanupEvery
    BY <1>1 DEF Cleaned, Cleanup
  <1>2. CASE callCount + 1 = CleanupEvery
    <2>1. swept = Sweep(counter, lag)
          /\ gone \in IF Cardinality(Present(swept)) <= MaxEntries THEN {{}} ELSE Surplus(swept)
      BY <1>2 DEF Cleaned, Cleanup
    <2>2. Present(swept) \subseteq live
      <3>1. SUFFICES ASSUME NEW b \in Buckets, swept[b].present PROVE Live(counter[b], MaxLag)
        BY DEF Present
      <3>2. Live(counter[b], lag)
        BY <2>1, <3>1, NoCounterType DEF Sweep
      <3>3. counter[b].left \in Int /\ MaxLag \in Nat
        BY LimiterAssumption DEF LimiterIInv, Typed, CounterType
      <3>4. QED
        BY <3>2, <3>3 DEF Live
    <2>3. IsFiniteSet(live)
      <3>1. live \subseteq Present(counter)
        BY DEF Live, Present
      <3>2. QED
        BY <3>1, FS_Subset DEF LimiterIInv, Room
    <2>4. Cardinality(Present(swept)) <= Cardinality(live) /\ Cardinality(Present(swept)) \in Nat
          /\ Cardinality(live) \in Nat
      BY <2>2, <2>3, FS_Subset, FS_CardinalityType
    <2>5. MaxEntries \in Nat
      BY LimiterAssumption
    <2>6. Cardinality(Present(swept)) <= MaxEntries
      BY <2>4, <2>5
    <2>7. QED
      BY <2>1, <2>6
  <1>3. QED
    BY <1>1, <1>2

\* So a call of the memory limiter keeps every entry whose window is not over.
LEMMA AllowKeeps ==
    ASSUME LimiterIInv, NEW c \in Calls, AllowInMemory(c)
    PROVE  KeptWhileRoom
  <1> SUFFICES ASSUME backend = "memory",
                      Cardinality({b \in Buckets : Live(counter[b], MaxLag)}) <= MaxEntries,
                      NEW b \in Buckets, Live(counter[b], 0)
               PROVE  counter'[b].present /\ counter'[b].count >= counter[b].count
    BY DEF KeptWhileRoom
  <1> DEFINE lag == call[c].lag
             ip == call[c].ip
             bs == {ip} \cup call[c].key
  <1>1. PICK swept \in {counter, Sweep(counter, lag)} : \E gone \in SUBSET Present(swept) :
           /\ Cleanup(lag, gone, swept)
           /\ LET found(x) == getCounter(Kept(swept, gone), x, lag)
                  used == IF Full(found(ip), ip) THEN {ip} ELSE bs
                  allowed == \A x \in bs : ~Full(found(x), x)
              IN  /\ counter' = [x \in Buckets |-> IF x \notin used THEN Kept(swept, gone)[x]
                                                   ELSE Charge(allowed, found(x))]
                  /\ evicted' = (evicted \cup gone) \
                        {x \in Buckets : Expired(counter[x], lag) /\ (x \in used \/ ~swept[x].present)}
                  /\ granted' = [x \in Buckets |->
                        IF x \in evicted' \/ ~counter'[x].present THEN 0
                        ELSE (IF x \in used /\ ~Live(counter[x], lag) THEN 0 ELSE granted[x])
                             + (IF x \in bs /\ allowed THEN 1 ELSE 0)]
    BY DEF AllowInMemory, Kept
  <1>2. PICK gone \in SUBSET Present(swept) :
           /\ Cleanup(lag, gone, swept)
           /\ LET found(x) == getCounter(Kept(swept, gone), x, lag)
                  used == IF Full(found(ip), ip) THEN {ip} ELSE bs
                  allowed == \A x \in bs : ~Full(found(x), x)
              IN  counter' = [x \in Buckets |-> IF x \notin used THEN Kept(swept, gone)[x]
                                                ELSE Charge(allowed, found(x))]
    BY <1>1
  <1>3. lag \in Nat /\ lag <= MaxLag
    BY CallFacts, InProgress DEF AllowInMemory, LimiterIInv
  <1>4. Cleaned(lag, swept, gone)
    BY <1>1, <1>2 DEF Cleaned
  <1> HIDE DEF lag, bs, ip
  <1>5. gone = {}
    BY <1>3, <1>4, NothingDropped
  <1>6. counter[b] \in CounterType /\ counter[b].count \in Nat /\ counter[b].left \in Int
    BY DEF LimiterIInv, Typed, CounterType
  <1>7. Live(counter[b], lag)
    BY <1>3, <1>6 DEF Live
  <1>8. Kept(swept, gone)[b] = counter[b] /\ getCounter(Kept(swept, gone), b, lag) = counter[b]
    BY <1>3, <1>4, <1>5, <1>7, CleanedFacts, FoundFacts DEF LimiterIInv
  <1>9. counter'[b] = counter[b] \/ counter'[b] = Charge(TRUE, counter[b])
        \/ counter'[b] = Charge(FALSE, counter[b])
    BY <1>2, <1>8 DEF Charge
  <1>10. Counted(counter[b]).present = counter[b].present
         /\ Counted(counter[b]).count = counter[b].count + 1
    BY <1>6, CountedType
  <1>11. counter[b].present
    BY DEF Live
  <1>12. counter'[b] = counter[b] \/ counter'[b] = Counted(counter[b])
    BY <1>9 DEF Charge
  <1>13. counter'[b].present /\ (counter'[b].count = counter[b].count \/ counter'[b].count = counter[b].count + 1)
    BY <1>10, <1>11, <1>12
  <1>14. QED
    BY <1>6, <1>13

\* Every step of the limiter does.
LEMMA NextKeeps == LimiterIInv /\ [LimiterNext]_limiterVars => [KeptWhileRoom]_limiterVars
  <1> SUFFICES ASSUME LimiterIInv, LimiterNext, backend = "memory" PROVE KeptWhileRoom
    BY DEF KeptWhileRoom
  <1>1. \A b \in Buckets : counter[b].count \in Nat
    BY DEF LimiterIInv, Typed, CounterType
  <1>2. CASE counter' = counter
    BY <1>1, <1>2 DEF KeptWhileRoom, Live
  <1>3. CASE Tick
    <2>1. SUFFICES ASSUME NEW b \in Buckets, Live(counter[b], 0)
                   PROVE  counter'[b].present /\ counter'[b].count >= counter[b].count
      BY DEF KeptWhileRoom
    <2>2. counter[b].present /\ ~Dropped(b) /\ counter[b] \in CounterType
      BY <2>1 DEF Live, Dropped, LimiterIInv, Typed
    <2>3. counter'[b] = [counter[b] EXCEPT !.left = IF counter[b].left > -MaxLag THEN counter[b].left - 1
                                                    ELSE counter[b].left]
      BY <1>3, <2>2 DEF Tick
    <2>4. counter'[b].present = counter[b].present /\ counter'[b].count = counter[b].count
      BY <2>2, <2>3 DEF CounterType
    <2>5. QED
      BY <1>1, <2>2, <2>4
  <1>4. ASSUME NEW c \in Calls, Arrives(c) PROVE counter' = counter
    BY <1>4 DEF Arrives
  <1>5. ASSUME NEW c \in Calls, Decides(c) PROVE AllowInMemory(c)
    BY <1>5 DEF Decides, IncrementIP, IncrementKey
  <1>6. ASSUME NEW c \in Calls PROVE ~IncrementFails(c)
    BY DEF IncrementFails
  <1>7. QED
    BY <1>2, <1>3, <1>4, <1>5, <1>6, AllowKeeps DEF LimiterNext

\* However calls of Allow overlap, whenever their clocks were read, entries are
\* swept or evicted and Redis fails: a bucket lets at most its limit through in
\* one window, or since the memory limiter has dropped its entry; it drops none
\* while those whose window is not over fit; and the maps keep their bound
\* (getCounterLocked, enforceMaxEntriesLocked, Increment).
THEOREM WindowsHold == LimiterSpec => WindowHolds
  <1> DEFINE Bounds == LimiterTypeOK /\ EntriesBounded
             Limits == \A b \in Buckets : IF b \in evicted THEN counter[b].count <= Limit(b)
                                          ELSE granted[b] <= Limit(b)
  <1>1. ASSUME LimiterIInv PROVE Bounds /\ Limits
    <2> USE LimiterAssumption DEF LimiterIInv
    <2>1. LimiterTypeOK
      <3>1. backend \in Backends /\ callCount \in 0 .. CleanupEvery - 1 /\ evicted \subseteq Buckets
        BY <1>1 DEF Typed
      <3>2. \A c \in Calls : call[c] # NoCall => call[c].ip \in ByIP /\ call[c].key \subseteq ByKey
        BY <1>1 DEF Typed, CallType
      <3>3. \A b \in Buckets :
               backend = "memory" /\ counter[b].present /\ b \notin evicted => counter[b].count = granted[b]
        BY <1>1 DEF CountedInMemory
      <3>4. QED
        BY <3>1, <3>2, <3>3 DEF LimiterTypeOK
    <2>2. EntriesBounded
      <3>1. CASE backend = "memory"
        <4>1. Cardinality(Present(counter)) \in Nat
              /\ Cardinality(Present(counter)) <= MaxEntries + 2 * (callCount + 1)
          BY <1>1, <3>1, FS_CardinalityType DEF Room
        <4>2. callCount \in 0 .. CleanupEvery - 1 /\ MaxEntries \in Nat /\ CleanupEvery \in Nat \ {0}
          BY <1>1 DEF Typed
        <4>3. QED
          BY <4>1, <4>2 DEF EntriesBounded
      <3>2. QED
        BY <3>1 DEF EntriesBounded
    <2>3. Limits
      <3>1. SUFFICES ASSUME NEW b \in Buckets
                     PROVE  IF b \in evicted THEN counter[b].count <= Limit(b) ELSE granted[b] <= Limit(b)
        OBVIOUS
      <3>2. Limit(b) \in Nat /\ backend \in {"memory", "redis"}
        BY <1>1, LimitType DEF Typed
      <3>3. CASE backend = "memory"
        BY <1>1, <3>2, <3>3 DEF CountedInMemory
      <3>4. CASE backend = "redis"
        <4>1. evicted = {}
          BY <1>1, <3>4 DEF CountedInRedis
        <4>2. QED
          BY <1>1, <3>4, <4>1 DEF CountedInRedis
      <3>5. QED
        BY <3>2, <3>3, <3>4
    <2>4. QED
      BY <2>1, <2>2, <2>3
  <1> HIDE DEF Bounds, Limits
  <1>2. LimiterSpec => []Bounds /\ []Limits
    BY <1>1, LimiterInvariant, PTL
  <1>3. LimiterSpec => [][KeptWhileRoom]_limiterVars
    BY NextKeeps, LimiterInvariant, PTL DEF LimiterSpec
  <1>4. QED
    BY <1>2, <1>3 DEF WindowHolds, Bounds, Limits

=============================================================================
