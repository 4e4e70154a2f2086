----------------------------- MODULE RateLimiter -----------------------------
(***************************************************************************)
(* The limiter in front of logins, signups, resets, passkeys and codes: a  *)
(* fixed window counter per address and, for three kinds, per email.  One  *)
(* deployment has one of two limiters.  InMemoryLimiter keeps the counters *)
(* in maps under a mutex and drops entries when there are too many; the    *)
(* CacheLimiter increments them in Redis, one after the other.             *)
(*                                                                         *)
(* Time is relative: left is the time until a counter's reset, lag the     *)
(* time since a call read its clock, which it does before the mutex.       *)
(***************************************************************************)
EXTENDS Integers, FiniteSets

CONSTANTS
    Kinds,          \* the modelled kinds, of those in EvictionRank
    Addresses, Mailboxes,
    Calls,          \* calls that may run at the same time
    Backends,       \* limiters to consider, of {"memory", "redis"}
    IPLimit, KeyLimit, IPWindow, KeyWindow,
    CleanupEvery, MaxEntries,
    MaxLag,         \* bound: time between a call's clock and its counters
    Overrun         \* bound: how far refused attempts count in Redis

ASSUME LimiterAssumption ==
    /\ {IPLimit, KeyLimit, IPWindow, KeyWindow, CleanupEvery, MaxEntries} \subseteq Nat \ {0}
    /\ Kinds \subseteq {"login", "signup", "password_reset", "passkey_login", "passkey_login_finish",
                       "challenge_verify", "challenge_resend"}
    /\ MaxLag \in Nat /\ Overrun \in Nat /\ Backends \subseteq {"memory", "redis"}

KeyedKinds == {"login", "signup", "password_reset"} \cap Kinds

\* The maps of the limiter, or the key prefixes in Redis.
ByIP == Kinds \X {"ip"} \X Addresses
ByKey == KeyedKinds \X {"email"} \X Mailboxes
Buckets == ByIP \cup ByKey

VARIABLES
    backend,     \* which limiter NewServices has made
    counter,     \* the counters
    callCount,   \* calls of the memory limiter, modulo CleanupEvery
    call,        \* calls in progress
    granted,     \* history: attempts a bucket has let through in its window
    evicted      \* history: buckets dropped before the end of their window, not counted in granted

limiterVars == <<backend, counter, callCount, call, granted, evicted>>

NoCounter == [count |-> 0, left |-> 0, present |-> FALSE]
NoCall == [pc |-> "none", lag |-> 0, ip |-> <<>>, key |-> {}]

Limit(b) == IF b[2] = "ip" THEN IPLimit ELSE KeyLimit
WindowOf(b) == IF b[2] = "ip" THEN IPWindow ELSE KeyWindow

\* The counter is there, and now.Before(reset).
Live(c, lag) == c.present /\ c.left + lag > 0
Expired(c, lag) == c.present /\ c.left + lag <= 0

-----------------------------------------------------------------------------
(* InMemoryLimiter.  All of a call after its clock is under the mutex.     *)

\* sweepExpiredLocked.
Sweep(cs, lag) == [b \in Buckets |-> IF Live(cs[b], lag) THEN cs[b] ELSE NoCounter]

\* Maps are emptied in this order, in no order within a map.
EvictionRank(b) ==
    LET rank == [login |-> 1, signup |-> 2, password_reset |-> 3, passkey_login |-> 4,
                 passkey_login_finish |-> 5, challenge_verify |-> 6, challenge_resend |-> 7]
    IN  rank[b[1]] + (IF b[2] = "ip" THEN 0 ELSE 7)

Present(cs) == {b \in Buckets : cs[b].present}

\* clearMap: how many entries a map of this size loses when the total is over
\* the bound by excess.  It drops an entry before it looks at the total.
Cleared(size, excess) == IF excess >= size THEN size ELSE IF excess >= 1 THEN excess ELSE 1

\* enforceMaxEntriesLocked: the sets of entries it may drop.  A return of
\* clearMap leaves one map, and the next one is cleared all the same: it loses
\* an entry although there is room by then.
Surplus(cs) ==
    {gone \in SUBSET Present(cs) : \A b \in Present(cs) :
        LET map == {x \in Present(cs) : EvictionRank(x) = EvictionRank(b)}
            total == Present(cs) \ {x \in gone : EvictionRank(x) < EvictionRank(b)}
        IN  Cardinality(gone \cap map) = Cleared(Cardinality(map), Cardinality(total) - MaxEntries)}

\* Mutant: counted before the sweep.
CountedUnswept(lag, gone, swept) ==
    IF callCount + 1 = CleanupEvery
    THEN /\ swept = Sweep(counter, lag)
         /\ gone \in IF Cardinality(Present(counter)) <= MaxEntries THEN {{}} ELSE Surplus(swept)
    ELSE swept = counter /\ gone = {}
\* Every CleanupEvery-th call sweeps, and drops what is too much.
Cleanup(lag, gone, swept) ==
    IF callCount + 1 = CleanupEvery
    THEN /\ swept = Sweep(counter, lag)
         /\ gone \in IF Cardinality(Present(swept)) <= MaxEntries THEN {{}} ELSE Surplus(swept)
    ELSE swept = counter /\ gone = {}

Fresh(b, lag) == [count |-> 0, left |-> WindowOf(b) - lag, present |-> TRUE]

\* Mutant: a refused attempt starts the window again.
Extended(cs, b, lag) == IF Live(cs[b], lag)
                        THEN [cs[b] EXCEPT !.left = IF cs[b].count >= Limit(b) THEN WindowOf(b) ELSE @]
                        ELSE Fresh(b, lag)
\* getCounterLocked.
getCounter(cs, b, lag) == IF Live(cs[b], lag) THEN cs[b] ELSE Fresh(b, lag)

Full(c, b) == c.count >= Limit(b)
Counted(c) == [c EXCEPT !.count = @ + 1]

\* The counters go up only if both let the attempt through.
Charge(allowed, c) == IF allowed THEN Counted(c) ELSE c

\* allow and allowIP; key is {} or the bucket of the email.
AllowInMemory(c) ==
    LET lag == call[c].lag
        ip == call[c].ip
        bs == {ip} \cup call[c].key
    IN  /\ backend = "memory" /\ call[c].pc = "called"
        /\ \E swept \in {counter, Sweep(counter, lag)} : \E gone \in SUBSET Present(swept) :
              /\ Cleanup(lag, gone, swept)
              /\ LET kept == [b \in Buckets |-> IF b \in gone THEN NoCounter ELSE swept[b]]
                     found(b) == getCounter(kept, b, lag)
                     \* The counter of the email is looked up only if the address may go on.
                     used == IF Full(found(ip), ip) THEN {ip} ELSE bs
                     allowed == \A b \in bs : ~Full(found(b), b)
                 IN  /\ counter' = [b \in Buckets |-> IF b \notin used THEN kept[b]
                                                      ELSE Charge(allowed, found(b))]
                     /\ evicted' = (evicted \cup gone) \
                           {b \in Buckets : Expired(counter[b], lag) /\ (b \in used \/ ~swept[b].present)}
                     /\ granted' = [b \in Buckets |->
                           IF b \in evicted' \/ ~counter'[b].present THEN 0
                           ELSE (IF b \in used /\ ~Live(counter[b], lag) THEN 0 ELSE granted[b])
                                + (IF b \in bs /\ allowed THEN 1 ELSE 0)]
        /\ callCount' = (callCount + 1) % CleanupEvery
        /\ call' = [call EXCEPT ![c] = NoCall]
        /\ UNCHANGED backend

-----------------------------------------------------------------------------
(* CacheLimiter.                                                           *)

\* The script of Increment: INCR, and PEXPIRE of a new key.
Increment(b) == IF counter[b].present THEN Counted(counter[b]) ELSE Counted(Fresh(b, 0))

\* count > limit, of the count with this attempt.
Refused(b) == Increment(b).count > Limit(b)

\* The increment of the address; a refused attempt has counted there.
IncrementIP(c) ==
    LET b == call[c].ip
    IN  /\ backend = "redis" /\ call[c].pc = "called"
        /\ counter' = [counter EXCEPT ![b] = Increment(b)]
        /\ call' = [call EXCEPT ![c] = IF Refused(b) \/ @.key = {} THEN NoCall ELSE [@ EXCEPT !.pc = "key"]]
        /\ IF Refused(b) THEN granted' = granted
           ELSE granted' = [granted EXCEPT ![b] = @ + 1]
        /\ UNCHANGED <<backend, callCount, evicted>>

IncrementKey(c) ==
    \E b \in call[c].key :
        /\ backend = "redis" /\ call[c].pc = "key"
        /\ counter' = [counter EXCEPT ![b] = Increment(b)]
        /\ call' = [call EXCEPT ![c] = NoCall]
        /\ IF Refused(b) THEN granted' = granted
           ELSE granted' = [granted EXCEPT ![b] = @ + 1]
        /\ UNCHANGED <<backend, callCount, evicted>>

\* Redis fails: the attempt is refused, and may have counted.
IncrementFails(c) ==
    LET b == IF call[c].pc = "called" THEN {call[c].ip} ELSE call[c].key
    IN  /\ backend = "redis" /\ call[c] # NoCall
        /\ call' = [call EXCEPT ![c] = NoCall]
        /\ counter' = counter \/ counter' = [x \in Buckets |-> IF x \in b THEN Increment(x) ELSE counter[x]]
        /\ UNCHANGED <<backend, callCount, granted, evicted>>

-----------------------------------------------------------------------------

\* The Allow functions: which counters an attempt is about.
OnKey(kind) == {[ip |-> <<kind, "ip", a>>, key |-> {<<kind, "email", m>>}] :
                   a \in Addresses, m \in IF kind \in Kinds THEN Mailboxes ELSE {}}
OnAddress(kind) == {[ip |-> <<kind, "ip", a>>, key |-> {}] : a \in IF kind \in Kinds THEN Addresses ELSE {}}

AllowLoginAttempt == OnKey("login")
AllowOAuthAttempt == OnAddress("login")
AllowSignupAttempt == OnKey("signup")
AllowPasswordResetAttempt == OnKey("password_reset")
AllowPasskeyLoginAttempt == OnAddress("passkey_login")
AllowPasskeyLoginFinishAttempt == OnAddress("passkey_login_finish")
AllowChallengeVerifyAttempt == OnAddress("challenge_verify")
AllowChallengeResendAttempt == OnAddress("challenge_resend")

Attempts == AllowLoginAttempt \cup AllowOAuthAttempt \cup AllowSignupAttempt
    \cup AllowPasswordResetAttempt \cup AllowPasskeyLoginAttempt \cup AllowPasskeyLoginFinishAttempt
    \cup AllowChallengeVerifyAttempt \cup AllowChallengeResendAttempt

\* A call reads its clock.
Arrives(c) == \E attempt \in Attempts :
    /\ call[c] = NoCall /\ \A b \in Buckets : counter[b].count <= Limit(b) + Overrun
    /\ call' = [call EXCEPT ![c] = [pc |-> "called", lag |-> 0, ip |-> attempt.ip, key |-> attempt.key]]
    /\ UNCHANGED <<backend, counter, callCount, granted, evicted>>

Dropped(b) == backend = "redis" /\ counter[b].left = 1

\* Time passes.  Redis drops a counter at its time, the memory limiter
\* keeps it until a call finds it.
Tick ==
    /\ \A c \in Calls : call[c].pc = "called" => call[c].lag < MaxLag
    /\ counter' = [b \in Buckets |->
          IF ~counter[b].present \/ Dropped(b) THEN NoCounter
          ELSE [counter[b] EXCEPT !.left = IF @ > -MaxLag THEN @ - 1 ELSE @]]
    /\ granted' = [b \in Buckets |-> IF Dropped(b) THEN 0 ELSE granted[b]]
    /\ call' = [c \in Calls |-> IF call[c].pc = "called" THEN [call[c] EXCEPT !.lag = @ + 1] ELSE call[c]]
    /\ UNCHANGED <<backend, callCount, evicted>>

LimiterInit ==
    /\ backend \in Backends
    /\ counter = [b \in Buckets |-> NoCounter] /\ callCount = 0
    /\ call = [c \in Calls |-> NoCall]
    /\ granted = [b \in Buckets |-> 0] /\ evicted = {}

Decides(c) == AllowInMemory(c) \/ IncrementIP(c) \/ IncrementKey(c)

LimiterNext == Tick \/ \E c \in Calls : Arrives(c) \/ Decides(c) \/ IncrementFails(c)

\* Time passes, however calls overlap, and calls return.
LimiterFairness == SF_limiterVars(Tick) /\ \A c \in Calls : WF_limiterVars(Decides(c))

LimiterSpec == LimiterInit /\ [][LimiterNext]_limiterVars
FairLimiterSpec == LimiterSpec /\ LimiterFairness

-----------------------------------------------------------------------------
(* Properties.                                                             *)

\* Types, and the memory limiter counts what it lets through and nothing else.
LimiterTypeOK ==
    /\ backend \in Backends /\ callCount \in 0..(CleanupEvery - 1)
    /\ \A c \in Calls : call[c] # NoCall => call[c].ip \in ByIP /\ call[c].key \subseteq ByKey
    /\ evicted \subseteq Buckets
    /\ \A b \in Buckets : backend = "memory" /\ counter[b].present /\ b \notin evicted => counter[b].count = granted[b]

\* The maps have at most what CleanupEvery calls can add to MaxEntries.
EntriesBounded == backend = "memory" => Cardinality(Present(counter)) <= MaxEntries + 2 * CleanupEvery

\* While the entries whose window is not over fit, none of them starts again:
\* the memory limiter forgets attempts only when its maps are over their bound.
KeptWhileRoom ==
    backend = "memory" /\ Cardinality({b \in Buckets : Live(counter[b], MaxLag)}) <= MaxEntries
        => \A b \in Buckets : Live(counter[b], 0) =>
               counter'[b].present /\ counter'[b].count >= counter[b].count

\* In one window of a bucket at most its limit is let through, whatever calls
\* run at the same time, unless the memory limiter has dropped its entry, and
\* then what was let through since.  It drops entries only when its maps are
\* over their bound; those may be entries of any bucket, and of a later map
\* also when there is room again.
WindowHolds ==
    /\ [](LimiterTypeOK /\ EntriesBounded)
    /\ [](\A b \in Buckets : IF b \in evicted THEN counter[b].count <= Limit(b) ELSE granted[b] <= Limit(b))
    /\ [][KeptWhileRoom]_limiterVars

\* A bucket that refuses comes to its reset, however many attempts arrive
\* meanwhile: nobody is shut out for good.  (One that was dropped in its
\* window has let an attempt through since.)
BucketsReopen == \A b \in Buckets : []<>(b \in evicted \/ ~(Live(counter[b], 0) /\ Full(counter[b], b)))

=============================================================================
