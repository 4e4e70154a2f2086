------------------------- MODULE WebhookQueueProofs -------------------------
(***************************************************************************)
(* Proofs about WebhookQueue, for every number of events and workers,      *)
(* every delay, clock skew, setting and sequence of faults and restarts:   *)
(* the refinement of LeaseQueue, and the announcement of new events.       *)
(* MCWebhookQueue only adds the parts of its run, which the last theorem   *)
(* is about.                                                               *)
(***************************************************************************)
EXTENDS MCWebhookQueue, FiniteSetTheorems, TLAPS

-----------------------------------------------------------------------------
(* The inductive invariant.                                                *)

\* Components of the type invariant.
Statuses == {"absent", "pending", "processing", "delivered", "failed", "removed"}
EventType == [status : Statuses, attempts : 0 .. MaxAttempts, lease : 0 .. MaxTime,
              next : 0 .. MaxTime, created : 0 .. MaxTime]
WorkerType == [pc : {"asleep", "awake", "polling", "sending", "settling"},
               at : 0 .. MaxTime, max : 0 .. MaxAttempts,
               event : Events \cup {None}, lease : 0 .. MaxTime, attempts : 0 .. MaxAttempts,
               result : {"none", "ok", "retryable", "final"}]
Surroundings ==
    /\ now \in 1 .. MaxTime /\ policy \in Policies
    /\ wake \in 0 .. Cardinality(Workers)
    /\ listener \in {"down", "up"} /\ notes \in Nat
    /\ faults \in 0 .. MaxFaults /\ restarts \in 0 .. MaxRestarts

EventOf(w) == event[worker[w].event]

\* A worker that was given up has an older lease than the one the event has now,
\* or can have when it is claimed again.
LeaseOf(w) ==
    /\ worker[w].event \in Events /\ worker[w].at = worker[w].lease
    /\ EventOf(w).status # "absent"
    /\ EventOf(w).status = "processing" => worker[w].lease <= EventOf(w).lease
    /\ EventOf(w).status = "pending" => worker[w].lease < EventOf(w).next
    /\ EventOf(w).status = "processing" /\ EventOf(w).lease = worker[w].lease =>
           worker[w].attempts = EventOf(w).attempts
Leases == \A w \in Workers : Busy(w) => LeaseOf(w)

\* No two workers at work on an event have the same lease.
DistinctLeases ==
    \A v, w \in Workers : v # w /\ Busy(v) /\ Busy(w) /\ worker[v].event = worker[w].event =>
        worker[v].lease # worker[w].lease

\* An event that may be claimed has an attempt left.
AttemptsLeft ==
    \A e \in Events : event[e].status = "pending" => event[e].attempts < MaxAttempts

IInv ==
    /\ Surroundings
    /\ event \in [Events -> EventType] /\ worker \in [Workers -> WorkerType]
    /\ Leases /\ DistinctLeases /\ AttemptsLeft

-----------------------------------------------------------------------------
(* Lemmas about the helpers.                                               *)

LEMMA TypeParts ==
    TypeOK <=> Surroundings /\ event \in [Events -> EventType] /\ worker \in [Workers -> WorkerType]
  BY DEF TypeOK, Surroundings, EventType, WorkerType, Statuses

\* One lease has at most one worker.
OneHolder == \A e \in Events : \A v, w \in Workers : Holds(v, e) /\ Holds(w, e) => v = w

LEMMA HolderIsOne == IInv => OneHolder
  BY DEF IInv, DistinctLeases, OneHolder, Holds

LEMMA ZeroIsTime == 0 \in 0 .. MaxTime /\ 0 \in 0 .. MaxAttempts
  BY WebhookAssumption

\* The clock readings are times.
LEMMA ReadingType ==
    ASSUME Surroundings, NEW t \in ClockReadings
    PROVE  t \in 1 .. MaxTime /\ t \in 0 .. MaxTime /\ t <= now
  BY WebhookAssumption DEF Surroundings, ClockReadings

\* wakeOne leaves an element in a channel that has room for one.
LEMMA WakeOneType ==
    ASSUME NEW n \in 0 .. Cardinality(Workers)
    PROVE  /\ WakeOne(n) \in 0 .. Cardinality(Workers)
           /\ Workers # {} => WakeOne(n) > 0
  <1>1. IsFiniteSet(Workers) /\ Cardinality(Workers) \in Nat
    BY FS_CardinalityType, WebhookAssumption
  <1>2. Workers # {} => Cardinality(Workers) # 0
    BY <1>1, FS_EmptySet
  <1>3. QED
    BY <1>1, <1>2 DEF WakeOne

\* What an assignment to the fields of a row does.
LEMMA RowType ==
    ASSUME NEW row \in EventType, NEW s \in Statuses, NEW a \in 0 .. MaxAttempts,
           NEW l \in 0 .. MaxTime, NEW n \in 0 .. MaxTime, NEW c \in 0 .. MaxTime
    PROVE  /\ [row EXCEPT !.status = s] \in EventType
           /\ [row EXCEPT !.status = s, !.lease = l] \in EventType
           /\ [row EXCEPT !.status = s, !.lease = l, !.next = n] \in EventType
           /\ [row EXCEPT !.status = s, !.lease = l, !.attempts = a] \in EventType
           /\ [row EXCEPT !.status = s, !.next = n, !.created = c] \in EventType
  <1>1. /\ row.status \in Statuses
        /\ row.attempts \in 0 .. MaxAttempts /\ row.lease \in 0 .. MaxTime
        /\ row.next \in 0 .. MaxTime /\ row.created \in 0 .. MaxTime
        /\ row = [status |-> row.status, attempts |-> row.attempts, lease |-> row.lease,
                  next |-> row.next, created |-> row.created]
    BY DEF EventType
  <1>2. QED
    BY <1>1 DEF EventType

LEMMA NoEventType == NoEvent \in EventType
  BY ZeroIsTime DEF NoEvent, EventType, Statuses

LEMMA AwakeType ==
    /\ Awake \in WorkerType /\ Asleep \in WorkerType
    /\ Awake.pc = "awake" /\ Asleep.pc = "asleep"
  <1>1. Awake \in WorkerType
    BY ZeroIsTime DEF Awake, WorkerType
  <1>2. ASSUME NEW state \in WorkerType
        PROVE  [state EXCEPT !.pc = "asleep"] \in WorkerType
    BY DEF WorkerType
  <1>3. Asleep \in WorkerType
    BY <1>1, <1>2, Zenon DEF Asleep
  <1>4. QED
    BY <1>1, <1>3 DEF Awake, Asleep

\* What an assignment to one worker, or to one row, does.
LEMMA GotoOne ==
    ASSUME worker \in [Workers -> WorkerType], NEW w \in Workers, NEW state \in WorkerType,
           Goto(w, state)
    PROVE  /\ worker' \in [Workers -> WorkerType]
           /\ worker'[w] = state /\ \A v \in Workers \ {w} : worker'[v] = worker[v]
  BY DEF Goto

LEMMA PutOne ==
    ASSUME event \in [Events -> EventType], NEW e \in Events, NEW row \in EventType,
           event' = [event EXCEPT ![e] = row]
    PROVE  /\ event' \in [Events -> EventType]
           /\ event'[e] = row /\ \A d \in Events \ {e} : event'[d] = event[d]
  OBVIOUS

\* A worker at work goes on with the event, lease and attempt it has.
Continues(w) ==
    Busy(w)' => /\ Busy(w)
                /\ worker'[w].event = worker[w].event /\ worker'[w].lease = worker[w].lease
                /\ worker'[w].at = worker[w].at /\ worker'[w].attempts = worker[w].attempts

\* A row stays as it is, or enters a state in which no older lease can be
\* mistaken for a current one.
LeftAlone(e) ==
    \/ event'[e] = event[e]
    \/ /\ event'[e].status \notin {"absent", "processing"}
       /\ event'[e].status = "pending" =>
              /\ event'[e].attempts < MaxAttempts
              /\ \A w \in Workers : Busy(w)' /\ worker[w].event = e => worker[w].lease < event'[e].next

\* Every step but a claim is such a step.
LEMMA StepKeepsIInv ==
    ASSUME IInv, Surroundings',
           event' \in [Events -> EventType], worker' \in [Workers -> WorkerType],
           \A w \in Workers : Continues(w), \A e \in Events : LeftAlone(e)
    PROVE  IInv'
  <1>1. Leases'
    <2> SUFFICES ASSUME NEW w \in Workers, Busy(w)' PROVE LeaseOf(w)'
      BY DEF Leases
    <2>1. /\ Busy(w) /\ worker'[w].event = worker[w].event /\ worker'[w].lease = worker[w].lease
          /\ worker'[w].at = worker[w].at /\ worker'[w].attempts = worker[w].attempts
      BY DEF Continues
    <2>2. LeaseOf(w)
      BY <2>1 DEF IInv, Leases
    <2>3. LeftAlone(worker[w].event)
      BY <2>2 DEF LeaseOf
    <2>4. QED
      BY <2>1, <2>2, <2>3 DEF LeaseOf, EventOf, LeftAlone
  <1>2. DistinctLeases'
    <2> SUFFICES ASSUME NEW v \in Workers, NEW w \in Workers, v # w, Busy(v)', Busy(w)',
                        worker'[v].event = worker'[w].event
                 PROVE  worker'[v].lease # worker'[w].lease
      BY DEF DistinctLeases
    <2>1. QED
      BY DEF IInv, DistinctLeases, Continues
  <1>3. AttemptsLeft'
    BY DEF IInv, AttemptsLeft, LeftAlone
  <1>4. QED
    BY <1>1, <1>2, <1>3 DEF IInv

\* The initial state satisfies the invariant.
LEMMA InitIInv == Init => IInv
  <1> SUFFICES ASSUME Init PROVE IInv
    OBVIOUS
  <1>1. Cardinality(Workers) \in Nat
    BY FS_CardinalityType, WebhookAssumption
  <1>2. Surroundings
    BY <1>1, WebhookAssumption DEF Init, Surroundings, Policies
  <1>3. event \in [Events -> EventType] /\ worker \in [Workers -> WorkerType]
    BY NoEventType, AwakeType DEF Init
  <1>4. Leases /\ DistinctLeases /\ AttemptsLeft
    BY AwakeType DEF Init, Leases, DistinctLeases, AttemptsLeft, Busy, NoEvent
  <1>5. QED
    BY <1>2, <1>3, <1>4 DEF IInv

-----------------------------------------------------------------------------
(* The steps.                                                              *)

\* The clock, the settings, the channel and the connection keep their types.
LEMMA NextSurroundings ==
    ASSUME Surroundings, [Next]_vars
    PROVE  Surroundings'
  <1>1. Cardinality(Workers) \in Nat
    BY FS_CardinalityType, WebhookAssumption
  <1>2. WakeOne(wake) \in 0 .. Cardinality(Workers)
    BY WakeOneType DEF Surroundings
  <1>3. CASE \/ Listen \/ WaitForNotification \/ ListenerFails \/ Restart \/ Tick
             \/ \E p \in Policies : SetPolicy(p)
    BY <1>1, <1>2, <1>3, WebhookAssumption
       DEF Surroundings, Listen, WaitForNotification, ListenerFails, Restart, Tick, SetPolicy
  <1>4. CASE \E e \in Events : ReapStaleWebhookEvent(e) \/ DeleteExpiredWebhookEvent(e)
    BY <1>4 DEF Surroundings, ReapStaleWebhookEvent, DeleteExpiredWebhookEvent
  <1>5. CASE \E E \in SUBSET Events : Publish(E)
    <2>1. /\ UNCHANGED <<now, policy, wake, listener, faults, restarts>>
          /\ notes' = IF listener = "up" THEN notes + 1 ELSE notes
      BY <1>5 DEF Publish
    <2>2. QED
      BY <2>1 DEF Surroundings
  <1>6. CASE \E w \in Workers : WokenByChannel(w) \/ Fault(w)
    <2>1. UNCHANGED <<now, policy, listener, notes, restarts>>
      BY <1>6 DEF WokenByChannel, Fault
    <2>2. wake' \in {wake, wake - 1} /\ wake' >= 0 /\ faults' \in {faults, faults + 1}
          /\ faults' <= MaxFaults
      BY <1>6, WebhookAssumption DEF WokenByChannel, Fault, Surroundings
    <2>3. QED
      BY <1>1, <2>1, <2>2, WebhookAssumption DEF Surroundings
  <1>7. CASE \E w \in Workers : Work(w)
    <2>1. UNCHANGED <<now, policy, listener, notes, faults, restarts>> /\ wake' \in {wake, WakeOne(wake)}
      BY <1>7 DEF Work, WokenByTimer, Poll, Claim, OnClaim, ClaimEmpty, Send,
                  MarkWebhookEventDelivered, RequeueWebhookEvent, MarkWebhookEventFailed, Transition
    <2>2. QED
      BY <1>2, <2>1 DEF Surroundings
  <1>8. CASE UNCHANGED vars
    BY <1>8 DEF Surroundings, vars
  <1>9. QED
    BY <1>3, <1>4, <1>5, <1>6, <1>7, <1>8 DEF Next

\* A worker that moves on without touching the table.
LEMMA WorkerMoves ==
    ASSUME IInv, Surroundings', NEW w \in Workers, NEW state \in WorkerType, Goto(w, state),
           event' = event, Continues(w)
    PROVE  IInv'
  <1>1. /\ worker' \in [Workers -> WorkerType]
        /\ worker'[w] = state /\ \A v \in Workers \ {w} : worker'[v] = worker[v]
    BY GotoOne DEF IInv
  <1>2. \A v \in Workers : Continues(v)
    BY <1>1 DEF Continues, Busy
  <1>3. \A e \in Events : LeftAlone(e)
    BY DEF LeftAlone
  <1>4. event' \in [Events -> EventType]
    BY DEF IInv
  <1>5. QED
    BY <1>1, <1>2, <1>3, <1>4, StepKeepsIInv

LEMMA MoveIInv ==
    ASSUME IInv, Surroundings', NEW w \in Workers,
           \/ WokenByTimer(w) \/ WokenByChannel(w) \/ Poll(w) \/ ClaimEmpty(w) \/ Send(w) \/ Fault(w)
    PROVE  IInv'
  <1>1. worker \in [Workers -> WorkerType] /\ worker[w] \in WorkerType /\ policy \in Policies
    BY DEF IInv, Surroundings
  <1>2. event' = event
    BY DEF WokenByTimer, WokenByChannel, Poll, ClaimEmpty, Send, Fault
  <1>3. CASE WokenByTimer(w) \/ WokenByChannel(w) \/ ClaimEmpty(w) \/ Fault(w)
    <2>1. Goto(w, Awake) \/ Goto(w, Asleep)
      BY <1>3 DEF WokenByTimer, WokenByChannel, ClaimEmpty, Fault
    <2>2. ASSUME NEW state \in {Awake, Asleep}, Goto(w, state) PROVE IInv'
      <3>1. state \in WorkerType /\ state.pc \in {"awake", "asleep"}
        BY AwakeType
      <3>2. Continues(w)
        BY <1>1, <2>2, <3>1, GotoOne DEF Continues, Busy
      <3>3. QED
        BY <1>2, <2>2, <3>1, <3>2, WorkerMoves
    <2>3. QED
      BY <2>1, <2>2
  <1>4. CASE Poll(w)
    <2>1. PICK t \in ClockReadings :
            Goto(w, [Awake EXCEPT !.pc = "polling", !.at = t, !.max = policy.max])
      BY <1>4 DEF Poll
    <2> DEFINE state == [Awake EXCEPT !.pc = "polling", !.at = t, !.max = policy.max]
    <2>2. t \in 0 .. MaxTime /\ policy.max \in 0 .. MaxAttempts
      BY <1>1, ReadingType, WebhookAssumption DEF IInv, Policies
    <2>3. state \in WorkerType
      <3>1. ASSUME NEW rest \in WorkerType
            PROVE  [rest EXCEPT !.pc = "polling", !.at = t, !.max = policy.max] \in WorkerType
        <4>1. /\ rest.event \in Events \cup {None} /\ rest.lease \in 0 .. MaxTime
              /\ rest.attempts \in 0 .. MaxAttempts
              /\ rest.result \in {"none", "ok", "retryable", "final"}
              /\ rest = [pc |-> rest.pc, at |-> rest.at, max |-> rest.max, event |-> rest.event,
                         lease |-> rest.lease, attempts |-> rest.attempts,
                         result |-> rest.result]
          BY DEF WorkerType
        <4>2. QED
          BY <2>2, <4>1 DEF WorkerType
      <3>2. QED
        BY <3>1, AwakeType, Zenon
    <2>4. state.pc = "polling"
      BY DEF Awake
    <2>5. Goto(w, state)
      BY <2>1
    <2> HIDE DEF state
    <2>6. Continues(w)
      BY <1>1, <2>3, <2>4, <2>5, GotoOne DEF Continues, Busy
    <2>7. QED
      BY <1>2, <2>3, <2>5, <2>6, WorkerMoves
  <1>5. CASE Send(w)
    <2>1. PICK result \in {"ok", "retryable", "final"} :
            Goto(w, [worker[w] EXCEPT !.pc = "settling", !.result = result])
      BY <1>5 DEF Send
    <2> DEFINE state == [worker[w] EXCEPT !.pc = "settling", !.result = result]
    <2>2. state \in WorkerType
      BY <1>1 DEF WorkerType
    <2>3. /\ state.event = worker[w].event /\ state.lease = worker[w].lease
          /\ state.at = worker[w].at /\ state.attempts = worker[w].attempts
      BY <1>1 DEF WorkerType
    <2>4. Goto(w, state) /\ worker[w].pc = "sending"
      BY <1>5, <2>1 DEF Send
    <2> HIDE DEF state
    <2>5. Continues(w)
      BY <1>1, <2>2, <2>3, <2>4, GotoOne DEF Continues, Busy
    <2>6. QED
      BY <1>2, <2>2, <2>4, <2>5, WorkerMoves
  <1>6. QED
    BY <1>3, <1>4, <1>5

\* The rows of a result: delivered, failed, or pending again.  The next attempt
\* is not before this one, and this one's lease was the newest.
LEMMA SettleIInv ==
    ASSUME IInv, Surroundings', NEW w \in Workers, worker[w].pc = "settling",
           NEW row \in EventType, Transition(w, row),
           row.status \in {"pending", "delivered", "failed"},
           OwnsLease(w) /\ row.status = "pending" =>
               row.attempts < MaxAttempts /\ worker[w].at <= row.next
    PROVE  IInv'
  <1>1. PICK e \in Events : e = worker[w].event
    BY DEF IInv, Leases, LeaseOf, Busy
  <1>2. LeaseOf(w) /\ Busy(w)
    BY DEF IInv, Leases, Busy
  <1>3. PICK state \in {Awake, Asleep} : Goto(w, state)
    BY DEF Transition
  <1>4. state \in WorkerType /\ state.pc \in {"awake", "asleep"}
    BY <1>3, AwakeType
  <1>5. /\ worker' \in [Workers -> WorkerType]
        /\ worker'[w] = state /\ \A v \in Workers \ {w} : worker'[v] = worker[v]
    BY <1>3, <1>4, GotoOne DEF IInv
  <1>6. \A v \in Workers : Continues(v)
    BY <1>4, <1>5 DEF Continues, Busy
  <1>7. CASE ~OwnsLease(w)
    <2>1. event' = event
      BY <1>7 DEF Transition
    <2>2. QED
      BY <1>5, <1>6, <2>1, StepKeepsIInv DEF LeftAlone, IInv
  <1>8. CASE OwnsLease(w)
    <2>1. /\ event' \in [Events -> EventType]
          /\ event'[e] = row /\ \A d \in Events \ {e} : event'[d] = event[d]
      BY <1>1, <1>8, PutOne DEF Transition, IInv
    <2>2. ASSUME row.status = "pending", NEW v \in Workers, Busy(v)', worker[v].event = e
          PROVE  worker[v].lease < row.next
      <3>1. v # w /\ Busy(v)
        BY <1>4, <1>5, <1>6, <2>2 DEF Busy, Continues
      <3>2. worker[v].lease <= event[e].lease
        BY <1>1, <1>8, <2>2, <3>1 DEF IInv, Leases, LeaseOf, EventOf, OwnsLease
      <3>3. worker[v].lease # worker[w].lease
        BY <1>1, <1>2, <2>2, <3>1 DEF IInv, DistinctLeases
      <3>4. event[e].lease = worker[w].lease /\ worker[w].at = worker[w].lease
        BY <1>1, <1>2, <1>8 DEF OwnsLease, LeaseOf
      <3>5. worker[w].at <= row.next
        BY <1>8, <2>2
      <3>6. worker[v].lease \in Nat /\ worker[w].lease \in Nat /\ row.next \in Nat
        BY WebhookAssumption DEF IInv, WorkerType, EventType
      <3>7. QED
        BY <3>2, <3>3, <3>4, <3>5, <3>6
    <2>3. LeftAlone(e)
      BY <1>8, <2>1, <2>2 DEF LeftAlone
    <2>4. \A d \in Events : LeftAlone(d)
      BY <2>1, <2>3 DEF LeftAlone
    <2>5. QED
      BY <1>5, <1>6, <2>1, <2>4, StepKeepsIInv
  <1>9. QED
    BY <1>7, <1>8

\* The results of MarkWebhookEventDelivered, RequeueWebhookEvent and
\* MarkWebhookEventFailed.
LEMMA ResultRow ==
    ASSUME IInv, NEW w \in Workers,
           \/ MarkWebhookEventDelivered(w) \/ RequeueWebhookEvent(w) \/ MarkWebhookEventFailed(w)
    PROVE  /\ worker[w].pc = "settling"
           /\ \E row \in EventType :
                 /\ Transition(w, row) /\ row.status \in {"pending", "delivered", "failed"}
                 /\ row.attempts = EventOf(w).attempts
                 /\ OwnsLease(w) /\ row.status = "pending" =>
                        row.attempts < MaxAttempts /\ worker[w].at <= row.next
  <1>1. worker[w].pc = "settling" /\ Busy(w)
    BY DEF MarkWebhookEventDelivered, RequeueWebhookEvent, MarkWebhookEventFailed, Busy
  <1> DEFINE e == worker[w].event
  <1>2. e \in Events /\ LeaseOf(w)
    BY <1>1 DEF IInv, Leases, LeaseOf
  <1>3. event[e] \in EventType /\ worker[w] \in WorkerType
    BY <1>2 DEF IInv
  <1> DEFINE done(s) == [event[e] EXCEPT !.status = s, !.lease = 0]
  <1>4. \A s \in {"delivered", "failed"} : done(s) \in EventType
    <2>1. \A s \in {"delivered", "failed"} : s \in Statuses
      BY DEF Statuses
    <2>2. QED
      BY <1>3, <2>1, ZeroIsTime, RowType, Zenon
  <1>5. \A s : done(s).status = s /\ done(s).attempts = EventOf(w).attempts
    BY <1>3 DEF EventType, EventOf
  <1>6. CASE MarkWebhookEventDelivered(w) \/ MarkWebhookEventFailed(w)
    <2>1. Transition(w, done("delivered")) \/ Transition(w, done("failed"))
      BY <1>6 DEF MarkWebhookEventDelivered, MarkWebhookEventFailed
    <2> HIDE DEF done
    <2>2. QED
      BY <1>1, <1>4, <1>5, <2>1
  <1>7. CASE RequeueWebhookEvent(w)
    <2> DEFINE later == Clamp(worker[w].at + DeliveryRetryDelay(worker[w].attempts))
               again == [event[e] EXCEPT !.status = "pending", !.lease = 0, !.next = later]
    <2>1. later \in 0 .. MaxTime /\ worker[w].at <= later
      <3>1. worker[w].at \in 0 .. MaxTime /\ DeliveryRetryDelay(worker[w].attempts) \in Nat
        BY <1>3, WebhookAssumption DEF WorkerType, DeliveryRetryDelay
      <3> HIDE DEF e
      <3>2. QED
        BY <3>1, WebhookAssumption DEF Clamp
    <2> HIDE DEF later
    <2>2. again \in EventType
      <3>1. "pending" \in Statuses
        BY DEF Statuses
      <3>2. QED
        BY <1>3, <2>1, <3>1, ZeroIsTime, RowType, Zenon
    <2>3. again.status = "pending" /\ again.next = later /\ again.attempts = event[e].attempts
      BY <1>3 DEF EventType
    <2>4. Transition(w, again) /\ MayRetry(w)
      BY <1>7 DEF RequeueWebhookEvent, later
    <2> HIDE DEF again
    <2>5. OwnsLease(w) => event[e].attempts < MaxAttempts
      <3>1. OwnsLease(w) => worker[w].attempts = event[e].attempts
        BY <1>2 DEF OwnsLease, LeaseOf, EventOf
      <3>2. worker[w].attempts < worker[w].max
        BY <2>4 DEF MayRetry
      <3>3. worker[w].max <= MaxAttempts /\ worker[w].max \in Nat /\ worker[w].attempts \in Nat /\ MaxAttempts \in Nat
        BY <1>3, WebhookAssumption DEF WorkerType
      <3>4. QED
        BY <3>1, <3>2, <3>3
    <2>6. QED
      BY <1>1, <2>1, <2>2, <2>3, <2>4, <2>5 DEF EventOf
  <1>8. QED
    BY <1>6, <1>7

\* A claim: the new lease is later than that of every worker that was given up.
LEMMA ClaimShape ==
    ASSUME IInv, NEW w \in Workers, Claim(w)
    PROVE  \E e \in Events :
             /\ First(e, worker[w].at)
             /\ event' \in [Events -> EventType]
             /\ event'[e].status = "processing" /\ event'[e].lease = worker[w].at
             /\ event'[e].attempts = event[e].attempts + 1
             /\ \A d \in Events \ {e} : event'[d] = event[d]
             /\ worker' \in [Workers -> WorkerType]
             /\ worker'[w].pc = "sending" /\ worker'[w].event = e
             /\ worker'[w].lease = worker[w].at /\ worker'[w].at = worker[w].at
             /\ worker'[w].attempts = event[e].attempts + 1
             /\ \A v \in Workers \ {w} : worker'[v] = worker[v]
  <1>1. PICK e \in Events :
          /\ First(e, worker[w].at)
          /\ event' = [event EXCEPT ![e].status = "processing", ![e].lease = worker[w].at,
                                    ![e].attempts = @ + 1]
          /\ Goto(w, [worker[w] EXCEPT !.pc = "sending", !.event = e,
                                       !.lease = worker[w].at,
                                       !.attempts = event[e].attempts + 1])
    BY DEF Claim
  <1> DEFINE row == [event[e] EXCEPT !.status = "processing", !.lease = worker[w].at,
                                     !.attempts = event[e].attempts + 1]
             state == [worker[w] EXCEPT !.pc = "sending", !.event = e, !.lease = worker[w].at,
                                        !.attempts = event[e].attempts + 1]
  <1>2. /\ event \in [Events -> EventType] /\ event[e] \in EventType
        /\ worker \in [Workers -> WorkerType] /\ worker[w] \in WorkerType
    BY DEF IInv
  <1>3. event[e].status = "pending"
    BY <1>1 DEF First, Due
  <1>4. event[e].attempts + 1 \in 0 .. MaxAttempts /\ worker[w].at \in 0 .. MaxTime
    BY <1>2, <1>3, WebhookAssumption DEF IInv, AttemptsLeft, EventType, WorkerType
  <1>5. row \in EventType
    <2>1. "processing" \in Statuses
      BY DEF Statuses
    <2>2. QED
      BY <1>2, <1>4, <2>1, ZeroIsTime, RowType, Zenon
  <1>6. /\ row.status = "processing" /\ row.lease = worker[w].at
        /\ row.attempts = event[e].attempts + 1
    BY <1>2 DEF EventType
  <1>7. state \in WorkerType
    BY <1>2, <1>4 DEF WorkerType
  <1>8. /\ state.pc = "sending" /\ state.event = e /\ state.lease = worker[w].at
        /\ state.at = worker[w].at /\ state.attempts = event[e].attempts + 1
    BY <1>2 DEF WorkerType
  <1>9. event' = [event EXCEPT ![e] = row]
    BY <1>1
  <1>10. Goto(w, state)
    BY <1>1
  <1> HIDE DEF row, state
  <1>11. /\ event' \in [Events -> EventType]
         /\ event'[e] = row /\ \A d \in Events \ {e} : event'[d] = event[d]
    BY <1>2, <1>5, <1>9, PutOne
  <1>12. /\ worker' \in [Workers -> WorkerType]
         /\ worker'[w] = state /\ \A v \in Workers \ {w} : worker'[v] = worker[v]
    BY <1>2, <1>7, <1>10, GotoOne
  <1>13. QED
    BY <1>1, <1>6, <1>8, <1>11, <1>12

LEMMA ClaimIInv ==
    ASSUME IInv, Surroundings', NEW w \in Workers, Claim(w)
    PROVE  IInv'
  <1>1. PICK e \in Events :
          /\ First(e, worker[w].at)
          /\ event' \in [Events -> EventType]
          /\ event'[e].status = "processing" /\ event'[e].lease = worker[w].at
          /\ event'[e].attempts = event[e].attempts + 1
          /\ \A d \in Events \ {e} : event'[d] = event[d]
          /\ worker' \in [Workers -> WorkerType]
          /\ worker'[w].pc = "sending" /\ worker'[w].event = e
          /\ worker'[w].lease = worker[w].at /\ worker'[w].at = worker[w].at
          /\ worker'[w].attempts = event[e].attempts + 1
          /\ \A v \in Workers \ {w} : worker'[v] = worker[v]
    BY ClaimShape
  <1>2. PICK t \in 0 .. MaxTime : t = worker[w].at
    BY DEF IInv, WorkerType
  <1>3. event[e].status = "pending" /\ event[e].next <= t
    BY <1>1, <1>2 DEF First, Due
  <1>4. ASSUME NEW v \in Workers, Busy(v), worker[v].event = e
        PROVE  worker[v].lease < t
    <2>1. worker[v].lease < event[e].next
      BY <1>3, <1>4 DEF IInv, Leases, LeaseOf, EventOf
    <2>2. worker[v].lease \in Nat /\ event[e].next \in Nat
      BY WebhookAssumption DEF IInv, WorkerType, EventType
    <2>3. QED
      BY <1>3, <2>1, <2>2, WebhookAssumption
  <1>5. ASSUME NEW v \in Workers \ {w}, Busy(v)'
        PROVE  Busy(v) /\ worker'[v] = worker[v] /\ LeaseOf(v)
    BY <1>1, <1>5 DEF Busy, IInv, Leases
  <1>6. Leases'
    <2> SUFFICES ASSUME NEW v \in Workers, Busy(v)' PROVE LeaseOf(v)'
      BY DEF Leases
    <2>1. CASE v = w
      BY <1>1, <1>2, <2>1 DEF LeaseOf, EventOf
    <2>2. CASE v # w
      <3>1. Busy(v) /\ worker'[v] = worker[v] /\ LeaseOf(v)
        BY <1>5, <2>2
      <3>2. CASE worker[v].event = e
        <4>1. worker[v].lease < t /\ worker[v].lease \in Nat
          BY <1>4, <3>1, <3>2, WebhookAssumption DEF IInv, WorkerType
        <4>2. QED
          BY <1>1, <1>2, <3>1, <3>2, <4>1 DEF LeaseOf, EventOf
      <3>3. CASE worker[v].event # e
        <4>1. event'[worker[v].event] = event[worker[v].event]
          BY <1>1, <3>1, <3>3 DEF LeaseOf
        <4>2. QED
          BY <3>1, <4>1 DEF LeaseOf, EventOf
      <3>4. QED
        BY <3>2, <3>3
    <2>3. QED
      BY <2>1, <2>2
  <1>7. DistinctLeases'
    <2>1. ASSUME NEW v \in Workers \ {w}, Busy(v)', worker'[v].event = e
          PROVE  worker'[v].lease # t
      <3>1. worker'[v] = worker[v] /\ worker[v].lease < t /\ worker[v].lease \in Nat
        BY <1>4, <1>5, <2>1, WebhookAssumption DEF IInv, WorkerType
      <3>2. QED
        BY <3>1
    <2>2. ASSUME NEW u \in Workers \ {w}, NEW v \in Workers \ {w}, u # v, Busy(u)', Busy(v)',
                 worker'[u].event = worker'[v].event
          PROVE  worker'[u].lease # worker'[v].lease
      BY <1>5, <2>2 DEF IInv, DistinctLeases
    <2>3. QED
      BY <1>1, <1>2, <2>1, <2>2 DEF DistinctLeases
  <1>8. AttemptsLeft'
    BY <1>1 DEF IInv, AttemptsLeft
  <1>9. QED
    BY <1>1, <1>6, <1>7, <1>8 DEF IInv

\* The reaper and the cleanup change one row.
LEMMA RowShape ==
    ASSUME IInv, NEW e \in Events, ReapStaleWebhookEvent(e) \/ DeleteExpiredWebhookEvent(e)
    PROVE  \E row \in EventType :
             /\ event' = [event EXCEPT ![e] = row]
             /\ \/ /\ event[e].status = "processing" /\ row.status \in {"pending", "failed"}
                   /\ row.attempts = event[e].attempts
                   /\ row.status = "pending" =>
                          row.attempts < MaxAttempts /\ event[e].lease < row.next
                \/ event[e].status \in {"delivered", "failed"} /\ row.status = "removed"
  <1>1. event[e] \in EventType /\ policy \in Policies
    BY DEF IInv, Surroundings
  <1>2. CASE DeleteExpiredWebhookEvent(e)
    <2> DEFINE row == [event[e] EXCEPT !.status = "removed"]
    <2>1. row \in EventType
      <3>1. "removed" \in Statuses
        BY DEF Statuses
      <3>2. QED
        BY <1>1, <3>1, ZeroIsTime, RowType, Zenon
    <2>2. row.status = "removed"
      BY <1>1 DEF EventType
    <2>3. event' = [event EXCEPT ![e] = row] /\ event[e].status \in {"delivered", "failed"}
      BY <1>2 DEF DeleteExpiredWebhookEvent
    <2> HIDE DEF row
    <2>4. QED
      BY <2>1, <2>2, <2>3
  <1>3. CASE ReapStaleWebhookEvent(e)
    <2>1. PICK t \in ClockReadings :
            /\ Stale(e, t)
            /\ event' = [event EXCEPT ![e] =
                           IF @.attempts >= policy.max
                           THEN [@ EXCEPT !.status = "failed", !.lease = 0]
                           ELSE [@ EXCEPT !.status = "pending", !.lease = 0, !.next = t]]
      BY <1>3 DEF ReapStaleWebhookEvent
    <2> DEFINE failed == [event[e] EXCEPT !.status = "failed", !.lease = 0]
               again == [event[e] EXCEPT !.status = "pending", !.lease = 0, !.next = t]
    <2>2. t \in 0 .. MaxTime
      BY ReadingType DEF IInv
    <2>3. failed \in EventType /\ again \in EventType
      <3>1. "failed" \in Statuses /\ "pending" \in Statuses
        BY DEF Statuses
      <3>2. QED
        BY <1>1, <2>2, <3>1, ZeroIsTime, RowType, Zenon
    <2>4. /\ failed.status = "failed" /\ again.status = "pending" /\ again.next = t
          /\ failed.attempts = event[e].attempts /\ again.attempts = event[e].attempts
      BY <1>1 DEF EventType
    <2>5. event' = [event EXCEPT ![e] = IF event[e].attempts >= policy.max THEN failed ELSE again]
      BY <2>1
    <2>6. event[e].status = "processing" /\ event[e].lease < t
      BY <1>1, <2>1, <2>2, WebhookAssumption DEF Stale, EventType, Policies
    <2>7. ~(event[e].attempts >= policy.max) => event[e].attempts < MaxAttempts
      BY <1>1, WebhookAssumption DEF EventType, Policies
    <2> HIDE DEF failed, again
    <2>8. CASE event[e].attempts >= policy.max
      BY <2>3, <2>4, <2>5, <2>6, <2>8
    <2>9. CASE ~(event[e].attempts >= policy.max)
      BY <2>3, <2>4, <2>5, <2>6, <2>7, <2>9
    <2>10. QED
      BY <2>8, <2>9
  <1>4. QED
    BY <1>2, <1>3

LEMMA RowIInv ==
    ASSUME IInv, Surroundings', NEW e \in Events,
           ReapStaleWebhookEvent(e) \/ DeleteExpiredWebhookEvent(e)
    PROVE  IInv'
  <1>1. PICK row \in EventType :
          /\ event' = [event EXCEPT ![e] = row]
          /\ \/ /\ event[e].status = "processing" /\ row.status \in {"pending", "failed"}
                /\ row.attempts = event[e].attempts
                /\ row.status = "pending" => row.attempts < MaxAttempts /\ event[e].lease < row.next
             \/ event[e].status \in {"delivered", "failed"} /\ row.status = "removed"
    BY RowShape
  <1>2. worker' = worker
    BY DEF ReapStaleWebhookEvent, DeleteExpiredWebhookEvent
  <1>3. /\ event' \in [Events -> EventType]
        /\ event'[e] = row /\ \A d \in Events \ {e} : event'[d] = event[d]
    BY <1>1, PutOne DEF IInv
  <1>4. ASSUME row.status = "pending", NEW w \in Workers, Busy(w)', worker[w].event = e
        PROVE  worker[w].lease < row.next
    <2>1. worker[w].lease <= event[e].lease /\ event[e].lease < row.next
      BY <1>1, <1>2, <1>4 DEF IInv, Leases, LeaseOf, EventOf, Busy
    <2>2. worker[w].lease \in Nat /\ event[e].lease \in Nat /\ row.next \in Nat
      BY WebhookAssumption DEF IInv, WorkerType, EventType
    <2>3. QED
      BY <2>1, <2>2
  <1>5. LeftAlone(e)
    BY <1>1, <1>3, <1>4 DEF LeftAlone
  <1>6. \A d \in Events : LeftAlone(d)
    BY <1>3, <1>5 DEF LeftAlone
  <1>7. \A w \in Workers : Continues(w)
    BY <1>2 DEF Continues, Busy
  <1>8. QED
    BY <1>2, <1>3, <1>6, <1>7, StepKeepsIInv DEF IInv

\* A transaction publishes events.
LEMMA PublishShape ==
    ASSUME IInv, NEW E \in SUBSET Events, Publish(E)
    PROVE  /\ event' \in [Events -> EventType] /\ worker' = worker
           /\ \A e \in Events \ E : event'[e] = event[e]
           /\ \A e \in E : /\ event[e].status = "absent" /\ event'[e].status = "pending"
                           /\ event'[e].attempts = 0 /\ event'[e].next \in ClockReadings
  <1>1. PICK t \in ClockReadings :
          event' = [e \in Events |->
                      IF e \in E
                      THEN [NoEvent EXCEPT !.status = "pending", !.next = t, !.created = t]
                      ELSE event[e]]
    BY DEF Publish
  <1> DEFINE row == [NoEvent EXCEPT !.status = "pending", !.next = t, !.created = t]
  <1>2. row \in EventType
    <2>1. "pending" \in Statuses /\ t \in 0 .. MaxTime
      BY ReadingType DEF Statuses, IInv
    <2>2. QED
      BY <2>1, NoEventType, ZeroIsTime, RowType, Zenon
  <1>3. row.status = "pending" /\ row.attempts = 0 /\ row.next = t
    BY DEF NoEvent
  <1>4. event' = [e \in Events |-> IF e \in E THEN row ELSE event[e]]
    BY <1>1
  <1> HIDE DEF row
  <1>5. QED
    BY <1>2, <1>3, <1>4 DEF IInv, Publish

LEMMA PublishIInv ==
    ASSUME IInv, Surroundings', NEW E \in SUBSET Events, Publish(E)
    PROVE  IInv'
  <1>1. /\ event' \in [Events -> EventType] /\ worker' = worker
        /\ \A e \in Events \ E : event'[e] = event[e]
        /\ \A e \in E : /\ event[e].status = "absent" /\ event'[e].status = "pending"
                        /\ event'[e].attempts = 0
    BY PublishShape
  <1>2. ASSUME NEW w \in Workers, Busy(w) PROVE worker[w].event \notin E /\ LeaseOf(w)
    BY <1>1, <1>2 DEF IInv, Leases, LeaseOf, EventOf
  <1>3. \A e \in Events : LeftAlone(e)
    BY <1>1, <1>2, WebhookAssumption DEF LeftAlone, Busy
  <1>4. \A w \in Workers : Continues(w)
    BY <1>1 DEF Continues, Busy
  <1>5. QED
    BY <1>1, <1>3, <1>4, StepKeepsIInv DEF IInv

\* Every step preserves the invariant.
LEMMA NextIInv == IInv /\ [Next]_vars => IInv'
  <1> SUFFICES ASSUME IInv, [Next]_vars PROVE IInv'
    OBVIOUS
  <1>1. Surroundings'
    BY NextSurroundings DEF IInv
  <1>2. CASE \E w \in Workers : Work(w) \/ WokenByChannel(w) \/ Fault(w)
    <2>1. PICK w \in Workers : Work(w) \/ WokenByChannel(w) \/ Fault(w)
      BY <1>2
    <2>2. CASE \/ MarkWebhookEventDelivered(w) \/ RequeueWebhookEvent(w)
               \/ MarkWebhookEventFailed(w)
      BY <1>1, <2>2, ResultRow, SettleIInv
    <2>3. QED
      BY <1>1, <2>1, <2>2, MoveIInv, ClaimIInv DEF Work
  <1>3. CASE \E e \in Events : ReapStaleWebhookEvent(e) \/ DeleteExpiredWebhookEvent(e)
    BY <1>1, <1>3, RowIInv
  <1>4. CASE \E E \in SUBSET Events : Publish(E)
    BY <1>1, <1>4, PublishIInv
  <1>5. CASE Restart
    <2>1. event' = event /\ worker' \in [Workers -> WorkerType] /\ \A w \in Workers : ~Busy(w)'
      BY <1>5, AwakeType DEF Restart, Busy
    <2>2. QED
      BY <1>1, <2>1, StepKeepsIInv DEF Continues, LeftAlone, IInv
  <1>6. CASE \/ Listen \/ WaitForNotification \/ ListenerFails \/ Tick
             \/ (\E p \in Policies : SetPolicy(p)) \/ UNCHANGED vars
    <2>1. event' = event /\ worker' = worker
      BY <1>6 DEF Listen, WaitForNotification, ListenerFails, Tick, SetPolicy, vars
    <2>2. QED
      BY <1>1, <2>1, StepKeepsIInv DEF Continues, Busy, LeftAlone, IInv
  <1>7. QED
    BY <1>2, <1>3, <1>4, <1>5, <1>6 DEF Next

\* The inductive invariant of the webhook queue.
THEOREM WebhookQueueInvariant == Spec => []IInv
  <1>1. QED
    BY InitIInv, NextIInv, PTL DEF Spec

-----------------------------------------------------------------------------
(* The refinement of LeaseQueue.                                           *)

\* The owner of an event is the worker that holds its lease, now and after a step.
LEMMA OwnerIsHolder ==
    ASSUME OneHolder, OneHolder', NEW e \in Events
    PROVE  /\ \A w \in Workers : Holds(w, e) => Owner[e] = w
           /\ (\A w \in Workers : ~Holds(w, e)) => Owner[e] = None
           /\ \A w \in Workers : Owner[e] = w => Holds(w, e)
           /\ \A w \in Workers : Holds(w, e)' => Owner'[e] = w
           /\ (\A w \in Workers : ~Holds(w, e)') => Owner'[e] = None
           /\ \A w \in Workers : Owner'[e] = w => Holds(w, e)'
  <1>1. Owner[e] = IF \E w \in Workers : Holds(w, e)
                   THEN CHOOSE w \in Workers : Holds(w, e) ELSE None
    BY DEF Owner
  <1>2. Owner'[e] = IF \E w \in Workers : Holds(w, e)'
                    THEN CHOOSE w \in Workers : Holds(w, e)' ELSE None
    BY DEF Owner
  <1>3. (\E w \in Workers : Holds(w, e)) => Owner[e] \in Workers /\ Holds(Owner[e], e)
    BY <1>1
  <1>4. (\E w \in Workers : Holds(w, e)') =>
            \E w \in Workers : Owner'[e] = w /\ Holds(w, e)'
    BY <1>2
  <1>5. None \notin Workers
    BY WebhookAssumption
  <1>6. QED
    BY <1>1, <1>2, <1>3, <1>4, <1>5 DEF OneHolder

\* The mapped variables are functions.
LEMMA MappedFunctions ==
    /\ Status = [e \in Events |-> Status[e]] /\ Status' = [e \in Events |-> Status'[e]]
    /\ Owner = [e \in Events |-> Owner[e]] /\ Owner' = [e \in Events |-> Owner'[e]]
    /\ AtWork = [w \in Workers |-> AtWork[w]] /\ AtWork' = [w \in Workers |-> AtWork'[w]]
  BY DEF Status, Owner, AtWork

\* Initial states map to initial states.
LEMMA InitImplements == Init => Queue!Init
  <1> SUFFICES ASSUME Init PROVE Queue!Init
    OBVIOUS
  <1>1. Status = [e \in Events |-> "absent"]
    BY DEF Init, Status, NoEvent
  <1>2. \A w \in Workers : ~Busy(w)
    BY AwakeType DEF Init, Busy
  <1>3. Owner = [e \in Events |-> None] /\ AtWork = [w \in Workers |-> None]
    BY <1>2 DEF Owner, AtWork, Holds
  <1>4. QED
    BY <1>1, <1>3 DEF Queue!Init

\* The owner stays where the holder does.
LEMMA OwnerKept ==
    ASSUME OneHolder, OneHolder', NEW e \in Events, \A w \in Workers : Holds(w, e)' <=> Holds(w, e)
    PROVE  Owner'[e] = Owner[e]
  <1>1. CASE \E w \in Workers : Holds(w, e)
    BY <1>1, OwnerIsHolder
  <1>2. CASE \A w \in Workers : ~Holds(w, e)
    BY <1>2, OwnerIsHolder
  <1>3. QED
    BY <1>1, <1>2

\* A claim is a Take.
LEMMA ClaimImplements ==
    ASSUME IInv, OneHolder, OneHolder', NEW w \in Workers, Claim(w)
    PROVE  Queue!Next
  <1>1. PICK e \in Events :
          /\ First(e, worker[w].at)
          /\ event'[e].status = "processing" /\ event'[e].lease = worker[w].at
          /\ \A d \in Events \ {e} : event'[d] = event[d]
          /\ worker'[w].pc = "sending" /\ worker'[w].event = e
          /\ worker'[w].lease = worker[w].at
          /\ \A v \in Workers \ {w} : worker'[v] = worker[v]
    BY ClaimShape
  <1>2. event[e].status = "pending" /\ worker[w].pc = "polling"
    BY <1>1 DEF First, Due, Claim
  <1>3. ~Busy(w) /\ Busy(w)' /\ Holds(w, e)'
    BY <1>1, <1>2 DEF Busy, Holds
  <1>4. Status' = [Status EXCEPT ![e] = "processing"] /\ Status[e] = "pending"
    <2>1. \A d \in Events : Status'[d] = IF d = e THEN "processing" ELSE Status[d]
      BY <1>1 DEF Status
    <2>2. Status[e] = "pending"
      BY <1>2 DEF Status
    <2>3. QED
      BY <2>1, <2>2, MappedFunctions
  <1>5. Owner' = [Owner EXCEPT ![e] = w]
    <2>1. Owner'[e] = w
      BY <1>3, OwnerIsHolder
    <2>2. ASSUME NEW d \in Events \ {e} PROVE Owner'[d] = Owner[d]
      <3>1. ASSUME NEW v \in Workers PROVE Holds(v, d)' <=> Holds(v, d)
        BY <1>1, <1>3, <2>2 DEF Holds, Busy
      <3>2. QED
        BY <3>1, OwnerKept
    <2>3. QED
      BY <2>1, <2>2, MappedFunctions
  <1>6. AtWork' = [AtWork EXCEPT ![w] = e] /\ AtWork[w] = None
    <2>1. \A v \in Workers : AtWork'[v] = IF v = w THEN e ELSE AtWork[v]
      BY <1>1, <1>3 DEF AtWork, Busy
    <2>2. AtWork[w] = None
      BY <1>3 DEF AtWork
    <2>3. QED
      BY <2>1, <2>2, MappedFunctions
  <1>7. Queue!Take(w, e)
    BY <1>4, <1>5, <1>6 DEF Queue!Take
  <1>8. QED
    BY <1>7 DEF Queue!Next

\* A result recorded under the lease is a Settle; any other is a Refuse.
LEMMA SettleImplements ==
    ASSUME IInv, OneHolder, OneHolder', NEW w \in Workers, worker[w].pc = "settling",
           NEW row \in EventType, Transition(w, row),
           row.status \in {"pending", "delivered", "failed"}
    PROVE  Queue!Next
  <1>1. PICK e \in Events : e = worker[w].event
    BY DEF IInv, Leases, LeaseOf, Busy
  <1>2. PICK state \in {Awake, Asleep} : Goto(w, state)
    BY DEF Transition
  <1>3. /\ ~Busy(w)' /\ \A v \in Workers \ {w} : worker'[v] = worker[v]
    BY <1>2, AwakeType, GotoOne DEF IInv, Busy
  <1>4. AtWork[w] = e /\ Busy(w)
    BY <1>1 DEF AtWork, Busy
  <1>5. AtWork' = [AtWork EXCEPT ![w] = None]
    <2>1. \A v \in Workers : AtWork'[v] = IF v = w THEN None ELSE AtWork[v]
      BY <1>3 DEF AtWork, Busy
    <2>2. QED
      BY <2>1, MappedFunctions
  <1>6. CASE OwnsLease(w)
    <2> DEFINE result == IF row.status = "delivered" THEN "done" ELSE row.status
    <2>1. Holds(w, e)
      BY <1>1, <1>4, <1>6 DEF Holds, OwnsLease
    <2>2. Owner[e] = w /\ Status[e] = "processing"
      BY <2>1, OwnerIsHolder DEF Status, Holds
    <2>3. event'[e] = row /\ \A d \in Events \ {e} : event'[d] = event[d]
      BY <1>1, <1>6, PutOne DEF Transition, IInv
    <2>4. Status' = [Status EXCEPT ![e] = result]
      <3>1. \A d \in Events : Status'[d] = IF d = e THEN result ELSE Status[d]
        BY <2>3 DEF Status
      <3>2. QED
        BY <3>1, MappedFunctions
    <2>5. Owner' = [Owner EXCEPT ![e] = None]
      <3>1. Owner'[e] = None
        BY <2>3, OwnerIsHolder DEF Holds
      <3>2. ASSUME NEW d \in Events \ {e} PROVE Owner'[d] = Owner[d]
        <4>1. ASSUME NEW v \in Workers PROVE Holds(v, d)' <=> Holds(v, d)
          BY <1>1, <1>3, <2>3, <3>2 DEF Holds, Busy
        <4>2. QED
          BY <4>1, OwnerKept
      <3>3. QED
        BY <3>1, <3>2, MappedFunctions
    <2>6. Queue!Settle(w, e, result)
      BY <1>4, <1>5, <2>2, <2>4, <2>5 DEF Queue!Settle
    <2>7. result \in {"pending", "done", "failed"}
      OBVIOUS
    <2>8. QED
      BY <2>6, <2>7 DEF Queue!Next
  <1>7. CASE ~OwnsLease(w)
    <2>1. event' = event
      BY <1>7 DEF Transition
    <2>2. ~Holds(w, e)
      BY <1>1, <1>7 DEF Holds, OwnsLease
    <2>3. Owner[e] # w
      BY <2>2, OwnerIsHolder
    <2>4. ASSUME NEW d \in Events PROVE Owner'[d] = Owner[d]
      <3>1. ASSUME NEW v \in Workers PROVE Holds(v, d)' <=> Holds(v, d)
        BY <1>1, <1>3, <2>1, <2>2 DEF Holds, Busy
      <3>2. QED
        BY <3>1, OwnerKept
    <2>5. Status' = Status /\ Owner' = Owner
      BY <2>1, <2>4, MappedFunctions DEF Status
    <2>6. Queue!Refuse(w, e)
      BY <1>4, <1>5, <2>3, <2>5 DEF Queue!Refuse
    <2>7. QED
      BY <2>6 DEF Queue!Next
  <1>8. QED
    BY <1>6, <1>7

\* Workers that are gone, one or all of them, are an Abandon.
LEMMA AbandonImplements ==
    ASSUME OneHolder, OneHolder', NEW W \in SUBSET Workers, event' = event,
           \A w \in W : ~Busy(w)', \A w \in Workers \ W : worker'[w] = worker[w]
    PROVE  Queue!Next
  <1>1. ASSUME NEW e \in Events
        PROVE  Owner'[e] = IF Owner[e] \in W THEN None ELSE Owner[e]
    <2>1. ASSUME NEW v \in Workers PROVE Holds(v, e)' <=> Holds(v, e) /\ v \notin W
      BY DEF Holds, Busy
    <2>2. CASE \E w \in W : Holds(w, e)
      BY <2>1, <2>2, OwnerIsHolder DEF OneHolder
    <2>3. CASE \A w \in W : ~Holds(w, e)
      <3>1. Owner[e] \notin W
        BY <2>3, OwnerIsHolder
      <3>2. Owner'[e] = Owner[e]
        BY <2>1, <2>3, OwnerKept
      <3>3. QED
        BY <3>1, <3>2
    <2>4. QED
      BY <2>2, <2>3
  <1>2. Owner' = [e \in Events |-> IF Owner[e] \in W THEN None ELSE Owner[e]]
    BY <1>1, MappedFunctions
  <1>3. AtWork' = [w \in Workers |-> IF w \in W THEN None ELSE AtWork[w]]
    BY DEF AtWork, Busy
  <1>4. Queue!Abandon(W)
    BY <1>2, <1>3 DEF Queue!Abandon, Status
  <1>5. QED
    BY <1>4 DEF Queue!Next

\* A step that leaves the rows and the work alone changes nothing of the queue.
LEMMA IdleImplements ==
    ASSUME OneHolder, OneHolder', event' = event,
           \A w \in Workers : /\ Busy(w)' <=> Busy(w)
                              /\ Busy(w) => /\ worker'[w].event = worker[w].event
                                            /\ worker'[w].lease = worker[w].lease
    PROVE  UNCHANGED Queue!vars
  <1>1. ASSUME NEW e \in Events PROVE Owner'[e] = Owner[e]
    <2>1. ASSUME NEW v \in Workers PROVE Holds(v, e)' <=> Holds(v, e)
      BY DEF Holds
    <2>2. QED
      BY <2>1, OwnerKept
  <1>2. \A w \in Workers : AtWork'[w] = AtWork[w]
    BY DEF AtWork
  <1>3. Status' = Status /\ Owner' = Owner /\ AtWork' = AtWork
    BY <1>1, <1>2, MappedFunctions DEF Status
  <1>4. QED
    BY <1>3 DEF Queue!vars

\* The other steps of the workers.
LEMMA MoveImplements ==
    ASSUME IInv, OneHolder, OneHolder', NEW w \in Workers,
           \/ WokenByTimer(w) \/ WokenByChannel(w) \/ Poll(w) \/ ClaimEmpty(w) \/ Send(w)
    PROVE  UNCHANGED Queue!vars
  <1>1. worker \in [Workers -> WorkerType] /\ worker[w] \in WorkerType
    BY DEF IInv
  <1>2. event' = event
    BY DEF WokenByTimer, WokenByChannel, Poll, ClaimEmpty, Send
  <1>3. CASE \/ WokenByTimer(w) \/ WokenByChannel(w) \/ Poll(w) \/ ClaimEmpty(w)
    <2>1. ~Busy(w)
      BY <1>3 DEF WokenByTimer, WokenByChannel, Poll, ClaimEmpty, Busy
    <2>2. \E state : Goto(w, state) /\ state.pc \in {"awake", "asleep", "polling"}
      <3>1. CASE Poll(w)
        <4>1. PICK t \in ClockReadings :
                Goto(w, [Awake EXCEPT !.pc = "polling", !.at = t, !.max = policy.max])
          BY <3>1 DEF Poll
        <4>2. [Awake EXCEPT !.pc = "polling", !.at = t, !.max = policy.max].pc = "polling"
          BY DEF Awake
        <4>3. QED
          BY <4>1, <4>2
      <3>2. CASE WokenByTimer(w) \/ WokenByChannel(w) \/ ClaimEmpty(w)
        BY <3>2, AwakeType DEF WokenByTimer, WokenByChannel, ClaimEmpty
      <3>3. QED
        BY <1>3, <3>1, <3>2
    <2>3. ~Busy(w)' /\ \A v \in Workers \ {w} : worker'[v] = worker[v]
      BY <1>1, <2>2 DEF Goto, Busy
    <2>4. QED
      BY <1>2, <2>1, <2>3, IdleImplements DEF Busy
  <1>4. CASE Send(w)
    <2>1. PICK result \in {"ok", "retryable", "final"} :
            Goto(w, [worker[w] EXCEPT !.pc = "settling", !.result = result])
      BY <1>4 DEF Send
    <2>2. /\ worker'[w].pc = "settling"
          /\ worker'[w].event = worker[w].event /\ worker'[w].lease = worker[w].lease
          /\ \A v \in Workers \ {w} : worker'[v] = worker[v]
      BY <1>1, <2>1 DEF Goto, WorkerType
    <2>3. Busy(w)
      BY <1>4 DEF Send, Busy
    <2>4. QED
      BY <1>2, <2>2, <2>3, IdleImplements DEF Busy
  <1>5. QED
    BY <1>3, <1>4

\* The reaper expires an event, the cleanup removes one.
LEMMA RowImplements ==
    ASSUME IInv, OneHolder, OneHolder', NEW e \in Events,
           ReapStaleWebhookEvent(e) \/ DeleteExpiredWebhookEvent(e)
    PROVE  Queue!Next
  <1>1. PICK row \in EventType :
          /\ event' = [event EXCEPT ![e] = row]
          /\ \/ event[e].status = "processing" /\ row.status \in {"pending", "failed"}
             \/ event[e].status \in {"delivered", "failed"} /\ row.status = "removed"
    BY RowShape
  <1>2. worker' = worker
    BY DEF ReapStaleWebhookEvent, DeleteExpiredWebhookEvent
  <1>3. event'[e] = row /\ \A d \in Events \ {e} : event'[d] = event[d]
    BY <1>1, PutOne DEF IInv
  <1>4. Status' = [Status EXCEPT ![e] = row.status]
    <2>1. \A d \in Events : Status'[d] = IF d = e THEN row.status ELSE Status[d]
      BY <1>1, <1>3 DEF Status
    <2>2. QED
      BY <2>1, MappedFunctions
  <1>5. Owner' = [Owner EXCEPT ![e] = None]
    <2>1. Owner'[e] = None
      BY <1>1, <1>3, OwnerIsHolder DEF Holds
    <2>2. ASSUME NEW d \in Events \ {e} PROVE Owner'[d] = Owner[d]
      <3>1. ASSUME NEW v \in Workers PROVE Holds(v, d)' <=> Holds(v, d)
        BY <1>2, <1>3, <2>2 DEF Holds, Busy
      <3>2. QED
        BY <3>1, OwnerKept
    <2>3. QED
      BY <2>1, <2>2, MappedFunctions
  <1>6. AtWork' = AtWork
    BY <1>2 DEF AtWork, Busy
  <1>7. CASE event[e].status = "processing" /\ row.status \in {"pending", "failed"}
    <2>1. Status[e] = "processing"
      BY <1>7 DEF Status
    <2>2. Queue!Expire(e, row.status)
      BY <1>4, <1>5, <1>6, <2>1 DEF Queue!Expire
    <2>3. QED
      BY <1>7, <2>2 DEF Queue!Next
  <1>8. CASE event[e].status \in {"delivered", "failed"} /\ row.status = "removed"
    <2>1. Status[e] # "absent"
      BY <1>8 DEF Status
    <2>2. Queue!Remove(e)
      BY <1>4, <1>5, <1>6, <1>8, <2>1 DEF Queue!Remove
    <2>3. QED
      BY <2>2 DEF Queue!Next
  <1>9. QED
    BY <1>1, <1>7, <1>8

\* A transaction puts its events into the queue.
LEMMA PublishImplements ==
    ASSUME IInv, OneHolder, OneHolder', NEW E \in SUBSET Events, Publish(E)
    PROVE  Queue!Next
  <1>1. /\ worker' = worker
        /\ \A e \in Events \ E : event'[e] = event[e]
        /\ \A e \in E : event[e].status = "absent" /\ event'[e].status = "pending"
    BY PublishShape
  <1>2. ASSUME NEW e \in Events PROVE Owner'[e] = Owner[e]
    <2>1. ASSUME NEW v \in Workers PROVE Holds(v, e)' <=> Holds(v, e)
      BY <1>1 DEF Holds, Busy
    <2>2. QED
      BY <2>1, OwnerKept
  <1>3. \A e \in Events : Status'[e] = IF e \in E THEN "pending" ELSE Status[e]
    BY <1>1 DEF Status
  <1>4. \A e \in E : Status[e] = "absent"
    BY <1>1 DEF Status
  <1>5. AtWork' = AtWork
    BY <1>1 DEF AtWork, Busy
  <1>6. Queue!Put(E)
    BY <1>2, <1>3, <1>4, <1>5, MappedFunctions DEF Queue!Put
  <1>7. QED
    BY <1>6 DEF Queue!Next

\* Every step is a step of the abstract queue or a stutter.
LEMMA NextImplements ==
    IInv /\ OneHolder /\ OneHolder' /\ [Next]_vars => [Queue!Next]_Queue!vars
  <1> SUFFICES ASSUME IInv, OneHolder, OneHolder', [Next]_vars
               PROVE  Queue!Next \/ UNCHANGED Queue!vars
    OBVIOUS
  <1>1. CASE \E w \in Workers : Work(w) \/ WokenByChannel(w) \/ Fault(w)
    <2>1. PICK w \in Workers : Work(w) \/ WokenByChannel(w) \/ Fault(w)
      BY <1>1
    <2>2. CASE \/ MarkWebhookEventDelivered(w) \/ RequeueWebhookEvent(w)
               \/ MarkWebhookEventFailed(w)
      BY <2>2, ResultRow, SettleImplements
    <2>3. CASE Fault(w)
      <3>1. event' = event /\ Goto(w, Asleep)
        BY <2>3 DEF Fault
      <3>2. ~Busy(w)' /\ \A v \in Workers \ {w} : worker'[v] = worker[v]
        BY <3>1, AwakeType, GotoOne DEF IInv, Busy
      <3>3. {w} \in SUBSET Workers /\ \A v \in {w} : ~Busy(v)'
        BY <3>2
      <3>4. QED
        BY <3>1, <3>2, <3>3, AbandonImplements
    <2>4. QED
      BY <2>1, <2>2, <2>3, ClaimImplements, MoveImplements DEF Work
  <1>2. CASE \E e \in Events : ReapStaleWebhookEvent(e) \/ DeleteExpiredWebhookEvent(e)
    BY <1>2, RowImplements
  <1>3. CASE \E E \in SUBSET Events : Publish(E)
    BY <1>3, PublishImplements
  <1>4. CASE Restart
    <2>1. event' = event /\ \A w \in Workers : ~Busy(w)'
      BY <1>4, AwakeType DEF Restart, Busy
    <2>2. QED
      BY <2>1, AbandonImplements
  <1>5. CASE \/ Listen \/ WaitForNotification \/ ListenerFails \/ Tick
             \/ (\E p \in Policies : SetPolicy(p)) \/ UNCHANGED vars
    <2>1. event' = event /\ worker' = worker
      BY <1>5 DEF Listen, WaitForNotification, ListenerFails, Tick, SetPolicy, vars
    <2>2. QED
      BY <2>1, IdleImplements DEF Busy
  <1>6. QED
    BY <1>1, <1>2, <1>3, <1>4, <1>5 DEF Next

\* ClaimNextWebhookEvent and the conditional updates: the table of webhook
\* events is a LeaseQueue, whatever the settings, the clocks and restarts do.
THEOREM WebhookQueueImplements == Spec => ImplementsLeaseQueue
  <1>1. IInv => OneHolder
    BY HolderIsOne
  <1>2. QED
    BY <1>1, InitImplements, NextImplements, WebhookQueueInvariant, PTL
       DEF Spec, ImplementsLeaseQueue, Queue!Spec

-----------------------------------------------------------------------------
(* No lost wakeup.                                                         *)

New(e) == event[e].status = "pending" /\ event[e].attempts = 0
Looks(w, e) == \/ worker[w].pc = "awake"
               \/ worker[w].pc = "polling" /\ worker[w].at >= event[e].next

\* An event that was claimed is not new, and a new one is due.
InTime ==
    \A e \in Events : /\ event[e].status = "processing" => event[e].attempts > 0
                      /\ New(e) => event[e].next <= now

\* A worker that polls reads the reference clock, as do all with one clock.
OneClock == \A w \in Workers : Poll(w) => worker'[w].at = now

\* A row stays as it is or is not new afterwards.
NotNew(e) ==
    \/ event'[e] = event[e]
    \/ ~New(e)' /\ (event'[e].status = "processing" => event'[e].attempts > 0)

\* What a step that publishes nothing must do.
LEMMA AnnouncedKept ==
    ASSUME IInv, Surroundings', InTime, NewEventsAnnounced, \A e \in Events : NotNew(e),
           now <= now',
           listener' = "up" /\ faults' = 0 =>
               \/ notes' > 0 \/ wake' > 0
               \/ /\ listener = "up" /\ faults = 0 /\ notes' = notes /\ wake' = wake
                  /\ \A w \in Workers, e \in Events : New(e) /\ event'[e] = event[e] /\ Looks(w, e) => Looks(w, e)'
    PROVE  InTime' /\ NewEventsAnnounced'
  <1>1. \A e \in Events : New(e)' => event'[e] = event[e] /\ New(e)
    BY DEF NotNew, New
  <1>2. InTime'
    <2> SUFFICES ASSUME NEW e \in Events
                 PROVE  /\ event'[e].status = "processing" => event'[e].attempts > 0
                        /\ New(e)' => event'[e].next <= now'
      BY DEF InTime
    <2>1. event'[e].status = "processing" => event'[e].attempts > 0
      BY DEF InTime, NotNew
    <2>2. New(e)' => event'[e].next <= now'
      <3>1. event[e].next \in Int /\ now \in Int /\ now' \in Int
        BY WebhookAssumption DEF IInv, EventType, Surroundings
      <3>2. QED
        BY <1>1, <3>1 DEF InTime
    <2>3. QED
      BY <2>1, <2>2
  <1>3. NewEventsAnnounced'
    <2> SUFFICES ASSUME listener' = "up", faults' = 0, NEW e \in Events, New(e)'
                 PROVE  notes' > 0 \/ wake' > 0 \/ \E w \in Workers : Looks(w, e)'
      BY DEF NewEventsAnnounced, New, Looks
    <2>1. event'[e] = event[e] /\ New(e)
      BY <1>1
    <2>2. CASE notes' > 0 \/ wake' > 0
      BY <2>2
    <2>3. CASE /\ listener = "up" /\ faults = 0 /\ notes' = notes /\ wake' = wake
               /\ \A w \in Workers, d \in Events :
                      New(d) /\ event'[d] = event[d] /\ Looks(w, d) => Looks(w, d)'
      <3>1. notes > 0 \/ wake > 0 \/ \E w \in Workers : Looks(w, e)
        BY <2>1, <2>3 DEF NewEventsAnnounced, New, Looks
      <3>2. QED
        BY <2>1, <2>3, <3>1
    <2>4. QED
      BY <2>2, <2>3
  <1>4. QED
    BY <1>2, <1>3

\* The steps of the workers, when those that poll do not read a clock that is behind.
LEMMA WorkAnnounces ==
    ASSUME OneClock, IInv, Surroundings', InTime, NewEventsAnnounced,
           NEW w \in Workers, Work(w) \/ WokenByChannel(w) \/ Fault(w)
    PROVE  InTime' /\ NewEventsAnnounced'
  <1>1. /\ worker \in [Workers -> WorkerType] /\ worker[w] \in WorkerType
        /\ event \in [Events -> EventType]
        /\ now \in Nat /\ faults \in Nat /\ wake \in 0 .. Cardinality(Workers)
    BY WebhookAssumption DEF IInv, Surroundings
  <1>2. CASE Claim(w)
    <2>1. PICK e \in Events : /\ event'[e].status = "processing"
                              /\ event'[e].attempts = event[e].attempts + 1
                              /\ \A d \in Events \ {e} : event'[d] = event[d]
      BY <1>2, ClaimShape
    <2>2. \A d \in Events : NotNew(d)
      <3>1. event[e].attempts \in Nat
        BY <1>1 DEF EventType
      <3>2. QED
        BY <2>1, <3>1 DEF NotNew, New
    <2>3. wake' > 0 /\ now' = now
      BY <1>1, <1>2, WakeOneType, WebhookAssumption DEF Claim, OnClaim
    <2>4. now <= now'
      BY <1>1, <2>3
    <2>5. QED
      BY <2>2, <2>3, <2>4, AnnouncedKept
  <1>3. CASE MarkWebhookEventDelivered(w) \/ RequeueWebhookEvent(w) \/ MarkWebhookEventFailed(w)
    <2>1. PICK row \in EventType :
            /\ Transition(w, row) /\ row.status \in {"pending", "delivered", "failed"}
            /\ row.attempts = EventOf(w).attempts
      BY <1>3, ResultRow
    <2>2. worker[w].pc = "settling" /\ worker[w].event \in Events
      BY <1>3, ResultRow DEF IInv, Leases, LeaseOf, Busy
    <2>3. \A d \in Events : NotNew(d)
      <3>1. CASE OwnsLease(w)
        <4>1. /\ event'[worker[w].event] = row
              /\ \A d \in Events \ {worker[w].event} : event'[d] = event[d]
          BY <1>1, <2>1, <2>2, <3>1, PutOne DEF Transition
        <4>2. row.attempts > 0
          BY <2>1, <2>2, <3>1 DEF InTime, EventOf, OwnsLease
        <4>3. ~(row.attempts = 0)
          BY <4>2
        <4>4. QED
          BY <2>1, <2>2, <4>1, <4>3 DEF NotNew, New
      <3>2. CASE ~OwnsLease(w)
        BY <2>1, <3>2 DEF Transition, NotNew
      <3>3. QED
        BY <3>1, <3>2
    <2>4. UNCHANGED <<now, wake, listener, notes, faults>> /\ \E state : Goto(w, state)
      BY <2>1 DEF Transition
    <2>5. \A v \in Workers, d \in Events : event'[d] = event[d] /\ Looks(v, d) => Looks(v, d)'
      BY <1>1, <2>2, <2>4 DEF Looks, Goto
    <2>6. now <= now'
      BY <1>1, <2>4
    <2>7. QED
      BY <2>3, <2>4, <2>5, <2>6, AnnouncedKept
  <1>4. CASE \/ WokenByTimer(w) \/ WokenByChannel(w) \/ Poll(w) \/ ClaimEmpty(w) \/ Send(w) \/ Fault(w)
    <2>1. UNCHANGED <<now, event>> /\ now <= now'
      <3>1. now' = now /\ event' = event
        BY <1>4 DEF WokenByTimer, WokenByChannel, Poll, ClaimEmpty, Send, Fault
      <3>2. QED
        BY <1>1, <3>1
    <2>2. \A d \in Events : NotNew(d)
      BY <2>1 DEF NotNew
    <2>3. CASE Fault(w)
      <3>1. faults' # 0
        BY <1>1, <2>3 DEF Fault
      <3>2. QED
        BY <2>1, <2>2, <3>1, AnnouncedKept
    <2>4. CASE WokenByTimer(w) \/ WokenByChannel(w)
      <3>1. worker'[w].pc = "awake" /\ UNCHANGED <<listener, notes, faults>>
        BY <1>1, <2>4, AwakeType DEF WokenByTimer, WokenByChannel, Goto
      <3>2. ASSUME listener' = "up", faults' = 0, NEW e \in Events
            PROVE  \E v \in Workers : Looks(v, e)'
        BY <3>1 DEF Looks
      <3>3. InTime'
        BY <2>1 DEF InTime, New
      <3>4. NewEventsAnnounced'
        BY <3>2 DEF NewEventsAnnounced, Looks
      <3>5. QED
        BY <3>3, <3>4
    <2>5. CASE Poll(w)
      <3>1. PICK t \in ClockReadings :
              Goto(w, [Awake EXCEPT !.pc = "polling", !.at = t, !.max = policy.max])
        BY <2>5 DEF Poll
      <3>2. worker'[w].at = now
        BY <2>5 DEF OneClock
      <3>3. [Awake EXCEPT !.pc = "polling", !.at = t, !.max = policy.max].pc = "polling"
        BY DEF Awake
      <3>4. /\ worker'[w].pc = "polling" /\ worker'[w].at = now
            /\ \A v \in Workers \ {w} : worker'[v] = worker[v]
        BY <1>1, <3>1, <3>2, <3>3 DEF Goto
      <3>5. \A v \in Workers, e \in Events : New(e) /\ Looks(v, e) => Looks(v, e)'
        <4> SUFFICES ASSUME NEW v \in Workers, NEW e \in Events, New(e), Looks(v, e)
                     PROVE  Looks(v, e)'
          OBVIOUS
        <4>1. event[e].next <= now /\ event[e].next \in Int
          BY <1>1 DEF InTime, EventType
        <4>2. QED
          BY <1>1, <2>1, <3>4, <4>1 DEF Looks
      <3>6. UNCHANGED <<listener, notes, wake, faults>>
        BY <2>5 DEF Poll
      <3>7. QED
        BY <2>1, <2>2, <3>5, <3>6, AnnouncedKept
    <2>6. CASE ClaimEmpty(w) \/ Send(w)
      <3>1. \A v \in Workers \ {w} : worker'[v] = worker[v]
        BY <1>1, <2>6 DEF ClaimEmpty, Send, Goto
      <3>2. \A e \in Events : New(e) => ~Looks(w, e)
        <4> SUFFICES ASSUME NEW e \in Events, New(e), Looks(w, e) PROVE FALSE
          OBVIOUS
        <4>1. CASE Send(w)
          BY <4>1 DEF Send, Looks
        <4>2. CASE ClaimEmpty(w)
          <5>1. worker[w].at >= event[e].next
            BY <4>2 DEF ClaimEmpty, Looks
          <5>2. Due(e, worker[w].at)
            BY <1>1, <5>1 DEF Due, New, EventType, WorkerType
          <5>3. QED
            BY <4>2, <5>2 DEF ClaimEmpty
        <4>3. QED
          BY <2>6, <4>1, <4>2
      <3>3. \A v \in Workers, e \in Events : New(e) /\ Looks(v, e) => Looks(v, e)'
        BY <2>1, <3>1, <3>2 DEF Looks
      <3>4. UNCHANGED <<listener, notes, wake, faults>>
        BY <2>6 DEF ClaimEmpty, Send
      <3>5. QED
        BY <2>1, <2>2, <3>3, <3>4, AnnouncedKept
    <2>7. QED
      BY <1>4, <2>3, <2>4, <2>5, <2>6
  <1>5. QED
    BY <1>2, <1>3, <1>4 DEF Work

\* The steps of the listener, the publishers, the reaper and the clock.
LEMMA OthersAnnounce ==
    ASSUME IInv, Surroundings', InTime, NewEventsAnnounced, [Next]_vars,
           ~\E w \in Workers : Work(w) \/ WokenByChannel(w) \/ Fault(w)
    PROVE  InTime' /\ NewEventsAnnounced'
  <1>1. /\ event \in [Events -> EventType] /\ now \in Nat /\ now' \in Nat /\ notes \in Nat
        /\ wake \in 0 .. Cardinality(Workers)
    BY WebhookAssumption DEF IInv, Surroundings
  <1>2. CASE Listen \/ WaitForNotification
    <2>1. event' = event /\ now' = now /\ wake' > 0
      BY <1>1, <1>2, WakeOneType, WebhookAssumption DEF Listen, WaitForNotification
    <2>2. QED
      BY <1>1, <2>1, AnnouncedKept DEF NotNew
  <1>3. CASE ListenerFails \/ Restart
    <2>1. event' = event /\ now' = now /\ listener' = "down"
      BY <1>3 DEF ListenerFails, Restart
    <2>2. QED
      BY <1>1, <2>1, AnnouncedKept DEF NotNew
  <1>4. CASE Tick \/ (\E p \in Policies : SetPolicy(p)) \/ UNCHANGED vars
    <2>1. UNCHANGED <<event, worker, wake, listener, notes, faults>> /\ now <= now'
      BY <1>1, <1>4 DEF Tick, SetPolicy, vars
    <2>2. QED
      BY <2>1, AnnouncedKept DEF NotNew, Looks
  <1>5. CASE \E e \in Events : ReapStaleWebhookEvent(e) \/ DeleteExpiredWebhookEvent(e)
    <2>1. PICK e \in Events : ReapStaleWebhookEvent(e) \/ DeleteExpiredWebhookEvent(e)
      BY <1>5
    <2>2. UNCHANGED <<now, worker, wake, listener, notes, faults>>
      BY <2>1 DEF ReapStaleWebhookEvent, DeleteExpiredWebhookEvent
    <2>3. PICK row \in EventType :
            /\ event' = [event EXCEPT ![e] = row]
            /\ \/ /\ event[e].status = "processing" /\ row.status \in {"pending", "failed"}
                  /\ row.attempts = event[e].attempts
               \/ row.status = "removed"
      BY <2>1, RowShape
    <2>4. event'[e] = row /\ \A d \in Events \ {e} : event'[d] = event[d]
      BY <1>1, <2>3, PutOne
    <2>5. event[e].status = "processing" => ~(event[e].attempts = 0)
      BY DEF InTime
    <2>6. \A d \in Events : NotNew(d)
      BY <2>3, <2>4, <2>5 DEF NotNew, New
    <2>7. \A w \in Workers, d \in Events : event'[d] = event[d] /\ Looks(w, d) => Looks(w, d)'
      BY <2>2 DEF Looks
    <2>8. QED
      BY <1>1, <2>2, <2>6, <2>7, AnnouncedKept
  <1>6. CASE \E E \in SUBSET Events : Publish(E)
    <2>1. PICK E \in SUBSET Events : Publish(E)
      BY <1>6
    <2>2. /\ \A e \in Events \ E : event'[e] = event[e]
          /\ \A e \in E : event'[e].status = "pending" /\ event'[e].next \in ClockReadings
      BY <2>1, PublishShape
    <2>3. UNCHANGED <<now, worker, wake, listener, faults>>
      BY <2>1 DEF Publish
    <2>4. InTime'
      <3>1. \A t \in ClockReadings : t <= now
        BY DEF ClockReadings, IInv, Surroundings
      <3>2. QED
        BY <2>2, <2>3, <3>1 DEF InTime, New
    <2>5. listener' = "up" => notes' > 0
      BY <1>1, <2>1, <2>3 DEF Publish
    <2>6. NewEventsAnnounced'
      BY <2>5 DEF NewEventsAnnounced
    <2>7. QED
      BY <2>4, <2>6
  <1>7. QED
    BY <1>2, <1>3, <1>4, <1>5, <1>6 DEF Next

\* Both kinds of steps.
LEMMA StepAnnounces ==
    ASSUME IInv, InTime, NewEventsAnnounced, [Next]_vars, OneClock \/ UNCHANGED vars
    PROVE  InTime' /\ NewEventsAnnounced'
  <1>1. Surroundings'
    BY NextSurroundings DEF IInv
  <1>2. CASE OneClock /\ \E w \in Workers : Work(w) \/ WokenByChannel(w) \/ Fault(w)
    BY <1>1, <1>2, WorkAnnounces
  <1>3. CASE ~\E w \in Workers : Work(w) \/ WokenByChannel(w) \/ Fault(w)
    BY <1>1, <1>3, OthersAnnounce
  <1>4. CASE UNCHANGED vars
    BY <1>4 DEF vars, InTime, New, NewEventsAnnounced
  <1>5. QED
    BY <1>2, <1>3, <1>4

\* At the start there are no events.
LEMMA InitAnnounces == Init => InTime /\ NewEventsAnnounced
  BY DEF Init, InTime, NewEventsAnnounced, New, NoEvent

\* ListenForWebhookEvents, wakeOne and runOnce: while the replica listens and
\* its database calls succeed, no new event waits for the poll timer, in every
\* behaviour in which no worker polls with a clock that is behind.
THEOREM NewEventsAreAnnounced == Spec /\ [][OneClock]_vars => []NewEventsAnnounced
  <1>1. IInv /\ InTime /\ NewEventsAnnounced /\ [Next]_vars /\ [OneClock]_vars
           => InTime' /\ NewEventsAnnounced'
    BY StepAnnounces
  <1>2. QED
    BY <1>1, InitAnnounces, WebhookQueueInvariant, PTL DEF Spec

\* A worker that is not at work has read no clock.
Quiet == \A w \in Workers : worker[w].pc \in {"asleep", "awake"} => worker[w].at = 0

LEMMA QuietStays ==
    ASSUME IInv, Quiet, [Next]_vars
    PROVE  Quiet'
  <1>1. /\ worker \in [Workers -> WorkerType]
        /\ Awake.at = 0 /\ Asleep.at = 0
    BY DEF IInv, Awake, Asleep
  <1>2. ASSUME NEW w \in Workers, NEW state, Goto(w, state),
               state.pc \in {"asleep", "awake"} => state.at = 0
        PROVE  Quiet'
    BY <1>1, <1>2 DEF Quiet, Goto
  <1>3. ASSUME NEW w \in Workers, Work(w) \/ WokenByChannel(w) \/ Fault(w)
        PROVE  Quiet'
    <2>1. CASE \E state \in {Awake, Asleep} : Goto(w, state)
      BY <1>1, <1>2, <2>1
    <2>2. CASE Poll(w)
      <3>1. ASSUME NEW t PROVE [Awake EXCEPT !.pc = "polling", !.at = t, !.max = policy.max].pc = "polling"
        BY DEF Awake
      <3>2. QED
        BY <1>2, <2>2, <3>1 DEF Poll
    <2>3. CASE Claim(w)
      <3>1. PICK e \in Events : Goto(w, [worker[w] EXCEPT !.pc = "sending", !.event = e,
                                                           !.lease = worker[w].at,
                                                           !.attempts = event[e].attempts + 1])
        BY <2>3 DEF Claim
      <3>2. [worker[w] EXCEPT !.pc = "sending", !.event = e, !.lease = worker[w].at,
                              !.attempts = event[e].attempts + 1].pc = "sending"
        BY <1>1 DEF WorkerType
      <3>3. QED
        BY <1>2, <3>1, <3>2
    <2>4. CASE Send(w)
      <3>1. PICK result \in {"ok", "retryable", "final"} :
              Goto(w, [worker[w] EXCEPT !.pc = "settling", !.result = result])
        BY <2>4 DEF Send
      <3>2. [worker[w] EXCEPT !.pc = "settling", !.result = result].pc = "settling"
        BY <1>1 DEF WorkerType
      <3>3. QED
        BY <1>2, <3>1, <3>2
    <2>5. CASE MarkWebhookEventDelivered(w) \/ RequeueWebhookEvent(w) \/ MarkWebhookEventFailed(w)
      BY <2>1, <2>5 DEF MarkWebhookEventDelivered, RequeueWebhookEvent, MarkWebhookEventFailed, Transition
    <2>6. CASE WokenByTimer(w) \/ WokenByChannel(w) \/ ClaimEmpty(w) \/ Fault(w)
      BY <2>1, <2>6 DEF WokenByTimer, WokenByChannel, ClaimEmpty, Fault
    <2>7. QED
      BY <1>3, <2>2, <2>3, <2>4, <2>5, <2>6 DEF Work
  <1>4. CASE Restart
    BY <1>1, <1>4 DEF Restart, Quiet
  <1>5. CASE worker' = worker
    BY <1>5 DEF Quiet
  <1>6. QED
    BY <1>3, <1>4, <1>5
    DEF Next, Publish, Listen, WaitForNotification, ListenerFails, Tick, ReapStaleWebhookEvent,
        DeleteExpiredWebhookEvent, SetPolicy, vars

\* The steps of the part "wake" of the run have one clock.
LEMMA ExactIsOneClock ==
    ASSUME IInv, Quiet, Exact
    PROVE  OneClock
  <1> SUFFICES ASSUME NEW w \in Workers, Poll(w) PROVE worker'[w].at = now
    BY DEF OneClock
  <1>1. PICK t \in ClockReadings :
          Goto(w, [Awake EXCEPT !.pc = "polling", !.at = t, !.max = policy.max])
    BY DEF Poll
  <1>2. [Awake EXCEPT !.pc = "polling", !.at = t, !.max = policy.max].at = t
    BY DEF Awake
  <1>3. worker'[w].at = t
    BY <1>1, <1>2 DEF Goto, IInv
  <1>4. t > 0 /\ worker[w].at = 0
    BY DEF Quiet, Poll, ClockReadings
  <1>5. worker'[w].at \in {0, worker[w].at, now}
    BY DEF Exact
  <1>6. QED
    BY <1>3, <1>4, <1>5

\* The same theorem of the run's instances: types everywhere, and announced events in
\* the part that has one clock, for every number of events and workers.
THEOREM WakesAreKept == PartsSpec => []WakesKept
  <1> DEFINE Inv == /\ IInv /\ Quiet
                    /\ part = "wake" => InTime /\ NewEventsAnnounced
  <1>1. PartsInit => Inv
    <2>1. Init => Quiet
      BY DEF Init, Quiet, Awake
    <2>2. QED
      BY <2>1, InitIInv, InitAnnounces DEF PartsInit
  <1>2. Inv /\ [PartsNext]_webhookVars => Inv'
    <2> SUFFICES ASSUME Inv, [PartsNext]_webhookVars PROVE Inv'
      OBVIOUS
    <2>1. [Next]_vars /\ part' = part
      BY DEF PartsNext, webhookVars
    <2>2. IInv' /\ Quiet'
      BY <2>1, NextIInv, QuietStays
    <2>3. ASSUME part = "wake" PROVE InTime' /\ NewEventsAnnounced'
      <3>1. Exact \/ UNCHANGED vars
        BY <2>3 DEF PartsNext, Scope, webhookVars
      <3>2. OneClock \/ UNCHANGED vars
        BY <3>1, ExactIsOneClock
      <3>3. QED
        BY <2>1, <2>3, <3>2, StepAnnounces
    <2>4. QED
      BY <2>1, <2>2, <2>3
  <1>3. Inv => WakesKept
    BY TypeParts DEF IInv, WakesKept
  <1>4. QED
    BY <1>1, <1>2, <1>3, PTL DEF PartsSpec
=============================================================================
