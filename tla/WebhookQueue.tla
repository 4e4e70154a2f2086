---------------------------- MODULE WebhookQueue ----------------------------
(***************************************************************************)
(* The queue of webhook events: table webhook_events, the workers that     *)
(* deliver them over HTTP, the reaper, and the two ways a sleeping worker  *)
(* is woken: a PostgreSQL notification, sent when a transaction that       *)
(* inserted events commits, or the poll timer.                             *)
(*                                                                         *)
(*   asleep -wake or timer-> awake -Poll-> polling -Claim-> sending -Send->*)
(*   settling -Delivered, Requeue or Failed-> awake                        *)
(*                                                                         *)
(* The workers are those of one replica and share its wake channel.        *)
(***************************************************************************)
EXTENDS Integers, FiniteSets

CONSTANTS
    Events,         \* bound: events ever published
    Workers,        \* the workers; their number is WorkerCount
    MaxTime,        \* bound: last value of the clock
    Skew,           \* how far a clock reading may be behind
    MaxStaleAfter,  \* largest ProcessingStaleAfter of the runtime settings
    FirstDelay, LaterDelay,  \* 30 seconds and 2 minutes
    MaxAttempts,    \* largest MaxDeliveryAttempts of the runtime settings
    MaxFaults,      \* bound: failed database calls
    MaxRestarts,    \* bound: crashes and restarts of the replica
    LastFault,      \* bound: no fault, restart or new setting after this time
    None

ASSUME WebhookAssumption ==
    /\ MaxTime \in Nat /\ Skew \in Nat /\ MaxStaleAfter \in Nat
    /\ FirstDelay \in Nat /\ LaterDelay \in Nat
    /\ MaxAttempts \in Nat /\ MaxFaults \in Nat /\ MaxRestarts \in Nat
    /\ LastFault \in Nat
    /\ MaxTime > 0 /\ MaxStaleAfter > 0 /\ FirstDelay > 0 /\ LaterDelay > 0 /\ MaxAttempts > 0
    /\ IsFiniteSet(Workers) /\ Workers # {}
    /\ None \notin Workers /\ None \notin Events

VARIABLES
    now,       \* the reference clock
    event,     \* table webhook_events
    worker,    \* the workers
    policy,    \* the runtime settings read by workers and reaper
    wake,      \* elements in the buffered channel wake
    listener,  \* "down" or "up": whether the LISTEN connection is subscribed
    notes,     \* notifications sent on that connection and not yet read
    faults, restarts

vars == <<now, event, worker, policy, wake, listener, notes, faults, restarts>>

NoEvent == [status |-> "absent", attempts |-> 0, lease |-> 0, next |-> 0,
            created |-> 0]
Awake == [pc |-> "awake", at |-> 0, max |-> 0, event |-> None, lease |-> 0,
          attempts |-> 0, result |-> "none"]
Asleep == [Awake EXCEPT !.pc = "asleep"]

\* The times a replica may read when the reference clock shows now.  The last
\* tick stands for every later time, when all clocks have reached it.
ClockReadings ==
    {t \in 1 .. now : now - Skew <= t /\ (now = MaxTime => t = now)}
Clamp(t) == IF t > MaxTime THEN MaxTime ELSE t

Policies == [max : 1 .. MaxAttempts, staleAfter : 1 .. MaxStaleAfter]

\* deliveryRetryDelay
DeliveryRetryDelay(attempt) == IF attempt = 1 THEN FirstDelay ELSE LaterDelay

\* wakeOne: a send on the channel that is dropped when the channel is full.
WakeOne(n) == IF n < Cardinality(Workers) THEN n + 1 ELSE n

-----------------------------------------------------------------------------
(* Publishing and notifications.                                           *)

\* A transaction that inserts the events E commits.  PostgreSQL folds the
\* equal notifications of one transaction into one.
Publish(E) ==
    /\ E # {} /\ \A e \in E : event[e].status = "absent"
    /\ \E t \in ClockReadings :
          event' = [e \in Events |->
                      IF e \in E
                      THEN [NoEvent EXCEPT !.status = "pending", !.next = t, !.created = t]
                      ELSE event[e]]
    /\ notes' = IF listener = "up" THEN notes + 1 ELSE notes
    /\ UNCHANGED <<now, worker, policy, wake, listener, faults, restarts>>

\* ListenForWebhookEvents up to its loop.
Listen ==
    /\ listener = "down"
    /\ listener' = "up"
    /\ wake' = WakeOne(wake)
    /\ UNCHANGED <<now, event, worker, policy, notes, faults, restarts>>

WaitForNotification ==
    /\ listener = "up" /\ notes > 0
    /\ notes' = notes - 1
    /\ wake' = WakeOne(wake)
    /\ UNCHANGED <<now, event, worker, policy, listener, faults, restarts>>

\* The connection is lost, and with it what was sent on it.
ListenerFails ==
    /\ listener = "up"
    /\ listener' = "down" /\ notes' = 0
    /\ UNCHANGED <<now, event, worker, policy, wake, faults, restarts>>

-----------------------------------------------------------------------------
(* The workers.                                                            *)

Goto(w, state) == worker' = [worker EXCEPT ![w] = state]

WokenByChannel(w) ==
    /\ worker[w].pc = "asleep" /\ wake > 0
    /\ wake' = wake - 1
    /\ Goto(w, Awake)
    /\ UNCHANGED <<now, event, policy, listener, notes, faults, restarts>>

WokenByTimer(w) ==
    /\ worker[w].pc = "asleep"
    /\ Goto(w, Awake)
    /\ UNCHANGED <<now, event, policy, wake, listener, notes, faults, restarts>>

\* The clock and the settings are read before the claim.
Poll(w) ==
    /\ worker[w].pc = "awake"
    /\ \E t \in ClockReadings :
          Goto(w, [Awake EXCEPT !.pc = "polling", !.at = t, !.max = policy.max])
    /\ UNCHANGED <<now, event, policy, wake, listener, notes, faults, restarts>>

Due(e, t) == event[e].status = "pending" /\ event[e].next <= t

\* ORDER BY next_attempt_at, created_at; rows that are equal in both go by id.
Before(d, e) ==
    \/ event[d].next < event[e].next
    \/ event[d].next = event[e].next /\ event[d].created < event[e].created
First(e, t) == Due(e, t) /\ \A d \in Events : Due(d, t) => ~Before(d, e)

\* Mutant: the worker does not wake another one.
NoOnClaim(n) == n
\* The callback of runOnce: a claim wakes one more worker, there may be more.
OnClaim(n) == WakeOne(n)

\* ClaimNextWebhookEvent
Claim(w) ==
    /\ worker[w].pc = "polling"
    /\ \E e \in Events :
          /\ First(e, worker[w].at)
          /\ event' = [event EXCEPT ![e].status = "processing", ![e].lease = worker[w].at,
                                    ![e].attempts = @ + 1]
          /\ Goto(w, [worker[w] EXCEPT !.pc = "sending", !.event = e,
                                       !.lease = worker[w].at,
                                       !.attempts = event[e].attempts + 1])
    /\ wake' = OnClaim(wake)
    /\ UNCHANGED <<now, policy, listener, notes, faults, restarts>>

ClaimEmpty(w) ==
    /\ worker[w].pc = "polling"
    /\ \A e \in Events : ~Due(e, worker[w].at)
    /\ Goto(w, Asleep)
    /\ UNCHANGED <<now, event, policy, wake, listener, notes, faults, restarts>>

\* sendOnce: 2xx; network error, 429 or 5xx; any other answer.
Send(w) ==
    /\ worker[w].pc = "sending"
    /\ \E result \in {"ok", "retryable", "final"} :
          Goto(w, [worker[w] EXCEPT !.pc = "settling", !.result = result])
    /\ UNCHANGED <<now, event, policy, wake, listener, notes, faults, restarts>>

\* Mutant: the transition is conditional on the status alone.
OwnsAnyLease(w) == event[worker[w].event].status = "processing"
\* WHERE id = ... AND status = 'processing' AND processing_started_at = ...
OwnsLease(w) ==
    /\ event[worker[w].event].status = "processing"
    /\ event[worker[w].event].lease = worker[w].lease

\* A lost lease is an error, after which the worker sleeps.
Transition(w, row) ==
    /\ event' = IF OwnsLease(w) THEN [event EXCEPT ![worker[w].event] = row] ELSE event
    /\ Goto(w, IF OwnsLease(w) THEN Awake ELSE Asleep)
    /\ UNCHANGED <<now, policy, wake, listener, notes, faults, restarts>>

MarkWebhookEventDelivered(w) ==
    /\ worker[w].pc = "settling" /\ worker[w].result = "ok"
    /\ Transition(w, [event[worker[w].event] EXCEPT !.status = "delivered", !.lease = 0])

MayRetry(w) ==
    worker[w].result = "retryable" /\ worker[w].attempts < worker[w].max

RequeueWebhookEvent(w) ==
    /\ worker[w].pc = "settling" /\ MayRetry(w)
    /\ Transition(w, [event[worker[w].event] EXCEPT
                        !.status = "pending", !.lease = 0,
                        !.next = Clamp(worker[w].at
                                         + DeliveryRetryDelay(worker[w].attempts))])

MarkWebhookEventFailed(w) ==
    /\ worker[w].pc = "settling" /\ worker[w].result # "ok" /\ ~MayRetry(w)
    /\ Transition(w, [event[worker[w].event] EXCEPT !.status = "failed", !.lease = 0])

MayFault == now <= LastFault

\* A database call of the worker fails, or a forced stop cancels it.
Fault(w) ==
    /\ worker[w].pc \in {"polling", "settling"}
    /\ faults < MaxFaults /\ MayFault
    /\ faults' = faults + 1
    /\ Goto(w, Asleep)
    /\ UNCHANGED <<now, event, policy, wake, listener, notes, restarts>>

\* The replica crashes or is stopped, and starts again.
Restart ==
    /\ restarts < MaxRestarts /\ MayFault
    /\ restarts' = restarts + 1
    /\ worker' = [w \in Workers |-> Awake]
    /\ wake' = 0 /\ listener' = "down" /\ notes' = 0
    /\ UNCHANGED <<now, event, policy, faults>>

-----------------------------------------------------------------------------
(* The reaper, the cleanup and the settings.                               *)

\* Mutant: events out of attempts are not taken back.
StaleWithAttempts(e, t) ==
    /\ event[e].status = "processing" /\ event[e].lease <= t - policy.staleAfter
    /\ event[e].attempts < policy.max
Stale(e, t) ==
    event[e].status = "processing" /\ event[e].lease <= t - policy.staleAfter

\* ReapStaleWebhookEvents, for one row; a retry is due at once.
ReapStaleWebhookEvent(e) ==
    /\ \E t \in ClockReadings :
          /\ Stale(e, t)
          /\ event' = [event EXCEPT ![e] =
                         IF @.attempts >= policy.max
                         THEN [@ EXCEPT !.status = "failed", !.lease = 0]
                         ELSE [@ EXCEPT !.status = "pending", !.lease = 0, !.next = t]]
    /\ UNCHANGED <<now, worker, policy, wake, listener, notes, faults, restarts>>

DeleteExpiredWebhookEvent(e) ==
    /\ event[e].status \in {"delivered", "failed"}
    /\ event' = [event EXCEPT ![e].status = "removed"]
    /\ UNCHANGED <<now, worker, policy, wake, listener, notes, faults, restarts>>

SetPolicy(p) ==
    /\ MayFault /\ p # policy
    /\ policy' = p
    /\ UNCHANGED <<now, event, worker, wake, listener, notes, faults, restarts>>

Tick ==
    /\ now < MaxTime
    /\ now' = now + 1
    /\ UNCHANGED <<event, worker, policy, wake, listener, notes, faults, restarts>>

-----------------------------------------------------------------------------

Init ==
    /\ now = 1
    /\ event = [e \in Events |-> NoEvent]
    /\ worker = [w \in Workers |-> Awake]
    /\ policy = [max |-> MaxAttempts, staleAfter |-> MaxStaleAfter]
    /\ wake = 0 /\ listener = "down" /\ notes = 0
    /\ faults = 0 /\ restarts = 0

Work(w) ==
    \/ WokenByTimer(w) \/ Poll(w) \/ Claim(w) \/ ClaimEmpty(w) \/ Send(w)
    \/ MarkWebhookEventDelivered(w) \/ RequeueWebhookEvent(w)
    \/ MarkWebhookEventFailed(w)

Next ==
    \/ \E E \in SUBSET Events : Publish(E)
    \/ Listen \/ WaitForNotification \/ ListenerFails \/ Restart \/ Tick
    \/ \E w \in Workers : Work(w) \/ WokenByChannel(w) \/ Fault(w)
    \/ \E e \in Events : ReapStaleWebhookEvent(e) \/ DeleteExpiredWebhookEvent(e)
    \/ \E p \in Policies : SetPolicy(p)

Spec == Init /\ [][Next]_vars

\* The poll timer fires and the workers, the reaper and the clock go on; the
\* listener, the only source of notifications, need not.
Fairness ==
    /\ \A w \in Workers : WF_vars(Work(w))
    /\ \A e \in Events : WF_vars(ReapStaleWebhookEvent(e))
    /\ WF_vars(Tick)

FairSpec == Spec /\ Fairness

-----------------------------------------------------------------------------
(* Properties.                                                             *)

\* Every variable has its type; no event is attempted more often than the
\* largest MaxDeliveryAttempts allows, and the channel never holds more than
\* one element per worker.
TypeOK ==
    /\ now \in 1 .. MaxTime
    /\ event \in [Events -> [status : {"absent", "pending", "processing",
                                       "delivered", "failed", "removed"},
                             attempts : 0 .. MaxAttempts, lease : 0 .. MaxTime,
                             next : 0 .. MaxTime, created : 0 .. MaxTime]]
    /\ worker \in [Workers ->
                    [pc : {"asleep", "awake", "polling", "sending", "settling"},
                     at : 0 .. MaxTime, max : 0 .. MaxAttempts,
                     event : Events \cup {None}, lease : 0 .. MaxTime,
                     attempts : 0 .. MaxAttempts,
                     result : {"none", "ok", "retryable", "final"}]]
    /\ policy \in Policies
    /\ wake \in 0 .. Cardinality(Workers)
    /\ listener \in {"down", "up"} /\ notes \in Nat
    /\ faults \in 0 .. MaxFaults /\ restarts \in 0 .. MaxRestarts

Busy(w) == worker[w].pc \in {"sending", "settling"}
Holds(w, e) ==
    /\ Busy(w) /\ worker[w].event = e
    /\ event[e].status = "processing" /\ event[e].lease = worker[w].lease

\* No lost wakeup: while the replica listens and its database calls succeed, a
\* new event never waits for the poll timer.  Some notification is on its way,
\* some element is in the channel, or some worker is about to look and will
\* see the event.  (With one clock: Skew = 0.)
NewEventsAnnounced ==
    listener = "up" /\ faults = 0 =>
        \A e \in Events : event[e].status = "pending" /\ event[e].attempts = 0 =>
            \/ notes > 0 \/ wake > 0
            \/ \E w \in Workers : \/ worker[w].pc = "awake"
                                  \/ worker[w].pc = "polling" /\ worker[w].at >= event[e].next

\* docs/integration/webhooks.md: a committed action's event is delivered or
\* fails for good, even if no notification ever arrives.
EventsSettle ==
    \A e \in Events : []<>(event[e].status \notin {"pending", "processing"})

\* The queue implements LeaseQueue: the owner of an event is the worker that
\* holds its current lease, whatever the settings and the clocks do.
Status == [e \in Events |->
             IF event[e].status = "delivered" THEN "done" ELSE event[e].status]
Owner == [e \in Events |-> IF \E w \in Workers : Holds(w, e)
                           THEN CHOOSE w \in Workers : Holds(w, e) ELSE None]

AtWork == [w \in Workers |-> IF Busy(w) THEN worker[w].event ELSE None]

Queue == INSTANCE LeaseQueue
            WITH Jobs <- Events, status <- Status, owner <- Owner, work <- AtWork

ImplementsLeaseQueue == Queue!Spec
=============================================================================
