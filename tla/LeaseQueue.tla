----------------------------- MODULE LeaseQueue -----------------------------
(***************************************************************************)
(* What a database-backed work queue of Authara promises, without clocks,  *)
(* attempts and leases: workers that were given up may still be at work,   *)
(* but a job has one owner at a time, and only its owner, or the queue     *)
(* after giving the owner up, decides what becomes of it.  EmailQueue and  *)
(* WebhookQueue implement it.                                              *)
(***************************************************************************)
CONSTANTS Jobs, Workers, None

VARIABLES
    status,   \* absent, pending, processing, done, failed or removed
    owner,    \* the worker whose result the queue will accept, or None
    work      \* the job a worker is at work on, or None

vars == <<status, owner, work>>

Init ==
    /\ status = [j \in Jobs |-> "absent"]
    /\ owner = [j \in Jobs |-> None]
    /\ work = [w \in Workers |-> None]

\* One transaction may add several jobs.
Put(J) ==
    /\ \A j \in J : status[j] = "absent"
    /\ status' = [j \in Jobs |-> IF j \in J THEN "pending" ELSE status[j]]
    /\ UNCHANGED <<owner, work>>

Take(w, j) ==
    /\ work[w] = None /\ status[j] = "pending"
    /\ status' = [status EXCEPT ![j] = "processing"]
    /\ owner' = [owner EXCEPT ![j] = w]
    /\ work' = [work EXCEPT ![w] = j]

\* The owner reports a result.
Settle(w, j, result) ==
    /\ work[w] = j /\ status[j] = "processing" /\ owner[j] = w
    /\ status' = [status EXCEPT ![j] = result]
    /\ owner' = [owner EXCEPT ![j] = None]
    /\ work' = [work EXCEPT ![w] = None]

\* A worker that was given up reports a result, which is refused.
Refuse(w, j) ==
    /\ work[w] = j /\ owner[j] # w
    /\ work' = [work EXCEPT ![w] = None]
    /\ UNCHANGED <<status, owner>>

\* Workers are gone without a result.
Abandon(W) ==
    /\ work' = [w \in Workers |-> IF w \in W THEN None ELSE work[w]]
    /\ owner' = [j \in Jobs |-> IF owner[j] \in W THEN None ELSE owner[j]]
    /\ UNCHANGED status

\* The queue gives the owner up: it tries again or fails the job.
Expire(j, result) ==
    /\ status[j] = "processing"
    /\ status' = [status EXCEPT ![j] = result]
    /\ owner' = [owner EXCEPT ![j] = None]
    /\ UNCHANGED work

Remove(j) ==
    /\ status[j] # "absent"
    /\ status' = [status EXCEPT ![j] = "removed"]
    /\ owner' = [owner EXCEPT ![j] = None]
    /\ UNCHANGED work

Next ==
    \/ \E J \in SUBSET Jobs : Put(J)
    \/ \E W \in SUBSET Workers : Abandon(W)
    \/ \E j \in Jobs, w \in Workers :
          \/ Take(w, j) \/ Refuse(w, j)
          \/ \E result \in {"pending", "done", "failed"} : Settle(w, j, result)
    \/ \E j \in Jobs :
          \/ \E result \in {"pending", "failed"} : Expire(j, result)
          \/ Remove(j)

Spec == Init /\ [][Next]_vars
=============================================================================
