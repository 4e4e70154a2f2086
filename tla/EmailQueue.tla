----------------------------- MODULE EmailQueue -----------------------------
(***************************************************************************)
(* The queue of outgoing email: table email_jobs, the workers of every     *)
(* replica that claim jobs, send them through SMTP and record the result,  *)
(* and the reaper that takes back jobs whose worker has gone.              *)
(*                                                                         *)
(* A worker may be delayed, and may crash, between any two of its steps:   *)
(*                                                                         *)
(*   idle -Poll-> polling -Claim-> claimed -Prepare-> sending -Send->      *)
(*   settling -MarkSent, Requeue or MarkFailed-> (stamping) -> idle        *)
(*                                                                         *)
(* The lease of a job is the time its worker captured before the claim.    *)
(* Replicas have their own clocks, which may be behind by up to Skew.      *)
(***************************************************************************)
EXTENDS Integers, FiniteSets

CONSTANTS
    Jobs,             \* bound: jobs ever created
    Workers,          \* bound: workers of all replicas
    MaxTime,          \* bound: last value of the clock
    Skew,             \* how far a replica's clock may be behind
    Window,           \* time from the creation of a job to its deadline
    StaleAfter,       \* ProcessingStaleAfter
    RetryBaseDelay, RetryMaxDelay,
    MaxAttempts,      \* largest value of JobMaxAttempts
    MaxFaults,        \* bound: crashes and failed database calls
    LastFault,        \* bound: no fault after this time
    None

\* The configuration checks, and a clock fine enough that half of the shortest
\* delay is at least one tick.
ASSUME QueueAssumption ==
    /\ MaxTime \in Nat /\ Skew \in Nat /\ Window \in Nat /\ StaleAfter \in Nat
    /\ RetryBaseDelay \in Nat /\ RetryMaxDelay \in Nat
    /\ MaxAttempts \in Nat /\ MaxFaults \in Nat /\ LastFault \in Nat
    /\ MaxTime > 0 /\ Window > 0 /\ StaleAfter > 0 /\ MaxAttempts > 0
    /\ 2 <= RetryBaseDelay /\ RetryBaseDelay <= RetryMaxDelay
    /\ IsFiniteSet(Workers) /\ None \notin Workers /\ None \notin Jobs

VARIABLES
    now,          \* the reference clock
    job,          \* table email_jobs
    worker,       \* the workers
    maxAttempts,  \* JobMaxAttempts of the runtime settings
    accepted,     \* history: messages the SMTP server has taken, per job
    faults        \* faults so far

queueVars == <<now, job, worker, maxAttempts, accepted, faults>>

NoJob == [status |-> "absent", attempts |-> 0, lease |-> 0, next |-> 0,
          created |-> 0, deadline |-> 0]
Resting == [pc |-> "idle", at |-> 0, max |-> 0, job |-> None, lease |-> 0,
            attempts |-> 0, result |-> "none"]

\* The times a replica may read when the reference clock shows now.  The last
\* tick stands for every later time, when all clocks have reached it.
ClockReadings ==
    {t \in 1 .. now : now - Skew <= t /\ (now = MaxTime => t = now)}

\* emailRetryDelay: the base delay doubled for every attempt after the first,
\* at most the maximum; half of it is fixed, the rest random.
Nominal(attempt) ==
    LET doubled == RetryBaseDelay * 2 ^ (IF attempt < 1 THEN 0 ELSE attempt - 1)
    IN  IF doubled > RetryMaxDelay THEN RetryMaxDelay ELSE doubled
RetryDelay(attempt) == Nominal(attempt) \div 2 .. Nominal(attempt)

AtMost(a, b) == IF a > b THEN b ELSE a

-----------------------------------------------------------------------------
(* The table.                                                              *)

\* CreateEmailJob, from the transaction of the change the email is about; a
\* template whose delivery is disabled gets no row, which changes nothing here.
CreateEmailJob(j, t) ==
    /\ job[j].status = "absent"
    /\ job' = [job EXCEPT ![j] = [NoJob EXCEPT !.status = "pending", !.next = t,
                                               !.created = t, !.deadline = t + Window]]

Due(j, t) == job[j].status = "pending" /\ job[j].next <= t

\* ORDER BY next_attempt_at, created_at.  A row that SKIP LOCKED passes over is
\* being claimed or taken back, which counts as having happened before.
Before(i, j) ==
    \/ job[i].next < job[j].next
    \/ job[i].next = job[j].next /\ job[i].created < job[j].created
First(j, t) == Due(j, t) /\ \A i \in Jobs : Due(i, t) => ~Before(i, j)

\* Mutant: the attempt is counted when it ends, not when it begins.
ClaimedUncounted(row, t) == [row EXCEPT !.status = "processing", !.lease = t]
\* status, attempt_count and processing_started_at after a claim.
Claimed(row, t) ==
    [row EXCEPT !.status = "processing", !.lease = t, !.attempts = @ + 1]

\* Mutant: the transition is conditional on the status alone.
OwnsAnyLease(w) == job[worker[w].job].status = "processing"
\* WHERE id = ... AND status = 'processing' AND processing_started_at = ...
OwnsLease(w) ==
    /\ job[worker[w].job].status = "processing"
    /\ job[worker[w].job].lease = worker[w].lease

\* One conditional UPDATE; no row affected is ErrorEmailJobLeaseLost.
Transition(w, row) ==
    job' = IF OwnsLease(w) THEN [job EXCEPT ![worker[w].job] = row] ELSE job

-----------------------------------------------------------------------------
(* runOnce.                                                                *)

Goto(w, state) == worker' = [worker EXCEPT ![w] = state]

\* The settings and the clock are read before the claim.
Poll(w) ==
    /\ worker[w].pc = "idle"
    /\ \E t \in ClockReadings :
          Goto(w, [Resting EXCEPT !.pc = "polling", !.at = t, !.max = maxAttempts])
    /\ UNCHANGED <<now, job, maxAttempts, accepted, faults>>

\* ClaimNextEmailJob, then the deadline check.
Claim(w) ==
    /\ worker[w].pc = "polling"
    /\ \E j \in Jobs :
          /\ First(j, worker[w].at)
          /\ job' = [job EXCEPT ![j] = Claimed(@, worker[w].at)]
          /\ Goto(w, [worker[w] EXCEPT
                        !.job = j, !.lease = worker[w].at,
                        !.attempts = job[j].attempts + 1,
                        !.pc = IF job[j].deadline > worker[w].at THEN "claimed"
                                                                 ELSE "settling",
                        !.result = IF job[j].deadline > worker[w].at THEN "none"
                                                                     ELSE "deadline"])
    /\ UNCHANGED <<now, maxAttempts, accepted, faults>>

\* ErrorEmailJobNotFound: the worker sleeps until its next poll.
ClaimEmpty(w) ==
    /\ worker[w].pc = "polling"
    /\ \A j \in Jobs : ~Due(j, worker[w].at)
    /\ Goto(w, Resting)
    /\ UNCHANGED <<now, job, maxAttempts, accepted, faults>>

\* processJob up to Send: template data, code and rendering.
Prepare(w) ==
    /\ worker[w].pc = "claimed"
    /\ \/ Goto(w, [worker[w] EXCEPT !.pc = "sending"])
       \/ \E failure \in {"permanent", "transient"} :
             Goto(w, [worker[w] EXCEPT !.pc = "settling", !.result = failure])
    /\ UNCHANGED <<now, job, maxAttempts, accepted, faults>>

\* Send: a server that has taken the message may still fail to say so in time.
Send(w) ==
    /\ worker[w].pc = "sending"
    /\ \E taken \in BOOLEAN, result \in {"ok", "permanent", "transient"} :
          /\ result = "ok" => taken
          /\ result = "permanent" => ~taken
          /\ accepted' = IF taken THEN [accepted EXCEPT ![worker[w].job] = @ + 1]
                                  ELSE accepted
          /\ Goto(w, [worker[w] EXCEPT !.pc = "settling", !.result = result])
    /\ UNCHANGED <<now, job, maxAttempts, faults>>

\* MarkEmailJobSent; only then, as a statement of its own, last_sent_at.
MarkEmailJobSent(w) ==
    /\ worker[w].pc = "settling" /\ worker[w].result = "ok"
    /\ Transition(w, [job[worker[w].job] EXCEPT !.status = "sent", !.lease = 0])
    /\ Goto(w, IF OwnsLease(w) THEN [worker[w] EXCEPT !.pc = "stamping"] ELSE Resting)
    /\ UNCHANGED <<now, maxAttempts, accepted, faults>>

SetChallengeLastSentAt(w) ==
    /\ worker[w].pc = "stamping"
    /\ Goto(w, Resting)
    /\ UNCHANGED <<now, job, maxAttempts, accepted, faults>>

\* A transient failure is retried while attempts are left.
MayRetry(w) ==
    worker[w].result = "transient" /\ worker[w].attempts < worker[w].max

RequeueEmailJob(w) ==
    /\ worker[w].pc = "settling" /\ MayRetry(w)
    /\ \E delay \in RetryDelay(worker[w].attempts) :
          Transition(w, [job[worker[w].job] EXCEPT
                           !.status = "pending", !.lease = 0,
                           !.next = AtMost(worker[w].at + delay,
                                           job[worker[w].job].deadline)])
    /\ Goto(w, Resting)
    /\ UNCHANGED <<now, maxAttempts, accepted, faults>>

MarkEmailJobFailed(w) ==
    /\ worker[w].pc = "settling" /\ worker[w].result # "ok" /\ ~MayRetry(w)
    /\ Transition(w, [job[worker[w].job] EXCEPT !.status = "failed", !.lease = 0])
    /\ Goto(w, Resting)
    /\ UNCHANGED <<now, maxAttempts, accepted, faults>>

\* A crash, a shutdown past its deadline, or a database call that fails: the
\* worker starts over and the job stays as it is.
Fault(w) ==
    /\ worker[w].pc # "idle"
    /\ faults < MaxFaults /\ now <= LastFault
    /\ faults' = faults + 1
    /\ Goto(w, Resting)
    /\ UNCHANGED <<now, job, maxAttempts, accepted>>

-----------------------------------------------------------------------------
(* The reaper, the cleanup and the account deletion.                       *)

\* Mutant: jobs out of attempts are not taken back.
StaleWithAttempts(j, t) ==
    job[j].status = "processing" /\ job[j].lease <= t - StaleAfter
    /\ job[j].attempts < maxAttempts
Stale(j, t) == job[j].status = "processing" /\ job[j].lease <= t - StaleAfter

\* ReapStaleEmailJobs, for one row; the batch is one statement over such rows.
ReapStaleEmailJob(j) ==
    /\ \E t \in ClockReadings :
          /\ Stale(j, t)
          /\ IF job[j].attempts >= maxAttempts \/ job[j].deadline <= t
             THEN job' = [job EXCEPT ![j].status = "failed", ![j].lease = 0]
             ELSE \E delay \in RetryDelay(job[j].attempts) :
                     job' = [job EXCEPT ![j].status = "pending", ![j].lease = 0,
                                        ![j].next = AtMost(t + delay, job[j].deadline)]
    /\ UNCHANGED <<now, worker, maxAttempts, accepted, faults>>

\* DeleteSentEmailJobsBefore, DeleteFailedEmailJobsBefore.
DeleteOldEmailJob(j) ==
    /\ job[j].status \in {"sent", "failed"}
    /\ job' = [job EXCEPT ![j].status = "removed"]
    /\ UNCHANGED <<now, worker, maxAttempts, accepted, faults>>

\* DeleteUser deletes the jobs to its address, and deleting a challenge its
\* jobs by cascade, whatever their status.
DeleteUserEmailJob(j) ==
    /\ job[j].status \notin {"absent", "removed"}
    /\ job' = [job EXCEPT ![j].status = "removed", ![j].lease = 0]
    /\ UNCHANGED <<now, worker, maxAttempts, accepted, faults>>

SetJobMaxAttempts(n) ==
    /\ n # maxAttempts
    /\ maxAttempts' = n
    /\ UNCHANGED <<now, job, worker, accepted, faults>>

Tick ==
    /\ now < MaxTime
    /\ now' = now + 1
    /\ UNCHANGED <<job, worker, maxAttempts, accepted, faults>>

\* Bound: jobs are created early enough for their deadline to pass.
Enqueue(j) ==
    /\ now + Window <= MaxTime
    /\ \E t \in ClockReadings : CreateEmailJob(j, t)
    /\ UNCHANGED <<now, worker, maxAttempts, accepted, faults>>

-----------------------------------------------------------------------------

Init ==
    /\ now = 1
    /\ job = [j \in Jobs |-> NoJob]
    /\ worker = [w \in Workers |-> Resting]
    /\ maxAttempts = MaxAttempts
    /\ accepted = [j \in Jobs |-> 0]
    /\ faults = 0

Work(w) ==
    \/ Poll(w) \/ Claim(w) \/ ClaimEmpty(w) \/ Prepare(w) \/ Send(w)
    \/ MarkEmailJobSent(w) \/ SetChallengeLastSentAt(w)
    \/ RequeueEmailJob(w) \/ MarkEmailJobFailed(w)

Next ==
    \/ \E w \in Workers : Work(w) \/ Fault(w)
    \/ \E j \in Jobs : Enqueue(j) \/ ReapStaleEmailJob(j) \/ DeleteOldEmailJob(j)
                       \/ DeleteUserEmailJob(j)
    \/ \E n \in 1 .. MaxAttempts : SetJobMaxAttempts(n)
    \/ Tick

Spec == Init /\ [][Next]_queueVars

\* Workers and the reaper keep running on at least one replica, and time
\* passes; faults are not fair and end.
FairSpec ==
    /\ Spec
    /\ \A w \in Workers : WF_queueVars(Work(w))
    /\ \A j \in Jobs : WF_queueVars(ReapStaleEmailJob(j))
    /\ WF_queueVars(Tick)

-----------------------------------------------------------------------------
(* Properties.                                                             *)

\* Every variable has its type.
TypeOK ==
    /\ now \in 1 .. MaxTime
    /\ job \in [Jobs -> [status : {"absent", "pending", "processing", "sent",
                                   "failed", "removed"},
                         attempts : 0 .. MaxAttempts, lease : 0 .. MaxTime,
                         next : Nat, created : 0 .. MaxTime, deadline : Nat]]
    /\ worker \in [Workers ->
                    [pc : {"idle", "polling", "claimed", "sending", "settling",
                           "stamping"},
                     at : 0 .. MaxTime, max : 0 .. MaxAttempts,
                     job : Jobs \cup {None}, lease : 0 .. MaxTime,
                     attempts : 0 .. MaxAttempts,
                     result : {"none", "ok", "permanent", "transient", "deadline"}]]
    /\ maxAttempts \in 1 .. MaxAttempts
    /\ accepted \in [Jobs -> Nat]
    /\ faults \in 0 .. MaxFaults

\* Workers that have claimed a job and have not recorded a result.
Busy(w) == worker[w].pc \in {"claimed", "sending", "settling"}
Holds(w, j) ==
    /\ Busy(w) /\ worker[w].job = j
    /\ job[j].status = "processing" /\ job[j].lease = worker[w].lease

\* Lease fencing: of all the workers that ever claimed a job and are still at
\* work on it, at most one can record a result, whatever the clocks show.
OneHolder ==
    \A j \in Jobs : \A v, w \in Workers : Holds(v, j) /\ Holds(w, j) => v = w

\* No job is sent more often than JobMaxAttempts allows, counting attempts
\* whose worker crashed: the attempt is counted before the message goes out,
\* and only one worker holds the attempt.
SendsBounded == OneHolder /\ \A j \in Jobs : accepted[j] <= MaxAttempts

\* Every job is eventually sent, failed or removed: no crash strands it.
JobsSettle ==
    \A j \in Jobs : []<>(job[j].status \notin {"pending", "processing"})

\* The queue implements LeaseQueue: the owner of a job is the worker that
\* holds its current lease.
Status == [j \in Jobs |-> IF job[j].status = "sent" THEN "done" ELSE job[j].status]
Owner == [j \in Jobs |-> IF \E w \in Workers : Holds(w, j)
                         THEN CHOOSE w \in Workers : Holds(w, j) ELSE None]

AtWork == [w \in Workers |-> IF Busy(w) THEN worker[w].job ELSE None]

Queue == INSTANCE LeaseQueue WITH status <- Status, owner <- Owner, work <- AtWork

\* docs/configuration/email.md: "Every sent, retry, or failed transition must
\* still own that lease."
ImplementsLeaseQueue == Queue!Spec
=============================================================================
