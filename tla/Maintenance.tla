---------------------------- MODULE Maintenance -----------------------------
(***************************************************************************)
(* The cleanup of expired rows.  Every replica runs a coordinator; the one *)
(* that holds the lease row of table maintenance_leases deletes in batches *)
(* and renews the lease in another goroutine.  Each batch is a transaction *)
(* that locks the lease row and finds itself still named in it.            *)
(*                                                                         *)
(* Time is relative: left is what remains of the lease, an age is the time *)
(* since a transaction began, which is what its now() shows.               *)
(***************************************************************************)
EXTENDS Integers, Sequences

CONSTANTS
    Replicas,
    CleanupJobs,       \* the jobs in the order of newCleanupCoordinator
    LeaseDuration,     \* in ticks
    MaxAge,            \* bound: duration of a statement or transaction
    MaxBatches,        \* batches of one pass
    MaxRows,           \* bound: expired rows of a job
    MaxArrivals,       \* bound: rows that expire
    MaxMishaps,        \* bound: crashes, failed calls, restarts, late renewals
    Ghost, Vacant      \* owner ids: of a process that has ended, and NULL

ASSUME MaintenanceAssumption ==
    /\ LeaseDuration \in Nat \ {0} /\ MaxAge \in Nat /\ MaxBatches \in Nat \ {0}
    /\ MaxRows \in Nat /\ MaxArrivals \in Nat /\ MaxMishaps \in Nat
    /\ Ghost \notin Replicas /\ Vacant \notin Replicas /\ Ghost # Vacant

Job == {CleanupJobs[i] : i \in DOMAIN CleanupJobs}

VARIABLES
    lease,      \* the row: owner, time left, generation
    replica,    \* the coordinators
    backlog,    \* expired rows, by job
    arrivals,   \* rows that have expired so far
    committed,  \* history: the generation of the last committed batch
    mishaps     \* faults so far

maintenanceVars == <<lease, replica, backlog, arrivals, committed, mishaps>>

NotLeading == [pc |-> "waiting", gen |-> 0, agenda |-> <<>>, batches |-> 0, age |-> 0,
               renewal |-> -1, canceled |-> FALSE, stopping |-> FALSE]

Put(n, state) == replica' = [replica EXCEPT ![n] = state]
Leading(n) == replica[n].pc \in {"leading", "begun", "locked"}
\* The row lock of the batch that a replica is in.
LeaseLocked == \E n \in Replicas : replica[n].pc = "locked"
\* Mutant: the lease row is read, not locked.
LeaseNeverLocked == FALSE
\* FOR UPDATE: a batch keeps the row locked until it ends.
RowLocked == LeaseLocked

Mishap == mishaps < MaxMishaps /\ mishaps' = mishaps + 1

-----------------------------------------------------------------------------
(* The lease row.                                                          *)

\* owner_id = ... AND generation = ... AND lease_until > now()
OwnsMaintenanceLease(n, age) ==
    /\ lease.owner = n /\ lease.gen = replica[n].gen
    /\ lease.left > -age

\* Mutant: a lease that lapsed is left to its owner.
VacantLease(n) == lease.owner \in {Vacant, n}
\* owner_id IS NULL OR owner_id = ... OR lease_until <= now()
Acquirable(n) == lease.owner \in {Vacant, n} \/ lease.left <= 0

\* SKIP LOCKED: while a batch runs nobody acquires.
TryAcquireMaintenanceLease(n) ==
    /\ replica[n].pc = "waiting" /\ ~RowLocked /\ Acquirable(n)
    /\ lease' = [owner |-> n, left |-> LeaseDuration, gen |-> lease.gen + 1]
    /\ Put(n, [NotLeading EXCEPT !.pc = "leading", !.gen = lease.gen + 1, !.agenda = CleanupJobs])
    /\ UNCHANGED <<backlog, arrivals, committed, mishaps>>

\* The ticker of renewLease; the UPDATE takes its time, then waits for the row.
RenewBegin(n) ==
    /\ Leading(n) /\ ~replica[n].canceled /\ replica[n].renewal = -1
    /\ lease.left < LeaseDuration
    /\ Put(n, [replica[n] EXCEPT !.renewal = 0])
    /\ UNCHANGED <<lease, backlog, arrivals, committed, mishaps>>

\* The UPDATE; no row means that the leadership is lost.
RenewMaintenanceLease(n) ==
    LET age == replica[n].renewal
    IN  /\ Leading(n) /\ age >= 0 /\ ~RowLocked
        /\ IF OwnsMaintenanceLease(n, age)
           THEN lease' = [lease EXCEPT !.left = LeaseDuration - age]
                /\ Put(n, [replica[n] EXCEPT !.renewal = -1])
           ELSE lease' = lease
                /\ Put(n, [replica[n] EXCEPT !.renewal = -1, !.canceled = TRUE])
        /\ UNCHANGED <<backlog, arrivals, committed, mishaps>>

RenewFails(n) ==
    /\ Leading(n) /\ replica[n].renewal >= 0 /\ Mishap
    /\ Put(n, [replica[n] EXCEPT !.renewal = -1, !.canceled = TRUE])
    /\ UNCHANGED <<lease, backlog, arrivals, committed>>

\* Mutant: the row is released whoever owns it.
ReleasesAny(n) == TRUE
\* WHERE owner_id = ... AND generation = ...
Releases(n) == lease.owner = n /\ lease.gen = replica[n].gen

\* The end of runAsLeader, and of run when the coordinator is shut down.
ReleaseMaintenanceLease(n) ==
    /\ replica[n].pc = "releasing" /\ ~RowLocked
    /\ lease' = IF Releases(n) THEN [lease EXCEPT !.owner = Vacant, !.left = 0] ELSE lease
    /\ Put(n, [NotLeading EXCEPT !.pc = IF replica[n].stopping THEN "down" ELSE "waiting"])
    /\ UNCHANGED <<backlog, arrivals, committed, mishaps>>

\* The row keeps the id of a process that no longer exists.
Deserted(n) == IF lease.owner = n THEN [lease EXCEPT !.owner = Ghost] ELSE lease

ReleaseFails(n) ==
    /\ replica[n].pc = "releasing" /\ Mishap
    /\ lease' = IF replica[n].stopping THEN Deserted(n) ELSE lease
    /\ Put(n, [NotLeading EXCEPT !.pc = IF replica[n].stopping THEN "down" ELSE "waiting"])
    /\ UNCHANGED <<backlog, arrivals, committed>>

-----------------------------------------------------------------------------
(* runScheduler and runJob: the job that is due first, batch after batch.  *)

\* BeginTx of RunMaintenanceBatch.
BatchBegin(n) ==
    /\ replica[n].pc = "leading" /\ ~replica[n].canceled
    /\ Put(n, [replica[n] EXCEPT !.pc = "begun", !.age = 0])
    /\ UNCHANGED <<lease, backlog, arrivals, committed, mishaps>>

\* SELECT ... FOR UPDATE; no row cancels the leadership.
BatchCheck(n) ==
    /\ replica[n].pc = "begun" /\ ~RowLocked
    /\ Put(n, [replica[n] EXCEPT
            !.pc = IF OwnsMaintenanceLease(n, replica[n].age) THEN "locked" ELSE "releasing"])
    /\ UNCHANGED <<lease, backlog, arrivals, committed, mishaps>>

\* The agenda after a pass: the job is due again after its interval, or after
\* ContinuationInterval when the pass left rows, before or after any of the others.
Rescheduled(agenda) ==
    {SubSeq(Tail(agenda), 1, i) \o <<Head(agenda)>> \o SubSeq(Tail(agenda), i + 1, Len(agenda) - 1) :
        i \in 0 .. Len(agenda) - 1}
Last(agenda) == Tail(agenda) \o <<Head(agenda)>>

\* Whether the pass goes on: the batch was full and the budget is not spent.
GoesOn(n) == backlog[Head(replica[n].agenda)] > 0 /\ replica[n].batches + 1 < MaxBatches

\* The rows are deleted and the transaction commits.
BatchCommit(n, agenda) ==
    LET j == Head(replica[n].agenda)
    IN  /\ replica[n].pc = "locked"
        /\ backlog' = [backlog EXCEPT ![j] = IF @ > 0 THEN @ - 1 ELSE @]
        /\ committed' = replica[n].gen
        /\ agenda \in (IF GoesOn(n) THEN {replica[n].agenda} ELSE Rescheduled(replica[n].agenda))
        /\ Put(n, [replica[n] EXCEPT !.pc = "leading", !.age = 0, !.agenda = agenda,
                                     !.batches = IF GoesOn(n) THEN @ + 1 ELSE 0])
        /\ UNCHANGED <<lease, arrivals, mishaps>>

\* An error or the end of the pass's time: rolled back, and tried another time.
BatchFails(n) ==
    /\ replica[n].pc \in {"begun", "locked"} /\ Mishap
    /\ \E agenda \in Rescheduled(replica[n].agenda) :
        Put(n, [replica[n] EXCEPT !.pc = "leading", !.batches = 0, !.age = 0, !.agenda = agenda])
    /\ UNCHANGED <<lease, backlog, arrivals, committed>>

\* A canceled context ends the scheduler, in the middle of a batch too.
LeadershipEnds(n) ==
    /\ Leading(n) /\ replica[n].canceled
    /\ Put(n, [replica[n] EXCEPT !.pc = "releasing", !.renewal = -1, !.age = 0])
    /\ UNCHANGED <<lease, backlog, arrivals, committed, mishaps>>

-----------------------------------------------------------------------------
(* Processes, rows and time.                                               *)

Shutdown(n) ==
    /\ replica[n].pc # "down" /\ ~replica[n].stopping /\ Mishap
    /\ \/ /\ replica[n].pc = "waiting" /\ Put(n, [NotLeading EXCEPT !.pc = "down"])
          /\ lease' = Deserted(n)
       \/ /\ replica[n].pc # "waiting"
          /\ Put(n, [replica[n] EXCEPT !.canceled = TRUE, !.stopping = TRUE])
          /\ UNCHANGED lease
    /\ UNCHANGED <<backlog, arrivals, committed>>

Crash(n) ==
    /\ replica[n].pc # "down" /\ Mishap
    /\ Put(n, [NotLeading EXCEPT !.pc = "down"])
    /\ lease' = Deserted(n)
    /\ UNCHANGED <<backlog, arrivals, committed>>

\* New: every coordinator has a fresh owner id.
Start(n) ==
    /\ replica[n].pc = "down"
    /\ Put(n, NotLeading)
    /\ UNCHANGED <<lease, backlog, arrivals, committed, mishaps>>

RowExpires(j) ==
    /\ arrivals < MaxArrivals /\ backlog[j] < MaxRows
    /\ arrivals' = arrivals + 1
    /\ backlog' = [backlog EXCEPT ![j] = @ + 1]
    /\ UNCHANGED <<lease, replica, committed, mishaps>>

\* RenewInterval is well below LeaseDuration: that a lease lapses while its
\* leader runs is a mishap.
LeaseHeld == lease.owner \in Replicas /\ Leading(lease.owner) /\ replica[lease.owner].gen = lease.gen
MaintenanceTick ==
    /\ lease.owner # Vacant /\ lease.left > -MaxAge
    /\ \A n \in Replicas : replica[n].age < MaxAge /\ replica[n].renewal < MaxAge
    /\ IF lease.left = 1 /\ LeaseHeld THEN Mishap ELSE UNCHANGED mishaps
    /\ lease' = [lease EXCEPT !.left = @ - 1]
    /\ replica' = [n \in Replicas |-> [replica[n] EXCEPT
            !.age = IF replica[n].pc \in {"begun", "locked"} THEN @ + 1 ELSE @,
            !.renewal = IF @ >= 0 THEN @ + 1 ELSE @]]
    /\ UNCHANGED <<backlog, arrivals, committed>>

-----------------------------------------------------------------------------
MaintenanceInit ==
    /\ lease = [owner |-> Vacant, left |-> 0, gen |-> 0]
    /\ replica = [n \in Replicas |-> NotLeading]
    /\ backlog = [j \in Job |-> 0]
    /\ arrivals = 0 /\ committed = 0 /\ mishaps = 0

\* The goroutines of a coordinator, without mishap.
Renew(n) == RenewBegin(n) \/ RenewMaintenanceLease(n)
Coordinate(n) ==
    \/ TryAcquireMaintenanceLease(n) \/ ReleaseMaintenanceLease(n)
    \/ BatchBegin(n) \/ BatchCheck(n) \/ LeadershipEnds(n) \/ Start(n)
    \/ /\ replica[n].pc = "locked"
       /\ \E agenda \in Rescheduled(replica[n].agenda) : BatchCommit(n, agenda)

MaintenanceNext ==
    \/ \E n \in Replicas :
        \/ Coordinate(n) \/ Renew(n) \/ RenewFails(n) \/ ReleaseFails(n) \/ BatchFails(n)
        \/ Shutdown(n) \/ Crash(n)
    \/ \E j \in Job : RowExpires(j)
    \/ MaintenanceTick

\* Goroutines and statements make progress, processes are started again, and
\* time passes: since the other jobs keep their due times, a job that runs again
\* and again is at some time due after all of them.
MaintenanceFairness ==
    /\ WF_maintenanceVars(MaintenanceTick)
    /\ \A n \in Replicas : WF_maintenanceVars(Coordinate(n)) /\ WF_maintenanceVars(Renew(n))
    /\ \A n \in Replicas : SF_maintenanceVars(BatchCommit(n, Last(replica[n].agenda)))

MaintenanceSpec == MaintenanceInit /\ [][MaintenanceNext]_maintenanceVars
FairMaintenanceSpec == MaintenanceSpec /\ MaintenanceFairness

-----------------------------------------------------------------------------
MaintenanceTypeOK ==
    /\ lease.owner \in Replicas \cup {Ghost, Vacant}
    /\ lease.left \in -MaxAge .. LeaseDuration /\ lease.gen \in Nat
    /\ \A n \in Replicas :
        /\ replica[n].pc \in {"down", "waiting", "leading", "begun", "locked", "releasing"}
        /\ replica[n].gen \in 0 .. lease.gen
        /\ replica[n].batches \in 0 .. MaxBatches - 1
        /\ replica[n].age \in 0 .. MaxAge /\ replica[n].renewal \in -1 .. MaxAge
    /\ backlog \in [Job -> 0 .. MaxRows]
    /\ arrivals \in 0 .. MaxArrivals /\ committed \in Nat /\ mishaps \in 0 .. MaxMishaps

\* Two replicas never delete at the same time (the FOR UPDATE of a batch and the
\* SKIP LOCKED of an acquisition).
OneCleaner ==
    /\ MaintenanceTypeOK
    /\ \A m, n \in Replicas : replica[m].pc = "locked" /\ replica[n].pc = "locked" => m = n

\* A leader that was delayed past its lease commits nothing once a later leader
\* has been acquired: batches commit in the generation that the row has then,
\* so generations never go back (RunMaintenanceBatch keeps the row locked).
BatchesFenced ==
    [][\A n \in Replicas :
          (replica[n].pc = "locked" /\ committed' # committed /\ replica'[n].pc = "leading")
              => replica[n].gen = lease.gen /\ committed' >= committed]_maintenanceVars

\* A replica's lease is taken from it only by another one after it lapsed: a late
\* release or renewal of a former leader leaves it alone.
LeaseKept ==
    [][(LeaseHeld /\ lease.left > 0 /\ lease'.owner # lease.owner)
          => replica'[lease.owner].pc \in {"down", "waiting"}]_maintenanceVars

\* Expired rows are eventually deleted, whichever replicas crash, lose the lease
\* or are restarted (run acquires again, runScheduler comes to every job).
RowsDeleted == \A j \in Job : []<>(backlog[j] = 0)
=============================================================================
