-------------------------- MODULE EmailQueueProofs --------------------------
(***************************************************************************)
(* Proofs about EmailQueue, for every number of jobs and workers, every    *)
(* delay, clock skew and sequence of faults: the bound on the messages of  *)
(* a job, and the refinement of LeaseQueue.                                *)
(***************************************************************************)
EXTENDS EmailQueue, FiniteSetTheorems, TLAPS

-----------------------------------------------------------------------------
(* The inductive invariant.                                                *)

JobOf(w) == job[worker[w].job]

\* A worker that was given up has an older lease than the one the job has now, or
\* can have when it is claimed again.
Late(w) == worker[w].pc = "settling" /\ worker[w].result = "deadline"
LeaseOf(w) ==
    /\ worker[w].job \in Jobs /\ worker[w].at = worker[w].lease
    /\ ~Late(w) => worker[w].lease < JobOf(w).deadline
    /\ JobOf(w).status # "absent"
    /\ JobOf(w).status = "processing" => worker[w].lease <= JobOf(w).lease
    /\ JobOf(w).status = "pending" => worker[w].lease < JobOf(w).next
    /\ JobOf(w).status = "processing" /\ JobOf(w).lease = worker[w].lease =>
           worker[w].attempts = JobOf(w).attempts
Leases == \A w \in Workers : Busy(w) => LeaseOf(w)

\* No two workers at work on a job have the same lease.
DistinctLeases ==
    \A v, w \in Workers : v # w /\ Busy(v) /\ Busy(w) /\ worker[v].job = worker[w].job =>
        worker[v].lease # worker[w].lease

\* Every message that was or may still be sent has been counted as an attempt.
Unsent(j) == {w \in Workers : worker[w].pc \in {"claimed", "sending"} /\ worker[w].job = j}
Counted == \A j \in Jobs : accepted[j] + Cardinality(Unsent(j)) <= job[j].attempts

\* A job that may be claimed has an attempt left.
AttemptsLeft ==
    \A j \in Jobs : /\ job[j].status = "absent" => job[j].attempts = 0
                    /\ job[j].status = "pending" => job[j].attempts < MaxAttempts

IInv == TypeOK /\ Leases /\ DistinctLeases /\ Counted /\ AttemptsLeft

-----------------------------------------------------------------------------
(* Lemmas about the helpers.                                               *)

\* A power of two is the number of subsets of a set.
LEMMA PowerOfTwo ==
    ASSUME NEW k \in Nat
    PROVE  2 ^ k \in Nat \ {0}
  <1>1. IsFiniteSet(1 .. k) /\ Cardinality(1 .. k) = k
    BY FS_Interval
  <1>2. IsFiniteSet(SUBSET (1 .. k)) /\ Cardinality(SUBSET (1 .. k)) = 2 ^ k
    BY <1>1, FS_SUBSET
  <1>3. Cardinality(SUBSET (1 .. k)) \in Nat
    BY <1>2, FS_CardinalityType
  <1>4. Cardinality(SUBSET (1 .. k)) # 0
    <2>1. {} \in SUBSET (1 .. k)
      OBVIOUS
    <2>2. QED
      BY <2>1, <1>2, FS_EmptySet
  <1>5. QED
    BY <1>2, <1>3, <1>4

\* A retry is never immediate (emailRetryDelay), whatever the random part is.
LEMMA RetryDelayPositive ==
    ASSUME NEW attempt \in Nat, NEW delay \in RetryDelay(attempt)
    PROVE  delay \in Nat \ {0}
  <1> DEFINE k == IF attempt < 1 THEN 0 ELSE attempt - 1
             doubled == RetryBaseDelay * 2 ^ k
  <1>1. k \in Nat
    OBVIOUS
  <1>2. 2 ^ k \in Nat \ {0}
    BY <1>1, PowerOfTwo
  <1>3. RetryBaseDelay \in Nat /\ 2 <= RetryBaseDelay /\ RetryMaxDelay \in Nat /\ 2 <= RetryMaxDelay
    BY QueueAssumption
  <1>4. doubled \in Nat /\ 2 <= doubled
    <2>1. \A b, p \in Nat : 2 <= b /\ 1 <= p => b * p \in Nat /\ 2 <= b * p
      OBVIOUS
    <2>2. 2 ^ k \in Nat /\ 1 <= 2 ^ k
      BY <1>2
    <2> HIDE DEF k
    <2>3. QED
      BY <2>1, <2>2, <1>3
  <1>5. Nominal(attempt) = IF doubled > RetryMaxDelay THEN RetryMaxDelay ELSE doubled
    BY DEF Nominal
  <1>6. Nominal(attempt) \in Nat /\ 2 <= Nominal(attempt)
    <2> HIDE DEF doubled
    <2>1. QED
      BY <1>3, <1>4, <1>5
  <1>7. QED
    BY <1>6 DEF RetryDelay

\* A lease is held by at most one worker.
LEMMA HolderIsOne == IInv => OneHolder
  BY DEF IInv, DistinctLeases, OneHolder, Holds

\* The sets of workers that have yet to send are finite.
LEMMA UnsentFinite ==
    ASSUME NEW j
    PROVE  /\ IsFiniteSet(Unsent(j)) /\ Cardinality(Unsent(j)) \in Nat
           /\ IsFiniteSet(Unsent(j)') /\ Cardinality(Unsent(j)') \in Nat
  <1>1. Unsent(j) \subseteq Workers /\ Unsent(j)' \subseteq Workers
    BY DEF Unsent
  <1>2. QED
    BY <1>1, FS_Subset, FS_CardinalityType, QueueAssumption

\* Components of the type invariant.
JobType == [status : {"absent", "pending", "processing", "sent", "failed", "removed"},
            attempts : 0 .. MaxAttempts, lease : 0 .. MaxTime,
            next : Nat, created : 0 .. MaxTime, deadline : Nat]
WorkerType == [pc : {"idle", "polling", "claimed", "sending", "settling", "stamping"},
               at : 0 .. MaxTime, max : 0 .. MaxAttempts,
               job : Jobs \cup {None}, lease : 0 .. MaxTime, attempts : 0 .. MaxAttempts,
               result : {"none", "ok", "permanent", "transient", "deadline"}]

\* A worker at work goes on with the job, lease and attempt it has.
Continues(w) ==
    Busy(w)' => /\ Busy(w)
                /\ worker'[w].job = worker[w].job /\ worker'[w].lease = worker[w].lease
                /\ worker'[w].at = worker[w].at /\ worker'[w].attempts = worker[w].attempts
                /\ Late(w) => Late(w)'

\* A row stays as it is, or leaves the state "processing", "pending", ... for one
\* in which no older lease can be mistaken for a current one.
LeftAlone(j) ==
    \/ job'[j] = job[j]
    \/ /\ job'[j].status \notin {"absent", "processing"} /\ job[j].status # "absent"
       /\ job'[j].attempts = job[j].attempts /\ job'[j].deadline = job[j].deadline
       /\ job'[j].status = "pending" =>
              /\ job[j].attempts < MaxAttempts
              /\ \A w \in Workers : Busy(w)' /\ worker[w].job = j => worker[w].lease < job'[j].next

\* A step that counts no attempt and takes no message leaves the count right.
LEMMA StepKeepsCounted ==
    ASSUME IInv, accepted' = accepted, \A j \in Jobs : LeftAlone(j),
           \A j \in Jobs : Unsent(j)' \subseteq Unsent(j)
    PROVE  Counted'
  <1> SUFFICES ASSUME NEW j \in Jobs PROVE accepted[j] + Cardinality(Unsent(j)') <= job'[j].attempts
    BY DEF Counted
  <1>1. Cardinality(Unsent(j)') <= Cardinality(Unsent(j))
    BY UnsentFinite, FS_Subset
  <1>2. accepted[j] + Cardinality(Unsent(j)) <= job[j].attempts
    BY DEF IInv, Counted
  <1>3. job'[j].attempts = job[j].attempts
    BY DEF LeftAlone
  <1>4. accepted[j] \in Nat /\ job[j].attempts \in Nat
    BY DEF IInv, TypeOK
  <1>5. QED
    BY <1>1, <1>2, <1>3, <1>4, UnsentFinite

\* Every step but a claim and a new job is such a step.
LEMMA StepKeepsIInv ==
    ASSUME IInv, TypeOK', Counted',
           \A w \in Workers : Continues(w), \A j \in Jobs : LeftAlone(j)
    PROVE  IInv'
  <1>1. Leases'
    <2> SUFFICES ASSUME NEW w \in Workers, Busy(w)' PROVE LeaseOf(w)'
      BY DEF Leases
    <2>1. /\ Busy(w) /\ worker'[w].job = worker[w].job /\ worker'[w].lease = worker[w].lease
          /\ worker'[w].at = worker[w].at /\ worker'[w].attempts = worker[w].attempts
          /\ Late(w) => Late(w)'
      BY DEF Continues
    <2>2. LeaseOf(w)
      BY <2>1 DEF IInv, Leases
    <2>3. LeftAlone(worker[w].job)
      BY <2>2 DEF LeaseOf
    <2>4. QED
      BY <2>1, <2>2, <2>3 DEF LeaseOf, JobOf, LeftAlone
  <1>2. DistinctLeases'
    <2> SUFFICES ASSUME NEW v \in Workers, NEW w \in Workers, v # w, Busy(v)', Busy(w)',
                        worker'[v].job = worker'[w].job
                 PROVE  worker'[v].lease # worker'[w].lease
      BY DEF DistinctLeases
    <2>1. QED
      BY DEF IInv, DistinctLeases, Continues
  <1>3. AttemptsLeft'
    BY DEF IInv, AttemptsLeft, LeftAlone
  <1>4. QED
    BY <1>1, <1>2, <1>3 DEF IInv

\* The initial state satisfies the invariant.
LEMMA InitIInv == Init => IInv
  <1> SUFFICES ASSUME Init PROVE IInv
    OBVIOUS
  <1>1. TypeOK
    BY QueueAssumption DEF Init, TypeOK, NoJob, Resting
  <1>2. Leases /\ DistinctLeases /\ AttemptsLeft
    BY DEF Init, Leases, DistinctLeases, AttemptsLeft, Busy, Resting, NoJob
  <1>3. Counted
    <2>1. \A j \in Jobs : Unsent(j) = {}
      BY DEF Init, Unsent, Resting
    <2>2. Cardinality({}) = 0
      BY FS_EmptySet
    <2>3. QED
      BY <2>1, <2>2 DEF Init, Counted, NoJob
  <1>4. QED
    BY <1>1, <1>2, <1>3 DEF IInv

-----------------------------------------------------------------------------
(* The steps.                                                              *)

\* The type invariant, by components.
LEMMA TypeParts ==
    TypeOK <=> /\ now \in 1 .. MaxTime
               /\ job \in [Jobs -> JobType] /\ worker \in [Workers -> WorkerType]
               /\ maxAttempts \in 1 .. MaxAttempts
               /\ accepted \in [Jobs -> Nat] /\ faults \in 0 .. MaxFaults
  BY DEF TypeOK, JobType, WorkerType

\* What an assignment to one worker does.
LEMMA GotoOne ==
    ASSUME worker \in [Workers -> WorkerType], NEW w \in Workers, NEW state \in WorkerType,
           Goto(w, state)
    PROVE  /\ worker' \in [Workers -> WorkerType]
           /\ worker'[w] = state /\ \A v \in Workers \ {w} : worker'[v] = worker[v]
  BY DEF Goto

\* What an assignment to one row does.
LEMMA PutOne ==
    ASSUME job \in [Jobs -> JobType], NEW j \in Jobs, NEW row \in JobType,
           job' = [job EXCEPT ![j] = row]
    PROVE  /\ job' \in [Jobs -> JobType]
           /\ job'[j] = row /\ \A i \in Jobs \ {j} : job'[i] = job[i]
  OBVIOUS

Statuses == {"absent", "pending", "processing", "sent", "failed", "removed"}

\* What an assignment to the fields of a row does.
LEMMA RowType ==
    ASSUME NEW row \in JobType,
           NEW s \in Statuses,
           NEW l \in 0 .. MaxTime, NEW n \in Nat
    PROVE  /\ [row EXCEPT !.status = s] \in JobType
           /\ [row EXCEPT !.status = s, !.lease = l] \in JobType
           /\ [row EXCEPT !.status = s, !.lease = l, !.next = n] \in JobType
  <1>1. /\ row.status \in {"absent", "pending", "processing", "sent", "failed", "removed"}
        /\ row.attempts \in 0 .. MaxAttempts /\ row.lease \in 0 .. MaxTime
        /\ row.next \in Nat /\ row.created \in 0 .. MaxTime /\ row.deadline \in Nat
        /\ row = [status |-> row.status, attempts |-> row.attempts, lease |-> row.lease,
                  next |-> row.next, created |-> row.created, deadline |-> row.deadline]
    BY DEF JobType
  <1>2. QED
    BY <1>1 DEF JobType, Statuses

LEMMA ZeroIsTime == 0 \in 0 .. MaxTime
  BY QueueAssumption

LEMMA RestingType == Resting \in WorkerType
  BY QueueAssumption DEF Resting, WorkerType

\* The clock readings are times.
LEMMA ReadingType ==
    ASSUME TypeOK, NEW t \in ClockReadings
    PROVE  t \in 1 .. MaxTime
  BY QueueAssumption DEF TypeOK, ClockReadings

\* A worker that is about to record a result has a job; if its lease is the
\* current one, no other worker at work on the job has a newer lease.
LEMMA SettlingWorker ==
    ASSUME IInv, NEW w \in Workers, Busy(w)
    PROVE  /\ worker[w].job \in Jobs
           /\ OwnsLease(w) =>
                /\ JobOf(w).status = "processing"
                /\ worker[w].attempts = JobOf(w).attempts
                /\ worker[w].at = worker[w].lease
                /\ \A v \in Workers : Busy(v) /\ worker[v].job = worker[w].job =>
                       worker[v].lease <= worker[w].lease
  BY DEF IInv, Leases, LeaseOf, JobOf, OwnsLease

\* A worker that moves on without touching the table.
LEMMA WorkerMoves ==
    ASSUME IInv, NEW w \in Workers, NEW state \in WorkerType, Goto(w, state),
           UNCHANGED <<now, job, maxAttempts, accepted>>, faults' \in 0 .. MaxFaults,
           Continues(w), state.pc \in {"claimed", "sending"} => worker[w].pc \in {"claimed", "sending"}
    PROVE  IInv'
  <1>1. /\ worker' \in [Workers -> WorkerType]
        /\ worker'[w] = state /\ \A v \in Workers \ {w} : worker'[v] = worker[v]
    BY GotoOne, TypeParts DEF IInv
  <1>2. TypeOK'
    BY <1>1, TypeParts DEF IInv, TypeOK, JobType, WorkerType
  <1>3. \A v \in Workers : Continues(v)
    BY <1>1 DEF Continues, Busy, Late
  <1>4. \A j \in Jobs : LeftAlone(j)
    BY DEF LeftAlone
  <1>5. \A j \in Jobs : Unsent(j)' \subseteq Unsent(j)
    <2> SUFFICES ASSUME NEW j \in Jobs, NEW v \in Workers,
                        worker'[v].pc \in {"claimed", "sending"}, worker'[v].job = j
                 PROVE  worker[v].pc \in {"claimed", "sending"} /\ worker[v].job = j
      BY DEF Unsent
    <2>1. CASE v = w
      BY <1>1, <2>1 DEF Continues, Busy, Late
    <2>2. CASE v # w
      BY <1>1, <2>2
    <2>3. QED
      BY <2>1, <2>2
  <1>6. QED
    BY <1>2, <1>3, <1>4, <1>5, StepKeepsCounted, StepKeepsIInv

\* A worker that has recorded its result, or was refused, and is done.
LEMMA WorkerSettles ==
    ASSUME IInv, NEW w \in Workers, Busy(w), NEW row \in JobType, NEW state \in WorkerType,
           state.pc \in {"idle", "stamping"}, Goto(w, state), Transition(w, row),
           UNCHANGED <<now, maxAttempts, accepted, faults>>,
           row.status \in {"pending", "sent", "failed"},
           row.attempts = JobOf(w).attempts, row.deadline = JobOf(w).deadline,
           OwnsLease(w) /\ row.status = "pending" =>
               row.attempts < MaxAttempts /\ worker[w].lease < row.next
    PROVE  IInv'
  <1>1. /\ worker' \in [Workers -> WorkerType]
        /\ worker'[w] = state /\ \A v \in Workers \ {w} : worker'[v] = worker[v]
    BY GotoOne, TypeParts DEF IInv
  <1>2. worker[w].job \in Jobs
    BY SettlingWorker
  <1>3. /\ job' \in [Jobs -> JobType]
        /\ \A j \in Jobs : \/ job'[j] = job[j]
                           \/ j = worker[w].job /\ job'[j] = row /\ OwnsLease(w)
    <2>1. job \in [Jobs -> JobType]
      BY TypeParts DEF IInv
    <2>2. CASE OwnsLease(w)
      <3>1. job' = [job EXCEPT ![worker[w].job] = row]
        BY <2>2 DEF Transition
      <3>2. QED
        BY <1>2, <2>1, <2>2, <3>1, PutOne
    <2>3. CASE ~OwnsLease(w)
      BY <2>1, <2>3 DEF Transition
    <2>4. QED
      BY <2>2, <2>3
  <1>4. TypeOK'
    BY <1>1, <1>3, TypeParts DEF IInv, TypeOK, JobType, WorkerType
  <1>5. \A v \in Workers : Continues(v)
    BY <1>1 DEF Continues, Busy, Late
  <1>6. \A j \in Jobs : LeftAlone(j)
    <2> SUFFICES ASSUME NEW j \in Jobs, j = worker[w].job, job'[j] = row, OwnsLease(w)
                 PROVE  LeftAlone(j)
      BY <1>3 DEF LeftAlone
    <2>1. /\ job[j].status = "processing"
          /\ \A v \in Workers : Busy(v) /\ worker[v].job = j => worker[v].lease <= worker[w].lease
      BY SettlingWorker DEF JobOf
    <2>2. ASSUME row.status = "pending", NEW v \in Workers, Busy(v)', worker[v].job = j
          PROVE  worker[v].lease < row.next
      <3>1. Busy(v)
        BY <1>5, <2>2 DEF Continues
      <3>2. worker[v].lease <= worker[w].lease /\ worker[w].lease < row.next
        BY <2>1, <2>2, <3>1
      <3>3. worker[v].lease \in Int /\ worker[w].lease \in Int /\ row.next \in Int
        BY TypeParts DEF IInv, WorkerType, JobType
      <3>4. QED
        BY <3>2, <3>3
    <2>3. row.status = "pending" => job[j].attempts < MaxAttempts
      BY DEF JobOf
    <2>4. row.attempts = job[j].attempts /\ row.deadline = job[j].deadline
      BY DEF JobOf
    <2>5. QED
      BY <2>1, <2>2, <2>3, <2>4 DEF LeftAlone
  <1>7. \A j \in Jobs : Unsent(j)' \subseteq Unsent(j)
    BY <1>1 DEF Unsent
  <1>8. QED
    BY <1>4, <1>5, <1>6, <1>7, StepKeepsCounted, StepKeepsIInv

\* The reaper, the cleanup and the account deletion: one row, no worker.
LEMMA RowMoves ==
    ASSUME IInv, NEW j \in Jobs, NEW row \in JobType, job' = [job EXCEPT ![j] = row],
           UNCHANGED <<now, worker, maxAttempts, accepted, faults>>,
           job[j].status # "absent", row.status \in {"pending", "sent", "failed", "removed"},
           row.attempts = job[j].attempts, row.deadline = job[j].deadline,
           row.status = "pending" =>
               /\ row.attempts < MaxAttempts
               /\ job[j].status = "processing" /\ job[j].lease < row.next
    PROVE  IInv'
  <1>1. /\ job' \in [Jobs -> JobType]
        /\ job'[j] = row /\ \A i \in Jobs \ {j} : job'[i] = job[i]
    BY PutOne, TypeParts DEF IInv
  <1>2. TypeOK'
    BY <1>1, TypeParts DEF IInv, TypeOK, JobType, WorkerType
  <1>3. \A w \in Workers : Continues(w)
    BY DEF Continues, Busy, Late
  <1>4. LeftAlone(j)
    <2>1. ASSUME row.status = "pending", NEW w \in Workers, Busy(w)', worker[w].job = j
          PROVE  worker[w].lease < row.next
      <3>1. LeaseOf(w)
        BY <2>1 DEF IInv, Leases, Busy
      <3>2. worker[w].lease <= job[j].lease /\ job[j].lease < row.next
        BY <2>1, <3>1 DEF LeaseOf, JobOf
      <3>3. worker[w].lease \in Int /\ job[j].lease \in Int /\ row.next \in Int
        BY TypeParts DEF IInv, WorkerType, JobType
      <3>4. QED
        BY <3>2, <3>3
    <2>2. QED
      BY <1>1, <2>1 DEF LeftAlone
  <1>5. \A i \in Jobs : LeftAlone(i)
    BY <1>1, <1>4 DEF LeftAlone
  <1>6. \A i \in Jobs : Unsent(i)' \subseteq Unsent(i)
    BY DEF Unsent
  <1>7. QED
    BY <1>2, <1>3, <1>5, <1>6, StepKeepsCounted, StepKeepsIInv

\* The next attempt of a job taken back is after the attempt that was given up,
\* and not after the deadline.
LEMMA NextIsLater ==
    ASSUME NEW t \in Nat, NEW attempt \in Nat, NEW delay \in RetryDelay(attempt),
           NEW deadline \in Nat, t < deadline
    PROVE  AtMost(t + delay, deadline) \in Nat /\ t < AtMost(t + delay, deadline)
  <1>1. delay \in Nat \ {0}
    BY RetryDelayPositive
  <1>2. QED
    BY <1>1 DEF AtMost

\* The reaper takes a job back.
LEMMA ReapIInv ==
    ASSUME IInv, NEW j \in Jobs, ReapStaleEmailJob(j)
    PROVE  IInv'
  <1>1. /\ job \in [Jobs -> JobType] /\ job[j] \in JobType
        /\ maxAttempts \in 1 .. MaxAttempts /\ MaxAttempts \in Nat
    BY TypeParts, QueueAssumption DEF IInv
  <1>2. PICK t \in ClockReadings :
          /\ Stale(j, t)
          /\ IF job[j].attempts >= maxAttempts \/ job[j].deadline <= t
             THEN job' = [job EXCEPT ![j].status = "failed", ![j].lease = 0]
             ELSE \E delay \in RetryDelay(job[j].attempts) :
                     job' = [job EXCEPT ![j].status = "pending", ![j].lease = 0,
                                        ![j].next = AtMost(t + delay, job[j].deadline)]
    BY DEF ReapStaleEmailJob
  <1>3. t \in 1 .. MaxTime /\ MaxTime \in Nat
    BY ReadingType, QueueAssumption DEF IInv
  <1>4. job[j].status = "processing" /\ job[j].lease < t
    <2>1. job[j].status = "processing" /\ job[j].lease <= t - StaleAfter
      BY <1>2 DEF Stale
    <2>2. job[j].lease \in Nat
      BY <1>1 DEF JobType
    <2>3. QED
      BY <2>1, <2>2, <1>3, QueueAssumption
  <1>5. UNCHANGED <<now, worker, maxAttempts, accepted, faults>>
    BY DEF ReapStaleEmailJob
  <1>6. CASE job[j].attempts >= maxAttempts \/ job[j].deadline <= t
    <2> DEFINE row == [job[j] EXCEPT !.status = "failed", !.lease = 0]
    <2>1. job' = [job EXCEPT ![j] = row]
      BY <1>2, <1>6
    <2>2. row \in JobType
      <3>1. "failed" \in Statuses
        BY DEF Statuses
      <3>2. QED
        BY <1>1, <3>1, ZeroIsTime, RowType, Zenon
    <2>3. row.status = "failed" /\ row.attempts = job[j].attempts /\ row.deadline = job[j].deadline
      BY <1>1 DEF JobType
    <2> HIDE DEF row
    <2>4. QED
      BY <1>4, <1>5, <2>1, <2>2, <2>3, RowMoves
  <1>7. CASE ~(job[j].attempts >= maxAttempts \/ job[j].deadline <= t)
    <2>1. PICK delay \in RetryDelay(job[j].attempts) :
            job' = [job EXCEPT ![j].status = "pending", ![j].lease = 0,
                               ![j].next = AtMost(t + delay, job[j].deadline)]
      BY <1>2, <1>7
    <2> DEFINE later == AtMost(t + delay, job[j].deadline)
               row == [job[j] EXCEPT !.status = "pending", !.lease = 0, !.next = later]
    <2>2. job[j].attempts \in Nat /\ job[j].deadline \in Nat /\ job[j].lease \in Nat
      BY <1>1 DEF JobType
    <2>3. t < job[j].deadline /\ job[j].attempts < MaxAttempts
      BY <1>1, <1>3, <1>7, <2>2
    <2>4. later \in Nat /\ t < later
      BY <1>3, <2>2, <2>3, NextIsLater
    <2> HIDE DEF later
    <2>5. job' = [job EXCEPT ![j] = row]
      BY <2>1 DEF later
    <2>6. row \in JobType
      <3>1. "pending" \in Statuses
        BY DEF Statuses
      <3>2. QED
        BY <1>1, <2>4, <3>1, ZeroIsTime, RowType, Zenon
    <2>7. /\ row.status = "pending" /\ row.next = later
          /\ row.attempts = job[j].attempts /\ row.deadline = job[j].deadline
      BY <1>1 DEF JobType
    <2>8. job[j].lease < later
      BY <1>3, <1>4, <2>2, <2>4
    <2> HIDE DEF row
    <2>9. QED
      BY <1>4, <1>5, <2>3, <2>5, <2>6, <2>7, <2>8, RowMoves
  <1>8. QED
    BY <1>6, <1>7

\* The cleanup and the account deletion remove rows.
LEMMA RemoveIInv ==
    ASSUME IInv, NEW j \in Jobs, DeleteOldEmailJob(j) \/ DeleteUserEmailJob(j)
    PROVE  IInv'
  <1>1. job \in [Jobs -> JobType] /\ job[j] \in JobType
    BY TypeParts DEF IInv
  <1> DEFINE old == [job[j] EXCEPT !.status = "removed"]
             any == [job[j] EXCEPT !.status = "removed", !.lease = 0]
  <1>2. old \in JobType /\ any \in JobType
    <2>1. "removed" \in Statuses
      BY DEF Statuses
    <2>2. QED
      BY <1>1, <2>1, ZeroIsTime, RowType, Zenon
  <1>6. /\ old.status = "removed" /\ any.status = "removed"
        /\ old.attempts = job[j].attempts /\ any.attempts = job[j].attempts
        /\ old.deadline = job[j].deadline /\ any.deadline = job[j].deadline
    BY <1>1 DEF JobType
  <1>3. job' = [job EXCEPT ![j] = old] \/ job' = [job EXCEPT ![j] = any]
    <2>1. CASE DeleteOldEmailJob(j)
      BY <1>1, <2>1 DEF DeleteOldEmailJob
    <2>2. CASE DeleteUserEmailJob(j)
      BY <1>1, <2>2 DEF DeleteUserEmailJob
    <2>3. QED
      BY <2>1, <2>2
  <1>4. job[j].status # "absent" /\ UNCHANGED <<now, worker, maxAttempts, accepted, faults>>
    BY DEF DeleteOldEmailJob, DeleteUserEmailJob
  <1> HIDE DEF old, any
  <1>5. QED
    BY <1>2, <1>3, <1>4, <1>6, RowMoves

\* The row of a new job.
LEMMA NewRow ==
    ASSUME NEW n \in 0 .. MaxTime, NEW d \in Nat
    PROVE  LET row == [NoJob EXCEPT !.status = "pending", !.next = n, !.created = n,
                                    !.deadline = d]
           IN  row \in JobType /\ row.status = "pending" /\ row.attempts = 0
  <1>1. NoJob \in JobType
    BY QueueAssumption DEF NoJob, JobType
  <1>2. ASSUME NEW row \in JobType
        PROVE  [row EXCEPT !.status = "pending", !.next = n, !.created = n, !.deadline = d]
                   \in JobType
    <2>1. /\ row.attempts \in 0 .. MaxAttempts /\ row.lease \in 0 .. MaxTime
          /\ row = [status |-> row.status, attempts |-> row.attempts, lease |-> row.lease,
                    next |-> row.next, created |-> row.created, deadline |-> row.deadline]
      BY DEF JobType
    <2>2. n \in Nat
      BY QueueAssumption
    <2>3. QED
      BY <2>1, <2>2 DEF JobType
  <1>3. [NoJob EXCEPT !.status = "pending", !.next = n, !.created = n, !.deadline = d] \in JobType
    BY <1>1, <1>2, Zenon
  <1>4. QED
    BY <1>3 DEF NoJob

\* A job is created.
LEMMA EnqueueIInv ==
    ASSUME IInv, NEW j \in Jobs, Enqueue(j)
    PROVE  IInv'
  <1>1. job \in [Jobs -> JobType]
    BY TypeParts DEF IInv
  <1>2. PICK t \in ClockReadings : CreateEmailJob(j, t)
    BY DEF Enqueue
  <1> DEFINE row == [NoJob EXCEPT !.status = "pending", !.next = t, !.created = t,
                                  !.deadline = t + Window]
  <1>3. t \in 1 .. MaxTime /\ MaxTime \in Nat /\ MaxAttempts \in Nat \ {0} /\ Window \in Nat
    BY ReadingType, QueueAssumption DEF IInv
  <1>4. t \in 0 .. MaxTime /\ t + Window \in Nat
    BY <1>3
  <1>5. job' = [job EXCEPT ![j] = row] /\ job[j].status = "absent"
    BY <1>2 DEF CreateEmailJob
  <1>6. row \in JobType /\ row.status = "pending" /\ row.attempts = 0
    BY <1>4, NewRow
  <1> HIDE DEF row
  <1>7. /\ job' \in [Jobs -> JobType]
        /\ job'[j] = row /\ \A i \in Jobs \ {j} : job'[i] = job[i]
    BY <1>1, <1>5, <1>6, PutOne
  <1>8. UNCHANGED <<now, worker, maxAttempts, accepted, faults>>
    BY DEF Enqueue
  <1>9. TypeOK'
    BY <1>7, <1>8, TypeParts DEF IInv, TypeOK, JobType, WorkerType
  <1>10. Leases'
    <2> SUFFICES ASSUME NEW w \in Workers, Busy(w)' PROVE LeaseOf(w)'
      BY DEF Leases
    <2>1. Busy(w) /\ LeaseOf(w)
      BY <1>8 DEF Busy, IInv, Leases
    <2>2. worker[w].job # j
      BY <1>5, <2>1 DEF LeaseOf, JobOf
    <2>3. job'[worker[w].job] = job[worker[w].job]
      BY <1>7, <2>1, <2>2 DEF LeaseOf
    <2>4. QED
      BY <1>8, <2>1, <2>3 DEF LeaseOf, JobOf, Late
  <1>11. DistinctLeases'
    BY <1>8 DEF DistinctLeases, IInv, Busy
  <1>12. Counted'
    <2> SUFFICES ASSUME NEW i \in Jobs
                 PROVE  accepted[i] + Cardinality(Unsent(i)) <= job'[i].attempts
      BY <1>8 DEF Counted, Unsent
    <2>1. accepted[i] + Cardinality(Unsent(i)) <= job[i].attempts
      BY DEF IInv, Counted
    <2>2. job'[i].attempts = job[i].attempts
      BY <1>5, <1>6, <1>7 DEF IInv, AttemptsLeft
    <2>3. QED
      BY <2>1, <2>2
  <1>13. AttemptsLeft'
    BY <1>3, <1>6, <1>7 DEF AttemptsLeft, IInv
  <1>14. QED
    BY <1>9, <1>10, <1>11, <1>12, <1>13 DEF IInv

\* The message goes out, and may be accepted.
LEMMA SendIInv ==
    ASSUME IInv, NEW w \in Workers, Send(w)
    PROVE  IInv'
  <1>1. worker[w].pc = "sending" /\ Busy(w) /\ worker[w].job \in Jobs
    BY SettlingWorker DEF Send, Busy
  <1>13. PICK j \in Jobs : j = worker[w].job
    BY <1>1
  <1>2. PICK taken \in BOOLEAN, result \in {"ok", "permanent", "transient"} :
          /\ accepted' = IF taken THEN [accepted EXCEPT ![j] = @ + 1] ELSE accepted
          /\ Goto(w, [worker[w] EXCEPT !.pc = "settling", !.result = result])
    BY <1>13 DEF Send
  <1> DEFINE state == [worker[w] EXCEPT !.pc = "settling", !.result = result]
  <1>3. worker[w] \in WorkerType /\ accepted \in [Jobs -> Nat] /\ job \in [Jobs -> JobType]
    BY TypeParts DEF IInv
  <1>4. /\ state \in WorkerType /\ state.pc = "settling" /\ state.job = j
        /\ state.lease = worker[w].lease /\ state.at = worker[w].at
        /\ state.attempts = worker[w].attempts
    BY <1>3, <1>13 DEF WorkerType
  <1>5. /\ worker' \in [Workers -> WorkerType]
        /\ worker'[w] = state /\ \A v \in Workers \ {w} : worker'[v] = worker[v]
    <2> HIDE DEF state
    <2>1. Goto(w, state)
      BY <1>2 DEF state
    <2>2. QED
      BY <1>4, <2>1, GotoOne, TypeParts DEF IInv
  <1>6. UNCHANGED <<now, job, maxAttempts, faults>>
    BY DEF Send
  <1> HIDE DEF state
  <1>7. /\ accepted' \in [Jobs -> Nat] /\ accepted'[j] <= accepted[j] + 1
        /\ \A i \in Jobs \ {j} : accepted'[i] = accepted[i]
    BY <1>1, <1>2, <1>3
  <1>8. TypeOK'
    BY <1>5, <1>6, <1>7, TypeParts DEF IInv, TypeOK, JobType, WorkerType
  <1>9. \A v \in Workers : Continues(v)
    BY <1>1, <1>4, <1>5, <1>13 DEF Continues, Busy, Late
  <1>10. \A i \in Jobs : LeftAlone(i)
    BY <1>6 DEF LeftAlone
  <1>11. Counted'
    <2>1. Unsent(j)' = Unsent(j) \ {w} /\ w \in Unsent(j)
      BY <1>1, <1>4, <1>5, <1>13 DEF Unsent
    <2>2. Cardinality(Unsent(j)') = Cardinality(Unsent(j)) - 1
      BY <2>1, UnsentFinite, FS_RemoveElement
    <2>3. \A i \in Jobs \ {j} : Unsent(i)' = Unsent(i)
      BY <1>1, <1>4, <1>5, <1>13 DEF Unsent
    <2> SUFFICES ASSUME NEW i \in Jobs
                 PROVE  accepted'[i] + Cardinality(Unsent(i)') <= job[i].attempts
      BY <1>6 DEF Counted
    <2>4. accepted[i] + Cardinality(Unsent(i)) <= job[i].attempts
      BY DEF IInv, Counted
    <2>5. accepted[i] \in Nat /\ accepted'[i] \in Nat /\ job[i].attempts \in Nat
      BY <1>3, <1>7 DEF JobType
    <2>6. CASE i = j
      <3>1. accepted'[i] <= accepted[i] + 1
        BY <1>7, <2>6
      <3>2. Cardinality(Unsent(i)') = Cardinality(Unsent(i)) - 1
        BY <2>2, <2>6
      <3>3. QED
        BY <2>4, <2>5, <3>1, <3>2, UnsentFinite
    <2>7. CASE i # j
      BY <1>7, <2>3, <2>4, <2>7
    <2>8. QED
      BY <2>6, <2>7
  <1>12. QED
    BY <1>8, <1>9, <1>10, <1>11, StepKeepsIInv

\* A claim: the new lease is later than that of every worker that was given up.
LEMMA ClaimIInv ==
    ASSUME IInv, NEW w \in Workers, Claim(w)
    PROVE  IInv'
  <1>1. PICK j \in Jobs :
          /\ First(j, worker[w].at)
          /\ job' = [job EXCEPT ![j] = Claimed(@, worker[w].at)]
          /\ Goto(w, [worker[w] EXCEPT
                        !.job = j, !.lease = worker[w].at,
                        !.attempts = job[j].attempts + 1,
                        !.pc = IF job[j].deadline > worker[w].at THEN "claimed"
                                                                 ELSE "settling",
                        !.result = IF job[j].deadline > worker[w].at THEN "none"
                                                                     ELSE "deadline"])
    BY DEF Claim
  <1> DEFINE t == worker[w].at
             row == [job[j] EXCEPT !.status = "processing", !.lease = t, !.attempts = @ + 1]
             state == [worker[w] EXCEPT
                        !.job = j, !.lease = t, !.attempts = job[j].attempts + 1,
                        !.pc = IF job[j].deadline > t THEN "claimed" ELSE "settling",
                        !.result = IF job[j].deadline > t THEN "none" ELSE "deadline"]
  <1>2. /\ job \in [Jobs -> JobType] /\ job[j] \in JobType
        /\ worker \in [Workers -> WorkerType] /\ worker[w] \in WorkerType
    BY TypeParts DEF IInv
  <1>3. /\ t \in 0 .. MaxTime /\ job[j].attempts \in Nat /\ job[j].deadline \in Nat
        /\ job[j].next \in Nat /\ MaxAttempts \in Nat
    BY <1>2, QueueAssumption DEF JobType, WorkerType
  <1>4. job[j].status = "pending" /\ job[j].next <= t
    BY <1>1 DEF First, Due
  <1>5. job[j].attempts + 1 \in 0 .. MaxAttempts
    BY <1>3, <1>4 DEF IInv, AttemptsLeft
  <1>6. row \in JobType
    BY <1>2, <1>3, <1>5 DEF JobType
  <1>7. /\ row.status = "processing" /\ row.lease = t /\ row.attempts = job[j].attempts + 1
        /\ row.deadline = job[j].deadline
    BY <1>2 DEF JobType
  <1>8. state \in WorkerType
    BY <1>2, <1>3, <1>5 DEF WorkerType
  <1>9. /\ state.job = j /\ state.lease = t /\ state.at = t /\ state.attempts = job[j].attempts + 1
        /\ \/ state.pc = "claimed" /\ t < job[j].deadline
           \/ state.pc = "settling" /\ state.result = "deadline"
    BY <1>2, <1>3 DEF WorkerType
  <1>10. job' = [job EXCEPT ![j] = row]
    BY <1>1 DEF Claimed
  <1>11. Goto(w, state)
    BY <1>1
  <1>12. UNCHANGED <<now, maxAttempts, accepted, faults>> /\ worker[w].pc = "polling"
    BY DEF Claim
  <1> HIDE DEF row, state
  <1>13. /\ job' \in [Jobs -> JobType]
         /\ job'[j] = row /\ \A i \in Jobs \ {j} : job'[i] = job[i]
    BY <1>2, <1>6, <1>10, PutOne
  <1>14. /\ worker' \in [Workers -> WorkerType]
         /\ worker'[w] = state /\ \A v \in Workers \ {w} : worker'[v] = worker[v]
    BY <1>2, <1>8, <1>11, GotoOne
  <1>15. TypeOK'
    BY <1>12, <1>13, <1>14, TypeParts DEF IInv, TypeOK, JobType, WorkerType
  <1>16. \A v \in Workers : Busy(v) => LeaseOf(v)
    BY DEF IInv, Leases
  <1>17. ASSUME NEW v \in Workers, Busy(v), worker[v].job = j
         PROVE  worker[v].lease < t
    <2>1. worker[v].lease < job[j].next
      BY <1>4, <1>16, <1>17 DEF LeaseOf, JobOf
    <2>2. worker[v].lease \in Nat
      BY <1>2 DEF WorkerType
    <2> HIDE DEF t
    <2>3. QED
      BY <1>3, <1>4, <2>1, <2>2
  <1>18. ~Busy(w)
    BY <1>12 DEF Busy
  <1>19. Leases'
    <2> SUFFICES ASSUME NEW v \in Workers, Busy(v)' PROVE LeaseOf(v)'
      BY DEF Leases
    <2>1. CASE v = w
      <3>1. worker'[v] = state /\ job'[j] = row
        BY <1>13, <1>14, <2>1
      <3>2. Late(v)' \/ t < job[j].deadline
        BY <1>9, <3>1 DEF Late
      <3> HIDE DEF t
      <3>3. QED
        BY <1>3, <1>7, <1>9, <3>1, <3>2 DEF LeaseOf, JobOf
    <2>2. CASE v # w
      <3>1. worker'[v] = worker[v] /\ Busy(v)
        BY <1>14, <2>2 DEF Busy
      <3>2. LeaseOf(v)
        BY <1>16, <3>1
      <3>3. CASE worker[v].job = j
        <4>1. worker[v].lease < t
          BY <1>17, <3>1, <3>3
        <4>2. worker[v].lease \in Nat
          BY <1>2 DEF WorkerType
        <4> HIDE DEF t
        <4>3. QED
          BY <1>3, <1>7, <1>13, <3>1, <3>2, <3>3, <4>1, <4>2 DEF LeaseOf, JobOf, Late
      <3>4. CASE worker[v].job # j
        <4>1. job'[worker[v].job] = job[worker[v].job]
          BY <1>13, <3>2, <3>4 DEF LeaseOf
        <4>2. QED
          BY <3>1, <3>2, <4>1 DEF LeaseOf, JobOf, Late
      <3>5. QED
        BY <3>3, <3>4
    <2>3. QED
      BY <2>1, <2>2
  <1>20. DistinctLeases'
    <2>1. ASSUME NEW v \in Workers, v # w, Busy(v)', worker'[v].job = j
          PROVE  worker'[v].lease # t
      <3>1. worker'[v] = worker[v] /\ Busy(v)
        BY <1>14, <2>1 DEF Busy
      <3>2. worker[v].lease < t
        BY <1>17, <2>1, <3>1
      <3> HIDE DEF t
      <3>3. QED
        BY <1>3, <3>1, <3>2
    <2>2. worker'[w].job = j /\ worker'[w].lease = t
      BY <1>9, <1>14
    <2>3. ASSUME NEW u \in Workers \ {w}, NEW v \in Workers \ {w}, u # v, Busy(u)', Busy(v)',
                 worker'[u].job = worker'[v].job
          PROVE  worker'[u].lease # worker'[v].lease
      BY <1>14, <2>3 DEF IInv, DistinctLeases, Busy
    <2> HIDE DEF t
    <2>4. QED
      BY <2>1, <2>2, <2>3 DEF DistinctLeases
  <1>21. Counted'
    <2> SUFFICES ASSUME NEW i \in Jobs
                 PROVE  accepted[i] + Cardinality(Unsent(i)') <= job'[i].attempts
      BY <1>12 DEF Counted
    <2>1. accepted[i] + Cardinality(Unsent(i)) <= job[i].attempts
      BY DEF IInv, Counted
    <2>2. accepted[i] \in Nat /\ job[i].attempts \in Nat
      BY <1>2, TypeParts DEF IInv, JobType
    <2>3. CASE i # j
      <3>1. Unsent(i)' = Unsent(i)
        BY <1>9, <1>12, <1>14, <2>3 DEF Unsent
      <3>2. QED
        BY <1>13, <2>1, <2>3, <3>1
    <2>4. CASE i = j
      <3>1. Unsent(i)' \subseteq Unsent(i) \cup {w} /\ w \notin Unsent(i)
        BY <1>12, <1>14, <2>4 DEF Unsent
      <3>2. /\ IsFiniteSet(Unsent(i) \cup {w})
            /\ Cardinality(Unsent(i) \cup {w}) = Cardinality(Unsent(i)) + 1
        BY <3>1, UnsentFinite, FS_AddElement
      <3>3. Cardinality(Unsent(i)') <= Cardinality(Unsent(i)) + 1
        BY <3>1, <3>2, FS_Subset
      <3>4. job'[i].attempts = job[i].attempts + 1
        BY <1>7, <1>13, <2>4
      <3>5. QED
        BY <2>1, <2>2, <3>3, <3>4, UnsentFinite
    <2>5. QED
      BY <2>3, <2>4
  <1>22. AttemptsLeft'
    BY <1>7, <1>13 DEF IInv, AttemptsLeft
  <1>23. QED
    BY <1>15, <1>19, <1>20, <1>21, <1>22 DEF IInv

\* A worker records a retry.
LEMMA RequeueIInv ==
    ASSUME IInv, NEW w \in Workers, RequeueEmailJob(w)
    PROVE  IInv'
  <1> DEFINE j == worker[w].job
  <1>1. /\ worker[w].pc = "settling" /\ MayRetry(w) /\ Busy(w) /\ ~Late(w)
        /\ Goto(w, Resting) /\ UNCHANGED <<now, maxAttempts, accepted, faults>>
    BY DEF RequeueEmailJob, MayRetry, Busy, Late
  <1>2. PICK delay \in RetryDelay(worker[w].attempts) :
          Transition(w, [job[j] EXCEPT !.status = "pending", !.lease = 0,
                                       !.next = AtMost(worker[w].at + delay, job[j].deadline)])
    BY DEF RequeueEmailJob
  <1>3. j \in Jobs /\ LeaseOf(w)
    BY <1>1 DEF IInv, Leases, LeaseOf
  <1>4. job[j] \in JobType /\ worker[w] \in WorkerType
    BY <1>3, TypeParts DEF IInv
  <1>5. /\ worker[w].attempts \in Nat /\ worker[w].at \in Nat /\ worker[w].max \in 0 .. MaxAttempts
        /\ job[j].deadline \in Nat /\ job[j].attempts \in Nat /\ MaxAttempts \in Nat
    BY <1>4, QueueAssumption DEF JobType, WorkerType
  <1>6. worker[w].at = worker[w].lease /\ worker[w].at < job[j].deadline
    BY <1>1, <1>3 DEF LeaseOf, JobOf
  <1> DEFINE later == AtMost(worker[w].at + delay, job[j].deadline)
  <1>7. later \in Nat /\ worker[w].at < later
    BY <1>5, <1>6, NextIsLater
  <1> HIDE DEF later
  <1> DEFINE row == [job[j] EXCEPT !.status = "pending", !.lease = 0, !.next = later]
  <1>8. row \in JobType
    <2>1. "pending" \in Statuses
      BY DEF Statuses
    <2>2. QED
      BY <1>4, <1>7, <2>1, ZeroIsTime, RowType, Zenon
  <1>9. /\ row.status = "pending" /\ row.next = later
        /\ row.attempts = job[j].attempts /\ row.deadline = job[j].deadline
    BY <1>4 DEF JobType
  <1>10. Transition(w, row)
    BY <1>2 DEF later
  <1> HIDE DEF row
  <1>11. OwnsLease(w) => job[j].attempts < MaxAttempts
    <2>1. OwnsLease(w) => worker[w].attempts = job[j].attempts
      BY <1>1, SettlingWorker DEF JobOf
    <2>2. worker[w].attempts < worker[w].max
      BY <1>1 DEF MayRetry
    <2>3. QED
      BY <1>5, <2>1, <2>2
  <1>12. Resting.pc = "idle"
    BY DEF Resting
  <1>13. QED
    BY <1>1, <1>6, <1>7, <1>8, <1>9, <1>10, <1>11, <1>12, RestingType, WorkerSettles DEF JobOf

\* A worker records success or failure.
LEMMA FinishIInv ==
    ASSUME IInv, NEW w \in Workers, MarkEmailJobSent(w) \/ MarkEmailJobFailed(w)
    PROVE  IInv'
  <1> DEFINE j == worker[w].job
             sent == [job[j] EXCEPT !.status = "sent", !.lease = 0]
             failed == [job[j] EXCEPT !.status = "failed", !.lease = 0]
             stamping == [worker[w] EXCEPT !.pc = "stamping"]
  <1>1. worker[w].pc = "settling" /\ Busy(w) /\ UNCHANGED <<now, maxAttempts, accepted, faults>>
    BY DEF MarkEmailJobSent, MarkEmailJobFailed, Busy
  <1>2. j \in Jobs
    BY <1>1, SettlingWorker
  <1>3. job[j] \in JobType /\ worker[w] \in WorkerType
    BY <1>2, TypeParts DEF IInv
  <1>4. sent \in JobType /\ failed \in JobType
    <2>1. "sent" \in Statuses /\ "failed" \in Statuses
      BY DEF Statuses
    <2>2. QED
      BY <1>3, <2>1, ZeroIsTime, RowType, Zenon
  <1>5. /\ sent.status = "sent" /\ failed.status = "failed"
        /\ sent.attempts = job[j].attempts /\ failed.attempts = job[j].attempts
        /\ sent.deadline = job[j].deadline /\ failed.deadline = job[j].deadline
    BY <1>3 DEF JobType
  <1>6. stamping \in WorkerType /\ stamping.pc = "stamping"
    BY <1>3 DEF WorkerType
  <1>7. Resting \in WorkerType /\ Resting.pc = "idle"
    BY RestingType DEF Resting
  <1>8. /\ Transition(w, sent) \/ Transition(w, failed)
        /\ Goto(w, stamping) \/ Goto(w, Resting)
    BY DEF MarkEmailJobSent, MarkEmailJobFailed
  <1> HIDE DEF sent, failed, stamping
  <1>9. ASSUME NEW row \in {sent, failed}, Transition(w, row),
               NEW state \in {stamping, Resting}, Goto(w, state)
        PROVE  IInv'
    <2>1. row \in JobType /\ row.status \in {"sent", "failed"}
      BY <1>4, <1>5, <1>9
    <2>2. row.attempts = JobOf(w).attempts /\ row.deadline = JobOf(w).deadline
      BY <1>5, <1>9 DEF JobOf
    <2>3. state \in WorkerType /\ state.pc \in {"idle", "stamping"}
      BY <1>6, <1>7, <1>9
    <2>4. QED
      BY <1>1, <1>9, <2>1, <2>2, <2>3, WorkerSettles
  <1>10. QED
    BY <1>8, <1>9

\* A worker that polls, finds nothing, prepares a message, is done, or is gone.
LEMMA MoveIInv ==
    ASSUME IInv, NEW w \in Workers,
           \/ Poll(w) \/ ClaimEmpty(w) \/ Prepare(w) \/ SetChallengeLastSentAt(w) \/ Fault(w)
    PROVE  IInv'
  <1>1. worker[w] \in WorkerType /\ maxAttempts \in 1 .. MaxAttempts /\ faults \in 0 .. MaxFaults
    BY TypeParts DEF IInv
  <1>2. worker \in [Workers -> WorkerType]
    BY TypeParts DEF IInv
  <1>3. CASE \/ ClaimEmpty(w) \/ SetChallengeLastSentAt(w) \/ Fault(w)
    <2>1. Goto(w, Resting) /\ UNCHANGED <<now, job, maxAttempts, accepted>>
      BY <1>3 DEF ClaimEmpty, SetChallengeLastSentAt, Fault
    <2>2. faults' \in 0 .. MaxFaults
      BY <1>1, <1>3, QueueAssumption DEF ClaimEmpty, SetChallengeLastSentAt, Fault
    <2>3. Resting.pc = "idle"
      BY DEF Resting
    <2>4. Continues(w)
      BY <1>2, <2>1, <2>3, RestingType, GotoOne DEF Continues, Busy
    <2>5. QED
      BY <2>1, <2>2, <2>3, <2>4, RestingType, WorkerMoves
  <1>4. CASE Poll(w)
    <2>1. PICK t \in ClockReadings :
            Goto(w, [Resting EXCEPT !.pc = "polling", !.at = t, !.max = maxAttempts])
      BY <1>4 DEF Poll
    <2> DEFINE state == [Resting EXCEPT !.pc = "polling", !.at = t, !.max = maxAttempts]
    <2>2. t \in 1 .. MaxTime
      BY ReadingType DEF IInv
    <2>3. state \in WorkerType
      <3>1. ASSUME NEW rest \in WorkerType
            PROVE  [rest EXCEPT !.pc = "polling", !.at = t, !.max = maxAttempts] \in WorkerType
        <4>1. t \in 0 .. MaxTime /\ maxAttempts \in 0 .. MaxAttempts
          BY <1>1, <2>2, QueueAssumption
        <4>2. /\ rest.job \in Jobs \cup {None} /\ rest.lease \in 0 .. MaxTime
              /\ rest.attempts \in 0 .. MaxAttempts
              /\ rest.result \in {"none", "ok", "permanent", "transient", "deadline"}
              /\ rest = [pc |-> rest.pc, at |-> rest.at, max |-> rest.max, job |-> rest.job,
                         lease |-> rest.lease, attempts |-> rest.attempts,
                         result |-> rest.result]
          BY DEF WorkerType
        <4>3. QED
          BY <4>1, <4>2 DEF WorkerType
      <3>2. QED
        BY <3>1, RestingType, Zenon
    <2>4. state.pc = "polling"
      BY DEF Resting
    <2>5. Goto(w, state) /\ UNCHANGED <<now, job, maxAttempts, accepted, faults>>
      BY <1>4, <2>1 DEF Poll
    <2> HIDE DEF state
    <2>6. Continues(w)
      BY <1>2, <2>3, <2>4, <2>5, GotoOne DEF Continues, Busy
    <2>7. QED
      BY <1>1, <2>3, <2>4, <2>5, <2>6, WorkerMoves
  <1>5. CASE Prepare(w)
    <2>1. PICK pc \in {"sending", "settling"}, result \in {worker[w].result, "permanent", "transient"} :
            Goto(w, [worker[w] EXCEPT !.pc = pc, !.result = result])
      <3>1. CASE Goto(w, [worker[w] EXCEPT !.pc = "sending"])
        <4>1. [worker[w] EXCEPT !.pc = "sending"]
                = [worker[w] EXCEPT !.pc = "sending", !.result = worker[w].result]
          BY <1>1 DEF WorkerType
        <4>2. QED
          BY <3>1, <4>1
      <3>2. CASE \E failure \in {"permanent", "transient"} :
                    Goto(w, [worker[w] EXCEPT !.pc = "settling", !.result = failure])
        BY <3>2
      <3>3. QED
        BY <1>5, <3>1, <3>2 DEF Prepare
    <2> DEFINE state == [worker[w] EXCEPT !.pc = pc, !.result = result]
    <2>2. state \in WorkerType
      BY <1>1 DEF WorkerType
    <2>3. /\ state.job = worker[w].job /\ state.lease = worker[w].lease
          /\ state.at = worker[w].at /\ state.attempts = worker[w].attempts
      BY <1>1 DEF WorkerType
    <2>4. Goto(w, state) /\ UNCHANGED <<now, job, maxAttempts, accepted, faults>>
      BY <1>5, <2>1 DEF Prepare
    <2>5. worker[w].pc = "claimed"
      BY <1>5 DEF Prepare
    <2> HIDE DEF state
    <2>6. Continues(w)
      BY <1>2, <2>2, <2>3, <2>4, <2>5, GotoOne DEF Continues, Busy, Late
    <2>7. QED
      BY <1>1, <2>2, <2>4, <2>5, <2>6, WorkerMoves
  <1>6. QED
    BY <1>3, <1>4, <1>5

\* The settings and the clock.
LEMMA OtherIInv ==
    ASSUME IInv, Tick \/ (\E n \in 1 .. MaxAttempts : SetJobMaxAttempts(n)) \/ UNCHANGED queueVars
    PROVE  IInv'
  <1>1. UNCHANGED <<job, worker, accepted, faults>>
    BY DEF Tick, SetJobMaxAttempts, queueVars
  <1>2. now' \in 1 .. MaxTime /\ maxAttempts' \in 1 .. MaxAttempts
    BY TypeParts, QueueAssumption DEF IInv, Tick, SetJobMaxAttempts, queueVars
  <1>3. TypeOK'
    BY <1>1, <1>2, TypeParts DEF IInv, TypeOK, JobType, WorkerType
  <1>4. QED
    BY <1>1, <1>3 DEF IInv, Leases, LeaseOf, JobOf, Late, Busy, DistinctLeases, Counted, Unsent,
                      AttemptsLeft

\* Every step preserves the invariant.
LEMMA NextIInv == IInv /\ [Next]_queueVars => IInv'
  <1> SUFFICES ASSUME IInv, [Next]_queueVars PROVE IInv'
    OBVIOUS
  <1>1. CASE \E w \in Workers : Work(w) \/ Fault(w)
    BY <1>1, MoveIInv, ClaimIInv, SendIInv, RequeueIInv, FinishIInv DEF Work
  <1>2. CASE \E j \in Jobs : Enqueue(j) \/ ReapStaleEmailJob(j) \/ DeleteOldEmailJob(j)
                             \/ DeleteUserEmailJob(j)
    BY <1>2, EnqueueIInv, ReapIInv, RemoveIInv
  <1>3. CASE Tick \/ (\E n \in 1 .. MaxAttempts : SetJobMaxAttempts(n)) \/ UNCHANGED queueVars
    BY <1>3, OtherIInv
  <1>4. QED
    BY <1>1, <1>2, <1>3 DEF Next

\* The inductive invariant of the email queue.
THEOREM EmailQueueInvariant == Spec => []IInv
  <1>1. QED
    BY InitIInv, NextIInv, PTL DEF Spec

\* The invariant bounds the messages of a job.
LEMMA IInvBounds == IInv => SendsBounded
  <1> SUFFICES ASSUME IInv, NEW j \in Jobs PROVE OneHolder /\ accepted[j] <= MaxAttempts
    BY HolderIsOne DEF SendsBounded
  <1>1. accepted[j] + Cardinality(Unsent(j)) <= job[j].attempts
    BY DEF IInv, Counted
  <1>2. accepted[j] \in Nat /\ job[j].attempts \in 0 .. MaxAttempts /\ MaxAttempts \in Nat
    BY TypeParts, QueueAssumption DEF IInv, JobType
  <1>3. QED
    BY <1>1, <1>2, UnsentFinite, HolderIsOne

\* runOnce and ClaimNextEmailJob: one worker at a time can record the result of
\* a job, and no job is sent more often than JobMaxAttempts allows.
THEOREM SendsAreBounded == Spec => []SendsBounded
  <1>1. QED
    BY EmailQueueInvariant, IInvBounds, PTL

-----------------------------------------------------------------------------
(* The refinement mapping.                                                 *)

\* The owner of a job is the worker that holds its lease, now and after a step.
LEMMA OwnerIsHolder ==
    ASSUME OneHolder, OneHolder', NEW j \in Jobs
    PROVE  /\ \A w \in Workers : Holds(w, j) => Owner[j] = w
           /\ (\A w \in Workers : ~Holds(w, j)) => Owner[j] = None
           /\ \A w \in Workers : Owner[j] = w => Holds(w, j)
           /\ \A w \in Workers : Holds(w, j)' => Owner'[j] = w
           /\ (\A w \in Workers : ~Holds(w, j)') => Owner'[j] = None
           /\ \A w \in Workers : Owner'[j] = w => Holds(w, j)'
  <1>1. Owner[j] = IF \E w \in Workers : Holds(w, j)
                   THEN CHOOSE w \in Workers : Holds(w, j) ELSE None
    BY DEF Owner
  <1>2. Owner'[j] = IF \E w \in Workers : Holds(w, j)'
                    THEN CHOOSE w \in Workers : Holds(w, j)' ELSE None
    BY DEF Owner
  <1>3. (\E w \in Workers : Holds(w, j)) => Owner[j] \in Workers /\ Holds(Owner[j], j)
    BY <1>1
  <1>4. (\E w \in Workers : Holds(w, j)') =>
            \E w \in Workers : Owner'[j] = w /\ Holds(w, j)'
    BY <1>2
  <1>5. None \notin Workers
    BY QueueAssumption
  <1>6. QED
    BY <1>1, <1>2, <1>3, <1>4, <1>5 DEF OneHolder

\* The mapped variables are functions, and equal when they agree everywhere.
LEMMA MappedFunctions ==
    /\ Status = [j \in Jobs |-> Status[j]] /\ Status' = [j \in Jobs |-> Status'[j]]
    /\ Owner = [j \in Jobs |-> Owner[j]] /\ Owner' = [j \in Jobs |-> Owner'[j]]
    /\ AtWork = [w \in Workers |-> AtWork[w]] /\ AtWork' = [w \in Workers |-> AtWork'[w]]
  BY DEF Status, Owner, AtWork

\* Initial states map to initial states.
LEMMA InitImplements == Init => Queue!Init
  <1> SUFFICES ASSUME Init PROVE Queue!Init
    OBVIOUS
  <1>1. Status = [j \in Jobs |-> "absent"]
    BY DEF Init, Status, NoJob
  <1>2. \A w \in Workers : ~Busy(w)
    BY DEF Init, Busy, Resting
  <1>3. Owner = [j \in Jobs |-> None] /\ AtWork = [w \in Workers |-> None]
    BY <1>2 DEF Owner, AtWork, Holds
  <1>4. QED
    BY <1>1, <1>3 DEF Queue!Init

\* The owner stays where the holder does.
LEMMA OwnerKept ==
    ASSUME OneHolder, OneHolder', NEW j \in Jobs, \A w \in Workers : Holds(w, j)' <=> Holds(w, j)
    PROVE  Owner'[j] = Owner[j]
  <1>1. CASE \E w \in Workers : Holds(w, j)
    BY <1>1, OwnerIsHolder
  <1>2. CASE \A w \in Workers : ~Holds(w, j)
    BY <1>2, OwnerIsHolder
  <1>3. QED
    BY <1>1, <1>2

-----------------------------------------------------------------------------
(* The steps.                                                              *)

\* A claim is a Take.
LEMMA ClaimImplements ==
    ASSUME IInv, IInv', OneHolder, OneHolder', NEW w \in Workers, Claim(w)
    PROVE  \E j \in Jobs : Queue!Take(w, j)
  <1>1. PICK j \in Jobs :
          /\ First(j, worker[w].at)
          /\ job' = [job EXCEPT ![j] = Claimed(@, worker[w].at)]
          /\ Goto(w, [worker[w] EXCEPT
                        !.job = j, !.lease = worker[w].at,
                        !.attempts = job[j].attempts + 1,
                        !.pc = IF job[j].deadline > worker[w].at THEN "claimed"
                                                                 ELSE "settling",
                        !.result = IF job[j].deadline > worker[w].at THEN "none"
                                                                     ELSE "deadline"])
    BY DEF Claim
  <1>2. /\ job \in [Jobs -> JobType] /\ job[j] \in JobType
        /\ worker \in [Workers -> WorkerType] /\ worker[w] \in WorkerType
    BY TypeParts DEF IInv
  <1>3. job[j].status = "pending" /\ worker[w].pc = "polling"
    BY <1>1 DEF First, Due, Claim
  <1>4. /\ job'[j].status = "processing" /\ job'[j].lease = worker[w].at
        /\ \A i \in Jobs \ {j} : job'[i] = job[i]
    BY <1>1, <1>2 DEF Claimed, JobType
  <1>5. /\ worker'[w].pc \in {"claimed", "settling"} /\ worker'[w].job = j
        /\ worker'[w].lease = worker[w].at
        /\ \A v \in Workers \ {w} : worker'[v] = worker[v]
    BY <1>1, <1>2 DEF Goto, WorkerType
  <1>6. ~Busy(w) /\ Busy(w)' /\ Holds(w, j)'
    BY <1>3, <1>4, <1>5 DEF Busy, Holds
  <1>7. Status' = [Status EXCEPT ![j] = "processing"] /\ Status[j] = "pending"
    <2>1. \A i \in Jobs : Status'[i] = IF i = j THEN "processing" ELSE Status[i]
      BY <1>4 DEF Status
    <2>2. Status[j] = "pending"
      BY <1>3 DEF Status
    <2>3. QED
      BY <2>1, <2>2, MappedFunctions
  <1>8. Owner' = [Owner EXCEPT ![j] = w]
    <2>1. Owner'[j] = w
      BY <1>6, OwnerIsHolder
    <2>2. ASSUME NEW i \in Jobs \ {j} PROVE Owner'[i] = Owner[i]
      <3>1. ASSUME NEW v \in Workers PROVE Holds(v, i)' <=> Holds(v, i)
        BY <1>4, <1>5, <1>6, <2>2 DEF Holds, Busy
      <3>2. QED
        BY <3>1, OwnerKept
    <2>3. QED
      BY <2>1, <2>2, MappedFunctions
  <1>9. AtWork' = [AtWork EXCEPT ![w] = j] /\ AtWork[w] = None
    <2>1. \A v \in Workers : AtWork'[v] = IF v = w THEN j ELSE AtWork[v]
      BY <1>5, <1>6 DEF AtWork, Busy
    <2>2. AtWork[w] = None
      BY <1>6 DEF AtWork
    <2>3. QED
      BY <2>1, <2>2, MappedFunctions
  <1>10. QED
    BY <1>7, <1>8, <1>9 DEF Queue!Take

\* A worker that is done with its job leaves AtWork.
LEMMA WorkerLeaves ==
    ASSUME IInv, NEW w \in Workers, NEW state \in WorkerType, Goto(w, state),
           state.pc \in {"idle", "polling", "stamping"}
    PROVE  /\ ~Busy(w)' /\ \A v \in Workers \ {w} : worker'[v] = worker[v]
           /\ AtWork' = [AtWork EXCEPT ![w] = None]
  <1>1. /\ worker'[w] = state /\ \A v \in Workers \ {w} : worker'[v] = worker[v]
    BY GotoOne, TypeParts DEF IInv
  <1>2. \A v \in Workers : AtWork'[v] = IF v = w THEN None ELSE AtWork[v]
    BY <1>1 DEF AtWork, Busy
  <1>3. QED
    BY <1>1, <1>2, MappedFunctions DEF Busy

\* A result recorded under the lease is a Settle; any other is a Refuse.
LEMMA SettleImplements ==
    ASSUME IInv, OneHolder, OneHolder', NEW w \in Workers, worker[w].pc = "settling",
           NEW row \in JobType, row.status \in {"pending", "sent", "failed"},
           NEW state \in WorkerType, state.pc \in {"idle", "stamping"},
           Goto(w, state), Transition(w, row)
    PROVE  Queue!Next
  <1>1. PICK j \in Jobs : j = worker[w].job
    BY SettlingWorker DEF Busy
  <1>2. /\ ~Busy(w)' /\ \A v \in Workers \ {w} : worker'[v] = worker[v]
        /\ AtWork' = [AtWork EXCEPT ![w] = None]
    BY WorkerLeaves
  <1>3. AtWork[w] = j /\ Busy(w)
    BY <1>1 DEF AtWork, Busy
  <1>4. CASE OwnsLease(w)
    <2> DEFINE result == IF row.status = "sent" THEN "done" ELSE row.status
    <2>1. Holds(w, j)
      BY <1>1, <1>3, <1>4 DEF Holds, OwnsLease
    <2>2. Owner[j] = w /\ Status[j] = "processing"
      BY <2>1, OwnerIsHolder DEF Status, Holds
    <2>3. job'[j] = row /\ \A i \in Jobs \ {j} : job'[i] = job[i]
      BY <1>1, <1>4, PutOne, TypeParts DEF Transition, IInv
    <2>4. Status' = [Status EXCEPT ![j] = result]
      <3>1. \A i \in Jobs : Status'[i] = IF i = j THEN result ELSE Status[i]
        BY <2>3 DEF Status
      <3>2. QED
        BY <3>1, MappedFunctions
    <2>5. Owner' = [Owner EXCEPT ![j] = None]
      <3>1. Owner'[j] = None
        BY <2>3, OwnerIsHolder DEF Holds
      <3>2. ASSUME NEW i \in Jobs \ {j} PROVE Owner'[i] = Owner[i]
        <4>1. ASSUME NEW v \in Workers PROVE Holds(v, i)' <=> Holds(v, i)
          BY <1>1, <1>2, <2>3, <3>2 DEF Holds, Busy
        <4>2. QED
          BY <4>1, OwnerKept
      <3>3. QED
        BY <3>1, <3>2, MappedFunctions
    <2>6. Queue!Settle(w, j, result)
      BY <1>2, <1>3, <2>2, <2>4, <2>5 DEF Queue!Settle
    <2>7. result \in {"pending", "done", "failed"}
      OBVIOUS
    <2>8. QED
      BY <2>6, <2>7 DEF Queue!Next
  <1>5. CASE ~OwnsLease(w)
    <2>1. job' = job
      BY <1>5 DEF Transition
    <2>2. ~Holds(w, j)
      BY <1>1, <1>5 DEF Holds, OwnsLease
    <2>3. Owner[j] # w
      BY <2>2, OwnerIsHolder
    <2>4. ASSUME NEW i \in Jobs PROVE Owner'[i] = Owner[i]
      <3>1. ASSUME NEW v \in Workers PROVE Holds(v, i)' <=> Holds(v, i)
        BY <1>1, <1>2, <2>1, <2>2 DEF Holds, Busy
      <3>2. QED
        BY <3>1, OwnerKept
    <2>5. Status' = Status /\ Owner' = Owner
      BY <2>1, <2>4, MappedFunctions DEF Status
    <2>6. Queue!Refuse(w, j)
      BY <1>2, <1>3, <2>3, <2>5 DEF Queue!Refuse
    <2>7. QED
      BY <2>6 DEF Queue!Next
  <1>6. QED
    BY <1>4, <1>5

\* A worker that is gone is an Abandon.
LEMMA FaultImplements ==
    ASSUME IInv, OneHolder, OneHolder', NEW w \in Workers, Fault(w)
    PROVE  Queue!Next
  <1>1. Goto(w, Resting) /\ job' = job
    BY DEF Fault
  <1>2. /\ ~Busy(w)' /\ \A v \in Workers \ {w} : worker'[v] = worker[v]
        /\ AtWork' = [AtWork EXCEPT ![w] = None]
    BY <1>1, WorkerLeaves, RestingType DEF Resting
  <1>3. ASSUME NEW j \in Jobs
        PROVE  Owner'[j] = IF Owner[j] \in {w} THEN None ELSE Owner[j]
    <2>1. ASSUME NEW v \in Workers PROVE Holds(v, j)' <=> Holds(v, j) /\ v # w
      BY <1>1, <1>2 DEF Holds, Busy
    <2>2. CASE Holds(w, j)
      BY <2>1, <2>2, OwnerIsHolder DEF OneHolder
    <2>3. CASE ~Holds(w, j)
      <3>1. Owner[j] # w
        BY <2>3, OwnerIsHolder
      <3>2. Owner'[j] = Owner[j]
        BY <2>1, <2>3, OwnerKept
      <3>3. QED
        BY <3>1, <3>2
    <2>4. QED
      BY <2>2, <2>3
  <1>4. Owner' = [j \in Jobs |-> IF Owner[j] \in {w} THEN None ELSE Owner[j]]
    BY <1>3, MappedFunctions
  <1>5. AtWork' = [v \in Workers |-> IF v \in {w} THEN None ELSE AtWork[v]]
    BY <1>2, MappedFunctions
  <1>6. Status' = Status
    BY <1>1 DEF Status
  <1>7. Queue!Abandon({w})
    BY <1>4, <1>5, <1>6 DEF Queue!Abandon
  <1>8. QED
    BY <1>7 DEF Queue!Next

\* A step of one row that leaves the workers alone.
LEMMA RowImplements ==
    ASSUME IInv, OneHolder, OneHolder', NEW j \in Jobs, NEW row \in JobType,
           job' = [job EXCEPT ![j] = row], worker' = worker, row.status # "processing"
    PROVE  /\ Status' = [Status EXCEPT ![j] = IF row.status = "sent" THEN "done" ELSE row.status]
           /\ Owner' = [Owner EXCEPT ![j] = None] /\ AtWork' = AtWork
           /\ job[j].status # "processing" => Owner' = Owner
  <1>1. job'[j] = row /\ \A i \in Jobs \ {j} : job'[i] = job[i]
    BY PutOne, TypeParts DEF IInv
  <1>2. \A i \in Jobs : Status'[i] = IF i = j THEN IF row.status = "sent" THEN "done" ELSE row.status
                                     ELSE Status[i]
    BY <1>1 DEF Status
  <1>3. Owner'[j] = None
    BY <1>1, OwnerIsHolder DEF Holds
  <1>4. ASSUME NEW i \in Jobs \ {j} PROVE Owner'[i] = Owner[i]
    <2>1. ASSUME NEW v \in Workers PROVE Holds(v, i)' <=> Holds(v, i)
      BY <1>1, <1>4 DEF Holds, Busy
    <2>2. QED
      BY <2>1, OwnerKept
  <1>5. job[j].status # "processing" => Owner[j] = None
    BY OwnerIsHolder DEF Holds
  <1>6. AtWork' = AtWork
    BY DEF AtWork, Busy
  <1>7. QED
    BY <1>2, <1>3, <1>4, <1>5, <1>6, MappedFunctions

\* A step that leaves the rows and the work alone changes nothing of the queue.
LEMMA IdleImplements ==
    ASSUME OneHolder, OneHolder', job' = job,
           \A w \in Workers : /\ Busy(w)' <=> Busy(w)
                              /\ Busy(w) => /\ worker'[w].job = worker[w].job
                                            /\ worker'[w].lease = worker[w].lease
    PROVE  UNCHANGED Queue!vars
  <1>1. ASSUME NEW j \in Jobs PROVE Owner'[j] = Owner[j]
    <2>1. ASSUME NEW v \in Workers PROVE Holds(v, j)' <=> Holds(v, j)
      BY DEF Holds
    <2>2. QED
      BY <2>1, OwnerKept
  <1>2. \A w \in Workers : AtWork'[w] = AtWork[w]
    BY DEF AtWork
  <1>3. Status' = Status /\ Owner' = Owner /\ AtWork' = AtWork
    BY <1>1, <1>2, MappedFunctions DEF Status
  <1>4. QED
    BY <1>3 DEF Queue!vars

\* What the workers do.
LEMMA WorkImplements ==
    ASSUME IInv, IInv', OneHolder, OneHolder', NEW w \in Workers, Work(w) \/ Fault(w)
    PROVE  Queue!Next \/ UNCHANGED Queue!vars
  <1>1. worker \in [Workers -> WorkerType] /\ worker[w] \in WorkerType /\ job \in [Jobs -> JobType]
    BY TypeParts DEF IInv
  <1>2. CASE Claim(w)
    BY <1>2, ClaimImplements DEF Queue!Next
  <1>3. CASE Fault(w)
    BY <1>3, FaultImplements
  <1>4. CASE Poll(w) \/ ClaimEmpty(w) \/ SetChallengeLastSentAt(w)
    <2>1. /\ job' = job /\ ~Busy(w)
          /\ worker'[w].pc \in {"idle", "polling"}
          /\ \A v \in Workers \ {w} : worker'[v] = worker[v]
      <3>1. job' = job /\ ~Busy(w)
        BY <1>4 DEF Poll, ClaimEmpty, SetChallengeLastSentAt, Busy
      <3>2. CASE Poll(w)
        <4>1. PICK t \in ClockReadings :
                Goto(w, [Resting EXCEPT !.pc = "polling", !.at = t, !.max = maxAttempts])
          BY <3>2 DEF Poll
        <4>2. [Resting EXCEPT !.pc = "polling", !.at = t, !.max = maxAttempts].pc = "polling"
          BY DEF Resting
        <4>3. QED
          BY <1>1, <3>1, <4>1, <4>2 DEF Goto
      <3>3. CASE ClaimEmpty(w) \/ SetChallengeLastSentAt(w)
        <4>1. Goto(w, Resting) /\ Resting.pc = "idle"
          BY <3>3 DEF ClaimEmpty, SetChallengeLastSentAt, Resting
        <4>2. QED
          BY <1>1, <3>1, <4>1 DEF Goto
      <3>4. QED
        BY <1>4, <3>2, <3>3
    <2>2. QED
      BY <2>1, IdleImplements DEF Busy
  <1>5. CASE Prepare(w) \/ Send(w)
    <2>1. \/ Goto(w, [worker[w] EXCEPT !.pc = "sending"])
          \/ \E result \in {"ok", "permanent", "transient"} :
                Goto(w, [worker[w] EXCEPT !.pc = "settling", !.result = result])
      BY <1>5 DEF Prepare, Send
    <2>2. /\ worker'[w].pc \in {"sending", "settling"}
          /\ worker'[w].job = worker[w].job /\ worker'[w].lease = worker[w].lease
          /\ \A v \in Workers \ {w} : worker'[v] = worker[v]
      <3>1. CASE Goto(w, [worker[w] EXCEPT !.pc = "sending"])
        BY <1>1, <3>1 DEF Goto, WorkerType
      <3>2. CASE \E result \in {"ok", "permanent", "transient"} :
                    Goto(w, [worker[w] EXCEPT !.pc = "settling", !.result = result])
        BY <1>1, <3>2 DEF Goto, WorkerType
      <3>3. QED
        BY <2>1, <3>1, <3>2
    <2>3. job' = job /\ Busy(w)
      BY <1>5 DEF Prepare, Send, Busy
    <2>4. QED
      BY <2>2, <2>3, IdleImplements DEF Busy
  <1> DEFINE row(s) == [job[worker[w].job] EXCEPT !.status = s, !.lease = 0]
             retry(n) == [job[worker[w].job] EXCEPT !.status = "pending", !.lease = 0, !.next = n]
             stamping == [worker[w] EXCEPT !.pc = "stamping"]
  <1>6. stamping \in WorkerType /\ Resting \in WorkerType
        /\ stamping.pc = "stamping" /\ Resting.pc = "idle"
    BY <1>1, RestingType DEF WorkerType, Resting
  <1>7. CASE MarkEmailJobSent(w) \/ MarkEmailJobFailed(w)
    <2>1. worker[w].pc = "settling" /\ Busy(w)
      BY <1>7 DEF MarkEmailJobSent, MarkEmailJobFailed, Busy
    <2>2. job[worker[w].job] \in JobType
      BY <1>1, <2>1, SettlingWorker
    <2>3. \A s \in {"sent", "failed"} : row(s) \in JobType
      <3>1. \A s \in {"sent", "failed"} : s \in Statuses
        BY DEF Statuses
      <3>2. QED
        BY <2>2, <3>1, ZeroIsTime, RowType, Zenon
    <2>4. \A s : row(s).status = s
      BY <2>2 DEF JobType
    <2>5. /\ Transition(w, row("sent")) \/ Transition(w, row("failed"))
          /\ Goto(w, stamping) \/ Goto(w, Resting)
      BY <1>7 DEF MarkEmailJobSent, MarkEmailJobFailed
    <2> HIDE DEF row, stamping
    <2>6. QED
      BY <1>6, <2>1, <2>3, <2>4, <2>5, SettleImplements
  <1>8. CASE RequeueEmailJob(w)
    <2>1. worker[w].pc = "settling" /\ Busy(w) /\ Goto(w, Resting)
      BY <1>8 DEF RequeueEmailJob, Busy
    <2>2. worker[w].job \in Jobs
      BY <2>1, SettlingWorker
    <2>3. job[worker[w].job] \in JobType
      BY <1>1, <2>2
    <2>4. PICK delay \in RetryDelay(worker[w].attempts) :
            Transition(w, retry(AtMost(worker[w].at + delay, job[worker[w].job].deadline)))
      BY <1>8 DEF RequeueEmailJob
    <2> DEFINE later == AtMost(worker[w].at + delay, job[worker[w].job].deadline)
    <2>5. later \in Nat
      <3>1. worker[w].attempts \in Nat /\ worker[w].at \in Nat /\ job[worker[w].job].deadline \in Nat
        BY <1>1, <2>3, QueueAssumption DEF WorkerType, JobType
      <3>2. delay \in Nat
        BY <3>1, RetryDelayPositive
      <3>3. QED
        BY <3>1, <3>2 DEF AtMost
    <2> HIDE DEF later
    <2>6. retry(later) \in JobType
      <3>1. "pending" \in Statuses
        BY DEF Statuses
      <3>2. QED
        BY <2>3, <2>5, <3>1, ZeroIsTime, RowType, Zenon
    <2>7. retry(later).status = "pending"
      BY <2>3 DEF JobType
    <2>8. Transition(w, retry(later))
      BY <2>4 DEF later
    <2> HIDE DEF retry
    <2>9. QED
      BY <1>6, <2>1, <2>6, <2>7, <2>8, SettleImplements
  <1>9. QED
    BY <1>2, <1>3, <1>4, <1>5, <1>7, <1>8 DEF Work

\* What happens to rows without a worker.
LEMMA RowsImplement ==
    ASSUME IInv, IInv', OneHolder, OneHolder', NEW j \in Jobs,
           Enqueue(j) \/ ReapStaleEmailJob(j) \/ DeleteOldEmailJob(j) \/ DeleteUserEmailJob(j)
    PROVE  Queue!Next
  <1>1. job \in [Jobs -> JobType] /\ job[j] \in JobType /\ job' \in [Jobs -> JobType]
    BY TypeParts DEF IInv, TypeOK, JobType
  <1>2. PICK row \in JobType : row = job'[j]
    BY <1>1
  <1>3. worker' = worker
    BY DEF Enqueue, ReapStaleEmailJob, DeleteOldEmailJob, DeleteUserEmailJob
  <1>4. \/ Enqueue(j) /\ job[j].status = "absent" /\ row.status = "pending"
        \/ job[j].status = "processing" /\ row.status \in {"pending", "failed"}
        \/ job[j].status # "absent" /\ row.status = "removed"
    <2>1. CASE Enqueue(j)
      <3>1. PICK t \in ClockReadings : CreateEmailJob(j, t)
        BY <2>1 DEF Enqueue
      <3>2. t \in 0 .. MaxTime /\ t + Window \in Nat
        BY ReadingType, QueueAssumption DEF IInv
      <3>3. row.status = "pending"
        BY <1>1, <1>2, <3>1, <3>2, NewRow DEF CreateEmailJob
      <3>4. QED
        BY <2>1, <3>1, <3>3 DEF CreateEmailJob
    <2>2. CASE ReapStaleEmailJob(j)
      BY <1>1, <1>2, <2>2 DEF ReapStaleEmailJob, Stale, JobType
    <2>3. CASE DeleteOldEmailJob(j)
      BY <1>1, <1>2, <2>3 DEF DeleteOldEmailJob, JobType
    <2>4. CASE DeleteUserEmailJob(j)
      BY <1>1, <1>2, <2>4 DEF DeleteUserEmailJob, JobType
    <2>5. QED
      BY <2>1, <2>2, <2>3, <2>4
  <1>5. job' = [job EXCEPT ![j] = row]
    <2>1. \A i \in Jobs \ {j} : job'[i] = job[i]
      BY <1>1 DEF Enqueue, CreateEmailJob, ReapStaleEmailJob, DeleteOldEmailJob, DeleteUserEmailJob
    <2>2. QED
      BY <1>1, <1>2, <2>1
  <1>6. /\ Status' = [Status EXCEPT ![j] = IF row.status = "sent" THEN "done" ELSE row.status]
        /\ Owner' = [Owner EXCEPT ![j] = None] /\ AtWork' = AtWork
        /\ job[j].status # "processing" => Owner' = Owner
    BY <1>3, <1>4, <1>5, RowImplements
  <1>7. CASE Enqueue(j) /\ job[j].status = "absent" /\ row.status = "pending"
    <2>1. Status[j] = "absent" /\ Status' = [i \in Jobs |-> IF i \in {j} THEN "pending" ELSE Status[i]]
      BY <1>6, <1>7, MappedFunctions DEF Status
    <2>2. Queue!Put({j})
      BY <1>6, <1>7, <2>1 DEF Queue!Put
    <2>3. QED
      BY <2>2 DEF Queue!Next
  <1>8. CASE job[j].status = "processing" /\ row.status \in {"pending", "failed"}
    <2>1. Status[j] = "processing"
      BY <1>8 DEF Status
    <2>2. Queue!Expire(j, row.status)
      BY <1>6, <1>8, <2>1 DEF Queue!Expire
    <2>3. QED
      BY <1>8, <2>2 DEF Queue!Next
  <1>9. CASE job[j].status # "absent" /\ row.status = "removed"
    <2>1. Status[j] # "absent"
      BY <1>9 DEF Status
    <2>2. Queue!Remove(j)
      BY <1>6, <1>9, <2>1 DEF Queue!Remove
    <2>3. QED
      BY <2>2 DEF Queue!Next
  <1>10. QED
    BY <1>4, <1>7, <1>8, <1>9

\* Every step is a step of the abstract queue or a stutter.
LEMMA NextImplements == IInv /\ IInv' /\ OneHolder /\ OneHolder' /\ [Next]_queueVars => [Queue!Next]_Queue!vars
  <1> SUFFICES ASSUME IInv, IInv', OneHolder, OneHolder', [Next]_queueVars
               PROVE  Queue!Next \/ UNCHANGED Queue!vars
    OBVIOUS
  <1>1. CASE \E w \in Workers : Work(w) \/ Fault(w)
    BY <1>1, WorkImplements
  <1>2. CASE \E j \in Jobs : Enqueue(j) \/ ReapStaleEmailJob(j) \/ DeleteOldEmailJob(j)
                             \/ DeleteUserEmailJob(j)
    BY <1>2, RowsImplement
  <1>3. CASE Tick \/ (\E n \in 1 .. MaxAttempts : SetJobMaxAttempts(n)) \/ UNCHANGED queueVars
    <2>1. UNCHANGED <<job, worker>>
      BY <1>3 DEF Tick, SetJobMaxAttempts, queueVars
    <2>2. QED
      BY <2>1, IdleImplements DEF Busy
  <1>4. QED
    BY <1>1, <1>2, <1>3 DEF Next

\* docs/configuration/email.md, "Every sent, retry, or failed transition must
\* still own that lease": the queue of email jobs is a LeaseQueue.
THEOREM EmailQueueImplements == Spec => ImplementsLeaseQueue
  <1>1. Init => Queue!Init
    BY InitImplements
  <1>2. IInv /\ IInv' /\ OneHolder /\ OneHolder' /\ [Next]_queueVars => [Queue!Next]_Queue!vars
    BY NextImplements
  <1>3. IInv => OneHolder
    BY HolderIsOne
  <1>4. QED
    BY <1>1, <1>2, <1>3, EmailQueueInvariant, PTL DEF Spec, ImplementsLeaseQueue, Queue!Spec
=============================================================================
