-------------------------- MODULE MaintenanceProofs --------------------------
(***************************************************************************)
(* Proofs about Maintenance, for every number of replicas, jobs, rows and  *)
(* mishaps, and every duration of the lease.                               *)
(***************************************************************************)
EXTENDS Maintenance, TLAPS

-----------------------------------------------------------------------------
(* The inductive invariant.                                                *)

Fields == {"pc", "gen", "agenda", "batches", "age", "renewal", "canceled", "stopping"}

\* The variables are records and functions of their kinds.
Shaped ==
    /\ lease \in [owner : Replicas \cup {Ghost, Vacant}, left : Int, gen : Nat]
    /\ DOMAIN replica = Replicas
    /\ \A n \in Replicas : DOMAIN replica[n] = Fields

\* A replica that has the row locked is the one the row names, in the generation
\* the row has: nothing renews, releases or acquires a lease past the lock.
LockedIsOwner ==
    \A n \in Replicas : replica[n].pc = "locked" => lease.owner = n /\ lease.gen = replica[n].gen

\* No batch has committed in a generation yet to come.
CommittedPast == committed <= lease.gen

MaintenanceIInv == Shaped /\ MaintenanceTypeOK /\ LockedIsOwner /\ CommittedPast

-----------------------------------------------------------------------------

\* The initial state satisfies the invariant.
LEMMA MaintenanceInitIInv == MaintenanceInit => MaintenanceIInv
  <1> SUFFICES ASSUME MaintenanceInit PROVE MaintenanceIInv
    OBVIOUS
  <1> USE MaintenanceAssumption DEF MaintenanceInit, NotLeading
  <1>1. Shaped
    BY DEF Shaped, Fields
  <1>2. MaintenanceTypeOK
    BY DEF MaintenanceTypeOK
  <1>3. LockedIsOwner /\ CommittedPast
    BY DEF LockedIsOwner, CommittedPast
  <1>4. QED
    BY <1>1, <1>2, <1>3 DEF MaintenanceIInv

\* The state of a replica, as far as it has a type.
GoodState(r) ==
    /\ DOMAIN r = Fields
    /\ r.pc \in {"down", "waiting", "leading", "begun", "locked", "releasing"}
    /\ r.gen \in 0 .. lease.gen /\ r.batches \in 0 .. MaxBatches - 1
    /\ r.age \in 0 .. MaxAge /\ r.renewal \in -1 .. MaxAge

\* A replica that goes to a state of the right kind, while the rows stay as they
\* are, keeps the invariant if it locks the lease row only as its owner.
LEMMA PutKeepsIInv ==
    ASSUME MaintenanceIInv, NEW n \in Replicas,
           replica' = [replica EXCEPT ![n] = replica'[n]],
           UNCHANGED <<lease, backlog, arrivals, committed>>, mishaps' \in 0 .. MaxMishaps,
           GoodState(replica'[n]),
           replica'[n].pc = "locked" => lease.owner = n /\ lease.gen = replica'[n].gen
    PROVE  MaintenanceIInv'
  <1>1. \A m \in Replicas \ {n} : replica'[m] = replica[m]
    BY DEF MaintenanceIInv, Shaped
  <1>2. Shaped'
    BY <1>1 DEF MaintenanceIInv, Shaped, GoodState
  <1>3. MaintenanceTypeOK'
    BY <1>1 DEF MaintenanceIInv, MaintenanceTypeOK, GoodState
  <1>4. LockedIsOwner' /\ CommittedPast'
    BY <1>1 DEF MaintenanceIInv, LockedIsOwner, CommittedPast
  <1>5. QED
    BY <1>2, <1>3, <1>4 DEF MaintenanceIInv

\* Every step preserves it.
LEMMA MaintenanceNextIInv == MaintenanceIInv /\ [MaintenanceNext]_maintenanceVars => MaintenanceIInv'
  <1> SUFFICES ASSUME MaintenanceIInv, [MaintenanceNext]_maintenanceVars
               PROVE  MaintenanceIInv'
    OBVIOUS
  <1> USE MaintenanceAssumption
  <1>0. /\ MaintenanceTypeOK /\ DOMAIN replica = Replicas /\ lease.gen \in Nat /\ mishaps \in 0 .. MaxMishaps
        /\ \A n \in Replicas : DOMAIN replica[n] = Fields
        /\ \A n \in Replicas : /\ replica[n].pc \in {"down", "waiting", "leading", "begun", "locked", "releasing"}
                              /\ replica[n].gen \in 0 .. lease.gen /\ replica[n].batches \in 0 .. MaxBatches - 1
                              /\ replica[n].age \in 0 .. MaxAge /\ replica[n].renewal \in -1 .. MaxAge
    BY DEF MaintenanceIInv, MaintenanceTypeOK, Shaped
  <1>n. /\ DOMAIN NotLeading = Fields
        /\ NotLeading.pc = "waiting" /\ NotLeading.gen = 0 /\ NotLeading.batches = 0
        /\ NotLeading.age = 0 /\ NotLeading.renewal = -1
    BY DEF NotLeading, Fields
  <1>m. Mishap => mishaps' \in 0 .. MaxMishaps
    BY <1>0 DEF Mishap
  <1>1. ASSUME NEW n \in Replicas, TryAcquireMaintenanceLease(n) PROVE MaintenanceIInv'
    <2>1. \A m \in Replicas : replica[m].pc # "locked"
      BY <1>1 DEF TryAcquireMaintenanceLease, RowLocked, LeaseLocked
    <2>2. Shaped'
      BY <1>1, <1>0, <1>n DEF TryAcquireMaintenanceLease, Shaped, MaintenanceIInv, Put, Fields
    <2>3. MaintenanceTypeOK'
      BY <1>1, <1>0, <1>n DEF TryAcquireMaintenanceLease, MaintenanceTypeOK, Put, Fields
    <2>4. LockedIsOwner' /\ CommittedPast'
      BY <1>1, <1>0, <1>n, <2>1
         DEF TryAcquireMaintenanceLease, LockedIsOwner, CommittedPast, MaintenanceIInv, Put, Fields, MaintenanceTypeOK
    <2>5. QED
      BY <2>2, <2>3, <2>4 DEF MaintenanceIInv
  <1>l. \A n \in Replicas : replica[n].pc = "locked" => lease.owner = n /\ lease.gen = replica[n].gen
    BY DEF MaintenanceIInv, LockedIsOwner
  <1>2. ASSUME NEW n \in Replicas, RenewBegin(n) PROVE MaintenanceIInv'
    <2>1. replica' = [replica EXCEPT ![n] = replica'[n]] /\ GoodState(replica'[n])
      BY <1>2, <1>0, <1>n DEF RenewBegin, Put, GoodState, Fields
    <2>2. replica'[n].pc = "locked" => lease.owner = n /\ lease.gen = replica'[n].gen
      BY <1>2, <1>0, <1>l, <1>n DEF RenewBegin, Put, Fields
    <2>3. UNCHANGED <<lease, backlog, arrivals, committed>> /\ mishaps' \in 0 .. MaxMishaps
      BY <1>2, <1>0, <1>m DEF RenewBegin
    <2>4. QED
      BY <2>1, <2>2, <2>3, PutKeepsIInv
  <1>3. ASSUME NEW n \in Replicas, RenewMaintenanceLease(n) PROVE MaintenanceIInv'
    <2>1. \A m \in Replicas : replica[m].pc # "locked"
      BY <1>3 DEF RenewMaintenanceLease, RowLocked, LeaseLocked
    <2>2. CASE OwnsMaintenanceLease(n, replica[n].renewal)
      <3>1. /\ lease' = [lease EXCEPT !.left = LeaseDuration - replica[n].renewal]
            /\ replica' = [replica EXCEPT ![n] = [replica[n] EXCEPT !.renewal = -1]]
            /\ replica[n].renewal \in 0 .. MaxAge
            /\ UNCHANGED <<backlog, arrivals, committed, mishaps>>
        BY <1>3, <1>0, <2>2 DEF RenewMaintenanceLease, Put
      <3>2. Shaped'
        BY <3>1, <1>0 DEF Shaped, MaintenanceIInv, Fields
      <3>3. MaintenanceTypeOK'
        BY <3>1, <1>0 DEF Shaped, MaintenanceIInv, MaintenanceTypeOK, Fields
      <3>4. LockedIsOwner' /\ CommittedPast'
        BY <3>1, <1>0, <2>1 DEF LockedIsOwner, CommittedPast, MaintenanceIInv, Shaped, Fields
      <3>5. QED
        BY <3>2, <3>3, <3>4 DEF MaintenanceIInv
    <2>3. CASE ~OwnsMaintenanceLease(n, replica[n].renewal)
      <3> DEFINE state == [replica[n] EXCEPT !.renewal = -1, !.canceled = TRUE]
      <3>a. replica' = [replica EXCEPT ![n] = state]
        BY <1>3, <2>3 DEF RenewMaintenanceLease, Put
      <3>b. GoodState(state)
        <4>1. GoodState(replica[n]) /\ MaxAge \in Nat
          BY <1>0 DEF GoodState, Fields
        <4>2. -1 \in -1 .. MaxAge
          BY <4>1
        <4>3. DOMAIN state = DOMAIN replica[n]
          OBVIOUS
        <4>4. /\ state.pc = replica[n].pc /\ state.gen = replica[n].gen
              /\ state.batches = replica[n].batches /\ state.age = replica[n].age
              /\ state.renewal = -1
          BY <4>1 DEF GoodState, Fields
        <4> HIDE DEF state
        <4>5. QED
          BY <4>1, <4>2, <4>3, <4>4 DEF GoodState
      <3>1. replica' = [replica EXCEPT ![n] = replica'[n]] /\ GoodState(replica'[n])
        BY <3>a, <3>b, <1>0
      <3>2. replica'[n].pc # "locked"
        BY <1>3, <2>3, <1>0, <2>1 DEF RenewMaintenanceLease, Put, Fields
      <3>3. UNCHANGED <<lease, backlog, arrivals, committed>> /\ mishaps' \in 0 .. MaxMishaps
        BY <1>3, <2>3, <1>0 DEF RenewMaintenanceLease
      <3>4. QED
        BY <3>1, <3>2, <3>3, PutKeepsIInv
    <2>4. QED
      BY <2>2, <2>3
  <1>4. ASSUME NEW n \in Replicas, RenewFails(n) PROVE MaintenanceIInv'
    <2>1. replica' = [replica EXCEPT ![n] = replica'[n]] /\ GoodState(replica'[n])
      BY <1>4, <1>0, <1>n DEF RenewFails, Put, GoodState, Fields
    <2>2. replica'[n].pc = "locked" => lease.owner = n /\ lease.gen = replica'[n].gen
      BY <1>4, <1>0, <1>l, <1>n DEF RenewFails, Put, Fields
    <2>3. UNCHANGED <<lease, backlog, arrivals, committed>> /\ mishaps' \in 0 .. MaxMishaps
      BY <1>4, <1>0, <1>m DEF RenewFails
    <2>4. QED
      BY <2>1, <2>2, <2>3, PutKeepsIInv
  <1>5. ASSUME NEW n \in Replicas, NEW owner \in {lease.owner, Vacant, Ghost}, NEW left \in {lease.left, 0},
               NEW pc \in {"down", "waiting"},
               lease' = [lease EXCEPT !.owner = owner, !.left = left],
               owner # lease.owner => \A m \in Replicas \ {n} : replica[m].pc # "locked",
               Put(n, [NotLeading EXCEPT !.pc = pc]),
               UNCHANGED <<backlog, arrivals, committed>>, mishaps' \in 0 .. MaxMishaps
        PROVE  MaintenanceIInv'
    <2>0. lease' \in [owner : Replicas \cup {Ghost, Vacant}, left : Int, gen : Nat]
      <3>1. lease \in [owner : Replicas \cup {Ghost, Vacant}, left : Int, gen : Nat]
        BY DEF MaintenanceIInv, Shaped
      <3>2. owner \in Replicas \cup {Ghost, Vacant} /\ left \in Int
        BY <3>1
      <3>3. QED
        BY <3>1, <3>2, <1>5
    <2>1. Shaped'
      BY <1>5, <2>0, <1>0, <1>n DEF Shaped, Put, Fields
    <2>2. MaintenanceTypeOK'
      BY <1>5, <1>0, <1>n DEF Shaped, MaintenanceIInv, MaintenanceTypeOK, Put, Fields
    <2>3. LockedIsOwner' /\ CommittedPast'
      BY <1>5, <1>0, <1>n, <1>l DEF LockedIsOwner, CommittedPast, MaintenanceIInv, Shaped, Put, Fields
    <2>4. QED
      BY <2>1, <2>2, <2>3 DEF MaintenanceIInv
  <1>6. \A n \in Replicas : lease.owner = n => \A m \in Replicas \ {n} : replica[m].pc # "locked"
    BY <1>l
  <1>7. ASSUME NEW n \in Replicas, ReleaseMaintenanceLease(n) PROVE MaintenanceIInv'
    <2>1. \A m \in Replicas : replica[m].pc # "locked"
      BY <1>7 DEF ReleaseMaintenanceLease, RowLocked, LeaseLocked
    <2>2. lease = [lease EXCEPT !.owner = lease.owner, !.left = lease.left]
      BY DEF MaintenanceIInv, Shaped
    <2>3. QED
      BY <1>7, <1>0, <1>5, <2>1, <2>2 DEF ReleaseMaintenanceLease, Releases
  <1>8. ASSUME NEW n \in Replicas, ReleaseFails(n) \/ Crash(n) PROVE MaintenanceIInv'
    <2>1. lease = [lease EXCEPT !.owner = lease.owner, !.left = lease.left]
      BY DEF MaintenanceIInv, Shaped
    <2>2. [lease EXCEPT !.owner = Ghost] = [lease EXCEPT !.owner = Ghost, !.left = lease.left]
      BY DEF MaintenanceIInv, Shaped
    <2>3. QED
      BY <1>8, <1>0, <1>m, <1>5, <1>6, <2>1, <2>2 DEF ReleaseFails, Crash, Deserted
  <1>9. ASSUME NEW n \in Replicas, BatchBegin(n) PROVE MaintenanceIInv'
    <2> DEFINE state == [replica[n] EXCEPT !.pc = "begun", !.age = 0]
    <2>1. replica' = [replica EXCEPT ![n] = state]
      BY <1>9 DEF BatchBegin, Put
    <2>2. GoodState(state) /\ state.pc # "locked"
      BY <1>0 DEF GoodState, Fields
    <2>3. replica' = [replica EXCEPT ![n] = replica'[n]] /\ GoodState(replica'[n]) /\ replica'[n].pc # "locked"
      BY <2>1, <2>2, <1>0
    <2>4. QED
      BY <1>9, <1>0, <2>3, PutKeepsIInv DEF BatchBegin
  <1>19. ASSUME NEW n \in Replicas, LeadershipEnds(n) PROVE MaintenanceIInv'
    <2> DEFINE state == [replica[n] EXCEPT !.pc = "releasing", !.renewal = -1, !.age = 0]
    <2>1. replica' = [replica EXCEPT ![n] = state]
      BY <1>19 DEF LeadershipEnds, Put
    <2>2. GoodState(state) /\ state.pc # "locked"
      BY <1>0 DEF GoodState, Fields
    <2>3. replica' = [replica EXCEPT ![n] = replica'[n]] /\ GoodState(replica'[n]) /\ replica'[n].pc # "locked"
      BY <2>1, <2>2, <1>0
    <2>4. QED
      BY <1>19, <1>0, <2>3, PutKeepsIInv DEF LeadershipEnds
  <1>10. ASSUME NEW n \in Replicas, BatchCheck(n) PROVE MaintenanceIInv'
    <2>1. replica' = [replica EXCEPT ![n] = replica'[n]] /\ GoodState(replica'[n])
      BY <1>10, <1>0, <1>n DEF BatchCheck, OwnsMaintenanceLease, Put, GoodState, Fields
    <2>2. replica'[n].pc = "locked" => lease.owner = n /\ lease.gen = replica'[n].gen
      BY <1>10, <1>0, <1>l, <1>n DEF BatchCheck, OwnsMaintenanceLease, Put, Fields
    <2>3. UNCHANGED <<lease, backlog, arrivals, committed>> /\ mishaps' \in 0 .. MaxMishaps
      BY <1>10, <1>0, <1>m DEF BatchCheck, OwnsMaintenanceLease
    <2>4. QED
      BY <2>1, <2>2, <2>3, PutKeepsIInv
  <1>11. ASSUME NEW n \in Replicas, NEW agenda, BatchCommit(n, agenda) PROVE MaintenanceIInv'
    <2> DEFINE j == Head(replica[n].agenda)
    <2>1. /\ lease' = lease /\ arrivals' = arrivals /\ mishaps' = mishaps
          /\ replica[n].pc = "locked" /\ committed' = replica[n].gen
          /\ backlog' = [backlog EXCEPT ![j] = IF backlog[j] > 0 THEN backlog[j] - 1 ELSE backlog[j]]
      BY <1>11 DEF BatchCommit
    <2>2. \E b \in 0 .. MaxBatches - 1 :
            replica' = [replica EXCEPT ![n] = [replica[n] EXCEPT !.pc = "leading", !.age = 0, !.agenda = agenda, !.batches = b]]
      <3>1. CASE GoesOn(n)
        <4>1. replica[n].batches + 1 \in 0 .. MaxBatches - 1
          BY <3>1, <1>0 DEF GoesOn
        <4>2. QED
          BY <4>1, <3>1, <1>11, <1>0 DEF BatchCommit, Put, Fields
      <3>2. CASE ~GoesOn(n)
        <4>1. 0 \in 0 .. MaxBatches - 1
          OBVIOUS
        <4>2. QED
          BY <4>1, <3>2, <1>11, <1>0 DEF BatchCommit, Put, Fields
      <3>3. QED
        BY <3>1, <3>2
    <2>3. backlog' \in [Job -> 0 .. MaxRows]
      <3>1. backlog \in [Job -> 0 .. MaxRows]
        BY DEF MaintenanceIInv, MaintenanceTypeOK
      <3>2. j \in Job => (IF backlog[j] > 0 THEN backlog[j] - 1 ELSE backlog[j]) \in 0 .. MaxRows
        BY <3>1
      <3>3. QED
        BY <3>1, <3>2, <2>1
    <2>4. Shaped'
      BY <2>1, <2>2, <1>0 DEF Shaped, MaintenanceIInv, Fields
    <2>5. MaintenanceTypeOK'
      BY <2>1, <2>2, <2>3, <1>0 DEF MaintenanceTypeOK, Fields
    <2>6. LockedIsOwner' /\ CommittedPast'
      BY <2>1, <2>2, <1>0, <1>l DEF LockedIsOwner, CommittedPast, Fields
    <2>7. QED
      BY <2>4, <2>5, <2>6 DEF MaintenanceIInv
  <1>12. ASSUME NEW n \in Replicas, BatchFails(n) PROVE MaintenanceIInv'
    <2>1. replica' = [replica EXCEPT ![n] = replica'[n]] /\ GoodState(replica'[n])
      BY <1>12, <1>0, <1>n DEF BatchFails, Put, GoodState, Fields
    <2>2. replica'[n].pc = "locked" => lease.owner = n /\ lease.gen = replica'[n].gen
      BY <1>12, <1>0, <1>l, <1>n DEF BatchFails, Put, Fields
    <2>3. UNCHANGED <<lease, backlog, arrivals, committed>> /\ mishaps' \in 0 .. MaxMishaps
      BY <1>12, <1>0, <1>m DEF BatchFails
    <2>4. QED
      BY <2>1, <2>2, <2>3, PutKeepsIInv
  <1>13. ASSUME NEW n \in Replicas, Shutdown(n) PROVE MaintenanceIInv'
    <2>1. CASE replica[n].pc = "waiting"
      <3>1. lease = [lease EXCEPT !.owner = lease.owner, !.left = lease.left]
        BY DEF MaintenanceIInv, Shaped
      <3>2. [lease EXCEPT !.owner = Ghost] = [lease EXCEPT !.owner = Ghost, !.left = lease.left]
        BY DEF MaintenanceIInv, Shaped
      <3>3. /\ Put(n, [NotLeading EXCEPT !.pc = "down"]) /\ UNCHANGED <<backlog, arrivals, committed>>
            /\ mishaps' \in 0 .. MaxMishaps
            /\ lease' = IF lease.owner = n THEN [lease EXCEPT !.owner = Ghost] ELSE lease
        BY <1>13, <2>1, <1>0, <1>m DEF Shutdown, Deserted
      <3>4. CASE lease.owner = n
        <4>1. lease' = [lease EXCEPT !.owner = Ghost, !.left = lease.left]
          BY <3>2, <3>3, <3>4
        <4>2. QED
          BY <3>3, <3>4, <4>1, <1>5, <1>6
      <3>5. CASE lease.owner # n
        <4>1. lease' = [lease EXCEPT !.owner = lease.owner, !.left = lease.left]
          BY <3>1, <3>3, <3>5
        <4>2. QED
          BY <3>3, <4>1, <1>5
      <3>6. QED
        BY <3>4, <3>5
    <2>2. CASE replica[n].pc # "waiting"
      <3> DEFINE state == [replica[n] EXCEPT !.canceled = TRUE, !.stopping = TRUE]
      <3>1. /\ replica' = [replica EXCEPT ![n] = state] /\ mishaps' \in 0 .. MaxMishaps
            /\ UNCHANGED <<lease, backlog, arrivals, committed>>
        BY <1>13, <2>2, <1>m DEF Shutdown, Put
      <3>2. GoodState(state) /\ state.pc = replica[n].pc /\ state.gen = replica[n].gen
        BY <1>0, <1>n DEF GoodState, Fields
      <3>3. replica'[n] = state
        BY <3>1, <1>0
      <3>4. replica'[n].pc = "locked" => lease.owner = n /\ lease.gen = replica'[n].gen
        BY <3>2, <3>3, <1>l
      <3>5. QED
        BY <3>1, <3>2, <3>3, <3>4, PutKeepsIInv
    <2>3. QED
      BY <2>1, <2>2
  <1>14. ASSUME NEW n \in Replicas, Start(n) PROVE MaintenanceIInv'
    <2>1. replica' = [replica EXCEPT ![n] = replica'[n]] /\ GoodState(replica'[n])
      BY <1>14, <1>0, <1>n DEF Start, Put, GoodState, Fields
    <2>2. replica'[n].pc = "locked" => lease.owner = n /\ lease.gen = replica'[n].gen
      BY <1>14, <1>0, <1>l, <1>n DEF Start, Put, Fields
    <2>3. UNCHANGED <<lease, backlog, arrivals, committed>> /\ mishaps' \in 0 .. MaxMishaps
      BY <1>14, <1>0, <1>m DEF Start
    <2>4. QED
      BY <2>1, <2>2, <2>3, PutKeepsIInv
  <1>15. ASSUME NEW j \in Job, RowExpires(j) PROVE MaintenanceIInv'
    BY <1>15 DEF RowExpires, MaintenanceIInv, Shaped, MaintenanceTypeOK, LockedIsOwner, CommittedPast
  <1>16. ASSUME MaintenanceTick PROVE MaintenanceIInv'
    <2>1. /\ lease' = [lease EXCEPT !.left = lease.left - 1] /\ lease.left > -MaxAge
          /\ \A n \in Replicas : replica[n].age < MaxAge /\ replica[n].renewal < MaxAge
          /\ mishaps' \in 0 .. MaxMishaps
          /\ replica' = [n \in Replicas |-> [replica[n] EXCEPT
                !.age = IF replica[n].pc \in {"begun", "locked"} THEN replica[n].age + 1 ELSE replica[n].age,
                !.renewal = IF replica[n].renewal >= 0 THEN replica[n].renewal + 1 ELSE replica[n].renewal]]
          /\ UNCHANGED <<backlog, arrivals, committed>>
      BY <1>16, <1>0, <1>m DEF MaintenanceTick
    <2>a. DOMAIN replica' = Replicas
      BY <2>1
    <2>b. ASSUME NEW n \in Replicas
          PROVE  /\ GoodState(replica'[n])
                 /\ replica'[n].pc = replica[n].pc /\ replica'[n].gen = replica[n].gen
      <3> DEFINE age == IF replica[n].pc \in {"begun", "locked"} THEN replica[n].age + 1 ELSE replica[n].age
                 renewal == IF replica[n].renewal >= 0 THEN replica[n].renewal + 1 ELSE replica[n].renewal
      <3>0. /\ replica[n].age \in 0 .. MaxAge /\ replica[n].renewal \in -1 .. MaxAge
            /\ replica[n].age < MaxAge /\ replica[n].renewal < MaxAge /\ MaxAge \in Nat
        BY <2>1, <1>0
      <3>1. age \in 0 .. MaxAge /\ renewal \in -1 .. MaxAge
        BY <3>0
      <3>2. replica'[n] = [replica[n] EXCEPT !.age = age, !.renewal = renewal]
        BY <2>1
      <3> HIDE DEF age, renewal
      <3>3. QED
        BY <3>1, <3>2, <1>0 DEF GoodState, Fields
    <2>c. lease' \in [owner : Replicas \cup {Ghost, Vacant}, left : Int, gen : Nat]
      <3>1. lease \in [owner : Replicas \cup {Ghost, Vacant}, left : Int, gen : Nat]
        BY DEF MaintenanceIInv, Shaped
      <3>2. lease' = [lease EXCEPT !.left = lease.left - 1]
        BY <2>1
      <3>3. QED
        BY <3>1, <3>2
    <2>d. lease'.owner = lease.owner /\ lease'.gen = lease.gen /\ lease'.left = lease.left - 1
      BY <2>1 DEF MaintenanceIInv, Shaped
    <2>2. Shaped'
      BY <2>a, <2>b, <2>c DEF Shaped, GoodState
    <2>3. MaintenanceTypeOK'
      <3>0. lease.left \in -MaxAge .. LeaseDuration /\ lease.left > -MaxAge
        BY <2>1, <1>0 DEF MaintenanceTypeOK
      <3>1. lease.left - 1 \in -MaxAge .. LeaseDuration
        BY <3>0
      <3>2. \A n \in Replicas : replica'[n].gen \in 0 .. lease'.gen
        BY <2>b, <2>d DEF GoodState
      <3>3. backlog' = backlog /\ arrivals' = arrivals /\ committed' = committed /\ mishaps' \in 0 .. MaxMishaps
        BY <2>1
      <3>4. lease'.owner \in Replicas \cup {Ghost, Vacant} /\ lease'.gen \in Nat
        BY <2>d, <1>0 DEF MaintenanceTypeOK
      <3>5. QED
        BY <3>1, <3>2, <3>3, <3>4, <2>b, <2>d, <1>0 DEF MaintenanceTypeOK, GoodState
    <2>4. LockedIsOwner' /\ CommittedPast'
      BY <2>1, <2>b, <2>d, <1>l DEF LockedIsOwner, CommittedPast, MaintenanceIInv
    <2>5. QED
      BY <2>2, <2>3, <2>4 DEF MaintenanceIInv
  <1>17. CASE UNCHANGED maintenanceVars
    BY <1>17 DEF maintenanceVars, MaintenanceIInv, Shaped, MaintenanceTypeOK, LockedIsOwner, CommittedPast
  <1>18. QED
    BY <1>1, <1>2, <1>3, <1>4, <1>7, <1>8, <1>9, <1>10, <1>11, <1>12, <1>13, <1>14, <1>15, <1>16, <1>17, <1>19
       DEF MaintenanceNext, Coordinate, Renew

\* MaintenanceIInv holds in every reachable state.
THEOREM MaintenanceInvariant == MaintenanceSpec => []MaintenanceIInv
  BY MaintenanceInitIInv, MaintenanceNextIInv, PTL DEF MaintenanceSpec

-----------------------------------------------------------------------------

\* However many replicas run, two of them never delete at the same time: the row
\* that a batch locks names one owner (FOR UPDATE, SKIP LOCKED).
THEOREM OneCleanerHolds == MaintenanceSpec => []OneCleaner
  <1>1. MaintenanceIInv => OneCleaner
    BY DEF MaintenanceIInv, LockedIsOwner, OneCleaner
  <1>2. QED
    BY <1>1, MaintenanceInvariant, PTL

\* The batches of a leader that lost its lease commit nothing: every commit is of
\* the generation that the row has, and generations do not go back.
THEOREM BatchesAreFenced == MaintenanceSpec => BatchesFenced
  <1>1. ASSUME MaintenanceIInv, [MaintenanceNext]_maintenanceVars
        PROVE  [\A n \in Replicas :
                  (replica[n].pc = "locked" /\ committed' # committed /\ replica'[n].pc = "leading")
                      => replica[n].gen = lease.gen /\ committed' >= committed]_maintenanceVars
    <2>1. ASSUME NEW n \in Replicas, replica[n].pc = "locked", committed' # committed
          PROVE  replica[n].gen = lease.gen /\ committed' >= committed
      <3>1. PICK m \in Replicas : \E agenda \in Rescheduled(replica[m].agenda) : BatchCommit(m, agenda)
        BY <1>1, <2>1
           DEF MaintenanceNext, maintenanceVars, Coordinate, Renew, TryAcquireMaintenanceLease,
               ReleaseMaintenanceLease, BatchBegin, BatchCheck, LeadershipEnds, Start, RenewBegin,
               RenewMaintenanceLease, RenewFails, ReleaseFails, BatchFails, Shutdown, Crash,
               RowExpires, MaintenanceTick
      <3>2. replica[m].pc = "locked" /\ committed' = replica[m].gen
        BY <3>1 DEF BatchCommit
      <3>3. m = n /\ replica[n].gen = lease.gen
        BY <1>1, <2>1, <3>2 DEF MaintenanceIInv, LockedIsOwner
      <3>4. committed <= lease.gen /\ committed \in Nat /\ lease.gen \in Nat
        BY <1>1 DEF MaintenanceIInv, CommittedPast, MaintenanceTypeOK
      <3>5. QED
        BY <3>2, <3>3, <3>4
    <2>2. QED
      BY <2>1
  <1>2. QED
    BY <1>1, MaintenanceInvariant, PTL DEF MaintenanceSpec, BatchesFenced

\* A lease that has not lapsed stays with its leader until that leader releases
\* it or is gone: nobody else's late release or renewal touches it.
THEOREM LeaseIsKept == MaintenanceSpec => LeaseKept
  <1>1. ASSUME MaintenanceIInv, [MaintenanceNext]_maintenanceVars
        PROVE  [(LeaseHeld /\ lease.left > 0 /\ lease'.owner # lease.owner)
                    => replica'[lease.owner].pc \in {"down", "waiting"}]_maintenanceVars
    <2> SUFFICES ASSUME LeaseHeld, lease.left > 0, lease'.owner # lease.owner
                 PROVE  replica'[lease.owner].pc \in {"down", "waiting"}
      OBVIOUS
    <2>0. /\ lease.owner \in Replicas /\ lease.left \in Int
          /\ DOMAIN lease = {"owner", "left", "gen"} /\ DOMAIN replica = Replicas
          /\ DOMAIN NotLeading = Fields
      BY <1>1 DEF MaintenanceIInv, Shaped, LeaseHeld, NotLeading, Fields
    <2>1. PICK n \in Replicas : \/ TryAcquireMaintenanceLease(n) \/ ReleaseMaintenanceLease(n)
                               \/ ReleaseFails(n) \/ Crash(n)
                               \/ (Shutdown(n) /\ replica[n].pc = "waiting")
      <3>1. PICK n \in Replicas : \/ TryAcquireMaintenanceLease(n) \/ ReleaseMaintenanceLease(n)
                                 \/ ReleaseFails(n) \/ Crash(n) \/ Shutdown(n)
        BY <1>1, <2>0
           DEF MaintenanceNext, maintenanceVars, Coordinate, Renew, BatchBegin, BatchCheck,
               LeadershipEnds, Start, RenewBegin, RenewMaintenanceLease, RenewFails, BatchFails,
               RowExpires, MaintenanceTick, BatchCommit
      <3>2. ASSUME Shutdown(n) PROVE replica[n].pc = "waiting" \/ lease' = lease
        BY <3>2, Zenon DEF Shutdown
      <3>3. QED
        BY <3>1, <3>2
    <2>2. ~TryAcquireMaintenanceLease(n)
      BY <2>0, MaintenanceAssumption DEF TryAcquireMaintenanceLease, Acquirable
    <2>3. lease.owner = n
      BY <2>1, <2>2 DEF ReleaseMaintenanceLease, Releases, ReleaseFails, Crash, Shutdown, Deserted
    <2>4. \E pc \in {"down", "waiting"} : replica' = [replica EXCEPT ![n] = [NotLeading EXCEPT !.pc = pc]]
      BY <2>1, <2>2 DEF ReleaseMaintenanceLease, ReleaseFails, Crash, Shutdown, Put
    <2>5. QED
      BY <2>0, <2>3, <2>4 DEF Fields
  <1>2. QED
    BY <1>1, MaintenanceInvariant, PTL DEF MaintenanceSpec, LeaseKept
=============================================================================
