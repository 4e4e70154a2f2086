--------------------------- MODULE SessionsProofs ---------------------------
(***************************************************************************)
(* Proofs about Sessions, for every number of users, sessions, tokens and  *)
(* concurrent requests, every lifetime and every set of operations.        *)
(***************************************************************************)
EXTENDS Sessions, FiniteSetTheorems, TLAPS

-----------------------------------------------------------------------------
(* The inductive invariant.                                                *)

\* Rows refer to rows that exist (the foreign keys).
Rows ==
    /\ \A s \in SessionIds : sessions[s].st # "free" =>
          sessions[s].user \in Users /\ sessions[s].org \in Orgs
    /\ \A s \in SessionIds : sessions[s].st = "free" => ~sessions[s].revoked
    /\ \A t \in TokenIds : tokens[t].st # "free" =>
          /\ tokens[t].session \in SessionIds /\ tokens[t].org \in Orgs
          /\ sessions[tokens[t].session].st # "free"
    /\ \A a \in AccessIds : access[a].st = "issued" =>
          /\ access[a].session \in SessionIds /\ access[a].org \in Orgs
          /\ sessions[access[a].session].st # "free"

\* The rows a request refers to exist and belong to the user it locks.
NeedsSession == {"refresh", "switch"} \cup SessionOps \cup OtherOps
NeedsToken == {"refresh", "logout"}
NeedsOrg == IssueOps \cup {"removeMember"}

Shape(q) ==
    /\ q.op # "none" => q.user \in Users
    /\ q.op \in NeedsSession =>
          /\ q.session \in SessionIds
          /\ sessions[q.session].st # "free" /\ sessions[q.session].user = q.user
    /\ q.op \in NeedsToken =>
          /\ q.token \in TokenIds
          /\ tokens[q.token].st # "free" /\ tokens[q.token].session = q.session
    /\ q.op \in NeedsOrg => q.org \in Orgs
    /\ q.op \in UserOps => q.session = None
    /\ \A t \in q.snap : tokens[t].st # "free"

Shapes == \A r \in Requests : Shape(req[r])

\* FOR UPDATE of a user row excludes every other lock of it.
UserLocks ==
    \A r1, r2 \in Requests : \A u \in Users :
        HoldsUpdate(r1, u) => ~HoldsKeyShare(r2, u)

\* A transaction about to issue tokens has passed checks that still hold.
ChecksHold ==
    \A r \in Requests : Locked(r) /\ req[r].op \in IssueOps =>
        /\ req[r].user \notin disabled
        /\ req[r].op # "create" => /\ Live(sessions[req[r].session])
                                   /\ ~sessions[req[r].session].revoked
        /\ req[r].op = "refresh" => Live(tokens[req[r].token])

\* A disabled user has no unrevoked session.
DisabledRevoked ==
    \A u \in disabled : \A s \in SessionsOf(u) : sessions[s].revoked

IInv ==
    /\ TypeOK
    /\ Rows
    /\ Shapes
    /\ UserLocks
    /\ ChecksHold
    /\ DisabledRevoked

-----------------------------------------------------------------------------
(* Lemmas about the helpers.                                               *)

\* NextFree picks a row that is still free.
LEMMA NextFreeIsFree ==
    ASSUME NEW table, Free(table) # {}
    PROVE  NextFree(table) \in DOMAIN table /\ table[NextFree(table)].st = "free"
  <1>1. NextFree(table) \in Free(table)
    BY DEF NextFree
  <1>2. QED
    BY <1>1 DEF Free

\* SetMax keeps a cutoff within the clock and the longest token lifetime.
LEMMA SetMaxType ==
    ASSUME TypeOK, NEW c \in CutoffType, NEW at \in Clock
    PROVE  SetMax(c, at) \in CutoffType
  <1>1. /\ now \in 1 .. MaxTime /\ MarkerTTL = MaxAccessTTL
        /\ c.at \in 0 .. MaxTime /\ c.until \in 0 .. MaxTime + MaxAccessTTL
        /\ MaxTime \in Nat /\ MaxAccessTTL \in Nat
    BY PolicyAssumption DEF TypeOK, MarkerTTL, CutoffType, Clock, Expiry
  <1>2. CutoffAt(c) \in 0 .. MaxTime
    BY <1>1 DEF CutoffAt
  <1>3. Later(CutoffAt(c), at) \in Clock
    BY <1>2, <1>1 DEF Later, Clock
  <1>4. Later(IF now < c.until THEN c.until ELSE 0, now + MarkerTTL)
            \in Expiry(MaxAccessTTL)
    BY <1>1 DEF Later, Expiry
  <1>5. QED
    BY <1>3, <1>4 DEF SetMax, CutoffType

\* The cutoffs MarkSessions writes have their type.
LEMMA MarkSessionsType ==
    ASSUME TypeOK, NEW S, NEW at \in Clock, MarkSessions(S, at)
    PROVE  sessionCutoff' \in [SessionIds -> CutoffType]
  <1>1. \A s \in SessionIds : sessionCutoff[s] \in CutoffType
    BY DEF TypeOK
  <1>2. \A s \in SessionIds : SetMax(sessionCutoff[s], at) \in CutoffType
    BY <1>1, SetMaxType
  <1>3. QED
    BY <1>1, <1>2 DEF MarkSessions

\* The initial state satisfies the invariant.
LEMMA InitIInv == Init => IInv
  <1> SUFFICES ASSUME Init PROVE IInv
    OBVIOUS
  <1>1. TypeOK
    <2> USE PolicyAssumption DEF Init
    <2>1. now \in 1 .. MaxTime /\ accessTTL \in 1 .. MaxAccessTTL
      OBVIOUS
    <2>2. sessions \in [SessionIds -> SessionType]
      BY DEF FreeSession, SessionType, Expiry
    <2>3. tokens \in [TokenIds -> TokenType]
      BY DEF FreeToken, TokenType, Expiry, Clock
    <2>4. access \in [AccessIds -> AccessType]
      BY DEF FreeAccess, AccessType, Expiry, Clock
    <2>5. /\ sessionCutoff \in [SessionIds -> CutoffType]
          /\ userCutoff \in [Users -> CutoffType]
          /\ memberCutoff \in [Users \X Orgs -> CutoffType]
      BY DEF NoCutoff, CutoffType, Expiry, Clock
    <2>6. req \in [Requests -> RequestType]
      BY DEF Idle, RequestType, Clock
    <2>7. QED
      BY <2>1, <2>2, <2>3, <2>4, <2>5, <2>6 DEF TypeOK
  <1>2. Rows
    BY DEF Init, Rows, FreeSession, FreeToken, FreeAccess
  <1>3. Shapes
    BY DEF Init, Shapes, Shape, Idle, NeedsSession, NeedsToken, NeedsOrg,
           IssueOps, SessionOps, UserOps, OtherOps
  <1>4. UserLocks /\ ChecksHold
    BY DEF Init, UserLocks, ChecksHold, HoldsUpdate, Locked, Idle
  <1>5. DisabledRevoked
    BY DEF Init, DisabledRevoked
  <1>6. QED
    BY <1>1, <1>2, <1>3, <1>4, <1>5 DEF IInv

-----------------------------------------------------------------------------
(* Steps of a request that leave the database alone.                       *)

\* A request that moves on to q, which may hold its locks only if it got them
\* and its checks succeeded.
LEMMA RequestMoves ==
    ASSUME IInv, NEW r \in Requests, NEW q \in RequestType, Shape(q),
           req' = [req EXCEPT ![r] = q],
           UNCHANGED <<now, db, access, accessTTL>>,
           sessionCutoff' \in [SessionIds -> CutoffType],
           userCutoff' \in [Users -> CutoffType],
           memberCutoff' \in [Users \X Orgs -> CutoffType],
           revokedJti' \in SUBSET AccessIds, lostCutoff' \in SUBSET SessionIds,
           q.pc = "locked" /\ q.op \in RevokeOps => LockUserForUpdate(q.user),
           q.pc = "locked" /\ q.op \in IssueOps =>
              /\ LockUserForKeyShare(q.user)
              /\ q.user \notin disabled
              /\ q.op # "create" => /\ Live(sessions[q.session])
                                    /\ ~sessions[q.session].revoked
              /\ q.op = "refresh" => Live(tokens[q.token])
    PROVE  IInv'
  <1> USE DEF db
  <1>1. /\ req \in [Requests -> RequestType] /\ req'[r] = q
        /\ \A x \in Requests : x # r => req'[x] = req[x]
    BY DEF IInv, TypeOK
  <1>2. TypeOK'
    BY <1>1 DEF IInv, TypeOK
  <1>3. Rows'
    BY DEF IInv, Rows
  <1>4. Shapes'
    <2> SUFFICES ASSUME NEW x \in Requests PROVE Shape(req[x])'
      BY DEF Shapes
    <2>1. CASE x = r
      BY <1>1, <2>1 DEF Shape
    <2>2. CASE x # r
      BY <1>1, <2>2 DEF IInv, Shapes, Shape
    <2>3. QED
      BY <2>1, <2>2
  <1>5. UserLocks'
    <2> SUFFICES ASSUME NEW r1 \in Requests, NEW r2 \in Requests, NEW u \in Users,
                        HoldsUpdate(r1, u)', HoldsKeyShare(r2, u)'
                 PROVE  FALSE
      BY DEF UserLocks
    <2>0. r1 # r2
      BY DEF HoldsUpdate, HoldsKeyShare, RevokeOps, SessionOps, UserOps, OtherOps, IssueOps
    <2>1. CASE r1 = r
      BY <1>1, <2>0, <2>1 DEF HoldsUpdate, HoldsKeyShare, Locked, LockUserForUpdate
    <2>2. CASE r2 = r
      BY <1>1, <2>0, <2>2 DEF HoldsUpdate, HoldsKeyShare, Locked, LockUserForKeyShare
    <2>3. CASE r1 # r /\ r2 # r
      BY <1>1, <2>3 DEF HoldsUpdate, HoldsKeyShare, Locked, IInv, UserLocks
    <2>4. QED
      BY <2>1, <2>2, <2>3
  <1>6. ChecksHold'
    <2> SUFFICES ASSUME NEW x \in Requests, Locked(x)', req'[x].op \in IssueOps
                 PROVE  /\ req'[x].user \notin disabled
                        /\ req'[x].op # "create" => /\ Live(sessions[req'[x].session])
                                                    /\ ~sessions[req'[x].session].revoked
                        /\ req'[x].op = "refresh" => Live(tokens[req'[x].token])
      BY DEF ChecksHold, Live
    <2>1. CASE x = r
      BY <1>1, <2>1 DEF Locked
    <2>2. CASE x # r
      BY <1>1, <2>2 DEF IInv, ChecksHold, Locked
    <2>3. QED
      BY <2>1, <2>2
  <1>7. DisabledRevoked'
    BY DEF IInv, DisabledRevoked, SessionsOf, Live
  <1>8. QED
    BY <1>2, <1>3, <1>4, <1>5, <1>6, <1>7 DEF IInv

\* A request that rolls back or finishes without writing.
LEMMA ReturnIInv ==
    ASSUME IInv, NEW r \in Requests, Return(r),
           UNCHANGED <<now, db, access, accessTTL, cache, lostCutoff>>
    PROVE  IInv'
  <1>1. Idle \in RequestType /\ Idle.pc # "locked"
    BY PolicyAssumption DEF Idle, RequestType, Clock
  <1>2. Shape(Idle)
    BY DEF Idle, Shape, NeedsSession, NeedsToken, NeedsOrg, IssueOps,
           SessionOps, UserOps, OtherOps
  <1>3. /\ sessionCutoff' \in [SessionIds -> CutoffType]
        /\ userCutoff' \in [Users -> CutoffType]
        /\ memberCutoff' \in [Users \X Orgs -> CutoffType]
        /\ revokedJti' \in SUBSET AccessIds /\ lostCutoff' \in SUBSET SessionIds
    BY DEF IInv, TypeOK, cache
  <1>4. QED
    BY <1>1, <1>2, <1>3, RequestMoves DEF Return, cache

\* A request that begins on rows that exist.
LEMMA BeginIInv ==
    ASSUME IInv, NEW r \in Requests,
           NEW op \in IssueOps \cup RevokeOps \cup {"removeMember"},
           NEW u \in Users, NEW s \in SessionIds \cup {None},
           NEW t \in TokenIds \cup {None}, NEW o \in Orgs \cup {None},
           op \in NeedsSession => /\ s \in SessionIds /\ sessions[s].st # "free"
                                  /\ sessions[s].user = u,
           op \in NeedsToken => /\ t \in TokenIds /\ tokens[t].st # "free"
                                /\ tokens[t].session = s,
           op \in NeedsOrg => o \in Orgs, op \in UserOps => s = None,
           Begin(r, op, u, s, t, o)
    PROVE  IInv'
  <1> DEFINE q == [op |-> op, pc |-> "begun", at |-> now, user |-> u,
                   session |-> s, token |-> t, org |-> o, snap |-> {}]
  <1>1. q \in RequestType /\ q.pc # "locked"
    BY PolicyAssumption DEF RequestType, Clock, IInv, TypeOK
  <1>2. Shape(q)
    BY DEF Shape
  <1>3. /\ sessionCutoff' \in [SessionIds -> CutoffType]
        /\ userCutoff' \in [Users -> CutoffType]
        /\ memberCutoff' \in [Users \X Orgs -> CutoffType]
        /\ revokedJti' \in SUBSET AccessIds /\ lostCutoff' \in SUBSET SessionIds
    BY DEF IInv, TypeOK, cache, Begin
  <1>4. req' = [req EXCEPT ![r] = q]
        /\ UNCHANGED <<now, db, access, accessTTL>>
    BY DEF Begin
  <1> HIDE DEF q
  <1>5. QED
    BY <1>1, <1>2, <1>3, <1>4, RequestMoves

\* Every way a client starts a request.
LEMMA StartIInv ==
    ASSUME IInv, NEW r \in Requests, Start(r)
    PROVE  IInv'
  <1> USE DEF NeedsSession, NeedsToken, NeedsOrg, IssueOps, RevokeOps,
              SessionOps, UserOps, OtherOps
  <1>1. ASSUME NEW u \in Users, NEW o \in Orgs, CreateSession(r, u, o)
        PROVE  IInv'
    BY <1>1, BeginIInv DEF CreateSession
  <1>2. ASSUME NEW t \in TokenIds, Live(tokens[t])
        PROVE  /\ tokens[t].session \in SessionIds /\ tokens[t].org \in Orgs
               /\ sessions[tokens[t].session].st # "free"
               /\ sessions[tokens[t].session].user \in Users
    BY <1>2 DEF Live, IInv, Rows
  <1>3. ASSUME NEW t \in TokenIds, RefreshSession(r, t) PROVE IInv'
    <2>1. Live(tokens[t])
      BY <1>3 DEF RefreshSession
    <2>2. CASE Begin(r, "reuse", sessions[tokens[t].session].user,
                     tokens[t].session, t, None)
      BY <2>1, <2>2, <1>2, BeginIInv
    <2>3. CASE Begin(r, "refresh", sessions[tokens[t].session].user,
                     tokens[t].session, t, tokens[t].org)
      BY <2>1, <2>3, <1>2, BeginIInv DEF Live
    <2>4. QED
      BY <1>3, <2>2, <2>3 DEF RefreshSession
  <1>4. ASSUME NEW s \in SessionIds, sessions[s].st # "free"
        PROVE  sessions[s].user \in Users
    BY <1>4 DEF IInv, Rows
  <1>5. ASSUME NEW s \in SessionIds, NEW o \in Orgs, SwitchSessionOrganization(r, s, o)
        PROVE  IInv'
    BY <1>5, <1>4, BeginIInv DEF SwitchSessionOrganization, Active, Live
  <1>6. ASSUME NEW t \in TokenIds, Logout(r, t) PROVE IInv'
    BY <1>6, <1>2, BeginIInv DEF Logout, Live
  <1>7. ASSUME NEW s \in SessionIds, RevokeUserSession(r, s) PROVE IInv'
    BY <1>7, <1>4, BeginIInv DEF RevokeUserSession, Live
  <1>8. ASSUME NEW s \in SessionIds, AdminRevokeUserSession(r, s) PROVE IInv'
    BY <1>8, <1>4, BeginIInv DEF AdminRevokeUserSession
  <1>9. ASSUME NEW s \in SessionIds, BeginRequiredEmailVerification(r, s) PROVE IInv'
    BY <1>9, <1>4, BeginIInv DEF BeginRequiredEmailVerification
  <1>10. ASSUME NEW s \in SessionIds, RevokeOtherUserSessions(r, s) PROVE IInv'
    BY <1>10, <1>4, BeginIInv DEF RevokeOtherUserSessions
  <1>11. ASSUME NEW s \in SessionIds, ChangePassword(r, s) PROVE IInv'
    BY <1>11, <1>4, BeginIInv DEF ChangePassword
  <1>12. ASSUME NEW u \in Users, NEW op \in UserOps, BeginUserOp(r, op, u)
         PROVE  IInv'
    BY <1>12, BeginIInv DEF BeginUserOp
  <1>13. ASSUME NEW u \in Users, NEW o \in Orgs, RemoveOrganizationMember(r, u, o)
         PROVE  IInv'
    BY <1>13, BeginIInv DEF RemoveOrganizationMember
  <1>14. QED
    BY <1>1, <1>3, <1>5, <1>6, <1>7, <1>8, <1>9, <1>10, <1>11, <1>12, <1>13
    DEF Start, RevokeAllSessions, CompletePasswordReset, SetPassword,
        AdminRevokeAllUserSessions, RevokeAdmin, DisableUser

-----------------------------------------------------------------------------
(* Locking, checking and marking.                                          *)

\* The same request in pc "locked" keeps its type and its shape, also when it
\* takes a snapshot of rows that exist.
LEMMA LockShape ==
    ASSUME IInv, NEW r \in Requests
    PROVE  /\ [req[r] EXCEPT !.pc = "locked"] \in RequestType
           /\ Shape([req[r] EXCEPT !.pc = "locked"])
  <1>1. req[r] \in RequestType /\ Shape(req[r])
    BY DEF IInv, TypeOK, Shapes
  <1>2. QED
    BY <1>1 DEF RequestType, Shape

\* A request that took its lock and its snapshot keeps its type and its rows.
LEMMA SnapShape ==
    ASSUME IInv, NEW r \in Requests, NEW T \in SUBSET TokenIds,
           \A t \in T : tokens[t].st # "free"
    PROVE  /\ [req[r] EXCEPT !.pc = "locked", !.snap = T] \in RequestType
           /\ Shape([req[r] EXCEPT !.pc = "locked", !.snap = T])
  <1>1. req[r] \in RequestType /\ Shape(req[r])
    BY DEF IInv, TypeOK, Shapes
  <1>2. QED
    BY ZenonT(60), <1>1 DEF RequestType, Shape

\* The check of createSession, which takes the organization lock, preserves the invariant.
LEMMA CreateSessionCheckIInv ==
    ASSUME IInv, NEW r \in Requests, CreateSessionCheck(r)
    PROVE  IInv'
  <1>1. CASE Return(r)
    BY <1>1, ReturnIInv DEF CreateSessionCheck
  <1>2. CASE Lock(r) /\ MayIssue(req[r])
    <2> DEFINE q == [req[r] EXCEPT !.pc = "locked"]
    <2>1. q \in RequestType /\ Shape(q) /\ req' = [req EXCEPT ![r] = q]
      BY <1>2, LockShape DEF Lock
    <2>2. /\ q.op = "create" /\ q.user = req[r].user
          /\ LockUserForKeyShare(q.user) /\ q.user \notin disabled
      BY <1>2 DEF CreateSessionCheck, MayIssue, IInv, TypeOK, RequestType
    <2> HIDE DEF q
    <2>3. QED
      BY <2>1, <2>2, RequestMoves
      DEF CreateSessionCheck, cache, IInv, TypeOK, RevokeOps, SessionOps, UserOps, OtherOps
  <1>3. QED
    BY <1>1, <1>2 DEF CreateSessionCheck

\* RefreshSession keeps what it read only if the token, found under its lock, is usable.
LEMMA RefreshSessionCheckIInv ==
    ASSUME IInv, NEW r \in Requests, RefreshSessionCheck(r)
    PROVE  IInv'
  <1> USE DEF RefreshSessionCheck
  <1>0. /\ req[r] \in RequestType /\ Shape(req[r])
        /\ UNCHANGED <<now, db, access, accessTTL, cache, lostCutoff>>
    BY DEF IInv, TypeOK, Shapes
  <1>1. CASE Return(r)
    BY <1>1, ReturnIInv
  <1>2. CASE req' = [req EXCEPT ![r].op = "reuse"]
    <2> DEFINE q == [req[r] EXCEPT !.op = "reuse"]
    <2>1. q \in RequestType /\ q.pc = "begun" /\ req' = [req EXCEPT ![r] = q]
      BY <1>0, <1>2 DEF RequestType, RevokeOps, SessionOps
    <2>2. Shape(q)
      BY <1>0 DEF Shape, NeedsSession, NeedsToken, NeedsOrg, SessionOps, UserOps, OtherOps,
                  IssueOps, RequestType
    <2> HIDE DEF q
    <2>3. QED
      BY <1>0, <2>1, <2>2, RequestMoves DEF cache, IInv, TypeOK
  <1>3. CASE /\ Lock(r) /\ MayIssue(req[r]) /\ Live(tokens[req[r].token])
             /\ Live(sessions[req[r].session]) /\ ~sessions[req[r].session].revoked
    <2> DEFINE q == [req[r] EXCEPT !.pc = "locked"]
    <2>1. q \in RequestType /\ Shape(q) /\ req' = [req EXCEPT ![r] = q]
      BY <1>3, LockShape DEF Lock
    <2>2. /\ q.op = "refresh" /\ q.token = req[r].token
          /\ q.session = req[r].session
          /\ LockUserForKeyShare(q.user) /\ q.user \notin disabled
      BY <1>0, <1>3 DEF MayIssue, RequestType
    <2> HIDE DEF q
    <2>3. QED
      BY <1>0, <1>3, <2>1, <2>2, RequestMoves
      DEF cache, IInv, TypeOK, RevokeOps, SessionOps, UserOps, OtherOps
  <1>4. QED
    BY <1>1, <1>2, <1>3

\* SwitchSessionOrganization decides under the session lock and reads the tokens it deletes.
LEMMA SwitchSessionOrganizationCheckIInv ==
    ASSUME IInv, NEW r \in Requests, SwitchSessionOrganizationCheck(r)
    PROVE  IInv'
  <1> USE DEF SwitchSessionOrganizationCheck
  <1>0. /\ req[r] \in RequestType
        /\ UNCHANGED <<now, db, access, accessTTL, cache, lostCutoff>>
    BY DEF IInv, TypeOK
  <1>1. CASE Return(r)
    BY <1>1, ReturnIInv
  <1>2. CASE /\ Active(req[r].session, req[r].at) /\ MayIssue(req[r])
             /\ req' = [req EXCEPT ![r].pc = "locked",
                                   ![r].snap = TokensOf(req[r].session)]
    <2> DEFINE T == TokensOf(req[r].session)
               q == [req[r] EXCEPT !.pc = "locked", !.snap = T]
    <2>0. T \in SUBSET TokenIds /\ \A t \in T : tokens[t].st # "free"
      BY DEF TokensOf, Live
    <2> HIDE DEF T
    <2>1. q \in RequestType /\ Shape(q)
      BY <2>0, SnapShape
    <2>2. req' = [req EXCEPT ![r] = q]
      BY <1>0, <1>2 DEF IInv, TypeOK, T
    <2>3. /\ q.op = "switch" /\ q.session = req[r].session
          /\ LockUserForKeyShare(q.user) /\ q.user \notin disabled
      BY <1>0, <1>2 DEF MayIssue, RequestType
    <2> HIDE DEF q
    <2>4. QED
      BY ZenonT(60), <1>0, <1>2, <2>1, <2>2, <2>3, RequestMoves
      DEF cache, IInv, TypeOK, Active, RevokeOps, SessionOps, UserOps, OtherOps
  <1>3. QED
    BY <1>1, <1>2

\* The cutoffs a revocation may write lie within the clock.
LEMMA MarkerAtType ==
    ASSUME IInv, NEW r \in Requests
    PROVE  MarkerAt(req[r]) \in Clock /\ now \in Clock
  BY PolicyAssumption DEF IInv, TypeOK, RequestType, MarkerAt, Clock

\* The mark of a revocation writes the cache only, under the locks it has just taken.
LEMMA RevokeMarkIInv ==
    ASSUME IInv, NEW r \in Requests, RevokeMark(r)
    PROVE  IInv'
  <1> USE DEF RevokeMark
  <1> DEFINE q == [req[r] EXCEPT !.pc = "locked"]
  <1>1. /\ req[r] \in RequestType /\ Shape(req[r]) /\ TypeOK
        /\ UNCHANGED <<now, db, access, accessTTL, memberCutoff, revokedJti>>
    BY DEF IInv, TypeOK, Shapes
  <1>2. q \in RequestType /\ Shape(q) /\ req' = [req EXCEPT ![r] = q]
    BY LockShape DEF Lock
  <1>3. q.op \in RevokeOps /\ LockUserForUpdate(q.user) /\ q.op \notin IssueOps
    BY <1>1 DEF RequestType, RevokeOps, SessionOps, UserOps, OtherOps, IssueOps
  <1>4. userCutoff' \in [Users -> CutoffType]
    <2>1. \A u \in Users : SetMax(userCutoff[u], MarkerAt(req[r])) \in CutoffType
      BY <1>1, MarkerAtType, SetMaxType DEF TypeOK
    <2>2. CASE userCutoff' = [userCutoff EXCEPT ![req[r].user] =
                                                  SetMax(@, MarkerAt(req[r]))]
      BY <1>1, <2>1, <2>2 DEF TypeOK
    <2>3. QED
      BY <1>1, <2>2 DEF TypeOK
  <1>5. sessionCutoff' \in [SessionIds -> CutoffType]
    BY <1>1, MarkerAtType, MarkSessionsType DEF TypeOK
  <1>6. /\ memberCutoff' \in [Users \X Orgs -> CutoffType]
        /\ revokedJti' \in SUBSET AccessIds /\ lostCutoff' \in SUBSET SessionIds
    BY <1>1 DEF TypeOK
  <1> HIDE DEF q
  <1>7. QED
    BY <1>1, <1>2, <1>3, <1>4, <1>5, <1>6, RequestMoves

\* A cutoff that cannot be written: rolled back, or for reuse accepted.
LEMMA RevokeMarkFailsIInv ==
    ASSUME IInv, NEW r \in Requests, RevokeMarkFails(r)
    PROVE  IInv'
  <1> USE DEF RevokeMarkFails
  <1>1. /\ req[r] \in RequestType /\ Shape(req[r]) /\ TypeOK
        /\ UNCHANGED <<now, db, access, accessTTL, userCutoff, memberCutoff, revokedJti>>
    BY DEF IInv, TypeOK, Shapes
  <1>2. sessionCutoff' \in [SessionIds -> CutoffType]
    BY <1>1, MarkerAtType, MarkSessionsType DEF TypeOK
  <1>3. lostCutoff' \in SUBSET SessionIds
    BY <1>1 DEF TypeOK, Shape, NeedsSession, SessionOps
  <1>4. CASE Return(r)
    <2>1. Idle \in RequestType /\ Idle.pc # "locked"
      BY PolicyAssumption DEF Idle, RequestType, Clock
    <2>2. Shape(Idle)
      BY DEF Idle, Shape, NeedsSession, NeedsToken, NeedsOrg, IssueOps,
             SessionOps, UserOps, OtherOps
    <2>3. QED
      BY <1>1, <1>2, <1>3, <1>4, <2>1, <2>2, RequestMoves DEF Return, TypeOK
  <1>5. CASE Lock(r) /\ req[r].op = "reuse"
    <2> DEFINE q == [req[r] EXCEPT !.pc = "locked"]
    <2>1. q \in RequestType /\ Shape(q) /\ req' = [req EXCEPT ![r] = q]
      BY <1>5, LockShape DEF Lock
    <2>2. q.op = "reuse" /\ LockUserForUpdate(q.user)
      BY <1>1, <1>5 DEF RequestType
    <2> HIDE DEF q
    <2>3. QED
      BY <1>1, <1>2, <1>3, <2>1, <2>2, RequestMoves DEF TypeOK, IssueOps
  <1>6. QED
    BY <1>4, <1>5

\* The mark of a removal writes the cache only, under the locks of organization and user.
LEMMA RemoveOrganizationMemberMarkIInv ==
    ASSUME IInv, NEW r \in Requests, RemoveOrganizationMemberMark(r)
    PROVE  IInv'
  <1> USE DEF RemoveOrganizationMemberMark
  <1>1. /\ req[r] \in RequestType /\ TypeOK
        /\ UNCHANGED <<now, db, access, accessTTL, sessionCutoff, userCutoff,
                       revokedJti, lostCutoff>>
    BY DEF IInv, TypeOK
  <1>2. CASE Return(r) /\ UNCHANGED memberCutoff
    BY <1>1, <1>2, ReturnIInv DEF cache
  <1>3. CASE /\ Lock(r)
             /\ memberCutoff' = [memberCutoff EXCEPT
                                   ![<<req[r].user, req[r].org>>] = SetMax(@, now)]
    <2> DEFINE q == [req[r] EXCEPT !.pc = "locked"]
    <2>1. q \in RequestType /\ Shape(q) /\ req' = [req EXCEPT ![r] = q]
      BY <1>3, LockShape DEF Lock
    <2>2. q.op = "removeMember"
      BY <1>1 DEF RequestType
    <2>3. \A m \in Users \X Orgs : SetMax(memberCutoff[m], now) \in CutoffType
      BY <1>1, MarkerAtType, SetMaxType DEF TypeOK
    <2>4. memberCutoff' \in [Users \X Orgs -> CutoffType]
      BY <1>1, <1>3, <2>3 DEF TypeOK
    <2> HIDE DEF q
    <2>5. QED
      BY <1>1, <2>1, <2>2, <2>4, RequestMoves
      DEF TypeOK, IssueOps, RevokeOps, SessionOps, UserOps, OtherOps
  <1>4. QED
    BY <1>2, <1>3

-----------------------------------------------------------------------------
(* Steps that write the database.                                          *)

\* No row becomes free again and none changes its owner.
RowsStay ==
    /\ \A s \in SessionIds : sessions[s].st # "free" =>
          sessions'[s].st # "free" /\ sessions'[s].user = sessions[s].user
    /\ \A t \in TokenIds : tokens[t].st # "free" =>
          tokens'[t].st # "free" /\ tokens'[t].session = tokens[t].session

\* What the checks of request x established still holds after the step.
ChecksStay(x) ==
    /\ req[x].user \notin disabled'
    /\ req[x].op # "create" => /\ Live(sessions'[req[x].session])
                               /\ ~sessions'[req[x].session].revoked
    /\ req[x].op = "refresh" => Live(tokens'[req[x].token])

\* A write is safe for the requests in flight when it keeps the rows they
\* refer to and what they have checked; the writer itself, if any, returns.
LEMMA WriteIInv ==
    ASSUME IInv,
           now' \in 1 .. MaxTime, accessTTL' \in 1 .. MaxAccessTTL,
           sessions' \in [SessionIds -> SessionType],
           tokens' \in [TokenIds -> TokenType],
           disabled' \in SUBSET Users, members' \in SUBSET (Users \X Orgs),
           access' \in [AccessIds -> AccessType],
           revokedJti' \in SUBSET AccessIds,
           UNCHANGED <<sessionCutoff, userCutoff, memberCutoff, lostCutoff>>,
           req' = req \/ \E r \in Requests : Return(r),
           Rows', RowsStay, DisabledRevoked',
           \A x \in Requests :
              Locked(x) /\ req[x].op \in IssueOps /\ req'[x] = req[x] => ChecksStay(x)
    PROVE  IInv'
  <1>1. /\ req' \in [Requests -> RequestType]
        /\ \A x \in Requests : req'[x] = req[x] \/ req'[x] = Idle
    <2>1. Idle \in RequestType
      BY PolicyAssumption DEF Idle, RequestType, Clock
    <2>2. QED
      BY <2>1 DEF IInv, TypeOK, Return
  <1>2. TypeOK'
    BY <1>1 DEF IInv, TypeOK
  <1>3. Shapes'
    <2> SUFFICES ASSUME NEW x \in Requests PROVE Shape(req[x])'
      BY DEF Shapes
    <2>1. CASE req'[x] = Idle
      BY <2>1 DEF Idle, Shape, NeedsSession, NeedsToken, NeedsOrg, IssueOps,
                  SessionOps, UserOps, OtherOps
    <2>2. CASE req'[x] = req[x]
      <3>1. Shape(req[x]) /\ req[x].snap \in SUBSET TokenIds
        BY DEF IInv, Shapes, TypeOK, RequestType
      <3>2. QED
        BY <2>2, <3>1 DEF Shape, RowsStay
    <2>3. QED
      BY <1>1, <2>1, <2>2
  <1>4. UserLocks'
    BY <1>1 DEF IInv, UserLocks, HoldsUpdate, HoldsKeyShare, Locked, Idle
  <1>5. ChecksHold'
    BY <1>1 DEF ChecksHold, ChecksStay, Locked, Idle
  <1>6. QED
    BY <1>2, <1>3, <1>4, <1>5 DEF IInv

\* The access token a commit adds.
LEMMA GenerateFacts ==
    ASSUME TypeOK, NEW s \in SessionIds, NEW o \in Orgs, NEW at \in Clock,
           Generate(s, o, at)
    PROVE  /\ access' \in [AccessIds -> AccessType]
           /\ \A a \in AccessIds :
                 \/ access'[a] = access[a]
                 \/ /\ access[a].st = "free" /\ access'[a].st = "issued"
                    /\ access'[a].session = s /\ access'[a].org = o
  <1> DEFINE n == NextFree(access)
             row == [st |-> "issued", session |-> s, org |-> o,
                     iat |-> at, exp |-> at + accessTTL]
  <1>1. access \in [AccessIds -> AccessType] /\ accessTTL \in 1 .. MaxAccessTTL
    BY DEF TypeOK
  <1>2. n \in AccessIds /\ access[n].st = "free"
    BY <1>1, NextFreeIsFree DEF Generate
  <1>3. access' = [access EXCEPT ![n] = row]
    BY DEF Generate
  <1>4. row \in AccessType
    BY <1>1, PolicyAssumption DEF AccessType, Clock, Expiry
  <1>5. row.st = "issued" /\ row.session = s /\ row.org = o
    OBVIOUS
  <1> HIDE DEF n, row
  <1>6. QED
    BY <1>1, <1>2, <1>3, <1>4, <1>5

\* A new refresh token that expires no later than a session may.
LEMMA NewTokenType ==
    ASSUME NEW s \in SessionIds, NEW o \in Orgs, NEW at \in Clock,
           NEW e \in Expiry(SessionTTL), NEW p \in TokenIds \cup {None}
    PROVE  /\ NewToken(s, o, at, e, p) \in TokenType
           /\ NewToken(s, o, at, e, p).st = "live"
           /\ NewToken(s, o, at, e, p).session = s
           /\ NewToken(s, o, at, e, p).org = o
  BY DEF NewToken, TokenType

\* The expiry of a refresh token is within the session lifetime.
LEMMA ExpiryType ==
    ASSUME NEW at \in Clock
    PROVE  /\ at + SessionTTL \in Expiry(SessionTTL)
           /\ at + RefreshTTL \in Expiry(SessionTTL)
           /\ \A e \in Expiry(SessionTTL) :
                 Earlier(at + RefreshTTL, e) \in Expiry(SessionTTL)
  BY PolicyAssumption DEF Clock, Expiry, Earlier

\* Deleting and revoking change nothing but st and revoked.
LEMMA DeleteTokensFacts ==
    ASSUME TypeOK, NEW T
    PROVE  /\ DeleteTokens(T) \in [TokenIds -> TokenType]
           /\ \A t \in TokenIds :
                 /\ t \notin T => DeleteTokens(T)[t] = tokens[t]
                 /\ t \in T => DeleteTokens(T)[t].st = "deleted"
                 /\ DeleteTokens(T)[t].session = tokens[t].session
                 /\ DeleteTokens(T)[t].org = tokens[t].org
  <1>1. ASSUME NEW t \in TokenIds
        PROVE  /\ [tokens[t] EXCEPT !.st = "deleted"] \in TokenType
               /\ [tokens[t] EXCEPT !.st = "deleted"].st = "deleted"
               /\ [tokens[t] EXCEPT !.st = "deleted"].session = tokens[t].session
               /\ [tokens[t] EXCEPT !.st = "deleted"].org = tokens[t].org
    BY DEF TypeOK, TokenType
  <1>2. QED
    BY <1>1 DEF DeleteTokens, TypeOK

\* DeleteSessions deletes the rows of its set and leaves every other row alone.
LEMMA DeleteSessionsFacts ==
    ASSUME TypeOK, NEW S
    PROVE  /\ DeleteSessions(S) \in [SessionIds -> SessionType]
           /\ \A s \in SessionIds :
                 /\ s \notin S => DeleteSessions(S)[s] = sessions[s]
                 /\ s \in S => DeleteSessions(S)[s].st = "deleted"
                 /\ DeleteSessions(S)[s].user = sessions[s].user
                 /\ DeleteSessions(S)[s].org = sessions[s].org
                 /\ DeleteSessions(S)[s].revoked = sessions[s].revoked
  <1>1. ASSUME NEW s \in SessionIds
        PROVE  LET x == [sessions[s] EXCEPT !.st = "deleted"]
               IN  /\ x \in SessionType /\ x.st = "deleted"
                   /\ x.user = sessions[s].user /\ x.org = sessions[s].org
                   /\ x.revoked = sessions[s].revoked
    BY DEF TypeOK, SessionType
  <1>2. QED
    BY <1>1 DEF DeleteSessions, TypeOK

\* RevokeSessions sets revoked_at of the rows of its set and changes nothing else.
LEMMA RevokeSessionsFacts ==
    ASSUME TypeOK, NEW S
    PROVE  /\ RevokeSessions(S) \in [SessionIds -> SessionType]
           /\ \A s \in SessionIds :
                 /\ s \notin S => RevokeSessions(S)[s] = sessions[s]
                 /\ s \in S => RevokeSessions(S)[s].revoked
                 /\ RevokeSessions(S)[s].st = sessions[s].st
                 /\ RevokeSessions(S)[s].user = sessions[s].user
                 /\ RevokeSessions(S)[s].org = sessions[s].org
                 /\ sessions[s].revoked => RevokeSessions(S)[s].revoked
  <1>1. ASSUME NEW s \in SessionIds
        PROVE  LET x == [sessions[s] EXCEPT !.revoked = TRUE]
               IN  /\ x \in SessionType /\ x.revoked
                   /\ x.user = sessions[s].user /\ x.org = sessions[s].org
                   /\ x.st = sessions[s].st
    BY DEF TypeOK, SessionType
  <1>2. QED
    BY <1>1 DEF RevokeSessions, TypeOK

\* createSession commits: rows in identifiers nobody refers to yet, for a user
\* the key-share lock has kept enabled since the check.
LEMMA CreateSessionCommitIInv ==
    ASSUME IInv, NEW r \in Requests, CreateSessionCommit(r)
    PROVE  IInv'
  <1> DEFINE q == req[r]
             s == NextFree(sessions)
             n == NextFree(tokens)
             row == [st |-> "live", user |-> q.user, org |-> q.org,
                     expires |-> q.at + SessionTTL, revoked |-> FALSE]
             tok == NewToken(s, q.org, q.at, q.at + RefreshTTL, None)
  <1>1. /\ sessions' = [sessions EXCEPT ![s] = row]
        /\ tokens' = [tokens EXCEPT ![n] = tok]
        /\ Generate(s, q.org, q.at) /\ Return(r)
        /\ UNCHANGED <<now, disabled, members, accessTTL, cache, lostCutoff>>
        /\ q.op = "create" /\ Locked(r)
    BY DEF CreateSessionCommit, Locked
  <1>2. /\ TypeOK /\ q.user \in Users /\ q.org \in Orgs /\ q.at \in Clock
        /\ q.user \notin disabled
    BY <1>1 DEF IInv, TypeOK, Shapes, Shape, NeedsOrg, IssueOps, RequestType, ChecksHold
  <1>3. /\ s \in SessionIds /\ sessions[s].st = "free"
        /\ n \in TokenIds /\ tokens[n].st = "free"
    BY NextFreeIsFree DEF CreateSessionCommit, IInv, TypeOK
  <1>4. row \in SessionType /\ row.st = "live" /\ row.user = q.user
        /\ row.org = q.org
    BY <1>2, ExpiryType DEF SessionType
  <1>5. tok \in TokenType /\ tok.st = "live" /\ tok.session = s /\ tok.org = q.org
    BY <1>2, <1>3, ExpiryType, NewTokenType
  <1>6. /\ access' \in [AccessIds -> AccessType]
        /\ \A a \in AccessIds :
              \/ access'[a] = access[a]
              \/ /\ access'[a].st = "issued"
                 /\ access'[a].session = s /\ access'[a].org = q.org
    BY <1>1, <1>2, <1>3, GenerateFacts
  <1> HIDE DEF s, n, row, tok
  <1>7. /\ sessions' \in [SessionIds -> SessionType] /\ sessions'[s] = row
        /\ \A x \in SessionIds : x # s => sessions'[x] = sessions[x]
        /\ tokens' \in [TokenIds -> TokenType] /\ tokens'[n] = tok
        /\ \A t \in TokenIds : t # n => tokens'[t] = tokens[t]
    BY <1>1, <1>2, <1>4, <1>5 , <1>3 DEF TypeOK
  <1>8. Rows'
    BY <1>2, <1>3, <1>4, <1>5, <1>6, <1>7 DEF IInv, Rows
  <1>9. RowsStay
    BY <1>3, <1>7 DEF RowsStay
  <1>10. DisabledRevoked'
    BY <1>1, <1>2, <1>4, <1>7 DEF IInv, DisabledRevoked, SessionsOf
  <1>11. ASSUME NEW x \in Requests, Locked(x), req[x].op \in IssueOps
         PROVE  ChecksStay(x)
    <2>1. /\ req[x].op # "create" => req[x].session \in SessionIds \ {s}
          /\ req[x].op = "refresh" => req[x].token \in TokenIds \ {n}
      BY <1>3, <1>11 DEF IInv, Shapes, Shape, NeedsSession, NeedsToken, IssueOps
    <2>2. QED
      BY <1>1, <1>7, <1>11, <2>1 DEF IInv, ChecksHold, ChecksStay
  <1>12. QED
    BY <1>1, <1>2, <1>6, <1>7, <1>8, <1>9, <1>10, <1>11, WriteIInv
    DEF TypeOK, cache

\* Consuming a refresh token changes nothing else of it.
LEMMA ConsumeFacts ==
    ASSUME NEW rt \in TokenType
    PROVE  LET c == [rt EXCEPT !.consumed = TRUE]
           IN  /\ c \in TokenType /\ c.st = rt.st
               /\ c.session = rt.session /\ c.org = rt.org
  BY DEF TokenType

\* RefreshSession commits: a token consumed and its successor, no session row.
LEMMA RefreshSessionCommitIInv ==
    ASSUME IInv, NEW r \in Requests, RefreshSessionCommit(r)
    PROVE  IInv'
  <1> DEFINE q == req[r]
             n == NextFree(tokens)
             e == Earlier(q.at + RefreshTTL, sessions[q.session].expires)
             tok == NewToken(q.session, q.org, q.at, e, q.token)
  <1>1. /\ Free(tokens) # {}
        /\ \/ tokens' = [tokens EXCEPT ![q.token].consumed = TRUE, ![n] = tok]
           \/ tokens' = tokens
        /\ Generate(q.session, q.org, q.at) /\ Return(r)
        /\ UNCHANGED <<now, sessions, disabled, members, accessTTL, cache, lostCutoff>>
        /\ q.op = "refresh"
    BY DEF RefreshSessionCommit
  <1>2. /\ TypeOK /\ q.org \in Orgs /\ q.at \in Clock
        /\ q.session \in SessionIds /\ sessions[q.session].st # "free"
        /\ q.token \in TokenIds /\ tokens[q.token].st # "free"
    BY <1>1 DEF IInv, TypeOK, Shapes, Shape, NeedsSession, NeedsToken, NeedsOrg,
                IssueOps, RequestType
  <1>3. n \in TokenIds /\ tokens[n].st = "free"
    BY <1>1, NextFreeIsFree DEF IInv, TypeOK
  <1>4. e \in Expiry(SessionTTL)
    <2>1. sessions[q.session].expires \in Expiry(SessionTTL)
      BY <1>2 DEF TypeOK, SessionType
    <2>2. QED
      BY <1>2, <2>1, ExpiryType
  <1> HIDE DEF e
  <1>5. tok \in TokenType /\ tok.st = "live" /\ tok.session = q.session
        /\ tok.org = q.org
    BY <1>2, <1>4, NewTokenType
  <1>6. /\ access' \in [AccessIds -> AccessType]
        /\ \A a \in AccessIds :
              \/ access'[a] = access[a]
              \/ /\ access'[a].st = "issued"
                 /\ access'[a].session = q.session /\ access'[a].org = q.org
    BY <1>1, <1>2, GenerateFacts
  <1> HIDE DEF n, tok
  <1>7. LET c == [tokens[q.token] EXCEPT !.consumed = TRUE]
        IN  /\ c \in TokenType /\ c.st = tokens[q.token].st
            /\ c.session = tokens[q.token].session /\ c.org = tokens[q.token].org
    BY <1>2, ConsumeFacts DEF TypeOK
  <1>8. /\ tokens' \in [TokenIds -> TokenType]
        /\ \A t \in TokenIds :
              \/ /\ tokens'[t].st = tokens[t].st
                 /\ tokens'[t].session = tokens[t].session
                 /\ tokens'[t].org = tokens[t].org
              \/ /\ tokens[t].st = "free" /\ tokens'[t].st = "live"
                 /\ tokens'[t].session = q.session /\ tokens'[t].org = q.org
    BY <1>1, <1>2, <1>3, <1>5, <1>7 DEF TypeOK
  <1>9. Rows' /\ RowsStay
    <2> USE <1>1, <1>2
    <2>1. \A t \in TokenIds : tokens'[t].st # "free" =>
             /\ tokens'[t].session \in SessionIds /\ tokens'[t].org \in Orgs
             /\ sessions'[tokens'[t].session].st # "free"
      BY <1>8 DEF IInv, Rows
    <2>2. \A a \in AccessIds : access'[a].st = "issued" =>
             /\ access'[a].session \in SessionIds /\ access'[a].org \in Orgs
             /\ sessions'[access'[a].session].st # "free"
      BY <1>6 DEF IInv, Rows
    <2>3. RowsStay
      BY <1>8 DEF RowsStay
    <2>4. QED
      BY <2>1, <2>2, <2>3 DEF IInv, Rows
  <1>10. DisabledRevoked'
    BY <1>1 DEF IInv, DisabledRevoked, SessionsOf
  <1>11. ASSUME NEW x \in Requests, Locked(x), req[x].op \in IssueOps
         PROVE  ChecksStay(x)
    <2>1. req[x].op = "refresh" => /\ req[x].token \in TokenIds
                                   /\ tokens[req[x].token].st # "free"
      BY DEF IInv, Shapes, Shape, NeedsToken
    <2>2. QED
      BY <1>1, <1>8, <1>11, <2>1 DEF IInv, ChecksHold, ChecksStay, Live
  <1>12. QED
    BY <1>1, <1>2, <1>6, <1>8, <1>9, <1>10, <1>11, WriteIInv
    DEF TypeOK, cache

\* Switching changes nothing of the session row but its organization.
LEMMA SwitchFacts ==
    ASSUME NEW s \in SessionType, NEW o \in Orgs
    PROVE  LET x == [s EXCEPT !.org = o]
           IN  /\ x \in SessionType /\ x.st = s.st /\ x.user = s.user
               /\ x.org = o /\ x.revoked = s.revoked
  BY DEF SessionType

\* SwitchSessionOrganization commits: it deletes only tokens nobody has locked.
LEMMA SwitchSessionOrganizationCommitIInv ==
    ASSUME IInv, NEW r \in Requests, SwitchSessionOrganizationCommit(r)
    PROVE  IInv'
  <1> DEFINE q == req[r]
             n == NextFree(tokens)
             e == Earlier(q.at + RefreshTTL, sessions[q.session].expires)
             tok == NewToken(q.session, q.org, q.at, e, None)
             row == [sessions[q.session] EXCEPT !.org = q.org]
  <1>1. /\ Free(tokens) # {}
        /\ \A t \in q.snap : LockToken(t)
        /\ sessions' = [sessions EXCEPT ![q.session].org = q.org]
        /\ tokens' = [DeleteTokens(q.snap) EXCEPT ![n] = tok]
        /\ Generate(q.session, q.org, q.at) /\ Return(r)
        /\ UNCHANGED <<now, disabled, members, accessTTL, cache, lostCutoff>>
        /\ q.op = "switch"
    BY DEF SwitchSessionOrganizationCommit
  <1>2. /\ TypeOK /\ q.org \in Orgs /\ q.at \in Clock
        /\ q.session \in SessionIds /\ sessions[q.session].st # "free"
    BY <1>1 DEF IInv, TypeOK, Shapes, Shape, NeedsSession, NeedsOrg,
                IssueOps, RequestType
  <1>3. n \in TokenIds /\ tokens[n].st = "free"
    BY <1>1, <1>2, NextFreeIsFree DEF TypeOK
  <1>4. e \in Expiry(SessionTTL)
    <2>1. sessions[q.session].expires \in Expiry(SessionTTL)
      BY <1>2 DEF TypeOK, SessionType
    <2>2. QED
      BY <1>2, <2>1, ExpiryType
  <1> HIDE DEF e
  <1>5. tok \in TokenType /\ tok.st = "live" /\ tok.session = q.session
        /\ tok.org = q.org
    BY <1>2, <1>4, NewTokenType
  <1>6. /\ access' \in [AccessIds -> AccessType]
        /\ \A a \in AccessIds :
              \/ access'[a] = access[a]
              \/ /\ access'[a].st = "issued"
                 /\ access'[a].session = q.session /\ access'[a].org = q.org
    BY <1>1, <1>2, GenerateFacts
  <1>7. /\ row \in SessionType /\ row.st = sessions[q.session].st
        /\ row.user = sessions[q.session].user /\ row.org = q.org
        /\ row.revoked = sessions[q.session].revoked
    BY <1>2, SwitchFacts DEF TypeOK
  <1> HIDE DEF n, tok, row
  <1>8. /\ sessions' \in [SessionIds -> SessionType]
        /\ \A s \in SessionIds :
              /\ sessions'[s].st = sessions[s].st
              /\ sessions'[s].user = sessions[s].user
              /\ sessions'[s].revoked = sessions[s].revoked
              /\ sessions'[s].org = sessions[s].org \/ sessions'[s].org \in Orgs
    <2>1. sessions' = [sessions EXCEPT ![q.session] = row]
      BY <1>1, <1>2 DEF TypeOK, row
    <2>2. QED
      BY <1>2, <1>7, <2>1 DEF TypeOK
  <1>9. /\ tokens' \in [TokenIds -> TokenType]
        /\ \A t \in TokenIds :
              \/ t \notin q.snap /\ tokens'[t] = tokens[t]
              \/ /\ t \in q.snap /\ tokens'[t].st = "deleted"
                 /\ tokens'[t].session = tokens[t].session
                 /\ tokens'[t].org = tokens[t].org
              \/ /\ t = n /\ tokens'[t].st = "live"
                 /\ tokens'[t].session = q.session /\ tokens'[t].org = q.org
    <2> DEFINE D == DeleteTokens(q.snap)
    <2>1. /\ D \in [TokenIds -> TokenType]
          /\ \A t \in TokenIds :
                /\ t \notin q.snap => D[t] = tokens[t]
                /\ t \in q.snap => D[t].st = "deleted"
                /\ D[t].session = tokens[t].session
                /\ D[t].org = tokens[t].org
      BY <1>2, DeleteTokensFacts
    <2>2. tokens' = [D EXCEPT ![n] = tok]
      BY <1>1
    <2> HIDE DEF D
    <2>3. QED
      BY <1>3, <1>5, <2>1, <2>2
  <1>10. ASSUME NEW t \in TokenIds, t \in q.snap PROVE tokens[t].st # "free"
    BY <1>10 DEF IInv, Shapes, Shape
  <1>11. Rows'
    <2>1. \A s \in SessionIds : sessions'[s].st # "free" =>
             sessions'[s].user \in Users /\ sessions'[s].org \in Orgs
      BY <1>8 DEF IInv, Rows
    <2>2. \A t \in TokenIds : tokens'[t].st # "free" =>
             /\ tokens'[t].session \in SessionIds /\ tokens'[t].org \in Orgs
             /\ sessions'[tokens'[t].session].st # "free"
      BY <1>2, <1>8, <1>9, <1>10 DEF IInv, Rows
    <2>3. \A a \in AccessIds : access'[a].st = "issued" =>
             /\ access'[a].session \in SessionIds /\ access'[a].org \in Orgs
             /\ sessions'[access'[a].session].st # "free"
      BY <1>2, <1>6, <1>8 DEF IInv, Rows
    <2>4. \A s \in SessionIds : sessions'[s].st = "free" => ~sessions'[s].revoked
      BY <1>8 DEF IInv, Rows
    <2>5. QED
      BY <2>1, <2>2, <2>3, <2>4 DEF Rows
  <1>12. RowsStay
    BY <1>3, <1>8, <1>9 DEF RowsStay
  <1>13. DisabledRevoked'
    BY <1>1, <1>8 DEF IInv, DisabledRevoked, SessionsOf, Live
  <1>14. ASSUME NEW x \in Requests, Locked(x), req[x].op \in IssueOps
         PROVE  ChecksStay(x)
    <2>1. /\ req[x].op # "create" => req[x].session \in SessionIds
          /\ req[x].op = "refresh" => /\ req[x].token \in TokenIds \ {n}
                                      /\ req[x].token \notin q.snap
      BY <1>1, <1>3, <1>14 DEF IInv, Shapes, Shape, NeedsSession, NeedsToken,
                               IssueOps, LockToken, HoldsToken
    <2>2. /\ req[x].user \notin disabled
          /\ req[x].op # "create" => /\ Live(sessions[req[x].session])
                                     /\ ~sessions[req[x].session].revoked
          /\ req[x].op = "refresh" => Live(tokens[req[x].token])
      BY <1>14 DEF IInv, ChecksHold
    <2>3. req[x].op # "create" => /\ Live(sessions'[req[x].session])
                                  /\ ~sessions'[req[x].session].revoked
      BY <1>8, <2>1, <2>2 DEF Live
    <2>4. ASSUME req[x].op = "refresh" PROVE Live(tokens'[req[x].token])
      <3>1. tokens'[req[x].token] = tokens[req[x].token]
        BY <1>9, <2>1, <2>4
      <3>2. QED
        BY <2>2, <2>4, <3>1
    <2>5. disabled' = disabled
      BY <1>1
    <2>6. QED
      BY <2>2, <2>3, <2>4, <2>5 DEF ChecksStay
  <1>15. QED
    BY <1>1, <1>2, <1>6, <1>8, <1>9, <1>11, <1>12, <1>13, <1>14, WriteIInv
    DEF TypeOK, cache

\* Whatever a revocation revokes belongs to the user it has locked.
LEMMA RevokedOwner ==
    ASSUME IInv, NEW r \in Requests, req[r].op \in RevokeOps
    PROVE  \A s \in SessionIds : s \in Revoked(req[r]) => sessions[s].user = req[r].user
  <1>1. req[r].op \in SessionOps => sessions[req[r].session].user = req[r].user
    BY DEF IInv, Shapes, Shape, NeedsSession
  <1>2. QED
    BY <1>1 DEF Revoked, SessionsOf, RevokeOps, SessionOps, UserOps, OtherOps

\* A revocation commits: FOR UPDATE keeps every request that could issue for
\* that user out, and `disable' revokes every session the user has.
LEMMA RevokeCommitIInv ==
    ASSUME IInv, NEW r \in Requests, RevokeCommit(r)
    PROVE  IInv'
  <1> DEFINE q == req[r]
             S == {s \in Revoked(q) : Live(sessions[s])}
             T == UNION {TokensOf(s) : s \in Revoked(q)}
  <1>1. /\ q.op \in RevokeOps /\ Locked(r) /\ Return(r)
        /\ UNCHANGED <<now, members, access, accessTTL, cache, lostCutoff>>
        /\ \/ UNCHANGED <<sessions, tokens, disabled>>
           \/ /\ sessions' = RevokeSessions(S)
              /\ tokens' = DeleteTokens(T) \/ tokens' = tokens
              /\ disabled' = IF q.op = "disable" THEN disabled \cup {q.user}
                                                 ELSE disabled
    BY DEF RevokeCommit, Locked, db
  <1>2. TypeOK /\ q.user \in Users /\ q.op \notin IssueOps
    BY <1>1 DEF IInv, TypeOK, Shapes, Shape, RevokeOps, SessionOps, UserOps,
                OtherOps, IssueOps
  <1>3. ASSUME NEW x \in Requests, Locked(x), req[x].op \in IssueOps
        PROVE  req[x].user # q.user
    BY <1>1, <1>2, <1>3 DEF IInv, UserLocks, HoldsUpdate, HoldsKeyShare
  <1>4. \A s \in SessionIds : s \in Revoked(q) => sessions[s].user = q.user
    BY <1>1, RevokedOwner
  <1>5. CASE UNCHANGED <<sessions, tokens, disabled>>
    BY <1>1, <1>5, ReturnIInv DEF db
  <1>6. CASE /\ sessions' = RevokeSessions(S)
             /\ tokens' = DeleteTokens(T) \/ tokens' = tokens
             /\ disabled' = IF q.op = "disable" THEN disabled \cup {q.user}
                                                ELSE disabled
    <2>1. /\ sessions' \in [SessionIds -> SessionType]
          /\ \A s \in SessionIds :
                /\ s \notin S => sessions'[s] = sessions[s]
                /\ s \in S => sessions'[s].revoked
                /\ sessions'[s].st = sessions[s].st
                /\ sessions'[s].user = sessions[s].user
                /\ sessions'[s].org = sessions[s].org
                /\ sessions[s].revoked => sessions'[s].revoked
      BY <1>2, <1>6, RevokeSessionsFacts
    <2>2. ASSUME NEW t \in TokenIds, t \in T
          PROVE  /\ tokens[t].st = "live" /\ tokens[t].session \in SessionIds
                 /\ sessions[tokens[t].session].user = q.user
      <3>1. PICK s \in Revoked(q) : t \in TokensOf(s)
        BY <2>2
      <3>2. tokens[t].st = "live" /\ tokens[t].session = s /\ s \in SessionIds
        BY <3>1 DEF TokensOf, Live, IInv, Rows
      <3>3. QED
        BY <3>1, <3>2, <1>4
    <2>3. /\ tokens' \in [TokenIds -> TokenType]
          /\ \A t \in TokenIds :
                /\ t \notin T => tokens'[t] = tokens[t]
                /\ tokens'[t].st # "free" <=> tokens[t].st # "free"
                /\ tokens'[t].session = tokens[t].session
                /\ tokens'[t].org = tokens[t].org
      <3>1. CASE tokens' = tokens
        BY <1>2, <3>1 DEF TypeOK
      <3>2. CASE tokens' = DeleteTokens(T)
        <4>1. /\ tokens' \in [TokenIds -> TokenType]
              /\ \A t \in TokenIds :
                    /\ t \notin T => tokens'[t] = tokens[t]
                    /\ t \in T => tokens'[t].st = "deleted"
                    /\ tokens'[t].session = tokens[t].session
                    /\ tokens'[t].org = tokens[t].org
          BY <1>2, <3>2, DeleteTokensFacts
        <4> HIDE DEF T
        <4>2. QED
          BY <4>1, <2>2
      <3>3. QED
        BY <1>6, <3>1, <3>2
    <2>4. q.op = "disable" => SessionsOf(q.user) \subseteq S
      BY DEF Revoked, SessionsOf, SessionOps, UserOps
    <2>5. S \subseteq Revoked(q) /\ \A s \in S : sessions[s].st = "live"
      BY DEF Live
    <2> HIDE DEF S, T
    <2>6. Rows' /\ RowsStay
      BY <1>1, <2>1, <2>3, <2>5 DEF IInv, Rows, RowsStay
    <2>7. DisabledRevoked'
      BY <1>6, <2>1, <2>4 DEF IInv, DisabledRevoked, SessionsOf, Live
    <2>8. ASSUME NEW x \in Requests, Locked(x), req[x].op \in IssueOps
          PROVE  ChecksStay(x)
      <3>1. req[x].user # q.user
        BY <1>3, <2>8
      <3>2. /\ req[x].op # "create" =>
                 /\ req[x].session \in SessionIds
                 /\ sessions[req[x].session].user = req[x].user
            /\ req[x].op = "refresh" =>
                 /\ req[x].token \in TokenIds
                 /\ tokens[req[x].token].session = req[x].session
        BY <2>8 DEF IInv, Shapes, Shape, NeedsSession, NeedsToken, IssueOps
      <3>3. /\ req[x].op # "create" => req[x].session \notin S
            /\ req[x].op = "refresh" => req[x].token \notin T
        BY <1>4, <2>2, <2>5, <3>1, <3>2
      <3>4. req[x].user \notin disabled'
        BY <1>6, <2>8, <3>1 DEF IInv, ChecksHold
      <3>5. QED
        BY <2>1, <2>3, <2>8, <3>2, <3>3, <3>4 DEF IInv, ChecksHold, ChecksStay
    <2>9. disabled' \in SUBSET Users
      BY <1>2, <1>6 DEF TypeOK
    <2>10. QED
      BY <1>1, <1>2, <2>1, <2>3, <2>6, <2>7, <2>8, <2>9, WriteIInv
      DEF TypeOK, cache
  <1>7. QED
    BY <1>1, <1>5, <1>6

\* Deleting sessions with their tokens: only what no request in flight has
\* locked, so what they have checked stays true.
LEMMA DeletionFacts ==
    ASSUME IInv, NEW S \in SUBSET SessionIds, NEW T,
           \A s \in S : Live(sessions[s]) /\ Deletable(s),
           \A t \in TokenIds : t \in T <=> \E s \in S : t \in TokensOf(s),
           sessions' = DeleteSessions(S), tokens' = DeleteTokens(T),
           UNCHANGED <<disabled, access>>
    PROVE  /\ sessions' \in [SessionIds -> SessionType]
           /\ tokens' \in [TokenIds -> TokenType]
           /\ Rows' /\ RowsStay /\ DisabledRevoked'
           /\ \A x \in Requests : Locked(x) /\ req[x].op \in IssueOps => ChecksStay(x)
  <1>1. /\ sessions' \in [SessionIds -> SessionType]
        /\ \A s \in SessionIds :
              /\ s \notin S => sessions'[s] = sessions[s]
              /\ s \in S => sessions'[s].st = "deleted"
              /\ sessions'[s].user = sessions[s].user
              /\ sessions'[s].org = sessions[s].org
              /\ sessions'[s].revoked = sessions[s].revoked
    BY DeleteSessionsFacts DEF IInv
  <1>2. /\ tokens' \in [TokenIds -> TokenType]
        /\ \A t \in TokenIds :
              /\ t \notin T => tokens'[t] = tokens[t]
              /\ t \in T => tokens'[t].st = "deleted"
              /\ tokens'[t].session = tokens[t].session
              /\ tokens'[t].org = tokens[t].org
    BY DeleteTokensFacts DEF IInv
  <1>3. /\ \A s \in S : sessions[s].st # "free"
        /\ \A t \in TokenIds : t \in T => tokens[t].st # "free"
    BY DEF TokensOf, Live
  <1>4. Rows' /\ RowsStay
    <2>1. \A s \in SessionIds : sessions'[s].st # "free" <=> sessions[s].st # "free"
      BY <1>1, <1>3
    <2>2. \A t \in TokenIds : tokens'[t].st # "free" <=> tokens[t].st # "free"
      BY <1>2, <1>3
    <2>3. QED
      BY <1>1, <1>2, <2>1, <2>2 DEF IInv, Rows, RowsStay
  <1>5. DisabledRevoked'
    BY <1>1 DEF IInv, DisabledRevoked, SessionsOf, Live
  <1>6. ASSUME NEW x \in Requests, Locked(x), req[x].op \in IssueOps
        PROVE  ChecksStay(x)
    <2>1. /\ req[x].op # "create" => req[x].session \in SessionIds
          /\ req[x].op = "refresh" =>
               /\ req[x].token \in TokenIds
               /\ tokens[req[x].token].session = req[x].session
               /\ Live(tokens[req[x].token])
      BY <1>6 DEF IInv, Shapes, Shape, NeedsSession, NeedsToken, IssueOps, ChecksHold
    <2>2. req[x].op = "refresh" => req[x].session \notin S
      BY <1>6, <2>1 DEF Deletable, TokensOf, LockToken, HoldsToken
    <2>3. req[x].op = "switch" => req[x].session \notin S
      BY <1>6 DEF Deletable, LockSession, HoldsSession
    <2>4. req[x].op = "refresh" => req[x].token \notin T
      BY <2>1, <2>2 DEF TokensOf
    <2>5. QED
      BY <1>1, <1>2, <1>6, <2>1, <2>2, <2>3, <2>4
      DEF IInv, ChecksHold, ChecksStay, IssueOps
  <1>7. QED
    BY <1>1, <1>2, <1>4, <1>5, <1>6

\* The commit of a removal, which deletes the member's sessions of the organization.
LEMMA RemoveOrganizationMemberCommitIInv ==
    ASSUME IInv, NEW r \in Requests, RemoveOrganizationMemberCommit(r)
    PROVE  IInv'
  <1> DEFINE q == req[r]
             S == {s \in SessionsOf(q.user) : sessions[s].org = q.org}
             T == UNION {TokensOf(s) : s \in S}
  <1>1. /\ sessions' = DeleteSessions(S) /\ tokens' = DeleteTokens(T)
        /\ \A s \in S : Deletable(s)
        /\ members' \subseteq members /\ Return(r)
        /\ UNCHANGED <<now, disabled, access, accessTTL, cache, lostCutoff>>
    BY DEF RemoveOrganizationMemberCommit
  <1>2. /\ S \in SUBSET SessionIds /\ \A s \in S : Live(sessions[s])
        /\ \A t \in TokenIds : t \in T <=> \E s \in S : t \in TokensOf(s)
    BY DEF SessionsOf
  <1> HIDE DEF S, T
  <1>3. /\ sessions' \in [SessionIds -> SessionType]
        /\ tokens' \in [TokenIds -> TokenType]
        /\ Rows' /\ RowsStay /\ DisabledRevoked'
        /\ \A x \in Requests : Locked(x) /\ req[x].op \in IssueOps => ChecksStay(x)
    BY <1>1, <1>2, DeletionFacts
  <1>4. members' \in SUBSET (Users \X Orgs)
    BY <1>1 DEF IInv, TypeOK
  <1>5. QED
    BY <1>1, <1>3, <1>4, WriteIInv DEF IInv, TypeOK, cache

\* The clock, the cleanup batches and the requests that take no lock preserve the invariant.
LEMMA EnvironmentIInv ==
    ASSUME IInv, Environment
    PROVE  IInv'
  <1>1. TypeOK
    BY DEF IInv
  <1>2. CASE UNCHANGED <<db, access>> /\ UNCHANGED req
             /\ now' \in 1 .. MaxTime /\ accessTTL' \in 1 .. MaxAccessTTL
             /\ revokedJti' \in SUBSET AccessIds
             /\ UNCHANGED <<sessionCutoff, userCutoff, memberCutoff, lostCutoff>>
    <2>1. Rows' /\ RowsStay /\ DisabledRevoked'
      BY <1>2 DEF db, IInv, Rows, RowsStay, DisabledRevoked, SessionsOf, Live
    <2>2. \A x \in Requests : Locked(x) /\ req[x].op \in IssueOps => ChecksStay(x)
      BY <1>2 DEF db, IInv, ChecksHold, ChecksStay
    <2>3. QED
      BY <1>1, <1>2, <2>1, <2>2, WriteIInv DEF db, TypeOK
  <1>3. CASE Tick
    BY <1>1, <1>2, <1>3, PolicyAssumption DEF Tick, TypeOK, cache
  <1>4. CASE \E ttl \in 1 .. MaxAccessTTL : SetAccessTokenTTL(ttl)
    BY <1>1, <1>2, <1>4 DEF SetAccessTokenTTL, TypeOK, cache
  <1>5. CASE \E a \in AccessIds : LogoutAccessToken(a)
    BY <1>1, <1>2, <1>5 DEF LogoutAccessToken, TypeOK
  <1>6. ASSUME UNCHANGED <<now, sessions, tokens, access, accessTTL, cache, lostCutoff, req>>,
               disabled' \subseteq disabled, members' \in SUBSET (Users \X Orgs)
        PROVE  IInv'
    <2>1. Rows' /\ RowsStay /\ DisabledRevoked'
      BY <1>6 DEF IInv, Rows, RowsStay, DisabledRevoked, SessionsOf, Live
    <2>2. \A x \in Requests : Locked(x) /\ req[x].op \in IssueOps => ChecksStay(x)
      BY <1>6 DEF IInv, ChecksHold, ChecksStay
    <2>3. QED
      BY <1>1, <1>6, <2>1, <2>2, WriteIInv DEF TypeOK, cache
  <1>7. CASE \E u \in Users : EnableUser(u)
    BY <1>1, <1>6, <1>7 DEF EnableUser, TypeOK
  <1>8. CASE \E u \in Users, o \in Orgs : AddMembership(u, o)
    BY <1>1, <1>6, <1>8 DEF AddMembership, TypeOK
  <1>9. ASSUME NEW s \in SessionIds, Live(sessions[s]), DeleteSession(s)
        PROVE  IInv'
    <2> DEFINE T == TokensOf(s)
               S == {s}
    <2>1. /\ sessions' = DeleteSessions(S) /\ tokens' = DeleteTokens(T)
          /\ S \in SUBSET SessionIds
          /\ \A x \in S : Live(sessions[x]) /\ Deletable(x)
          /\ \A t \in TokenIds : t \in T <=> \E x \in S : t \in TokensOf(x)
      BY <1>9 DEF DeleteSession
    <2>2. UNCHANGED <<now, disabled, members, access, accessTTL, cache, lostCutoff, req>>
      BY <1>9 DEF DeleteSession
    <2> HIDE DEF S, T
    <2>3. /\ sessions' \in [SessionIds -> SessionType]
          /\ tokens' \in [TokenIds -> TokenType]
          /\ Rows' /\ RowsStay /\ DisabledRevoked'
          /\ \A x \in Requests : Locked(x) /\ req[x].op \in IssueOps => ChecksStay(x)
      BY <2>1, <2>2, DeletionFacts
    <2>4. QED
      BY <1>1, <2>2, <2>3, WriteIInv DEF TypeOK, cache
  <1>10. CASE \E s \in SessionIds : DeleteExpiredSessions(s) \/ DeleteRevokedSessions(s)
    BY <1>9, <1>10 DEF DeleteExpiredSessions, DeleteRevokedSessions
  <1>11. ASSUME NEW t \in TokenIds, DeleteExpiredRefreshTokens(t)
         PROVE  IInv'
    <2>1. /\ tokens' \in [TokenIds -> TokenType]
          /\ \A x \in TokenIds :
                /\ x # t => tokens'[x] = tokens[x]
                /\ tokens'[x].st # "free" <=> tokens[x].st # "free"
                /\ tokens'[x].session = tokens[x].session
                /\ tokens'[x].org = tokens[x].org
      <3>1. tokens' = DeleteTokens({t}) /\ tokens[t].st # "free"
        BY <1>11 DEF DeleteExpiredRefreshTokens, ExpiredToken, Live
      <3>2. /\ tokens' \in [TokenIds -> TokenType]
            /\ \A x \in TokenIds :
                /\ x \notin {t} => tokens'[x] = tokens[x]
                /\ x \in {t} => tokens'[x].st = "deleted"
                /\ tokens'[x].session = tokens[x].session
                /\ tokens'[x].org = tokens[x].org
        BY <1>1, <3>1, DeleteTokensFacts
      <3>3. QED
        BY <3>1, <3>2
    <2>2. UNCHANGED <<now, sessions, disabled, members, access, accessTTL, cache,
                      lostCutoff, req>>
      BY <1>11 DEF DeleteExpiredRefreshTokens
    <2>3. Rows' /\ RowsStay /\ DisabledRevoked'
      BY <2>1, <2>2 DEF IInv, Rows, RowsStay, DisabledRevoked, SessionsOf
    <2>4. ASSUME NEW x \in Requests, Locked(x), req[x].op \in IssueOps
          PROVE  ChecksStay(x)
      <3>1. req[x].op = "refresh" => req[x].token \in TokenIds \ {t}
        BY <1>11, <2>4 DEF DeleteExpiredRefreshTokens, LockToken, HoldsToken,
                           IInv, Shapes, Shape, NeedsToken
      <3>2. QED
        BY <2>1, <2>2, <2>4, <3>1 DEF IInv, ChecksHold, ChecksStay
    <2>5. QED
      BY <1>1, <2>1, <2>2, <2>3, <2>4, WriteIInv DEF TypeOK, cache
  <1>12. QED
    BY <1>3, <1>4, <1>5, <1>7, <1>8, <1>10, <1>11 DEF Environment

\* A step that changes nothing.
LEMMA StutterIInv == ASSUME IInv, UNCHANGED vars PROVE IInv'
  BY DEF vars, db, cache, IInv, TypeOK, Rows, Shapes, Shape, UserLocks,
         ChecksHold, DisabledRevoked, HoldsUpdate, HoldsKeyShare, Locked,
         SessionsOf, Live

\* The invariant is inductive.
LEMMA NextIInv == IInv /\ [Next]_vars => IInv'
  <1> SUFFICES ASSUME IInv, [Next]_vars PROVE IInv'
    OBVIOUS
  <1>1. ASSUME NEW r \in Requests, Step(r) PROVE IInv'
    <2>1. CASE RevokeInvalid(r)
      BY <2>1, ReturnIInv DEF RevokeInvalid
    <2>2. QED
      BY <1>1, <2>1, CreateSessionCheckIInv, CreateSessionCommitIInv,
         RefreshSessionCheckIInv, RefreshSessionCommitIInv,
         SwitchSessionOrganizationCheckIInv, SwitchSessionOrganizationCommitIInv,
         RevokeMarkIInv, RevokeCommitIInv, RemoveOrganizationMemberMarkIInv,
         RemoveOrganizationMemberCommitIInv
      DEF Step
  <1>2. ASSUME NEW r \in Requests, Abort(r) PROVE IInv'
    BY <1>2, ReturnIInv DEF Abort
  <1>3. QED
    BY <1>1, <1>2, StartIInv, RevokeMarkFailsIInv, EnvironmentIInv, StutterIInv
    DEF Next

-----------------------------------------------------------------------------
(* The theorems.                                                           *)

\* The inductive invariant holds in every reachable state.
THEOREM Invariance == Spec => []IInv
  BY InitIInv, NextIInv, PTL DEF Spec

\* Every variable keeps its type, for every number of rows and requests.
THEOREM TypeCorrect == Spec => []TypeOK
  <1>1. IInv => TypeOK
    BY DEF IInv
  <1>2. QED
    BY <1>1, Invariance, PTL

\* A user that is disabled has no session that is not revoked: DisableUser
\* misses no session that a concurrent createSession is about to commit.
THEOREM DisabledUsersHaveNoSession == Spec => []DisabledRevoked
  <1>1. IInv => DisabledRevoked
    BY DEF IInv
  <1>2. QED
    BY <1>1, Invariance, PTL

\* The access token a step issues is for a session that is neither revoked nor
\* deleted.
IssuesForLiveSession ==
    \A a \in AccessIds :
        access[a].st = "free" /\ access'[a].st = "issued" =>
           /\ ~sessions[access'[a].session].revoked
           /\ sessions[access'[a].session].st # "deleted"

\* A step that issues an access token holds the lock under which it saw the session live.
LEMMA StepIssuesForLiveSession == IInv /\ [Next]_vars => IssuesForLiveSession
  <1> SUFFICES ASSUME IInv, [Next]_vars PROVE IssuesForLiveSession
    OBVIOUS
  <1>1. TypeOK
    BY DEF IInv
  <1>2. ASSUME UNCHANGED access PROVE IssuesForLiveSession
    BY <1>2 DEF IssuesForLiveSession
  <1>3. ASSUME NEW r \in Requests, CreateSessionCommit(r) PROVE IssuesForLiveSession
    <2> DEFINE s == NextFree(sessions)
    <2>1. s \in SessionIds /\ sessions[s].st = "free" /\ ~sessions[s].revoked
      BY <1>1, <1>3, NextFreeIsFree DEF CreateSessionCommit, TypeOK, IInv, Rows
    <2>2. /\ Generate(s, req[r].org, req[r].at)
          /\ req[r].org \in Orgs /\ req[r].at \in Clock
      BY <1>1, <1>3 DEF CreateSessionCommit, IInv, Shapes, Shape, NeedsOrg, IssueOps,
                   TypeOK, RequestType
    <2> HIDE DEF s
    <2>3. QED
      BY <1>1, <2>1, <2>2, GenerateFacts DEF IssuesForLiveSession
  <1>4. ASSUME NEW r \in Requests, Locked(r), req[r].op \in {"refresh", "switch"},
               Generate(req[r].session, req[r].org, req[r].at)
        PROVE  IssuesForLiveSession
    <2>1. /\ req[r].session \in SessionIds /\ req[r].org \in Orgs
          /\ req[r].at \in Clock
      BY <1>1, <1>4 DEF IInv, Shapes, Shape, NeedsSession, NeedsOrg, IssueOps,
                        TypeOK, RequestType
    <2>2. /\ ~sessions[req[r].session].revoked
          /\ sessions[req[r].session].st = "live"
      BY <1>4 DEF IInv, ChecksHold, IssueOps, Live
    <2>3. QED
      BY <1>1, <1>4, <2>1, <2>2, GenerateFacts DEF IssuesForLiveSession
  <1>5. ASSUME NEW r \in Requests, RefreshSessionCommit(r) PROVE IssuesForLiveSession
    BY <1>4, <1>5 DEF RefreshSessionCommit, Locked
  <1>6. ASSUME NEW r \in Requests, SwitchSessionOrganizationCommit(r)
        PROVE  IssuesForLiveSession
    BY <1>4, <1>6 DEF SwitchSessionOrganizationCommit, Locked
  <1>7. ASSUME NEW r \in Requests, Start(r) PROVE UNCHANGED access
    BY <1>7 DEF Start, Begin, CreateSession, RefreshSession, SwitchSessionOrganization,
         Logout, RevokeUserSession, AdminRevokeUserSession,
         BeginRequiredEmailVerification, RevokeOtherUserSessions, ChangePassword,
         RevokeAllSessions, CompletePasswordReset, SetPassword,
         AdminRevokeAllUserSessions, RevokeAdmin, DisableUser, BeginUserOp,
         RemoveOrganizationMember
  <1>8. ASSUME NEW r \in Requests, Step(r) PROVE IssuesForLiveSession
    <2>1. CASE UNCHANGED access
      BY <1>2, <2>1
    <2>2. QED
      BY <1>3, <1>5, <1>6, <1>8, <2>1
      DEF Step, CreateSessionCheck, RefreshSessionCheck, SwitchSessionOrganizationCheck,
          RevokeMark, RevokeInvalid, RevokeCommit, RemoveOrganizationMemberMark,
          RemoveOrganizationMemberCommit
  <1>9. ASSUME NEW r \in Requests, RevokeMarkFails(r) \/ Abort(r) PROVE UNCHANGED access
    BY <1>9 DEF RevokeMarkFails, Abort
  <1>10. ASSUME Environment PROVE UNCHANGED access
    BY <1>10 DEF Environment, Tick, SetAccessTokenTTL, LogoutAccessToken, EnableUser,
         AddMembership, DeleteExpiredRefreshTokens, DeleteExpiredSessions,
         DeleteRevokedSessions, DeleteSession
  <1>11. QED
    BY <1>2, <1>7, <1>8, <1>9, <1>10 DEF Next, vars

\* No transaction issues an access token for a session whose revocation or
\* deletion has committed before it, whatever runs concurrently.
THEOREM NoIssue == Spec => NoIssueAfterRevocation
  <1>1. IInv /\ [Next]_vars => [IssuesForLiveSession]_vars
    BY StepIssuesForLiveSession
  <1>2. Spec => [][IssuesForLiveSession]_vars
    BY <1>1, Invariance, PTL DEF Spec
  <1>3. QED
    BY <1>2 DEF NoIssueAfterRevocation, IssuesForLiveSession

-----------------------------------------------------------------------------
(* Refresh tokens.                                                         *)

\* A token that has a predecessor was made by consuming it, and two tokens
\* never have the same predecessor.
Lineage ==
    /\ \A t \in TokenIds : tokens[t].st = "free" => tokens[t].parent = None /\ ~tokens[t].consumed
    /\ \A t \in TokenIds : tokens[t].parent # None =>
          tokens[tokens[t].parent].st # "free" /\ tokens[tokens[t].parent].consumed
    /\ RotatedOnce

\* FOR UPDATE of a refresh token excludes another refresh of it, and what the
\* holder read under the lock, that it is not consumed, still holds.
TokenLocks ==
    \A r \in Requests : Locked(r) /\ req[r].op = "refresh" =>
        /\ ~tokens[req[r].token].consumed
        /\ \A q \in Requests :
              q # r /\ Locked(q) /\ req[q].op = "refresh" => req[q].token # req[r].token

\* Requests switch organizations only where the system lets them, and one at a time
\* for a session: UPDATE sessions keeps its row locked until the commit.
Switching(r) == Locked(r) /\ req[r].op = "switch"
SwitchLocks ==
    /\ "switch" \notin Ops => \A r \in Requests : req[r].op # "switch"
    /\ \A r, x \in Requests :
          Switching(r) /\ Switching(x) /\ r # x => req[r].session # req[x].session

RInv == Lineage /\ TokenLocks /\ SwitchLocks /\ TokenWithinSession

\* No refresh commits while a switch of its session waits in its DELETE.
Undisturbed ==
    \A r, x \in Requests :
        RefreshSessionCommit(r) /\ Switching(x) => req[r].session # req[x].session

\* Then two usable tokens of one session are the same, and the statement of a switch
\* sees every token of its session.
OneUsable ==
    /\ \A t1, t2 \in TokenIds :
          /\ Live(tokens[t1]) /\ ~tokens[t1].consumed
          /\ Live(tokens[t2]) /\ ~tokens[t2].consumed
          /\ tokens[t1].session = tokens[t2].session
          => t1 = t2
    /\ \A r \in Requests : Switching(r) => TokensOf(req[r].session) \subseteq req[r].snap

\* A row that stays as it is, or is deleted.
Kept(t) ==
    /\ tokens'[t].session = tokens[t].session /\ tokens'[t].parent = tokens[t].parent
    /\ tokens'[t].consumed = tokens[t].consumed /\ tokens'[t].expires = tokens[t].expires
    /\ tokens'[t].st = tokens[t].st \/ (Live(tokens[t]) /\ tokens'[t].st = "deleted")

\* A row that is inserted, with predecessor p.
Inserted(n, p) ==
    /\ tokens[n].st = "free" /\ Live(tokens'[n])
    /\ tokens'[n].parent = p /\ ~tokens'[n].consumed

\* A refresh consumes its token and inserts the successor.
Rotated(r, n) ==
    LET p == req[r].token IN
    /\ RefreshSessionCommit(r)
    /\ Locked(r) /\ req[r].op = "refresh" /\ req'[r] = Idle
    /\ n # p /\ Inserted(n, p) /\ tokens'[n].session = tokens[p].session
    /\ Live(tokens[p]) /\ Live(tokens'[p]) /\ tokens'[p].consumed
    /\ tokens'[p].session = tokens[p].session /\ tokens'[p].parent = tokens[p].parent
    /\ \A t \in TokenIds \ {n, p} : Kept(t)

\* A switch deletes what its statement saw and starts a new chain of tokens.
Switched(r, n) ==
    /\ SwitchSessionOrganizationCommit(r)
    /\ Switching(r) /\ req'[r] = Idle
    /\ tokens'[n].session = req[r].session
    /\ \A t \in req[r].snap : ~Live(tokens'[t])

\* What a step does to the table refresh_tokens: it deletes rows, starts a chain of
\* tokens for a session that is new or switches organization, or rotates.
TokensStep ==
    \/ \A t \in TokenIds : Kept(t)
    \/ \E n \in TokenIds :
          /\ Inserted(n, None) /\ \A t \in TokenIds \ {n} : Kept(t)
          /\ \/ \E r \in Requests : Switched(r, n)
             \/ /\ sessions[tokens'[n].session].st = "free"
                /\ \A t \in TokenIds \ {n} :
                      Live(tokens'[t]) => tokens'[t].session # tokens'[n].session
    \/ \E r \in Requests, n \in TokenIds : Rotated(r, n)

\* What it does to the requests, as far as refresh tokens are concerned.
RequestsStep ==
    \A x \in Requests :
        /\ req'[x].op = "switch" => req[x].op = "switch" \/ "switch" \in Ops
        /\ \/ req'[x] = req[x]
           \/ req'[x].pc # "locked"
           \/ req'[x].op # "refresh"
           \/ /\ UNCHANGED tokens /\ LockToken(req'[x].token)
              /\ ~tokens[req'[x].token].consumed
              /\ \A y \in Requests \ {x} : req'[y] = req[y]
        /\ \/ req'[x] = req[x]
           \/ req'[x].pc # "locked"
           \/ req'[x].op # "switch"
           \/ /\ UNCHANGED tokens /\ LockSession(req'[x].session)
              /\ req'[x].snap = TokensOf(req'[x].session)
              /\ \A y \in Requests \ {x} : req'[y] = req[y]

\* The chain of rotations survives every step of the table.
LEMMA LineageStays ==
    ASSUME IInv, Lineage, TokenLocks, tokens' \in [TokenIds -> TokenType], TokensStep
    PROVE  Lineage'
  <1>1. /\ \A t \in TokenIds : tokens[t].parent \in TokenIds \cup {None}
        /\ None \notin TokenIds
    BY NoneAssumption DEF IInv, TypeOK, TokenType
  <1>2. CASE \A t \in TokenIds : Kept(t)
    BY <1>1, <1>2 DEF Kept, Lineage, RotatedOnce, Live
  <1>3. ASSUME NEW n \in TokenIds, Inserted(n, None), \A t \in TokenIds \ {n} : Kept(t)
        PROVE  Lineage'
    <2>1. \A t \in TokenIds : tokens[t].parent # n
      BY <1>1, <1>3 DEF Inserted, Lineage
    <2>2. QED
      BY <1>1, <1>3, <2>1 DEF Kept, Inserted, Lineage, RotatedOnce, Live
  <1>4. ASSUME NEW r \in Requests, NEW n \in TokenIds, Rotated(r, n)
        PROVE  Lineage'
    <2> DEFINE p == req[r].token
    <2>1. p \in TokenIds /\ p # None
      BY <1>1, <1>4 DEF Rotated, IInv, Shapes, Shape, NeedsToken
    <2>2. ~tokens[p].consumed
      BY <1>4 DEF Rotated, TokenLocks
    <2>3. \A t \in TokenIds : tokens[t].parent # p /\ tokens[t].parent # n
      BY <1>1, <1>4, <2>1, <2>2 DEF Rotated, Inserted, Lineage
    <2>4. /\ tokens[n].st = "free" /\ tokens'[n].st = "live"
          /\ tokens'[n].parent = p /\ ~tokens'[n].consumed
          /\ tokens[p].st = "live" /\ tokens'[p].st = "live" /\ tokens'[p].consumed
          /\ tokens'[p].parent = tokens[p].parent
          /\ n # p /\ \A t \in TokenIds \ {n, p} : Kept(t)
      BY <1>4 DEF Rotated, Inserted, Live
    <2> HIDE DEF p
    <2>5. \A t \in TokenIds : tokens'[t].st = "free" => tokens'[t].parent = None /\ ~tokens'[t].consumed
      BY <2>4 DEF Kept, Lineage, Live
    <2>6. \A t \in TokenIds : tokens'[t].parent # None =>
             tokens'[tokens'[t].parent].st # "free" /\ tokens'[tokens'[t].parent].consumed
      <3> SUFFICES ASSUME NEW t \in TokenIds, tokens'[t].parent # None
                   PROVE  tokens'[tokens'[t].parent].st # "free" /\ tokens'[tokens'[t].parent].consumed
        OBVIOUS
      <3>1. CASE t = n
        BY <2>4, <3>1
      <3>2. CASE t # n
        <4>1. tokens'[t].parent = tokens[t].parent
          BY <2>4, <3>2 DEF Kept
        <4>2. /\ tokens[t].parent \in TokenIds \ {n, p}
              /\ tokens[tokens[t].parent].st # "free" /\ tokens[tokens[t].parent].consumed
          BY <1>1, <2>3, <4>1 DEF Lineage
        <4>3. QED
          BY <2>4, <4>1, <4>2 DEF Kept, Live
      <3>3. QED
        BY <3>1, <3>2
    <2>7. RotatedOnce'
      <3>1. \A t \in TokenIds \ {n} : tokens'[t].parent = tokens[t].parent
        BY <2>4 DEF Kept
      <3>2. QED
        BY <2>3, <2>4, <3>1 DEF RotatedOnce, Lineage
    <2>8. QED
      BY <2>5, <2>6, <2>7 DEF Lineage
  <1>5. QED
    BY <1>2, <1>3, <1>4 DEF TokensStep

\* So does what a refresh knows of the token it has locked.
LEMMA TokenLocksStay ==
    ASSUME IInv, TokenLocks, TokensStep, RequestsStep,
           req' \in [Requests -> RequestType]
    PROVE  TokenLocks'
  <1> SUFFICES ASSUME NEW x \in Requests, Locked(x)', req'[x].op = "refresh"
               PROVE  /\ ~tokens'[req'[x].token].consumed
                      /\ \A q \in Requests :
                            q # x /\ req'[q].pc = "locked" /\ req'[q].op = "refresh"
                            => req'[q].token # req'[x].token
    BY DEF TokenLocks, Locked
  <1>2. CASE req'[x] = req[x]
    <2>1. /\ Locked(x) /\ req[x].op = "refresh" /\ req[x].token \in TokenIds
          /\ Live(tokens[req[x].token]) /\ ~tokens[req[x].token].consumed
      BY <1>2 DEF Locked, IInv, Shapes, Shape, NeedsToken, ChecksHold, IssueOps, TokenLocks
    <2>2. ~tokens'[req'[x].token].consumed
      <3>1. CASE \A t \in TokenIds : Kept(t)
        BY <1>2, <2>1, <3>1 DEF Kept
      <3>2. CASE \E n \in TokenIds : Inserted(n, None) /\ \A t \in TokenIds \ {n} : Kept(t)
        BY <1>2, <2>1, <3>2 DEF Kept, Inserted, Live
      <3>3. ASSUME NEW r \in Requests, NEW n \in TokenIds, Rotated(r, n)
            PROVE  ~tokens'[req'[x].token].consumed
        <4>1. r # x
          BY <1>2, <2>1, <3>3 DEF Rotated, Idle
        <4>2. req[x].token # req[r].token
          BY <2>1, <3>3, <4>1 DEF Rotated, TokenLocks
        <4>3. req[x].token # n
          BY <2>1, <3>3 DEF Rotated, Inserted, Live
        <4>4. QED
          BY <1>2, <2>1, <3>3, <4>2, <4>3 DEF Rotated, Kept
      <3>4. QED
        BY <3>1, <3>2, <3>3 DEF TokensStep
    <2>3. ASSUME NEW q \in Requests, q # x, req'[q].pc = "locked", req'[q].op = "refresh",
                 req'[q].token = req'[x].token
          PROVE  FALSE
      <3>1. CASE req'[q] = req[q]
        BY <1>2, <2>1, <2>3, <3>1 DEF Locked, TokenLocks
      <3>2. CASE LockToken(req'[q].token)
        BY <1>2, <2>1, <2>3, <3>2 DEF HoldsToken, Locked, LockToken
      <3>3. QED
        BY <2>3, <3>1, <3>2 DEF RequestsStep
    <2>4. QED
      BY <2>2, <2>3
  <1>3. CASE req'[x] # req[x]
    <2>1. /\ UNCHANGED tokens /\ LockToken(req'[x].token)
          /\ ~tokens[req'[x].token].consumed
          /\ \A y \in Requests \ {x} : req'[y] = req[y]
      BY <1>3 DEF RequestsStep, Locked
    <2>2. QED
      BY <2>1 DEF LockToken, HoldsToken, Locked
  <1>4. QED
    BY <1>2, <1>3

\* One switch of a session at a time.
LEMMA SwitchLocksStay ==
    ASSUME SwitchLocks, RequestsStep
    PROVE  SwitchLocks'
  <1>1. "switch" \notin Ops => \A r \in Requests : req'[r].op # "switch"
    BY DEF SwitchLocks, RequestsStep
  <1>2. ASSUME NEW r \in Requests, NEW x \in Requests, r # x, Switching(r)', Switching(x)'
        PROVE  req'[r].session # req'[x].session
    <2>1. CASE req'[r] = req[r] /\ req'[x] = req[x]
      BY <1>2, <2>1 DEF SwitchLocks, Switching, Locked
    <2>2. ASSUME NEW y \in Requests, NEW z \in Requests, y # z, Switching(y)', Switching(z)',
                 req'[y] # req[y]
          PROVE  req'[y].session # req'[z].session
      <3>1. /\ LockSession(req'[y].session) /\ req'[z] = req[z]
        BY <2>2 DEF RequestsStep, Switching, Locked
      <3>2. HoldsSession(z, req'[z].session)
        BY <2>2, <3>1 DEF HoldsSession, Switching, Locked
      <3>3. QED
        BY <3>1, <3>2 DEF LockSession
    <2>3. QED
      BY <1>2, <2>1, <2>2
  <1>3. QED
    BY <1>1, <1>2 DEF SwitchLocks, Switching, Locked

\* A step in which no refresh disturbs a switch leaves a session at most one token
\* that is not consumed, and hides no token from the statement of a switch.
LEMMA OneUsableStays ==
    ASSUME IInv, TokenLocks, SwitchLocks, OneUsable, TokensStep, RequestsStep, Undisturbed
    PROVE  OneUsable'
  <1>1. \A t \in TokenIds : Kept(t) /\ Live(tokens'[t]) =>
           /\ Live(tokens[t]) /\ tokens'[t].session = tokens[t].session
           /\ tokens'[t].consumed = tokens[t].consumed
    BY DEF Kept, Live
  <1>2. ASSUME NEW x \in Requests, Switching(x)',
               NEW t \in TokenIds, Live(tokens'[t]), tokens'[t].session = req'[x].session
        PROVE  t \in req'[x].snap
    <2>1. Live(tokens'[t]) /\ tokens'[t].session = req'[x].session
      BY <1>2
    <2>2. CASE req'[x] # req[x]
      BY <1>2, <2>1, <2>2 DEF RequestsStep, Switching, Locked, TokensOf
    <2>3. CASE req'[x] = req[x]
      <3>1. Switching(x) /\ TokensOf(req[x].session) \subseteq req[x].snap
        BY <1>2, <2>3 DEF OneUsable, Switching, Locked
      <3>2. Live(sessions[req[x].session])
        BY <3>1 DEF IInv, ChecksHold, IssueOps, Switching
      <3>3. CASE Kept(t)
        BY <1>1, <2>1, <2>3, <3>1, <3>3 DEF TokensOf
      <3>4. CASE sessions[tokens'[t].session].st = "free"
        BY <2>1, <2>3, <3>2, <3>4 DEF Live
      <3>5. ASSUME NEW r \in Requests, Switched(r, t) PROVE FALSE
        <4>1. r # x
          BY <2>3, <3>1, <3>5 DEF Switched, Switching, Locked, Idle
        <4>2. QED
          BY <2>1, <2>3, <3>1, <3>5, <4>1 DEF Switched, SwitchLocks
      <3>6. ASSUME NEW r \in Requests, NEW n \in TokenIds, Rotated(r, n) PROVE t \in req'[x].snap
        <4> DEFINE p == req[r].token
        <4>1. /\ p \in TokenIds /\ Live(tokens[p]) /\ tokens'[p].session = tokens[p].session
              /\ tokens[p].session = req[r].session
          BY <3>6 DEF Rotated, IInv, Shapes, Shape, NeedsToken
        <4>2. tokens'[n].session = req[r].session /\ req[r].session # req[x].session
          BY <3>1, <3>6, <4>1 DEF Rotated, Undisturbed
        <4>3. t # n
          BY <2>1, <2>3, <4>2
        <4>4. CASE t = p
          BY <2>1, <2>3, <4>1, <4>2, <4>4
        <4>5. QED
          BY <3>3, <3>6, <4>3, <4>4 DEF Rotated
      <3>7. QED
        BY <3>3, <3>4, <3>5, <3>6 DEF TokensStep
    <2>4. QED
      BY <2>2, <2>3
  <1>3. ASSUME NEW t1 \in TokenIds, NEW t2 \in TokenIds,
               Live(tokens'[t1]), ~tokens'[t1].consumed,
               Live(tokens'[t2]), ~tokens'[t2].consumed,
               tokens'[t1].session = tokens'[t2].session
        PROVE  t1 = t2
    <2>1. CASE Kept(t1) /\ Kept(t2)
      BY <1>1, <1>3, <2>1 DEF OneUsable
    <2>2. ASSUME NEW n \in TokenIds, \A t \in TokenIds \ {n} : Kept(t),
                 \A t \in TokenIds \ {n} : Live(tokens'[t]) => tokens'[t].session # tokens'[n].session
          PROVE  t1 = t2
      BY <1>3, <2>1, <2>2
    <2>3. ASSUME NEW n \in TokenIds, \A t \in TokenIds \ {n} : Kept(t),
                 NEW r \in Requests, Switched(r, n)
          PROVE  t1 = t2
      <3>1. \A t \in TokenIds \ {n} : Live(tokens'[t]) => tokens'[t].session # tokens'[n].session
        BY <1>1, <2>3 DEF Switched, OneUsable, TokensOf
      <3>2. QED
        BY <2>2, <2>3, <3>1
    <2>4. ASSUME NEW r \in Requests, NEW n \in TokenIds, Rotated(r, n)
          PROVE  t1 = t2
      <3> DEFINE p == req[r].token
      <3>1. /\ p \in TokenIds /\ Live(tokens[p]) /\ ~tokens[p].consumed
            /\ tokens'[p].consumed /\ tokens'[n].session = tokens[p].session
            /\ \A t \in TokenIds \ {n, p} : Kept(t)
        BY <2>4 DEF Rotated, TokenLocks, IInv, Shapes, Shape, NeedsToken
      <3>2. ASSUME NEW t \in {t1, t2}, t # n PROVE Kept(t) /\ tokens'[t].session # tokens[p].session
        <4>1. t # p /\ Kept(t)
          BY <1>3, <3>1, <3>2
        <4>2. QED
          BY <1>1, <1>3, <3>1, <3>2, <4>1 DEF OneUsable
      <3>3. QED
        BY <1>3, <2>1, <3>1, <3>2
    <2>5. QED
      BY <2>1, <2>2, <2>3, <2>4 DEF TokensStep
  <1>4. QED
    BY <1>2, <1>3 DEF OneUsable, TokensOf, Live, Switching, Locked

\* A consumed token goes only with its session, or by a switch of organization.
TombStep ==
    \A t \in TokenIds :
        Live(tokens[t]) /\ tokens[t].consumed /\ ~Live(tokens'[t]) =>
            \/ sessions'[tokens[t].session].revoked
            \/ ~Live(sessions'[tokens[t].session])
            \/ \E r \in Requests : SwitchSessionOrganizationCommit(r)

TokenFacts == TokensStep /\ RequestsStep /\ TombStep /\ TokenWithinSession'

\* A step that writes neither table.
LEMMA TablesAlone ==
    ASSUME TokenWithinSession, UNCHANGED <<sessions, tokens>>, RequestsStep
    PROVE  TokenFacts
  BY DEF TokenFacts, TokensStep, Kept, TombStep, TokenWithinSession, Live

\* Rows that are deleted, of sessions that go with them or stay as they are.
LEMMA TokensDeleted ==
    ASSUME TypeOK, NEW T, \A t \in TokenIds : t \in T => tokens[t].st # "free",
           tokens' = DeleteTokens(T)
    PROVE  \A t \in TokenIds : Kept(t) /\ (Live(tokens'[t]) <=> Live(tokens[t]) /\ t \notin T)
  <1> SUFFICES ASSUME NEW t \in TokenIds
               PROVE  Kept(t) /\ (Live(tokens'[t]) <=> Live(tokens[t]) /\ t \notin T)
    OBVIOUS
  <1>1. tokens[t] \in TokenType /\ tokens[t].st \in {"free", "live", "deleted"}
    BY DEF TypeOK, TokenType
  <1>2. LET x == [tokens[t] EXCEPT !.st = "deleted"]
        IN  /\ x.st = "deleted" /\ x.session = tokens[t].session
            /\ x.parent = tokens[t].parent /\ x.consumed = tokens[t].consumed
            /\ x.expires = tokens[t].expires
    BY <1>1 DEF TokenType
  <1>3. tokens'[t] = IF t \in T THEN [tokens[t] EXCEPT !.st = "deleted"] ELSE tokens[t]
    BY DEF DeleteTokens
  <1>4. QED
    BY <1>1, <1>2, <1>3 DEF Kept, Live

\* Sessions keep their expiry when they are deleted or revoked.
LEMMA SessionExpiryStays ==
    ASSUME TypeOK, NEW S, sessions' = DeleteSessions(S) \/ sessions' = RevokeSessions(S)
    PROVE  \A s \in SessionIds : sessions'[s].expires = sessions[s].expires
  <1>1. \A s \in SessionIds :
           /\ [sessions[s] EXCEPT !.st = "deleted"].expires = sessions[s].expires
           /\ [sessions[s] EXCEPT !.revoked = TRUE].expires = sessions[s].expires
    BY DEF TypeOK, SessionType
  <1>2. QED
    BY <1>1 DEF DeleteSessions, RevokeSessions

\* Deleting sessions with all their tokens.
LEMMA SessionsDeleted ==
    ASSUME IInv, TokenWithinSession, NEW S \in SUBSET SessionIds, NEW T,
           \A t \in TokenIds : t \in T <=> \E s \in S : t \in TokensOf(s),
           sessions' = DeleteSessions(S), tokens' = DeleteTokens(T), RequestsStep
    PROVE  TokenFacts
  <1>1. TypeOK /\ \A t \in TokenIds : t \in T => Live(tokens[t]) /\ tokens[t].st # "free"
    BY DEF IInv, TokensOf, Live
  <1>2. \A t \in TokenIds : Kept(t) /\ (Live(tokens'[t]) <=> Live(tokens[t]) /\ t \notin T)
    BY <1>1, TokensDeleted
  <1>3. \A s \in SessionIds : /\ s \notin S => sessions'[s] = sessions[s]
                              /\ s \in S => sessions'[s].st = "deleted"
    BY <1>1, DeleteSessionsFacts
  <1>4. \A t \in TokenIds : Live(tokens[t]) =>
           tokens[t].session \in SessionIds /\ (t \in T <=> tokens[t].session \in S)
    BY DEF IInv, Rows, Live, TokensOf
  <1>5. TokenWithinSession'
    BY <1>2, <1>3, <1>4 DEF TokenWithinSession, Kept, Live
  <1>6. TombStep
    BY <1>2, <1>3, <1>4 DEF TombStep, Live
  <1>7. QED
    BY <1>2, <1>5, <1>6 DEF TokenFacts, TokensStep

\* A commit or a rollback.
LEMMA ReturnRequests ==
    ASSUME IInv, req' = req \/ \E r \in Requests : Return(r)
    PROVE  RequestsStep
  BY DEF Return, RequestsStep, Idle, IInv, TypeOK

\* Every start is a Begin of an operation that the environment may call.
LEMMA StartBegins ==
    ASSUME NEW r \in Requests, Start(r)
    PROVE  \E op \in Ops \cup {"reuse"} : \E u, s, t, o : Begin(r, op, u, s, t, o)
  <1>1. ASSUME NEW t \in TokenIds, RefreshSession(r, t)
        PROVE  \E op \in Ops \cup {"reuse"} : \E u, s, o : Begin(r, op, u, s, t, o)
    BY <1>1 DEF RefreshSession
  <1>2. ASSUME NEW op, NEW u, BeginUserOp(r, op, u)
        PROVE  op \in Ops /\ Begin(r, op, u, None, None, None)
    BY <1>2 DEF BeginUserOp
  <1>3. CASE \E u \in Users, o \in Orgs : CreateSession(r, u, o)
    BY <1>3 DEF CreateSession
  <1>4. CASE \E s \in SessionIds, o \in Orgs : SwitchSessionOrganization(r, s, o)
    BY <1>4 DEF SwitchSessionOrganization
  <1>5. CASE \E t \in TokenIds : Logout(r, t)
    BY <1>5 DEF Logout
  <1>6. CASE \E s \in SessionIds : RevokeUserSession(r, s) \/ AdminRevokeUserSession(r, s)
    BY <1>6 DEF RevokeUserSession, AdminRevokeUserSession
  <1>7. CASE \E s \in SessionIds : BeginRequiredEmailVerification(r, s)
    BY <1>7 DEF BeginRequiredEmailVerification
  <1>8. CASE \E s \in SessionIds : RevokeOtherUserSessions(r, s) \/ ChangePassword(r, s)
    BY <1>8 DEF RevokeOtherUserSessions, ChangePassword
  <1>9. CASE \E u \in Users, o \in Orgs : RemoveOrganizationMember(r, u, o)
    BY <1>9 DEF RemoveOrganizationMember
  <1>10. QED
    BY <1>1, <1>2, <1>3, <1>4, <1>5, <1>6, <1>7, <1>8, <1>9
    DEF Start, RevokeAllSessions, CompletePasswordReset, SetPassword,
        AdminRevokeAllUserSessions, RevokeAdmin, DisableUser

\* A request that starts writes no table and holds no lock.
LEMMA StartRequests ==
    ASSUME IInv, NEW r \in Requests, Start(r)
    PROVE  RequestsStep /\ UNCHANGED <<sessions, tokens>>
  <1>1. ASSUME NEW op \in Ops \cup {"reuse"}, NEW u, NEW s, NEW t, NEW o, Begin(r, op, u, s, t, o)
        PROVE  RequestsStep /\ UNCHANGED <<sessions, tokens>>
    BY <1>1 DEF Begin, RequestsStep, IInv, TypeOK, db
  <1>2. QED
    BY <1>1, StartBegins

\* The checks and marks, which write no table.
LEMMA LockRequests ==
    ASSUME IInv, NEW r \in Requests,
           \/ CreateSessionCheck(r) \/ RefreshSessionCheck(r)
           \/ SwitchSessionOrganizationCheck(r) \/ RevokeMark(r) \/ RevokeInvalid(r)
           \/ RevokeMarkFails(r) \/ RemoveOrganizationMemberMark(r) \/ Abort(r)
    PROVE  RequestsStep /\ UNCHANGED <<sessions, tokens>>
  <1>1. UNCHANGED <<sessions, tokens>>
    BY DEF CreateSessionCheck, RefreshSessionCheck, SwitchSessionOrganizationCheck, RevokeMark,
           RevokeInvalid, RevokeMarkFails, RemoveOrganizationMemberMark, Abort, db
  <1>2. CASE Return(r)
    BY <1>1, <1>2, ReturnRequests
  <1>3. ASSUME NEW q \in RequestType, req' = [req EXCEPT ![r] = q],
               q.op = "switch" => req[r].op = "switch",
               q.pc = "locked" /\ q.op = "refresh" => LockToken(q.token) /\ ~tokens[q.token].consumed,
               q.pc = "locked" /\ q.op = "switch" =>
                  LockSession(q.session) /\ q.snap = TokensOf(q.session)
        PROVE  RequestsStep
    BY <1>1, <1>3 DEF RequestsStep, IInv, TypeOK
  <1>4. /\ req[r] \in RequestType
        /\ [req[r] EXCEPT !.pc = "locked"] \in RequestType
        /\ [req[r] EXCEPT !.pc = "locked"].op = req[r].op
        /\ [req[r] EXCEPT !.pc = "locked"].token = req[r].token
    <2>1. ASSUME NEW q \in RequestType
          PROVE  /\ [q EXCEPT !.pc = "locked"] \in RequestType
                 /\ [q EXCEPT !.pc = "locked"].op = q.op
                 /\ [q EXCEPT !.pc = "locked"].token = q.token
      BY DEF RequestType
    <2>2. req[r] \in RequestType
      BY DEF IInv, TypeOK
    <2>3. QED
      BY <2>1, <2>2
  <1>5. CASE Lock(r) /\ req[r].op \notin {"refresh", "switch"}
    BY <1>1, <1>3, <1>4, <1>5 DEF Lock, RequestType
  <1>6. CASE RefreshSessionCheck(r)
    <2>1. \/ Return(r)
          \/ req' = [req EXCEPT ![r].op = "reuse"] /\ req[r].pc = "begun"
          \/ Lock(r) /\ LockToken(req[r].token) /\ ~tokens[req[r].token].consumed
      BY <1>6 DEF RefreshSessionCheck, Replayed
    <2>2. CASE req' = [req EXCEPT ![r].op = "reuse"] /\ req[r].pc = "begun"
      <3>1. /\ [req[r] EXCEPT !.op = "reuse"] \in RequestType
            /\ [req[r] EXCEPT !.op = "reuse"].op = "reuse"
        BY <1>4 DEF RequestType, RevokeOps, SessionOps
      <3>2. QED
        BY <1>1, <1>3, <2>2, <3>1
    <2>3. req[r].op = "refresh"
      BY <1>6 DEF RefreshSessionCheck
    <2>4. QED
      BY <1>1, <1>2, <1>3, <1>4, <2>1, <2>2, <2>3 DEF Lock
  <1>7. CASE SwitchSessionOrganizationCheck(r)
    <2> DEFINE q == [req[r] EXCEPT !.pc = "locked", !.snap = TokensOf(req[r].session)]
    <2>1. /\ req[r].op = "switch"
          /\ Return(r) \/ (req' = [req EXCEPT ![r] = q] /\ LockSession(req[r].session))
      BY <1>7 DEF SwitchSessionOrganizationCheck, IInv, TypeOK
    <2>2. TokensOf(req[r].session) \in SUBSET TokenIds
      BY DEF TokensOf
    <2>3. /\ q \in RequestType /\ q.op = req[r].op
          /\ q.session = req[r].session /\ q.snap = TokensOf(req[r].session)
      BY <1>4, <2>2 DEF RequestType
    <2> HIDE DEF q
    <2>4. QED
      BY <1>1, <1>2, <1>3, <2>1, <2>3
  <1>8. QED
    BY <1>1, <1>2, <1>5, <1>6, <1>7
    DEF CreateSessionCheck, RevokeMark, RevokeInvalid, RevokeMarkFails,
        RemoveOrganizationMemberMark, Abort, RevokeOps, SessionOps, UserOps, OtherOps

\* createSession starts a chain of tokens, for a session that has none.
LEMMA CreateTokens ==
    ASSUME IInv, TokenWithinSession, NEW r \in Requests, CreateSessionCommit(r)
    PROVE  TokenFacts
  <1> DEFINE q == req[r]
             s == NextFree(sessions)
             n == NextFree(tokens)
             row == [st |-> "live", user |-> q.user, org |-> q.org,
                     expires |-> q.at + SessionTTL, revoked |-> FALSE]
             tok == NewToken(s, q.org, q.at, q.at + RefreshTTL, None)
  <1>1. /\ sessions' = [sessions EXCEPT ![s] = row] /\ tokens' = [tokens EXCEPT ![n] = tok]
        /\ Return(r)
    BY DEF CreateSessionCommit
  <1>2. /\ s \in SessionIds /\ sessions[s].st = "free"
        /\ n \in TokenIds /\ tokens[n].st = "free"
    BY NextFreeIsFree DEF CreateSessionCommit, IInv, TypeOK
  <1>3. /\ Live(tok) /\ tok.session = s /\ tok.parent = None /\ ~tok.consumed
        /\ tok.expires <= row.expires /\ Live(row)
    <2>1. q.at \in Nat
      BY PolicyAssumption DEF IInv, TypeOK, RequestType, Clock
    <2>2. q.at + RefreshTTL <= q.at + SessionTTL
      BY <2>1, PolicyAssumption
    <2>3. QED
      BY <2>2 DEF NewToken, Live
  <1> HIDE DEF s, n, row, tok
  <1>4. /\ sessions'[s] = row /\ \A x \in SessionIds \ {s} : sessions'[x] = sessions[x]
        /\ tokens'[n] = tok /\ \A t \in TokenIds \ {n} : tokens'[t] = tokens[t]
    BY <1>1, <1>2 DEF IInv, TypeOK
  <1>5. \A t \in TokenIds : Live(tokens[t]) => tokens[t].session \in SessionIds \ {s}
    BY <1>2 DEF IInv, Rows, Live
  <1>6. TokensStep
    <2>1. Inserted(n, None) /\ \A t \in TokenIds \ {n} : Kept(t)
      BY <1>2, <1>3, <1>4 DEF Inserted, Kept
    <2>2. QED
      BY <1>2, <1>3, <1>4, <1>5, <2>1 DEF TokensStep
  <1>7. TombStep
    BY <1>2, <1>4 DEF TombStep, Live
  <1>8. TokenWithinSession'
    BY <1>2, <1>3, <1>4, <1>5 DEF TokenWithinSession, Live
  <1>9. QED
    BY <1>1, <1>6, <1>7, <1>8, ReturnRequests DEF TokenFacts

\* RefreshSession rotates its token, or leaves the table alone.
LEMMA RefreshTokens ==
    ASSUME IInv, TokenWithinSession, NEW r \in Requests, RefreshSessionCommit(r)
    PROVE  TokenFacts
  <1> DEFINE q == req[r]
             p == req[r].token
             n == NextFree(tokens)
             e == Earlier(q.at + RefreshTTL, sessions[q.session].expires)
             tok == NewToken(q.session, q.org, q.at, e, p)
  <1>1. /\ UNCHANGED sessions /\ Return(r) /\ Locked(r) /\ req[r].op = "refresh"
        /\ \/ UNCHANGED tokens
           \/ tokens' = [tokens EXCEPT ![p].consumed = TRUE, ![n] = tok]
    BY DEF RefreshSessionCommit, Locked
  <1>2. /\ n \in TokenIds /\ tokens[n].st = "free"
        /\ p \in TokenIds /\ Live(tokens[p]) /\ tokens[p] \in TokenType
        /\ tokens[p].session = q.session /\ q.session \in SessionIds
        /\ Live(sessions[q.session])
    <2>1. n \in TokenIds /\ tokens[n].st = "free"
      BY NextFreeIsFree DEF RefreshSessionCommit, IInv, TypeOK
    <2>2. QED
      BY <1>1, <2>1 DEF IInv, TypeOK, Shapes, Shape, NeedsToken, NeedsSession, ChecksHold, IssueOps
  <1>3. CASE UNCHANGED tokens
    BY <1>1, <1>3, ReturnRequests, TablesAlone
  <1>4. CASE tokens' = [tokens EXCEPT ![p].consumed = TRUE, ![n] = tok]
    <2>1. n # p
      BY <1>2 DEF Live
    <2>2. /\ Live(tok) /\ tok.session = q.session /\ tok.parent = p /\ ~tok.consumed
          /\ tok.expires = e
      BY DEF NewToken, Live
    <2>3. e <= sessions[q.session].expires
      <3>1. q.at \in Int /\ sessions[q.session].expires \in Int
        BY <1>2, PolicyAssumption DEF IInv, TypeOK, RequestType, SessionType, Clock, Expiry
      <3>2. QED
        BY <3>1, PolicyAssumption DEF Earlier
    <2> DEFINE c == [tokens[p] EXCEPT !.consumed = TRUE]
    <2>4. /\ c.st = tokens[p].st /\ c.session = tokens[p].session /\ c.parent = tokens[p].parent
          /\ c.consumed /\ c.expires = tokens[p].expires
      BY <1>2 DEF TokenType
    <2>5. tokens' = [tokens EXCEPT ![p] = c, ![n] = tok]
      BY <1>2, <1>4, <2>1 DEF IInv, TypeOK
    <2> HIDE DEF n, e, tok, c
    <2>6. /\ tokens'[p] = c /\ tokens'[n] = tok
          /\ \A t \in TokenIds \ {n, p} : tokens'[t] = tokens[t]
      BY <1>2, <2>1, <2>5 DEF IInv, TypeOK
    <2>7. req'[r] = Idle
      BY <1>1 DEF Return, IInv, TypeOK
    <2>8. Rotated(r, n)
      BY <1>1, <1>2, <2>1, <2>2, <2>4, <2>6, <2>7 DEF Rotated, Inserted, Kept, Live
    <2>9. TokensStep
      BY <1>2, <2>8 DEF TokensStep
    <2>10. TombStep
      BY <1>2, <2>2, <2>4, <2>6 DEF TombStep, Live
    <2>11. TokenWithinSession'
      BY <1>1, <1>2, <2>2, <2>3, <2>4, <2>6 DEF TokenWithinSession, Live
    <2>12. QED
      BY <1>1, <2>9, <2>10, <2>11, ReturnRequests DEF TokenFacts
  <1>5. QED
    BY <1>1, <1>3, <1>4

\* SwitchSessionOrganization deletes what its statement saw and starts a new chain.
LEMMA SwitchTokens ==
    ASSUME IInv, TokenWithinSession, NEW r \in Requests, SwitchSessionOrganizationCommit(r)
    PROVE  TokenFacts
  <1> DEFINE q == req[r]
             n == NextFree(tokens)
             e == Earlier(q.at + RefreshTTL, sessions[q.session].expires)
             tok == NewToken(q.session, q.org, q.at, e, None)
  <1>1. /\ sessions' = [sessions EXCEPT ![q.session].org = q.org]
        /\ tokens' = [DeleteTokens(q.snap) EXCEPT ![n] = tok]
        /\ Return(r) /\ Locked(r) /\ q.op = "switch"
    BY DEF SwitchSessionOrganizationCommit, Locked
  <1>2. /\ n \in TokenIds /\ tokens[n].st = "free" /\ TypeOK
        /\ q.session \in SessionIds /\ Live(sessions[q.session])
        /\ \A t \in q.snap : tokens[t].st # "free"
    <2>1. n \in TokenIds /\ tokens[n].st = "free"
      BY NextFreeIsFree DEF SwitchSessionOrganizationCommit, IInv, TypeOK
    <2>2. QED
      BY <1>1, <2>1 DEF IInv, Shapes, Shape, NeedsSession, ChecksHold, IssueOps
  <1>3. /\ Live(tok) /\ tok.session = q.session /\ tok.parent = None /\ ~tok.consumed
        /\ tok.expires = e
    BY DEF NewToken, Live
  <1>4. e <= sessions[q.session].expires
    <2>1. q.at \in Int /\ sessions[q.session].expires \in Int
      BY <1>2, PolicyAssumption DEF TypeOK, RequestType, SessionType, Clock, Expiry
    <2>2. QED
      BY <2>1, PolicyAssumption DEF Earlier
  <1>5. \A s \in SessionIds : /\ sessions'[s].expires = sessions[s].expires
                              /\ sessions'[s].st = sessions[s].st
                              /\ sessions'[s].revoked = sessions[s].revoked
    BY <1>1, <1>2 DEF TypeOK, SessionType
  <1> DEFINE D == DeleteTokens(q.snap)
  <1>6. /\ D \in [TokenIds -> TokenType]
        /\ \A t \in TokenIds : /\ t \notin q.snap => D[t] = tokens[t]
                               /\ t \in q.snap => D[t].st = "deleted"
                               /\ D[t].session = tokens[t].session
    BY <1>2, DeleteTokensFacts
  <1>7. \A t \in TokenIds : /\ D[t].parent = tokens[t].parent
                            /\ D[t].consumed = tokens[t].consumed
                            /\ D[t].expires = tokens[t].expires
    BY <1>2 DEF DeleteTokens, TypeOK, TokenType
  <1> HIDE DEF n, e, tok, D
  <1>8. /\ tokens'[n] = tok /\ \A t \in TokenIds \ {n} : tokens'[t] = D[t]
    BY <1>1, <1>2, <1>6 DEF D
  <1>9. \A t \in TokenIds \ {n} : Kept(t)
    <2>1. \A t \in TokenIds : t \in q.snap => tokens[t].st \in {"live", "deleted"}
      BY <1>2 DEF TypeOK, TokenType
    <2>2. QED
      BY <1>6, <1>7, <1>8, <2>1 DEF Kept, Live
  <1>10. TokensStep
    <2>1. Inserted(n, None)
      BY <1>2, <1>3, <1>8 DEF Inserted
    <2>2. \A t \in q.snap : ~Live(tokens'[t])
      <3>1. q.snap \subseteq TokenIds \ {n}
        BY <1>2 DEF TypeOK, RequestType
      <3>2. QED
        BY <1>6, <1>8, <3>1 DEF Live
    <2>3. req'[r] = Idle
      BY <1>1, <1>2 DEF Return, TypeOK
    <2>4. Switched(r, n)
      BY <1>1, <1>3, <1>8, <2>2, <2>3 DEF Switched, Switching
    <2>5. QED
      BY <1>2, <1>9, <2>1, <2>4 DEF TokensStep
  <1>11. TombStep
    BY <1>1 DEF TombStep
  <1>12. TokenWithinSession'
    <2>1. \A t \in TokenIds : Live(tokens[t]) => tokens[t].session \in SessionIds
      BY DEF IInv, Rows, Live
    <2>2. QED
      BY <1>2, <1>3, <1>4, <1>5, <1>8, <1>9, <2>1 DEF TokenWithinSession, Live, Kept
  <1>13. QED
    BY <1>1, <1>10, <1>11, <1>12, ReturnRequests DEF TokenFacts

\* A revocation deletes tokens of sessions that it revokes.
LEMMA RevokeTokens ==
    ASSUME IInv, TokenWithinSession, NEW r \in Requests, RevokeCommit(r)
    PROVE  TokenFacts
  <1> DEFINE q == req[r]
             S == Revoked(q)
             L == {s \in S : Live(sessions[s])}
             T == UNION {TokensOf(s) : s \in S}
  <1>1. RequestsStep
    BY ReturnRequests DEF RevokeCommit
  <1>2. CASE CommitFails(q)
    BY <1>1, <1>2, TablesAlone DEF RevokeCommit, db
  <1>3. CASE ~CommitFails(q)
    <2>1. /\ sessions' = RevokeSessions(L)
          /\ tokens' = DeleteTokens(T) \/ tokens' = tokens
      BY <1>3 DEF RevokeCommit
    <2>2. /\ TypeOK
          /\ \A t \in TokenIds : t \in T => /\ Live(tokens[t]) /\ tokens[t].st # "free"
                                            /\ tokens[t].session \in S
      BY DEF IInv, TokensOf, Live
    <2>3. L = {s \in S : Live(sessions[s])}
      OBVIOUS
    <2> HIDE DEF S, L, T
    <2>4. \A t \in TokenIds : Kept(t) /\ (Live(tokens'[t]) => Live(tokens[t]))
                              /\ (Live(tokens[t]) /\ ~Live(tokens'[t]) => t \in T)
      <3>1. CASE tokens' = DeleteTokens(T)
        BY <2>2, <3>1, TokensDeleted
      <3>2. CASE tokens' = tokens
        BY <3>2 DEF Kept
      <3>3. QED
        BY <2>1, <3>1, <3>2
    <2>5. \A s \in SessionIds : /\ s \in L => sessions'[s].revoked
                                /\ sessions'[s].st = sessions[s].st
                                /\ sessions'[s].expires = sessions[s].expires
      BY <2>1, <2>2, RevokeSessionsFacts, SessionExpiryStays
    <2>6. \A t \in TokenIds : Live(tokens[t]) => tokens[t].session \in SessionIds
      BY DEF IInv, Rows, Live
    <2>7. TombStep
      BY <2>2, <2>3, <2>4, <2>5, <2>6, TokenWithinSession DEF TombStep, TokenWithinSession
    <2>8. TokenWithinSession'
      BY <2>4, <2>5, <2>6 DEF TokenWithinSession, Live, Kept
    <2>9. QED
      BY <1>1, <2>4, <2>7, <2>8 DEF TokenFacts, TokensStep
  <1>4. QED
    BY <1>2, <1>3

\* RemoveOrganizationMember deletes the tokens of the sessions it deletes.
LEMMA RemovalTokens ==
    ASSUME IInv, TokenWithinSession, NEW r \in Requests, RemoveOrganizationMemberCommit(r)
    PROVE  TokenFacts
  <1> DEFINE S == {s \in SessionsOf(req[r].user) : sessions[s].org = req[r].org}
             T == UNION {TokensOf(s) : s \in S}
  <1>1. /\ sessions' = DeleteSessions(S) /\ tokens' = DeleteTokens(T) /\ Return(r)
        /\ S \in SUBSET SessionIds
        /\ \A t \in TokenIds : t \in T <=> \E s \in S : t \in TokensOf(s)
    BY DEF RemoveOrganizationMemberCommit, SessionsOf
  <1> HIDE DEF S, T
  <1>2. QED
    BY <1>1, ReturnRequests, SessionsDeleted

\* Cleanup deletes expired tokens that are not consumed, and whole sessions.
LEMMA EnvironmentTokens ==
    ASSUME IInv, TokenWithinSession, Environment
    PROVE  TokenFacts
  <1>1. RequestsStep
    BY ReturnRequests
    DEF Environment, Tick, SetAccessTokenTTL, LogoutAccessToken, EnableUser, AddMembership,
        DeleteExpiredRefreshTokens, DeleteExpiredSessions, DeleteRevokedSessions, DeleteSession
  <1>2. ASSUME NEW s \in SessionIds, DeleteSession(s) PROVE TokenFacts
    <2> DEFINE S == {s}
               T == TokensOf(s)
    <2>1. /\ sessions' = DeleteSessions(S) /\ tokens' = DeleteTokens(T)
          /\ S \in SUBSET SessionIds
          /\ \A t \in TokenIds : t \in T <=> \E x \in S : t \in TokensOf(x)
      BY <1>2 DEF DeleteSession
    <2> HIDE DEF S, T
    <2>2. QED
      BY <1>1, <2>1, SessionsDeleted
  <1>3. ASSUME NEW t \in TokenIds, DeleteExpiredRefreshTokens(t) PROVE TokenFacts
    <2>1. /\ TypeOK /\ tokens' = DeleteTokens({t}) /\ UNCHANGED sessions
          /\ tokens[t].st # "free" /\ ~tokens[t].consumed
      BY <1>3 DEF DeleteExpiredRefreshTokens, ExpiredToken, Live, IInv
    <2>2. \A x \in TokenIds : Kept(x) /\ (Live(tokens'[x]) <=> Live(tokens[x]) /\ x \notin {t})
      BY <2>1, TokensDeleted
    <2>3. TombStep
      BY <2>1, <2>2 DEF TombStep
    <2>4. TokenWithinSession'
      BY <2>1, <2>2 DEF TokenWithinSession, Kept
    <2>5. QED
      BY <1>1, <2>2, <2>3, <2>4 DEF TokenFacts, TokensStep
  <1>4. CASE UNCHANGED <<sessions, tokens>>
    BY <1>1, <1>4, TablesAlone
  <1>5. QED
    BY <1>2, <1>3, <1>4
    DEF Environment, Tick, SetAccessTokenTTL, LogoutAccessToken, EnableUser, AddMembership,
        DeleteExpiredSessions, DeleteRevokedSessions, db

\* Every step is one of the kinds above.
LEMMA StepTokenFacts ==
    ASSUME IInv, TokenWithinSession, [Next]_vars
    PROVE  TokenFacts
  <1>1. CASE UNCHANGED vars
    BY <1>1, ReturnRequests, TablesAlone DEF vars, db
  <1>2. ASSUME NEW r \in Requests, Start(r) \/ Step(r) \/ RevokeMarkFails(r) \/ Abort(r)
        PROVE  TokenFacts
    BY <1>2, StartRequests, LockRequests, TablesAlone, CreateTokens, RefreshTokens,
       SwitchTokens, RevokeTokens, RemovalTokens DEF Step
  <1>3. QED
    BY <1>1, <1>2, EnvironmentTokens DEF Next

\* The initial state has no token and no request.
LEMMA InitRInv == Init => RInv
  <1> SUFFICES ASSUME Init PROVE RInv
    OBVIOUS
  <1>1. \A t \in TokenIds : tokens[t] = FreeToken
    BY DEF Init
  <1>2. FreeToken.st = "free" /\ FreeToken.parent = None /\ ~FreeToken.consumed
    BY DEF FreeToken
  <1>3. \A r \in Requests : req[r].pc = "idle" /\ req[r].op = "none"
    BY DEF Init, Idle
  <1>4. QED
    BY <1>1, <1>2, <1>3
    DEF RInv, Lineage, RotatedOnce, TokenLocks, SwitchLocks, Switching, TokenWithinSession,
        Live, Locked

\* RInv is inductive relative to IInv.
LEMMA NextRInv == IInv /\ RInv /\ [Next]_vars => RInv'
  <1> SUFFICES ASSUME IInv, RInv, [Next]_vars PROVE RInv'
    OBVIOUS
  <1>1. TokenFacts
    BY StepTokenFacts DEF RInv
  <1>2. IInv'
    BY NextIInv
  <1>3. Lineage'
    BY <1>1, <1>2, LineageStays DEF RInv, IInv, TypeOK, TokenFacts
  <1>4. TokenLocks'
    BY <1>1, <1>2, TokenLocksStay DEF RInv, IInv, TypeOK, TokenFacts
  <1>5. SwitchLocks'
    BY <1>1, SwitchLocksStay DEF RInv, TokenFacts
  <1>6. QED
    BY <1>1, <1>3, <1>4, <1>5 DEF RInv, TokenFacts

\* Refresh tokens: what rotation needs of the locks and the re-read holds in every
\* reachable state.
THEOREM RefreshInvariance == Spec => []RInv
  <1>1. Spec => [](IInv /\ RInv)
    BY InitIInv, InitRInv, NextIInv, NextRInv, PTL DEF Spec
  <1>2. QED
    BY <1>1, PTL

\* RefreshSession never makes two successors of one token, however many requests
\* present it at the same time.
THEOREM RotatesOnce == Spec => []RotatedOnce
  <1>1. RInv => RotatedOnce
    BY DEF RInv, Lineage
  <1>2. QED
    BY <1>1, RefreshInvariance, PTL

\* No refresh token is live without its session or expires after it, whatever
\* refreshes, switches, revokes, removes and cleans up at the same time.
THEOREM TokensEndWithSession == Spec => []TokenWithinSession
  <1>1. RInv => TokenWithinSession
    BY DEF RInv
  <1>2. QED
    BY <1>1, RefreshInvariance, PTL

\* One usable token per session is inductive relative to RInv, in steps that leave a
\* switch alone on its session.
LEMMA NextOneUsable ==
    IInv /\ RInv /\ OneUsable /\ [Next]_vars /\ [Undisturbed]_vars => OneUsable'
  <1> SUFFICES ASSUME IInv, RInv, OneUsable, [Next]_vars, [Undisturbed]_vars PROVE OneUsable'
    OBVIOUS
  <1>1. CASE UNCHANGED vars
    BY <1>1 DEF vars, db, OneUsable, TokensOf, Live, Switching, Locked
  <1>2. CASE Undisturbed
    BY <1>2, StepTokenFacts, NextIInv, OneUsableStays DEF TokenFacts, RInv
  <1>3. QED
    BY <1>1, <1>2

\* At the start there is none.
LEMMA InitOneUsable == Init => OneUsable
  BY DEF Init, OneUsable, Live, FreeToken, Idle, Switching, Locked

\* Two usable tokens that are the same are at most one.
LEMMA OneUsableIsOneLive ==
    ASSUME OneUsable
    PROVE  OneLiveToken
  <1> SUFFICES ASSUME NEW s \in SessionIds
               PROVE  Cardinality({t \in TokensOf(s) : ~tokens[t].consumed}) <= 1
    BY DEF OneLiveToken
  <1> DEFINE U == {t \in TokensOf(s) : ~tokens[t].consumed}
  <1>1. \A t1, t2 \in U : t1 = t2
    BY DEF OneUsable, TokensOf
  <1>2. CASE U = {}
    BY <1>2, FS_EmptySet
  <1>3. ASSUME NEW t \in U PROVE Cardinality(U) <= 1
    <2>1. U = {t}
      BY <1>1, <1>3
    <2>2. Cardinality(U) = 1
      BY <2>1, FS_Singleton
    <2>3. QED
      BY <2>2
  <1>4. QED
    BY <1>2, <1>3

\* RefreshSession and SwitchSessionOrganization: as long as no refresh commits while
\* a switch of its session waits in its DELETE, a session has at most one refresh
\* token that can still be used, however logins, refreshes, switches, revocations and
\* cleanup interleave otherwise.
THEOREM OneTokenRemains == Spec /\ [][Undisturbed]_vars => []OneLiveToken
  <1>1. IInv /\ RInv /\ OneUsable /\ [Next]_vars /\ [Undisturbed]_vars => OneUsable'
    BY NextOneUsable
  <1>2. OneUsable => OneLiveToken
    BY OneUsableIsOneLive
  <1>3. QED
    BY <1>1, <1>2, InitOneUsable, Invariance, RefreshInvariance, PTL DEF Spec

\* In particular in a system in which sessions do not switch organization.
THEOREM OneTokenWithoutSwitch ==
    ASSUME "switch" \notin Ops
    PROVE  Spec => []OneLiveToken
  <1>1. RInv => Undisturbed
    BY DEF RInv, SwitchLocks, Undisturbed, Switching
  <1>2. RInv => [Undisturbed]_vars
    BY <1>1
  <1>3. QED
    BY <1>2, OneTokenRemains, RefreshInvariance, PTL

\* A consumed token is deleted only together with its session's end.
TombsKept ==
    \A t \in TokenIds :
         Live(tokens[t]) /\ tokens[t].consumed /\ ~Live(tokens'[t]) =>
            LET s == tokens[t].session
            IN  sessions'[s].revoked \/ ~Live(sessions'[s])

NoSwitchCommits == \A r \in Requests : ~SwitchSessionOrganizationCommit(r)

\* Until a switch of organization commits, a consumed token stays while its session is
\* usable: whoever replays it is still noticed (the comment of DeleteExpiredRefreshTokens).
THEOREM TombstonesRemain == Spec /\ [][NoSwitchCommits]_vars => TombstonesKept
  <1>1. IInv /\ RInv /\ [Next]_vars /\ [NoSwitchCommits]_vars => [TombsKept]_vars
    BY StepTokenFacts DEF TokenFacts, TombStep, TombsKept, RInv, NoSwitchCommits
  <1>2. Spec /\ [][NoSwitchCommits]_vars => [][TombsKept]_vars
    BY <1>1, Invariance, RefreshInvariance, PTL DEF Spec
  <1>3. QED
    BY <1>2 DEF TombstonesKept, TombsKept

\* In particular in a system in which sessions do not switch organization.
THEOREM TombstonesWithoutSwitch ==
    ASSUME "switch" \notin Ops
    PROVE  Spec => TombstonesKept
  <1>1. RInv => NoSwitchCommits
    BY DEF RInv, SwitchLocks, NoSwitchCommits, SwitchSessionOrganizationCommit
  <1>2. RInv => [NoSwitchCommits]_vars
    BY <1>1
  <1>3. QED
    BY <1>2, TombstonesRemain, RefreshInvariance, PTL

-----------------------------------------------------------------------------
(* Access tokens.                                                          *)

\* Issued at most now, valid at most as long as a marker lives.
AccessTimes ==
    /\ \A a \in AccessIds : access[a].st = "issued" =>
          access[a].iat <= now /\ access[a].exp <= access[a].iat + MaxAccessTTL
    /\ \A r \in Requests : req[r].at <= now

Issued(a) == access[a].st = "issued"
UserOf(a) == sessions[access[a].session].user

\* A cutoff that is not older than the token and does not vanish before it.
CutBy(a, c) == access[a].iat <= c.at /\ access[a].exp <= c.until

\* The token is rejected, and will be at every later time.
Dead(a) ==
    \/ access[a].exp <= now
    \/ a \in revokedJti
    \/ CutBy(a, sessionCutoff[access[a].session])
    \/ CutBy(a, userCutoff[UserOf(a)])
    \/ CutBy(a, memberCutoff[<<UserOf(a), access[a].org>>])

\* FOR UPDATE of an organization row excludes the transactions that issue tokens
\* for it, whose membership is therefore still there.
OrgLocks ==
    /\ \A r1, r2 \in Requests : \A o \in Orgs : HoldsOrgUpdate(r1, o) => ~HoldsOrgKeyShare(r2, o)
    /\ \A r \in Requests : Locked(r) /\ req[r].op \in IssueOps =>
          <<req[r].user, req[r].org>> \in members

\* Every token of a disabled user is dead, and already under the lock of a
\* transaction that has marked the user.
UsersDead ==
    \A a \in AccessIds : Issued(a) =>
        /\ UserOf(a) \in disabled => Dead(a)
        /\ \A r \in Requests :
              Locked(r) /\ req[r].op \in UserOps /\ req[r].user = UserOf(a) => Dead(a)

\* The same of a member that is or is about to be removed.
MembersDead ==
    \A a \in AccessIds : Issued(a) =>
        /\ <<UserOf(a), access[a].org>> \notin members => Dead(a)
        /\ \A r \in Requests :
              /\ Locked(r) /\ req[r].op = "removeMember"
              /\ req[r].user = UserOf(a) /\ req[r].org = access[a].org
              => Dead(a)

\* RevokeOtherUserSessions and ChangePassword do not mark sessions that have
\* expired, although they revoke them.
Unmarked(s) == Ops \cap OtherOps # {} /\ sessions[s].expires <= now

\* The same of a session that is or is about to be revoked.
SessionsDead ==
    "verifyEmail" \notin Ops =>
        /\ \A r \in Requests : req[r].op # "verifyEmail" /\ (req[r].op \in OtherOps => req[r].op \in Ops)
        /\ \A a \in AccessIds : Issued(a) /\ access[a].session \notin lostCutoff /\ ~Unmarked(access[a].session) =>
            /\ sessions[access[a].session].revoked => Dead(a)
            /\ \A r \in Requests :
                  Locked(r) /\ req[r].op \in RevokeOps /\ access[a].session \in Revoked(req[r]) => Dead(a)

\* What a transaction is about to revoke is dead under its locks already, of whatever
\* operation it is.
RevokersCut ==
    \A r \in Requests, a \in AccessIds : Issued(a) /\ Locked(r) /\ Cuts(req[r], a) => Dead(a)

\* A cutoff outlives every token that is not newer than it.
Outlives(c) == c.at <= 0 \/ c.until >= c.at + MaxAccessTTL
CutoffsOutlive ==
    /\ \A s \in SessionIds : Outlives(sessionCutoff[s])
    /\ \A u \in Users : Outlives(userCutoff[u])
    /\ \A m \in Users \X Orgs : Outlives(memberCutoff[m])

AInv == /\ AccessTimes /\ OrgLocks /\ UsersDead /\ MembersDead /\ SessionsDead
        /\ RevokersCut /\ CutoffsOutlive

\* A cutoff moves forward, if at all, and not past the present.
Grown(c, d) == d = c \/ \E at \in Clock : at <= now /\ d = SetMax(c, at)

CutoffsGrow ==
    /\ now <= now' /\ revokedJti \subseteq revokedJti'
    /\ \A s \in SessionIds : Grown(sessionCutoff[s], sessionCutoff'[s])
    /\ \A u \in Users : Grown(userCutoff[u], userCutoff'[u])
    /\ \A m \in Users \X Orgs : Grown(memberCutoff[m], memberCutoff'[m])

\* A session keeps its user and its expiry and is never brought back.
SessionsStay ==
    \A s \in SessionIds : sessions[s].st # "free" =>
        /\ sessions'[s].user = sessions[s].user /\ sessions'[s].expires = sessions[s].expires
        /\ sessions[s].revoked => sessions'[s].revoked
        /\ Live(sessions'[s]) => Live(sessions[s])

\* An access token is issued by a request that holds its locks.
IssuedBy(r, a) ==
    /\ access[a].st = "free" /\ Locked(r) /\ req[r].op \in IssueOps
    /\ access'[a].iat = req[r].at /\ access'[a].exp = req[r].at + accessTTL
    /\ access'[a].org = req[r].org /\ access'[a].session \in SessionIds
    /\ sessions'[access'[a].session].user = req[r].user
    /\ ~sessions'[access'[a].session].revoked
    /\ req'[r] = Idle /\ \A x \in Requests \ {r} : req'[x] = req[x]
    /\ UNCHANGED <<now, disabled, members>>

AccessStep == \A a \in AccessIds : access'[a] = access[a] \/ \E r \in Requests : IssuedBy(r, a)

\* A request gets its locks, and has written what its operation marks.
JustLocked(x) ==
    LET q == req[x] IN
    /\ UNCHANGED <<now, db, access>>
    /\ req'[x].op = q.op /\ req'[x].user = q.user /\ req'[x].session = q.session
    /\ req'[x].org = q.org /\ req'[x].at = q.at
    /\ \A y \in Requests \ {x} : req'[y] = req[y]
    /\ q.op \in IssueOps => <<q.user, q.org>> \in members /\ LockOrganizationForKeyShare(q.org)
    /\ q.op \in UserOps => userCutoff'[q.user] = SetMax(userCutoff[q.user], now)
    /\ q.op \in SessionOps \ {"verifyEmail"} =>
          q.session \in lostCutoff' \/ sessionCutoff'[q.session] = SetMax(sessionCutoff[q.session], now)
    /\ q.op = "verifyEmail" => sessionCutoff'[q.session] = SetMax(sessionCutoff[q.session], q.at)
    /\ q.op \in OtherOps =>
          \A s \in OtherActive(q) : sessionCutoff'[s] = SetMax(sessionCutoff[s], now)
    /\ q.op = "removeMember" =>
          /\ memberCutoff'[<<q.user, q.org>>] = SetMax(memberCutoff[<<q.user, q.org>>], now)
          /\ GetOrganizationByIDForUpdate(q.org)

RequestsMove ==
    \A x \in Requests :
        /\ req'[x].op \in OtherOps \cup {"verifyEmail"} => req'[x].op = req[x].op \/ req'[x].op \in Ops
        /\ \/ req'[x] = req[x]
           \/ req'[x].pc # "locked" /\ (req'[x].at <= now \/ req'[x].at = req[x].at)
           \/ JustLocked(x)

\* Users are disabled, members removed and sessions revoked by requests that hold
\* the locks for it, and no access token is issued by the same step.
LossesLocked ==
    /\ \A u \in disabled' \ disabled :
          \E r \in Requests : Locked(r) /\ req[r].op = "disable" /\ req[r].user = u
    /\ \A u \in Users, o \in Orgs : <<u, o>> \in members /\ <<u, o>> \notin members' =>
          \E r \in Requests : Locked(r) /\ req[r].op = "removeMember" /\ req[r].user = u /\ req[r].org = o
    /\ \A s \in SessionIds : sessions'[s].revoked /\ ~sessions[s].revoked =>
          \E r \in Requests : Locked(r) /\ req[r].op \in RevokeOps /\ s \in Revoked(req[r])

\* What was lost is written again, under the lock of its user.
CutoffsRecovered ==
    \A s \in lostCutoff \ lostCutoff' :
        /\ LockUserForUpdate(sessions[s].user)
        /\ \/ \E r \in Requests : req[r].op = "verifyEmail"
           \/ sessionCutoff'[s] = SetMax(sessionCutoff[s], now)
           \/ userCutoff'[sessions[s].user] = SetMax(userCutoff[sessions[s].user], now)

AccessFacts ==
    CutoffsGrow /\ SessionsStay /\ AccessStep /\ RequestsMove /\ LossesLocked /\ CutoffsRecovered

\* Times are integers.
LEMMA TimesAreIntegers ==
    ASSUME IInv
    PROVE  /\ now \in Int
           /\ \A s \in SessionIds : sessions[s].expires \in Int
           /\ \A x \in Requests : req[x].at \in Int
  <1>1. /\ now \in 1 .. MaxTime /\ \A s \in SessionIds : sessions[s] \in SessionType
        /\ \A x \in Requests : req[x] \in RequestType
    BY DEF IInv, TypeOK
  <1>2. QED
    BY <1>1, PolicyAssumption DEF SessionType, RequestType, Expiry, Clock

\* The clock of the next state is a number.
LEMMA NextNowIsInteger == ASSUME IInv' PROVE now' \in Int
  BY PolicyAssumption DEF IInv, TypeOK

\* A dead token is rejected.
LEMMA DeadRejected ==
    ASSUME IInv, NEW a \in AccessIds, Issued(a), Dead(a)
    PROVE  ~Accepted(a)
  <1>1. /\ access[a].session \in SessionIds /\ UserOf(a) \in Users /\ access[a].org \in Orgs
        /\ access[a].iat \in Int /\ access[a].exp \in Int /\ now \in Int
    BY PolicyAssumption DEF Issued, UserOf, IInv, Rows, TypeOK, AccessType, Clock, Expiry
  <1>2. ASSUME NEW c \in CutoffType, CutBy(a, c), now < access[a].exp
        PROVE  ~(access[a].iat > CutoffAt(c))
    <2>1. c.at \in Int /\ c.until \in Int
      BY PolicyAssumption DEF CutoffType, Clock, Expiry
    <2>2. QED
      BY <1>1, <1>2, <2>1 DEF CutBy, CutoffAt
  <1>3. /\ sessionCutoff[access[a].session] \in CutoffType
        /\ userCutoff[UserOf(a)] \in CutoffType
        /\ memberCutoff[<<UserOf(a), access[a].org>>] \in CutoffType
    BY <1>1 DEF IInv, TypeOK
  <1>4. SUFFICES ASSUME Accepted(a) PROVE FALSE
    OBVIOUS
  <1>5. /\ now < access[a].exp /\ a \notin revokedJti
        /\ access[a].iat > CutoffAt(sessionCutoff[access[a].session])
        /\ access[a].iat > CutoffAt(userCutoff[UserOf(a)])
        /\ access[a].iat > CutoffAt(memberCutoff[<<UserOf(a), access[a].org>>])
    BY <1>4 DEF Accepted, UserOf
  <1>6. QED
    BY <1>1, <1>2, <1>3, <1>5 DEF Dead

\* The same in the next state.
LEMMA DeadRejectedNext ==
    ASSUME NEW a \in AccessIds
    PROVE  (IInv /\ Issued(a) /\ Dead(a) => ~Accepted(a))'
  <1>1. IInv /\ Issued(a) /\ Dead(a) => ~Accepted(a)
    BY DeadRejected
  <1>2. QED
    BY <1>1, PTL

\* A cutoff at some time up to now cuts every token issued up to that time.
LEMMA CutAt ==
    ASSUME IInv, AccessTimes, NEW a \in AccessIds, Issued(a), NEW c \in CutoffType,
           NEW at \in Int, access[a].iat <= at, at <= now
    PROVE  CutBy(a, SetMax(c, at))
  <1>1. /\ access[a].iat \in Int /\ access[a].exp \in Int /\ now \in Int
        /\ MaxAccessTTL \in Int /\ accessTTL <= MaxAccessTTL /\ accessTTL \in Int
        /\ access[a].iat <= now /\ access[a].exp <= access[a].iat + MaxAccessTTL
    BY PolicyAssumption DEF Issued, AccessTimes, IInv, TypeOK, AccessType, Clock, Expiry
  <1>2. c.at \in Int /\ c.until \in Int
    BY PolicyAssumption DEF CutoffType, Clock, Expiry
  <1>3. CutoffAt(c) \in Int
    BY <1>2 DEF CutoffAt
  <1>4. access[a].iat <= Later(CutoffAt(c), at)
    BY <1>1, <1>3 DEF Later
  <1>5. access[a].exp <= Later(IF now < c.until THEN c.until ELSE 0, now + MarkerTTL)
    BY <1>1, <1>2 DEF Later, MarkerTTL
  <1>6. QED
    BY <1>4, <1>5 DEF CutBy, SetMax

\* A cutoff at the present time cuts every token issued so far.
LEMMA CutNow ==
    ASSUME IInv, AccessTimes, NEW a \in AccessIds, Issued(a), NEW c \in CutoffType
    PROVE  CutBy(a, SetMax(c, now))
  BY CutAt, TimesAreIntegers DEF AccessTimes, Issued

\* A token that is cut stays cut, or has expired.
LEMMA CutStays ==
    ASSUME IInv, NEW a \in AccessIds, Issued(a), NEW c \in CutoffType, CutBy(a, c),
           NEW d, Grown(c, d)
    PROVE  CutBy(a, d) \/ access[a].exp <= now
  <1>1. /\ access[a].iat \in Int /\ access[a].exp \in Int /\ now \in Int
        /\ c.at \in Int /\ c.until \in Int /\ accessTTL \in Int /\ MaxAccessTTL \in Int
    BY PolicyAssumption DEF IInv, TypeOK, AccessType, CutoffType, Clock, Expiry
  <1>2. ASSUME NEW at \in Clock, now < c.until PROVE CutBy(a, SetMax(c, at))
    <2>1. at \in Int
      BY PolicyAssumption DEF Clock
    <2>2. access[a].iat <= Later(CutoffAt(c), at)
      BY <1>1, <1>2, <2>1 DEF Later, CutoffAt, CutBy
    <2>3. access[a].exp <= Later(IF now < c.until THEN c.until ELSE 0, now + MarkerTTL)
      BY <1>1, <1>2 DEF Later, CutBy, MarkerTTL
    <2>4. QED
      BY <2>2, <2>3 DEF CutBy, SetMax
  <1>3. ~(now < c.until) => access[a].exp <= now
    BY <1>1 DEF CutBy
  <1>4. QED
    BY <1>2, <1>3 DEF Grown

\* What is dead stays dead.
LEMMA DeadStays ==
    ASSUME IInv, IInv', CutoffsGrow, SessionsStay, NEW a \in AccessIds, Issued(a),
           access'[a] = access[a], Dead(a)
    PROVE  Dead(a)'
  <1>1. /\ access[a].session \in SessionIds /\ sessions[access[a].session].st # "free"
        /\ UserOf(a) \in Users /\ access[a].org \in Orgs
    BY DEF Issued, UserOf, IInv, Rows
  <1>2. UserOf(a)' = UserOf(a)
    BY <1>1 DEF UserOf, SessionsStay
  <1>3. /\ access[a].exp \in Int /\ now \in Int /\ now' \in Int /\ now <= now'
    BY PolicyAssumption DEF IInv, TypeOK, AccessType, Expiry, CutoffsGrow
  <1>4. /\ sessionCutoff[access[a].session] \in CutoffType
        /\ userCutoff[UserOf(a)] \in CutoffType
        /\ memberCutoff[<<UserOf(a), access[a].org>>] \in CutoffType
    BY <1>1 DEF IInv, TypeOK
  <1>5. /\ Grown(sessionCutoff[access[a].session], sessionCutoff'[access[a].session])
        /\ Grown(userCutoff[UserOf(a)], userCutoff'[UserOf(a)])
        /\ Grown(memberCutoff[<<UserOf(a), access[a].org>>], memberCutoff'[<<UserOf(a), access[a].org>>])
    BY <1>1 DEF CutoffsGrow
  <1>6. ASSUME NEW d, CutBy(a, d) PROVE access'[a].iat <= d.at /\ access'[a].exp <= d.until
    BY <1>6 DEF CutBy
  <1>7. CASE access[a].exp <= now
    <2>1. access'[a].exp <= now'
      BY <1>3, <1>7
    <2>2. QED
      BY <2>1 DEF Dead
  <1>8. CASE a \in revokedJti
    BY <1>8 DEF Dead, CutoffsGrow
  <1>9. CASE CutBy(a, sessionCutoff[access[a].session])
    <2>1. CutBy(a, sessionCutoff'[access[a].session]) \/ access[a].exp <= now
      BY <1>4, <1>5, <1>9, CutStays
    <2>2. QED
      BY <1>7, <2>1 DEF Dead, CutBy
  <1>10. CASE CutBy(a, userCutoff[UserOf(a)])
    <2>1. CutBy(a, userCutoff'[UserOf(a)]) \/ access[a].exp <= now
      BY <1>4, <1>5, <1>10, CutStays
    <2>2. QED
      BY <1>2, <1>7, <2>1 DEF Dead, CutBy
  <1>11. CASE CutBy(a, memberCutoff[<<UserOf(a), access[a].org>>])
    <2>1. CutBy(a, memberCutoff'[<<UserOf(a), access[a].org>>]) \/ access[a].exp <= now
      BY <1>4, <1>5, <1>11, CutStays
    <2>2. QED
      BY <1>2, <1>7, <2>1 DEF Dead, CutBy
  <1>12. QED
    BY <1>7, <1>8, <1>9, <1>10, <1>11 DEF Dead

\* Locks of organizations exclude each other, and memberships go only under them.
LEMMA OrgLocksStay ==
    ASSUME IInv, IInv', OrgLocks, AccessFacts
    PROVE  OrgLocks'
  <1> USE DEF IssueOps
  <1>1. \A x \in Requests : req'[x].pc = "locked" => req'[x] = req[x] \/ JustLocked(x)
    BY DEF AccessFacts, RequestsMove
  <1>2. ASSUME NEW r1 \in Requests, NEW r2 \in Requests, NEW o \in Orgs,
               HoldsOrgUpdate(r1, o)', HoldsOrgKeyShare(r2, o)'
        PROVE  FALSE
    <2>1. /\ req'[r1].pc = "locked" /\ req'[r1].op = "removeMember" /\ req'[r1].org = o
          /\ req'[r2].pc = "locked" /\ req'[r2].op \in IssueOps /\ req'[r2].org = o
          /\ r1 # r2
      BY <1>2 DEF HoldsOrgUpdate, HoldsOrgKeyShare, Locked
    <2>2. CASE req'[r1] = req[r1] /\ req'[r2] = req[r2]
      BY <2>1, <2>2 DEF OrgLocks, HoldsOrgUpdate, HoldsOrgKeyShare, Locked
    <2>3. CASE JustLocked(r1)
      <3>1. GetOrganizationByIDForUpdate(o) /\ req'[r2] = req[r2]
        BY <2>1, <2>3 DEF JustLocked
      <3>2. QED
        BY <2>1, <3>1 DEF GetOrganizationByIDForUpdate, HoldsOrgKeyShare, Locked
    <2>4. CASE JustLocked(r2)
      <3>1. LockOrganizationForKeyShare(o) /\ req'[r1] = req[r1]
        BY <2>1, <2>4 DEF JustLocked
      <3>2. QED
        BY <2>1, <3>1 DEF LockOrganizationForKeyShare, HoldsOrgUpdate, Locked
    <2>5. QED
      BY <1>1, <2>1, <2>2, <2>3, <2>4
  <1>3. ASSUME NEW x \in Requests, req'[x].pc = "locked", req'[x].op \in IssueOps
        PROVE  <<req'[x].user, req'[x].org>> \in members'
    <2>1. CASE JustLocked(x)
      BY <1>3, <2>1 DEF JustLocked, db
    <2>2. CASE req'[x] = req[x]
      <3>1. /\ <<req[x].user, req[x].org>> \in members
            /\ req[x].user \in Users /\ req[x].org \in Orgs /\ HoldsOrgKeyShare(x, req[x].org)
        BY <1>3, <2>2 DEF OrgLocks, Locked, HoldsOrgKeyShare, IInv, Shapes, Shape, NeedsOrg
      <3>2. ASSUME <<req[x].user, req[x].org>> \notin members' PROVE FALSE
        <4>1. PICK r \in Requests : Locked(r) /\ req[r].op = "removeMember" /\ req[r].org = req[x].org
          BY <3>1, <3>2 DEF AccessFacts, LossesLocked
        <4>2. QED
          BY <3>1, <4>1 DEF OrgLocks, HoldsOrgUpdate
      <3>3. QED
        BY <2>2, <3>2
    <2>3. QED
      BY <1>1, <1>3, <2>1, <2>2
  <1>4. QED
    BY <1>2, <1>3 DEF OrgLocks, Locked

\* Access tokens are issued at the clock of their request and live no longer than a marker.
LEMMA AccessTimesStay ==
    ASSUME IInv, IInv', AccessTimes, AccessFacts
    PROVE  AccessTimes'
  <1>1. /\ now \in Int /\ now' \in Int /\ now <= now'
        /\ \A x \in Requests : req[x].at \in Int /\ req'[x].at \in Int
    BY PolicyAssumption DEF IInv, TypeOK, RequestType, Clock, AccessFacts, CutoffsGrow
  <1>2. \A x \in Requests : req'[x].at <= now'
    <2>1. \A x \in Requests : req'[x].at <= now \/ req'[x].at = req[x].at
      BY <1>1 DEF AccessFacts, RequestsMove, JustLocked
    <2>2. \A x \in Requests : req[x].at <= now
      BY DEF AccessTimes
    <2>3. QED
      BY <1>1, <2>1, <2>2
  <1>3. ASSUME NEW a \in AccessIds, Issued(a)'
        PROVE  access'[a].iat <= now' /\ access'[a].exp <= access'[a].iat + MaxAccessTTL
    <2>1. access'[a].iat \in Int /\ access[a].iat \in Int
      BY PolicyAssumption DEF IInv, TypeOK, AccessType, Clock
    <2>2. CASE access'[a] = access[a]
      BY <1>1, <1>3, <2>1, <2>2 DEF Issued, AccessTimes
    <2>3. ASSUME NEW r \in Requests, IssuedBy(r, a)
          PROVE  access'[a].iat <= now' /\ access'[a].exp <= access'[a].iat + MaxAccessTTL
      <3>1. accessTTL \in Int /\ accessTTL <= MaxAccessTTL /\ MaxAccessTTL \in Int
        BY PolicyAssumption DEF IInv, TypeOK
      <3>2. req[r].at <= now
        BY DEF AccessTimes
      <3>3. QED
        BY <1>1, <2>3, <3>1, <3>2 DEF IssuedBy
    <2>4. QED
      BY <2>2, <2>3 DEF AccessFacts, AccessStep
  <1>4. QED
    BY <1>2, <1>3 DEF AccessTimes, Issued

\* A token issued before the step is for the same user after it.
LEMMA IssuedBefore ==
    ASSUME IInv, SessionsStay, NEW a \in AccessIds, Issued(a)', access'[a] = access[a]
    PROVE  /\ Issued(a) /\ UserOf(a)' = UserOf(a) /\ UserOf(a) \in Users
           /\ access[a].session \in SessionIds /\ access[a].org \in Orgs
           /\ sessions[access[a].session].st # "free"
  BY DEF Issued, UserOf, IInv, Rows, SessionsStay

\* A request that holds its locks across the issue of a token is not for that user.
LEMMA IssuerExcludes ==
    ASSUME IInv, NEW a \in AccessIds, NEW r \in Requests, IssuedBy(r, a), NEW x \in Requests,
           req'[x].pc = "locked", req'[x].op \in RevokeOps
    PROVE  req'[x].user # UserOf(a)' /\ req'[x] = req[x]
  <1>1. x # r /\ req'[x] = req[x]
    BY DEF IssuedBy, Idle
  <1>2. /\ HoldsKeyShare(r, req[r].user) /\ req[r].user \in Users /\ UserOf(a)' = req[r].user
    BY DEF IssuedBy, HoldsKeyShare, IInv, Shapes, Shape, IssueOps, UserOf
  <1>3. HoldsUpdate(x, req[x].user)
    BY <1>1 DEF HoldsUpdate, Locked
  <1>4. QED
    BY <1>1, <1>2, <1>3 DEF IInv, UserLocks

\* The tokens of a user that is disabled stay dead, since no step issues one for that user.
LEMMA UsersDeadStay ==
    ASSUME IInv, IInv', AccessTimes, UsersDead, AccessFacts
    PROVE  UsersDead'
  <1>1. ASSUME NEW a \in AccessIds, Issued(a)'
        PROVE  /\ UserOf(a)' \in disabled' => Dead(a)'
               /\ \A x \in Requests :
                     req'[x].pc = "locked" /\ req'[x].op \in UserOps /\ req'[x].user = UserOf(a)' => Dead(a)'
    <2>1. ASSUME NEW r \in Requests, IssuedBy(r, a)
          PROVE  /\ UserOf(a)' \notin disabled'
                 /\ \A x \in Requests : req'[x].pc = "locked" /\ req'[x].op \in UserOps => req'[x].user # UserOf(a)'
      <3>1. UserOf(a)' \notin disabled'
        BY <2>1 DEF IssuedBy, UserOf, IInv, ChecksHold
      <3>2. QED
        BY <2>1, <3>1, IssuerExcludes DEF RevokeOps
    <2>2. CASE access'[a] = access[a]
      <3>1. /\ Issued(a) /\ UserOf(a)' = UserOf(a) /\ UserOf(a) \in Users
            /\ Dead(a) => Dead(a)'
        BY <1>1, <2>2, IssuedBefore, DeadStays DEF AccessFacts
      <3>2. ASSUME UserOf(a) \in disabled' \ disabled PROVE Dead(a)
        <4>1. PICK r \in Requests : Locked(r) /\ req[r].op = "disable" /\ req[r].user = UserOf(a)
          BY <3>2 DEF AccessFacts, LossesLocked
        <4>2. QED
          BY <3>1, <4>1 DEF UsersDead, UserOps
      <3>3. ASSUME NEW x \in Requests, req'[x].pc = "locked", req'[x].op \in UserOps,
                   req'[x].user = UserOf(a)
            PROVE  Dead(a)'
        <4>1. CASE req'[x] = req[x]
          BY <3>1, <3>3, <4>1 DEF UsersDead, Locked
        <4>2. CASE JustLocked(x)
          <5>1. userCutoff'[UserOf(a)] = SetMax(userCutoff[UserOf(a)], now)
            BY <3>3, <4>2 DEF JustLocked
          <5>2. CutBy(a, userCutoff'[UserOf(a)])
            BY <3>1, <5>1, CutNow DEF IInv, TypeOK
          <5>3. QED
            BY <2>2, <3>1, <5>2 DEF Dead, CutBy
        <4>3. QED
          BY <3>3, <4>1, <4>2 DEF AccessFacts, RequestsMove
      <3>4. QED
        BY <3>1, <3>2, <3>3 DEF UsersDead
    <2>3. QED
      BY <2>1, <2>2 DEF AccessFacts, AccessStep
  <1>2. QED
    BY <1>1 DEF UsersDead, Locked

\* So do those of a removed member, since issuing needs the membership and its lock.
LEMMA MembersDeadStay ==
    ASSUME IInv, IInv', AccessTimes, OrgLocks, MembersDead, AccessFacts
    PROVE  MembersDead'
  <1>1. ASSUME NEW a \in AccessIds, Issued(a)'
        PROVE  /\ <<UserOf(a)', access'[a].org>> \notin members' => Dead(a)'
               /\ \A x \in Requests :
                     /\ req'[x].pc = "locked" /\ req'[x].op = "removeMember"
                     /\ req'[x].user = UserOf(a)' /\ req'[x].org = access'[a].org
                     => Dead(a)'
    <2>1. ASSUME NEW r \in Requests, IssuedBy(r, a)
          PROVE  /\ <<UserOf(a)', access'[a].org>> \in members'
                 /\ \A x \in Requests :
                       req'[x].pc = "locked" /\ req'[x].op = "removeMember" => req'[x].org # access'[a].org
      <3>1. /\ <<UserOf(a)', access'[a].org>> \in members'
            /\ HoldsOrgKeyShare(r, access'[a].org) /\ access'[a].org \in Orgs
        BY <2>1 DEF IssuedBy, UserOf, OrgLocks, HoldsOrgKeyShare, IInv, Shapes, Shape, NeedsOrg
      <3>2. ASSUME NEW x \in Requests, req'[x].pc = "locked", req'[x].op = "removeMember",
                   req'[x].org = access'[a].org
            PROVE  FALSE
        <4>1. x # r /\ req'[x] = req[x]
          BY <2>1, <3>2 DEF IssuedBy, Idle
        <4>2. HoldsOrgUpdate(x, access'[a].org)
          BY <3>2, <4>1 DEF HoldsOrgUpdate, Locked
        <4>3. QED
          BY <3>1, <4>2 DEF OrgLocks
      <3>3. QED
        BY <3>1, <3>2
    <2>2. CASE access'[a] = access[a]
      <3>1. /\ Issued(a) /\ UserOf(a)' = UserOf(a) /\ UserOf(a) \in Users /\ access[a].org \in Orgs
            /\ Dead(a) => Dead(a)'
        BY <1>1, <2>2, IssuedBefore, DeadStays DEF AccessFacts
      <3>2. ASSUME <<UserOf(a), access[a].org>> \in members, <<UserOf(a), access[a].org>> \notin members'
            PROVE  Dead(a)
        <4>1. PICK r \in Requests : /\ Locked(r) /\ req[r].op = "removeMember"
                                    /\ req[r].user = UserOf(a) /\ req[r].org = access[a].org
          BY <3>1, <3>2 DEF AccessFacts, LossesLocked
        <4>2. QED
          BY <3>1, <4>1 DEF MembersDead
      <3>3. ASSUME NEW x \in Requests, req'[x].pc = "locked", req'[x].op = "removeMember",
                   req'[x].user = UserOf(a), req'[x].org = access[a].org
            PROVE  Dead(a)'
        <4>1. CASE req'[x] = req[x]
          BY <3>1, <3>3, <4>1 DEF MembersDead, Locked
        <4>2. CASE JustLocked(x)
          <5> DEFINE m == <<UserOf(a), access[a].org>>
          <5>1. memberCutoff'[m] = SetMax(memberCutoff[m], now)
            BY <3>3, <4>2 DEF JustLocked
          <5>2. m \in Users \X Orgs /\ memberCutoff[m] \in CutoffType
            BY <3>1 DEF IInv, TypeOK
          <5> HIDE DEF m
          <5>3. CutBy(a, memberCutoff'[m])
            BY <3>1, <5>1, <5>2, CutNow
          <5>4. QED
            BY <2>2, <3>1, <5>3 DEF Dead, CutBy, m
        <4>3. QED
          BY <3>3, <4>1, <4>2 DEF AccessFacts, RequestsMove
      <3>4. QED
        BY <2>2, <3>1, <3>2, <3>3 DEF MembersDead
    <2>3. QED
      BY <2>1, <2>2 DEF AccessFacts, AccessStep
  <1>2. QED
    BY <1>1 DEF MembersDead, Locked

\* The sessions an operation revokes, by its kind, now and after a step.
LEMMA RevokedIs ==
    ASSUME NEW x \in Requests
    PROVE  /\ req[x].op \in SessionOps => Revoked(req[x]) = {req[x].session}
           /\ req[x].op \in UserOps => Revoked(req[x]) = SessionsOf(req[x].user)
           /\ req[x].op \in OtherOps => Revoked(req[x]) = SessionsOf(req[x].user) \ {req[x].session}
  BY DEF Revoked, SessionOps, UserOps, OtherOps

\* The same in the next state.
LEMMA RevokedIsNext ==
    ASSUME NEW x \in Requests
    PROVE  /\ req'[x].op \in SessionOps => (Revoked(req[x]))' = {req'[x].session}
           /\ req'[x].op \in UserOps => (Revoked(req[x]))' = (SessionsOf(req[x].user))'
           /\ req'[x].op \in OtherOps => (Revoked(req[x]))' = (SessionsOf(req[x].user))' \ {req'[x].session}
  BY DEF Revoked, SessionOps, UserOps, OtherOps

\* The sessions an operation is about to revoke stay the same until it commits.
LEMMA RevokedBefore ==
    ASSUME SessionsStay, NEW x \in Requests, req'[x] = req[x], req[x].op \in RevokeOps,
           NEW s \in SessionIds, sessions[s].st # "free", s \in Revoked(req[x])'
    PROVE  s \in Revoked(req[x])
  <1>1. (s \in SessionsOf(req[x].user))' => s \in SessionsOf(req[x].user)
    BY DEF SessionsOf, SessionsStay, Live
  <1>2. QED
    BY <1>1, RevokedIs, RevokedIsNext DEF RevokeOps

\* They belong to the user it has locked.
LEMMA RevokedUser ==
    ASSUME IInv, NEW x \in Requests, req[x].op \in RevokeOps, NEW s \in Revoked(req[x])
    PROVE  sessions[s].user = req[x].user
  <1>1. CASE req[x].op \in SessionOps
    BY <1>1, RevokedIs DEF IInv, Shapes, Shape, NeedsSession
  <1>2. CASE req[x].op \in UserOps \cup OtherOps
    BY <1>2, RevokedIs DEF SessionsOf
  <1>3. QED
    BY <1>1, <1>2 DEF RevokeOps

\* What has just been marked is dead, for each kind of revocation.
LEMMA MarkedDead ==
    ASSUME IInv, IInv', AccessTimes, SessionsStay, CutoffsGrow,
           NEW a \in AccessIds, Issued(a)', access'[a] = access[a],
           \/ sessionCutoff'[access[a].session] = SetMax(sessionCutoff[access[a].session], now)
           \/ userCutoff'[UserOf(a)] = SetMax(userCutoff[UserOf(a)], now)
    PROVE  Dead(a)'
  <1>1. /\ Issued(a) /\ UserOf(a)' = UserOf(a) /\ UserOf(a) \in Users
        /\ access[a].session \in SessionIds
    BY IssuedBefore
  <1>2. CASE sessionCutoff'[access[a].session] = SetMax(sessionCutoff[access[a].session], now)
    <2>1. CutBy(a, sessionCutoff'[access[a].session])
      BY <1>1, <1>2, CutNow DEF IInv, TypeOK
    <2>2. QED
      BY <2>1 DEF Dead, CutBy
  <1>3. CASE userCutoff'[UserOf(a)] = SetMax(userCutoff[UserOf(a)], now)
    <2>1. CutBy(a, userCutoff'[UserOf(a)])
      BY <1>1, <1>3, CutNow DEF IInv, TypeOK
    <2>2. QED
      BY <1>1, <2>1 DEF Dead, CutBy
  <1>4. QED
    BY <1>2, <1>3

\* So do those of a revoked session, since no step issues one for it.
LEMMA SessionsDeadStay ==
    ASSUME IInv, IInv', AccessTimes, SessionsDead, AccessFacts
    PROVE  SessionsDead'
  <1> SUFFICES ASSUME "verifyEmail" \notin Ops PROVE SessionsDead'
    BY DEF SessionsDead
  <1>0. SessionsStay /\ CutoffsGrow
    BY DEF AccessFacts
  <1>1. \A r \in Requests : req[r].op # "verifyEmail" /\ (req[r].op \in OtherOps => req[r].op \in Ops)
    BY DEF SessionsDead
  <1>2. \A r \in Requests : req'[r].op # "verifyEmail" /\ (req'[r].op \in OtherOps => req'[r].op \in Ops)
    BY <1>1 DEF AccessFacts, RequestsMove
  <1>3. ASSUME NEW a \in AccessIds, Issued(a)', access'[a].session \notin lostCutoff',
               Unmarked(access[a].session)' => FALSE
        PROVE  /\ sessions'[access'[a].session].revoked => Dead(a)'
               /\ \A x \in Requests :
                     /\ req'[x].pc = "locked" /\ req'[x].op \in RevokeOps
                     /\ (access[a].session \in Revoked(req[x]))'
                     => Dead(a)'
    <2>1. ASSUME NEW r \in Requests, IssuedBy(r, a)
          PROVE  /\ ~sessions'[access'[a].session].revoked
                 /\ \A x \in Requests :
                     /\ req'[x].pc = "locked" /\ req'[x].op \in RevokeOps
                     => (access[a].session \notin Revoked(req[x]))'
      <3>1. ~sessions'[access'[a].session].revoked
        BY <2>1 DEF IssuedBy
      <3>2. ASSUME NEW x \in Requests, req'[x].pc = "locked", req'[x].op \in RevokeOps,
                   (access[a].session \in Revoked(req[x]))'
            PROVE  FALSE
        <4>1. req'[x].user # UserOf(a)'
          BY <2>1, <3>2, IssuerExcludes
        <4>2. (sessions[access[a].session].user = req[x].user)'
          <5>1. CASE req'[x].op \in SessionOps
            BY <3>2, <5>1, RevokedIsNext DEF IInv, Shapes, Shape, NeedsSession
          <5>2. CASE req'[x].op \in UserOps \cup OtherOps
            BY <3>2, <5>2, RevokedIsNext DEF SessionsOf
          <5>3. QED
            BY <3>2, <5>1, <5>2 DEF RevokeOps
        <4>3. QED
          BY <4>1, <4>2 DEF UserOf
      <3>3. QED
        BY <3>1, <3>2
    <2>2. CASE access'[a] = access[a]
      <3>0. PICK s : s = access[a].session
        OBVIOUS
      <3>1. /\ Issued(a) /\ UserOf(a)' = UserOf(a) /\ UserOf(a) \in Users
            /\ s \in SessionIds /\ sessions[s].st # "free"
            /\ Dead(a) => Dead(a)'
        BY <1>0, <1>3, <2>2, <3>0, IssuedBefore, DeadStays
      <3>2. ~Unmarked(s)
        <4>1. /\ sessions[s].expires \in Int /\ now \in Int /\ now' \in Int /\ now <= now'
              /\ sessions'[s].expires = sessions[s].expires
          BY <1>0, <3>1, TimesAreIntegers, NextNowIsInteger DEF CutoffsGrow, SessionsStay
        <4>2. QED
          BY <1>3, <2>2, <3>0, <4>1 DEF Unmarked
      <3>3. CASE s \in lostCutoff
        <4>1. \/ sessionCutoff'[s] = SetMax(sessionCutoff[s], now)
              \/ userCutoff'[UserOf(a)] = SetMax(userCutoff[UserOf(a)], now)
          BY <1>1, <1>3, <2>2, <3>0, <3>3 DEF AccessFacts, CutoffsRecovered, UserOf
        <4>2. Dead(a)'
          BY <1>0, <1>3, <2>2, <3>0, <4>1, MarkedDead
        <4>3. QED
          BY <4>2
      <3>4. CASE s \notin lostCutoff
        <4>1. /\ sessions[s].revoked => Dead(a)
              /\ \A r \in Requests : Locked(r) /\ req[r].op \in RevokeOps /\ s \in Revoked(req[r]) => Dead(a)
          BY <3>0, <3>1, <3>2, <3>4 DEF SessionsDead
        <4>2. ASSUME sessions'[s].revoked PROVE Dead(a)
          BY <3>1, <4>1, <4>2 DEF AccessFacts, LossesLocked
        <4>3. ASSUME NEW x \in Requests, req'[x].pc = "locked", req'[x].op \in RevokeOps,
                     (s \in Revoked(req[x]))'
              PROVE  Dead(a)'
          <5>1. CASE req'[x] = req[x]
            <6>1. s \in Revoked(req[x])
              BY <1>0, <2>2, <3>0, <3>1, <4>3, <5>1, RevokedBefore
            <6>2. QED
              BY <3>1, <4>1, <4>3, <5>1, <6>1 DEF Locked
          <5>2. CASE JustLocked(x)
            <6>1. /\ req'[x].op = req[x].op /\ req'[x].user = req[x].user
                  /\ req'[x].session = req[x].session /\ req'[x].at = req[x].at
                  /\ UNCHANGED sessions /\ now' = now
              BY <5>2 DEF JustLocked, db
            <6>2. s \in Revoked(req[x])
              <7>1. \A u : SessionsOf(u)' = SessionsOf(u)
                BY <6>1 DEF SessionsOf, Live
              <7>2. QED
                BY <2>2, <3>0, <4>3, <6>1, <7>1, RevokedIs, RevokedIsNext DEF RevokeOps
            <6>3. sessions[s].user = req[x].user
              BY <4>3, <6>1, <6>2, RevokedUser
            <6>4. CASE req[x].op \in UserOps
              <7>1. userCutoff'[UserOf(a)] = SetMax(userCutoff[UserOf(a)], now)
                BY <3>0, <5>2, <6>3, <6>4 DEF JustLocked, UserOf
              <7>2. QED
                BY <1>0, <1>3, <2>2, <3>0, <7>1, MarkedDead
            <6>5. CASE req[x].op \in SessionOps
              <7>1. s = req[x].session
                BY <6>2, <6>5, RevokedIs
              <7>2. sessionCutoff'[s] = SetMax(sessionCutoff[s], now)
                BY <1>1, <1>3, <2>2, <3>0, <5>2, <6>5, <7>1 DEF JustLocked
              <7>3. QED
                BY <1>0, <1>3, <2>2, <3>0, <7>2, MarkedDead
            <6>6. CASE req[x].op \in OtherOps
              <7>1. s \in SessionsOf(req[x].user) \ {req[x].session} /\ Live(sessions[s])
                BY <6>2, <6>6, RevokedIs DEF SessionsOf
              <7>2. CASE s \in OtherActive(req[x])
                <8>1. sessionCutoff'[s] = SetMax(sessionCutoff[s], now)
                  BY <5>2, <6>6, <7>2 DEF JustLocked
                <8>2. QED
                  BY <1>0, <1>3, <2>2, <3>0, <8>1, MarkedDead
              <7>3. CASE s \notin OtherActive(req[x])
                <8>1. sessions[s].revoked \/ ~(sessions[s].expires > now) \/ ~(sessions[s].expires > req[x].at)
                  BY <7>1, <7>3 DEF OtherActive, Active
                <8>2. /\ sessions[s].expires \in Int /\ now \in Int /\ req[x].at \in Int /\ req[x].at <= now
                  BY <3>1, TimesAreIntegers DEF AccessTimes
                <8>3. sessions[s].expires <= now => Unmarked(s)
                  BY <1>1, <6>6 DEF Unmarked
                <8>4. QED
                  BY <3>1, <3>2, <4>1, <8>1, <8>2, <8>3
              <7>4. QED
                BY <7>2, <7>3
            <6>7. QED
              BY <4>3, <6>1, <6>4, <6>5, <6>6 DEF RevokeOps
          <5>3. QED
            BY <4>3, <5>1, <5>2 DEF AccessFacts, RequestsMove
        <4>4. QED
          BY <2>2, <3>0, <3>1, <4>2, <4>3
      <3>5. QED
        BY <3>3, <3>4
    <2>3. QED
      BY <2>1, <2>2 DEF AccessFacts, AccessStep
  <1>4. QED
    BY <1>2, <1>3 DEF SessionsDead, Issued, Locked

\* So do those of the sessions a request that holds its locks is about to revoke.
LEMMA RevokersCutStay ==
    ASSUME IInv, IInv', AccessTimes, RevokersCut, AccessFacts
    PROVE  RevokersCut'
  <1>0. SessionsStay /\ CutoffsGrow
    BY DEF AccessFacts
  <1>1. SUFFICES ASSUME NEW x \in Requests, NEW a \in AccessIds, Issued(a)', req'[x].pc = "locked",
                        Cuts(req[x], a)'
                 PROVE  Dead(a)'
    BY DEF RevokersCut, Locked
  <1>2. /\ req'[x].op \in RevokeOps
        /\ (access[a].session \in Revoked(req[x]))' /\ access'[a].session \notin lostCutoff'
        /\ req'[x].op = "verifyEmail" => access'[a].iat <= req'[x].at
        /\ req'[x].op \in OtherOps => Active(access[a].session, now)'
    BY <1>1 DEF Cuts
  <1>3. (sessions[access[a].session].user = req[x].user)'
    <2>1. CASE req'[x].op \in SessionOps
      BY <1>2, <2>1, RevokedIsNext DEF IInv, Shapes, Shape, NeedsSession
    <2>2. CASE req'[x].op \in UserOps \cup OtherOps
      BY <1>2, <2>2, RevokedIsNext DEF SessionsOf
    <2>3. QED
      BY <1>2, <2>1, <2>2 DEF RevokeOps
  <1>4. ~\E r \in Requests : IssuedBy(r, a)
    BY <1>1, <1>2, <1>3, IssuerExcludes DEF UserOf
  <1>5. access'[a] = access[a]
    BY <1>4 DEF AccessFacts, AccessStep
  <1>6. PICK s : s = access[a].session
    OBVIOUS
  <1>7. /\ Issued(a) /\ UserOf(a)' = UserOf(a) /\ UserOf(a) \in Users /\ s \in SessionIds
        /\ sessions[s].st # "free" /\ UserOf(a) = sessions[s].user
        /\ Dead(a) => Dead(a)'
    BY <1>0, <1>1, <1>5, <1>6, IssuedBefore, DeadStays DEF UserOf
  <1>8. (Active(s, now))' => Active(s, now)
    <2>1. /\ sessions[s].expires \in Int /\ now \in Int /\ now' \in Int /\ now <= now'
          /\ sessions'[s].expires = sessions[s].expires
      BY <1>0, <1>7, TimesAreIntegers, NextNowIsInteger DEF CutoffsGrow, SessionsStay
    <2>2. sessions'[s].revoked \in BOOLEAN /\ sessions[s].revoked \in BOOLEAN
      BY <1>7 DEF IInv, TypeOK, SessionType
    <2>3. QED
      BY <1>0, <1>7, <2>1, <2>2 DEF Active, Live, SessionsStay
  <1>9. CASE req'[x] = req[x]
    <2>1. s \in Revoked(req[x]) /\ Locked(x)
      BY <1>0, <1>1, <1>2, <1>5, <1>6, <1>7, <1>9, RevokedBefore DEF Locked
    <2>2. s \notin lostCutoff
      <3>1. HoldsUpdate(x, UserOf(a))
        BY <1>2, <1>7, <1>9, <2>1, RevokedUser DEF HoldsUpdate
      <3>2. ~LockUserForUpdate(sessions[s].user)
        BY <1>7, <3>1 DEF LockUserForUpdate
      <3>3. QED
        BY <1>2, <1>5, <1>6, <3>2 DEF AccessFacts, CutoffsRecovered
    <2>3. Cuts(req[x], a)
      BY <1>2, <1>5, <1>6, <1>8, <1>9, <2>1, <2>2 DEF Cuts
    <2>4. QED
      BY <1>7, <2>1, <2>3 DEF RevokersCut
  <1>10. CASE JustLocked(x)
    <2>1. /\ req'[x].op = req[x].op /\ req'[x].user = req[x].user
          /\ req'[x].session = req[x].session /\ req'[x].at = req[x].at
          /\ UNCHANGED sessions /\ now' = now
      BY <1>10 DEF JustLocked, db
    <2>2. s \in Revoked(req[x]) /\ req[x].op \in RevokeOps
      <3>1. \A u : SessionsOf(u)' = SessionsOf(u)
        BY <2>1 DEF SessionsOf, Live
      <3>2. QED
        BY <1>2, <1>5, <1>6, <2>1, <3>1, RevokedIs, RevokedIsNext DEF RevokeOps
    <2>3. CASE req[x].op \in UserOps
      <3>1. userCutoff'[UserOf(a)] = SetMax(userCutoff[UserOf(a)], now)
        BY <1>7, <1>10, <2>2, <2>3, RevokedUser DEF JustLocked
      <3>2. QED
        BY <1>0, <1>1, <1>5, <3>1, MarkedDead
    <2>4. CASE req[x].op \in SessionOps \ {"verifyEmail"}
      <3>1. s = req[x].session
        BY <2>2, <2>4, RevokedIs
      <3>2. sessionCutoff'[s] = SetMax(sessionCutoff[s], now)
        BY <1>2, <1>5, <1>6, <1>10, <2>4, <3>1 DEF JustLocked
      <3>3. QED
        BY <1>0, <1>1, <1>5, <1>6, <3>2, MarkedDead
    <2>5. CASE req[x].op = "verifyEmail"
      <3>1. s = req[x].session
        BY <2>2, <2>5, RevokedIs DEF SessionOps
      <3>2. sessionCutoff'[s] = SetMax(sessionCutoff[s], req[x].at)
        BY <1>10, <2>5, <3>1 DEF JustLocked
      <3>3. access[a].iat <= req[x].at /\ req[x].at \in Int /\ req[x].at <= now
        BY <1>2, <1>5, <2>1, <2>5, TimesAreIntegers DEF AccessTimes
      <3>4. CutBy(a, sessionCutoff'[s])
        BY <1>7, <3>2, <3>3, CutAt DEF IInv, TypeOK
      <3>5. QED
        BY <1>5, <1>6, <3>4 DEF Dead, CutBy
    <2>6. CASE req[x].op \in OtherOps
      <3>1. s \in SessionsOf(req[x].user) \ {req[x].session} /\ Active(s, now)
        BY <1>2, <1>5, <1>6, <1>8, <2>1, <2>2, <2>6, RevokedIs
      <3>2. /\ sessions[s].expires \in Int /\ now \in Int /\ req[x].at \in Int /\ req[x].at <= now
        BY <1>7, TimesAreIntegers DEF AccessTimes
      <3>3. s \in OtherActive(req[x])
        BY <3>1, <3>2 DEF OtherActive, Active
      <3>4. sessionCutoff'[s] = SetMax(sessionCutoff[s], now)
        BY <1>10, <2>6, <3>3 DEF JustLocked
      <3>5. QED
        BY <1>0, <1>1, <1>5, <1>6, <3>4, MarkedDead
    <2>7. QED
      BY <2>2, <2>3, <2>4, <2>5, <2>6 DEF RevokeOps
  <1>11. QED
    BY <1>1, <1>9, <1>10 DEF AccessFacts, RequestsMove

\* A cutoff that moves forward still outlives what it cuts.
LEMMA OutlivesStays ==
    ASSUME IInv, NEW c \in CutoffType, Outlives(c), NEW d, Grown(c, d)
    PROVE  Outlives(d)
  <1>1. /\ now \in Int /\ c.at \in Int /\ c.until \in Int
        /\ accessTTL \in Int /\ MaxAccessTTL \in Int
    BY PolicyAssumption DEF IInv, TypeOK, CutoffType, Clock, Expiry
  <1>2. ASSUME NEW at \in Clock, at <= now PROVE Outlives(SetMax(c, at))
    <2>1. at \in Int /\ MarkerTTL \in Int /\ MarkerTTL >= MaxAccessTTL
      BY <1>1, PolicyAssumption DEF Clock, MarkerTTL
    <2>2. /\ SetMax(c, at).at = Later(CutoffAt(c), at)
          /\ SetMax(c, at).until = Later(IF now < c.until THEN c.until ELSE 0, now + MarkerTTL)
      BY DEF SetMax
    <2>3. CASE now < c.until
      BY <1>1, <1>2, <2>1, <2>2, <2>3 DEF Outlives, Later, CutoffAt
    <2>4. CASE ~(now < c.until)
      BY <1>1, <1>2, <2>1, <2>2, <2>4 DEF Outlives, Later, CutoffAt
    <2>5. QED
      BY <2>3, <2>4
  <1>3. QED
    BY <1>2 DEF Grown

\* So does every cutoff, in every step.
LEMMA CutoffsOutliveStay ==
    ASSUME IInv, CutoffsOutlive, CutoffsGrow
    PROVE  CutoffsOutlive'
  <1>1. /\ \A s \in SessionIds : sessionCutoff[s] \in CutoffType
        /\ \A u \in Users : userCutoff[u] \in CutoffType
        /\ \A m \in Users \X Orgs : memberCutoff[m] \in CutoffType
    BY DEF IInv, TypeOK
  <1>2. ASSUME NEW s \in SessionIds PROVE Outlives(sessionCutoff'[s])
    BY <1>1, OutlivesStays DEF CutoffsOutlive, CutoffsGrow
  <1>3. ASSUME NEW u \in Users PROVE Outlives(userCutoff'[u])
    BY <1>1, OutlivesStays DEF CutoffsOutlive, CutoffsGrow
  <1>4. ASSUME NEW m \in Users \X Orgs PROVE Outlives(memberCutoff'[m])
    BY <1>1, OutlivesStays DEF CutoffsOutlive, CutoffsGrow
  <1>5. QED
    BY <1>2, <1>3, <1>4 DEF CutoffsOutlive, Outlives

\* A token that is rejected is dead, since what cuts it outlives it; or it is older
\* than every clock.
LEMMA RejectedIsDead ==
    ASSUME IInv, AccessTimes, CutoffsOutlive, NEW a \in AccessIds, Issued(a), ~Accepted(a)
    PROVE  Dead(a) \/ access[a].iat <= 0
  <1>1. /\ access[a].session \in SessionIds /\ UserOf(a) \in Users /\ access[a].org \in Orgs
        /\ access[a].iat \in Int /\ access[a].exp \in Int /\ now \in Int /\ MaxAccessTTL \in Int
        /\ access[a].exp <= access[a].iat + MaxAccessTTL
    BY PolicyAssumption DEF Issued, UserOf, IInv, Rows, TypeOK, AccessType, Clock, Expiry, AccessTimes
  <1>2. ASSUME NEW c \in CutoffType, Outlives(c), ~(access[a].iat > CutoffAt(c)), access[a].iat > 0
        PROVE  CutBy(a, c)
    <2>1. c.at \in Int /\ c.until \in Int
      BY PolicyAssumption DEF CutoffType, Clock, Expiry
    <2>2. QED
      BY <1>1, <1>2, <2>1 DEF Outlives, CutoffAt, CutBy
  <1>3. /\ sessionCutoff[access[a].session] \in CutoffType /\ Outlives(sessionCutoff[access[a].session])
        /\ userCutoff[UserOf(a)] \in CutoffType /\ Outlives(userCutoff[UserOf(a)])
        /\ memberCutoff[<<UserOf(a), access[a].org>>] \in CutoffType
        /\ Outlives(memberCutoff[<<UserOf(a), access[a].org>>])
    BY <1>1 DEF IInv, TypeOK, CutoffsOutlive
  <1>4. \/ ~(now < access[a].exp) \/ a \in revokedJti
        \/ ~(access[a].iat > CutoffAt(sessionCutoff[access[a].session]))
        \/ ~(access[a].iat > CutoffAt(userCutoff[UserOf(a)]))
        \/ ~(access[a].iat > CutoffAt(memberCutoff[<<UserOf(a), access[a].org>>]))
    BY DEF Accepted, Issued, UserOf
  <1>5. QED
    BY <1>1, <1>2, <1>3, <1>4 DEF Dead

-----------------------------------------------------------------------------
(* What the steps do to access tokens and cutoffs.                         *)

\* A step that writes no table and restores no lost cutoff.
LEMMA NoWrites ==
    ASSUME UNCHANGED <<db, access>>, lostCutoff \subseteq lostCutoff', CutoffsGrow, RequestsMove
    PROVE  AccessFacts
  BY DEF AccessFacts, SessionsStay, AccessStep, LossesLocked, CutoffsRecovered, db, Live

\* A step that does not write the cache.
LEMMA CutoffsSame ==
    ASSUME IInv, UNCHANGED cache, now' = now \/ now' = now + 1
    PROVE  CutoffsGrow
  BY TimesAreIntegers DEF CutoffsGrow, Grown, cache

\* A request that returns.
LEMMA ReturnMoves ==
    ASSUME IInv, req' = req \/ \E r \in Requests : Return(r)
    PROVE  RequestsMove
  <1>1. Idle.pc # "locked" /\ Idle.at <= now /\ Idle.op = "none"
    BY PolicyAssumption DEF Idle, IInv, TypeOK
  <1>2. \A x \in Requests : req'[x] = req[x] \/ req'[x] = Idle
    BY DEF Return, IInv, TypeOK
  <1>3. QED
    BY <1>1, <1>2 DEF RequestsMove, OtherOps

\* A request that starts issues nothing and marks nothing.
LEMMA StartAccess ==
    ASSUME IInv, NEW r \in Requests, Start(r)
    PROVE  AccessFacts
  <1>1. ASSUME NEW op \in Ops \cup {"reuse"}, NEW u, NEW s, NEW t, NEW o, Begin(r, op, u, s, t, o)
        PROVE  AccessFacts
    <2>1. RequestsMove
      <3>1. \A x \in Requests : /\ x # r => req'[x] = req[x]
                                /\ x = r => req'[x].pc # "locked" /\ req'[x].at = now /\ req'[x].op = op
        BY <1>1 DEF Begin, IInv, TypeOK
      <3>2. now <= now
        BY TimesAreIntegers
      <3>3. QED
        BY <3>1, <3>2 DEF RequestsMove, OtherOps
    <2>2. CutoffsGrow
      BY <1>1, CutoffsSame DEF Begin
    <2>3. QED
      BY <1>1, <2>1, <2>2, NoWrites DEF Begin
  <1>2. QED
    BY <1>1, StartBegins

\* A request that moves to "locked" or stays in "begun", and leaves the tables alone.
LEMMA LockMoves ==
    ASSUME IInv, NEW r \in Requests, UNCHANGED <<db, access>>,
           NEW q, req' = [req EXCEPT ![r] = q], q.at = req[r].at,
           q.op \in OtherOps \cup {"verifyEmail"} => q.op = req[r].op,
           q.pc = "locked" => JustLocked(r)
    PROVE  RequestsMove
  <1>1. req'[r] = q /\ \A x \in Requests \ {r} : req'[x] = req[x]
    BY DEF IInv, TypeOK
  <1>2. QED
    BY <1>1 DEF RequestsMove

\* The fields of a request that has got its locks.
LEMMA LockedFields ==
    ASSUME IInv, NEW r \in Requests, NEW q,
           \/ q = [req[r] EXCEPT !.pc = "locked"]
           \/ q = [req[r] EXCEPT !.pc = "locked", !.snap = TokensOf(req[r].session)]
    PROVE  /\ q.op = req[r].op /\ q.user = req[r].user /\ q.session = req[r].session
           /\ q.org = req[r].org /\ q.at = req[r].at
  BY DEF IInv, TypeOK, RequestType

\* The checks of the transactions that issue tokens.
LEMMA CheckAccess ==
    ASSUME IInv, NEW r \in Requests,
           CreateSessionCheck(r) \/ RefreshSessionCheck(r) \/ SwitchSessionOrganizationCheck(r)
    PROVE  AccessFacts
  <1>1. /\ UNCHANGED <<now, db, access, accessTTL, cache, lostCutoff>> /\ req[r].op \in IssueOps
        /\ CutoffsGrow
    <2>1. UNCHANGED <<now, db, access, accessTTL, cache, lostCutoff>> /\ req[r].op \in IssueOps
      BY DEF CreateSessionCheck, RefreshSessionCheck, SwitchSessionOrganizationCheck, IssueOps
    <2>2. QED
      BY <2>1, CutoffsSame
  <1>2. CASE Return(r)
    BY <1>1, <1>2, ReturnMoves, NoWrites
  <1>3. ASSUME NEW q, req' = [req EXCEPT ![r] = q],
               \/ q = [req[r] EXCEPT !.pc = "locked"]
               \/ q = [req[r] EXCEPT !.pc = "locked", !.snap = TokensOf(req[r].session)],
               MayIssue(req[r]), LockOrganizationForKeyShare(req[r].org)
        PROVE  AccessFacts
    <2>1. /\ q.op = req[r].op /\ q.user = req[r].user /\ q.session = req[r].session
          /\ q.org = req[r].org /\ q.at = req[r].at
      BY <1>3, LockedFields
    <2>2. req'[r] = q /\ \A x \in Requests \ {r} : req'[x] = req[x]
      BY <1>3 DEF IInv, TypeOK
    <2>3. JustLocked(r)
      BY <1>1, <1>3, <2>1, <2>2
      DEF JustLocked, MayIssue, IssueOps, UserOps, SessionOps, OtherOps
    <2>4. RequestsMove
      BY <1>1, <1>3, <2>1, <2>3, LockMoves
    <2>5. QED
      BY <1>1, <2>4, NoWrites
  <1>4. CASE CreateSessionCheck(r)
    BY <1>2, <1>3, <1>4 DEF CreateSessionCheck, Lock, IInv, TypeOK
  <1>5. CASE SwitchSessionOrganizationCheck(r)
    BY <1>2, <1>3, <1>5 DEF SwitchSessionOrganizationCheck, IInv, TypeOK
  <1>6. CASE RefreshSessionCheck(r)
    <2>1. CASE req' = [req EXCEPT ![r].op = "reuse"]
      <3> DEFINE q == [req[r] EXCEPT !.op = "reuse"]
      <3>1. req[r].pc = "begun"
        BY <1>6 DEF RefreshSessionCheck
      <3>2. q.op = "reuse" /\ q.at = req[r].at /\ q.pc = "begun" /\ req' = [req EXCEPT ![r] = q]
        BY <2>1, <3>1 DEF IInv, TypeOK, RequestType
      <3> HIDE DEF q
      <3>3. RequestsMove
        BY <1>1, <3>2, LockMoves DEF OtherOps
      <3>4. QED
        BY <1>1, <3>3, NoWrites
    <2>2. CASE Lock(r) /\ MayIssue(req[r]) /\ LockOrganizationForKeyShare(req[r].org)
      BY <1>3, <2>2 DEF Lock, IInv, TypeOK
    <2>3. QED
      BY <1>2, <1>6, <2>1, <2>2 DEF RefreshSessionCheck
  <1>7. QED
    BY <1>4, <1>5, <1>6

\* MarkSessions moves the cutoffs of its set forward, to the captured time at least.
LEMMA MarkSessionsGrow ==
    ASSUME NEW S, NEW at \in Clock, at <= now, MarkSessions(S, at)
    PROVE  /\ \A s \in SessionIds : Grown(sessionCutoff[s], sessionCutoff'[s])
           /\ \A s \in SessionIds : s \in S => sessionCutoff'[s] = SetMax(sessionCutoff[s], at)
  BY DEF MarkSessions, Grown

\* What every revocation knows of its request.
LEMMA RevokerFacts ==
    ASSUME IInv, AccessTimes, NEW r \in Requests, req[r].op \in RevokeOps
    PROVE  /\ req[r].user \in Users /\ MarkerAt(req[r]) \in Clock /\ MarkerAt(req[r]) <= now /\ now <= now
           /\ req[r].op # "verifyEmail" => MarkerAt(req[r]) = now
           /\ req[r].op \in UserOps => /\ req[r].session \notin SessionIds
                                       /\ req[r].op \notin SessionOps \cup OtherOps
           /\ req[r].op \in SessionOps => /\ req[r].session \in SessionIds
                                          /\ req[r].op \notin UserOps \cup OtherOps
           /\ req[r].op \in OtherOps => /\ req[r].op \notin UserOps \cup SessionOps
                                        /\ OtherActive(req[r]) \subseteq SessionIds
           /\ req[r].op \notin IssueOps /\ req[r].op # "removeMember"
  <1> USE DEF RevokeOps, UserOps, SessionOps, OtherOps
  <1>1. req[r].user \in Users
    BY DEF IInv, Shapes, Shape
  <1>2. MarkerAt(req[r]) \in Clock /\ MarkerAt(req[r]) <= now /\ now <= now
    BY MarkerAtType, TimesAreIntegers DEF MarkerAt, AccessTimes
  <1>3. req[r].op # "verifyEmail" => MarkerAt(req[r]) = now
    BY DEF MarkerAt
  <1>4. req[r].op \in UserOps => req[r].session \notin SessionIds
    BY NoneAssumption DEF IInv, Shapes, Shape
  <1>5. req[r].op \in SessionOps => req[r].session \in SessionIds
    BY DEF IInv, Shapes, Shape, NeedsSession
  <1>6. OtherActive(req[r]) \subseteq SessionIds
    BY DEF OtherActive, SessionsOf
  <1>7. QED
    BY <1>1, <1>2, <1>3, <1>4, <1>5, <1>6 DEF IssueOps

\* The marks of a revocation, under the user lock.
LEMMA MarkAccess ==
    ASSUME IInv, AccessTimes, NEW r \in Requests, RevokeMark(r)
    PROVE  AccessFacts
  <1> DEFINE q == req[r]
             locked == [req[r] EXCEPT !.pc = "locked"]
  <1> USE DEF RevokeMark
  <1>1. /\ UNCHANGED <<now, db, access, accessTTL, memberCutoff, revokedJti>>
        /\ q.op \in RevokeOps
    OBVIOUS
  <1>2. /\ req' = [req EXCEPT ![r] = locked] /\ locked.op = q.op /\ locked.user = q.user
        /\ locked.session = q.session /\ locked.org = q.org /\ locked.at = q.at
    BY LockedFields DEF Lock, IInv, TypeOK
  <1> HIDE DEF locked
  <1>3. req'[r] = locked /\ \A x \in Requests \ {r} : req'[x] = req[x]
    BY <1>2 DEF IInv, TypeOK
  <1>4. ASSUME CutoffsGrow, CutoffsRecovered, JustLocked(r) PROVE AccessFacts
    <2>1. RequestsMove
      BY <1>1, <1>2, <1>4, LockMoves
    <2>2. QED
      BY <1>1, <1>4, <2>1 DEF AccessFacts, SessionsStay, AccessStep, LossesLocked, db, Live
  <1>5. lostCutoff' = {s \in lostCutoff : s \notin MarkedSessions(q)
                                      /\ ~(q.op \in UserOps /\ sessions[s].user = q.user)}
        /\ lostCutoff \subseteq SessionIds
    BY DEF IInv, TypeOK
  <1>6. CASE q.op \in UserOps
    <2>1. /\ userCutoff' = [userCutoff EXCEPT ![q.user] = SetMax(@, MarkerAt(q))]
          /\ UNCHANGED sessionCutoff
      BY <1>6
    <2>2. MarkerAt(q) = now /\ now \in Clock
      BY <1>1, <1>6, RevokerFacts DEF UserOps
    <2>3. /\ userCutoff'[q.user] = SetMax(userCutoff[q.user], now)
          /\ \A u \in Users : Grown(userCutoff[u], userCutoff'[u])
      BY <1>1, <2>1, <2>2, RevokerFacts DEF IInv, TypeOK, Grown
    <2>4. CutoffsGrow
      BY <1>1, <2>1, <2>3, RevokerFacts DEF CutoffsGrow, Grown
    <2>5. JustLocked(r)
      BY <1>1, <1>2, <1>3, <1>6, <2>3, RevokerFacts DEF JustLocked, UserOps
    <2>6. CutoffsRecovered
      <3>1. MarkedSessions(q) \cap SessionIds = {}
        BY <1>1, <1>6, RevokerFacts DEF MarkedSessions
      <3>2. LockUserForUpdate(q.user)
        OBVIOUS
      <3>3. QED
        BY <1>5, <2>3, <3>1, <3>2 DEF CutoffsRecovered
    <2>7. QED
      BY <1>4, <2>4, <2>5, <2>6
  <1>7. CASE q.op \notin UserOps
    <2>1. MarkSessions(MarkedSessions(q), MarkerAt(q)) /\ UNCHANGED userCutoff
      BY <1>7
    <2>2. /\ \A s \in SessionIds : Grown(sessionCutoff[s], sessionCutoff'[s])
          /\ \A s \in SessionIds : s \in MarkedSessions(q) =>
                sessionCutoff'[s] = SetMax(sessionCutoff[s], MarkerAt(q))
      BY <1>1, <2>1, MarkSessionsGrow, RevokerFacts
    <2>3. CutoffsGrow
      BY <1>1, <2>1, <2>2, RevokerFacts DEF CutoffsGrow, Grown
    <2>4. JustLocked(r)
      <3>1. q.op \in SessionOps \ {"verifyEmail"} =>
               sessionCutoff'[q.session] = SetMax(sessionCutoff[q.session], now)
        BY <1>1, <2>2, RevokerFacts DEF MarkedSessions
      <3>2. q.op \in OtherOps =>
               \A s \in OtherActive(q) : sessionCutoff'[s] = SetMax(sessionCutoff[s], now)
        BY <1>1, <2>2, RevokerFacts DEF MarkedSessions, OtherOps
      <3>3. q.op = "verifyEmail" => sessionCutoff'[q.session] = SetMax(sessionCutoff[q.session], q.at)
        BY <1>1, <2>2, RevokerFacts DEF MarkedSessions, MarkerAt, SessionOps
      <3>4. QED
        BY <1>1, <1>2, <1>3, <1>7, <3>1, <3>2, <3>3, RevokerFacts DEF JustLocked
    <2>5. CutoffsRecovered
      <3>1. \A s \in MarkedSessions(q) : sessions[s].user = q.user
        <4>1. CASE q.op \in OtherOps
          BY <4>1 DEF MarkedSessions, OtherActive, SessionsOf
        <4>2. CASE q.op \in SessionOps
          BY <1>1, <4>2, RevokerFacts DEF MarkedSessions, IInv, Shapes, Shape, NeedsSession
        <4>3. QED
          BY <1>1, <1>7, <4>1, <4>2 DEF RevokeOps
      <3>2. LockUserForUpdate(q.user)
        OBVIOUS
      <3>3. QED
        BY <1>1, <1>5, <1>7, <2>2, <3>1, <3>2, RevokerFacts DEF CutoffsRecovered
    <2>6. QED
      BY <1>4, <2>3, <2>4, <2>5
  <1>8. QED
    BY <1>6, <1>7

\* A mark that fails: the request returns, or goes on and the cutoff is lost.
LEMMA MarkFailsAccess ==
    ASSUME IInv, AccessTimes, NEW r \in Requests, RevokeMarkFails(r)
    PROVE  AccessFacts
  <1> USE DEF RevokeMarkFails
  <1>1. /\ UNCHANGED <<now, db, access, accessTTL, userCutoff, memberCutoff, revokedJti>>
        /\ req[r].op \in RevokeOps /\ MarkerAt(req[r]) \in Clock /\ MarkerAt(req[r]) <= now /\ now <= now
        /\ lostCutoff \subseteq lostCutoff'
    BY RevokerFacts
  <1>2. CutoffsGrow
    <2>1. \A s \in SessionIds : Grown(sessionCutoff[s], sessionCutoff'[s])
      <3>1. CASE UNCHANGED sessionCutoff
        BY <3>1 DEF Grown
      <3>2. CASE \E S \in SUBSET OtherActive(req[r]) : MarkSessions(S, MarkerAt(req[r]))
        BY <1>1, <3>2, MarkSessionsGrow
      <3>3. QED
        BY <3>1, <3>2
    <2>2. QED
      BY <1>1, <2>1 DEF CutoffsGrow, Grown
  <1>3. CASE Return(r)
    BY <1>1, <1>2, <1>3, ReturnMoves, NoWrites
  <1>4. CASE Lock(r) /\ req[r].op = "reuse" /\ lostCutoff' = lostCutoff \cup {req[r].session}
    <2> DEFINE q == [req[r] EXCEPT !.pc = "locked"]
    <2>1. /\ req' = [req EXCEPT ![r] = q] /\ q.op = req[r].op /\ q.user = req[r].user
          /\ q.session = req[r].session /\ q.org = req[r].org /\ q.at = req[r].at
      BY <1>4, LockedFields DEF Lock, IInv, TypeOK
    <2> HIDE DEF q
    <2>2. req'[r] = q /\ \A x \in Requests \ {r} : req'[x] = req[x]
      BY <2>1 DEF IInv, TypeOK
    <2>3. JustLocked(r)
      BY <1>1, <1>4, <2>1, <2>2 DEF JustLocked, IssueOps, UserOps, OtherOps
    <2>4. RequestsMove
      BY <1>1, <2>1, <2>3, LockMoves
    <2>5. QED
      BY <1>1, <1>2, <2>4, NoWrites
  <1>5. QED
    BY <1>3, <1>4

\* The mark of a removal: every token of the member for the organization is dead afterwards.
LEMMA RemoveMarkAccess ==
    ASSUME IInv, NEW r \in Requests, RemoveOrganizationMemberMark(r)
    PROVE  AccessFacts
  <1> USE DEF RemoveOrganizationMemberMark
  <1>1. /\ UNCHANGED <<now, db, access, accessTTL, sessionCutoff, userCutoff, revokedJti, lostCutoff>>
        /\ req[r].op = "removeMember" /\ now \in Clock /\ now <= now
        /\ GetOrganizationByIDForUpdate(req[r].org)
    BY MarkerAtType, TimesAreIntegers
  <1>2. CASE Return(r) /\ UNCHANGED memberCutoff
    <2>1. CutoffsGrow
      BY <1>1, <1>2 DEF CutoffsGrow, Grown
    <2>2. QED
      BY <1>1, <1>2, <2>1, ReturnMoves, NoWrites
  <1>3. CASE /\ Lock(r)
             /\ memberCutoff' = [memberCutoff EXCEPT ![<<req[r].user, req[r].org>>] = SetMax(@, now)]
    <2> DEFINE q == [req[r] EXCEPT !.pc = "locked"]
    <2>1. /\ req' = [req EXCEPT ![r] = q] /\ q.op = req[r].op /\ q.user = req[r].user
          /\ q.session = req[r].session /\ q.org = req[r].org /\ q.at = req[r].at
      BY <1>3, LockedFields DEF Lock, IInv, TypeOK
    <2> HIDE DEF q
    <2>2. req'[r] = q /\ \A x \in Requests \ {r} : req'[x] = req[x]
      BY <2>1 DEF IInv, TypeOK
    <2>3. <<req[r].user, req[r].org>> \in Users \X Orgs
      BY <1>1 DEF IInv, Shapes, Shape, NeedsOrg
    <2>4. /\ memberCutoff'[<<req[r].user, req[r].org>>] =
                SetMax(memberCutoff[<<req[r].user, req[r].org>>], now)
          /\ \A m \in Users \X Orgs : Grown(memberCutoff[m], memberCutoff'[m])
      BY <1>1, <1>3, <2>3 DEF IInv, TypeOK, Grown
    <2>5. CutoffsGrow
      BY <1>1, <2>4 DEF CutoffsGrow, Grown
    <2>6. JustLocked(r)
      BY <1>1, <2>1, <2>2, <2>4 DEF JustLocked, IssueOps, UserOps, SessionOps, OtherOps
    <2>7. RequestsMove
      BY <1>1, <2>1, <2>6, LockMoves
    <2>8. QED
      BY <1>1, <2>5, <2>7, NoWrites
  <1>4. QED
    BY <1>2, <1>3

\* The new access token, with its times.
LEMMA GenerateTimes ==
    ASSUME TypeOK, NEW s, NEW o, NEW at, Generate(s, o, at)
    PROVE  \A a \in AccessIds :
              \/ access'[a] = access[a]
              \/ /\ access[a].st = "free" /\ access'[a].session = s /\ access'[a].org = o
                 /\ access'[a].iat = at /\ access'[a].exp = at + accessTTL
  <1> DEFINE n == NextFree(access)
             row == [st |-> "issued", session |-> s, org |-> o, iat |-> at, exp |-> at + accessTTL]
  <1>1. n \in AccessIds /\ access[n].st = "free" /\ access' = [access EXCEPT ![n] = row]
    BY NextFreeIsFree DEF Generate, TypeOK
  <1>2. row.session = s /\ row.org = o /\ row.iat = at /\ row.exp = at + accessTTL
    OBVIOUS
  <1> HIDE DEF n, row
  <1>3. QED
    BY <1>1, <1>2 DEF TypeOK

\* The commit of a transaction that issues an access token.
LEMMA IssueAccess ==
    ASSUME IInv, NEW r \in Requests, Locked(r), req[r].op \in IssueOps, Return(r),
           NEW s \in SessionIds, Generate(s, req[r].org, req[r].at),
           sessions'[s].user = req[r].user, ~sessions'[s].revoked,
           UNCHANGED <<now, disabled, members, cache, lostCutoff>>, SessionsStay,
           \A x \in SessionIds : sessions'[x].revoked => sessions[x].revoked
    PROVE  AccessFacts
  <1>1. req'[r] = Idle /\ \A x \in Requests \ {r} : req'[x] = req[x]
    BY DEF Return, IInv, TypeOK
  <1>2. AccessStep
    BY <1>1, GenerateTimes DEF IInv, AccessStep, IssuedBy
  <1>3. CutoffsGrow /\ RequestsMove
    BY CutoffsSame, ReturnMoves
  <1>4. LossesLocked /\ CutoffsRecovered
    BY DEF LossesLocked, CutoffsRecovered
  <1>5. QED
    BY <1>2, <1>3, <1>4 DEF AccessFacts

\* createSession issues a token for a session it has just inserted.
LEMMA CreateAccess ==
    ASSUME IInv, NEW r \in Requests, CreateSessionCommit(r)
    PROVE  AccessFacts
  <1> DEFINE q == req[r]
             s == NextFree(sessions)
             row == [st |-> "live", user |-> q.user, org |-> q.org,
                     expires |-> q.at + SessionTTL, revoked |-> FALSE]
  <1>1. /\ sessions' = [sessions EXCEPT ![s] = row]
        /\ Generate(s, q.org, q.at) /\ Return(r) /\ Locked(r) /\ req[r].op \in IssueOps
        /\ UNCHANGED <<now, disabled, members, cache, lostCutoff>>
    BY DEF CreateSessionCommit, Locked, IssueOps
  <1>2. s \in SessionIds /\ sessions[s].st = "free"
    BY NextFreeIsFree DEF CreateSessionCommit, IInv, TypeOK
  <1>3. row.user = q.user /\ ~row.revoked
    OBVIOUS
  <1> HIDE DEF s, row
  <1>4. sessions'[s] = row /\ \A x \in SessionIds \ {s} : sessions'[x] = sessions[x]
    BY <1>1, <1>2 DEF IInv, TypeOK
  <1>5. SessionsStay
    BY <1>2, <1>4 DEF SessionsStay
  <1>6. QED
    BY <1>1, <1>2, <1>3, <1>4, <1>5, IssueAccess

\* RefreshSession issues a token for the session it has locked.
LEMMA RefreshAccess ==
    ASSUME IInv, NEW r \in Requests, RefreshSessionCommit(r)
    PROVE  AccessFacts
  <1>1. /\ UNCHANGED sessions /\ Return(r) /\ Locked(r) /\ req[r].op \in IssueOps
        /\ req[r].op = "refresh" /\ Generate(req[r].session, req[r].org, req[r].at)
        /\ UNCHANGED <<now, disabled, members, cache, lostCutoff>>
    BY DEF RefreshSessionCommit, Locked, IssueOps
  <1>2. /\ req[r].session \in SessionIds /\ sessions[req[r].session].user = req[r].user
        /\ ~sessions[req[r].session].revoked
    BY <1>1 DEF IInv, Shapes, Shape, NeedsSession, ChecksHold
  <1>3. SessionsStay
    BY <1>1 DEF SessionsStay
  <1>4. QED
    BY <1>1, <1>2, <1>3, IssueAccess

\* SwitchSessionOrganization does so for the organization it has locked.
LEMMA SwitchAccess ==
    ASSUME IInv, NEW r \in Requests, SwitchSessionOrganizationCommit(r)
    PROVE  AccessFacts
  <1>1. /\ sessions' = [sessions EXCEPT ![req[r].session].org = req[r].org]
        /\ Return(r) /\ Locked(r) /\ req[r].op \in IssueOps
        /\ req[r].op = "switch" /\ Generate(req[r].session, req[r].org, req[r].at)
        /\ UNCHANGED <<now, disabled, members, cache, lostCutoff>>
    BY DEF SwitchSessionOrganizationCommit, Locked, IssueOps
  <1>2. /\ req[r].session \in SessionIds /\ sessions[req[r].session].user = req[r].user
        /\ ~sessions[req[r].session].revoked
    BY <1>1 DEF IInv, Shapes, Shape, NeedsSession, ChecksHold
  <1>3. \A s \in SessionIds : /\ sessions'[s].user = sessions[s].user
                              /\ sessions'[s].expires = sessions[s].expires
                              /\ sessions'[s].revoked = sessions[s].revoked
                              /\ sessions'[s].st = sessions[s].st
    BY <1>1, <1>2 DEF IInv, TypeOK, SessionType
  <1>4. SessionsStay
    BY <1>3 DEF SessionsStay, Live
  <1>5. QED
    BY <1>1, <1>2, <1>3, <1>4, IssueAccess

\* The commit of a revocation revokes exactly what its mark has cut off.
LEMMA RevokeAccess ==
    ASSUME IInv, NEW r \in Requests, RevokeCommit(r)
    PROVE  AccessFacts
  <1> DEFINE S == Revoked(req[r])
             L == {s \in S : Live(sessions[s])}
  <1>1. /\ Return(r) /\ Locked(r) /\ req[r].op \in RevokeOps
        /\ UNCHANGED <<now, access, accessTTL, cache, lostCutoff>>
    BY DEF RevokeCommit, Locked
  <1>2. CutoffsGrow /\ RequestsMove
    BY <1>1, CutoffsSame, ReturnMoves
  <1>3. CASE UNCHANGED db
    BY <1>1, <1>2, <1>3, NoWrites
  <1>4. CASE /\ sessions' = RevokeSessions(L) /\ UNCHANGED members
             /\ disabled' = IF req[r].op = "disable" THEN disabled \cup {req[r].user} ELSE disabled
    <2>1. L \subseteq S
      OBVIOUS
    <2> HIDE DEF L
    <2>2. \A s \in SessionIds : /\ s \notin L => sessions'[s] = sessions[s]
                                /\ sessions'[s].user = sessions[s].user
                                /\ sessions'[s].expires = sessions[s].expires
                                /\ sessions'[s].st = sessions[s].st
                                /\ sessions[s].revoked => sessions'[s].revoked
      BY <1>4, RevokeSessionsFacts, SessionExpiryStays DEF IInv
    <2>3. SessionsStay
      BY <2>2 DEF SessionsStay, Live
    <2>4. LossesLocked
      BY <1>1, <1>4, <2>1, <2>2 DEF LossesLocked
    <2>5. QED
      BY <1>1, <1>2, <2>3, <2>4 DEF AccessFacts, AccessStep, CutoffsRecovered
  <1>5. QED
    BY <1>3, <1>4 DEF RevokeCommit

\* The commit of a removal deletes sessions whose tokens its mark has cut off.
LEMMA RemovalAccess ==
    ASSUME IInv, NEW r \in Requests, RemoveOrganizationMemberCommit(r)
    PROVE  AccessFacts
  <1> DEFINE S == {s \in SessionsOf(req[r].user) : sessions[s].org = req[r].org}
  <1>1. /\ Return(r) /\ Locked(r) /\ req[r].op = "removeMember"
        /\ sessions' = DeleteSessions(S) /\ members' = members \ {<<req[r].user, req[r].org>>}
        /\ UNCHANGED <<now, disabled, access, accessTTL, cache, lostCutoff>>
    BY DEF RemoveOrganizationMemberCommit, Locked
  <1>2. CutoffsGrow /\ RequestsMove
    BY <1>1, CutoffsSame, ReturnMoves
  <1> HIDE DEF S
  <1>3. SessionsStay /\ \A s \in SessionIds : sessions'[s].revoked = sessions[s].revoked
    <2>1. \A s \in SessionIds : /\ sessions'[s].user = sessions[s].user
                                /\ sessions'[s].expires = sessions[s].expires
                                /\ sessions'[s].revoked = sessions[s].revoked
                                /\ s \notin S => sessions'[s] = sessions[s]
                                /\ s \in S => sessions'[s].st = "deleted"
      BY <1>1, DeleteSessionsFacts, SessionExpiryStays DEF IInv
    <2>2. QED
      BY <2>1 DEF SessionsStay, Live
  <1>4. LossesLocked
    BY <1>1, <1>3 DEF LossesLocked
  <1>5. QED
    BY <1>1, <1>2, <1>3, <1>4 DEF AccessFacts, AccessStep, CutoffsRecovered

\* The clock, logout of an access token, administration and the cleanup batches.
LEMMA EnvironmentAccess ==
    ASSUME IInv, Environment
    PROVE  AccessFacts
  <1>1. /\ UNCHANGED req /\ UNCHANGED <<access, lostCutoff>>
        /\ UNCHANGED <<sessionCutoff, userCutoff, memberCutoff>> /\ revokedJti \subseteq revokedJti'
        /\ now' = now \/ now' = now + 1
    BY DEF Environment, Tick, SetAccessTokenTTL, LogoutAccessToken, EnableUser, AddMembership,
           DeleteExpiredRefreshTokens, DeleteExpiredSessions, DeleteRevokedSessions, DeleteSession,
           cache
  <1>2. RequestsMove
    BY <1>1, ReturnMoves
  <1>3. CutoffsGrow
    BY <1>1, TimesAreIntegers DEF CutoffsGrow, Grown
  <1>4. disabled' \subseteq disabled /\ members \subseteq members'
    BY DEF Environment, Tick, SetAccessTokenTTL, LogoutAccessToken, EnableUser, AddMembership,
           DeleteExpiredRefreshTokens, DeleteExpiredSessions, DeleteRevokedSessions, DeleteSession, db
  <1>5. SessionsStay /\ \A s \in SessionIds : sessions'[s].revoked = sessions[s].revoked
    <2>1. CASE UNCHANGED sessions
      BY <2>1 DEF SessionsStay
    <2>2. ASSUME NEW s \in SessionIds, DeleteSession(s)
          PROVE  SessionsStay /\ \A x \in SessionIds : sessions'[x].revoked = sessions[x].revoked
      <3>1. \A x \in SessionIds : /\ sessions'[x].user = sessions[x].user
                                  /\ sessions'[x].expires = sessions[x].expires
                                  /\ sessions'[x].revoked = sessions[x].revoked
                                  /\ x # s => sessions'[x] = sessions[x]
                                  /\ x = s => sessions'[x].st = "deleted"
        <4>1. sessions' = DeleteSessions({s}) /\ TypeOK
          BY <2>2 DEF DeleteSession, IInv
        <4>2. \A x \in SessionIds : x \in {s} <=> x = s
          OBVIOUS
        <4>3. QED
          BY <4>1, <4>2, DeleteSessionsFacts, SessionExpiryStays
      <3>2. QED
        BY <3>1 DEF SessionsStay, Live
    <2>3. QED
      BY <2>1, <2>2
      DEF Environment, Tick, SetAccessTokenTTL, LogoutAccessToken, EnableUser, AddMembership,
          DeleteExpiredRefreshTokens, DeleteExpiredSessions, DeleteRevokedSessions, db
  <1>6. QED
    BY <1>1, <1>2, <1>3, <1>4, <1>5 DEF AccessFacts, AccessStep, LossesLocked, CutoffsRecovered

\* Every step is one of these.
LEMMA StepAccessFacts ==
    ASSUME IInv, AccessTimes, [Next]_vars
    PROVE  AccessFacts
  <1>1. ASSUME NEW r \in Requests, Abort(r) \/ RevokeInvalid(r) PROVE AccessFacts
    BY <1>1, CutoffsSame, ReturnMoves, NoWrites DEF Abort, RevokeInvalid
  <1>2. CASE UNCHANGED vars
    BY <1>2, CutoffsSame, ReturnMoves, NoWrites DEF vars
  <1>3. ASSUME NEW r \in Requests, Step(r) PROVE AccessFacts
    BY <1>1, <1>3, CheckAccess, MarkAccess, RemoveMarkAccess, CreateAccess, RefreshAccess,
       SwitchAccess, RevokeAccess, RemovalAccess DEF Step
  <1>4. QED
    BY <1>1, <1>2, <1>3, StartAccess, MarkFailsAccess, EnvironmentAccess DEF Next

-----------------------------------------------------------------------------
(* The theorems about access tokens.                                       *)

\* The initial state has no access token.
LEMMA InitAInv == Init => AInv
  <1> SUFFICES ASSUME Init PROVE AInv
    OBVIOUS
  <1>1. /\ \A a \in AccessIds : access[a].st = "free"
        /\ \A r \in Requests : req[r].pc = "idle" /\ req[r].op = "none" /\ req[r].at = 0
        /\ now = 1
    BY DEF Init, FreeAccess, Idle
  <1>2. CutoffsOutlive
    BY DEF Init, NoCutoff, CutoffsOutlive, Outlives
  <1>3. QED
    BY <1>1, <1>2
    DEF AInv, RevokersCut, AccessTimes, OrgLocks, UsersDead, MembersDead, SessionsDead, Issued, Locked,
        HoldsOrgUpdate, OtherOps

\* AInv is inductive relative to IInv.
LEMMA NextAInv == IInv /\ AInv /\ [Next]_vars => AInv'
  <1> SUFFICES ASSUME IInv, AInv, [Next]_vars PROVE AInv'
    OBVIOUS
  <1>1. IInv' /\ AccessFacts
    BY NextIInv, StepAccessFacts DEF AInv
  <1>2. QED
    BY <1>1, AccessTimesStay, OrgLocksStay, UsersDeadStay, MembersDeadStay, SessionsDeadStay,
       RevokersCutStay, CutoffsOutliveStay DEF AInv, AccessFacts

\* What has been revoked is cut off: every cutoff is written under the locks that
\* exclude the issue of another token, and outlives every token it is to reject.
THEOREM AccessInvariance == Spec => []AInv
  <1>1. Spec => [](IInv /\ AInv)
    BY InitIInv, InitAInv, NextIInv, NextAInv, PTL DEF Spec
  <1>2. QED
    BY <1>1, PTL

\* A disabled user has no session that is not revoked and no access token that is
\* accepted, whatever login, refresh or switch DisableUser raced with.
THEOREM DisabledAreShutOut == Spec => []DisabledShutOut
  <1>1. ASSUME IInv, AInv PROVE DisabledShutOut
    <2>1. \A u \in disabled : \A s \in SessionsOf(u) : sessions[s].revoked
      BY <1>1 DEF IInv, DisabledRevoked
    <2>2. ASSUME NEW a \in AccessIds, Issued(a), UserOf(a) \in disabled PROVE ~Accepted(a)
      BY <1>1, <2>2, DeadRejected DEF AInv, UsersDead
    <2>3. QED
      BY <2>1, <2>2 DEF DisabledShutOut, Issued, UserOf
  <1>2. QED
    BY <1>1, Invariance, AccessInvariance, PTL

\* Nobody holds an accepted access token for an organization they are not a member
\* of, whatever was under way when RemoveOrganizationMember took the membership.
THEOREM RemovedAreRejected == Spec => []RemovedRejected
  <1>1. ASSUME IInv, AInv PROVE RemovedRejected
    <2>1. ASSUME NEW a \in AccessIds, Issued(a), <<UserOf(a), access[a].org>> \notin members
          PROVE  ~Accepted(a)
      BY <1>1, <2>1, DeadRejected DEF AInv, MembersDead
    <2>2. QED
      BY <2>1 DEF RemovedRejected, Issued, UserOf
  <1>2. QED
    BY <1>1, Invariance, AccessInvariance, PTL

\* No access token of a revoked session is accepted, of whatever operation revoked it
\* but the start of a required email verification, which marks with a time captured
\* before its lock, as long as the session would not have expired: ChangePassword and
\* RevokeOtherUserSessions mark no session that has.
LiveRevokedRejected ==
    \A a \in AccessIds :
        /\ Issued(a) /\ sessions[access[a].session].revoked
        /\ access[a].session \notin lostCutoff
        /\ sessions[access[a].session].expires > now
        => ~Accepted(a)

\* LiveRevokedRejected holds without the start of a required email verification, which
\* marks with a time it captured before it waited for its lock.
THEOREM LiveRevokedAreRejected ==
    ASSUME "verifyEmail" \notin Ops
    PROVE  Spec => []LiveRevokedRejected
  <1>1. ASSUME IInv, AInv PROVE LiveRevokedRejected
    <2>1. ASSUME NEW a \in AccessIds, Issued(a), sessions[access[a].session].revoked,
                 access[a].session \notin lostCutoff, sessions[access[a].session].expires > now
          PROVE  ~Accepted(a)
      <3>1. access[a].session \in SessionIds
        BY <1>1, <2>1 DEF IInv, Rows, Issued
      <3>2. ~Unmarked(access[a].session)
        BY <1>1, <2>1, <3>1, TimesAreIntegers DEF Unmarked
      <3>3. Dead(a)
        BY <1>1, <2>1, <3>2 DEF AInv, SessionsDead
      <3>4. QED
        BY <1>1, <2>1, <3>3, DeadRejected
    <2>2. QED
      BY <2>1 DEF LiveRevokedRejected
  <1>2. QED
    BY <1>1, Invariance, AccessInvariance, PTL

\* Without those two operations the expiry of the session does not matter.
THEOREM RevokedAreRejected ==
    ASSUME "verifyEmail" \notin Ops, Ops \cap OtherOps = {}
    PROVE  Spec => []RevokedRejected
  <1>1. ASSUME IInv, AInv PROVE RevokedRejected
    <2>1. ASSUME NEW a \in AccessIds, Issued(a), sessions[access[a].session].revoked,
                 access[a].session \notin lostCutoff
          PROVE  ~Accepted(a)
      <3>1. ~Unmarked(access[a].session)
        BY DEF Unmarked
      <3>2. Dead(a)
        BY <1>1, <2>1, <3>1 DEF AInv, SessionsDead
      <3>3. QED
        BY <1>1, <2>1, <3>2, DeadRejected
    <2>2. QED
      BY <2>1 DEF RevokedRejected, Issued
  <1>2. QED
    BY <1>1, Invariance, AccessInvariance, PTL

\* RevokeSessions, Logout, DisableUser and all the others that revoke: whatever
\* requests, markers and lifetimes do, the access tokens a revocation cuts are rejected
\* from its commit on, and no rejected access token is ever accepted again.
THEOREM RevocationIsFinal == Spec => RevocationFinal
  <1> DEFINE Final == \A a \in AccessIds :
                        access[a].st = "issued" /\ Accepted(a)' =>
                           /\ Accepted(a)
                           /\ \A r \in Requests : ~(Cuts(req[r], a) /\ RevokeCommit(r))
  <1>1. ASSUME IInv, AInv, [Next]_vars PROVE Final
    <2>1. IInv' /\ AInv' /\ AccessFacts
      BY <1>1, NextIInv, NextAInv, StepAccessFacts DEF AInv
    <2>2. SUFFICES ASSUME NEW a \in AccessIds, Issued(a), Accepted(a)'
                   PROVE  Accepted(a) /\ \A r \in Requests : ~(Cuts(req[r], a) /\ RevokeCommit(r))
      BY DEF Issued
    <2>3. access'[a] = access[a] /\ Issued(a)'
      BY <2>1, <2>2 DEF AccessFacts, AccessStep, IssuedBy, Issued
    <2>4. ~Dead(a)
      <3>1. Dead(a) => Dead(a)'
        BY <1>1, <2>1, <2>2, <2>3, DeadStays DEF AccessFacts
      <3>2. ~Dead(a)'
        BY <2>1, <2>2, <2>3, DeadRejectedNext
      <3>3. QED
        BY <3>1, <3>2
    <2>5. access[a].iat > 0
      <3>1. access'[a].iat > CutoffAt(sessionCutoff[access[a].session])'
        BY <2>2 DEF Accepted
      <3>2. /\ sessionCutoff'[access'[a].session] \in CutoffType /\ now' \in Int
            /\ access'[a].iat \in Int
        BY <2>1, <2>3, NextNowIsInteger, PolicyAssumption
        DEF IInv, Rows, Issued, TypeOK, AccessType, Clock
      <3>3. CutoffAt(sessionCutoff[access[a].session])' >= 0
        BY <3>2, PolicyAssumption DEF CutoffAt, CutoffType, Clock, Expiry
      <3>4. CutoffAt(sessionCutoff[access[a].session])' \in Int
        BY <3>2, PolicyAssumption DEF CutoffAt, CutoffType, Clock, Expiry
      <3>5. QED
        BY <2>3, <3>1, <3>2, <3>3, <3>4
    <2>6. Accepted(a)
      <3>1. access[a].iat \in Int
        BY <1>1, PolicyAssumption DEF IInv, TypeOK, AccessType, Clock
      <3>2. QED
        BY <1>1, <2>2, <2>4, <2>5, <3>1, RejectedIsDead DEF AInv
    <2>7. ASSUME NEW r \in Requests, Cuts(req[r], a), RevokeCommit(r) PROVE FALSE
      BY <1>1, <2>2, <2>4, <2>7 DEF AInv, RevokersCut, RevokeCommit, Locked
    <2>8. QED
      BY <2>6, <2>7
  <1>2. IInv /\ AInv /\ [Next]_vars => [Final]_vars
    BY <1>1
  <1>3. Spec => [][Final]_vars
    BY <1>2, Invariance, AccessInvariance, PTL DEF Spec
  <1>4. QED
    BY <1>3 DEF RevocationFinal
=============================================================================
