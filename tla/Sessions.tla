------------------------------ MODULE Sessions ------------------------------
(***************************************************************************)
(* Sessions, refresh tokens and access tokens of Authara.                  *)
(*                                                                         *)
(* The state is what PostgreSQL has COMMITTED (sessions, refresh_tokens,   *)
(* users.disabled_at, organization_memberships), the revocation cutoffs in *)
(* Redis, the access tokens already handed out, and the HTTP requests that *)
(* are in flight.  Every request is a READ COMMITTED transaction cut at    *)
(* the points where another transaction can come between:                  *)
(*                                                                         *)
(*    idle --Begin--> begun --lock, re-read, check--> locked --commit--> idle *)
(*                                                                         *)
(* Begin captures the request's `now' and does the unlocked reads; a       *)
(* request in pc "begun" waits for its row locks; in pc "locked" it holds  *)
(* them, has passed its checks and has not committed yet.  The locks are   *)
(* therefore a function of req (see HoldsKeyShare and its neighbours) and  *)
(* disappear with the commit or the rollback.  A request gets its locks in *)
(* one step: which transactions exclude each other is modelled, not the    *)
(* deadlocks that their lock orders allow; PostgreSQL ends one by rolling  *)
(* a transaction back, which is Abort.                                     *)
(***************************************************************************)
EXTENDS Integers, FiniteSets

CONSTANTS
    Users, Orgs,      \* rows of users and organizations
    SessionIds,       \* bound: sessions ever created
    TokenIds,         \* bound: refresh tokens ever created
    AccessIds,        \* bound: access tokens ever issued
    Requests,         \* bound: requests in flight at once
    Ops,              \* the operations the environment may call
    MaxTime,          \* bound: last value of the clock
    SessionTTL, RefreshTTL,   \* config.SessionPolicy
    Rotation,         \* RefreshTokenRotation: < 0 always, 0 never, n interval
    MaxAccessTTL,     \* config.MaxAccessTokenTTL, 24 hours in the code
    None

\* validateSessionPolicies: what the configuration guarantees of the lifetimes.
ASSUME PolicyAssumption ==
    /\ MaxTime \in Nat /\ MaxTime > 0
    /\ SessionTTL \in Nat /\ RefreshTTL \in Nat /\ MaxAccessTTL \in Nat
    /\ Rotation \in Int
    /\ 0 < MaxAccessTTL /\ MaxAccessTTL < RefreshTTL
    /\ RefreshTTL <= SessionTTL
    /\ Rotation < RefreshTTL

ASSUME NoneAssumption ==
    /\ None \notin Users /\ None \notin Orgs
    /\ None \notin SessionIds /\ None \notin TokenIds

VARIABLES
    now,            \* the clock, in seconds (JWT times have that resolution)
    sessions,       \* table sessions
    tokens,         \* table refresh_tokens
    disabled,       \* users with disabled_at set
    members,        \* table organization_memberships, as pairs <<user, org>>
    access,         \* access tokens issued so far; the index is the jti
    accessTTL,      \* the access-token lifetime currently configured
    sessionCutoff, userCutoff, memberCutoff,  \* scope markers in Redis
    revokedJti,     \* single-token markers in Redis
    lostCutoff,     \* history: sessions revoked for reuse while Redis was down
    req             \* the requests in flight

db    == <<sessions, tokens, disabled, members>>
cache == <<sessionCutoff, userCutoff, memberCutoff, revokedJti>>
vars  == <<now, db, access, accessTTL, cache, lostCutoff, req>>

-----------------------------------------------------------------------------
(* Rows and records.                                                       *)

FreeSession == [st |-> "free", user |-> None, org |-> None,
                expires |-> 0, revoked |-> FALSE]
FreeToken   == [st |-> "free", session |-> None, org |-> None, created |-> 0,
                expires |-> 0, consumed |-> FALSE, parent |-> None]
FreeAccess  == [st |-> "free", session |-> None, org |-> None,
                iat |-> 0, exp |-> 0]
NoCutoff    == [at |-> 0, until |-> 0]
Idle        == [op |-> "none", pc |-> "idle", at |-> 0, user |-> None,
                session |-> None, token |-> None, org |-> None, snap |-> {}]

\* Operations that issue tokens, under users.id FOR KEY SHARE.
IssueOps == {"create", "refresh", "switch"}
\* Operations that revoke sessions, under users.id FOR UPDATE: one session,
\* every session of a user, or every session of a user but the current one.
SessionOps == {"reuse", "logout", "revokeSession", "adminRevokeSession",
               "verifyEmail"}
UserOps    == {"revokeAll", "resetPassword", "setPassword", "adminRevokeAll",
               "revokeAdmin", "disable"}
OtherOps   == {"revokeOther", "changePassword"}
RevokeOps  == SessionOps \cup UserOps \cup OtherOps
\* Transactions that also delete the refresh tokens of what they revoke.
DeletesTokens == {"revokeSession", "adminRevokeSession", "setPassword",
                  "adminRevokeAll", "revokeAdmin", "disable"} \cup OtherOps

Live(row) == row.st = "live"
\* getActiveSessionByID: not revoked and not expired.
Active(s, t) == Live(sessions[s]) /\ ~sessions[s].revoked /\ sessions[s].expires > t
SessionsOf(u) == {s \in SessionIds : Live(sessions[s]) /\ sessions[s].user = u}
TokensOf(s)   == {t \in TokenIds : Live(tokens[t]) /\ tokens[t].session = s}

Free(table) == {i \in DOMAIN table : table[i].st = "free"}
NextFree(table) == CHOOSE i \in Free(table) : TRUE

-----------------------------------------------------------------------------
(* Row locks, as a function of the requests in pc "locked".                *)

Locked(r) == req[r].pc = "locked"
\* SELECT ... FROM users ... FOR KEY SHARE / FOR UPDATE.
HoldsKeyShare(r, u) == Locked(r) /\ req[r].op \in IssueOps /\ req[r].user = u
HoldsUpdate(r, u)   == Locked(r) /\ req[r].op \in RevokeOps /\ req[r].user = u
\* SELECT ... FROM organizations ... FOR KEY SHARE / FOR UPDATE.
HoldsOrgKeyShare(r, o) == Locked(r) /\ req[r].op \in IssueOps /\ req[r].org = o
HoldsOrgUpdate(r, o)   == Locked(r) /\ req[r].op = "removeMember" /\ req[r].org = o
\* SELECT ... FROM refresh_tokens ... FOR UPDATE; SELECT ... FROM sessions ...
\* FOR UPDATE, and the row lock UPDATE sessions leaves until the commit.
HoldsToken(r, t)   == Locked(r) /\ req[r].op = "refresh" /\ req[r].token = t
HoldsSession(r, s) ==
    /\ Locked(r) /\ req[r].session = s
    /\ req[r].op \in {"switch", "changePassword", "verifyEmail"}

LockUserForKeyShare(u) == \A q \in Requests : ~HoldsUpdate(q, u)
\* Mutant: FOR NO KEY UPDATE, which does not exclude FOR KEY SHARE.
LockUserForNoKeyUpdate(u) == \A q \in Requests : ~HoldsUpdate(q, u)
LockUserForUpdate(u) ==
    \A q \in Requests : ~HoldsUpdate(q, u) /\ ~HoldsKeyShare(q, u)
\* Mutant: the organization row is read without a lock.
ReadOrganization(o) == TRUE
LockOrganizationForKeyShare(o) == \A q \in Requests : ~HoldsOrgUpdate(q, o)
GetOrganizationByIDForUpdate(o) ==
    \A q \in Requests : ~HoldsOrgUpdate(q, o) /\ ~HoldsOrgKeyShare(q, o)
\* Mutant: the refresh token is read again without FOR UPDATE.
ReadToken(t) == TRUE
LockToken(t) == \A q \in Requests : ~HoldsToken(q, t)
LockSession(s) == \A q \in Requests : ~HoldsSession(q, s)

\* A session row can be deleted when nobody holds it or, through ON DELETE
\* CASCADE, one of its refresh tokens.
Deletable(s) == LockSession(s) /\ \A t \in TokensOf(s) : LockToken(t)

-----------------------------------------------------------------------------
(* Access tokens and revocation cutoffs.                                   *)

\* Mutant: the marker lives as long as a token issued now, not as one issued
\* before the lifetime was lowered.
MarkerCurrentTTL == accessTTL
\* AccessTokenRevocationMarkerTTL
MarkerTTL == IF accessTTL > MaxAccessTTL THEN accessTTL ELSE MaxAccessTTL

\* A marker key that has expired is absent.
CutoffAt(c) == IF now < c.until THEN c.at ELSE 0

Later(a, b) == IF a > b THEN a ELSE b
\* SetMaxInt64: the value and the expiry only ever move forward.
SetMax(c, at) ==
    [at    |-> Later(CutoffAt(c), at),
     until |-> Later(IF now < c.until THEN c.until ELSE 0, now + MarkerTTL)]

\* ValidateAccessToken with the revocation store up: parsing rejects an
\* expired token, Check one that is marked or not newer than a cutoff.
Accepted(a) ==
    LET tok == access[a]
        u   == sessions[tok.session].user
    IN  /\ tok.st = "issued"
        /\ now < tok.exp
        /\ a \notin revokedJti
        /\ tok.iat > CutoffAt(sessionCutoff[tok.session])
        /\ tok.iat > CutoffAt(userCutoff[u])
        /\ tok.iat > CutoffAt(memberCutoff[<<u, tok.org>>])

\* GenerateWithEmailVerification: iat is the request's now.
Generate(s, o, at) ==
    /\ Free(access) # {}
    /\ access' = [access EXCEPT ![NextFree(access)] =
                   [st |-> "issued", session |-> s, org |-> o,
                    iat |-> at, exp |-> at + accessTTL]]

NewToken(s, o, at, expires, parent) ==
    [st |-> "live", session |-> s, org |-> o, created |-> at,
     expires |-> expires, consumed |-> FALSE, parent |-> parent]

\* Mutant: the new expiry is not clamped to the session's.
Unclamped(a, b) == a
Earlier(a, b) == IF a < b THEN a ELSE b

\* Deleting rows keeps their other columns, as history.
DeleteTokens(T) ==
    [t \in TokenIds |-> IF t \in T THEN [tokens[t] EXCEPT !.st = "deleted"]
                                   ELSE tokens[t]]
DeleteSessions(S) ==
    [s \in SessionIds |-> IF s \in S THEN [sessions[s] EXCEPT !.st = "deleted"]
                                     ELSE sessions[s]]
RevokeSessions(S) ==
    [s \in SessionIds |-> IF s \in S THEN [sessions[s] EXCEPT !.revoked = TRUE]
                                     ELSE sessions[s]]

-----------------------------------------------------------------------------
(* Requests.                                                               *)

Begin(r, op, u, s, t, o) ==
    /\ req[r] = Idle
    /\ req' = [req EXCEPT ![r] = [op |-> op, pc |-> "begun", at |-> now,
                                  user |-> u, session |-> s, token |-> t,
                                  org |-> o, snap |-> {}]]
    /\ UNCHANGED <<now, db, access, accessTTL, cache, lostCutoff>>

Return(r) == req' = [req EXCEPT ![r] = Idle]
Lock(r)   == req' = [req EXCEPT ![r].pc = "locked"]

\* Bound: a request that will issue tokens starts only while an identifier is
\* left for it, so that none blocks for want of one.
Issuing == {r \in Requests : req[r].op \in IssueOps}
PoolLeft ==
    /\ Cardinality(Free(tokens)) > Cardinality(Issuing)
    /\ Cardinality(Free(access)) > Cardinality(Issuing)
SessionPoolLeft ==
    Cardinality(Free(sessions)) >
        Cardinality({r \in Requests : req[r].op = "create"})

\* Any error, cancellation or crash before the commit: WithTransaction rolls
\* back; what was written to Redis stays.
Abort(r) ==
    /\ req[r] # Idle
    /\ Return(r)
    /\ UNCHANGED <<now, db, access, accessTTL, cache, lostCutoff>>

-----------------------------------------------------------------------------
(* createSession.                                                          *)

CreateSession(r, u, o) ==
    /\ "create" \in Ops /\ PoolLeft /\ SessionPoolLeft
    /\ <<u, o>> \in members
    /\ Begin(r, "create", u, None, None, o)

\* The locks, then RequireMembership and IsUserDisabled.
MayIssue(q) == <<q.user, q.org>> \in members /\ q.user \notin disabled

CreateSessionCheck(r) ==
    LET q == req[r] IN
    /\ q.op = "create" /\ q.pc = "begun"
    /\ LockUserForKeyShare(q.user) /\ LockOrganizationForKeyShare(q.org)
    /\ IF MayIssue(q) THEN Lock(r) ELSE Return(r)
    /\ UNCHANGED <<now, db, access, accessTTL, cache, lostCutoff>>

CreateSessionCommit(r) ==
    LET q == req[r]
        s == NextFree(sessions)
    IN
    /\ q.op = "create" /\ q.pc = "locked"
    /\ Free(sessions) # {} /\ Free(tokens) # {}
    /\ sessions' = [sessions EXCEPT ![s] =
                     [st |-> "live", user |-> q.user, org |-> q.org,
                      expires |-> q.at + SessionTTL, revoked |-> FALSE]]
    /\ tokens' = [tokens EXCEPT ![NextFree(tokens)] =
                   NewToken(s, q.org, q.at, q.at + RefreshTTL, None)]
    /\ Generate(s, q.org, q.at)
    /\ Return(r)
    /\ UNCHANGED <<now, disabled, members, accessTTL, cache, lostCutoff>>

-----------------------------------------------------------------------------
(* RefreshSession.                                                         *)

\* The unlocked lookup.  A consumed token goes straight to the transaction
\* that revokes the family, an expired one is refused.
RefreshSession(r, t) ==
    LET s == tokens[t].session IN
    /\ "refresh" \in Ops /\ PoolLeft
    /\ Live(tokens[t])
    /\ IF tokens[t].consumed
       THEN Begin(r, "reuse", sessions[s].user, s, t, None)
       ELSE /\ ~(tokens[t].expires < now)
            /\ Begin(r, "refresh", sessions[s].user, s, t, tokens[t].org)

\* Mutant: consumed_at is not looked at again under the lock.
NotReread(rt) == FALSE
Replayed(rt) == Live(rt) /\ rt.consumed

\* User, organization and token locks, then everything is read again.
RefreshSessionCheck(r) ==
    LET q  == req[r]
        rt == tokens[q.token]
        s  == sessions[q.session]
    IN
    /\ q.op = "refresh" /\ q.pc = "begun"
    /\ LockUserForKeyShare(q.user) /\ LockOrganizationForKeyShare(q.org)
    /\ LockToken(q.token)
    /\ IF Replayed(rt)
       THEN req' = [req EXCEPT ![r].op = "reuse"]
       ELSE IF /\ Live(rt) /\ ~(rt.expires < q.at)
               /\ Live(s) /\ ~(s.expires < q.at) /\ ~s.revoked
               /\ MayIssue(q)
            THEN Lock(r) ELSE Return(r)
    /\ UNCHANGED <<now, db, access, accessTTL, cache, lostCutoff>>

ShouldRotate(rt, at) ==
    \/ Rotation < 0
    \/ Rotation > 0 /\ at - rt.created >= Rotation

\* ConsumeRefreshToken, CreateRefreshToken and the access token.  The update of
\* ConsumeRefreshToken is conditional on the token being unconsumed; it is left
\* unconditional here, so that what is checked and proved rests on the lock and
\* on reading the token again alone.
RefreshSessionCommit(r) ==
    LET q  == req[r]
        rt == tokens[q.token]
    IN
    /\ q.op = "refresh" /\ q.pc = "locked"
    /\ Free(tokens) # {}
    /\ tokens' = IF ShouldRotate(rt, q.at)
                 THEN [tokens EXCEPT
                        ![q.token].consumed = TRUE,
                        ![NextFree(tokens)] =
                           NewToken(q.session, q.org, q.at,
                                    Earlier(q.at + RefreshTTL,
                                            sessions[q.session].expires),
                                    q.token)]
                 ELSE tokens
    /\ Generate(q.session, q.org, q.at)
    /\ Return(r)
    /\ UNCHANGED <<now, sessions, disabled, members, accessTTL, cache, lostCutoff>>

-----------------------------------------------------------------------------
(* SwitchSessionOrganization.                                              *)

SwitchSessionOrganization(r, s, o) ==
    /\ "switch" \in Ops /\ PoolLeft
    /\ sessions[s].st # "free"
    /\ Begin(r, "switch", sessions[s].user, s, None, o)

\* The locks and checks, then UPDATE sessions (which keeps the row locked) and
\* the start of DELETE FROM refresh_tokens: the rows that statement can see
\* are the ones committed now.
SwitchSessionOrganizationCheck(r) ==
    LET q == req[r] IN
    /\ q.op = "switch" /\ q.pc = "begun"
    /\ LockUserForKeyShare(q.user) /\ LockOrganizationForKeyShare(q.org)
    /\ IF Active(q.session, q.at) /\ MayIssue(q)
       THEN /\ LockSession(q.session)
            /\ req' = [req EXCEPT ![r].pc = "locked",
                                  ![r].snap = TokensOf(q.session)]
       ELSE Return(r)
    /\ UNCHANGED <<now, db, access, accessTTL, cache, lostCutoff>>

\* DELETE waits for the rows a concurrent refresh has locked, deletes what it
\* saw, and the new token is inserted.
SwitchSessionOrganizationCommit(r) ==
    LET q == req[r] IN
    /\ q.op = "switch" /\ q.pc = "locked"
    /\ Free(tokens) # {}
    /\ \A t \in q.snap : LockToken(t)
    /\ sessions' = [sessions EXCEPT ![q.session].org = q.org]
    /\ tokens' = [DeleteTokens(q.snap) EXCEPT ![NextFree(tokens)] =
                   NewToken(q.session, q.org, q.at,
                            Earlier(q.at + RefreshTTL,
                                    sessions[q.session].expires), None)]
    /\ Generate(q.session, q.org, q.at)
    /\ Return(r)
    /\ UNCHANGED <<now, disabled, members, accessTTL, cache, lostCutoff>>

-----------------------------------------------------------------------------
(* The transactions that revoke sessions.  Each begins on its own; all lock *)
(* the user row FOR UPDATE, re-read, write the cutoffs to Redis (Mark) and  *)
(* then write and commit to PostgreSQL (Commit).                            *)

Logout(r, t) ==
    /\ "logout" \in Ops
    /\ Live(tokens[t])
    /\ Begin(r, "logout", sessions[tokens[t].session].user,
             tokens[t].session, t, None)

\* Logout without a refresh token that is still stored: only the presented
\* access token is marked, until it expires.
LogoutAccessToken(a) ==
    /\ "logout" \in Ops
    /\ access[a].st = "issued" /\ now < access[a].exp
    /\ revokedJti' = revokedJti \cup {a}
    /\ UNCHANGED <<now, db, access, accessTTL, sessionCutoff, userCutoff,
                   memberCutoff, lostCutoff, req>>

RevokeUserSession(r, s) ==
    /\ "revokeSession" \in Ops
    /\ Live(sessions[s])
    /\ Begin(r, "revokeSession", sessions[s].user, s, None, None)

AdminRevokeUserSession(r, s) ==
    /\ "adminRevokeSession" \in Ops
    /\ sessions[s].st # "free"
    /\ Begin(r, "adminRevokeSession", sessions[s].user, s, None, None)

BeginRequiredEmailVerification(r, s) ==
    /\ "verifyEmail" \in Ops
    /\ sessions[s].st # "free"
    /\ Begin(r, "verifyEmail", sessions[s].user, s, None, None)

RevokeOtherUserSessions(r, s) ==
    /\ "revokeOther" \in Ops
    /\ sessions[s].st # "free"
    /\ Begin(r, "revokeOther", sessions[s].user, s, None, None)

ChangePassword(r, s) ==
    /\ "changePassword" \in Ops
    /\ sessions[s].st # "free"
    /\ Begin(r, "changePassword", sessions[s].user, s, None, None)

BeginUserOp(r, op, u) == op \in Ops /\ Begin(r, op, u, None, None, None)

RevokeAllSessions(r, u)          == BeginUserOp(r, "revokeAll", u)
CompletePasswordReset(r, u)        == BeginUserOp(r, "resetPassword", u)
SetPassword(r, u)                == BeginUserOp(r, "setPassword", u)
AdminRevokeAllUserSessions(r, u) == BeginUserOp(r, "adminRevokeAll", u)
RevokeAdmin(r, u)                == BeginUserOp(r, "revokeAdmin", u)
DisableUser(r, u)                == BeginUserOp(r, "disable", u)

\* What the transaction reads again once it has the user row; it gives up
\* when the row it is about is gone.
StillValid(q) ==
    CASE q.op = "logout" -> Live(tokens[q.token]) /\ Live(sessions[q.session])
      [] q.op \in {"reuse", "revokeSession", "adminRevokeSession"} ->
            Live(sessions[q.session])
      [] q.op = "verifyEmail"    -> Active(q.session, q.at)
      [] q.op = "changePassword" -> Active(q.session, now)
      [] OTHER -> TRUE

\* ListActiveSessionsByUserID without the current session: as of the request's
\* now in RevokeOtherUserSessions, as of the locked now in ChangePassword.
OtherActive(q) ==
    {s \in SessionsOf(q.user) \ {q.session} :
        Active(s, IF q.op = "changePassword" THEN now ELSE q.at)}

MarkedSessions(q) ==
    IF q.op \in OtherOps THEN OtherActive(q) ELSE {q.session}

\* Mutant: every revocation marks with the time it captured when it began.
CapturedAt(q) == q.at
\* time.Now() taken under the lock, except in BeginRequiredEmailVerification,
\* which marks with the time its caller captured before.
MarkerAt(q) == IF q.op = "verifyEmail" THEN q.at ELSE now

MarkSessions(S, at) ==
    sessionCutoff' = [s \in SessionIds |->
        IF s \in S THEN SetMax(sessionCutoff[s], at) ELSE sessionCutoff[s]]

\* The user lock, the re-reads and the writes to Redis.  A write that fails
\* aborts the transaction and leaves the cutoffs already written; only the
\* reuse transaction goes on without its cutoff.
RevokeMark(r) ==
    LET q == req[r] IN
    /\ q.op \in RevokeOps /\ q.pc = "begun"
    /\ LockUserForUpdate(q.user)
    /\ StillValid(q)
    /\ Lock(r)
    /\ IF q.op \in UserOps
       THEN /\ userCutoff' = [userCutoff EXCEPT ![q.user] = SetMax(@, MarkerAt(q))]
            /\ UNCHANGED sessionCutoff
       ELSE /\ MarkSessions(MarkedSessions(q), MarkerAt(q))
            /\ UNCHANGED userCutoff
    /\ lostCutoff' = {s \in lostCutoff : s \notin MarkedSessions(q)
                                      /\ ~(q.op \in UserOps /\ sessions[s].user = q.user)}
    /\ UNCHANGED <<now, db, access, accessTTL, memberCutoff, revokedJti>>

RevokeInvalid(r) ==
    LET q == req[r] IN
    /\ q.op \in RevokeOps /\ q.pc = "begun"
    /\ LockUserForUpdate(q.user)
    /\ ~StillValid(q)
    /\ Return(r)
    /\ UNCHANGED <<now, db, access, accessTTL, cache, lostCutoff>>

RevokeMarkFails(r) ==
    LET q == req[r] IN
    /\ q.op \in RevokeOps /\ q.pc = "begun"
    /\ LockUserForUpdate(q.user)
    /\ StillValid(q)
    /\ IF q.op = "reuse"
       THEN /\ Lock(r)
            /\ lostCutoff' = lostCutoff \cup {q.session}
            /\ UNCHANGED sessionCutoff
       ELSE /\ Return(r)
            /\ UNCHANGED lostCutoff
            /\ IF q.op \in OtherOps
               THEN \E S \in SUBSET OtherActive(q) : MarkSessions(S, MarkerAt(q))
               ELSE UNCHANGED sessionCutoff
    /\ UNCHANGED <<now, db, access, accessTTL, userCutoff, memberCutoff, revokedJti>>

\* The rows the UPDATE sessions SET revoked_at touches.
Revoked(q) ==
    CASE q.op \in SessionOps -> {q.session}
      [] q.op \in UserOps    -> SessionsOf(q.user)
      [] OTHER               -> SessionsOf(q.user) \ {q.session}

\* RevokeSessionByIDAndUserID fails when it finds no unrevoked row.
CommitFails(q) ==
    /\ q.op = "adminRevokeSession"
    /\ sessions[q.session].revoked \/ ~Live(sessions[q.session])

RevokeCommit(r) ==
    LET q == req[r]
        S == Revoked(q)
    IN
    /\ q.op \in RevokeOps /\ q.pc = "locked"
    /\ Return(r)
    /\ IF CommitFails(q)
       THEN UNCHANGED db
       ELSE /\ sessions' = RevokeSessions({s \in S : Live(sessions[s])})
            /\ tokens' = IF q.op \in DeletesTokens
                         THEN DeleteTokens(UNION {TokensOf(s) : s \in S})
                         ELSE tokens
            /\ disabled' = IF q.op = "disable" THEN disabled \cup {q.user}
                                               ELSE disabled
            /\ UNCHANGED members
    /\ UNCHANGED <<now, access, accessTTL, cache, lostCutoff>>

\* EnableUser is a plain UPDATE of the user row.
EnableUser(u) ==
    /\ "enable" \in Ops
    /\ u \in disabled
    /\ \A q \in Requests : ~HoldsUpdate(q, u)
    /\ disabled' = disabled \ {u}
    /\ UNCHANGED <<now, sessions, tokens, members, access, accessTTL, cache,
                   lostCutoff, req>>

-----------------------------------------------------------------------------
(* Memberships.  The rules on who may remove whom are the organization     *)
(* service's; here is what removal does to sessions and tokens.            *)

RemoveOrganizationMember(r, u, o) ==
    /\ "removeMember" \in Ops
    /\ <<u, o>> \in members
    /\ Begin(r, "removeMember", u, None, None, o)

\* The organization row FOR UPDATE, then the membership cutoff.
RemoveOrganizationMemberMark(r) ==
    LET q == req[r] IN
    /\ q.op = "removeMember" /\ q.pc = "begun"
    /\ GetOrganizationByIDForUpdate(q.org)
    /\ IF <<q.user, q.org>> \in members
       THEN /\ Lock(r)
            /\ memberCutoff' = [memberCutoff EXCEPT ![<<q.user, q.org>>] =
                                                        SetMax(@, now)]
       ELSE Return(r) /\ UNCHANGED memberCutoff
    /\ UNCHANGED <<now, db, access, accessTTL, sessionCutoff, userCutoff,
                   revokedJti, lostCutoff>>

\* DELETE FROM sessions of that user and active organization, which waits for
\* the rows others hold, and of the membership.
RemoveOrganizationMemberCommit(r) ==
    LET q == req[r]
        S == {s \in SessionsOf(q.user) : sessions[s].org = q.org}
    IN
    /\ q.op = "removeMember" /\ q.pc = "locked"
    /\ \A s \in S : Deletable(s)
    /\ sessions' = DeleteSessions(S)
    /\ tokens' = DeleteTokens(UNION {TokensOf(s) : s \in S})
    /\ members' = members \ {<<q.user, q.org>>}
    /\ Return(r)
    /\ UNCHANGED <<now, disabled, access, accessTTL, cache, lostCutoff>>

\* An invitation accepted: the membership row appears (again).
AddMembership(u, o) ==
    /\ "addMember" \in Ops
    /\ <<u, o>> \notin members
    /\ \A q \in Requests : ~HoldsOrgUpdate(q, o)
    /\ members' = members \cup {<<u, o>>}
    /\ UNCHANGED <<now, sessions, tokens, disabled, access, accessTTL, cache,
                   lostCutoff, req>>

-----------------------------------------------------------------------------
(* Maintenance: batches that skip locked rows.                             *)

\* Mutant: tombstones are cleaned up as well.
ExpiredOrConsumed(t) == Live(tokens[t]) /\ tokens[t].expires < now
ExpiredToken(t) == Live(tokens[t]) /\ tokens[t].expires < now /\ ~tokens[t].consumed

DeleteExpiredRefreshTokens(t) ==
    /\ "maintenance" \in Ops
    /\ ExpiredToken(t)
    /\ LockToken(t)
    /\ tokens' = DeleteTokens({t})
    /\ UNCHANGED <<now, sessions, disabled, members, access, accessTTL, cache,
                   lostCutoff, req>>

DeleteSession(s) ==
    /\ Deletable(s)
    /\ sessions' = DeleteSessions({s})
    /\ tokens' = DeleteTokens(TokensOf(s))
    /\ UNCHANGED <<now, disabled, members, access, accessTTL, cache,
                   lostCutoff, req>>

DeleteExpiredSessions(s) ==
    /\ "maintenance" \in Ops
    /\ Live(sessions[s]) /\ sessions[s].expires < now
    /\ DeleteSession(s)

DeleteRevokedSessions(s) ==
    /\ "maintenance" \in Ops
    /\ Live(sessions[s]) /\ sessions[s].revoked
    /\ DeleteSession(s)

-----------------------------------------------------------------------------
(* The environment: time passes; an operator changes the token lifetime.   *)

Tick ==
    /\ now < MaxTime
    /\ now' = now + 1
    /\ UNCHANGED <<db, access, accessTTL, cache, lostCutoff, req>>

\* Mutant: an off-by-one lets the lifetime reach zero.
SetAccessTokenTTLMinusOne(ttl) ==
    /\ "setTTL" \in Ops
    /\ accessTTL' = ttl - 1
    /\ UNCHANGED <<now, db, access, cache, lostCutoff, req>>

SetAccessTokenTTL(ttl) ==
    /\ "setTTL" \in Ops
    /\ ttl # accessTTL
    /\ accessTTL' = ttl
    /\ UNCHANGED <<now, db, access, cache, lostCutoff, req>>

-----------------------------------------------------------------------------

Init ==
    /\ now = 1
    /\ sessions = [s \in SessionIds |-> FreeSession]
    /\ tokens = [t \in TokenIds |-> FreeToken]
    /\ disabled = {}
    /\ members = Users \X Orgs
    /\ access = [a \in AccessIds |-> FreeAccess]
    /\ accessTTL = MaxAccessTTL
    /\ sessionCutoff = [s \in SessionIds |-> NoCutoff]
    /\ userCutoff = [u \in Users |-> NoCutoff]
    /\ memberCutoff = [m \in Users \X Orgs |-> NoCutoff]
    /\ revokedJti = {}
    /\ lostCutoff = {}
    /\ req = [r \in Requests |-> Idle]

\* A client starts a request.
Start(r) ==
    \/ \E u \in Users, o \in Orgs : CreateSession(r, u, o)
    \/ \E t \in TokenIds : RefreshSession(r, t)
    \/ \E s \in SessionIds, o \in Orgs : SwitchSessionOrganization(r, s, o)
    \/ \E t \in TokenIds : Logout(r, t)
    \/ \E s \in SessionIds : RevokeUserSession(r, s)
    \/ \E s \in SessionIds : AdminRevokeUserSession(r, s)
    \/ \E s \in SessionIds : BeginRequiredEmailVerification(r, s)
    \/ \E s \in SessionIds : RevokeOtherUserSessions(r, s)
    \/ \E s \in SessionIds : ChangePassword(r, s)
    \/ \E u \in Users : RevokeAllSessions(r, u)
    \/ \E u \in Users : CompletePasswordReset(r, u)
    \/ \E u \in Users : SetPassword(r, u)
    \/ \E u \in Users : AdminRevokeAllUserSessions(r, u)
    \/ \E u \in Users : RevokeAdmin(r, u)
    \/ \E u \in Users : DisableUser(r, u)
    \/ \E u \in Users, o \in Orgs : RemoveOrganizationMember(r, u, o)

\* The server carries it on.
Step(r) ==
    \/ CreateSessionCheck(r)
    \/ CreateSessionCommit(r)
    \/ RefreshSessionCheck(r)
    \/ RefreshSessionCommit(r)
    \/ SwitchSessionOrganizationCheck(r)
    \/ SwitchSessionOrganizationCommit(r)
    \/ RevokeMark(r)
    \/ RevokeInvalid(r)
    \/ RevokeCommit(r)
    \/ RemoveOrganizationMemberMark(r)
    \/ RemoveOrganizationMemberCommit(r)

Environment ==
    \/ Tick
    \/ \E ttl \in 1 .. MaxAccessTTL : SetAccessTokenTTL(ttl)
    \/ \E a \in AccessIds : LogoutAccessToken(a)
    \/ \E u \in Users : EnableUser(u)
    \/ \E u \in Users, o \in Orgs : AddMembership(u, o)
    \/ \E t \in TokenIds : DeleteExpiredRefreshTokens(t)
    \/ \E s \in SessionIds : DeleteExpiredSessions(s)
    \/ \E s \in SessionIds : DeleteRevokedSessions(s)

Next ==
    \/ \E r \in Requests : Start(r) \/ Step(r) \/ RevokeMarkFails(r) \/ Abort(r)
    \/ Environment

Spec == Init /\ [][Next]_vars

-----------------------------------------------------------------------------
(* Properties.                                                             *)

Clock == 0 .. MaxTime
Expiry(ttl) == 0 .. MaxTime + ttl

SessionType == [st : {"free", "live", "deleted"}, user : Users \cup {None},
                org : Orgs \cup {None}, expires : Expiry(SessionTTL),
                revoked : BOOLEAN]
TokenType == [st : {"free", "live", "deleted"}, session : SessionIds \cup {None},
              org : Orgs \cup {None}, created : Clock,
              expires : Expiry(SessionTTL), consumed : BOOLEAN,
              parent : TokenIds \cup {None}]
AccessType == [st : {"free", "issued"}, session : SessionIds \cup {None},
               org : Orgs \cup {None}, iat : Clock, exp : Expiry(MaxAccessTTL)]
CutoffType == [at : Clock, until : Expiry(MaxAccessTTL)]
RequestType == [op : IssueOps \cup RevokeOps \cup {"none", "removeMember"},
                pc : {"idle", "begun", "locked"}, at : Clock,
                user : Users \cup {None}, session : SessionIds \cup {None},
                token : TokenIds \cup {None}, org : Orgs \cup {None},
                snap : SUBSET TokenIds]

\* Every variable has its type.
TypeOK ==
    /\ now \in 1 .. MaxTime
    /\ sessions \in [SessionIds -> SessionType]
    /\ tokens \in [TokenIds -> TokenType]
    /\ disabled \in SUBSET Users
    /\ members \in SUBSET (Users \X Orgs)
    /\ access \in [AccessIds -> AccessType]
    /\ accessTTL \in 1 .. MaxAccessTTL
    /\ sessionCutoff \in [SessionIds -> CutoffType]
    /\ userCutoff \in [Users -> CutoffType]
    /\ memberCutoff \in [Users \X Orgs -> CutoffType]
    /\ revokedJti \in SUBSET AccessIds
    /\ lostCutoff \in SUBSET SessionIds
    /\ req \in [Requests -> RequestType]

\* RefreshSession rotates a refresh token at most once, however many requests
\* present it at the same time: no two tokens have the same predecessor.
RotatedOnce ==
    \A t1, t2 \in TokenIds :
        t1 # t2 /\ tokens[t1].parent # None => tokens[t1].parent # tokens[t2].parent

\* While no refresh commits during a switch of its session, a session family has
\* at most one refresh token that can still be used: a rotation that commits leaves
\* its predecessor consumed, also when two requests race for it.
OneLiveToken ==
    \A s \in SessionIds :
        Cardinality({t \in TokensOf(s) : ~tokens[t].consumed}) <= 1

\* Once a revocation has committed, no access token of that session is
\* accepted (CONTRACT.md 8.2, mode "immediate"), however the revocation
\* raced with the requests that issued them; the documented exception is a
\* reuse revocation that could not write its cutoff.
RevokedRejected ==
    \A a \in AccessIds :
        /\ access[a].st = "issued"
        /\ sessions[access[a].session].revoked
        /\ access[a].session \notin lostCutoff
        => ~Accepted(a)

\* A disabled user has no session left that is not revoked and no access
\* token that is accepted: DisableUser cannot miss the session or the token a
\* concurrent login, refresh or switch is about to commit.
DisabledShutOut ==
    /\ \A u \in disabled : \A s \in SessionsOf(u) : sessions[s].revoked
    /\ \A a \in AccessIds :
          access[a].st = "issued" /\ sessions[access[a].session].user \in disabled
          => ~Accepted(a)

\* Nobody holds an accepted access token for an organization they are no
\* longer a member of, whatever refresh or switch was under way when the
\* membership was removed.
RemovedRejected ==
    \A a \in AccessIds :
        /\ access[a].st = "issued"
        /\ <<sessions[access[a].session].user, access[a].org>> \notin members
        => ~Accepted(a)

\* A refresh token never outlives its session: no live token without its
\* session row, and no token that expires after it.
TokenWithinSession ==
    \A t \in TokenIds : Live(tokens[t]) =>
        /\ Live(sessions[tokens[t].session])
        /\ tokens[t].expires <= sessions[tokens[t].session].expires

\* No transaction issues an access token for a session whose revocation or
\* deletion has committed before: a check made before the revocation never
\* leads to a token after it.
NoIssueAfterRevocation ==
    [][\A a \in AccessIds :
         access[a].st = "free" /\ access'[a].st = "issued" =>
            /\ ~sessions[access'[a].session].revoked
            /\ sessions[access'[a].session].st # "deleted"]_vars

\* What a transaction that revokes promises of the access tokens of the sessions it
\* is about to revoke.  Each exception is one of the code: a reuse whose cutoff was
\* lost; tokens newer than the time BeginRequiredEmailVerification captured; and
\* sessions the operations that spare the current one no longer list as active.
Cuts(q, a) ==
    LET s == access[a].session
    IN  /\ q.op \in RevokeOps
        /\ s \in Revoked(q) \ lostCutoff
        /\ q.op = "verifyEmail" => access[a].iat <= q.at
        /\ q.op \in OtherOps => Active(s, now)

\* A revocation is final: from the step in which any of the operations commits on,
\* no access token it cuts is accepted, and no step, however late, makes a rejected
\* access token accepted again - not the expiry of a marker, not a lifetime that an
\* operator lowers, not the next revocation.
RevocationFinal ==
    [][\A a \in AccessIds :
         access[a].st = "issued" /\ Accepted(a)' =>
            /\ Accepted(a)
            /\ \A r \in Requests : ~(Cuts(req[r], a) /\ RevokeCommit(r))]_vars

\* DeleteExpiredRefreshTokens: "Consumed rows are replay-detection tombstones.
\* Keep them until the parent session family expires or is revoked".
TombstonesKept ==
    [][\A t \in TokenIds :
         Live(tokens[t]) /\ tokens[t].consumed /\ ~Live(tokens'[t]) =>
            LET s == tokens[t].session
            IN  sessions'[s].revoked \/ ~Live(sessions'[s])]_vars
=============================================================================
