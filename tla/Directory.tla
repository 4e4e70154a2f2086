------------------------------ MODULE Directory ------------------------------
(***************************************************************************)
(* Who may do what: users, platform administrators, organizations, their   *)
(* members and their invitations.                                          *)
(*                                                                         *)
(* A request is a database transaction: it takes row locks one after       *)
(* another, in the order of its code, reads and decides (Check), and       *)
(* writes and commits (one action for each kind of request).  Between any  *)
(* two of these steps other transactions may commit what the locks held do *)
(* not forbid.  A transaction may be rolled back at any point: refused,    *)
(* abandoned, or the victim of a deadlock.                                 *)
(***************************************************************************)
EXTENDS Integers, FiniteSets, Sequences

CONSTANTS
    People,        \* bound: users ever created, each with an address of its own
    Orgs,          \* bound: organizations ever created; numbers, ordered as their IDs
    Invites,       \* bound: invitations ever created
    Txns,          \* bound: concurrent transactions
    Modes,         \* organization modes: "personal", "single", "multi"
    NoOne

ASSUME DirectoryAssumption ==
    /\ IsFiniteSet(People) /\ IsFiniteSet(Orgs)
    /\ Orgs \subseteq Nat /\ Modes \subseteq {"personal", "single", "multi"}
    /\ NoOne \notin People \cup Orgs \cup Invites

VARIABLES
    orgMode,       \* table organization_mode
    status,        \* table users: absent, active, disabled or deleted
    admins,        \* table user_platform_roles, the role admin
    organization,  \* table organizations: kind and creator
    member,        \* table organization_memberships: a role or "none"
    invitation,    \* table organization_invitations
    txn            \* transactions

directoryVars == <<orgMode, status, admins, organization, member, invitation, txn>>

Roles == {"owner", "admin", "member"}
NoOrganization == [kind |-> "none", by |-> NoOne]
NoInvitation == [status |-> "absent", org |-> NoOne, for |-> NoOne, role |-> "none",
                 by |-> NoOne, expired |-> FALSE]
NoTxn == [op |-> "idle", actor |-> NoOne, user |-> NoOne, org |-> NoOne, invite |-> NoOne,
          new |-> NoOne, role |-> "none", past |-> {}, todo |-> <<>>, held |-> {},
          listed |-> FALSE, checked |-> FALSE]

Present(u) == u \in People /\ status[u] \in {"active", "disabled"}
Founded(o) == o \in Orgs /\ organization[o].kind \in {"personal", "team"}
MembersOf(o) == {u \in People : member[o][u] # "none"}
OwnersOf(o) == {u \in People : member[o][u] = "owner"}
OrganizationsOf(u) == {o \in Orgs : member[o][u] # "none"}
ActiveAdmins == {u \in admins : status[u] = "active"}

-----------------------------------------------------------------------------
(* Row locks.                                                              *)

ForUpdate(table, id) == [row |-> <<table, id>>, mode |-> "update"]
KeyShare(table, id) == [row |-> <<table, id>>, mode |-> "share"]

\* FOR UPDATE excludes every lock, FOR KEY SHARE only FOR UPDATE.
Compatible(t, lock) ==
    \A q \in Txns \ {t} : \A held \in txn[q].held :
        held.row = lock.row => held.mode = "share" /\ lock.mode = "share"

RowExists(row) ==
    \/ row[1] = "role"
    \/ row[1] = "user" /\ Present(row[2])
    \/ row[1] = "org" /\ Founded(row[2])
    \/ row[1] = "invite" /\ row[2] \in Invites /\ invitation[row[2]].status \notin {"absent", "deleted"}

\* A request begins; the time it reads is before that of every later step.
Begin(t, request, locks) ==
    /\ txn[t] = NoTxn
    /\ txn' = [txn EXCEPT ![t] =
            [request EXCEPT !.todo = locks,
                            !.past = {i \in Invites : invitation[i].expired}]]
    /\ UNCHANGED <<orgMode, status, admins, organization, member, invitation>>

\* The next lock, once no other transaction holds one against it.
Lock(t) ==
    /\ txn[t].todo # <<>>
    /\ RowExists(Head(txn[t].todo).row) /\ Compatible(t, Head(txn[t].todo))
    /\ txn' = [txn EXCEPT ![t].todo = Tail(@), ![t].held = @ \cup {Head(txn[t].todo)}]
    /\ UNCHANGED <<orgMode, status, admins, organization, member, invitation>>

\* A row that is gone: the inviter of a resent invitation and an organization of
\* a user who is deleted are passed over, other requests fail.
PassOver(t) ==
    /\ txn[t].todo # <<>> /\ ~RowExists(Head(txn[t].todo).row)
    /\ \/ txn[t].op = "resend" /\ Head(txn[t].todo).row[1] = "user"
       \/ txn[t].op = "deleteUser" /\ Head(txn[t].todo).row[1] = "org"
    /\ txn' = [txn EXCEPT ![t].todo = Tail(@)]
    /\ UNCHANGED <<orgMode, status, admins, organization, member, invitation>>

RollBack(t) ==
    /\ txn[t] # NoTxn
    /\ txn' = [txn EXCEPT ![t] = NoTxn]
    /\ UNCHANGED <<orgMode, status, admins, organization, member, invitation>>

\* A transaction of this kind that has decided, and its end.
Decided(t, op) == txn[t].checked /\ txn[t].op = op
Committed(t) == txn' = [txn EXCEPT ![t] = NoTxn]

\* Rows that a commit writes, or refers to, without having locked them before.
MayWrite(t, table, ids) == \A id \in ids : Compatible(t, ForUpdate(table, id))
MayRefer(t, table, id) == RowExists(<<table, id>>) /\ Compatible(t, KeyShare(table, id))

-----------------------------------------------------------------------------
(* Administration.                                                         *)

\* Mutant: the row of the role is not locked.
RoleUnlocked == <<>>
\* LockPlatformRoleByName.
LockPlatformRole == <<ForUpdate("role", "admin")>>

\* The guard of the last administrator.
NotLastAdmin(u) == u \in ActiveAdmins => Cardinality(ActiveAdmins) > 1

BeginDisableUser(t, actor, u) ==
    Begin(t, [NoTxn EXCEPT !.op = "disable", !.actor = actor, !.user = u],
          LockPlatformRole \o <<ForUpdate("user", u)>>)

DisableUserAllowed(t) == txn[t].actor # txn[t].user /\ NotLastAdmin(txn[t].user)

\* Sessions has the revocations that go with these.
DisableUser(t) ==
    /\ Decided(t, "disable")
    /\ status' = [status EXCEPT ![txn[t].user] = "disabled"]
    /\ Committed(t)
    /\ UNCHANGED <<orgMode, admins, organization, member, invitation>>

\* No lock but that of the update.
EnableUser(t, u) ==
    /\ Present(u) /\ txn[t] = NoTxn /\ MayWrite(t, "user", {u})
    /\ status' = [status EXCEPT ![u] = "active"]
    /\ UNCHANGED <<orgMode, admins, organization, member, invitation, txn>>

\* AddUserPlatformRoleByName, from the console or the command line.
GrantAdmin(t, u) ==
    /\ txn[t] = NoTxn /\ MayRefer(t, "role", "admin") /\ MayRefer(t, "user", u)
    /\ admins' = admins \cup {u}
    /\ UNCHANGED <<orgMode, status, organization, member, invitation, txn>>

\* From the console, where the actor is another user, or the command line.
BeginRevokeAdmin(t, actor, u) ==
    Begin(t, [NoTxn EXCEPT !.op = "revokeAdmin", !.actor = actor, !.user = u],
          LockPlatformRole \o <<ForUpdate("user", u)>>)

RevokeAdminAllowed(t) == txn[t].actor # txn[t].user /\ NotLastAdmin(txn[t].user)

RevokeAdmin(t) ==
    /\ Decided(t, "revokeAdmin")
    /\ admins' = admins \ {txn[t].user}
    /\ Committed(t)
    /\ UNCHANGED <<orgMode, status, organization, member, invitation>>

-----------------------------------------------------------------------------
(* Organizations and members.                                              *)

Personal(o) == organization[o].kind = "personal"
Found(o, kind, u) == organization' = [organization EXCEPT ![o] = [kind |-> kind, by |-> u]]

WithoutOrganizations(gone) ==
    organization' = [o \in Orgs |->
        IF o \in gone THEN [NoOrganization EXCEPT !.kind = "deleted"] ELSE organization[o]]

NoMembers == [u \in People |-> "none"]

\* Team organizations of one's own, in the multi mode.
CreateOrganization(t, u, o) ==
    /\ txn[t] = NoTxn /\ orgMode = "multi"
    /\ MayRefer(t, "user", u) /\ organization[o] = NoOrganization
    /\ Found(o, "team", u)
    /\ member' = [member EXCEPT ![o][u] = "owner"]
    /\ UNCHANGED <<orgMode, status, admins, invitation, txn>>

\* Mutant: the organization is read without FOR UPDATE.
OrganizationUnlocked(o) == <<>>
\* GetOrganizationByIDForUpdate.
LockOrganization(o) == <<ForUpdate("org", o)>>

BeginRemoveMember(t, actor, u, o) ==
    Begin(t, [NoTxn EXCEPT !.op = "removeMember", !.actor = actor, !.user = u, !.org = o],
          LockOrganization(o))

\* canRemoveOrganizationMember.
CanRemove(actorRole, targetRole) ==
    \/ actorRole = "owner"
    \/ actorRole = "admin" /\ targetRole # "owner"

RemoveMemberAllowed(t) ==
    LET o == txn[t].org
        actorRole == member[o][txn[t].actor]
        targetRole == member[o][txn[t].user]
    IN  /\ Personal(o) => orgMode = "multi" /\ organization[o].by # txn[t].user
        /\ actorRole # "none" /\ targetRole # "none"
        /\ txn[t].actor = txn[t].user \/ CanRemove(actorRole, targetRole)
        /\ Cardinality(MembersOf(o)) > 1
        /\ targetRole = "owner" => Cardinality(OwnersOf(o)) > 1

RemoveOrganizationMember(t) ==
    /\ Decided(t, "removeMember")
    /\ member' = [member EXCEPT ![txn[t].org][txn[t].user] = "none"]
    /\ Committed(t)
    /\ UNCHANGED <<orgMode, status, admins, organization, invitation>>

BeginUpdateMember(t, actor, u, o, role) ==
    /\ role \in {"admin", "member"}
    /\ Begin(t, [NoTxn EXCEPT !.op = "updateMember", !.actor = actor, !.user = u, !.org = o,
                              !.role = role], LockOrganization(o))

UpdateMemberAllowed(t) ==
    /\ member[txn[t].org][txn[t].actor] \in {"owner", "admin"}
    /\ member[txn[t].org][txn[t].user] \notin {"none", "owner"}

UpdateOrganizationMember(t) ==
    /\ Decided(t, "updateMember")
    /\ member[txn[t].org][txn[t].user] # "none"
    /\ member' = [member EXCEPT ![txn[t].org][txn[t].user] = txn[t].role]
    /\ Committed(t)
    /\ UNCHANGED <<orgMode, status, admins, organization, invitation>>

BeginTransfer(t, actor, u, o) ==
    /\ actor # u
    /\ Begin(t, [NoTxn EXCEPT !.op = "transfer", !.actor = actor, !.user = u, !.org = o],
             <<KeyShare("user", actor), KeyShare("user", u)>> \o LockOrganization(o))

TransferAllowed(t) ==
    /\ ~Personal(txn[t].org)
    /\ member[txn[t].org][txn[t].actor] = "owner" /\ member[txn[t].org][txn[t].user] # "none"

\* The former owner first: an index allows one owner.
TransferOrganizationOwnership(t) ==
    LET o == txn[t].org
    IN  /\ Decided(t, "transfer")
        /\ {txn[t].actor, txn[t].user} \subseteq MembersOf(o)
        /\ OwnersOf(o) \subseteq {txn[t].actor, txn[t].user}
        /\ member' = [member EXCEPT ![o][txn[t].actor] = "admin", ![o][txn[t].user] = "owner"]
        /\ Committed(t)
        /\ UNCHANGED <<orgMode, status, admins, organization, invitation>>

BeginDeleteOrganization(t, actor, o) ==
    Begin(t, [NoTxn EXCEPT !.op = "deleteOrganization", !.actor = actor, !.org = o],
          LockOrganization(o))

DeleteOrganizationAllowed(t) ==
    /\ ~Personal(txn[t].org) /\ member[txn[t].org][txn[t].actor] = "owner"
    /\ orgMode = "single" => Cardinality(MembersOf(txn[t].org)) = 1

\* Invitations go with their organization: ON DELETE CASCADE.
DeleteInvitations(gone) ==
    invitation' = [i \in Invites |->
        IF i \in gone THEN [NoInvitation EXCEPT !.status = "deleted"] ELSE invitation[i]]
InvitationsOf(gone) == {i \in Invites : invitation[i].org \in gone}

DeleteOrganization(t) ==
    /\ Decided(t, "deleteOrganization")
    /\ WithoutOrganizations({txn[t].org})
    /\ member' = [member EXCEPT ![txn[t].org] = NoMembers]
    /\ MayWrite(t, "invite", InvitationsOf({txn[t].org}))
    /\ DeleteInvitations(InvitationsOf({txn[t].org}))
    /\ Committed(t)
    /\ UNCHANGED <<orgMode, status, admins>>

-----------------------------------------------------------------------------
(* The deletion of a user.                                                 *)

BeginDeleteUser(t, u) ==
    Begin(t, [NoTxn EXCEPT !.op = "deleteUser", !.user = u],
          LockPlatformRole \o <<ForUpdate("user", u)>>)

\* A set of organizations in the order of their IDs.
Sorted(os) == {s \in [1 .. Cardinality(os) -> os] : \A m, n \in DOMAIN s : m < n => s[m] < s[n]}

\* PrepareUserDeletion: the user's organizations are locked in that order.
ListMemberships(t) ==
    /\ txn[t].op = "deleteUser" /\ txn[t].todo = <<>> /\ ~txn[t].listed
    /\ NotLastAdmin(txn[t].user)
    /\ \E s \in Sorted(OrganizationsOf(txn[t].user)) :
          txn' = [txn EXCEPT ![t].listed = TRUE,
                             ![t].todo = [n \in DOMAIN s |-> ForUpdate("org", s[n])]]
    /\ UNCHANGED <<orgMode, status, admins, organization, member, invitation>>

\* The organizations that were locked and still have the user as a member.
LockedOrganizations(t) ==
    {o \in OrganizationsOf(txn[t].user) : ForUpdate("org", o) \in txn[t].held}
OwnPersonal(o, u) == Personal(o) /\ organization[o].by = u

DeleteUserAllowed(t) ==
    /\ txn[t].listed
    /\ \A o \in LockedOrganizations(t) :
        \/ OwnPersonal(o, txn[t].user)
        \/ /\ Personal(o) => orgMode = "multi" /\ Cardinality(MembersOf(o)) > 1
           /\ Cardinality(MembersOf(o)) > 1 =>
                  (member[o][txn[t].user] = "owner" => Cardinality(OwnersOf(o)) > 1)

\* The organizations that go with the user.
Leaving(t) ==
    {o \in LockedOrganizations(t) : \/ OwnPersonal(o, txn[t].user)
                                    \/ organization[o].kind = "team" /\ Cardinality(MembersOf(o)) = 1}

\* Memberships removed, DeleteUserEmailReferences, and the rows that cascade.
DeleteUser(t) ==
    LET u == txn[t].user
        gone == InvitationsOf(Leaving(t)) \cup {i \in Invites : invitation[i].for = u}
    IN  /\ Decided(t, "deleteUser")
        /\ status' = [status EXCEPT ![u] = "deleted"]
        /\ admins' = admins \ {u}
        /\ WithoutOrganizations(Leaving(t))
        /\ MayWrite(t, "invite", gone \cup {i \in Invites : invitation[i].by = u})
        /\ member' = [o \in Orgs |-> IF o \in Leaving(t) THEN NoMembers
                                     ELSE [member[o] EXCEPT ![u] = "none"]]
        /\ invitation' = [i \in Invites |->
                CASE i \in gone -> [NoInvitation EXCEPT !.status = "deleted"]
                  [] i \notin gone /\ invitation[i].by = u -> [invitation[i] EXCEPT !.by = NoOne]
                  [] OTHER -> invitation[i]]
        /\ Committed(t)
        /\ UNCHANGED orgMode

-----------------------------------------------------------------------------
(* Invitations.                                                            *)

AllowsInvitations == orgMode \in {"single", "multi"}
Active(i) == invitation[i].status = "pending"
\* Status(now), for the time that the request has read.
ExpiredAt(t, i) == i \in txn[t].past
NotMember(o, u) == member[o][u] = "none"

\* Mutant: the update does not ask what the invitation has become.
MarkRevokedAnyway(i) == invitation[i].status \notin {"absent", "deleted"}
\* MarkOrganizationInvitationRevoked changes an active invitation only.
MarkRevoked(i) == Active(i)

\* CreateOrganizationInvitation, which an index refuses while another is active;
\* an invitation it replaces is revoked.
CreateInvitationRow(i, old, row) ==
    /\ invitation[i].status = "absent"
    /\ \A k \in Invites \ {old} :
            ~(Active(k) /\ invitation[k].org = row.org /\ invitation[k].for = row.for)
    /\ old # NoOne => MarkRevoked(old)
    /\ invitation' = [k \in Invites |-> CASE k = i -> row
                                          [] k = old -> [invitation[k] EXCEPT !.status = "revoked"]
                                          [] OTHER -> invitation[k]]

BeginCreateInvitation(t, actor, o, u, role) ==
    /\ AllowsInvitations /\ role \in {"admin", "member"}
    /\ Begin(t, [NoTxn EXCEPT !.op = "invite", !.actor = actor, !.org = o, !.user = u,
                              !.role = role],
             <<KeyShare("user", actor), KeyShare("org", o)>>)

\* Who may invite, and whom.
InviteAllowed(t) ==
    /\ member[txn[t].org][txn[t].actor] \in {"owner", "admin"}
    /\ NotMember(txn[t].org, txn[t].user)

\* GetActiveOrganizationInvitationByOrganizationAndEmail, without a lock.
ActiveFor(o, u) == {k \in Invites : Active(k) /\ invitation[k].org = o /\ invitation[k].for = u}

\* What Check remembers: an expired invitation, to be replaced.
Replaces(t) ==
    LET found == ActiveFor(txn[t].org, txn[t].user)
    IN  IF found = {} THEN NoOne ELSE CHOOSE k \in found : TRUE

CreateInvitation(t, i) ==
    /\ Decided(t, "invite")
    /\ MayWrite(t, "invite", {txn[t].invite} \ {NoOne})
    /\ CreateInvitationRow(i, txn[t].invite,
            [status |-> "pending", org |-> txn[t].org, for |-> txn[t].user,
             role |-> txn[t].role, by |-> txn[t].actor, expired |-> FALSE])
    /\ Committed(t)
    /\ UNCHANGED <<orgMode, status, admins, organization, member>>

BeginResend(t, o, i) ==
    /\ AllowsInvitations /\ RowExists(<<"invite", i>>) /\ invitation[i].org = o
    /\ Begin(t, [NoTxn EXCEPT !.op = "resend", !.org = o, !.invite = i],
             (IF invitation[i].by = NoOne THEN <<>> ELSE <<KeyShare("user", invitation[i].by)>>)
                \o <<KeyShare("org", o), ForUpdate("invite", i)>>)

ResendAllowed(t) ==
    Active(txn[t].invite) /\ NotMember(txn[t].org, invitation[txn[t].invite].for)

\* A new invitation, with a new token, in place of the old one.
ResendInvitation(t, i) ==
    /\ Decided(t, "resend")
    /\ CreateInvitationRow(i, txn[t].invite, [invitation[txn[t].invite] EXCEPT !.expired = FALSE])
    /\ Committed(t)
    /\ UNCHANGED <<orgMode, status, admins, organization, member>>

BeginRevokeInvitation(t, actor, o, i) ==
    /\ AllowsInvitations
    /\ Begin(t, [NoTxn EXCEPT !.op = "revokeInvite", !.actor = actor, !.org = o, !.invite = i],
             <<KeyShare("user", actor), KeyShare("org", o), ForUpdate("invite", i)>>)

RevokeInviteAllowed(t) ==
    LET i == txn[t].invite
    IN  invitation[i].org = txn[t].org /\ Active(i) /\ ~ExpiredAt(t, i)

RevokeInvitation(t) ==
    /\ Decided(t, "revokeInvite") /\ MarkRevoked(txn[t].invite)
    /\ invitation' = [invitation EXCEPT ![txn[t].invite].status = "revoked"]
    /\ Committed(t)
    /\ UNCHANGED <<orgMode, status, admins, organization, member>>

\* Mutant: LockUserForKeyShare.
ShareUser(u) == <<KeyShare("user", u)>>
\* GetUserByIDForUpdate.
LockUser(u) == <<ForUpdate("user", u)>>

\* Mutant: the invitation is locked before its organization.
InvitationFirst(u, i) == LockUser(u) \o <<ForUpdate("invite", i), KeyShare("org", invitation[i].org)>>
\* The organization is that of the invitation when it was looked up.
AcceptLocks(u, i) == LockUser(u) \o <<KeyShare("org", invitation[i].org), ForUpdate("invite", i)>>

BeginAccept(t, u, i) ==
    /\ AllowsInvitations /\ RowExists(<<"invite", i>>)
    /\ Begin(t, [NoTxn EXCEPT !.op = "accept", !.user = u, !.invite = i, !.org = invitation[i].org],
             AcceptLocks(u, i))

\* An accepted invitation is accepted again by its user without any change.
AcceptAllowed(t) ==
    LET i == txn[t].invite
    IN  /\ invitation[i].for = txn[t].user /\ Active(i) /\ ~ExpiredAt(t, i)
        /\ orgMode = "single" /\ NotMember(txn[t].org, txn[t].user)
              => OrganizationsOf(txn[t].user) = {}

\* The membership that an invitation gives to one who has none.
Admit(o, u, role) ==
    member' = [member EXCEPT ![o][u] = IF @ = "none" THEN role ELSE @]

\* MarkOrganizationInvitationAccepted.
MarkAccepted(i) ==
    /\ Active(i)
    /\ invitation' = [invitation EXCEPT ![i].status = "accepted"]

AcceptInvitation(t) ==
    /\ Decided(t, "accept")
    /\ Admit(txn[t].org, txn[t].user, invitation[txn[t].invite].role)
    /\ MarkAccepted(txn[t].invite)
    /\ Committed(t)
    /\ UNCHANGED <<orgMode, status, admins, organization>>

\* The invitation's time passes.
Expire(i) ==
    /\ Active(i) /\ ~invitation[i].expired
    /\ invitation' = [invitation EXCEPT ![i].expired = TRUE]
    /\ UNCHANGED <<orgMode, status, admins, organization, member, txn>>

-----------------------------------------------------------------------------
(* Signup.                                                                 *)

\* SignupOrganizationPlanFor: the kind of the first organization, if any.
InitialKind(invited) ==
    CASE orgMode = "single" -> IF invited THEN "none" ELSE "team"
      [] OTHER -> "personal"

\* signupWithPassword, and a first login with a provider, without an invitation:
\* the rows are new, so no other transaction meets this one.
Signup(u, o) ==
    /\ status[u] = "absent" /\ organization[o] = NoOrganization
    /\ \A t \in Txns : txn[t].op = "signup" => txn[t].user # u
    /\ status' = [status EXCEPT ![u] = "active"]
    /\ Found(o, InitialKind(FALSE), u)
    /\ member' = [member EXCEPT ![o][u] = "owner"]
    /\ UNCHANGED <<orgMode, admins, invitation, txn>>

\* With one, it is accepted in the same transaction.
BeginSignup(t, u, i) ==
    /\ status[u] = "absent" /\ AllowsInvitations /\ RowExists(<<"invite", i>>)
    /\ \A q \in Txns : txn[q].op = "signup" => txn[q].user # u
    /\ Begin(t, [NoTxn EXCEPT !.op = "signup", !.user = u, !.invite = i, !.org = invitation[i].org],
             <<KeyShare("org", invitation[i].org), ForUpdate("invite", i)>>)

SignupAllowed(t) ==
    LET i == txn[t].invite
    IN  status[txn[t].user] = "absent" /\ invitation[i].for = txn[t].user /\ Active(i) /\ ~ExpiredAt(t, i)

SignupInvited(t, o) ==
    LET u == txn[t].user
    IN  /\ Decided(t, "signup") /\ organization[o] = NoOrganization
        /\ status' = [status EXCEPT ![u] = "active"]
        /\ IF InitialKind(TRUE) = "none"
           THEN /\ Admit(txn[t].org, u, invitation[txn[t].invite].role)
                /\ UNCHANGED organization
           ELSE /\ Found(o, InitialKind(TRUE), u)
                /\ member' = [member EXCEPT ![o][u] = "owner",
                                            ![txn[t].org][u] = invitation[txn[t].invite].role]
        /\ MarkAccepted(txn[t].invite)
        /\ Committed(t)
        /\ UNCHANGED <<orgMode, admins>>

-----------------------------------------------------------------------------
(* The reads and the decision of a transaction that has its locks.         *)

Allowed(t) ==
    \/ txn[t].op = "disable" /\ DisableUserAllowed(t)
    \/ txn[t].op = "revokeAdmin" /\ RevokeAdminAllowed(t)
    \/ txn[t].op = "deleteUser" /\ DeleteUserAllowed(t)
    \/ txn[t].op = "removeMember" /\ RemoveMemberAllowed(t)
    \/ txn[t].op = "updateMember" /\ UpdateMemberAllowed(t)
    \/ txn[t].op = "transfer" /\ TransferAllowed(t)
    \/ txn[t].op = "deleteOrganization" /\ DeleteOrganizationAllowed(t)
    \/ txn[t].op = "resend" /\ ResendAllowed(t)
    \/ txn[t].op = "revokeInvite" /\ RevokeInviteAllowed(t)
    \/ txn[t].op = "accept" /\ AcceptAllowed(t)
    \/ txn[t].op = "signup" /\ SignupAllowed(t)

Check(t) ==
    /\ txn[t].todo = <<>> /\ ~txn[t].checked
    /\ \/ /\ Allowed(t)
          /\ txn' = [txn EXCEPT ![t].checked = TRUE]
       \/ /\ txn[t].op = "invite" /\ InviteAllowed(t)
          /\ Replaces(t) # NoOne => ExpiredAt(t, Replaces(t))
          /\ txn' = [txn EXCEPT ![t].checked = TRUE, ![t].invite = Replaces(t)]
    /\ UNCHANGED <<orgMode, status, admins, organization, member, invitation>>

DirectoryInit ==
    /\ orgMode \in Modes
    /\ status = [u \in People |-> "absent"]
    /\ admins = {}
    /\ organization = [o \in Orgs |-> NoOrganization]
    /\ member = [o \in Orgs |-> NoMembers]
    /\ invitation = [i \in Invites |-> NoInvitation]
    /\ txn = [t \in Txns |-> NoTxn]

AdminNext(t) ==
    \/ \E u \in People, actor \in People \cup {NoOne} :
        BeginDisableUser(t, actor, u) \/ BeginRevokeAdmin(t, actor, u)
    \/ \E u \in People : EnableUser(t, u) \/ GrantAdmin(t, u) \/ BeginDeleteUser(t, u)
    \/ DisableUser(t) \/ RevokeAdmin(t) \/ ListMemberships(t) \/ DeleteUser(t)

OrganizationNext(t) ==
    \/ \E o \in Orgs, actor, u \in People :
        \/ BeginRemoveMember(t, actor, u, o) \/ BeginTransfer(t, actor, u, o)
        \/ \E role \in Roles : BeginUpdateMember(t, actor, u, o, role)
    \/ \E o \in Orgs, u \in People : CreateOrganization(t, u, o) \/ BeginDeleteOrganization(t, u, o)
    \/ RemoveOrganizationMember(t) \/ UpdateOrganizationMember(t)
    \/ TransferOrganizationOwnership(t) \/ DeleteOrganization(t)

InvitationNext(t) ==
    \/ \E o \in Orgs, actor, u \in People, role \in Roles : BeginCreateInvitation(t, actor, o, u, role)
    \/ \E i \in Invites, o \in Orgs : BeginResend(t, o, i)
    \/ \E i \in Invites, o \in Orgs, actor \in People : BeginRevokeInvitation(t, actor, o, i)
    \/ \E i \in Invites, u \in People : BeginAccept(t, u, i) \/ BeginSignup(t, u, i)
    \/ \E i \in Invites : CreateInvitation(t, i) \/ ResendInvitation(t, i)
    \/ RevokeInvitation(t) \/ AcceptInvitation(t) \/ \E o \in Orgs : SignupInvited(t, o)

DirectoryNext ==
    \/ \E t \in Txns : \/ Lock(t) \/ PassOver(t) \/ Check(t) \/ RollBack(t)
                       \/ AdminNext(t) \/ OrganizationNext(t) \/ InvitationNext(t)
    \/ \E u \in People, o \in Orgs : Signup(u, o)
    \/ \E i \in Invites : Expire(i)

DirectorySpec == DirectoryInit /\ [][DirectoryNext]_directoryVars

-----------------------------------------------------------------------------
(* Properties.                                                             *)

\* An instance that has an active administrator keeps one, whoever disables,
\* demotes or deletes whom at the same time (ErrLastAdmin).
AdminKept == [][ActiveAdmins # {} => ActiveAdmins' # {}]_directoryVars

\* Every variable holds what its table may hold, members and invitations are of
\* users and organizations that exist, and an organization has exactly one owner
\* as long as it exists; the owner of a personal one is the user it was created
\* for, whatever members leave, are removed, promoted or deleted at the same
\* time (ErrLastOrganizationOwner).
DirectoryTypeOK ==
    /\ orgMode \in Modes
    /\ status \in [People -> {"absent", "active", "disabled", "deleted"}]
    /\ admins \subseteq {u \in People : Present(u)}
    /\ organization \in [Orgs -> [kind : {"none", "personal", "team", "deleted"}, by : People \cup {NoOne}]]
    /\ member \in [Orgs -> [People -> Roles \cup {"none"}]]
    /\ \A o \in Orgs : \A u \in MembersOf(o) : Present(u) /\ Founded(o)
    /\ \A i \in Invites : Active(i) => Founded(invitation[i].org)
OneOwner ==
    /\ DirectoryTypeOK
    /\ \A o \in Orgs : Founded(o) =>
        /\ Cardinality(OwnersOf(o)) = 1
        /\ Personal(o) => OwnersOf(o) = {organization[o].by}

\* A user has one organization in the single mode, even when invitations of two
\* organizations are accepted at once (ErrOrganizationSingleMembershipConflict).
OneOrganization == orgMode = "single" => \A u \in People : Cardinality(OrganizationsOf(u)) <= 1

\* One joins an existing organization only by an invitation that this very step
\* turns from pending to accepted, and what an invitation has become, accepted
\* or revoked, it stays, although acceptance, revocation, resending and a new
\* invitation race for it: it admits one user, once.
JoinedByInvitation ==
    \A o \in Orgs, u \in People :
        Founded(o) /\ member[o][u] = "none" /\ member'[o][u] # "none" =>
            \E i \in Invites : /\ Active(i) /\ invitation[i].org = o /\ invitation[i].for = u
                               /\ invitation'[i].status = "accepted"
SettledOnce ==
    \A i \in Invites : invitation[i].status \in {"accepted", "revoked"} =>
            invitation'[i].status \in {invitation[i].status, "deleted"}
InvitationsKept == [][JoinedByInvitation /\ SettledOnce]_directoryVars

\* The rows that a transaction rewrites at its end without having locked them, and
\* the locks it asks for next.
Rewrites(t) ==
    CASE txn[t].op = "deleteOrganization" -> InvitationsOf({txn[t].org})
      [] txn[t].op = "invite"             -> {txn[t].invite} \ {NoOne}
      [] OTHER                            -> {}
Asks(t) ==
    IF txn[t].todo # <<>> THEN {Head(txn[t].todo)}
    ELSE {ForUpdate("invite", i) : i \in IF txn[t].checked THEN Rewrites(t) ELSE {}}

\* t asks for a row that q holds, or may hold if q is in the middle of several.
MayWaitFor(t, q) ==
    /\ t # q
    /\ \E lock \in Asks(t) :
          \/ \E held \in txn[q].held : held.row = lock.row /\ {held.mode, lock.mode} # {"share"}
          \/ lock \in Asks(q) /\ Cardinality(Asks(q)) > 1

OrganizationOps == {"removeMember", "updateMember", "transfer", "deleteOrganization",
                    "invite", "resend", "revokeInvite", "accept", "signup"}

\* The transactions on organizations, members and invitations, which lock users,
\* organizations and invitations one after another, never wait for each other in a
\* circle (TestDeleteOrganizationDoesNotDeadlockInvitationAcceptance).
NoDeadlock ==
    \A D \in (SUBSET Txns) \ {{}} :
        ~ \A t \in D : txn[t].op \in OrganizationOps /\ \E q \in D : MayWaitFor(t, q)
=============================================================================
