----------------------------- MODULE MCDirectory -----------------------------
(* Several situations of the directory in one run: a behaviour starts in    *)
(* one and keeps to its operations, so that the state spaces add up.        *)
EXTENDS Directory, TLC

VARIABLE part

Symmetry == Permutations(People) \cup Permutations(Txns) \cup Permutations(Invites)

\* Users A exist and users D are deleted; organization o is a team of owners[o].
Seed(mode, A, D, adm, owners, others) ==
    /\ orgMode = mode /\ admins = adm
    /\ status = [u \in People |-> IF u \in A THEN "active" ELSE IF u \in D THEN "deleted" ELSE "absent"]
    /\ organization = [o \in Orgs |->
          IF o \in DOMAIN owners THEN [kind |-> "team", by |-> NoOne] ELSE NoOrganization]
    /\ member = [o \in Orgs |-> [u \in People |->
          IF o \in DOMAIN owners /\ owners[o] = u THEN "owner"
          ELSE IF o \in DOMAIN owners /\ u \in others THEN "member" ELSE "none"]]
    /\ txn = [t \in Txns |-> NoTxn]

NoInvitations == invitation = [i \in Invites |-> NoInvitation]
Invited(o, u, a) ==
    [status |-> "pending", org |-> o, for |-> u, role |-> "member", by |-> a, expired |-> FALSE]

\* One administrator; one owner and two members; an owner and two who may be
\* invited; one who may sign up; two owners who have invited a third user; an
\* owner who has invited both others; and an empty instance.
DirectoryPartsInit ==
    \E a, b, c \in People :
        /\ Cardinality({a, b, c}) = 3
        /\ \/ part = "admins" /\ Seed("single", People, {}, {a}, <<>>, {}) /\ NoInvitations
           \/ part = "owners" /\ Seed("multi", People, {}, {}, <<a>>, {b, c}) /\ NoInvitations
           \/ part = "invites" /\ Seed("multi", {a, b}, {c}, {}, <<a>>, {}) /\ NoInvitations
           \/ part = "signups" /\ Seed("multi", {a}, {c}, {}, <<a>>, {}) /\ NoInvitations
           \/ /\ part = "single" /\ Seed("single", {a, b, c}, {}, {}, <<a, b>>, {})
              /\ \E i, k \in Invites :
                    i # k /\ invitation = [j \in Invites |-> IF j = i THEN Invited(1, c, a) ELSE Invited(2, c, b)]
           \/ /\ part = "closing" /\ Seed("multi", {a, b, c}, {}, {}, <<a>>, {})
              /\ \E i, k \in Invites :
                    i # k /\ invitation = [j \in Invites |-> IF j = i THEN Invited(1, b, a) ELSE Invited(1, c, a)]
           \/ part = "start" /\ DirectoryInit

Ops == [admins  |-> {"idle", "disable", "revokeAdmin", "deleteUser"},
        owners  |-> {"idle", "removeMember", "transfer", "updateMember", "deleteUser", "deleteOrganization"},
        invites |-> {"idle", "invite", "resend", "revokeInvite", "accept"},
        signups |-> {"idle", "invite", "signup"},
        single  |-> {"idle", "accept"},
        closing |-> {"idle", "deleteOrganization", "invite", "revokeInvite", "accept"},
        start   |-> {"idle", "deleteUser", "deleteOrganization"}]

\* Requests come from users that exist, for organizations that exist.
Reasonable(t) ==
    /\ txn'[t].op \in Ops[part] /\ txn'[t].role # "admin"
    /\ txn'[t].user # NoOne => status[txn'[t].user] # "deleted"
    /\ txn'[t].org # NoOne => Founded(txn'[t].org)

\* The steps of DirectoryNext, where they belong to the part.
DirectoryStep ==
    \/ \E t \in Txns :
        \/ Lock(t) \/ PassOver(t) \/ Check(t) \/ RollBack(t)
        \/ part \in {"admins", "owners", "start"} /\ AdminNext(t)
        \/ part \in {"owners", "closing", "start"} /\ OrganizationNext(t)
        \/ part \in {"invites", "signups", "single", "closing"} /\ InvitationNext(t)
    \/ part \in {"signups", "start"} /\ \E u \in People, o \in Orgs : Signup(u, o)
    \/ part \in {"invites", "signups", "single"} /\ \E i \in Invites : Expire(i)

DirectoryPartsNext ==
    /\ part' = part /\ DirectoryStep
    /\ \A t \in Txns : Reasonable(t)
    /\ part = "admins" => organization' = organization
    /\ part \in {"owners", "invites", "signups", "single", "closing"} => admins' = admins
    /\ part \in {"owners", "invites", "closing"} => \A o \in Orgs : o > 1 => organization'[o] = NoOrganization

DirectoryPartsSpec == DirectoryPartsInit /\ [][DirectoryPartsNext]_<<part, directoryVars>>
=============================================================================
