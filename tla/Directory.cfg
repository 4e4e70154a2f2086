\* Three users, two organizations, two invitations and two transactions.
SPECIFICATION DirectoryPartsSpec
CONSTANTS
    People = {u1, u2, u3}
    Orgs = {1, 2}
    Invites = {i1, i2}
    Txns = {t1, t2}
    Modes = {"personal", "single", "multi"}
    NoOne = NoOne
SYMMETRY Symmetry
INVARIANTS
    OneOwner
    OneOrganization
    NoDeadlock
PROPERTIES
    AdminKept
    InvitationsKept
CHECK_DEADLOCK FALSE
