\* One session family: rotation, replay, logout and cleanup, past its expiry; the
\* other operations in the first second only.
SPECIFICATION Spec
CONSTRAINT FamilyScope
CONSTANTS
  None = None
  Users = {u1}
  Orgs = {o1}
  SessionIds = {s1}
  TokenIds = {t1, t2, t3}
  AccessIds = {a1, a2, a3}
  Requests = {r1, r2}
  Ops = {"create", "refresh", "switch", "logout", "maintenance", "removeMember", "addMember", "disable", "enable", "setTTL", "changePassword", "revokeOther", "revokeSession", "adminRevokeSession", "verifyEmail"}
  MaxTime = 5
  SessionTTL = 3
  RefreshTTL = 3
  Rotation = 1
  MaxAccessTTL = 2
SYMMETRY Symmetry
INVARIANTS OneLiveToken TokenWithinSession
PROPERTIES NoIssueAfterRevocation TombstonesKept RevocationFinal
CHECK_DEADLOCK FALSE
