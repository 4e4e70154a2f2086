\* Members that come and go, disabled users, and every transaction that revokes.
SPECIFICATION PartsSpec
CONSTANTS
  None = None
  Users = {u1}
  Orgs = {o1, o2}
  SessionIds = {s1, s2}
  TokenIds = {t1, t2, t3}
  AccessIds = {a1, a2, a3}
  Requests = {r1, r2}
  Ops = {"create", "refresh", "switch", "removeMember", "addMember", "disable", "enable", "setTTL", "changePassword", "revokeOther", "revokeSession", "adminRevokeSession", "revokeAll", "resetPassword", "setPassword", "adminRevokeAll", "revokeAdmin"}
  MaxTime = 2
  SessionTTL = 3
  RefreshTTL = 3
  Rotation <- EveryUse
  MaxAccessTTL = 2
SYMMETRY Symmetry
INVARIANTS TypeOK RemovedRejected RotatedOnce RevokedRejected DisabledShutOut
CHECK_DEADLOCK FALSE
