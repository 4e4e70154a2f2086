\* ChangePassword marks only the sessions that have not expired.
SPECIFICATION Spec
CONSTANTS
  None = None
  Users = {u1}
  Orgs = {o1}
  SessionIds = {s1, s2}
  TokenIds = {t1, t2, t3}
  AccessIds = {a1, a2, a3}
  Requests = {r1, r2}
  Ops = {"create", "refresh", "changePassword"}
  MaxTime = 4
  SessionTTL = 2
  RefreshTTL = 2
  Rotation <- EveryUse
  MaxAccessTTL = 1
INVARIANT RevokedRejected
CHECK_DEADLOCK FALSE
