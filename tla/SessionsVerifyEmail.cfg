\* BeginRequiredEmailVerification marks with a time captured before the lock.
SPECIFICATION Spec
CONSTANTS
  None = None
  Users = {u1}
  Orgs = {o1}
  SessionIds = {s1}
  TokenIds = {t1, t2}
  AccessIds = {a1, a2}
  Requests = {r1, r2}
  Ops = {"create", "refresh", "verifyEmail"}
  MaxTime = 3
  SessionTTL = 3
  RefreshTTL = 3
  Rotation <- EveryUse
  MaxAccessTTL = 2
INVARIANT RevokedRejected
CHECK_DEADLOCK FALSE
