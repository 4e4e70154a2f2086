\* SwitchSessionOrganization deletes the tombstones of a session that lives on.
SPECIFICATION Spec
CONSTANTS
  None = None
  Users = {u1}
  Orgs = {o1, o2}
  SessionIds = {s1}
  TokenIds = {t1, t2, t3}
  AccessIds = {a1, a2, a3}
  Requests = {r1, r2}
  Ops = {"create", "refresh", "switch"}
  MaxTime = 3
  SessionTTL = 3
  RefreshTTL = 3
  Rotation <- EveryUse
  MaxAccessTTL = 2
PROPERTY TombstonesKept
CHECK_DEADLOCK FALSE
