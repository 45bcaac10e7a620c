SPECIFICATION Spec
CONSTANTS
  Tools = {t1}
  Defs = {d1, d2}
  Absent = absent
  Calls = {c1, c2}
  Lists = {l1, l2}
  Prompts = {p1}
  Unreadable = {u1}
  Unparseable = {}
  Silent = {u1, p1}
  Colliding = {l1}
  Policies <- MCPolicies
  Limit = 1
SYMMETRY GatewaySymmetry
CHECK_DEADLOCK FALSE
INVARIANTS
  TypeOK
  RugPullStopped
  BurstBounded
  LedgerAgrees
  UnreadNeverPasses
  CompletedOnce
  ChangedIsDrift
