SPECIFICATION Spec
CONSTANTS
  Tools = {t1}
  Defs = {d1, d2}
  Absent = absent
  Calls = {c1, c2}
  Lists = {l1, l2}
  Prompts = {}
  Unreadable = {}
  Unparseable = {}
  Silent = {}
  Colliding = {c1}
  Policies <- MCDriftPolicies
  Limit = 1
CHECK_DEADLOCK FALSE
INVARIANTS
  CompletionIsAnswer
