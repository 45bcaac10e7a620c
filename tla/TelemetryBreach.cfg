SPECIFICATION Spec
CONSTANTS
  c1 = c1
  c2 = c2
  c3 = c3
  n = n
  i1 = i1
  i2 = i2
  Calls = {c1, n}
  Ids = {i1, i2}
  NoId = NoId
  None = None
  Colliding = {i1}
  MaxOwn = 0
  Verdicts <- MCBreaches
  IdOf <- MCIdOf
INVARIANT BreachIsVisible
CHECK_DEADLOCK FALSE
