SPECIFICATION Spec
CONSTANTS
  c1 = c1
  c2 = c2
  c3 = c3
  n = n
  i1 = i1
  i2 = i2
  Calls = {c1, c2, c3}
  Ids = {i1, i2}
  NoId = NoId
  None = None
  Colliding = {i1}
  MaxOwn = 1
  Verdicts <- MCVerdicts
  IdOf <- MCIdOf
INVARIANTS
  EndsOnce
  SaysWhatHappened
  SweptAreExported
PROPERTY
  EverySpanEnds
CHECK_DEADLOCK FALSE
