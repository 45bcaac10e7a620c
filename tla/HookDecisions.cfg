SPECIFICATION HookSpec
CONSTANTS
  s = s
  h = h
  Broken = Broken
  Sessions = {s}
  Hooks = {h}
  MaxDecisions = 2
  MaxStarts = 2
  NoPolicy = Broken
  Runs <- MCRuns
  NoHome = NoHome
INVARIANTS
  HookType
  NeverFailsOpen
  NothingEscapes
  NothingInsideRefused
  RecordSaysAnswer
  NoSilentLoss
  TearHidesOne
  ReportIsTrue
PROPERTY AppendOnly
CHECK_DEADLOCK FALSE
