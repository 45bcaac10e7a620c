SPECIFICATION Spec
CONSTANTS
  r1 = r1
  r2 = r2
  call = call
  Requests = {r1, r2}
  Notes = {n1}
  Garbage = {g1}
  Calls = {call}
  CallId <- MCCallId
  ClientVerdicts = {"forward", "reject", "drop", "error"}
  ServerVerdicts = {"forward"}
  Oversize = {}
  Cap = 1
  RejectUnparseable = TRUE
INVARIANTS
  TypeOK
  NoLostWakeup
PROPERTIES
  ImplementsRelay
