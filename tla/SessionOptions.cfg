SPECIFICATION Spec
CONSTANTS
  r1 = r1
  r2 = r2
  call = call
  Requests = {r1, r2}
  Notes = {}
  Garbage = {g1}
  Calls = {call}
  CallId <- MCCallId
  ClientVerdicts = {"forward", "reject"}
  ServerVerdicts = {"forward", "reject", "drop", "error"}
  Oversize = {g1, r2}
  Cap = 1
  RejectUnparseable = FALSE
INVARIANTS
  DrainBeforeClose
