SPECIFICATION ProcFairSpec
CONSTANTS
  r1 = r1
  call = call
  Requests = {r1}
  Notes = {}
  Garbage = {}
  Calls = {call}
  CallId <- MCCallId
  ClientVerdicts = {"forward", "reject"}
  ServerVerdicts = {"forward"}
  Oversize = {}
  Cap = 1
  RejectUnparseable = TRUE
PROPERTIES
  StubbornServerDoesNotPin
