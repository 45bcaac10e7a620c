SPECIFICATION Spec
CONSTANTS
  Cmds = {p}
  UserServers <- MCPlainServers
  UserHooks <- MCPlainHooks
  InstallOptions = {"none"}
  Missing = missing
  Nothing = nothing
  Empty = empty
  Torn = torn
  MaxStarts = 2
  MaxWrites = 0
CHECK_DEADLOCK FALSE
INVARIANT
  NoCallUnchecked
