SPECIFICATION Spec
CONSTANTS
  Cmds = {p, q}
  UserServers <- MCServers
  UserHooks <- MCHooks
  InstallOptions = {"on", "off", "none"}
  Missing = missing
  Nothing = nothing
  Empty = empty
  Torn = torn
  MaxStarts = 3
  MaxWrites = 1
CHECK_DEADLOCK FALSE
INVARIANTS
  TypeOK
  UsersServersKept
  UsersHooksKept
  PreviousKept
  CheckedOnce
PROPERTY
  ImplementsConfigStore
