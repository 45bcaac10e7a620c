----------------------------- MODULE MCConfigFile -----------------------------
(***************************************************************************)
(* Small instances of ConfigFile: a server with a separator of its own, one *)
(* wrapped by hand with options, one wrapped by hand without a separator,  *)
(* and a remote one; hook lists that hold the user's hook beside, and      *)
(* around, chokepoint's.                                                   *)
(***************************************************************************)
EXTENDS ConfigFile

MCServers == {
  [local |-> <<"npx", "--", "srv">>, other |-> <<>>],
  [local |-> <<Self, "--policy", "mine.yaml", "--report", "--", "srv", "--", "dir">>,
   other |-> <<Self, "srv">>]}

MCHooks == {
  <<<<"lint">>, <<HookSkipsMCP>>, <<HookChecksAll>>, <<"format">>>>,
  <<<<"lint">>>>}

ASSUME MCServersAreUsual ==
  \A servers \in MCServers : \A name \in DOMAIN servers : Usual(servers[name])

\* Plain configurations, for what is said of the two positions together.
MCPlainServers == {[local |-> <<"npx", "srv">>, remote |-> <<>>]}
MCPlainHooks == {<<<<"lint">>>>}
=============================================================================
