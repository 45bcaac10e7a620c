----------------------------- MODULE ConfigEdits -----------------------------
(***************************************************************************)
(* What the commands of cmd/chokepoint make of the two files they edit.    *)
(*                                                                         *)
(* The client configuration (.mcp.json) maps each server to its command    *)
(* line, a sequence of words whose first is "command" and the rest "args"; *)
(* a remote server, which has no command, is <<>>.  The settings file of   *)
(* the hook is the list doc.hooks.PreToolUse: a sequence of matcher        *)
(* groups, each the sequence of its hooks' commands.  Of a command only    *)
(* what the code asks is kept: HookChecksAll and HookSkipsMCP are the two  *)
(* that `hook install` writes, and any other is the user's own.            *)
(***************************************************************************)
EXTENDS Naturals, Sequences, SequencesExt

Self      == "chokepoint"
PolicyArg == "chokepoint.yaml"
LogArg    == "server.jsonl"

\* The base name is chokepoint or the path is this binary's.
IsChokepoint(command) == command = Self

-----------------------------------------------------------------------------
(* The proxy's own command line: parseArgs.                                *)

ValueFlags == {"--policy", "--mode", "--log-level", "--metrics-addr",
               "--otlp-endpoint", "--audit-log", "--window", "--max-calls"}
Switches == {"--otlp-insecure", "--report"}

\* "at" is what the next word is read as; a flag takes its value whatever the
\* value looks like, so a "--" there does not end the flags.
ParseWord(cfg, word) ==
  CASE cfg.at = "upstream" -> [cfg EXCEPT !.upstream = Append(@, word)]
    [] cfg.at = "value"    -> [cfg EXCEPT !.at = "flag"]
    [] cfg.at = "error"    -> cfg
    [] cfg.at = "flag" /\ word = "--"         -> [cfg EXCEPT !.at = "upstream"]
    [] cfg.at = "flag" /\ word \in ValueFlags ->
         [cfg EXCEPT !.at = "value", !.given = @ \cup {word}]
    [] cfg.at = "flag" /\ word \in Switches   -> cfg
    [] OTHER -> [cfg EXCEPT !.at = "error"]

ParseArgs(args) ==
  FoldLeft(ParseWord, [at |-> "flag", given |-> {}, upstream |-> <<>>], args)

\* parseArgs returns no error.
Starts(cfg) ==
  /\ cfg.at = "upstream" /\ cfg.upstream # <<>>
  /\ "--mode" \in cfg.given => "--policy" \in cfg.given

-----------------------------------------------------------------------------
(* wrap and unwrap.                                                        *)

\* Remote servers and those already wrapped are left alone.
WrapServer(words) ==
  IF words = <<>> \/ IsChokepoint(Head(words)) THEN words
  ELSE <<Self, "--policy", PolicyArg, "--audit-log", LogArg, "--">> \o words

\* The places of a "--" with a word after it.
Separators(words) == {i \in 2 .. Len(words) - 1 : words[i] = "--"}

\* Variant: the last separator is taken for the one wrap wrote.
UnwrapAtLast(words) ==
  IF words = <<>> \/ ~IsChokepoint(Head(words)) \/ Separators(words) = {} THEN words
  ELSE SubSeq(words, Max(Separators(words)) + 1, Len(words))

\* What follows the first of them.
AfterSeparator(words) == SubSeq(words, Min(Separators(words)) + 1, Len(words))

\* Wrapped by hand without a separator: left alone.
UnwrapServer(words) ==
  IF words = <<>> \/ ~IsChokepoint(Head(words)) \/ Separators(words) = {} THEN words
  ELSE AfterSeparator(words)

\* rewriteServers.
WrapServers(servers)   == [name \in DOMAIN servers |-> WrapServer(servers[name])]
UnwrapServers(servers) == [name \in DOMAIN servers |-> UnwrapServer(servers[name])]

-----------------------------------------------------------------------------
(* hook install and hook uninstall.                                        *)

HookChecksAll == "chokepoint hook"
HookSkipsMCP  == "chokepoint hook --skip-mcp"

\* The words "chokepoint" and " hook " in the command.
IsHookCommand(command) == command \in {HookChecksAll, HookSkipsMCP}

IsChokepointHookGroup(group) == \E i \in DOMAIN group : IsHookCommand(group[i])

\* Variant: the groups after chokepoint's are dropped with it.
DropToFirstHook(pre) ==
  IF \E i \in DOMAIN pre : IsChokepointHookGroup(pre[i])
    THEN SubSeq(pre, 1, Min({i \in DOMAIN pre : IsChokepointHookGroup(pre[i])}) - 1)
    ELSE pre

Keep(kept, group) ==
  IF IsChokepointHookGroup(group) THEN kept ELSE Append(kept, group)
WithoutChokepointHooks(pre) == FoldLeft(Keep, <<>>, pre)

\* The first command of a chokepoint hook, in a list that has one.
HookCommandIn(pre) ==
  LET commands == FlattenSeq(pre)
  IN  commands[Min({i \in DOMAIN commands : IsHookCommand(commands[i])})]

\* Variant: the hook of an earlier install, with other options, stays.
InstallBeside(pre, command) ==
  IF /\ \E i \in DOMAIN pre : IsChokepointHookGroup(pre[i])
     /\ HookCommandIn(pre) = command
    THEN pre
    ELSE Append(pre, <<command>>)

\* "already installed" leaves the file alone.
InstallHook(pre, command) ==
  IF /\ \E i \in DOMAIN pre : IsChokepointHookGroup(pre[i])
     /\ HookCommandIn(pre) = command
    THEN pre
    ELSE Append(WithoutChokepointHooks(pre), <<command>>)

\* mcpConfigWrapped: some server is wrapped.
McpConfigWrapped(servers) ==
  \E name \in DOMAIN servers :
    servers[name] # <<>> /\ IsChokepoint(Head(servers[name]))
=============================================================================
