------------------------------ MODULE ConfigFile ------------------------------
(***************************************************************************)
(* wrap, unwrap, hook install and hook uninstall as processes over the     *)
(* client configuration and the hook's settings file.  editJSONFile reads  *)
(* the file, edits what it read, writes a backup in place, writes a        *)
(* temporary file and renames it over the original; nothing locks the      *)
(* file, so another command or the user's editor may touch it in between,  *)
(* and the process may be killed, or a system call fail, after each step.  *)
(***************************************************************************)
EXTENDS Naturals, FiniteSets, ConfigEdits

CONSTANTS
  Cmds,         \* processes that run commands
  UserServers,  \* the client configurations a user may write
  UserHooks,    \* the hook lists a user may write
  InstallOptions, \* "on" (--skip-mcp), "off" (--all-tools), "none"
  Missing,      \* a file that does not exist
  Nothing,      \* no value
  Empty,        \* a backup that has been truncated and not written
  Torn,         \* a backup that is not the whole of any version
  MaxStarts,    \* commands started
  MaxWrites     \* times the user writes a file

ASSUME ConfigAssumption ==
  /\ InstallOptions \subseteq {"on", "off", "none"}
  /\ MaxStarts \in Nat /\ MaxWrites \in Nat

Files == {"mcp", "settings"}
FileOf(kind) == IF kind \in {"wrap", "unwrap"} THEN "mcp" ELSE "settings"
UserDocs(f)  == IF f = "mcp" THEN UserServers ELSE UserHooks

VARIABLES
  file,    \* the content of each file
  backup,  \* the content of <file>.chokepoint-backup
  policyFile, \* chokepoint.yaml: Missing, Empty, or "starter"
  cmd,     \* per process: where it is, what it runs, what it read and will write
  starts, writes, \* the bounds' counters
  \* History.
  typed,   \* what the user last wrote in each file
  raced,   \* files the user wrote while a command had them in hand
  shared   \* processes whose file another command had in hand with them

diskVars == <<file, backup, policyFile>>
histVars == <<typed, raced, shared>>
vars == <<diskVars, cmd, starts, writes, histVars>>

Idle == [pc |-> "idle", kind |-> "none", hook |-> HookChecksAll,
         original |-> Nothing, out |-> Nothing]

Init ==
  /\ \E servers \in UserServers, hooks \in UserHooks \cup {Missing} :
       file = [f \in Files |-> IF f = "mcp" THEN servers ELSE hooks]
  /\ backup = [f \in Files |-> Missing]
  /\ policyFile \in {Missing, "starter"}
  /\ cmd = [c \in Cmds |-> Idle]
  /\ starts = 0 /\ writes = 0
  /\ typed = file /\ raced = {} /\ shared = {}

Holding(f) ==
  {c \in Cmds : cmd[c].pc \notin {"idle", "fill"} /\ FileOf(cmd[c].kind) = f}

-----------------------------------------------------------------------------
(* The user.                                                               *)

UserWrites(f) ==
  /\ writes < MaxWrites /\ writes' = writes + 1
  /\ \E doc \in UserDocs(f) :
       file' = [file EXCEPT ![f] = doc] /\ typed' = [typed EXCEPT ![f] = doc]
  /\ raced' = IF Holding(f) # {} THEN raced \cup {f} ELSE raced
  /\ UNCHANGED <<backup, policyFile, cmd, starts, shared>>

-----------------------------------------------------------------------------
(* The commands.                                                           *)

\* policy.Load: an empty file is not a policy.
PolicyLoads == policyFile = "starter"

Starting(c, kind, hook) ==
  LET others == Holding(FileOf(kind)) IN
  /\ starts < MaxStarts /\ starts' = starts + 1
  /\ cmd' = [cmd EXCEPT ![c] = [Idle EXCEPT !.pc = "read", !.kind = kind, !.hook = hook]]
  /\ shared' = IF others = {} THEN shared \ {c} ELSE shared \cup others \cup {c}
  /\ UNCHANGED <<diskVars, writes, typed, raced>>

\* cmdWrap.  A policy that does not load ends it before anything is written.
StartWrap(c) ==
  /\ cmd[c].pc = "idle" /\ PolicyLoads
  /\ Starting(c, "wrap", HookChecksAll)

StartUnwrap(c) == cmd[c].pc = "idle" /\ Starting(c, "unwrap", HookChecksAll)

\* cmdHookInstall, with --skip-mcp, with --all-tools, or with neither: then
\* the client configuration decides.
StartInstall(c) ==
  /\ cmd[c].pc = "idle" /\ PolicyLoads
  /\ \E option \in InstallOptions :
       LET skip == option = "on" \/ (option = "none" /\ McpConfigWrapped(file["mcp"]))
       IN  Starting(c, "install", IF skip THEN HookSkipsMCP ELSE HookChecksAll)

StartUninstall(c) == cmd[c].pc = "idle" /\ Starting(c, "uninstall", HookChecksAll)

\* cmdInit creates the file, which must not exist, and then fills it.
InitCreates(c) ==
  /\ cmd[c].pc = "idle" /\ policyFile = Missing
  /\ starts < MaxStarts /\ starts' = starts + 1
  /\ policyFile' = Empty
  /\ cmd' = [cmd EXCEPT ![c] = [Idle EXCEPT !.pc = "fill", !.kind = "init"]]
  /\ UNCHANGED <<file, backup, writes, histVars>>

InitFills(c) ==
  /\ cmd[c].pc = "fill" /\ policyFile' = "starter"
  /\ cmd' = [cmd EXCEPT ![c] = Idle]
  /\ UNCHANGED <<file, backup, starts, writes, histVars>>

\* What the command makes of what it read.
EditOf(command, doc) ==
  CASE command.kind = "wrap"   -> WrapServers(doc)
    [] command.kind = "unwrap" -> UnwrapServers(doc)
    [] command.kind = "install" ->
         InstallHook(IF doc = Missing THEN <<>> ELSE doc, command.hook)
    [] OTHER -> WithoutChokepointHooks(doc)

\* editJSONFile reads the file once and edits what it read.  uninstall does
\* not create a file that is missing, and nothing is written when the edit
\* changed nothing.
ReadAndEdit(c) ==
  LET doc == file[FileOf(cmd[c].kind)] IN
  /\ cmd[c].pc = "read"
  /\ cmd' = [cmd EXCEPT ![c] =
       IF \/ doc = Missing /\ cmd[c].kind # "install"
          \/ doc # Missing /\ EditOf(cmd[c], doc) = doc
         THEN Idle
         ELSE [@ EXCEPT !.pc = IF doc = Missing THEN "temp" ELSE "backup",
                        !.original = doc, !.out = EditOf(cmd[c], doc)]]
  /\ UNCHANGED <<diskVars, starts, writes, histVars>>

\* os.WriteFile truncates the backup and then writes it.
TruncateBackup(c) ==
  /\ cmd[c].pc = "backup"
  /\ backup' = [backup EXCEPT ![FileOf(cmd[c].kind)] = Empty]
  /\ cmd' = [cmd EXCEPT ![c].pc = "write"]
  /\ UNCHANGED <<file, policyFile, starts, writes, histVars>>

\* Variant: the backup is of what is about to be written.
WriteNewAsBackup(c) ==
  /\ cmd[c].pc = "write"
  /\ backup' = [backup EXCEPT ![FileOf(cmd[c].kind)] = cmd[c].out]
  /\ cmd' = [cmd EXCEPT ![c].pc = "temp"]
  /\ UNCHANGED <<file, policyFile, starts, writes, histVars>>

\* Written over what another command has written since, it may leave the end
\* of that behind its own.
WriteBackup(c) ==
  LET f == FileOf(cmd[c].kind) IN
  /\ cmd[c].pc = "write"
  /\ \E result \in {cmd[c].original}
           \cup (IF backup[f] \in {Empty, cmd[c].original} THEN {} ELSE {Torn}) :
       backup' = [backup EXCEPT ![f] = result]
  /\ cmd' = [cmd EXCEPT ![c].pc = "temp"]
  /\ UNCHANGED <<file, policyFile, starts, writes, histVars>>

\* CreateTemp, Write, Chmod and Close: a file with a name of its own, that no
\* other process writes or reads; one that a kill leaves behind is inert.
WriteTemp(c) ==
  /\ cmd[c].pc = "temp"
  /\ cmd' = [cmd EXCEPT ![c].pc = "rename"]
  /\ UNCHANGED <<diskVars, starts, writes, histVars>>

\* Variant: the edit is applied to the file in place, and reaches it in parts.
WriteInPlace(c) ==
  /\ cmd[c].pc = "rename"
  /\ \E result \in {cmd[c].out, Torn} :
       file' = [file EXCEPT ![FileOf(cmd[c].kind)] = result]
  /\ cmd' = [cmd EXCEPT ![c] = Idle]
  /\ UNCHANGED <<backup, policyFile, starts, writes, histVars>>

Rename(c) ==
  /\ cmd[c].pc = "rename"
  /\ file' = [file EXCEPT ![FileOf(cmd[c].kind)] = cmd[c].out]
  /\ cmd' = [cmd EXCEPT ![c] = Idle]
  /\ UNCHANGED <<backup, policyFile, starts, writes, histVars>>

\* Half of the backup reaches the disk before the process stops.
BackupInterrupted(c) ==
  \/ UNCHANGED backup
  \/ /\ cmd[c].pc = "write"
     /\ backup' = [backup EXCEPT ![FileOf(cmd[c].kind)] = Torn]

\* A system call fails and the error is returned, or the process is killed.
Stop(c) ==
  /\ cmd[c].pc # "idle" /\ BackupInterrupted(c)
  /\ cmd' = [cmd EXCEPT ![c] = Idle]
  /\ UNCHANGED <<file, policyFile, starts, writes, histVars>>

Command(c) ==
  \/ StartWrap(c) \/ StartUnwrap(c) \/ StartInstall(c) \/ StartUninstall(c)
  \/ InitCreates(c) \/ InitFills(c)
  \/ ReadAndEdit(c) \/ TruncateBackup(c) \/ WriteBackup(c) \/ WriteTemp(c)
  \/ Rename(c) \/ Stop(c)

Next == (\E f \in Files : UserWrites(f)) \/ (\E c \in Cmds : Command(c))
Spec == Init /\ [][Next]_vars

-----------------------------------------------------------------------------
(* The promise: ConfigStore, with what a process has read and not yet      *)
(* renamed over as its open edit.                                          *)

OpenEdit(c) ==
  IF cmd[c].pc \in {"backup", "write", "temp", "rename"}
    THEN {[file |-> FileOf(cmd[c].kind), read |-> cmd[c].original]} ELSE {}

First(f) == IF f = "mcp" THEN UserServers ELSE UserHooks \cup {Missing}
Edits(f, doc) ==
  IF f = "mcp"
    THEN {WrapServers(doc), UnwrapServers(doc)}
    ELSE LET pre == IF doc = Missing THEN <<>> ELSE doc
         IN  {InstallHook(pre, HookChecksAll), InstallHook(pre, HookSkipsMCP),
              WithoutChokepointHooks(pre)}

Store == INSTANCE ConfigStore WITH open <- [c \in Cmds |-> OpenEdit(c)]

\* "A crash leaves the old version or the new one and never half of each":
\* whatever is killed, fails or runs at the same time, a file is only ever
\* replaced by a whole edit of a whole version (editJSONFile).
ImplementsConfigStore == Store!StoreSpec

TypeOK ==
  /\ DOMAIN file = Files /\ DOMAIN backup = Files
  /\ \A f \in Files : file[f] \notin {Empty, Torn}
  /\ policyFile \in {Missing, Empty, "starter"}
  /\ \A c \in Cmds :
       /\ cmd[c].pc \in {"idle", "read", "fill", "backup", "write", "temp", "rename"}
       /\ cmd[c].kind \in {"none", "init", "wrap", "unwrap", "install", "uninstall"}
  /\ starts \in 0 .. MaxStarts /\ writes \in 0 .. MaxWrites
  /\ raced \subseteq Files /\ shared \subseteq Cmds

\* The server a command line ends up running: the proxy's own command line is
\* read as the proxy reads it.
Launched(words) ==
  IF words # <<>> /\ IsChokepoint(Head(words))
    THEN LET cfg == ParseArgs(Tail(words)) IN IF Starts(cfg) THEN cfg.upstream ELSE <<>>
    ELSE words

\* A line users write: a proxy wrapped by hand with a separator runs what
\* follows the first one, and that is not a proxy again.
Usual(line) ==
  line # <<>> /\ IsChokepoint(Head(line)) /\ Separators(line) # {} =>
    LET server == AfterSeparator(line)
    IN  ~IsChokepoint(Head(server)) /\ Launched(line) = server

\* Whatever sequence of wraps and unwraps has run, interleaved, failed or been
\* killed, each server of the configuration is still the one the user typed:
\* what parseArgs takes from a wrapped command line is what wrap put there, it
\* is wrapped at most once, and unwrap takes off no more than wrap put on.
\* (An edit the user makes while a command has the file in hand is lost.)
UsersServersKept ==
  "mcp" \notin raced =>
    \A name \in DOMAIN typed["mcp"] :
      Launched(file["mcp"][name]) = Launched(typed["mcp"][name])

\* The places of the groups that are all the user's own, and those groups, each
\* with its number among them.
OwnPlaces(groups) ==
  {i \in DOMAIN groups : \A j \in DOMAIN groups[i] : ~IsHookCommand(groups[i][j])}
Numbered(groups) ==
  {<<Cardinality({j \in OwnPlaces(groups) : j <= i}), groups[i]>> : i \in OwnPlaces(groups)}
Groups(doc) == IF doc = Missing THEN <<>> ELSE doc
UsersGroups(doc) == Numbered(Groups(doc))

\* "Keeping any hooks you already have", and uninstall "removes the hook and
\* nothing else": the user's own groups stay, in their order.  A group that
\* holds a chokepoint hook beside the user's is not among them.
UsersHooksKept ==
  "settings" \notin raced =>
    UsersGroups(file["settings"]) = UsersGroups(typed["settings"])

\* A command that has a file to itself replaces a version only when the backup
\* is the whole of that version, even after one that was killed in the middle
\* of writing the backup.
PreviousKept ==
  \A c \in Cmds :
    LET f == FileOf(cmd[c].kind) IN
    cmd[c].pc = "rename" /\ c \notin shared /\ f \notin raced
      => cmd[c].original \in {Missing, backup[f]} /\ file[f] = cmd[c].original

\* "Nothing is checked or recorded twice": whatever installs, with options that
\* differ, and uninstalls follow each other, interleaved, failed, killed or raced
\* by the user, chokepoint's own groups do not pile up.  A list has one at most,
\* unless it is still as the user wrote it.
HookGroups(groups) == {i \in DOMAIN groups : IsChokepointHookGroup(groups[i])}
OneHook(groups)    == \A i, j \in HookGroups(groups) : i = j
CheckedOnce ==
  file["settings"] = typed["settings"] \/ OneHook(Groups(file["settings"]))

Quiet == \A c \in Cmds : cmd[c].pc = "idle"

Wrapped(name) ==
  LET words == file["mcp"][name] IN words # <<>> /\ IsChokepoint(Head(words))
HookInstalled(command) ==
  \E i \in DOMAIN Groups(file["settings"]) : Groups(file["settings"])[i] = <<command>>

\* "With both, MCP calls are checked by the proxy and everything else by the
\* hook": once the hook is installed, with no option that asks otherwise, the
\* calls of every server are checked by at least one of the two.
NoCallUnchecked ==
  Quiet /\ (HookInstalled(HookChecksAll) \/ HookInstalled(HookSkipsMCP))
    => \A name \in DOMAIN file["mcp"] : Wrapped(name) \/ HookInstalled(HookChecksAll)
=============================================================================
