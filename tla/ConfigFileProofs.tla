--------------------------- MODULE ConfigFileProofs ---------------------------
(***************************************************************************)
(* editJSONFile, for any number of processes, documents and steps: what it *)
(* does to a file is what ConfigStore promises, and its backup is of the   *)
(* version it replaces.  And the edits themselves, for lines and lists of  *)
(* any length: whatever runs, the file keeps the user's servers and hooks. *)
(***************************************************************************)
EXTENDS ConfigFile, MinMax, SequenceTheorems, FiniteSetTheorems, TLAPS

Editing == {"backup", "write", "temp", "rename"}
Commands == {"wrap", "unwrap", "install", "uninstall"}

\* The type of what a process has in hand: it has a file once it has started a
\* command other than init.
Fields == {"pc", "kind", "hook", "original", "out"}
CmdType ==
  /\ DOMAIN cmd = Cmds
  /\ \A c \in Cmds :
       /\ DOMAIN cmd[c] = Fields
       /\ \/ cmd[c].pc = "idle" /\ cmd[c].kind = "none"
          \/ cmd[c].pc = "fill" /\ cmd[c].kind = "init"
          \/ cmd[c].pc \in {"read"} \cup Editing /\ cmd[c].kind \in Commands
       /\ cmd[c].hook \in {HookChecksAll, HookSkipsMCP}

DiskType ==
  /\ DOMAIN file = Files /\ DOMAIN backup = Files
  /\ policyFile \in {Missing, Empty, "starter"}
  /\ starts \in 0 .. MaxStarts /\ writes \in 0 .. MaxWrites
  /\ raced \subseteq Files /\ shared \subseteq Cmds

\* What a process is about to write is one edit of the whole version it read.
OutInv ==
  \A c \in Cmds : cmd[c].pc \in Editing =>
    cmd[c].out \in Edits(FileOf(cmd[c].kind), cmd[c].original)

\* Once a process that has a file to itself has read it, nothing but the user
\* changes the file, and nothing at all its backup.
Started(c) == cmd[c].pc \in {"read"} \cup Editing
BackupInv ==
  \A c \in Cmds : Started(c) /\ c \notin shared =>
    LET f == FileOf(cmd[c].kind) IN
    /\ \A d \in Cmds : Started(d) /\ FileOf(cmd[d].kind) = f => d = c
    /\ cmd[c].pc \in Editing /\ f \notin raced => file[f] = cmd[c].original
    /\ cmd[c].pc = "write" => backup[f] = Empty
    /\ cmd[c].pc \in {"temp", "rename"} => cmd[c].original \in {Missing, backup[f]}

ConfigInv == CmdType /\ DiskType /\ OutInv /\ BackupInv

-----------------------------------------------------------------------------
(* The invariant.                                                          *)

LEMMA ConfigInit == Init => ConfigInv
  <1> SUFFICES ASSUME Init
               PROVE  ConfigInv
    OBVIOUS
  <1>1. DOMAIN cmd = Cmds /\ \A c \in Cmds : cmd[c] = Idle /\ DOMAIN cmd[c] = Fields
    BY DEF Init, Idle, Fields
  <1>2. CmdType
    <2>1. \A c \in Cmds : /\ cmd[c].pc = "idle" /\ cmd[c].kind = "none"
                          /\ cmd[c].hook = HookChecksAll
      BY <1>1 DEF Idle
    <2> QED BY <1>1, <2>1 DEF CmdType
  <1>3. DiskType
    <2>1. DOMAIN file = Files /\ DOMAIN backup = Files
      BY DEF Init
    <2>2. /\ policyFile \in {Missing, Empty, "starter"}
          /\ starts = 0 /\ writes = 0 /\ raced = {} /\ shared = {}
      BY DEF Init
    <2>3. starts \in 0 .. MaxStarts /\ writes \in 0 .. MaxWrites
      BY <2>2, ConfigAssumption
    <2> QED BY <2>1, <2>2, <2>3 DEF DiskType
  <1>4. OutInv /\ BackupInv
    BY <1>1 DEF Init, Idle, OutInv, BackupInv, Started, Editing
  <1> QED BY <1>2, <1>3, <1>4 DEF ConfigInv

\* A command starts: it has its file to itself if no other has it in hand, and
\* whoever has is not alone any more.
LEMMA StartingStep ==
  ASSUME ConfigInv, NEW c \in Cmds, cmd[c].pc = "idle", NEW kind \in Commands,
         NEW hook \in {HookChecksAll, HookSkipsMCP}, Starting(c, kind, hook)
  PROVE  ConfigInv'
  <1> USE DEF ConfigInv
  <1> DEFINE H == Holding(FileOf(kind))
  <1>1. /\ cmd'[c].pc = "read" /\ cmd'[c].kind = kind /\ cmd'[c].hook = hook
        /\ DOMAIN cmd'[c] = Fields /\ DOMAIN cmd' = Cmds
        /\ \A d \in Cmds : d # c => cmd'[d] = cmd[d]
    BY DEF Starting, Idle, CmdType, Fields
  <1>2. /\ shared' = IF H = {} THEN shared \ {c} ELSE shared \cup H \cup {c}
        /\ UNCHANGED <<file, backup, policyFile, writes, raced>>
        /\ starts' \in 0 .. MaxStarts
    BY ConfigAssumption DEF Starting, diskVars, DiskType
  <1>3. \A d \in Cmds : d \in H <=> Started(d) /\ FileOf(cmd[d].kind) = FileOf(kind)
    BY DEF Holding, Started, CmdType, Editing
  <1>4. H \subseteq Cmds
    BY DEF Holding
  <1> HIDE DEF H
  <1>5. CmdType'
    BY <1>1, <1>2 DEF CmdType, Editing
  <1>6. OutInv'
    BY <1>1 DEF OutInv, Editing
  <1>7. BackupInv'
    BY <1>1, <1>2, <1>3 DEF BackupInv, Started, Editing
  <1>8. DiskType'
    BY <1>2, <1>4 DEF DiskType
  <1> QED BY <1>5, <1>6, <1>7, <1>8

\* The steps of a command that has started move its process on and leave the
\* others alone.
LEMMA UserStep ==
  ASSUME ConfigInv, NEW f \in Files, UserWrites(f)
  PROVE  ConfigInv'
  <1> USE DEF ConfigInv
  <1>1. /\ DOMAIN file' = DOMAIN file /\ \A g \in Files : g # f => file'[g] = file[g]
        /\ raced' = IF Holding(f) # {} THEN raced \cup {f} ELSE raced
        /\ UNCHANGED <<backup, policyFile, cmd, starts, shared>>
        /\ writes' \in 0 .. MaxWrites
    BY ConfigAssumption DEF UserWrites, DiskType
  <1>2. \A c \in Cmds : Started(c) /\ FileOf(cmd[c].kind) = f => f \in raced'
    BY <1>1 DEF Holding, Started, Editing
  <1>3. BackupInv'
    BY <1>1, <1>2 DEF BackupInv, Started, Editing, FileOf, Files
  <1>4. CmdType' /\ OutInv'
    BY <1>1 DEF CmdType, OutInv
  <1>5. DiskType'
    BY <1>1 DEF DiskType
  <1> QED BY <1>3, <1>4, <1>5

LEMMA ReadStep ==
  ASSUME ConfigInv, NEW c \in Cmds, ReadAndEdit(c)
  PROVE  ConfigInv'
  <1> USE DEF ConfigInv
  <1> DEFINE doc == file[FileOf(cmd[c].kind)]
  <1>1. /\ cmd[c].pc = "read" /\ DOMAIN cmd' = Cmds
        /\ \A d \in Cmds : d # c => cmd'[d] = cmd[d]
        /\ UNCHANGED <<file, backup, policyFile, starts, writes, raced, shared>>
    BY DEF ReadAndEdit, CmdType, diskVars, histVars
  <1>2. CASE cmd'[c] = Idle
    <2>1. CmdType'
      BY <1>1, <1>2 DEF CmdType, Idle, Fields, Editing
    <2>2. OutInv' /\ BackupInv'
      BY <1>1, <1>2 DEF OutInv, BackupInv, Started, Editing, Idle
    <2>3. DiskType'
      BY <1>1 DEF DiskType
    <2> QED BY <2>1, <2>2, <2>3
  <1>3. CASE cmd'[c] # Idle
    <2>1. /\ cmd'[c] = [cmd[c] EXCEPT !.pc = IF doc = Missing THEN "temp" ELSE "backup",
                                     !.original = doc, !.out = EditOf(cmd[c], doc)]
          /\ ~(doc = Missing /\ cmd[c].kind # "install")
      BY <1>3 DEF ReadAndEdit, CmdType
    <2>2. /\ cmd'[c].pc = (IF doc = Missing THEN "temp" ELSE "backup")
          /\ cmd'[c].original = doc /\ cmd'[c].out = EditOf(cmd[c], doc)
          /\ cmd'[c].kind = cmd[c].kind /\ cmd'[c].hook = cmd[c].hook
          /\ DOMAIN cmd'[c] = Fields
      <3>1. DOMAIN cmd[c] = Fields
        BY DEF CmdType
      <3> QED BY <2>1, <3>1 DEF Fields
    <2>3. CmdType'
      BY <1>1, <2>2 DEF CmdType, Editing
    <2>4. EditOf(cmd[c], doc) \in Edits(FileOf(cmd[c].kind), doc)
      <3>1. cmd[c].kind \in Commands /\ cmd[c].hook \in {HookChecksAll, HookSkipsMCP}
        BY <1>1 DEF CmdType
      <3> HIDE DEF doc
      <3>2. CASE cmd[c].kind = "wrap"
        BY <3>2 DEF EditOf, Edits, FileOf
      <3>3. CASE cmd[c].kind = "unwrap"
        BY <3>3 DEF EditOf, Edits, FileOf
      <3>4. CASE cmd[c].kind = "install"
        BY <3>1, <3>4 DEF EditOf, Edits, FileOf
      <3>5. CASE cmd[c].kind = "uninstall"
        BY <2>1, <3>5 DEF EditOf, Edits, FileOf
      <3> QED BY <3>1, <3>2, <3>3, <3>4, <3>5 DEF Commands
    <2>5. OutInv'
      BY <1>1, <2>2, <2>4 DEF OutInv
    <2>6. BackupInv'
      BY <1>1, <2>2 DEF BackupInv, Started, Editing
    <2>7. DiskType'
      BY <1>1 DEF DiskType
    <2> QED BY <2>3, <2>5, <2>6, <2>7
  <1> QED BY <1>2, <1>3

\* TruncateBackup, WriteBackup and WriteTemp.
LEMMA WriteStep ==
  ASSUME ConfigInv, NEW c \in Cmds, TruncateBackup(c) \/ WriteBackup(c) \/ WriteTemp(c)
  PROVE  ConfigInv'
  <1> USE DEF ConfigInv
  <1> DEFINE f == FileOf(cmd[c].kind)
  <1>1. /\ cmd[c].pc \in {"backup", "write", "temp"} /\ DOMAIN cmd' = Cmds
        /\ cmd'[c].pc = CASE cmd[c].pc = "backup" -> "write"
                          [] cmd[c].pc = "write" -> "temp"
                          [] cmd[c].pc = "temp" -> "rename"
        /\ DOMAIN cmd'[c] = Fields
        /\ cmd'[c].kind = cmd[c].kind /\ cmd'[c].hook = cmd[c].hook
        /\ cmd'[c].original = cmd[c].original /\ cmd'[c].out = cmd[c].out
        /\ \A d \in Cmds : d # c => cmd'[d] = cmd[d]
    <2>1. DOMAIN cmd = Cmds /\ DOMAIN cmd[c] = Fields
      BY DEF CmdType
    <2> QED BY <2>1 DEF TruncateBackup, WriteBackup, WriteTemp, Fields
  <1>2. UNCHANGED <<file, policyFile, starts, writes, raced, shared>>
    BY DEF TruncateBackup, WriteBackup, WriteTemp, diskVars, histVars
  <1>3. /\ DOMAIN backup' = Files
        /\ \A g \in Files : g # f => backup'[g] = backup[g]
        /\ cmd[c].pc = "backup" => backup'[f] = Empty
        /\ cmd[c].pc = "write" /\ backup[f] = Empty => backup'[f] = cmd[c].original
        /\ cmd[c].pc = "temp" => backup' = backup
    <2>1. f \in Files /\ DOMAIN backup = Files
      BY DEF DiskType, Files, FileOf
    <2> QED BY <2>1 DEF TruncateBackup, WriteBackup, WriteTemp, diskVars
  <1>4. CmdType'
    BY <1>1, <1>2 DEF CmdType, Editing
  <1>5. OutInv'
    BY <1>1 DEF OutInv, Editing
  <1>6. BackupInv'
    <2>1. \A d \in Cmds : FileOf(cmd[d].kind) \in Files
      BY DEF FileOf, Files
    <2>2. \A d \in Cmds : Started(d)' <=> Started(d)
      BY <1>1 DEF Started, Editing
    <2>3. ASSUME NEW d \in Cmds, Started(d), d \notin shared
          PROVE  \A e \in Cmds : Started(e) /\ FileOf(cmd[e].kind) = FileOf(cmd[d].kind)
                                 => e = d
      BY <2>3 DEF BackupInv
    <2>4. Started(c)
      BY <1>1 DEF Started, Editing
    <2>5. ASSUME NEW d \in Cmds, Started(d), d \notin shared
          PROVE  LET g == FileOf(cmd'[d].kind) IN
                 /\ \A e \in Cmds : Started(e)' /\ FileOf(cmd'[e].kind) = g => e = d
                 /\ cmd'[d].pc \in Editing /\ g \notin raced => file[g] = cmd'[d].original
                 /\ cmd'[d].pc = "write" => backup'[g] = Empty
                 /\ cmd'[d].pc \in {"temp", "rename"} =>
                      cmd'[d].original \in {Missing, backup'[g]}
      <3>1. CASE d = c
        BY <1>1, <1>3, <2>2, <2>3, <2>5, <3>1 DEF BackupInv, Editing
      <3>2. CASE d # c
        BY <1>1, <1>3, <2>1, <2>2, <2>3, <2>4, <2>5, <3>2 DEF BackupInv, Editing
      <3> QED BY <3>1, <3>2
    <2> QED BY <1>2, <2>2, <2>5 DEF BackupInv
  <1>7. DiskType'
    BY <1>2, <1>3 DEF DiskType
  <1> QED BY <1>4, <1>5, <1>6, <1>7

\* Rename and Stop end the process; a process that has its file to itself
\* does not see another do so.
LEMMA EndStep ==
  ASSUME ConfigInv, NEW c \in Cmds, Rename(c) \/ Stop(c)
  PROVE  ConfigInv'
  <1> USE DEF ConfigInv
  <1> DEFINE f == FileOf(cmd[c].kind)
  <1>1. /\ DOMAIN cmd' = Cmds /\ cmd'[c] = Idle
        /\ \A d \in Cmds : d # c => cmd'[d] = cmd[d]
        /\ cmd[c].pc # "idle"
        /\ UNCHANGED <<policyFile, starts, writes, raced, shared>>
    BY DEF Rename, Stop, CmdType, histVars
  <1>2. /\ DOMAIN file' = Files /\ DOMAIN backup' = Files
        /\ \A g \in Files : g # f => file'[g] = file[g] /\ backup'[g] = backup[g]
        /\ cmd[c].pc \notin Editing => file' = file /\ backup' = backup
    BY DEF Rename, Stop, BackupInterrupted, DiskType, Editing
  <1>3. CmdType'
    BY <1>1 DEF CmdType, Idle, Fields, Editing
  <1>4. OutInv'
    BY <1>1 DEF OutInv, Editing, Idle
  <1>5. BackupInv'
    <2>1. cmd[c].pc \in Editing => Started(c)
      BY DEF Started
    <2>2. \A d \in Cmds : FileOf(cmd[d].kind) \in Files
      BY DEF FileOf, Files
    <2>3. \A d \in Cmds : Started(d)' <=> d # c /\ Started(d)
      BY <1>1 DEF Started, Editing, Idle
    <2>4. ASSUME NEW d \in Cmds, d # c, Started(d), d \notin shared
          PROVE  LET g == FileOf(cmd'[d].kind) IN file'[g] = file[g] /\ backup'[g] = backup[g]
      <3>1. Started(c) => FileOf(cmd[d].kind) # f
        BY <2>4 DEF BackupInv
      <3> QED BY <1>1, <1>2, <2>1, <2>2, <2>4, <3>1
    <2> QED BY <1>1, <2>3, <2>4 DEF BackupInv
  <1>6. DiskType'
    BY <1>1, <1>2 DEF DiskType
  <1> QED BY <1>3, <1>4, <1>5, <1>6

LEMMA InitStep ==
  ASSUME ConfigInv, NEW c \in Cmds, InitCreates(c) \/ InitFills(c)
  PROVE  ConfigInv'
  <1> USE DEF ConfigInv
  <1>1. /\ DOMAIN cmd' = Cmds /\ \A d \in Cmds : d # c => cmd'[d] = cmd[d]
        /\ cmd[c].pc \in {"idle", "fill"}
        /\ policyFile' \in {Empty, "starter"} /\ starts' \in 0 .. MaxStarts
        /\ UNCHANGED <<file, backup, writes, raced, shared>>
    BY ConfigAssumption DEF InitCreates, InitFills, CmdType, DiskType, histVars
  <1>2. /\ DOMAIN cmd'[c] = Fields /\ cmd'[c].hook = HookChecksAll
        /\ \/ cmd'[c].pc = "idle" /\ cmd'[c].kind = "none"
           \/ cmd'[c].pc = "fill" /\ cmd'[c].kind = "init"
    <2>1. DOMAIN cmd = Cmds
      BY DEF CmdType
    <2>2. CASE InitCreates(c)
      BY <2>1, <2>2 DEF InitCreates, Idle, Fields
    <2>3. CASE InitFills(c)
      BY <2>1, <2>3 DEF InitFills, Idle, Fields
    <2> QED BY <2>2, <2>3
  <1>3. CmdType'
    BY <1>1, <1>2 DEF CmdType
  <1>4. OutInv'
    BY <1>1, <1>2 DEF OutInv, Editing
  <1>5. BackupInv'
    BY <1>1, <1>2 DEF BackupInv, Started, Editing
  <1>6. DiskType'
    BY <1>1 DEF DiskType
  <1> QED BY <1>3, <1>4, <1>5, <1>6

LEMMA ConfigNext ==
  ASSUME ConfigInv, [Next]_vars
  PROVE  ConfigInv'
  <1>1. ASSUME NEW c \in Cmds,
               StartWrap(c) \/ StartUnwrap(c) \/ StartInstall(c) \/ StartUninstall(c)
        PROVE  ConfigInv'
    <2>1. PICK kind \in Commands, hook \in {HookChecksAll, HookSkipsMCP} :
            cmd[c].pc = "idle" /\ Starting(c, kind, hook)
      BY <1>1 DEF StartWrap, StartUnwrap, StartInstall, StartUninstall, Commands
    <2> QED BY <2>1, StartingStep
  <1>2. CASE UNCHANGED vars
    BY <1>2 DEF vars, diskVars, histVars, ConfigInv, CmdType, DiskType, OutInv, BackupInv,
                Started
  <1> QED BY <1>1, <1>2, UserStep, ReadStep, WriteStep, EndStep, InitStep DEF Next, Command

LEMMA ConfigInvariant == Spec => []ConfigInv
  <1>1. ConfigInv /\ [Next]_vars => ConfigInv'
    BY ConfigNext
  <1> QED BY <1>1, ConfigInit, PTL DEF Spec

-----------------------------------------------------------------------------
(* What it gives.                                                          *)

\* editJSONFile's backup is the whole of the version it replaces, whenever the
\* command has the file to itself: whatever was killed or failed before it.
THEOREM BackupIsPrevious == Spec => []PreviousKept
  <1>1. ConfigInv => PreviousKept
    BY DEF ConfigInv, BackupInv, PreviousKept, Started, Editing
  <1> QED BY <1>1, ConfigInvariant, PTL

LEMMA StoreStep ==
  ASSUME ConfigInv, [Next]_vars
  PROVE  [Store!StoreNext]_(Store!storeVars)
  <1> USE DEF ConfigInv
  <1> DEFINE open == [c \in Cmds |-> OpenEdit(c)]
  <1>1. ASSUME NEW f \in Files, UserWrites(f)
        PROVE  Store!UserWrites(f)
    BY <1>1 DEF UserWrites, Store!UserWrites, OpenEdit
  <1>2. ASSUME NEW c \in Cmds, Rename(c)
        PROVE  Store!Commit(c)
    <2>1. /\ cmd[c].pc = "rename" /\ open[c] = {[file |-> FileOf(cmd[c].kind), read |-> cmd[c].original]}
          /\ cmd[c].out \in Edits(FileOf(cmd[c].kind), cmd[c].original)
      BY <1>2 DEF Rename, OpenEdit, OutInv, Editing
    <2>2. open' = [open EXCEPT ![c] = {}]
      BY <1>2 DEF Rename, OpenEdit, Idle, CmdType
    <2>3. file' = [file EXCEPT ![FileOf(cmd[c].kind)] = cmd[c].out]
      BY <1>2 DEF Rename
    <2>4. \E edit \in open[c] : \E doc \in Edits(edit.file, edit.read) :
            file' = [file EXCEPT ![edit.file] = doc]
      <3> DEFINE e == [file |-> FileOf(cmd[c].kind), read |-> cmd[c].original]
      <3>1. e.file = FileOf(cmd[c].kind) /\ e.read = cmd[c].original
        OBVIOUS
      <3>2. e \in open[c]
        BY <2>1
      <3>3. cmd[c].out \in Edits(FileOf(cmd[c].kind), cmd[c].original)
        BY <2>1
      <3> HIDE DEF open, e
      <3> QED BY <2>3, <3>1, <3>2, <3>3
    <2> QED BY <2>2, <2>4 DEF Store!Commit
  <1>3. ASSUME NEW c \in Cmds, ReadAndEdit(c), cmd'[c] # Idle
        PROVE  \E f \in Files : Store!Begin(c, f)
    <2> DEFINE f == FileOf(cmd[c].kind)
    <2>1. open[c] = {} /\ UNCHANGED file /\ f \in Files
      BY <1>3 DEF ReadAndEdit, OpenEdit, diskVars, FileOf, Files
    <2>2. open' = [open EXCEPT ![c] = {[file |-> f, read |-> file[f]]}]
      <3>1. DOMAIN cmd[c] = Fields
        BY DEF CmdType
      <3>2. /\ cmd'[c].pc \in {"temp", "backup"} /\ cmd'[c].kind = cmd[c].kind
            /\ cmd'[c].original = file[f]
            /\ \A d \in Cmds : d # c => cmd'[d] = cmd[d]
        BY <1>3, <3>1 DEF ReadAndEdit, CmdType, Fields
      <3> QED BY <3>2 DEF OpenEdit
    <2> QED BY <2>1, <2>2 DEF Store!Begin
  <1>4. ASSUME NEW c \in Cmds, Stop(c) \/ InitFills(c)
                                 \/ (ReadAndEdit(c) /\ cmd'[c] = Idle)
        PROVE  Store!Abandon(c) \/ UNCHANGED Store!storeVars
    <2>1. UNCHANGED file
      BY <1>4 DEF Stop, InitFills, ReadAndEdit, diskVars
    <2>2. open' = [open EXCEPT ![c] = {}]
      <3>1. cmd'[c] = Idle /\ \A d \in Cmds : d # c => cmd'[d] = cmd[d]
        BY <1>4 DEF Stop, InitFills, ReadAndEdit, CmdType
      <3>2. OpenEdit(c)' = {} /\ \A d \in Cmds : d # c => OpenEdit(d)' = OpenEdit(d)
        BY <3>1 DEF OpenEdit, Idle
      <3> QED BY <3>2
    <2>3. open[c] = {} => open' = open
      BY <2>2
    <2> QED BY <2>1, <2>2, <2>3 DEF Store!Abandon, Store!storeVars
  <1>5. ASSUME NEW c \in Cmds,
               \/ StartWrap(c) \/ StartUnwrap(c) \/ StartInstall(c) \/ StartUninstall(c)
               \/ InitCreates(c) \/ TruncateBackup(c) \/ WriteBackup(c) \/ WriteTemp(c)
        PROVE  UNCHANGED Store!storeVars
    <2>1. UNCHANGED file
      <3>1. CASE StartWrap(c) \/ StartUnwrap(c) \/ StartInstall(c) \/ StartUninstall(c)
        BY <3>1 DEF StartWrap, StartUnwrap, StartInstall, StartUninstall, Starting, diskVars
      <3>2. CASE InitCreates(c) \/ TruncateBackup(c) \/ WriteBackup(c) \/ WriteTemp(c)
        BY <3>2 DEF InitCreates, TruncateBackup, WriteBackup, WriteTemp, diskVars
      <3> QED BY <1>5, <3>1, <3>2
    <2>2. \A d \in Cmds : d # c => cmd'[d] = cmd[d]
      <3>1. CASE StartWrap(c) \/ StartUnwrap(c) \/ StartInstall(c) \/ StartUninstall(c)
        BY <3>1 DEF StartWrap, StartUnwrap, StartInstall, StartUninstall, Starting, CmdType
      <3>2. CASE InitCreates(c) \/ TruncateBackup(c) \/ WriteBackup(c) \/ WriteTemp(c)
        BY <3>2 DEF InitCreates, TruncateBackup, WriteBackup, WriteTemp, CmdType
      <3> QED BY <1>5, <3>1, <3>2
    <2>3. OpenEdit(c)' = OpenEdit(c)
      <3>1. DOMAIN cmd = Cmds /\ DOMAIN cmd[c] = Fields
        BY DEF CmdType
      <3>2. CASE TruncateBackup(c) \/ WriteBackup(c) \/ WriteTemp(c)
        BY <3>1, <3>2 DEF TruncateBackup, WriteBackup, WriteTemp, OpenEdit, Fields
      <3>3. CASE ~(TruncateBackup(c) \/ WriteBackup(c) \/ WriteTemp(c))
        <4>1. cmd[c].pc = "idle" /\ cmd'[c].pc \in {"read", "fill"}
          <5>1. CASE StartWrap(c) \/ StartUnwrap(c) \/ StartInstall(c) \/ StartUninstall(c)
            <6>1. PICK kind, hook : cmd[c].pc = "idle" /\ Starting(c, kind, hook)
              BY <5>1, Zenon DEF StartWrap, StartUnwrap, StartInstall, StartUninstall
            <6>2. cmd'[c].pc = "read"
              BY <3>1, <6>1 DEF Starting, Idle
            <6> QED BY <6>1, <6>2
          <5>2. CASE InitCreates(c)
            BY <3>1, <5>2 DEF InitCreates, Idle
          <5> QED BY <1>5, <3>3, <5>1, <5>2
        <4> QED BY <4>1 DEF OpenEdit
      <3> QED BY <3>2, <3>3
    <2> QED BY <2>1, <2>2, <2>3 DEF Store!storeVars, OpenEdit
  <1>6. CASE UNCHANGED vars
    BY <1>6 DEF vars, diskVars, Store!storeVars, OpenEdit
  <1> QED BY <1>1, <1>2, <1>3, <1>4, <1>5, <1>6 DEF Next, Command, Store!StoreNext

\* wrap, unwrap, install and uninstall implement ConfigStore: a file is only ever
\* replaced by a whole edit of a whole version, for any number of processes,
\* whatever they read, and whoever is killed or fails at any step.
THEOREM ConfigImplementsStore == Spec => ImplementsConfigStore
  <1>1. Init => Store!StoreInit
    BY DEF Init, Store!StoreInit, First, Files, OpenEdit, Idle
  <1>2. ConfigInv /\ [Next]_vars => [Store!StoreNext]_(Store!storeVars)
    BY StoreStep
  <1> QED BY <1>1, <1>2, ConfigInvariant, PTL DEF Spec, ImplementsConfigStore, Store!StoreSpec

-----------------------------------------------------------------------------
(* What every edit keeps, the file keeps.                                  *)

\* A relation between a document and the one the user typed, over the versions a
\* file goes through while the user does not race a command.
KeepInv(f, R) ==
  /\ DOMAIN typed = Files /\ typed[f] \in First(f)
  /\ f \notin raced =>
       /\ <<file[f], typed[f]>> \in R
       /\ \A c \in Cmds : cmd[c].pc \in Editing /\ FileOf(cmd[c].kind) = f =>
            <<cmd[c].original, typed[f]>> \in R

LEMMA KeepUser ==
  ASSUME ConfigInv, NEW f \in Files, NEW R, \A doc \in First(f) : <<doc, doc>> \in R,
         KeepInv(f, R), NEW g \in Files, UserWrites(g)
  PROVE  KeepInv(f, R)'
  <1>1. /\ raced' = IF Holding(g) # {} THEN raced \cup {g} ELSE raced
        /\ cmd' = cmd
    BY DEF UserWrites
  <1>2. PICK doc \in UserDocs(g) :
          file' = [file EXCEPT ![g] = doc] /\ typed' = [typed EXCEPT ![g] = doc]
    BY DEF UserWrites
  <1>3. DOMAIN typed' = Files /\ DOMAIN typed = Files /\ DOMAIN file = Files
    BY <1>2 DEF KeepInv, ConfigInv, DiskType
  <1>4. CASE f = g
    <2>1. doc \in First(f) /\ file'[f] = doc /\ typed'[f] = doc
      BY <1>2, <1>3, <1>4 DEF UserDocs, First
    <2>2. ASSUME f \notin raced', NEW c \in Cmds, cmd[c].pc \in Editing,
                 FileOf(cmd[c].kind) = f
          PROVE  FALSE
      <3>1. c \in Holding(g)
        BY <1>4, <2>2 DEF Holding, Editing
      <3> QED BY <1>1, <1>4, <2>2, <3>1
    <2> QED BY <1>1, <1>3, <2>1, <2>2 DEF KeepInv
  <1>5. CASE f # g
    <2>1. file'[f] = file[f] /\ typed'[f] = typed[f]
      BY <1>2, <1>3, <1>5
    <2>2. f \in raced' <=> f \in raced
      BY <1>1, <1>5
    <2> QED BY <1>1, <1>3, <2>1, <2>2 DEF KeepInv
  <1> QED BY <1>4, <1>5

\* Of a command, the steps that matter are its reading and its renaming.
LEMMA CommandFrame ==
  ASSUME ConfigInv, NEW c \in Cmds, Command(c)
  PROVE  \/ /\ UNCHANGED <<file, typed, raced>>
            /\ \A d \in Cmds : \/ cmd'[d] = cmd[d]
                               \/ cmd'[d].pc \notin Editing
                               \/ /\ cmd[d].pc \in Editing /\ cmd'[d].kind = cmd[d].kind
                                  /\ cmd'[d].original = cmd[d].original
                                  /\ cmd'[d].out = cmd[d].out
         \/ ReadAndEdit(c) \/ Rename(c)
  <1>1. CASE \E kind \in Commands, hook \in {HookChecksAll, HookSkipsMCP} :
               Starting(c, kind, hook)
    <2>1. PICK kind \in Commands, hook \in {HookChecksAll, HookSkipsMCP} :
            Starting(c, kind, hook)
      BY <1>1
    <2>2. /\ UNCHANGED <<file, typed, raced>> /\ cmd'[c].pc = "read"
          /\ \A d \in Cmds : d # c => cmd'[d] = cmd[d]
      BY <2>1 DEF Starting, diskVars, Idle, ConfigInv, CmdType
    <2> QED BY <2>2 DEF Editing
  <1>2. CASE InitCreates(c) \/ InitFills(c) \/ Stop(c)
    <2>1. \/ cmd' = [cmd EXCEPT ![c] = Idle]
          \/ cmd' = [cmd EXCEPT ![c] = [Idle EXCEPT !.pc = "fill", !.kind = "init"]]
      BY <1>2 DEF InitCreates, InitFills, Stop
    <2>2. /\ cmd'[c].pc \in {"idle", "fill"}
          /\ \A d \in Cmds : d # c => cmd'[d] = cmd[d]
      <3>1. Idle.pc = "idle" /\ [Idle EXCEPT !.pc = "fill", !.kind = "init"].pc = "fill"
        BY DEF Idle
      <3>2. c \in DOMAIN cmd /\ DOMAIN cmd = Cmds
        BY DEF ConfigInv, CmdType
      <3> QED BY <2>1, <3>1, <3>2
    <2>3. UNCHANGED <<file, typed, raced>>
      BY <1>2 DEF InitCreates, InitFills, Stop, histVars
    <2> QED BY <2>2, <2>3 DEF Editing
  <1>3. CASE TruncateBackup(c) \/ WriteBackup(c) \/ WriteTemp(c)
    <2>1. /\ UNCHANGED <<file, typed, raced>> /\ cmd[c].pc \in Editing
          /\ cmd'[c].kind = cmd[c].kind /\ cmd'[c].original = cmd[c].original
          /\ cmd'[c].out = cmd[c].out
          /\ \A d \in Cmds : d # c => cmd'[d] = cmd[d]
      BY <1>3 DEF TruncateBackup, WriteBackup, WriteTemp, diskVars, histVars, Editing, ConfigInv,
                  CmdType, Fields
    <2> QED BY <2>1
  <1>4. StartWrap(c) \/ StartUnwrap(c) \/ StartInstall(c) \/ StartUninstall(c) =>
          \E kind \in Commands, hook \in {HookChecksAll, HookSkipsMCP} : Starting(c, kind, hook)
    BY DEF StartWrap, StartUnwrap, StartInstall, StartUninstall, Commands
  <1> QED BY <1>1, <1>2, <1>3, <1>4 DEF Command

LEMMA KeepCommand ==
  ASSUME ConfigInv, NEW f \in Files, NEW R,
         \A doc, from : <<doc, from>> \in R => \A edit \in Edits(f, doc) : <<edit, from>> \in R,
         KeepInv(f, R), NEW c \in Cmds, Command(c)
  PROVE  KeepInv(f, R)'
  <1>1. ASSUME UNCHANGED <<file, typed, raced>>,
               \A d \in Cmds : \/ cmd'[d] = cmd[d]
                              \/ cmd'[d].pc \notin Editing
                              \/ /\ cmd[d].pc \in Editing /\ cmd'[d].kind = cmd[d].kind
                                 /\ cmd'[d].original = cmd[d].original
        PROVE  KeepInv(f, R)'
    BY <1>1 DEF KeepInv
  <1>2. CASE ReadAndEdit(c)
    <2>1. /\ UNCHANGED <<file, typed, raced>>
          /\ \A d \in Cmds : d # c => cmd'[d] = cmd[d]
      BY <1>2 DEF ReadAndEdit, diskVars, histVars, ConfigInv, CmdType
    <2>2. CASE cmd'[c] = Idle
      BY <1>1, <2>1, <2>2 DEF Idle, Editing
    <2>3. CASE cmd'[c] # Idle
      <3>1. /\ cmd'[c].original = file[FileOf(cmd[c].kind)]
            /\ cmd'[c].kind = cmd[c].kind
        BY <1>2, <2>3 DEF ReadAndEdit, ConfigInv, CmdType, Fields
      <3> QED BY <2>1, <3>1 DEF KeepInv
    <2> QED BY <2>2, <2>3
  <1>3. CASE Rename(c)
    <2>1. /\ UNCHANGED <<typed, raced>> /\ cmd[c].pc = "rename" /\ cmd'[c] = Idle
          /\ \A d \in Cmds : d # c => cmd'[d] = cmd[d]
          /\ file'[f] = IF FileOf(cmd[c].kind) = f THEN cmd[c].out ELSE file[f]
      BY <1>3 DEF Rename, histVars, ConfigInv, CmdType, DiskType, Files
    <2>2. cmd[c].out \in Edits(FileOf(cmd[c].kind), cmd[c].original)
      BY <2>1 DEF ConfigInv, OutInv, Editing
    <2>3. f \notin raced => <<file'[f], typed[f]>> \in R
      BY <2>1, <2>2 DEF KeepInv, Editing
    <2> QED BY <2>1, <2>3 DEF KeepInv, Idle, Editing
  <1> QED BY <1>1, <1>2, <1>3, CommandFrame

LEMMA KeepInit ==
  ASSUME NEW f \in Files, NEW R, \A doc \in First(f) : <<doc, doc>> \in R, Init
  PROVE  KeepInv(f, R)
  <1>1. DOMAIN typed = Files /\ typed[f] \in First(f) /\ file[f] = typed[f]
    BY DEF Init, First, Files
  <1>2. \A c \in Cmds : cmd[c].pc = "idle"
    BY DEF Init, Idle
  <1> QED BY <1>1, <1>2 DEF KeepInv, Editing

LEMMA KeepStep ==
  ASSUME NEW f \in Files, NEW R, \A doc \in First(f) : <<doc, doc>> \in R,
         \A doc, from : <<doc, from>> \in R => \A edit \in Edits(f, doc) : <<edit, from>> \in R,
         ConfigInv, KeepInv(f, R), [Next]_vars
  PROVE  KeepInv(f, R)'
  <1>1. CASE UNCHANGED vars
    BY <1>1 DEF vars, diskVars, histVars, KeepInv
  <1>2. CASE Next
    BY <1>2, KeepUser, KeepCommand DEF Next
  <1> QED BY <1>1, <1>2

-----------------------------------------------------------------------------
(* The types.                                                              *)

\* Documents that the user may write, and that the edits make of each other.
Documents(D) ==
  \A f \in Files :
    /\ First(f) \subseteq D[f] /\ Empty \notin D[f] /\ Torn \notin D[f]
    /\ \A doc \in D[f] : Edits(f, doc) \subseteq D[f]

DocInv(D) ==
  /\ \A f \in Files : file[f] \in D[f]
  /\ \A c \in Cmds : cmd[c].pc \in Editing => cmd[c].original \in D[FileOf(cmd[c].kind)]

LEMMA DocStep ==
  ASSUME NEW D, Documents(D), ConfigInv, ConfigInv', DocInv(D), [Next]_vars
  PROVE  DocInv(D)'
  <1>0. \A k : FileOf(k) \in Files
    BY DEF FileOf, Files
  <1>1. ASSUME UNCHANGED file,
               \A d \in Cmds : \/ cmd'[d] = cmd[d]
                              \/ cmd'[d].pc \notin Editing
                              \/ /\ cmd[d].pc \in Editing /\ cmd'[d].kind = cmd[d].kind
                                 /\ cmd'[d].original = cmd[d].original
        PROVE  DocInv(D)'
    BY <1>1 DEF DocInv
  <1>2. ASSUME NEW f \in Files, UserWrites(f) PROVE DocInv(D)'
    <2>1. PICK doc \in UserDocs(f) : file' = [file EXCEPT ![f] = doc]
      BY <1>2 DEF UserWrites
    <2>2. doc \in D[f] /\ cmd' = cmd
      BY <1>2, <2>1 DEF Documents, First, UserDocs, UserWrites
    <2> QED BY <2>1, <2>2 DEF DocInv, ConfigInv, DiskType
  <1>3. ASSUME NEW c \in Cmds, Command(c) PROVE DocInv(D)'
    <2>1. \/ /\ UNCHANGED file
             /\ \A d \in Cmds : \/ cmd'[d] = cmd[d]
                                \/ cmd'[d].pc \notin Editing
                                \/ /\ cmd[d].pc \in Editing /\ cmd'[d].kind = cmd[d].kind
                                   /\ cmd'[d].original = cmd[d].original
          \/ ReadAndEdit(c) \/ Rename(c)
      BY <1>3, CommandFrame
    <2>2. CASE ReadAndEdit(c)
      <3>1. /\ UNCHANGED file /\ \A d \in Cmds : d # c => cmd'[d] = cmd[d]
        BY <2>2 DEF ReadAndEdit, diskVars, ConfigInv, CmdType
      <3>2. CASE cmd'[c] = Idle
        BY <1>1, <3>1, <3>2 DEF Idle, Editing
      <3>3. CASE cmd'[c] # Idle
        <4>1. /\ cmd'[c].original = file[FileOf(cmd[c].kind)]
              /\ cmd'[c].kind = cmd[c].kind
          BY <2>2, <3>3 DEF ReadAndEdit, ConfigInv, CmdType, Fields
        <4> QED BY <1>0, <3>1, <4>1 DEF DocInv
      <3> QED BY <3>2, <3>3
    <2>3. CASE Rename(c)
      <3>1. /\ cmd[c].pc = "rename" /\ cmd'[c] = Idle
            /\ \A d \in Cmds : d # c => cmd'[d] = cmd[d]
            /\ file' = [file EXCEPT ![FileOf(cmd[c].kind)] = cmd[c].out]
        BY <2>3 DEF Rename, ConfigInv, CmdType
      <3>2. cmd[c].out \in Edits(FileOf(cmd[c].kind), cmd[c].original)
        BY <3>1 DEF ConfigInv, OutInv, Editing
      <3>3. cmd[c].out \in D[FileOf(cmd[c].kind)]
        BY <1>0, <3>1, <3>2 DEF DocInv, Documents, Editing
      <3> QED BY <3>1, <3>3 DEF DocInv, ConfigInv, DiskType, Idle, Editing
    <2> QED BY <1>1, <2>1, <2>2, <2>3
  <1>4. CASE UNCHANGED vars
    BY <1>4 DEF vars, diskVars, DocInv
  <1> QED BY <1>2, <1>3, <1>4 DEF Next

\* A file is never half of a version and never empty, for any documents that are
\* neither half written nor empty.
THEOREM ConfigTypes ==
  ASSUME NEW D, Documents(D)
  PROVE  Spec => []TypeOK
  <1>1. Init => DocInv(D)
    BY DEF Init, DocInv, Documents, First, Files, Idle, Editing
  <1>2. ConfigInv /\ ConfigInv' /\ DocInv(D) /\ [Next]_vars => DocInv(D)'
    BY DocStep
  <1>3. ConfigInv /\ DocInv(D) => TypeOK
    <2> SUFFICES ASSUME ConfigInv, DocInv(D) PROVE TypeOK
      OBVIOUS
    <2>1. \A f \in Files : file[f] \notin {Empty, Torn}
      BY DEF DocInv, Documents
    <2>2. ASSUME NEW c \in Cmds
          PROVE  /\ cmd[c].pc \in {"idle", "read", "fill", "backup", "write", "temp", "rename"}
                 /\ cmd[c].kind \in {"none", "init", "wrap", "unwrap", "install", "uninstall"}
      BY DEF ConfigInv, CmdType, Commands, Editing
    <2>3. DiskType
      BY DEF ConfigInv
    <2> QED BY <2>1, <2>2, <2>3 DEF DiskType, TypeOK
  <1> QED BY <1>1, <1>2, <1>3, ConfigInvariant, PTL DEF Spec

-----------------------------------------------------------------------------
(* What parseArgs reads in what wrap writes.                               *)

\* What parseArgs knows between two words, over any set of words W.
Cfgs(W) ==
  [at : {"flag", "value", "upstream", "error"}, given : SUBSET ValueFlags, upstream : Seq(W)]
Start == [at |-> "flag", given |-> {}, upstream |-> <<>>]

LEMMA ParseWordType ==
  ASSUME NEW W, NEW cfg \in Cfgs(W), NEW w \in W
  PROVE  ParseWord(cfg, w) \in Cfgs(W)
  <1>1. Append(cfg.upstream, w) \in Seq(W)
    BY AppendProperties DEF Cfgs
  <1>2. CASE cfg.at = "upstream"
    <2>1. ParseWord(cfg, w) = [cfg EXCEPT !.upstream = Append(@, w)]
      BY <1>2, Zenon DEF ParseWord
    <2> QED BY <1>1, <2>1 DEF Cfgs
  <1>3. CASE cfg.at = "value"
    BY <1>3 DEF Cfgs, ParseWord
  <1>4. CASE cfg.at = "error"
    BY <1>4 DEF Cfgs, ParseWord
  <1>5. CASE cfg.at = "flag"
    BY <1>5 DEF Cfgs, ParseWord
  <1> QED BY <1>2, <1>3, <1>4, <1>5 DEF Cfgs

\* parseArgs reads one word after the other.
LEMMA ParseRuns ==
  ASSUME NEW W, NEW args \in Seq(W)
  PROVE  \E run : /\ run[0] = Start
                  /\ \A k \in 1 .. Len(args) : run[k] = ParseWord(run[k - 1], args[k])
                  /\ ParseArgs(args) = run[Len(args)]
  <1>1. PICK n \in Nat : n = Len(args) /\ DOMAIN args = 1 .. n
    BY LenProperties
  <1>2. PICK step : step = [i \in 1 .. n |-> [x \in Cfgs(W) |-> ParseWord(x, args[i])]]
    OBVIOUS
  <1>3. \A x \in Cfgs(W), i \in 1 .. n : step[i][x] = ParseWord(x, args[i]) /\ step[i][x] \in Cfgs(W)
    BY <1>1, <1>2, ParseWordType, ElementOfSeq
  <1>0. step \in [1 .. n -> [Cfgs(W) -> Cfgs(W)]]
    <2>1. \A i \in 1 .. n : [x \in Cfgs(W) |-> ParseWord(x, args[i])] \in [Cfgs(W) -> Cfgs(W)]
      BY <1>1, ParseWordType, ElementOfSeq
    <2> QED BY <1>2, <2>1
  <1>4. Start \in Cfgs(W)
    BY EmptySeq DEF Start, Cfgs
  <1>5. PICK it \in [SUBSET (1 .. n) -> Cfgs(W)] : IsFoldOf(n, Start, step, it)
    BY <1>0, <1>4, FoldExists
  <1> DEFINE IsFold(iter) ==
               iter = [s \in SUBSET (1 .. n) |->
                         IF s = {} THEN Start ELSE ParseWord(iter[s \ {Max(s)}], args[Max(s)])]
  <1>6. \A s \in SUBSET (1 .. n) : s # {} => Max(s) \in 1 .. n /\ s \ {Max(s)} \in SUBSET (1 .. n)
    <2> SUFFICES ASSUME NEW s \in SUBSET (1 .. n), s # {} PROVE Max(s) \in 1 .. n
      OBVIOUS
    <2>1. s \in SUBSET (0 .. n)
      OBVIOUS
    <2> QED BY <2>1, MaxIs
  <1>7. IsFold(it)
    <2>1. \A s \in SUBSET (1 .. n) : s # {} => it[s] = ParseWord(it[s \ {Max(s)}], args[Max(s)])
      BY <1>3, <1>5, <1>6 DEF IsFoldOf
    <2>3. it[{}] = Start
      BY <1>5 DEF IsFoldOf
    <2>2. it = [s \in SUBSET (1 .. n) |-> it[s]]
      BY <1>5
    <2> QED BY <2>1, <2>2, <2>3
  <1>8. ParseArgs(args) = (CHOOSE iter : IsFold(iter))[1 .. n]
    BY <1>1, Zenon DEF ParseArgs, FoldLeft, MapThenFoldSet, Start
  <1>9. PICK iter : IsFold(iter) /\ ParseArgs(args) = iter[1 .. n]
    <2> HIDE DEF IsFold
    <2> QED BY <1>7, <1>8, Zenon
  <1>10. PICK run : run = [k \in 0 .. n |-> iter[1 .. k]]
    OBVIOUS
  <1>11. run[0] = Start
    BY <1>9, <1>10
  <1>12. \A k \in 1 .. n : run[k] = ParseWord(run[k - 1], args[k])
    <2> SUFFICES ASSUME NEW k \in 1 .. n PROVE run[k] = ParseWord(run[k - 1], args[k])
      OBVIOUS
    <2>1. k \in 0 .. n /\ k - 1 \in 0 .. n
      OBVIOUS
    <2>2. iter[1 .. k] = ParseWord(iter[1 .. k - 1], args[k])
      <3>1. PICK x \in SUBSET (1 .. n) :
                   x = 1 .. k /\ x # {} /\ Max(x) = k /\ x \ {k} = 1 .. k - 1
        BY StageOf
      <3>2. iter[x] = ParseWord(iter[x \ {Max(x)}], args[Max(x)])
        BY <1>9, <3>1
      <3> QED BY <3>1, <3>2, Zenon
    <2> QED BY <1>10, <2>1, <2>2
  <1>13. /\ \A k \in 1 .. Len(args) : run[k] = ParseWord(run[k - 1], args[k])
         /\ ParseArgs(args) = run[Len(args)]
    <2>1. ParseArgs(args) = run[n]
      <3>1. n \in 0 .. n
        OBVIOUS
      <3> HIDE DEF IsFold
      <3> QED BY <1>9, <1>10, <3>1
    <2> QED BY <1>1, <1>12, <2>1, Zenon
  <1> QED BY <1>11, <1>13, Zenon

\* One lemma for each way a word of the wrapped line is read.
Cfg(at, given, upstream) == [at |-> at, given |-> given, upstream |-> upstream]

LEMMA ReadFlag ==
  ASSUME NEW g, NEW u, NEW w \in ValueFlags
  PROVE  ParseWord(Cfg("flag", g, u), w) = Cfg("value", g \cup {w}, u)
  <1> DEFINE cfg == Cfg("flag", g, u)
  <1>1. cfg.at = "flag" /\ cfg.given = g
    BY DEF Cfg
  <1>2. ParseWord(cfg, w) = [cfg EXCEPT !.at = "value", !.given = cfg.given \cup {w}]
    BY <1>1 DEF ParseWord, ValueFlags, Switches
  <1> QED BY <1>2 DEF Cfg

LEMMA ReadValue ==
  ASSUME NEW g, NEW u, NEW w
  PROVE  ParseWord(Cfg("value", g, u), w) = Cfg("flag", g, u)
  <1> DEFINE cfg == Cfg("value", g, u)
  <1>1. cfg.at = "value"
    BY DEF Cfg
  <1>2. ParseWord(cfg, w) = [cfg EXCEPT !.at = "flag"]
    BY <1>1 DEF ParseWord
  <1> QED BY <1>2 DEF Cfg

LEMMA ReadSeparator ==
  ASSUME NEW g, NEW u
  PROVE  ParseWord(Cfg("flag", g, u), "--") = Cfg("upstream", g, u)
  <1> DEFINE cfg == Cfg("flag", g, u)
  <1>1. cfg.at = "flag"
    BY DEF Cfg
  <1>2. ParseWord(cfg, "--") = [cfg EXCEPT !.at = "upstream"]
    BY <1>1 DEF ParseWord, ValueFlags, Switches
  <1> QED BY <1>2 DEF Cfg

LEMMA ReadUpstream ==
  ASSUME NEW g, NEW u, NEW w
  PROVE  ParseWord(Cfg("upstream", g, u), w) = Cfg("upstream", g, Append(u, w))
  <1> DEFINE cfg == Cfg("upstream", g, u)
  <1>1. cfg.at = "upstream" /\ cfg.upstream = u
    BY DEF Cfg
  <1>2. ParseWord(cfg, w) = [cfg EXCEPT !.upstream = Append(cfg.upstream, w)]
    BY <1>1 DEF ParseWord
  <1> QED BY <1>2 DEF Cfg

\* What wrap writes before a line, with the command and without it.
Ours == <<"--policy", PolicyArg, "--audit-log", LogArg, "--">>
Given == {"--policy", "--audit-log"}
Prefix == <<Self, "--policy", PolicyArg, "--audit-log", LogArg, "--">>
OurWords == {Self, "--policy", PolicyArg, "--audit-log", LogArg, "--"}

LEMMA OursIs ==
  ASSUME NEW W, OurWords \subseteq W
  PROVE  Ours \in Seq(W) /\ Len(Ours) = 5
  <1>1. Len(Ours) = 5
    BY DEF Ours
  <1>3. Ours[1] \in W /\ Ours[2] \in W /\ Ours[3] \in W /\ Ours[4] \in W /\ Ours[5] \in W
    BY DEF Ours, OurWords
  <1>4. Ours = <<Ours[1], Ours[2], Ours[3], Ours[4], Ours[5]>>
    BY DEF Ours
  <1>5. \A v1, v2, v3, v4, v5 \in W : <<v1, v2, v3, v4, v5>> \in Seq(W)
    OBVIOUS
  <1>6. <<Ours[1], Ours[2], Ours[3], Ours[4], Ours[5]>> \in Seq(W)
    BY <1>3, <1>5, Zenon
  <1>7. Ours \in Seq(W)
    BY <1>4, <1>6, Zenon
  <1> QED BY <1>1, <1>7, Zenon

LEMMA ParseOurs ==
  ASSUME NEW W, OurWords \subseteq W, NEW u \in Seq(W)
  PROVE  ParseArgs(Ours \o u) = Cfg("upstream", Given, u)
  <1> DEFINE args == Ours \o u
             Took(k) == Cfg("upstream", Given, SubSeq(u, 1, k))
  <1>1. Ours \in Seq(W) /\ Len(Ours) = 5
    BY OursIs
  <1>2. PICK n \in Nat : n = Len(u)
    BY LenProperties
  <1>3. /\ args \in Seq(W) /\ Len(args) = n + 5
        /\ args[1] = "--policy" /\ args[2] = PolicyArg /\ args[3] = "--audit-log"
        /\ args[4] = LogArg /\ args[5] = "--"
        /\ \A k \in 1 .. n : args[k + 5] = u[k]
    <2>1. /\ args \in Seq(W) /\ Len(args) = Len(Ours) + Len(u)
          /\ \A i \in 1 .. Len(Ours) + Len(u) :
               args[i] = IF i <= Len(Ours) THEN Ours[i] ELSE u[i - Len(Ours)]
      BY <1>1, ConcatProperties
    <2>2. Len(Ours) = 5 /\ Len(u) = n
      BY <1>1, <1>2
    <2> HIDE DEF args
    <2>3. args \in Seq(W) /\ Len(args) = n + 5
      BY <2>1, <2>2
    <2>4. \A i \in 1 .. n + 5 : args[i] = IF i <= 5 THEN Ours[i] ELSE u[i - 5]
      <3>1. \A i \in 1 .. 5 + n : args[i] = IF i <= 5 THEN Ours[i] ELSE u[i - 5]
        BY <2>1, <2>2, Zenon
      <3> QED BY <3>1
    <2>5. \A i \in 1 .. 5 : i \in 1 .. n + 5 /\ args[i] = Ours[i]
      BY <2>4
    <2>6. \A k \in 1 .. n : k + 5 \in 1 .. n + 5 /\ ~(k + 5 <= 5) /\ (k + 5) - 5 = k
      OBVIOUS
    <2>7. \A k \in 1 .. n : args[k + 5] = u[k]
      <3> HIDE DEF args
      <3> QED BY <2>4, <2>6
    <2>8. args[1] = Ours[1] /\ args[2] = Ours[2] /\ args[3] = Ours[3] /\ args[4] = Ours[4] /\ args[5] = Ours[5]
      <3> HIDE DEF args
      <3> QED BY <2>5
    <2> HIDE DEF args
    <2> QED BY <2>3, <2>7, <2>8 DEF Ours
  <1> HIDE DEF args
  <1>4. PICK run : /\ run[0] = Start
                   /\ \A k \in 1 .. Len(args) : run[k] = ParseWord(run[k - 1], args[k])
                   /\ ParseArgs(args) = run[Len(args)]
    BY <1>3, ParseRuns
  <1>5. /\ run[1] = ParseWord(run[0], args[1]) /\ run[2] = ParseWord(run[1], args[2])
        /\ run[3] = ParseWord(run[2], args[3]) /\ run[4] = ParseWord(run[3], args[4])
        /\ run[5] = ParseWord(run[4], args[5])
    <2>1. \A k \in 1 .. 5 : k \in 1 .. Len(args)
      BY <1>3
    <2> QED BY <1>4, <2>1
  <1>6. run[1] = Cfg("value", {"--policy"}, <<>>)
    <2>1. "--policy" \in ValueFlags /\ {} \cup {"--policy"} = {"--policy"}
      BY DEF ValueFlags
    <2>2. run[0] = Cfg("flag", {}, <<>>)
      BY <1>4 DEF Start, Cfg
    <2> QED BY <1>3, <1>5, <2>1, <2>2, ReadFlag
  <1>7. run[2] = Cfg("flag", {"--policy"}, <<>>)
    BY <1>5, <1>6, ReadValue
  <1>8. run[3] = Cfg("value", Given, <<>>)
    <2>1. "--audit-log" \in ValueFlags /\ {"--policy"} \cup {"--audit-log"} = Given
      BY DEF ValueFlags, Given
    <2> QED BY <1>3, <1>5, <1>7, <2>1, ReadFlag
  <1>9. run[4] = Cfg("flag", Given, <<>>)
    BY <1>5, <1>8, ReadValue
  <1>10. run[5] = Cfg("upstream", Given, <<>>)
    BY <1>3, <1>5, <1>9, ReadSeparator
  <1> DEFINE Good == {k \in 0 .. n : run[k + 5] = Took(k)}
  <1>11. 0 \in Good
    <2>1. SubSeq(u, 1, 0) = <<>>
      BY SubSeqEmpty
    <2>3. 0 + 5 = 5
      OBVIOUS
    <2>2. run[0 + 5] = Took(0)
      BY <1>10, <2>1, <2>3, Zenon
    <2> HIDE DEF Took
    <2> QED BY <2>2
  <1>12. ASSUME NEW k \in 0 .. n, run[k + 5] = Took(k), k # n PROVE run[(k + 1) + 5] = Took(k + 1)
    <2>1. /\ (k + 1) + 5 \in 1 .. Len(args) /\ ((k + 1) + 5) - 1 = k + 5
          /\ k + 1 \in 1 .. n
      BY <1>3, <1>12
    <2>2. run[(k + 1) + 5] = ParseWord(run[k + 5], u[k + 1])
      BY <1>3, <1>4, <2>1
    <2>3. Append(SubSeq(u, 1, k), u[k + 1]) = SubSeq(u, 1, k + 1)
      <3>1. SubSeq(u, 1, k + 1) = SubSeq(u, 1, (k + 1) - 1) \o <<u[k + 1]>> /\ (k + 1) - 1 = k
        BY <1>2, <2>1, SubSeqRecursiveSecond
      <3>2. SubSeq(u, 1, k) \in Seq(W)
        BY <1>2, <2>1, SubSeqProperties
      <3> QED BY <3>1, <3>2, AppendIsConcat
    <2>4. ParseWord(Took(k), u[k + 1]) = Took(k + 1)
      <3>1. PICK s, w : s = SubSeq(u, 1, k) /\ w = u[k + 1]
        OBVIOUS
      <3>2. ParseWord(Cfg("upstream", Given, s), w) = Cfg("upstream", Given, Append(s, w))
        BY ReadUpstream
      <3> QED BY <2>3, <3>1, <3>2, Zenon
    <2> QED BY <1>12, <2>2, <2>4
  <1>13. run[n + 5] = Took(n)
    <2>1. \A k \in 0 .. n : k \in Good /\ k # n => k + 1 \in Good
      <3> HIDE DEF Took
      <3>1. \A k \in 0 .. n : k # n => k + 1 \in 0 .. n
        OBVIOUS
      <3> QED BY <1>12, <3>1
    <2>2. n \in 0 .. n
      OBVIOUS
    <2>3. n \in Good
      <3> HIDE DEF Good
      <3> QED BY <1>11, <2>1, <2>2, UpTo
    <2> HIDE DEF Took
    <2> QED BY <2>3
  <1>14. SubSeq(u, 1, n) = u
    BY <1>2, SubSeqFull
  <1> QED BY <1>3, <1>4, <1>13, <1>14 DEF args

LEMMA PrefixIs ==
  ASSUME NEW W, OurWords \subseteq W
  PROVE  /\ Prefix \in Seq(W) /\ Len(Prefix) = 6
         /\ \A i \in 1 .. 6 : Prefix[i] = IF i = 1 THEN Self ELSE Ours[i - 1]
  <1>1. Len(Prefix) = 6
    BY DEF Prefix
  <1>2. /\ Prefix[1] = Self /\ Prefix[2] = Ours[1] /\ Prefix[3] = Ours[2]
        /\ Prefix[4] = Ours[3] /\ Prefix[5] = Ours[4] /\ Prefix[6] = Ours[5]
    BY DEF Prefix, Ours
  <1>3. \A i \in 1 .. 6 : Prefix[i] = IF i = 1 THEN Self ELSE Ours[i - 1]
    BY <1>2
  <1>4. Prefix \in Seq(W)
    <2>1. \A v1, v2, v3, v4, v5, v6 \in W : <<v1, v2, v3, v4, v5, v6>> \in Seq(W)
      OBVIOUS
    <2>2. /\ Self \in W /\ "--policy" \in W /\ PolicyArg \in W /\ "--audit-log" \in W
          /\ LogArg \in W /\ "--" \in W
      BY DEF OurWords
    <2>3. <<Self, "--policy", PolicyArg, "--audit-log", LogArg, "--">> \in Seq(W)
      BY <2>1, <2>2, Zenon
    <2> QED BY <2>3, Zenon DEF Prefix
  <1> QED BY <1>1, <1>3, <1>4

\* What wrap writes before a line is taken off by unwrap and by parseArgs.
LEMMA WrappedLine ==
  ASSUME NEW W, OurWords \subseteq W, NEW u \in Seq(W), u # <<>>
  PROVE  /\ Prefix \o u # <<>> /\ Head(Prefix \o u) = Self
         /\ UnwrapServer(Prefix \o u) = u
         /\ Launched(Prefix \o u) = u
  <1>1. PICK w : w = Prefix \o u
    OBVIOUS
  <1>2. PICK n \in Nat : n = Len(u) /\ n > 0
    BY EmptySeq
  <1>3. /\ w \in Seq(W) /\ Len(w) = Len(Prefix) + Len(u)
        /\ \A i \in 1 .. Len(Prefix) + Len(u) :
             w[i] = IF i <= Len(Prefix) THEN Prefix[i] ELSE u[i - Len(Prefix)]
    BY <1>1, PrefixIs, ConcatProperties
  <1>4. Len(Prefix) = 6 /\ Len(w) = n + 6
    <2>1. Len(Prefix) = 6
      BY PrefixIs
    <2> QED BY <1>2, <1>3, <2>1
  <1>5. \A i \in 1 .. 6 + n : w[i] = IF i <= 6 THEN Prefix[i] ELSE u[i - 6]
    BY <1>2, <1>3, <1>4, Zenon
  <1>6. \A i \in 1 .. 6 : w[i] = Prefix[i]
    BY <1>5
  <1>7. \A i \in 1 .. n : w[i + 6] = u[i]
    <2>1. \A i \in 1 .. n : i + 6 \in 1 .. 6 + n /\ ~(i + 6 <= 6) /\ (i + 6) - 6 = i
      OBVIOUS
    <2> QED BY <1>5, <2>1
  <1>8. w # <<>> /\ Head(w) = Self
    <2>1. w # <<>>
      BY <1>2, <1>4
    <2>2. w[1] = Self
      BY <1>6 DEF Prefix
    <2>3. Head(w) = w[1]
      BY <1>3, <2>1
    <2> QED BY <2>1, <2>2, <2>3
  <1>9. UnwrapServer(w) = u
    <2>1. /\ w[2] = "--policy" /\ w[3] = PolicyArg /\ w[4] = "--audit-log"
          /\ w[5] = LogArg /\ w[6] = "--"
      BY <1>6 DEF Prefix
    <2>2. /\ w[2] # "--" /\ w[3] # "--" /\ w[4] # "--" /\ w[5] # "--" /\ w[6] = "--"
      BY <2>1 DEF PolicyArg, LogArg
    <2>3. \A i \in 2 .. 5 : w[i] # "--"
      BY <2>2
    <2>4. 6 \in Separators(w) /\ Separators(w) \in SUBSET Nat
      BY <1>2, <1>4, <2>2 DEF Separators
    <2>5. \A i \in Separators(w) : 6 <= i
      BY <1>2, <1>4, <2>3 DEF Separators
    <2>6. Min(Separators(w)) = 6 /\ Separators(w) # {}
      BY <2>4, <2>5, MinIs
    <2>7. UnwrapServer(w) = SubSeq(w, 7, n + 6)
      BY <1>4, <1>8, <2>6 DEF UnwrapServer, AfterSeparator, IsChokepoint
    <2>8. SubSeq(w, 7, n + 6) = u
      <3>1. \A i \in 7 .. n + 6 : w[i] \in W
        BY <1>2, <1>3, <1>4, ElementOfSeq
      <3>2. /\ SubSeq(w, 7, n + 6) \in Seq(W) /\ Len(SubSeq(w, 7, n + 6)) = n
            /\ \A i \in 1 .. n : SubSeq(w, 7, n + 6)[i] = w[i + 6]
        <4>1. /\ SubSeq(w, 7, n + 6) \in Seq(W)
              /\ Len(SubSeq(w, 7, n + 6)) = IF 7 <= n + 6 THEN (n + 6) - 7 + 1 ELSE 0
              /\ \A i \in 1 .. (n + 6) - 7 + 1 : SubSeq(w, 7, n + 6)[i] = w[7 + i - 1]
          BY <3>1, SubSeqProperties
        <4>2. (n + 6) - 7 + 1 = n /\ 7 <= n + 6
          BY <1>2
        <4>3. \A i \in 1 .. n : 7 + i - 1 = i + 6
          OBVIOUS
        <4> QED BY <4>1, <4>2, <4>3
      <3> QED BY <1>2, <1>7, <3>2, SeqEqual
    <2> QED BY <2>7, <2>8
  <1>10. Tail(w) = Ours \o u
    <2>1. Ours \in Seq(W) /\ Len(Ours) = 5
      BY OursIs
    <2>2. /\ Ours \o u \in Seq(W) /\ Len(Ours \o u) = Len(Ours) + Len(u)
          /\ \A i \in 1 .. Len(Ours) + Len(u) :
               (Ours \o u)[i] = IF i <= Len(Ours) THEN Ours[i] ELSE u[i - Len(Ours)]
      BY <2>1, ConcatProperties
    <2>3. PICK v : v = Ours \o u
      OBVIOUS
    <2>4. v \in Seq(W) /\ Len(v) = n + 5
      BY <1>2, <2>1, <2>2, <2>3
    <2>5. \A i \in 1 .. 5 + n : v[i] = IF i <= 5 THEN Ours[i] ELSE u[i - 5]
      BY <1>2, <2>1, <2>2, <2>3, Zenon
    <2>6. /\ Tail(w) \in Seq(W) /\ Len(Tail(w)) = n + 5
          /\ \A i \in 1 .. n + 5 : Tail(w)[i] = w[i + 1]
      BY <1>3, <1>4, <1>8, HeadTailProperties
    <2>7. ASSUME NEW i \in 1 .. n + 5 PROVE w[i + 1] = v[i]
      <3>1. CASE i <= 5
        <4>1. i + 1 \in 1 .. 6 /\ (i + 1) - 1 = i /\ i + 1 # 1 /\ i \in 1 .. 5 + n
          BY <3>1
        <4> QED BY <1>6, <2>5, <3>1, <4>1, PrefixIs
      <3>2. CASE ~(i <= 5)
        <4>1. i - 5 \in 1 .. n /\ (i - 5) + 6 = i + 1 /\ i \in 1 .. 5 + n
          BY <3>2
        <4> QED BY <1>7, <2>5, <3>2, <4>1
      <3> QED BY <3>1, <3>2
    <2>8. \A i \in 1 .. Len(v) : Tail(w)[i] = v[i]
      BY <2>4, <2>6, <2>7
    <2>9. Tail(w) = v
      BY <2>4, <2>6, <2>8, SeqEqual
    <2> QED BY <2>3, <2>9
  <1>11. Launched(w) = u
    <2>1. PICK cfg : cfg = ParseArgs(Tail(w))
      OBVIOUS
    <2>2. cfg = Cfg("upstream", Given, u)
      BY <1>10, <2>1, ParseOurs
    <2>3. cfg.at = "upstream" /\ cfg.given = Given /\ cfg.upstream = u
      BY <2>2 DEF Cfg
    <2>4. Starts(cfg)
      <3>1. cfg.upstream # <<>> /\ "--policy" \in cfg.given
        BY <2>3 DEF Given
      <3> QED BY <2>3, <3>1 DEF Starts
    <2> QED BY <1>8, <2>1, <2>3, <2>4 DEF Launched, IsChokepoint
  <1> QED BY <1>1, <1>8, <1>9, <1>11

-----------------------------------------------------------------------------
(* What wraps and unwraps make of a line.                                  *)

\* All that any sequence of wraps and unwraps makes of a line.
Kin(line) ==
  {line, WrapServer(line), UnwrapServer(line), WrapServer(UnwrapServer(line))}

LEMMA WrapPlain ==
  ASSUME NEW W, OurWords \subseteq W, NEW u \in Seq(W), u # <<>>, ~IsChokepoint(Head(u)),
         NEW p, p = WrapServer(u)
  PROVE  /\ WrapServer(p) = p /\ UnwrapServer(p) = u /\ UnwrapServer(u) = u
         /\ Launched(p) = u /\ Launched(u) = u
  <1>1. p = Prefix \o u
    BY DEF WrapServer, Prefix
  <1>2. p # <<>> /\ Head(p) = Self /\ UnwrapServer(p) = u /\ Launched(p) = u
    BY <1>1, WrappedLine
  <1>3. WrapServer(p) = p
    BY <1>2 DEF WrapServer, IsChokepoint
  <1>4. UnwrapServer(u) = u /\ Launched(u) = u
    BY DEF UnwrapServer, Launched
  <1> QED BY <1>2, <1>3, <1>4

LEMMA UnwrapType ==
  ASSUME NEW W, NEW line \in Seq(W), line # <<>>, IsChokepoint(Head(line)),
         Separators(line) # {}
  PROVE  UnwrapServer(line) \in Seq(W) /\ UnwrapServer(line) # <<>>
  <1>1. PICK n \in Nat : n = Len(line) /\ \A i \in 1 .. n : line[i] \in W
    BY LenProperties, ElementOfSeq
  <1>2. PICK m : m = Min(Separators(line))
    OBVIOUS
  <1>3. Separators(line) \in SUBSET Nat /\ Separators(line) \subseteq 2 .. n - 1
    BY <1>1 DEF Separators
  <1>4. PICK l \in Separators(line) : \A x \in Separators(line) : l <= x
    BY <1>3, LeastExists
  <1>5. m \in 2 .. n - 1
    BY <1>2, <1>3, <1>4, MinIs
  <1>6. UnwrapServer(line) = SubSeq(line, m + 1, n)
    BY <1>1, <1>2 DEF UnwrapServer, AfterSeparator
  <1>7. /\ SubSeq(line, m + 1, n) \in Seq(W)
        /\ Len(SubSeq(line, m + 1, n)) = IF m + 1 <= n THEN n - (m + 1) + 1 ELSE 0
    <2>1. m + 1 \in Int /\ n \in Int /\ \A i \in m + 1 .. n : line[i] \in W
      BY <1>1, <1>5
    <2> QED BY <2>1, SubSeqProperties
  <1>8. SubSeq(line, m + 1, n) # <<>>
    BY <1>5, <1>7, EmptySeq
  <1> QED BY <1>6, <1>7, <1>8

LEMMA KinClosed ==
  ASSUME NEW W, OurWords \subseteq W, NEW line \in Seq(W), Usual(line), NEW v \in Kin(line)
  PROVE  /\ WrapServer(v) \in Kin(line) /\ UnwrapServer(v) \in Kin(line)
         /\ Launched(v) = Launched(line)
  <1>1. CASE line = <<>> \/ (IsChokepoint(Head(line)) /\ Separators(line) = {})
    <2>1. WrapServer(line) = line /\ UnwrapServer(line) = line
      BY <1>1 DEF WrapServer, UnwrapServer
    <2>2. Kin(line) = {line}
      BY <2>1 DEF Kin
    <2> QED BY <2>1, <2>2
  <1>2. CASE line # <<>> /\ ~IsChokepoint(Head(line))
    <2>1. PICK p : p = WrapServer(line)
      OBVIOUS
    <2>2. /\ WrapServer(p) = p /\ UnwrapServer(p) = line /\ UnwrapServer(line) = line
          /\ Launched(p) = line /\ Launched(line) = line
      BY <1>2, <2>1, WrapPlain
    <2>3. Kin(line) = {line, p}
      BY <2>1, <2>2 DEF Kin
    <2> QED BY <2>1, <2>2, <2>3
  <1>3. CASE line # <<>> /\ IsChokepoint(Head(line)) /\ Separators(line) # {}
    <2>1. PICK u : u = UnwrapServer(line)
      OBVIOUS
    <2>2. u \in Seq(W) /\ u # <<>> /\ ~IsChokepoint(Head(u)) /\ Launched(line) = u
      BY <1>3, <2>1, UnwrapType DEF Usual, UnwrapServer
    <2>3. PICK p : p = WrapServer(u)
      OBVIOUS
    <2>4. /\ WrapServer(p) = p /\ UnwrapServer(p) = u /\ UnwrapServer(u) = u
          /\ Launched(p) = u /\ Launched(u) = u
      BY <2>2, <2>3, WrapPlain
    <2>5. WrapServer(line) = line
      BY <1>3 DEF WrapServer
    <2>6. Kin(line) = {line, u, p}
      BY <2>1, <2>3, <2>5 DEF Kin
    <2> QED BY <2>1, <2>2, <2>3, <2>4, <2>5, <2>6
  <1> QED BY <1>1, <1>2, <1>3

-----------------------------------------------------------------------------
(* The servers of the client configuration.                                *)

\* Configurations whose lines are such as users write, over the words W.
UsualServers(W) ==
  \A servers \in UserServers :
    /\ servers = [name \in DOMAIN servers |-> servers[name]]
    /\ \A name \in DOMAIN servers : servers[name] \in Seq(W) /\ Usual(servers[name])

\* The documents each of whose lines was made of what the user typed there.
DerivedFrom(servers) ==
  {doc \in [DOMAIN servers -> UNION {Kin(servers[name]) : name \in DOMAIN servers}] :
     \A name \in DOMAIN servers : doc[name] \in Kin(servers[name])}
Derivations == UNION {DerivedFrom(servers) \X {servers} : servers \in UserServers}

LEMMA DerivedAre ==
  ASSUME NEW doc, NEW servers
  PROVE  <<doc, servers>> \in Derivations <=>
           /\ servers \in UserServers
           /\ doc = [name \in DOMAIN servers |-> doc[name]]
           /\ \A name \in DOMAIN servers : doc[name] \in Kin(servers[name])
  <1>1. <<doc, servers>> \in Derivations <=> servers \in UserServers /\ doc \in DerivedFrom(servers)
    BY DEF Derivations
  <1>2. doc \in DerivedFrom(servers) <=>
          /\ doc = [name \in DOMAIN servers |-> doc[name]]
          /\ \A name \in DOMAIN servers : doc[name] \in Kin(servers[name])
    BY DEF DerivedFrom
  <1> QED BY <1>1, <1>2

\* wrap and unwrap, in any number and order, interleaved, failed or killed, keep
\* what each line launches, for the lines a user usually writes and any words
\* among which are those that wrap writes.
THEOREM ServersSurvive ==
  ASSUME NEW W, OurWords \subseteq W, UsualServers(W)
  PROVE  Spec => []UsersServersKept
  <1>1. \A doc \in First("mcp") : <<doc, doc>> \in Derivations
    BY DerivedAre DEF First, UsualServers, Kin
  <1>2. ASSUME NEW doc, NEW from, <<doc, from>> \in Derivations, NEW edit \in Edits("mcp", doc)
        PROVE  <<edit, from>> \in Derivations
    <2>1. /\ from \in UserServers /\ DOMAIN doc = DOMAIN from
          /\ \A name \in DOMAIN from : doc[name] \in Kin(from[name])
      BY <1>2, DerivedAre
    <2>2. \A name \in DOMAIN from : /\ WrapServer(doc[name]) \in Kin(from[name])
                                    /\ UnwrapServer(doc[name]) \in Kin(from[name])
      BY <2>1, KinClosed DEF UsualServers
    <2>3. edit = WrapServers(doc) \/ edit = UnwrapServers(doc)
      BY <1>2 DEF Edits
    <2>4. /\ edit = [name \in DOMAIN from |-> edit[name]]
          /\ \A name \in DOMAIN from : edit[name] \in Kin(from[name])
      BY <2>1, <2>2, <2>3 DEF WrapServers, UnwrapServers
    <2> QED BY <2>1, <2>4, DerivedAre
  <1>3. KeepInv("mcp", Derivations) => UsersServersKept
    <2> SUFFICES ASSUME KeepInv("mcp", Derivations), "mcp" \notin raced,
                        NEW name \in DOMAIN typed["mcp"]
                 PROVE  Launched(file["mcp"][name]) = Launched(typed["mcp"][name])
      BY DEF UsersServersKept
    <2>1. typed["mcp"] \in UserServers /\ file["mcp"][name] \in Kin(typed["mcp"][name])
      BY DerivedAre DEF KeepInv
    <2>2. typed["mcp"][name] \in Seq(W) /\ Usual(typed["mcp"][name])
      BY <2>1 DEF UsualServers
    <2> QED BY <2>1, <2>2, KinClosed
  <1>4. "mcp" \in Files
    BY DEF Files
  <1>5. Init => KeepInv("mcp", Derivations)
    BY <1>1, <1>4, KeepInit
  <1>6. ConfigInv /\ KeepInv("mcp", Derivations) /\ [Next]_vars => KeepInv("mcp", Derivations)'
    <2>1. \A doc, from : <<doc, from>> \in Derivations =>
            \A edit \in Edits("mcp", doc) : <<edit, from>> \in Derivations
      BY <1>2
    <2> QED BY <1>1, <1>4, <2>1, KeepStep
  <1> QED BY <1>3, <1>5, <1>6, ConfigInvariant, PTL DEF Spec

-----------------------------------------------------------------------------
(* The user's groups in the list of hooks.                                 *)

\* A group appended to a list comes last among the user's, or is not among them.
LEMMA AppendOwn ==
  ASSUME NEW G, NEW s \in Seq(G), NEW g \in G
  PROVE  /\ Append(s, g) \in Seq(G)
         /\ IsChokepointHookGroup(g) =>
              /\ Numbered(Append(s, g)) = Numbered(s)
              /\ OwnPlaces(Append(s, g)) = OwnPlaces(s)
         /\ ~IsChokepointHookGroup(g) =>
              /\ Numbered(Append(s, g)) = Numbered(s) \cup {<<Cardinality(OwnPlaces(s)) + 1, g>>}
              /\ Cardinality(OwnPlaces(Append(s, g))) = Cardinality(OwnPlaces(s)) + 1
  <1>0. PICK t : t = Append(s, g)
    OBVIOUS
  <1>1. PICK n \in Nat : n = Len(s) /\ DOMAIN s = 1 .. n
    BY LenProperties
  <1>2. /\ t \in Seq(G) /\ Len(t) = n + 1 /\ t[n + 1] = g
        /\ \A i \in 1 .. n : t[i] = s[i]
    BY <1>0, <1>1, AppendProperties
  <1>3. DOMAIN t = 1 .. n + 1
    BY <1>2, LenProperties
  <1>4. OwnPlaces(s) = {i \in 1 .. n : ~IsChokepointHookGroup(s[i])}
    BY <1>1 DEF OwnPlaces, IsChokepointHookGroup
  <1>5. OwnPlaces(t) = {i \in 1 .. n + 1 : ~IsChokepointHookGroup(t[i])}
    BY <1>3 DEF OwnPlaces, IsChokepointHookGroup
  <1>6. IsFiniteSet(OwnPlaces(s)) /\ Cardinality(OwnPlaces(s)) \in Nat
    <2>1. IsFiniteSet(1 .. n)
      BY FS_Interval
    <2>2. IsFiniteSet(OwnPlaces(s))
      BY <1>4, <2>1, FS_Subset
    <2> QED BY <2>2, FS_CardinalityType
  <1>7. OwnPlaces(t) = IF IsChokepointHookGroup(g) THEN OwnPlaces(s) ELSE OwnPlaces(s) \cup {n + 1}
    BY <1>2, <1>4, <1>5
  <1>8. n + 1 \notin OwnPlaces(s)
    BY <1>4
  <1> DEFINE Before(u, i) == {j \in OwnPlaces(u) : j <= i}
  <1>9. \A i \in OwnPlaces(s) : Before(t, i) = Before(s, i) /\ t[i] = s[i]
    <2>1. \A i \in OwnPlaces(s) : i \in 1 .. n /\ ~(n + 1 <= i)
      BY <1>4
    <2> QED BY <1>2, <1>7, <2>1
  <1>10. \A u : Numbered(u) = {<<Cardinality(Before(u, i)), u[i]>> : i \in OwnPlaces(u)}
    BY DEF Numbered
  <1>11. CASE IsChokepointHookGroup(g)
    <2>1. OwnPlaces(t) = OwnPlaces(s)
      BY <1>7, <1>11
    <2>2. Numbered(t) = Numbered(s)
      <3> HIDE DEF Before
      <3> QED BY <1>9, <1>10, <2>1
    <2> QED BY <1>0, <1>2, <1>11, <2>1, <2>2
  <1>12. CASE ~IsChokepointHookGroup(g)
    <2>1. OwnPlaces(t) = OwnPlaces(s) \cup {n + 1}
      BY <1>7, <1>12
    <2>2. Cardinality(OwnPlaces(t)) = Cardinality(OwnPlaces(s)) + 1
      BY <1>6, <1>8, <2>1, FS_AddElement
    <2>3. Before(t, n + 1) = OwnPlaces(t)
      <3>1. \A i \in OwnPlaces(t) : i <= n + 1
        BY <1>5
      <3> QED BY <3>1
    <2>4. Numbered(t) = Numbered(s) \cup {<<Cardinality(OwnPlaces(s)) + 1, g>>}
      <3> HIDE DEF Before
      <3>1. ASSUME NEW i \in OwnPlaces(s)
            PROVE  <<Cardinality(Before(t, i)), t[i]>> = <<Cardinality(Before(s, i)), s[i]>>
        BY <1>9
      <3>2. <<Cardinality(Before(t, n + 1)), t[n + 1]>> = <<Cardinality(OwnPlaces(s)) + 1, g>>
        BY <1>2, <2>2, <2>3
      <3> DEFINE N(u, i) == <<Cardinality(Before(u, i)), u[i]>>
      <3>3. \A i \in OwnPlaces(s) : N(t, i) = N(s, i)
        BY <3>1
      <3>4. N(t, n + 1) = <<Cardinality(OwnPlaces(s)) + 1, g>>
        BY <3>2
      <3>5. \A u : Numbered(u) = {N(u, i) : i \in OwnPlaces(u)}
        BY <1>10
      <3> HIDE DEF N
      <3> QED BY <2>1, <3>3, <3>4, <3>5
    <2> QED BY <1>0, <1>2, <1>12, <2>2, <2>4
  <1> QED BY <1>11, <1>12

\* withoutChokepointHooks looks at one group after the other.
LEMMA KeepRuns ==
  ASSUME NEW G, NEW pre \in Seq(G)
  PROVE  \E run : /\ run[0] = <<>>
                  /\ \A k \in 1 .. Len(pre) : run[k] = Keep(run[k - 1], pre[k])
                  /\ WithoutChokepointHooks(pre) = run[Len(pre)]
  <1>1. PICK n \in Nat : n = Len(pre) /\ DOMAIN pre = 1 .. n
    BY LenProperties
  <1>2. PICK step : step = [i \in 1 .. n |-> [x \in Seq(G) |-> Keep(x, pre[i])]]
    OBVIOUS
  <1>3. step \in [1 .. n -> [Seq(G) -> Seq(G)]]
    <2>1. \A i \in 1 .. n : [x \in Seq(G) |-> Keep(x, pre[i])] \in [Seq(G) -> Seq(G)]
      <3>1. \A i \in 1 .. n : pre[i] \in G
        BY <1>1, ElementOfSeq
      <3>2. \A g \in G, x \in Seq(G) : Keep(x, g) \in Seq(G)
        BY AppendProperties DEF Keep
      <3> QED BY <3>1, <3>2
    <2> QED BY <1>2, <2>1
  <1>4. \A i \in 1 .. n, x \in Seq(G) : step[i][x] = Keep(x, pre[i])
    BY <1>2
  <1>5. <<>> \in Seq(G)
    BY EmptySeq
  <1>6. PICK it \in [SUBSET (1 .. n) -> Seq(G)] : IsFoldOf(n, <<>>, step, it)
    BY <1>3, <1>5, FoldExists
  <1> DEFINE IsFold(iter) ==
               iter = [s \in SUBSET (1 .. n) |->
                         IF s = {} THEN <<>> ELSE Keep(iter[s \ {Max(s)}], pre[Max(s)])]
  <1>7. \A s \in SUBSET (1 .. n) : s # {} => Max(s) \in 1 .. n /\ s \ {Max(s)} \in SUBSET (1 .. n)
    <2> SUFFICES ASSUME NEW s \in SUBSET (1 .. n), s # {} PROVE Max(s) \in 1 .. n
      OBVIOUS
    <2>1. s \in SUBSET (0 .. n)
      OBVIOUS
    <2> QED BY <2>1, MaxIs
  <1>8. IsFold(it)
    <2>1. \A s \in SUBSET (1 .. n) : s # {} => it[s] = Keep(it[s \ {Max(s)}], pre[Max(s)])
      BY <1>4, <1>6, <1>7 DEF IsFoldOf
    <2>2. it[{}] = <<>>
      BY <1>6 DEF IsFoldOf
    <2>3. it = [s \in SUBSET (1 .. n) |-> it[s]]
      BY <1>6
    <2> QED BY <2>1, <2>2, <2>3
  <1>9. WithoutChokepointHooks(pre) = (CHOOSE iter : IsFold(iter))[1 .. n]
    BY <1>1, Zenon DEF WithoutChokepointHooks, FoldLeft, MapThenFoldSet
  <1>10. PICK iter : IsFold(iter) /\ WithoutChokepointHooks(pre) = iter[1 .. n]
    <2> HIDE DEF IsFold
    <2> QED BY <1>8, <1>9, Zenon
  <1>11. PICK run : run = [k \in 0 .. n |-> iter[1 .. k]]
    OBVIOUS
  <1>12. run[0] = <<>>
    BY <1>10, <1>11
  <1>13. \A k \in 1 .. n : run[k] = Keep(run[k - 1], pre[k])
    <2> SUFFICES ASSUME NEW k \in 1 .. n PROVE run[k] = Keep(run[k - 1], pre[k])
      OBVIOUS
    <2>1. k \in 0 .. n /\ k - 1 \in 0 .. n
      OBVIOUS
    <2>2. iter[1 .. k] = Keep(iter[1 .. k - 1], pre[k])
      <3>1. PICK x \in SUBSET (1 .. n) :
                   x = 1 .. k /\ x # {} /\ Max(x) = k /\ x \ {k} = 1 .. k - 1
        BY StageOf
      <3>2. iter[x] = Keep(iter[x \ {Max(x)}], pre[Max(x)])
        BY <1>10, <3>1
      <3> QED BY <3>1, <3>2, Zenon
    <2> QED BY <1>11, <2>1, <2>2
  <1>14. WithoutChokepointHooks(pre) = run[n]
    <2>1. n \in 0 .. n
      OBVIOUS
    <2> HIDE DEF IsFold
    <2> QED BY <1>10, <1>11, <2>1
  <1> QED BY <1>1, <1>12, <1>13, <1>14, Zenon

\* Of the user's groups withoutChokepointHooks loses none and changes no order.
LEMMA WithoutKeeps ==
  ASSUME NEW G, NEW pre \in Seq(G)
  PROVE  /\ WithoutChokepointHooks(pre) \in Seq(G)
         /\ Numbered(WithoutChokepointHooks(pre)) = Numbered(pre)
  <1>1. PICK n \in Nat : n = Len(pre)
    BY LenProperties
  <1>2. PICK run : /\ run[0] = <<>>
                   /\ \A k \in 1 .. n : run[k] = Keep(run[k - 1], pre[k])
                   /\ WithoutChokepointHooks(pre) = run[n]
    BY <1>1, KeepRuns
  <1> DEFINE Same(k) == /\ run[k] \in Seq(G) /\ SubSeq(pre, 1, k) \in Seq(G)
                        /\ Numbered(run[k]) = Numbered(SubSeq(pre, 1, k))
                        /\ Cardinality(OwnPlaces(run[k])) = Cardinality(OwnPlaces(SubSeq(pre, 1, k)))
             Good == {k \in 0 .. n : Same(k)}
  <1>3. 0 \in Good
    <2>1. SubSeq(pre, 1, 0) = <<>> /\ <<>> \in Seq(G)
      BY SubSeqEmpty, EmptySeq
    <2>2. Same(0)
      BY <1>2, <2>1
    <2> HIDE DEF Same
    <2> QED BY <2>2
  <1>4. ASSUME NEW k \in 0 .. n, Same(k), k # n PROVE Same(k + 1)
    <2>1. k + 1 \in 1 .. n /\ (k + 1) - 1 = k
      BY <1>4
    <2>2. PICK g \in G : g = pre[k + 1]
      BY <1>1, <2>1, ElementOfSeq
    <2>3. run[k + 1] = Keep(run[k], g)
      BY <1>2, <2>1, <2>2
    <2>4. PICK s \in Seq(G) : s = SubSeq(pre, 1, k)
      BY <1>4
    <2>5. PICK r \in Seq(G) : r = run[k]
      BY <1>4
    <2>6. SubSeq(pre, 1, k + 1) = Append(s, g)
      <3>1. SubSeq(pre, 1, k + 1) = SubSeq(pre, 1, (k + 1) - 1) \o <<pre[k + 1]>>
        BY <1>1, <2>1, SubSeqRecursiveSecond
      <3>2. Append(s, g) = s \o <<g>>
        BY AppendIsConcat
      <3> QED BY <2>1, <2>2, <2>4, <3>1, <3>2
    <2>7. Numbered(r) = Numbered(s) /\ Cardinality(OwnPlaces(r)) = Cardinality(OwnPlaces(s))
      BY <1>4, <2>4, <2>5
    <2>8. PICK t : t = Append(s, g)
      OBVIOUS
    <2>9. /\ t \in Seq(G)
          /\ IsChokepointHookGroup(g) => Numbered(t) = Numbered(s) /\ OwnPlaces(t) = OwnPlaces(s)
          /\ ~IsChokepointHookGroup(g) =>
               /\ Numbered(t) = Numbered(s) \cup {<<Cardinality(OwnPlaces(s)) + 1, g>>}
               /\ Cardinality(OwnPlaces(t)) = Cardinality(OwnPlaces(s)) + 1
      BY <2>8, AppendOwn
    <2>10. PICK q : q = Keep(r, g)
      OBVIOUS
    <2>11. /\ q \in Seq(G) /\ Numbered(q) = Numbered(t)
           /\ Cardinality(OwnPlaces(q)) = Cardinality(OwnPlaces(t))
      <3>1. CASE IsChokepointHookGroup(g)
        <4>1. q = r
          BY <2>10, <3>1 DEF Keep
        <4> QED BY <2>7, <2>9, <3>1, <4>1
      <3>2. CASE ~IsChokepointHookGroup(g)
        <4>1. q = Append(r, g)
          BY <2>10, <3>2 DEF Keep
        <4>2. /\ q \in Seq(G)
              /\ Numbered(q) = Numbered(r) \cup {<<Cardinality(OwnPlaces(r)) + 1, g>>}
              /\ Cardinality(OwnPlaces(q)) = Cardinality(OwnPlaces(r)) + 1
          BY <3>2, <4>1, AppendOwn
        <4> QED BY <2>7, <2>9, <3>2, <4>2
      <3> QED BY <3>1, <3>2
    <2> QED BY <2>3, <2>5, <2>6, <2>8, <2>9, <2>10, <2>11, Zenon
  <1>5. Same(n)
    <2> HIDE DEF Same
    <2>1. \A k \in 0 .. n : k # n => k + 1 \in 0 .. n
      OBVIOUS
    <2>2. \A k \in 0 .. n : k \in Good /\ k # n => k + 1 \in Good
      BY <1>4, <2>1
    <2>3. n \in 0 .. n
      OBVIOUS
    <2>4. n \in Good
      <3> HIDE DEF Good
      <3> QED BY <1>3, <2>2, <2>3, UpTo
    <2> QED BY <2>4
  <1>6. SubSeq(pre, 1, n) = pre
    BY <1>1, SubSeqFull
  <1> QED BY <1>2, <1>5, <1>6, Zenon

\* Lists of groups, to which the groups that install writes belong.
UsualHooks(G) ==
  /\ UserHooks \subseteq Seq(G) /\ Missing \notin Seq(G)
  /\ <<HookChecksAll>> \in G /\ <<HookSkipsMCP>> \in G

\* The documents with the user's groups of another, in their order.
HookDocs(G) == Seq(G) \cup {Missing}
SameGroups(G) ==
  {pair \in HookDocs(G) \X HookDocs(G) : UsersGroups(pair[1]) = UsersGroups(pair[2])}

LEMMA InstallKeeps ==
  ASSUME NEW G, UsualHooks(G), NEW pre \in Seq(G), NEW command \in {HookChecksAll, HookSkipsMCP}
  PROVE  InstallHook(pre, command) \in Seq(G) /\ Numbered(InstallHook(pre, command)) = Numbered(pre)
  <1>1. PICK g \in G : g = <<command>>
    BY DEF UsualHooks
  <1>2. IsChokepointHookGroup(g)
    <2>1. 1 \in DOMAIN g /\ g[1] = command
      BY <1>1
    <2> QED BY <2>1 DEF IsChokepointHookGroup, IsHookCommand
  <1>3. PICK kept \in Seq(G) : kept = WithoutChokepointHooks(pre) /\ Numbered(kept) = Numbered(pre)
    BY WithoutKeeps
  <1>4. PICK t : t = Append(kept, g)
    OBVIOUS
  <1>5. t \in Seq(G) /\ Numbered(t) = Numbered(pre)
    BY <1>2, <1>3, <1>4, AppendOwn
  <1>6. InstallHook(pre, command) = pre \/ InstallHook(pre, command) = t
    BY <1>1, <1>3, <1>4 DEF InstallHook
  <1> QED BY <1>5, <1>6

\* hook install and hook uninstall, in any number and order, interleaved, failed
\* or killed, keep the groups that are all the user's, in their order.
THEOREM HooksSurvive ==
  ASSUME NEW G, UsualHooks(G)
  PROVE  Spec => []UsersHooksKept
  <1>1. \A doc \in First("settings") : <<doc, doc>> \in SameGroups(G)
    BY DEF First, SameGroups, HookDocs, UsualHooks
  <1>2. \A doc, from : <<doc, from>> \in SameGroups(G) =>
          \A edit \in Edits("settings", doc) : <<edit, from>> \in SameGroups(G)
    <2> SUFFICES ASSUME NEW doc, NEW from, <<doc, from>> \in SameGroups(G),
                        NEW edit \in Edits("settings", doc)
                 PROVE  <<edit, from>> \in SameGroups(G)
      OBVIOUS
    <2>1. doc \in HookDocs(G) /\ from \in HookDocs(G) /\ UsersGroups(doc) = UsersGroups(from)
      BY DEF SameGroups
    <2>2. PICK pre : pre = Groups(doc)
      OBVIOUS
    <2>3. pre \in Seq(G) /\ UsersGroups(doc) = Numbered(pre)
      BY <2>1, <2>2, EmptySeq DEF HookDocs, Groups, UsersGroups
    <2>4. edit \in {InstallHook(pre, HookChecksAll), InstallHook(pre, HookSkipsMCP),
                    WithoutChokepointHooks(pre)}
      BY <2>2 DEF Edits, Groups
    <2>5. edit \in Seq(G) /\ Numbered(edit) = Numbered(pre)
      BY <2>3, <2>4, InstallKeeps, WithoutKeeps
    <2>6. UsersGroups(edit) = Numbered(edit)
      BY <2>5 DEF UsualHooks, UsersGroups, Groups
    <2> QED BY <2>1, <2>3, <2>5, <2>6 DEF SameGroups, HookDocs
  <1>3. KeepInv("settings", SameGroups(G)) => UsersHooksKept
    BY DEF KeepInv, SameGroups, UsersHooksKept
  <1>4. "settings" \in Files
    BY DEF Files
  <1>5. Init => KeepInv("settings", SameGroups(G))
    BY <1>1, <1>4, KeepInit
  <1>6. ConfigInv /\ KeepInv("settings", SameGroups(G)) /\ [Next]_vars
          => KeepInv("settings", SameGroups(G))'
    BY <1>1, <1>2, <1>4, KeepStep
  <1> QED BY <1>3, <1>5, <1>6, ConfigInvariant, PTL DEF Spec

-----------------------------------------------------------------------------
(* chokepoint's own groups.                                                *)

\* A group at the end of a list.
LEMMA AppendHook ==
  ASSUME NEW G, NEW s \in Seq(G), NEW g \in G, HookGroups(s) = {}
  PROVE  /\ Append(s, g) \in Seq(G) /\ HookGroups(Append(s, g)) \subseteq {Len(s) + 1}
         /\ ~IsChokepointHookGroup(g) => HookGroups(Append(s, g)) = {}
  <1>1. PICK n \in Nat : n = Len(s) /\ DOMAIN s = 1 .. n
    BY LenProperties
  <1>2. PICK t : t = Append(s, g)
    OBVIOUS
  <1>3. /\ t \in Seq(G) /\ Len(t) = n + 1 /\ t[n + 1] = g
        /\ \A i \in 1 .. n : t[i] = s[i]
    BY <1>1, <1>2, AppendProperties
  <1>4. DOMAIN t = 1 .. n + 1
    BY <1>3, LenProperties
  <1>5. \A i \in 1 .. n : i \in DOMAIN s /\ ~IsChokepointHookGroup(s[i])
    BY <1>1 DEF HookGroups
  <1>6. \A i \in HookGroups(t) : i = n + 1 /\ IsChokepointHookGroup(g)
    BY <1>3, <1>4, <1>5 DEF HookGroups
  <1> QED BY <1>1, <1>2, <1>3, <1>6

\* withoutChokepointHooks leaves none.
LEMMA WithoutDrops ==
  ASSUME NEW G, NEW pre \in Seq(G)
  PROVE  HookGroups(WithoutChokepointHooks(pre)) = {}
  <1>1. PICK n \in Nat : n = Len(pre)
    BY LenProperties
  <1>2. PICK run : /\ run[0] = <<>>
                   /\ \A k \in 1 .. n : run[k] = Keep(run[k - 1], pre[k])
                   /\ WithoutChokepointHooks(pre) = run[n]
    BY <1>1, KeepRuns
  <1> DEFINE None(k) == run[k] \in Seq(G) /\ HookGroups(run[k]) = {}
             Good == {k \in 0 .. n : None(k)}
  <1>3. 0 \in Good
    <2>1. run[0] \in Seq(G) /\ DOMAIN run[0] = {}
      BY <1>2, EmptySeq
    <2>2. None(0)
      BY <2>1 DEF HookGroups
    <2> HIDE DEF None
    <2> QED BY <2>2
  <1>4. ASSUME NEW k \in 0 .. n, None(k), k # n PROVE None(k + 1)
    <2>1. k + 1 \in 1 .. n /\ (k + 1) - 1 = k
      BY <1>4
    <2>2. PICK g \in G : g = pre[k + 1]
      BY <1>1, <2>1, ElementOfSeq
    <2>3. PICK r \in Seq(G) : r = run[k] /\ HookGroups(r) = {}
      BY <1>4
    <2>4. run[k + 1] = Keep(r, g)
      BY <1>2, <2>1, <2>2, <2>3
    <2>5. CASE IsChokepointHookGroup(g)
      BY <2>3, <2>4, <2>5 DEF Keep
    <2>6. CASE ~IsChokepointHookGroup(g)
      <3>1. run[k + 1] = Append(r, g)
        BY <2>4, <2>6 DEF Keep
      <3>2. Append(r, g) \in Seq(G) /\ HookGroups(Append(r, g)) = {}
        BY <2>3, <2>6, AppendHook
      <3> QED BY <3>1, <3>2
    <2> QED BY <2>5, <2>6
  <1>5. None(n)
    <2> HIDE DEF None
    <2>1. \A k \in 0 .. n : k # n => k + 1 \in 0 .. n
      OBVIOUS
    <2>2. \A k \in 0 .. n : k \in Good /\ k # n => k + 1 \in Good
      BY <1>4, <2>1
    <2>3. n \in 0 .. n
      OBVIOUS
    <2>4. n \in Good
      <3> HIDE DEF Good
      <3> QED BY <1>3, <2>2, <2>3, UpTo
    <2> QED BY <2>4
  <1> QED BY <1>2, <1>5

\* install leaves one, when it changes anything.
LEMMA InstallLeavesOne ==
  ASSUME NEW G, UsualHooks(G), NEW pre \in Seq(G), NEW command \in {HookChecksAll, HookSkipsMCP}
  PROVE  InstallHook(pre, command) = pre \/ OneHook(InstallHook(pre, command))
  <1>1. PICK g \in G : g = <<command>>
    BY DEF UsualHooks
  <1>2. PICK kept \in Seq(G) : kept = WithoutChokepointHooks(pre) /\ HookGroups(kept) = {}
    BY WithoutKeeps, WithoutDrops
  <1>3. OneHook(Append(kept, g))
    <2>1. HookGroups(Append(kept, g)) \subseteq {Len(kept) + 1}
      BY <1>2, AppendHook
    <2> QED BY <2>1 DEF OneHook
  <1>4. InstallHook(pre, command) = pre \/ InstallHook(pre, command) = Append(kept, g)
    BY <1>1, <1>2 DEF InstallHook
  <1> QED BY <1>3, <1>4

\* The list is the user's or has one group of chokepoint's, and so has every
\* list that a command is about to write.
OnceInv(G) ==
  /\ DOMAIN typed = Files /\ file["settings"] \in HookDocs(G)
  /\ CheckedOnce
  /\ \A c \in Cmds : cmd[c].pc \in Editing /\ FileOf(cmd[c].kind) = "settings" =>
       cmd[c].out \in Seq(G) /\ OneHook(cmd[c].out)

\* What a command that has read the list is going to write.
LEMMA OutOnce ==
  ASSUME NEW G, UsualHooks(G), ConfigInv, OnceInv(G), NEW c \in Cmds, ReadAndEdit(c),
         cmd'[c] # Idle, FileOf(cmd[c].kind) = "settings"
  PROVE  cmd'[c].out \in Seq(G) /\ OneHook(cmd'[c].out)
  <1>1. PICK doc \in HookDocs(G) : doc = file["settings"]
    BY DEF OnceInv
  <1>2. PICK command : command = cmd[c]
    OBVIOUS
  <1>3. /\ cmd'[c].out = EditOf(command, doc)
        /\ ~(doc = Missing /\ command.kind # "install")
        /\ doc # Missing => EditOf(command, doc) # doc
        /\ command.kind \in Commands /\ command.hook \in {HookChecksAll, HookSkipsMCP}
    BY <1>1, <1>2 DEF ReadAndEdit, ConfigInv, CmdType, Fields, Editing
  <1>4. command.kind \in {"install", "uninstall"}
    BY <1>2, <1>3 DEF Commands, FileOf
  <1>5. CASE command.kind = "install"
    <2>1. PICK pre \in Seq(G) : pre = IF doc = Missing THEN <<>> ELSE doc
      BY <1>1, EmptySeq DEF HookDocs
    <2>2. EditOf(command, doc) = InstallHook(pre, command.hook)
      BY <1>5, <2>1 DEF EditOf
    <2>3. InstallHook(pre, command.hook) \in Seq(G)
      BY <1>3, InstallKeeps
    <2>4. OneHook(InstallHook(pre, command.hook))
      <3>1. CASE doc = Missing
        <4>1. pre = <<>> /\ DOMAIN pre = {}
          BY <2>1, <3>1
        <4>2. OneHook(pre)
          BY <4>1 DEF OneHook, HookGroups
        <4> QED BY <1>3, <4>2, InstallLeavesOne
      <3>2. CASE doc # Missing
        <4>1. InstallHook(pre, command.hook) # pre
          BY <1>3, <2>1, <2>2, <3>2
        <4> QED BY <1>3, <4>1, InstallLeavesOne
      <3> QED BY <3>1, <3>2
    <2> QED BY <1>3, <2>2, <2>3, <2>4
  <1>6. CASE command.kind = "uninstall"
    <2>1. doc \in Seq(G) /\ EditOf(command, doc) = WithoutChokepointHooks(doc)
      BY <1>1, <1>3, <1>6 DEF EditOf, HookDocs
    <2>2. WithoutChokepointHooks(doc) \in Seq(G) /\ HookGroups(WithoutChokepointHooks(doc)) = {}
      BY <2>1, WithoutKeeps, WithoutDrops
    <2> QED BY <1>3, <2>1, <2>2 DEF OneHook
  <1> QED BY <1>4, <1>5, <1>6

LEMMA OnceCommand ==
  ASSUME NEW G, UsualHooks(G), ConfigInv, OnceInv(G), NEW c \in Cmds, Command(c)
  PROVE  OnceInv(G)'
  <1>1. ASSUME UNCHANGED <<file, typed, raced>>,
               \A d \in Cmds : \/ cmd'[d] = cmd[d]
                              \/ cmd'[d].pc \notin Editing
                              \/ /\ cmd[d].pc \in Editing /\ cmd'[d].kind = cmd[d].kind
                                 /\ cmd'[d].original = cmd[d].original
                                 /\ cmd'[d].out = cmd[d].out
        PROVE  OnceInv(G)'
    BY <1>1 DEF OnceInv, CheckedOnce
  <1>2. CASE ReadAndEdit(c)
    <2>1. /\ UNCHANGED <<file, typed, raced>>
          /\ \A d \in Cmds : d # c => cmd'[d] = cmd[d]
      BY <1>2 DEF ReadAndEdit, diskVars, histVars, ConfigInv, CmdType
    <2>2. CASE cmd'[c] = Idle
      BY <1>1, <2>1, <2>2 DEF Idle, Editing
    <2>3. CASE cmd'[c] # Idle
      <3>1. cmd'[c].kind = cmd[c].kind
        BY <1>2, <2>3 DEF ReadAndEdit, ConfigInv, CmdType, Fields
      <3>2. FileOf(cmd[c].kind) = "settings" => cmd'[c].out \in Seq(G) /\ OneHook(cmd'[c].out)
        BY <1>2, <2>3, OutOnce
      <3> QED BY <2>1, <3>1, <3>2 DEF OnceInv, CheckedOnce
    <2> QED BY <2>2, <2>3
  <1>3. CASE Rename(c)
    <2>1. /\ UNCHANGED typed /\ cmd[c].pc \in Editing /\ cmd'[c] = Idle
          /\ \A d \in Cmds : d # c => cmd'[d] = cmd[d]
          /\ file'["settings"] = IF FileOf(cmd[c].kind) = "settings"
                                   THEN cmd[c].out ELSE file["settings"]
      BY <1>3 DEF Rename, histVars, Editing, ConfigInv, CmdType, DiskType, Files
    <2>2. CASE FileOf(cmd[c].kind) = "settings"
      <3>1. file'["settings"] \in Seq(G) /\ OneHook(file'["settings"])
        BY <2>1, <2>2 DEF OnceInv
      <3>2. Groups(file'["settings"]) = file'["settings"]
        BY <3>1 DEF Groups, UsualHooks
      <3> QED BY <2>1, <3>1, <3>2 DEF OnceInv, CheckedOnce, HookDocs, Idle, Editing
    <2>3. CASE FileOf(cmd[c].kind) # "settings"
      BY <2>1, <2>3 DEF OnceInv, CheckedOnce, Idle, Editing
    <2> QED BY <2>2, <2>3
  <1> QED BY <1>1, <1>2, <1>3, CommandFrame

\* hook install and hook uninstall, in any number and order, with any options,
\* interleaved, failed, killed or raced by the user, never leave two groups of
\* chokepoint's in a list that is not as the user wrote it.
THEOREM HooksDoNotPileUp ==
  ASSUME NEW G, UsualHooks(G)
  PROVE  Spec => []CheckedOnce
  <1>1. Init => OnceInv(G)
    <2> SUFFICES ASSUME Init PROVE OnceInv(G)
      OBVIOUS
    <2>1. typed = file /\ DOMAIN file = Files /\ file["settings"] \in First("settings")
      BY DEF Init, First, Files
    <2>2. \A c \in Cmds : cmd[c].pc = "idle"
      BY DEF Init, Idle
    <2> QED BY <2>1, <2>2 DEF OnceInv, CheckedOnce, First, HookDocs, UsualHooks, Editing
  <1>2. ConfigInv /\ OnceInv(G) /\ [Next]_vars => OnceInv(G)'
    <2> SUFFICES ASSUME ConfigInv, OnceInv(G), [Next]_vars PROVE OnceInv(G)'
      OBVIOUS
    <2>1. ASSUME NEW f \in Files, UserWrites(f) PROVE OnceInv(G)'
      <3>1. PICK doc \in UserDocs(f) :
              file' = [file EXCEPT ![f] = doc] /\ typed' = [typed EXCEPT ![f] = doc]
        BY <2>1 DEF UserWrites
      <3>2. cmd' = cmd /\ DOMAIN typed' = Files /\ DOMAIN file = Files /\ DOMAIN typed = Files
        BY <2>1, <3>1 DEF UserWrites, OnceInv, ConfigInv, DiskType
      <3>3. CASE f = "settings"
        <4>1. file'["settings"] = doc /\ typed'["settings"] = doc /\ doc \in HookDocs(G)
          BY <3>1, <3>2, <3>3 DEF UserDocs, HookDocs, UsualHooks
        <4> QED BY <3>2, <4>1 DEF OnceInv, CheckedOnce
      <3>4. CASE f # "settings"
        <4>1. file'["settings"] = file["settings"] /\ typed'["settings"] = typed["settings"]
          BY <3>1, <3>2, <3>4 DEF Files
        <4> QED BY <3>2, <4>1 DEF OnceInv, CheckedOnce
      <3> QED BY <3>3, <3>4
    <2>2. CASE UNCHANGED vars
      BY <2>2 DEF vars, diskVars, histVars, OnceInv, CheckedOnce
    <2> QED BY <2>1, <2>2, OnceCommand DEF Next
  <1>3. OnceInv(G) => CheckedOnce
    BY DEF OnceInv
  <1> QED BY <1>1, <1>2, <1>3, ConfigInvariant, PTL DEF Spec
=============================================================================
