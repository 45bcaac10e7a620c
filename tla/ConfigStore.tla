----------------------------- MODULE ConfigStore -----------------------------
(***************************************************************************)
(* What editJSONFile promises of the files it edits, whatever crashes,     *)
(* fails or runs beside it: every version a file ever has is the user's,   *)
(* or a command's edit, as a whole, of one whole version that the file had *)
(* when the command read it.  There are no half-written files here, no     *)
(* backups and no temporary files.                                         *)
(***************************************************************************)
CONSTANTS
  Cmds,        \* processes that run commands
  Files,
  First(_),    \* the versions a file may start with
  UserDocs(_), \* the versions of it a user may write
  Edits(_, _)  \* what any of the commands may make of a version of it

VARIABLES
  file,  \* the content of each file
  open   \* per process, the edit it has in hand if any: of which file, and
         \* the version of it that it read

storeVars == <<file, open>>

StoreInit ==
  /\ DOMAIN file = Files /\ \A f \in Files : file[f] \in First(f)
  /\ open = [c \in Cmds |-> {}]

UserWrites(f) ==
  /\ \E doc \in UserDocs(f) : file' = [file EXCEPT ![f] = doc]
  /\ UNCHANGED open

Begin(c, f) ==
  /\ open[c] = {}
  /\ open' = [open EXCEPT ![c] = {[file |-> f, read |-> file[f]]}]
  /\ UNCHANGED file

Commit(c) ==
  /\ \E edit \in open[c] : \E doc \in Edits(edit.file, edit.read) :
       file' = [file EXCEPT ![edit.file] = doc]
  /\ open' = [open EXCEPT ![c] = {}]

Abandon(c) ==
  /\ open[c] # {}
  /\ open' = [open EXCEPT ![c] = {}] /\ UNCHANGED file

StoreNext ==
  \/ \E f \in Files : UserWrites(f)
  \/ \E c \in Cmds : Commit(c) \/ Abandon(c) \/ \E f \in Files : Begin(c, f)

StoreSpec == StoreInit /\ [][StoreNext]_storeVars
=============================================================================
