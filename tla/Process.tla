------------------------------ MODULE Process ------------------------------
(***************************************************************************)
(* The chokepoint process around one session: the tail of main.run, which  *)
(* waits for Session.Run, closes the server's stdin, waits for the server  *)
(* process and derives an exit status; the signals that cancel its         *)
(* context; and the two things the runtime does on its own, killing the    *)
(* server once that context is done (exec.CommandContext) and dying of     *)
(* SIGPIPE when standard output is broken.                                 *)
(***************************************************************************)
EXTENDS ProxySession

VARIABLES
  main,        \* where main.run is
  signalled,   \* main's context is done: SIGINT or SIGTERM came
  serverCode,  \* how the server process ended
  status       \* what chokepoint exits with

mainVars == <<main, signalled, serverCode, status>>
allVars  == <<vars, mainVars>>

ProcInit ==
  /\ Init
  /\ main = "running" /\ signalled = FALSE
  /\ serverCode = "none" /\ status = "none"

Running == main \in {"running", "waiting"}

\* Cancelling main's context cancels the session's, which derives from it.
Signal ==
  /\ ~signalled /\ signalled' = TRUE
  /\ \/ ParentCancel
     \/ ctxDone /\ UNCHANGED vars
  /\ UNCHANGED <<main, serverCode, status>>

KillServer ==
  /\ signalled /\ ServerExit /\ serverCode' = "killed"
  /\ UNCHANGED <<main, signalled, status>>

ServerEnds ==
  /\ ServerExit /\ serverCode' \in {"success", "failure"}
  /\ UNCHANGED <<main, signalled, status>>

\* A server that takes the end of its input for the end of its work.
ServerEndsAtEof ==
  /\ ~serverInOpen /\ serverIn = <<>> /\ ServerEnds

\* A pump about to write to a client that no longer reads.
CBreaks == cpc = "reply" /\ clientGone
SBreaks == spc = "forward" /\ clientGone

\* The Go runtime raises SIGPIPE for a failed write to file descriptor 1.
DieOfSigpipe ==
  /\ CBreaks \/ SBreaks
  /\ main' = "killed" /\ serverInOpen' = FALSE
  /\ UNCHANGED <<serverIn, serverOut, serverAlive, todo, uncalled>>
  /\ UNCHANGED <<clientVars, waitVars, cVars, sVars, runVars, histVars>>
  /\ UNCHANGED <<signalled, serverCode, status>>

\* serverIn.Close after Run has returned.
MainClosesStdin ==
  /\ main = "running" /\ run = "returned"
  /\ main' = "waiting" /\ serverInOpen' = FALSE
  /\ UNCHANGED <<serverIn, serverOut, serverAlive, todo, uncalled>>
  /\ UNCHANGED <<clientVars, waitVars, cVars, sVars, runVars, histVars>>
  /\ UNCHANGED <<signalled, serverCode, status>>

\* cmd.Wait returns once the server has ended: Run's error first, then the
\* server's own failure unless this shutdown caused it.
MainExits ==
  /\ main = "waiting" /\ ~serverAlive /\ main' = "exited"
  /\ status' = CASE result = "error" -> "error"
                 [] result # "error" /\ ~signalled /\ serverCode = "failure" -> "failure"
                 [] OTHER -> "success"
  /\ UNCHANGED <<vars, signalled, serverCode>>

MainSteps == MainClosesStdin \/ MainExits

CPump == ClientPump /\ ~CBreaks /\ UNCHANGED mainVars
SPump == ServerPump /\ ~SBreaks /\ UNCHANGED mainVars

OtherSteps ==
  /\ \/ Client \/ ServerRecv
     \/ \E r \in Requests : ServerAnswer(r)
     \/ \E c \in Calls : ServerCall(c)
     \/ CClosed \/ RunSteps \/ Stop \/ DrainFires
  /\ UNCHANGED mainVars

Ended == ~Running /\ UNCHANGED allVars

ProcNext ==
  \/ /\ Running
     /\ \/ CPump \/ SPump \/ OtherSteps
        \/ Signal \/ KillServer \/ ServerEnds \/ DieOfSigpipe \/ MainSteps
  \/ Ended

ProcSpec == ProcInit /\ [][ProcNext]_allVars

\* The scheduler runs every goroutine that can run, and timers fire.  Of the
\* peers it is only asked that they read what is written to them: nothing
\* obliges the server to answer or to exit, or the client to send or to close,
\* and nothing interrupts a read blocked on os.Stdin (CClosed).
ProcFairSpec ==
  /\ ProcSpec
  /\ WF_allVars(Running /\ CPump) /\ WF_allVars(Running /\ SPump)
  /\ WF_allVars(Running /\ (RunSteps \/ Stop) /\ UNCHANGED mainVars)
  /\ WF_allVars(Running /\ DrainFires /\ UNCHANGED mainVars)
  /\ WF_allVars(Running /\ ClientRecv /\ UNCHANGED mainVars)
  /\ WF_allVars(Running /\ ServerRecv /\ UNCHANGED mainVars)
  /\ WF_allVars(Running /\ KillServer) /\ WF_allVars(Running /\ DieOfSigpipe)
  /\ WF_allVars(Running /\ MainSteps)

\* A server may be well behaved as well: it exits when its stdin ends.
PoliteServer == WF_allVars(Running /\ ServerEndsAtEof)

-----------------------------------------------------------------------------
\* An exit status of success hides no lost reply: if the client pump came to the
\* end of its input, every request that reached the server was answered to the
\* client, unless the wait for replies had expired.  (A client pump that fails
\* after Run has given up waiting for it is not heard of any more.)
SuccessLosesNoReply ==
  status = "success" /\ cpc = "done" /\ errs["client"] = "nil" /\ ~gaveUp
    => \A r \in forwarded : replies[r] = 1

\* A signal ends the process, whatever the server does, as long as the client
\* reads what is written to it or goes away.
SignalEndsProcess == signalled ~> ~Running

\* A server that exits takes the process with it: the agent sees its pipes
\* close instead of waiting on a dead server.
ServerExitEndsProcess == ~serverAlive ~> ~Running

\* An agent that closes its stream, or goes away, ends the process, if the server
\* exits when its stdin ends.
ClientCloseEndsProcess == PoliteServer => (~clientOpen ~> ~Running)

\* "A server that ignores its closed stdin would keep the session open forever,
\* so the wait for it to drain is bounded": an agent that closes its stream, or
\* goes away, ends the session, even if the server neither answers nor exits and
\* leaves its output open.
ClientCloseEndsRun == ~clientOpen ~> run = "returned" \/ ~Running

\* The same of the process: proxy.DefaultDrainGrace is "bounded, because a server
\* that ignores its closed stdin must not pin the process open forever".
StubbornServerDoesNotPin == ~clientOpen ~> ~Running
=============================================================================
