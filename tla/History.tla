------------------------------ MODULE History ------------------------------
(***************************************************************************)
(* What detect.Session keeps, whatever buffer it keeps it in: the longest  *)
(* run of the newest calls that fits MaxCalls and starts inside the window *)
(* of the last one; and whether anything was ever let go.                  *)
(***************************************************************************)
EXTENDS Integers, Sequences, FiniteSetsExt

CONSTANTS
  Observed,  \* the calls that can be observed: records with a field at
  MaxCalls

VARIABLES
  kept,     \* the retained calls, oldest first
  lost,     \* a call has been let go
  window    \* detect.Config.Window, 0 for none

vars == <<kept, lost, window>>

Init == kept = <<>> /\ lost = FALSE

Newest(s, k) == SubSeq(s, k + 1, Len(s))

\* How many of the oldest calls of s do not fit.
Excess(s) ==
  Min({k \in 0 .. Len(s) - 1 :
         /\ Len(s) - k <= MaxCalls
         /\ window > 0 => s[k + 1].at >= s[Len(s)].at - window})

Observe(c) ==
  LET all == Append(kept, c)
  IN  /\ kept' = Newest(all, Excess(all))
      /\ lost' = (lost \/ Excess(all) > 0)
      /\ UNCHANGED window

Next == \E c \in Observed : Observe(c)
Spec == Init /\ [][Next]_vars
=============================================================================
