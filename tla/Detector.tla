----------------------------- MODULE Detector -----------------------------
(***************************************************************************)
(* detect.Session under the proxy's two pumps.  The client pump observes   *)
(* each call of the agent, then asks for the assessment and for the counts *)
(* in the rate window; the server pump observes each failed answer.  Both  *)
(* read the clock before they take the session's lock, and each of Observe,*)
(* Vector, Len and CountsInWindow holds it once.                           *)
(*                                                                         *)
(* A call is the time of its observation and the target it names.  The     *)
(* features and the score computed from the retained calls are left out,   *)
(* and so is startedAt, which only feeds them.                             *)
(***************************************************************************)
EXTENDS Ring, FiniteSetsExt

CONSTANTS
  Targets,      \* what calls act on
  NoTarget,     \* a call that names none
  Places,       \* targets that are places: the others are Unscoped
  Inside,       \* places in the declared working set
  Windows,      \* the values detect.Config.Window may have, 0 for none
  RateWindow,   \* the span rate rules count over
  MaxTime,      \* bound: the clock's last value
  MaxObserved   \* bound: observations in a session

ASSUME DetectorAssumption ==
  /\ NoTarget \notin Targets /\ Inside \subseteq Places /\ Places \subseteq Targets
  /\ Windows \subseteq Nat /\ RateWindow \in Nat \ {0}
  /\ MaxTime \in Nat /\ MaxObserved \in Nat

Observed == [at : 0 .. MaxTime, target : Targets \cup {NoTarget}]

VARIABLES
  ring,        \* Session.calls
  window,      \* Session.cfg.Window
  clock,       \* time.Now
  pc,          \* where each pump is
  inHand,      \* the call each pump has stamped
  assessment,  \* calls walked by Vector, calls reported by Len
  counts,      \* what CountsInWindow returned, and for which call
  log          \* history: every call observed, in the order of the lock

vars == <<ring, window, clock, pc, inHand, assessment, counts, log>>

Pumps == {"client", "server"}
NoCounts == [calls |-> 0, targets |-> 0, truncated |-> FALSE, now |-> 0, of |-> 0]

Init ==
  /\ ring = EmptyRing /\ window \in Windows /\ clock = 0
  /\ pc = [p \in Pumps |-> "idle"] /\ inHand = [p \in Pumps |-> Zero]
  /\ assessment = [walked |-> 0, calls |-> 0]
  /\ counts = NoCounts /\ log = <<>>

Tick ==
  /\ clock < MaxTime /\ clock' = clock + 1
  /\ UNCHANGED <<ring, window, pc, inHand, assessment, counts, log>>

Go(p, from, to) == pc[p] = from /\ pc' = [pc EXCEPT ![p] = to]

\* time.Now in inspectCall and in completeResponse.  An error names no target.
Stamp(p, target) ==
  /\ Len(log) + Cardinality({q \in Pumps : pc[q] = "observe"}) < MaxObserved
  /\ p = "server" => target = NoTarget
  /\ Go(p, "idle", "observe")
  /\ inHand' = [inHand EXCEPT ![p] = [at |-> clock, target |-> target]]
  /\ UNCHANGED <<ring, window, clock, assessment, counts, log>>

\* evictLocked: from the oldest on, as long as they are before the window of
\* the call just pushed.
Expired(r, now) ==
  IF window = 0 THEN 0
  ELSE Max({k \in 0 .. r.n : \A i \in 0 .. k - 1 : At(r, i).at < now - window})

Observe(p) ==
  LET c == inHand[p]
      pushed == Push(ring, c)
  IN  /\ Go(p, "observe", IF p = "client" THEN "vector" ELSE "idle")
      /\ ring' = DropOldest(pushed, Expired(pushed, c.at))
      /\ log' = Append(log, c)
      /\ UNCHANGED <<window, clock, inHand, assessment, counts>>

\* Assess takes the lock for the walk and again for the length.
Vector ==
  /\ Go("client", "vector", "len")
  /\ assessment' = [walked |-> Len(Retained(ring)), calls |-> 0]
  /\ UNCHANGED <<ring, window, clock, inHand, counts, log>>

Length ==
  /\ Go("client", "len", "count")
  /\ assessment' = [assessment EXCEPT !.calls = ring.n]
  /\ UNCHANGED <<ring, window, clock, inHand, counts, log>>

DistinctIn(calls) ==
  Cardinality({calls[i].target : i \in DOMAIN calls} \ {NoTarget})

\* Variant: a window that history does not reach back to is not reported.
CountUntruncated(kept, now) ==
  LET within == Max({k \in 0 .. Len(kept) :
                       \A i \in Len(kept) - k + 1 .. Len(kept) :
                         kept[i].at >= now - RateWindow})
  IN  [calls |-> within,
       targets |-> DistinctIn(SubSeq(kept, Len(kept) - within + 1, Len(kept))),
       truncated |-> FALSE, now |-> now, of |-> Len(log)]

\* The walk goes from the newest call to the first that is before the window.
Count(kept, now) ==
  LET within == Max({k \in 0 .. Len(kept) :
                       \A i \in Len(kept) - k + 1 .. Len(kept) :
                         kept[i].at >= now - RateWindow})
  IN  [calls |-> within,
       targets |-> DistinctIn(SubSeq(kept, Len(kept) - within + 1, Len(kept))),
       truncated |-> within = Len(kept) /\ ring.evicted,
       now |-> now, of |-> Len(log)]

CountsInWindow ==
  /\ Go("client", "count", "idle")
  /\ counts' = Count(Retained(ring), inHand["client"].at)
  /\ UNCHANGED <<ring, window, clock, inHand, assessment, log>>

-----------------------------------------------------------------------------
(* ResourceSummary and ScopeReport walk the two runs of the buffer.  Each  *)
(* target stands for a resource under a root of its own.                   *)

\* Variant: the second run's calls are numbered from its own start.
WalkRuns(r) ==
  {[index |-> i - 1, target |-> Front(r)[i].target] : i \in DOMAIN Front(r)}
  \cup {[index |-> i - 1, target |-> Back(r)[i].target] : i \in DOMAIN Back(r)}

\* The calls that name something, numbered across the wrap.
Walk(r) ==
  LET numbered == Front(r) \o Back(r)
  IN  {[index |-> i - 1, target |-> numbered[i].target] : i \in DOMAIN numbered}

Named(r) == {x \in Walk(r) : x.target # NoTarget}

First(calls) == IF calls = {} THEN -1 ELSE Min({x.index : x \in calls})

\* track: one group for each root, with the call that first reached it.
Groups(calls) ==
  [t \in {x.target : x \in calls} |->
     LET in == {x \in calls : x.target = t}
     IN  [calls |-> Cardinality(in), firstCall |-> First(in)]]

ResourceSummary(r) ==
  [calls |-> Cardinality(Named(r)),
   distinct |-> Cardinality({x.target : x \in Named(r)}), roots |-> Groups(Named(r))]

\* For a declared working set; without one the report is empty.
ScopeReport(r) ==
  LET placed  == {x \in Named(r) : x.target \in Places}
      outside == {x \in placed : x.target \notin Inside}
  IN  [calls |-> Cardinality(placed), outOfScope |-> Cardinality(outside),
       distinct |-> Cardinality({x.target : x \in outside}),
       first |-> First(outside), outside |-> Groups(outside)]

-----------------------------------------------------------------------------
Next ==
  \/ Tick
  \/ \E p \in Pumps : Observe(p) \/ \E t \in Targets \cup {NoTarget} : Stamp(p, t)
  \/ Vector \/ Length \/ CountsInWindow

Spec == Init /\ [][Next]_vars

-----------------------------------------------------------------------------
\* The buffer stays within the configured bound, however it grows and wraps.
TypeOK ==
  /\ ring.size \in 0 .. MaxCalls /\ ring.n \in 0 .. ring.size
  /\ ring.head \in 0 .. Greatest(0, ring.size - 1) /\ ring.evicted \in BOOLEAN
  /\ DOMAIN ring.buf = 0 .. ring.size - 1
  /\ window \in Windows /\ clock \in 0 .. MaxTime
  /\ pc \in [Pumps -> {"idle", "observe", "vector", "len", "count"}]
  /\ inHand \in [Pumps -> Observed \cup {Zero}]
  /\ log \in Seq(Observed)

\* The session keeps what History promises: growth, wrapping and the two kinds
\* of eviction together lose no call they should not and reorder none, whatever
\* the order in which the two pumps get the lock.
Promise == INSTANCE History WITH kept <- Retained(ring), lost <- ring.evicted

ImplementsHistory == Promise!Spec

\* An evicted call's target is not reachable from the buffer any more, or the
\* process would hold on to every path it has ever seen.
EvictedSlotsCleared ==
  \A s \in DOMAIN ring.buf : s \notin Live(ring) => ring.buf[s] = Zero

\* The calls of the session, by number, that were in the window when they were
\* counted, and how many things they name.
InWindow == {i \in 1 .. counts.of : log[i].at >= counts.now - RateWindow}
DistinctInWindow == Cardinality({log[i].target : i \in InWindow} \ {NoTarget})

InOrder == \A i, j \in DOMAIN log : i < j => log[i].at <= log[j].at

\* A rate rule never sees more than the window holds, and it sees all of it
\* unless it is told that the counts are a floor, as long as the two pumps take
\* the lock in the order of their clock readings.
CountsAreHonest ==
  /\ counts.calls <= Cardinality(InWindow) /\ counts.targets <= DistinctInWindow
  /\ InOrder /\ ~counts.truncated =>
       counts.calls = Cardinality(InWindow) /\ counts.targets = DistinctInWindow

\* "When did this start, which is the first question anyone reading an alert
\* asks": in the newest calls of the session, as many as are retained, the call
\* that a report numbers as the first to reach a place or to leave the working
\* set is one that did, and none before it; and the reports count them all,
\* wherever the buffer has wrapped.
ReportsNameTheCall ==
  LET kept == SubSeq(log, Len(log) - ring.n + 1, Len(log))
      out  == Places \ Inside
      scope == ScopeReport(ring)
      roots == ResourceSummary(ring).roots
      IsFirst(first, targets) ==
        IF \E i \in DOMAIN kept : kept[i].target \in targets
          THEN /\ first + 1 \in DOMAIN kept /\ kept[first + 1].target \in targets
               /\ \A i \in 1 .. first : kept[i].target \notin targets
          ELSE first = -1
      CallsTo(targets) == Cardinality({i \in DOMAIN kept : kept[i].target \in targets})
  IN  /\ IsFirst(scope.first, out) /\ scope.outOfScope = CallsTo(out)
      /\ scope.calls = CallsTo(Places)
      /\ \A t \in DOMAIN roots :
           IsFirst(roots[t].firstCall, {t}) /\ roots[t].calls = CallsTo({t})

\* "Calls is how many observations the score is based on."
ScoredAsReported == pc["client"] = "count" => assessment.calls = assessment.walked
=============================================================================
