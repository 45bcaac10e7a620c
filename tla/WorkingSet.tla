----------------------------- MODULE WorkingSet -----------------------------
(***************************************************************************)
(* detect.Resource and detect.Scope: what a target string names and        *)
(* whether it lies in the declared working set.                            *)
(*                                                                         *)
(* A raw string is a record of what the parser tells apart:                *)
(*   scheme  "" for a bare path, else the URI's                            *)
(*   auth    the URI's host, "" for none                                   *)
(*   rooted  the path begins with a separator                              *)
(*   home    the string begins with ~                                      *)
(*   segs    what stands between the separators: "" where two meet or one  *)
(*           ends the string, ".", "..", and names                         *)
(* Case folding, percent-decoding, drive letters, backslashes and          *)
(* surrounding blanks are left out.                                        *)
(***************************************************************************)
EXTENDS Naturals, Sequences, FiniteSets, SequencesExt

Raw(scheme, auth, rooted, segs) ==
  [scheme |-> scheme, auth |-> auth, rooted |-> rooted, home |-> FALSE, segs |-> segs]
Rooted(segs)   == Raw("", "", TRUE, segs)
Relative(segs) == Raw("", "", FALSE, segs)
InHome(segs)   == [Relative(segs) EXCEPT !.home = TRUE]
Uri(scheme, auth, segs) == Raw(scheme, auth, TRUE, segs)

\* The strings of the words W that name a place: only what is bare and relative
\* begins with ~, only a URI has a host, and it has a host or a path.
WellSplit(raw) ==
  /\ raw.home => ~raw.rooted /\ raw.scheme = ""
  /\ raw.scheme = "" => raw.auth = ""
  /\ raw.scheme # "" => raw.rooted \/ (raw.auth # "" /\ raw.segs = <<>>)
RawRecords(W) == [scheme : W, auth : W, rooted : BOOLEAN, home : BOOLEAN, segs : Seq(W)]
Raws(W)       == {raw \in RawRecords(W) : WellSplit(raw)}

-----------------------------------------------------------------------------
(* ParseResource.                                                          *)

\* Variant: ".." at the end of what is left takes off nothing, even a name.
CleanStepForgetful(rooted, done, seg) ==
  IF seg \in {"", ".", ".."} THEN done ELSE Append(done, seg)

\* path.Clean, a segment at a time: ".." stops at the root, and stays where a
\* relative path has nothing to take off.
CleanStep(rooted, done, seg) ==
  IF seg \in {"", "."} THEN done
  ELSE IF seg # ".." THEN Append(done, seg)
  ELSE IF done # <<>> /\ Last(done) # ".." THEN Front(done)
  ELSE IF rooted THEN done
  ELSE Append(done, "..")

Cleaned(rooted, segs) == FoldLeft(LAMBDA done, seg : CleanStep(rooted, done, seg), <<>>, segs)

\* "." stays a place; "" names none.
CleanPath(rooted, segs) ==
  IF ~rooted /\ segs # <<>> /\ Cleaned(rooted, segs) = <<>> THEN <<".">>
  ELSE Cleaned(rooted, segs)

\* A bare path is a file.
SchemeOf(raw) == IF raw.scheme = "" THEN "file" ELSE raw.scheme

\* A "~" is a name like any other here.
ParseResource(raw) ==
  [scheme |-> SchemeOf(raw),
   auth   |-> raw.auth,
   rooted |-> raw.rooted,
   segs   |-> CleanPath(raw.rooted, IF raw.home THEN <<"~">> \o raw.segs ELSE raw.segs)]

IsEmptyPath(r) == ~r.rooted /\ r.segs = <<>>
IsEmpty(r)     == IsEmptyPath(r) /\ r.auth = ""

-----------------------------------------------------------------------------
(* Scope: the resources of the declared entries.                           *)

\* NewScope refuses an empty entry, one that names nothing, and a relative one.
ScopeValid(decls) ==
  \A i \in DOMAIN decls :
    LET r == ParseResource(decls[i]) IN ~IsEmpty(r) /\ (r.auth # "" \/ r.rooted)

ScopeOf(decls)  == [i \in DOMAIN decls |-> ParseResource(decls[i])]
Declared(scope) == scope # <<>>

\* The chunks between the separators after "scheme://": the first is the host,
\* and where there is none, the first name of a relative path takes its place.
ScopeKey(r) ==
  IF r.rooted \/ r.segs = <<>> THEN <<r.scheme, r.auth>> \o r.segs
  ELSE <<r.scheme>> \o r.segs

\* Variant: the keys are compared as strings, not at the separators: a name
\* that begins like the entry's last one is inside it.
HoldsPrefix(entry, r) ==
  IsPrefix(IF entry.segs = <<>> THEN ScopeKey(entry) ELSE Front(ScopeKey(entry)), ScopeKey(r))

\* Equal, or the entry followed by a separator begins the resource.  The key of
\* an entry "/" ends in the separator, which is not in that of a bare host.
Holds(entry, r) ==
  /\ IsPrefix(ScopeKey(entry), ScopeKey(r))
  /\ ~(entry.rooted /\ IsEmptyPath(r))

InScope(scope, r) == ~IsEmpty(r) /\ \E i \in DOMAIN scope : Holds(scope[i], r)

-----------------------------------------------------------------------------
(* Containment said of the places themselves, sharing no definition with   *)
(* the code's.  A name on the way is still there at the end unless, at     *)
(* some point after it, it and the names behind it have all been gone back *)
(* from.                                                                   *)

IsName(seg) == seg \notin {"", ".", ".."}
Stays(segs, i) ==
  /\ IsName(segs[i])
  /\ \A j \in i .. Len(segs) :
       Cardinality({k \in i .. j : IsName(segs[k])})
         > Cardinality({k \in i .. j : segs[k] = ".."})

\* The n-th least of some numbers.
Nth(S, n) == CHOOSE i \in S : Cardinality({j \in S : j <= i}) = n

\* The directories one stands in, from the root down, at the end of a rooted path.
Place(segs) ==
  LET staying == {i \in DOMAIN segs : Stays(segs, i)}
  IN  [n \in 1 .. Cardinality(staying) |-> segs[Nth(staying, n)]]

\* Whether a rooted target lies in or under a declared directory.
LiesIn(decl, target) ==
  /\ decl.scheme = target.scheme \/ {decl.scheme, target.scheme} = {"", "file"}
  /\ target.auth = decl.auth
  /\ IsPrefix(Place(decl.segs), Place(target.segs))
=============================================================================
