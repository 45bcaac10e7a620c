----------------------------- MODULE TargetPaths -----------------------------
(***************************************************************************)
(* policy.ExtractTargets and ExtractLocations: which strings of a call's   *)
(* arguments are its targets, and which of those are places.  Arguments    *)
(* are a tree of objects and lists; here they are the set of its strings,  *)
(* each [at, value] with "at" the keys from the root down to it, "[]" for  *)
(* an item of a list.                                                      *)
(***************************************************************************)
EXTENDS WorkingSet

MaxDepth == 4

\* Some of each: keys that name places, other targets, and anything else.
LocationKeys == {"path", "file_path", "paths", "url"}
TargetKeys   == LocationKeys \cup {"query", "table", "host"}

\* The string's own key, or that of the list it is an item of.
KeyOf(at) ==
  IF Last(at) = "[]" /\ Len(at) > 1 THEN at[Len(at) - 1] ELSE Last(at)

\* looksLikeLocation: rooted, under ~, or a URI.
LooksLikeLocation(value) == value.rooted \/ value.home \/ value.scheme # ""

IsBlank(value) == value = Relative(<<>>)

\* Variant: the strings of a list are not walked.
ReachedOutsideLists(at) ==
  Len(at) - 1 <= MaxDepth /\ KeyOf(at) \in TargetKeys /\ Last(at) # "[]"

\* collect and collectStrings get to it: a list under a target key is one
\* level deeper than its key, a list in a list is walked for objects only.
Reached(at) == Len(at) - 1 <= MaxDepth /\ KeyOf(at) \in TargetKeys

ExtractTargets(args) ==
  {leaf.value : leaf \in {l \in args : Reached(l.at) /\ ~IsBlank(l.value)}}

ExtractLocations(args) ==
  {leaf.value : leaf \in {l \in args :
     /\ Reached(l.at) /\ ~IsBlank(l.value)
     /\ KeyOf(l.at) \in LocationKeys \/ LooksLikeLocation(l.value)}}
=============================================================================
