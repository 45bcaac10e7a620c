----------------------------- MODULE Inventory -----------------------------
(***************************************************************************)
(* inventory.Registry: the first definition seen of each tool, and which   *)
(* tools have drifted from it.  A definition is its fingerprint; a listing *)
(* maps each tool to the definition it advertises, or to Absent.           *)
(***************************************************************************)
CONSTANTS Tools, Defs, Absent

ASSUME InventoryAssumption == Absent \notin Defs

Listings == [Tools -> Defs \cup {Absent}]
Nothing  == [t \in Tools |-> Absent]

VARIABLES
  listed,      \* a listing has been observed: Registry.listings > 0
  first,       \* the definition each tool was first seen with
  changed,     \* tools modified or added since the first listing
  removed,     \* tools whose removal has been reported
  base,        \* history: the first listing
  advertised   \* history: every tool and definition ever listed together

inventoryVars == <<listed, first, changed, removed, base, advertised>>

InventoryInit ==
  /\ listed = FALSE /\ first = Nothing /\ changed = {} /\ removed = {}
  /\ base = Nothing /\ advertised = {}

Advertised(listing) == {t \in Tools : listing[t] # Absent}
Pairs(listing) == {<<t, listing[t]>> : t \in Advertised(listing)}

Baseline(listing) ==
  /\ ~listed /\ listed' = TRUE
  /\ first' = listing /\ base' = listing
  /\ advertised' = Pairs(listing)
  /\ UNCHANGED <<changed, removed>>

\* Variant: a tool that appears after the first listing is not flagged.
CompareKnown(listing) ==
  /\ listed /\ UNCHANGED <<listed, base>>
  /\ changed' = changed \cup {t \in Advertised(listing) \cap Advertised(first) :
                               first[t] # listing[t]}
  /\ first' = [t \in Tools |-> IF first[t] = Absent THEN listing[t] ELSE first[t]]
  /\ removed' = removed \cup (Advertised(first) \ Advertised(listing))
  /\ advertised' = advertised \cup Pairs(listing)

\* A later listing adds what it names for the first time and flags it, flags
\* what differs from its first definition, and moves no baseline.
Compare(listing) ==
  /\ listed /\ UNCHANGED <<listed, base>>
  /\ changed' = changed \cup {t \in Advertised(listing) : first[t] # listing[t]}
  /\ first' = [t \in Tools |-> IF first[t] = Absent THEN listing[t] ELSE first[t]]
  /\ removed' = removed \cup (Advertised(first) \ Advertised(listing))
  /\ advertised' = advertised \cup Pairs(listing)

Observe(listing) == Baseline(listing) \/ Compare(listing)

\* The registry alone, for any server.
InventorySpec == InventoryInit /\ [][\E listing \in Listings : Observe(listing)]_inventoryVars

-----------------------------------------------------------------------------
InventoryType ==
  /\ listed \in BOOLEAN
  /\ first \in Listings /\ base \in Listings
  /\ changed \subseteq Tools /\ removed \subseteq Tools
  /\ advertised \subseteq Tools \X Defs

\* A mutation cannot be laundered by changing a definition and changing it
\* back: the flagged tools are exactly those that any listing since the first
\* has advertised otherwise than the first did.
ChangedIsDrift ==
  changed = {t \in Tools : \E d \in Defs : <<t, d>> \in advertised /\ base[t] # d}
=============================================================================
