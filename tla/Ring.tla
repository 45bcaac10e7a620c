-------------------------------- MODULE Ring --------------------------------
(***************************************************************************)
(* detect.ring: the circular buffer of retained calls, oldest first, as    *)
(* operators on a record                                                   *)
(*   [size, buf, head, n, evicted]                                         *)
(* whose buf is a function on the slots 0 .. size - 1, size being len(buf).*)
(* The buffer starts empty, doubles up to MaxCalls and then overwrites.    *)
(***************************************************************************)
EXTENDS Integers, Sequences

CONSTANTS
  MaxCalls,    \* detect.Config.MaxCalls
  RingMinCap,  \* the first allocation
  Zero         \* the zero Call

ASSUME RingAssumption == MaxCalls \in Nat \ {0} /\ RingMinCap \in Nat \ {0}

EmptyRing == [size |-> 0, buf |-> [s \in {} |-> Zero], head |-> 0, n |-> 0, evicted |-> FALSE]

\* The slot of the i'th oldest retained call, counting from 0.
Slot(r, i) == (r.head + i) % r.size
At(r, i)   == r.buf[Slot(r, i)]
Live(r)    == {Slot(r, i) : i \in 0 .. r.n - 1}

Least(a, b)    == IF a < b THEN a ELSE b
Greatest(a, b) == IF a < b THEN b ELSE a

\* Variant: the buffer doubles past the bound.
NewSizeUnbounded(r) == Greatest(2 * r.size, RingMinCap)

NewSize(r) == Least(Greatest(2 * r.size, RingMinCap), MaxCalls)

\* Variant: the contents are copied slot by slot, the head left where it is.
GrowInPlace(r) ==
  [size |-> NewSize(r),
   buf |-> [s \in 0 .. NewSize(r) - 1 |-> IF s < r.size THEN r.buf[s] ELSE Zero],
   head |-> r.head, n |-> r.n, evicted |-> r.evicted]

\* The contents are laid out again from slot 0.
Grow(r) ==
  [size |-> NewSize(r),
   buf |-> [s \in 0 .. NewSize(r) - 1 |-> IF s < r.n THEN At(r, s) ELSE Zero],
   head |-> 0, n |-> r.n, evicted |-> r.evicted]

\* A new call takes the slot after the newest, or the oldest one's when there
\* is no free slot.
Add(r, c) ==
  [size |-> r.size, buf |-> [r.buf EXCEPT ![Slot(r, r.n)] = c],
   head |-> r.head, n |-> r.n + 1, evicted |-> r.evicted]
Overwrite(r, c) ==
  [size |-> r.size, buf |-> [r.buf EXCEPT ![r.head] = c],
   head |-> Slot(r, 1), n |-> r.n, evicted |-> TRUE]

Push(r, c) ==
  LET g == IF r.n = r.size /\ r.size < MaxCalls THEN Grow(r) ELSE r
  IN  IF g.n = g.size THEN Overwrite(g, c) ELSE Add(g, c)

\* Variant: the head moves on and the slots keep their calls.
DropSkipping(r, k) ==
  IF k = 0 THEN r
  ELSE [size |-> r.size, buf |-> r.buf,
        head |-> Slot(r, k), n |-> r.n - k, evicted |-> TRUE]

\* The k oldest calls go, k <= r.n, and their slots are zeroed.
DropOldest(r, k) ==
  IF k = 0 THEN r
  ELSE [size |-> r.size,
        buf |-> [s \in DOMAIN r.buf |->
                   IF s \in {Slot(r, i) : i \in 0 .. k - 1} THEN Zero ELSE r.buf[s]],
        head |-> Slot(r, k), n |-> r.n - k, evicted |-> TRUE]

\* parts: everything from head to the end of the buffer, then what has wrapped
\* around to its start.  Every report walks the one and then the other.
Front(r) == [i \in 1 .. Least(r.n, r.size - r.head) |-> r.buf[r.head + i - 1]]
Back(r)  == [i \in 1 .. Greatest(0, r.head + r.n - r.size) |-> r.buf[i - 1]]

Retained(r) == Front(r) \o Back(r)
=============================================================================
