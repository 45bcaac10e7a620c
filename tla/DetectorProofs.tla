--------------------------- MODULE DetectorProofs ---------------------------
(***************************************************************************)
(* The session of the detector keeps exactly the history promised, for     *)
(* every capacity, window and interleaving of the two pumps.  The first    *)
(* half is about the ring alone, whatever it holds: pushing appends, at    *)
(* the cap it also drops the oldest, growing changes nothing, dropping     *)
(* drops the oldest; and no slot outside the retained calls holds          *)
(* anything.                                                               *)
(***************************************************************************)
EXTENDS Detector, SequenceTheorems, FunctionTheorems, FiniteSetTheorems, MinMax

\* A ring of calls in C: the bounds of its fields, live slots that hold calls
\* and other slots that are zero.
RingShape(r, C) ==
  /\ r.size \in 0 .. MaxCalls /\ r.n \in 0 .. r.size /\ r.head \in Nat
  /\ r.evicted \in BOOLEAN
  /\ r.buf \in [0 .. r.size - 1 -> C \cup {Zero}]
  /\ IF r.size = 0 THEN r.head = 0 ELSE r.head < r.size

Cleared(r) == \A s \in DOMAIN r.buf : s \notin Live(r) => r.buf[s] = Zero

RingOK(r, C) ==
  /\ RingShape(r, C) /\ Cleared(r)
  /\ \A i \in 0 .. r.n - 1 : At(r, i) \in C

-----------------------------------------------------------------------------
(* Slots.                                                                  *)

LEMMA ModBelow ==
  ASSUME NEW n \in Nat \ {0}, NEW a \in 0 .. n - 1
  PROVE  a % n = a
  BY SMTT(30)

LEMMA ModAbove ==
  ASSUME NEW n \in Nat \ {0}, NEW a \in n .. 2 * n - 1
  PROVE  a % n = a - n
  BY SMTT(30)

\* An index at most size past the head wraps at most once.
LEMMA SlotWraps ==
  ASSUME NEW C, NEW r, RingShape(r, C), r.size > 0, NEW i \in 0 .. r.size
  PROVE  /\ Slot(r, i) = IF r.head + i < r.size THEN r.head + i ELSE r.head + i - r.size
         /\ Slot(r, i) \in 0 .. r.size - 1
  <1>1. r.size \in Nat \ {0} /\ r.head \in 0 .. r.size - 1
    BY DEF RingShape
  <1>2. CASE r.head + i < r.size
    <2>1. r.head + i \in 0 .. r.size - 1
      BY <1>1, <1>2
    <2>2. (r.head + i) % r.size = r.head + i
      BY <1>1, <2>1, ModBelow
    <2> QED BY <1>1, <1>2, <2>2 DEF Slot
  <1>3. CASE ~(r.head + i < r.size)
    <2>1. r.head + i \in r.size .. 2 * r.size - 1
      BY <1>1, <1>3
    <2>2. (r.head + i) % r.size = r.head + i - r.size
      BY <1>1, <2>1, ModAbove
    <2> QED BY <1>1, <1>3, <2>2 DEF Slot
  <1> QED BY <1>2, <1>3

\* Different indexes below size are different slots, and every slot has one.
LEMMA SlotInjective ==
  ASSUME NEW C, NEW r, RingShape(r, C),
         NEW i \in 0 .. r.size - 1, NEW j \in 0 .. r.size - 1,
         Slot(r, i) = Slot(r, j)
  PROVE  i = j
  <1>1. r.size \in Nat /\ r.size > 0 /\ r.head \in 0 .. r.size - 1
    BY DEF RingShape
  <1> QED BY <1>1, SlotWraps

LEMMA SlotOnto ==
  ASSUME NEW C, NEW r, RingShape(r, C), NEW s \in 0 .. r.size - 1
  PROVE  \E i \in 0 .. r.size - 1 : Slot(r, i) = s
  <1>1. r.size \in Nat /\ r.size > 0 /\ r.head \in 0 .. r.size - 1
    BY DEF RingShape
  <1>2. CASE s >= r.head
    <2>1. s - r.head \in 0 .. r.size - 1
      BY <1>1, <1>2
    <2>2. Slot(r, s - r.head) = s
      BY <1>1, <1>2, <2>1, SlotWraps
    <2> QED BY <2>1, <2>2
  <1>3. CASE s < r.head
    <2>1. s + r.size - r.head \in 0 .. r.size - 1
      BY <1>1, <1>3
    <2>2. Slot(r, s + r.size - r.head) = s
      BY <1>1, <1>3, <2>1, SlotWraps
    <2> QED BY <2>1, <2>2
  <1> QED BY <1>1, <1>2, <1>3

-----------------------------------------------------------------------------
(* The walk over the two parts.                                            *)

LEMMA FunctionIsSeq ==
  ASSUME NEW S, NEW k \in Nat, NEW f \in [1 .. k -> S]
  PROVE  f \in Seq(S) /\ Len(f) = k
  <1>1. f \in Seq(S)
    BY SeqDef
  <1> QED BY <1>1, LenProperties

\* Walking front and then back visits the retained calls oldest first.
LEMMA RetainedIsAt ==
  ASSUME NEW C, NEW r, RingOK(r, C)
  PROVE  /\ Retained(r) \in Seq(C)
         /\ Len(Retained(r)) = r.n
         /\ \A i \in 1 .. r.n : Retained(r)[i] = At(r, i - 1)
  <1>1. /\ r.size \in Nat /\ r.n \in 0 .. r.size /\ r.head \in Nat
        /\ r.size = 0 => r.head = 0
        /\ r.size > 0 => r.head < r.size
    BY DEF RingOK, RingShape
  <1>2. PICK a \in Nat, b \in Nat :
          /\ a = Least(r.n, r.size - r.head)
          /\ b = Greatest(0, r.head + r.n - r.size)
          /\ a + b = r.n /\ a <= r.size - r.head
          /\ b > 0 => a = r.size - r.head
    BY <1>1 DEF Least, Greatest
  <1>3. Front(r) = [i \in 1 .. a |-> r.buf[r.head + i - 1]]
        /\ Back(r) = [i \in 1 .. b |-> r.buf[i - 1]]
    BY <1>2 DEF Front, Back
  <1>4. \A i \in 1 .. a : r.buf[r.head + i - 1] = At(r, i - 1)
    <2> SUFFICES ASSUME NEW i \in 1 .. a PROVE r.buf[r.head + i - 1] = At(r, i - 1)
      OBVIOUS
    <2>1. r.size > 0 /\ i - 1 \in 0 .. r.size
      BY <1>1, <1>2
    <2>2. Slot(r, i - 1) = r.head + i - 1
      BY <1>1, <1>2, <2>1, SlotWraps DEF RingOK
    <2> QED BY <2>2 DEF At
  <1>5. \A i \in 1 .. b : r.buf[i - 1] = At(r, a + i - 1)
    <2> SUFFICES ASSUME NEW i \in 1 .. b PROVE r.buf[i - 1] = At(r, a + i - 1)
      OBVIOUS
    <2>1. r.size > 0 /\ a + i - 1 \in 0 .. r.size /\ a = r.size - r.head
      BY <1>1, <1>2
    <2>2. Slot(r, a + i - 1) = i - 1
      BY <1>1, <1>2, <2>1, SlotWraps DEF RingOK
    <2> QED BY <2>2 DEF At
  <1>6. \A i \in 0 .. r.n - 1 : At(r, i) \in C
    BY DEF RingOK
  <1>7. Front(r) \in [1 .. a -> C] /\ Back(r) \in [1 .. b -> C]
    <2>1. ASSUME NEW i \in 1 .. a PROVE r.buf[r.head + i - 1] \in C
      <3>1. i - 1 \in 0 .. r.n - 1
        BY <1>1, <1>2
      <3> QED BY <1>4, <1>6, <3>1
    <2>2. ASSUME NEW i \in 1 .. b PROVE r.buf[i - 1] \in C
      <3>1. a + i - 1 \in 0 .. r.n - 1
        BY <1>1, <1>2
      <3> QED BY <1>5, <1>6, <3>1
    <2> QED BY <1>3, <2>1, <2>2
  <1>8. /\ Front(r) \in Seq(C) /\ Len(Front(r)) = a
        /\ Back(r) \in Seq(C) /\ Len(Back(r)) = b
    <2>1. Front(r) \in Seq(C) /\ Len(Front(r)) = a
      BY <1>7, FunctionIsSeq, Zenon
    <2>2. Back(r) \in Seq(C) /\ Len(Back(r)) = b
      BY <1>7, FunctionIsSeq, Zenon
    <2> QED BY <2>1, <2>2
  <1>9. /\ Retained(r) \in Seq(C) /\ Len(Retained(r)) = a + b
        /\ \A i \in 1 .. a + b :
             Retained(r)[i] = IF i <= a THEN Front(r)[i] ELSE Back(r)[i - a]
    <2>1. PICK u \in Seq(C), v \in Seq(C) : u = Front(r) /\ v = Back(r)
      BY <1>8
    <2>2. /\ u \o v \in Seq(C) /\ Len(u \o v) = Len(u) + Len(v)
          /\ \A i \in 1 .. Len(u) + Len(v) :
               (u \o v)[i] = IF i <= Len(u) THEN u[i] ELSE v[i - Len(u)]
      BY ConcatProperties
    <2>3. Retained(r) = u \o v /\ Len(u) = a /\ Len(v) = b
      BY <1>8, <2>1 DEF Retained
    <2> QED BY <2>1, <2>2, <2>3
  <1>10. ASSUME NEW i \in 1 .. r.n PROVE Retained(r)[i] = At(r, i - 1)
    <2>1. CASE i <= a
      <3>1. i \in 1 .. a /\ i \in 1 .. a + b
        BY <1>1, <1>2, <2>1
      <3> QED BY <1>3, <1>4, <1>9, <2>1, <3>1
    <2>2. CASE i > a
      <3>1. i - a \in 1 .. b /\ a + (i - a) - 1 = i - 1 /\ i \in 1 .. a + b
        BY <1>1, <1>2, <2>2
      <3>2. Retained(r)[i] = Back(r)[i - a]
        <4>1. ~(i <= a)
          BY <1>2, <2>2
        <4> QED BY <1>9, <3>1, <4>1, Zenon
      <3>3. Back(r)[i - a] = r.buf[(i - a) - 1]
        BY <1>3, <3>1
      <3> QED BY <1>5, <3>1, <3>2, <3>3
    <2> QED BY <1>1, <1>2, <2>1, <2>2
  <1> QED BY <1>1, <1>2, <1>9, <1>10

-----------------------------------------------------------------------------
(* The operations.                                                         *)

LEMMA EmptyRingOK ==
  ASSUME NEW C
  PROVE  RingOK(EmptyRing, C) /\ EmptyRing.n = 0
  <1>1. [s \in {} |-> Zero] \in [0 .. 0 - 1 -> C \cup {Zero}]
    OBVIOUS
  <1> QED BY <1>1, RingAssumption DEF RingOK, RingShape, Cleared, EmptyRing

\* A buffer that is laid out again has the same calls, and room for one more.
LEMMA GrowOK ==
  ASSUME NEW C, NEW r, RingOK(r, C), r.n = r.size, r.size < MaxCalls
  PROVE  /\ RingOK(Grow(r), C)
         /\ Grow(r).n = r.n /\ Grow(r).evicted = r.evicted
         /\ Grow(r).n < Grow(r).size
         /\ \A i \in 0 .. r.n - 1 : At(Grow(r), i) = At(r, i)
  <1> DEFINE g == Grow(r)
             k == NewSize(r)
  <1>1. k \in Nat /\ k > r.size /\ k <= MaxCalls
    BY RingAssumption DEF RingOK, RingShape, NewSize, Least, Greatest
  <1>2. /\ g.size = k /\ g.head = 0 /\ g.n = r.n /\ g.evicted = r.evicted
        /\ g.buf = [s \in 0 .. k - 1 |-> IF s < r.n THEN At(r, s) ELSE Zero]
    BY DEF Grow, RingOK, RingShape
  <1>3. g.buf \in [0 .. k - 1 -> C \cup {Zero}]
    BY <1>1, <1>2 DEF RingOK, RingShape
  <1>4. RingShape(g, C)
    <2>1. r.size \in 0 .. MaxCalls /\ r.n \in 0 .. r.size /\ r.evicted \in BOOLEAN
      BY DEF RingOK, RingShape
    <2> HIDE DEF g, k
    <2> QED BY <1>1, <1>2, <1>3, <2>1, RingAssumption DEF RingShape
  <1> HIDE DEF g, k
  <1>5. \A i \in 0 .. r.n - 1 : Slot(g, i) = i /\ At(g, i) = At(r, i)
    <2> SUFFICES ASSUME NEW i \in 0 .. r.n - 1
                 PROVE  Slot(g, i) = i /\ At(g, i) = At(r, i)
      OBVIOUS
    <2>1. r.n \in Nat /\ r.n = r.size
      BY DEF RingOK, RingShape
    <2>2. Slot(g, i) = i
      BY <1>1, <1>2, <1>4, <2>1, SlotWraps
    <2> QED BY <1>1, <1>2, <2>1, <2>2 DEF At
  <1>6. Cleared(g)
    <2> SUFFICES ASSUME NEW s \in 0 .. k - 1, s \notin Live(g) PROVE g.buf[s] = Zero
      BY <1>3 DEF Cleared
    <2>1. r.n \in Nat
      BY DEF RingOK, RingShape
    <2>2. ~(s < r.n)
      BY <1>2, <1>5, <2>1 DEF Live
    <2> QED BY <1>2, <2>2
  <1>7. \A i \in 0 .. g.n - 1 : At(g, i) \in C
    BY <1>2, <1>5 DEF RingOK
  <1> QED BY <1>1, <1>2, <1>4, <1>5, <1>6, <1>7 DEF RingOK, RingShape, g

\* A ring with a free slot keeps what it has and takes the new call behind it.
LEMMA AddOK ==
  ASSUME NEW C, NEW r, RingOK(r, C), r.n < r.size, NEW c \in C
  PROVE  /\ RingOK(Add(r, c), C)
         /\ Add(r, c).n = r.n + 1 /\ Add(r, c).evicted = r.evicted
         /\ \A i \in 0 .. r.n - 1 : At(Add(r, c), i) = At(r, i)
         /\ At(Add(r, c), r.n) = c
  <1>1. /\ RingShape(r, C) /\ r.size \in Nat /\ r.size > 0 /\ r.n \in 0 .. r.size - 1
        /\ r.head \in 0 .. r.size - 1 /\ r.buf \in [0 .. r.size - 1 -> C \cup {Zero}]
    BY DEF RingOK, RingShape
  <1>2. PICK g : g = Add(r, c)
    OBVIOUS
  <1>3. /\ g.size = r.size /\ g.head = r.head /\ g.n = r.n + 1
        /\ g.evicted = r.evicted /\ g.buf = [r.buf EXCEPT ![Slot(r, r.n)] = c]
    BY <1>2 DEF Add
  <1>4. Slot(r, r.n) \in 0 .. r.size - 1
    BY <1>1, SlotWraps
  <1>5. g.buf \in [0 .. r.size - 1 -> C \cup {Zero}]
    BY <1>1, <1>3, <1>4
  <1>6. RingShape(g, C)
    BY <1>1, <1>3, <1>5 DEF RingShape
  <1>7. \A i \in 0 .. r.size : Slot(g, i) = Slot(r, i)
    BY <1>3 DEF Slot
  <1>8. \A i \in 0 .. r.n - 1 : At(g, i) = At(r, i)
    <2> SUFFICES ASSUME NEW i \in 0 .. r.n - 1 PROVE At(g, i) = At(r, i)
      OBVIOUS
    <2>1. i \in 0 .. r.size - 1 /\ i # r.n
      BY <1>1
    <2>2. Slot(r, i) # Slot(r, r.n) /\ Slot(r, i) \in 0 .. r.size - 1
      BY <1>1, <2>1, SlotInjective, SlotWraps
    <2> QED BY <1>1, <1>3, <1>7, <2>1, <2>2 DEF At
  <1>9. At(g, r.n) = c
    BY <1>1, <1>3, <1>4, <1>7 DEF At
  <1>10. Cleared(g)
    <2> SUFFICES ASSUME NEW s \in 0 .. r.size - 1, s \notin Live(g) PROVE g.buf[s] = Zero
      BY <1>5 DEF Cleared
    <2>1. \A i \in 0 .. r.n : s # Slot(r, i)
      BY <1>1, <1>3, <1>7 DEF Live
    <2>2. s \notin Live(r) /\ s # Slot(r, r.n)
      BY <1>1, <2>1 DEF Live
    <2> QED BY <1>1, <1>3, <2>2 DEF RingOK, Cleared
  <1>11. \A i \in 0 .. g.n - 1 : At(g, i) \in C
    BY <1>1, <1>3, <1>8, <1>9 DEF RingOK
  <1> QED BY <1>2, <1>3, <1>6, <1>8, <1>9, <1>10, <1>11 DEF RingOK

\* A step of the head and then i more slots is i + 1 slots.
SameSlot(z, k, i, h, j) ==
  (IF k + i < z THEN k + i ELSE k + i - z) = (IF h + j < z THEN h + j ELSE h + j - z)

LEMMA StepIsRound ==
  ASSUME NEW z \in Nat, NEW h \in Nat, NEW k \in Nat, NEW i \in 0 .. z - 2, h < z,
         k = IF h + 1 < z THEN h + 1 ELSE h + 1 - z
  PROVE  SameSlot(z, k, i, h, i + 1)
  <1> USE DEF SameSlot
  <1>1. CASE h + 1 < z
    <2>1. k = h + 1
      BY <1>1
    <2> QED BY <2>1
  <1>2. CASE ~(h + 1 < z)
    <2>1. h = z - 1 /\ k = 0
      BY <1>2
    <2> QED BY <2>1
  <1> QED BY <1>1, <1>2

\* A full ring loses its oldest call to the new one.
LEMMA OverwriteOK ==
  ASSUME NEW C, NEW r, RingOK(r, C), r.n = r.size, r.size > 0, NEW c \in C
  PROVE  /\ RingOK(Overwrite(r, c), C)
         /\ Overwrite(r, c).n = r.n /\ Overwrite(r, c).evicted
         /\ \A i \in 0 .. r.n - 2 : At(Overwrite(r, c), i) = At(r, i + 1)
         /\ At(Overwrite(r, c), r.n - 1) = c
  <1>1. /\ RingShape(r, C) /\ r.size \in Nat /\ r.n = r.size
        /\ r.head \in 0 .. r.size - 1 /\ r.buf \in [0 .. r.size - 1 -> C \cup {Zero}]
    BY DEF RingOK, RingShape
  <1>2. PICK g : g = Overwrite(r, c)
    OBVIOUS
  <1>3. /\ g.size = r.size /\ g.head = Slot(r, 1) /\ g.n = r.n
        /\ g.evicted = TRUE /\ g.buf = [r.buf EXCEPT ![r.head] = c]
    BY <1>2 DEF Overwrite
  <1>4. 1 \in 0 .. r.size /\ 0 \in 0 .. r.size /\ 0 \in 0 .. r.size - 1
    BY <1>1
  <1>5. /\ Slot(r, 1) = IF r.head + 1 < r.size THEN r.head + 1 ELSE r.head + 1 - r.size
        /\ Slot(r, 1) \in 0 .. r.size - 1
    BY <1>1, <1>4, SlotWraps
  <1>6. Slot(r, 0) = r.head
    BY <1>1, <1>4, SlotWraps
  <1>7. g.buf \in [0 .. r.size - 1 -> C \cup {Zero}]
    BY <1>1, <1>3
  <1>8. RingShape(g, C)
    <2>1. g.head \in Nat /\ g.head < r.size
      BY <1>1, <1>3, <1>5
    <2>2. g.evicted \in BOOLEAN
      BY <1>3, Zenon
    <2>3. g.size = r.size /\ g.n = r.n
      BY <1>3
    <2> QED BY <1>1, <1>7, <2>1, <2>2, <2>3 DEF RingShape
  <1>9. ASSUME NEW i \in 0 .. r.size - 2 PROVE Slot(g, i) = Slot(r, i + 1)
    <2>1. i \in 0 .. g.size /\ g.size > 0 /\ i + 1 \in 0 .. r.size
      BY <1>1, <1>3
    <2>2. Slot(g, i) = IF g.head + i < r.size THEN g.head + i ELSE g.head + i - r.size
      BY <1>3, <1>8, <2>1, SlotWraps
    <2>3. Slot(r, i + 1) = IF r.head + (i + 1) < r.size THEN r.head + (i + 1)
                                                      ELSE r.head + (i + 1) - r.size
      BY <1>1, <2>1, SlotWraps
    <2>4. PICK z \in Nat, h \in Nat, k \in Nat :
            /\ z = r.size /\ h = r.head /\ k = g.head
            /\ h < z /\ i \in 0 .. z - 2
            /\ k = IF h + 1 < z THEN h + 1 ELSE h + 1 - z
      <3>1. /\ r.size \in Nat /\ r.head \in Nat /\ g.head \in Nat /\ r.head < r.size
            /\ g.head = Slot(r, 1)
        BY <1>1, <1>3, <1>5
      <3> QED BY <1>5, <3>1
    <2>5. SameSlot(z, k, i, h, i + 1)
      BY <2>4, StepIsRound, Zenon
    <2>6. (IF g.head + i < r.size THEN g.head + i ELSE g.head + i - r.size)
            = (IF r.head + (i + 1) < r.size THEN r.head + (i + 1) ELSE r.head + (i + 1) - r.size)
      BY <2>4, <2>5 DEF SameSlot
    <2> QED BY <2>2, <2>3, <2>6
  <1>10. Slot(g, r.size - 1) = r.head
    <2>1. r.size - 1 \in 0 .. g.size /\ g.size > 0
      BY <1>1, <1>3
    <2>2. Slot(g, r.size - 1) = IF g.head + (r.size - 1) < r.size THEN g.head + (r.size - 1)
                                              ELSE g.head + (r.size - 1) - r.size
      BY <1>3, <1>8, <2>1, SlotWraps
    <2> QED BY <1>1, <1>3, <1>5, <2>2
  <1>11. \A i \in 0 .. r.n - 2 : At(g, i) = At(r, i + 1)
    <2> SUFFICES ASSUME NEW i \in 0 .. r.n - 2 PROVE At(g, i) = At(r, i + 1)
      OBVIOUS
    <2>1. i + 1 \in 0 .. r.size - 1 /\ i + 1 # 0 /\ i + 1 \in 0 .. r.size
      BY <1>1
    <2>2. Slot(r, i + 1) # r.head /\ Slot(r, i + 1) \in 0 .. r.size - 1
      BY <1>1, <1>4, <1>6, <2>1, SlotInjective, SlotWraps
    <2> QED BY <1>1, <1>3, <1>9, <2>1, <2>2 DEF At
  <1>12. At(g, r.n - 1) = c
    BY <1>1, <1>3, <1>10 DEF At
  <1>13. Cleared(g)
    <2> SUFFICES ASSUME NEW s \in 0 .. g.size - 1 PROVE s \in Live(g)
      BY <1>3, <1>7 DEF Cleared
    <2> QED BY <1>1, <1>3, <1>8, SlotOnto DEF Live
  <1>14. \A i \in 0 .. g.n - 1 : At(g, i) \in C
    <2> SUFFICES ASSUME NEW i \in 0 .. r.n - 1 PROVE At(g, i) \in C
      BY <1>3
    <2>1. CASE i = r.n - 1
      BY <1>12, <2>1
    <2>2. CASE i # r.n - 1
      <3>1. i \in 0 .. r.n - 2 /\ i + 1 \in 0 .. r.n - 1
        BY <1>1, <2>2
      <3> QED BY <1>11, <3>1 DEF RingOK
    <2> QED BY <2>1, <2>2
  <1> QED BY <1>2, <1>3, <1>8, <1>11, <1>12, <1>13, <1>14 DEF RingOK

\* How many calls a push drops: one at the cap, none below it.
Pushed(r) == IF r.n < MaxCalls THEN 0 ELSE 1

\* A push appends the new call, after dropping the oldest at the cap.
LEMMA PushOK ==
  ASSUME NEW C, NEW r, RingOK(r, C), NEW c \in C
  PROVE  /\ RingOK(Push(r, c), C)
         /\ Push(r, c).n = r.n + 1 - Pushed(r)
         /\ Push(r, c).evicted = (r.evicted \/ Pushed(r) = 1)
         /\ \A i \in 0 .. r.n - 1 - Pushed(r) : At(Push(r, c), i) = At(r, i + Pushed(r))
         /\ At(Push(r, c), r.n - Pushed(r)) = c
  <1>1. /\ r.size \in 0 .. MaxCalls /\ r.n \in 0 .. r.size /\ r.evicted \in BOOLEAN
        /\ MaxCalls \in Nat /\ MaxCalls > 0
    BY RingAssumption DEF RingOK, RingShape
  <1>2. CASE r.n = r.size /\ r.size < MaxCalls
    <2>1. PICK g : g = Grow(r)
      OBVIOUS
    <2>2. /\ RingOK(g, C) /\ g.n = r.n /\ g.evicted = r.evicted /\ g.n < g.size
          /\ \A i \in 0 .. r.n - 1 : At(g, i) = At(r, i)
      BY <1>2, <2>1, GrowOK
    <2>3. g.n # g.size
      BY <2>2 DEF RingOK, RingShape
    <2>4. Push(r, c) = Add(g, c)
      BY <1>2, <2>1, <2>3 DEF Push
    <2>5. Pushed(r) = 0
      BY <1>1, <1>2 DEF Pushed
    <2> QED BY <1>1, <2>2, <2>4, <2>5, AddOK
  <1>3. CASE ~(r.n = r.size /\ r.size < MaxCalls) /\ r.n < r.size
    <2>1. Push(r, c) = Add(r, c)
      BY <1>1, <1>3 DEF Push
    <2>2. Pushed(r) = 0
      BY <1>1, <1>3 DEF Pushed
    <2> QED BY <1>1, <1>3, <2>1, <2>2, AddOK
  <1>4. CASE ~(r.n = r.size /\ r.size < MaxCalls) /\ ~(r.n < r.size)
    <2>1. r.n = r.size /\ r.size = MaxCalls /\ r.size > 0
      BY <1>1, <1>4
    <2>2. Push(r, c) = Overwrite(r, c)
      BY <1>4, <2>1 DEF Push
    <2>3. Pushed(r) = 1
      BY <1>1, <2>1 DEF Pushed
    <2>4. /\ RingOK(Push(r, c), C) /\ Push(r, c).n = r.n
          /\ \A i \in 0 .. r.n - 2 : At(Push(r, c), i) = At(r, i + 1)
          /\ At(Push(r, c), r.n - 1) = c
      BY <2>1, <2>2, OverwriteOK
    <2>6. Push(r, c).evicted = (r.evicted \/ TRUE)
      BY <2>1, <2>2, OverwriteOK
    <2>5. 0 .. r.n - 1 - 1 = 0 .. r.n - 2 /\ r.n + 1 - 1 = r.n
      BY <1>1
    <2> QED BY <2>3, <2>4, <2>5, <2>6
  <1> QED BY <1>2, <1>3, <1>4

\* Dropping the k oldest calls leaves the others in their order.
LEMMA DropOK ==
  ASSUME NEW C, NEW r, RingOK(r, C), NEW k \in 0 .. r.n
  PROVE  /\ RingOK(DropOldest(r, k), C)
         /\ DropOldest(r, k).n = r.n - k
         /\ DropOldest(r, k).evicted = (r.evicted \/ k > 0)
         /\ \A i \in 0 .. r.n - k - 1 : At(DropOldest(r, k), i) = At(r, i + k)
  <1>1. /\ RingShape(r, C) /\ r.size \in Nat /\ r.n \in 0 .. r.size /\ k \in 0 .. r.size
        /\ r.evicted \in BOOLEAN /\ r.buf \in [0 .. r.size - 1 -> C \cup {Zero}]
    BY DEF RingOK, RingShape
  <1>2. CASE k = 0
    BY <1>1, <1>2 DEF DropOldest
  <1>3. CASE k # 0
    <2>1. r.size > 0 /\ k > 0 /\ r.head \in 0 .. r.size - 1
      BY <1>1, <1>3 DEF RingShape
    <2>2. PICK g : g = DropOldest(r, k)
      OBVIOUS
    <2>3. /\ g.size = r.size /\ g.head = Slot(r, k) /\ g.n = r.n - k /\ g.evicted = TRUE
          /\ g.buf = [s \in 0 .. r.size - 1 |->
                        IF s \in {Slot(r, i) : i \in 0 .. k - 1} THEN Zero ELSE r.buf[s]]
      BY <1>1, <1>3, <2>2 DEF DropOldest
    <2>4. /\ Slot(r, k) = IF r.head + k < r.size THEN r.head + k ELSE r.head + k - r.size
          /\ Slot(r, k) \in 0 .. r.size - 1
      BY <1>1, <2>1, SlotWraps
    <2>5. g.buf \in [0 .. r.size - 1 -> C \cup {Zero}]
      BY <1>1, <2>3
    <2>6. RingShape(g, C)
      <3>1. g.head \in Nat /\ g.head < r.size /\ g.n \in 0 .. r.size
        BY <1>1, <2>1, <2>3, <2>4
      <3>2. g.evicted \in BOOLEAN
        BY <2>3, Zenon
      <3>3. g.size = r.size
        BY <2>3
      <3> QED BY <1>1, <2>1, <2>5, <3>1, <3>2, <3>3 DEF RingShape
    <2>7. ASSUME NEW i \in 0 .. r.n - k - 1
          PROVE  Slot(g, i) = Slot(r, i + k)
      <3>1. i \in 0 .. g.size /\ g.size > 0 /\ i + k \in 0 .. r.size
        BY <1>1, <2>1, <2>3
      <3>2. Slot(g, i) = IF g.head + i < r.size THEN g.head + i ELSE g.head + i - r.size
        BY <2>3, <2>6, <3>1, SlotWraps
      <3>3. Slot(r, i + k) = IF r.head + (i + k) < r.size THEN r.head + (i + k)
                                                         ELSE r.head + (i + k) - r.size
        BY <1>1, <2>1, <3>1, SlotWraps
      <3>4. CASE r.head + k < r.size
        BY <1>1, <2>1, <2>3, <2>4, <3>2, <3>3, <3>4
      <3>5. CASE ~(r.head + k < r.size)
        <4>1. g.head = r.head + k - r.size
          BY <2>3, <2>4, <3>5
        <4>2. g.head + i < r.size /\ ~(r.head + (i + k) < r.size)
          BY <1>1, <2>1, <3>5, <4>1
        <4> QED BY <1>1, <2>1, <3>2, <3>3, <4>1, <4>2
      <3> QED BY <3>4, <3>5
    <2>8. ASSUME NEW i \in 0 .. r.n - k - 1
          PROVE  At(g, i) = At(r, i + k)
      <3>1. i + k \in 0 .. r.size - 1 /\ i + k \in 0 .. r.size
        BY <1>1, <2>1
      <3>2. \A j \in 0 .. k - 1 : j \in 0 .. r.size - 1 /\ j # i + k
        BY <1>1, <2>1
      <3>3. \A j \in 0 .. k - 1 : Slot(r, j) # Slot(r, i + k)
        BY <1>1, <3>1, <3>2, SlotInjective
      <3>4. Slot(r, i + k) \in 0 .. r.size - 1
        BY <1>1, <2>1, <3>1, SlotWraps
      <3> QED BY <2>3, <2>7, <3>3, <3>4 DEF At
    <2>9. Cleared(g)
      <3> SUFFICES ASSUME NEW s \in 0 .. r.size - 1, s \notin Live(g),
                          s \notin {Slot(r, i) : i \in 0 .. k - 1}
                   PROVE  r.buf[s] = Zero
        BY <2>3, <2>5 DEF Cleared
      <3>1. s \notin Live(r)
        <4> SUFFICES ASSUME NEW j \in 0 .. r.n - 1, s = Slot(r, j) PROVE FALSE
          BY DEF Live
        <4>1. j >= k
          BY <1>1
        <4>2. j - k \in 0 .. r.n - k - 1 /\ (j - k) + k = j
          BY <1>1, <4>1
        <4>3. Slot(g, j - k) = s
          BY <2>7, <4>2
        <4> QED BY <2>3, <4>2, <4>3 DEF Live
      <3> QED BY <1>1, <3>1 DEF RingOK, Cleared
    <2>10. \A i \in 0 .. g.n - 1 : At(g, i) \in C
      <3> SUFFICES ASSUME NEW i \in 0 .. r.n - k - 1 PROVE At(g, i) \in C
        BY <2>3
      <3>1. i + k \in 0 .. r.n - 1
        BY <1>1
      <3> QED BY <2>8, <3>1 DEF RingOK
    <2> QED BY <1>1, <2>1, <2>2, <2>3, <2>6, <2>8, <2>9, <2>10 DEF RingOK
  <1> QED BY <1>2, <1>3

-----------------------------------------------------------------------------
(* The invariant of the detector.                                          *)

\* The window, the calls in hand and a ring that is in order.
DetectorInv ==
  /\ RingOK(ring, Observed)
  /\ window \in Windows /\ clock \in 0 .. MaxTime
  /\ pc \in [Pumps -> {"idle", "observe", "vector", "len", "count"}]
  /\ inHand \in [Pumps -> Observed \cup {Zero}]
  /\ \A p \in Pumps : pc[p] = "observe" => inHand[p] \in Observed
  /\ log \in Seq(Observed)

-----------------------------------------------------------------------------
(* Eviction.                                                               *)

LEMMA EvictsExpired ==
  ASSUME window \in Nat, NEW r, RingOK(r, Observed), NEW now \in Int
  PROVE  /\ Expired(r, now) \in 0 .. r.n
         /\ window = 0 => Expired(r, now) = 0
         /\ window > 0 => \A i \in 0 .. Expired(r, now) - 1 : At(r, i).at < now - window
         /\ window > 0 /\ Expired(r, now) < r.n
              => ~(At(r, Expired(r, now)).at < now - window)
  <1>1. r.n \in Nat
    BY RingAssumption DEF RingOK, RingShape
  <1>2. CASE window = 0
    BY <1>1, <1>2 DEF Expired
  <1>3. CASE window > 0
    <2> DEFINE S == {k \in 0 .. r.n : \A i \in 0 .. k - 1 : At(r, i).at < now - window}
    <2>1. S \in SUBSET (0 .. r.n) /\ 0 \in S
      BY <1>1
    <2>2. Expired(r, now) = Max(S)
      BY <1>3 DEF Expired
    <2>3. PICK e : e = Expired(r, now)
      OBVIOUS
    <2>4. e \in S /\ \A x \in S : x <= e
      <3> HIDE DEF S
      <3> QED BY <1>1, <2>1, <2>2, <2>3, MaxIs
    <2>5. ASSUME e < r.n, At(r, e).at < now - window PROVE FALSE
      <3>1. e + 1 \in 0 .. r.n /\ e \in Nat
        BY <1>1, <2>4, <2>5
      <3>2. \A i \in 0 .. (e + 1) - 1 : At(r, i).at < now - window
        <4> SUFFICES ASSUME NEW i \in 0 .. (e + 1) - 1
                     PROVE  At(r, i).at < now - window
          OBVIOUS
        <4>1. i = e \/ i \in 0 .. e - 1
          BY <3>1
        <4> QED BY <2>4, <2>5, <4>1
      <3>3. e + 1 \in S
        BY <3>1, <3>2
      <3> QED BY <2>4, <3>1, <3>3
    <2> QED BY <1>3, <2>3, <2>4, <2>5
  <1> QED BY <1>2, <1>3

\* What Observe leaves is what History keeps: the calls that were there and the
\* new one, less as many of the oldest as do not fit.
LEMMA ObserveKeeps ==
  ASSUME DetectorInv, window \in Nat, NEW c \in Observed, NEW r,
         r = DropOldest(Push(ring, c), Expired(Push(ring, c), c.at))
  PROVE  /\ RingOK(r, Observed)
         /\ LET all == Append(Retained(ring), c)
            IN  /\ Retained(r) = Promise!Newest(all, Promise!Excess(all))
                /\ r.evicted = (ring.evicted \/ Promise!Excess(all) > 0)
                /\ Promise!Excess(all) \in 0 .. ring.n
  <1>1. PICK u : u = Push(ring, c)
    OBVIOUS
  <1>2. PICK d : d = Pushed(ring)
    OBVIOUS
  <1>3. PICK e : e = Expired(u, c.at)
    OBVIOUS
  <1>4. PICK n : n = ring.n
    OBVIOUS
  <1>5. /\ RingOK(ring, Observed) /\ n \in 0 .. MaxCalls /\ n \in Nat
        /\ MaxCalls \in Nat /\ MaxCalls > 0 /\ ring.evicted \in BOOLEAN
    BY <1>4, RingAssumption DEF DetectorInv, RingOK, RingShape
  <1>6. /\ d \in {0, 1} /\ (d = 1 => n = MaxCalls) /\ (d = 0 => n < MaxCalls)
    BY <1>2, <1>4, <1>5 DEF Pushed
  <1>7. /\ RingOK(u, Observed) /\ u.n = n + 1 - d
        /\ u.evicted = (ring.evicted \/ d = 1)
        /\ \A i \in 0 .. n - 1 - d : At(u, i) = At(ring, i + d)
        /\ At(u, n - d) = c
    BY <1>1, <1>2, <1>4, <1>5, PushOK
  <1>8. c.at \in Int
    BY DetectorAssumption DEF Observed
  <1>9. /\ e \in 0 .. u.n
        /\ window = 0 => e = 0
        /\ window > 0 => \A i \in 0 .. e - 1 : At(u, i).at < c.at - window
        /\ window > 0 /\ e < u.n => ~(At(u, e).at < c.at - window)
    BY <1>3, <1>7, <1>8, EvictsExpired
  <1>10. e <= u.n - 1
    <2>1. CASE window = 0
      BY <1>5, <1>6, <1>7, <1>9, <2>1
    <2>2. CASE window > 0
      <3> SUFFICES ASSUME e = u.n PROVE FALSE
        BY <1>5, <1>6, <1>7, <1>9
      <3>1. n - d \in 0 .. e - 1
        BY <1>5, <1>6, <1>7
      <3>2. c.at < c.at - window
        BY <1>7, <1>9, <2>2, <3>1
      <3> QED BY <1>8, <2>2, <3>2
    <2> QED BY <2>1, <2>2
  <1>11. /\ RingOK(r, Observed) /\ r.n = u.n - e
         /\ r.evicted = (u.evicted \/ e > 0)
         /\ \A i \in 0 .. u.n - e - 1 : At(r, i) = At(u, i + e)
    BY <1>1, <1>3, <1>7, <1>9, DropOK
  <1>12. PICK all : all = Append(Retained(ring), c)
    OBVIOUS
  <1>13. /\ all \in Seq(Observed) /\ Len(all) = n + 1
         /\ \A i \in 1 .. n : all[i] = At(ring, i - 1)
         /\ all[n + 1] = c
    <2>1. /\ Retained(ring) \in Seq(Observed) /\ Len(Retained(ring)) = n
          /\ \A i \in 1 .. n : Retained(ring)[i] = At(ring, i - 1)
      BY <1>4, <1>5, RetainedIsAt
    <2> QED BY <1>5, <1>12, <2>1, AppendProperties
  <1>14. ASSUME NEW i \in 0 .. u.n - 1 PROVE At(u, i) = all[i + d + 1]
    <2>1. CASE i = n - d
      BY <1>5, <1>6, <1>7, <1>13, <2>1
    <2>2. CASE i # n - d
      <3>1. i \in 0 .. n - 1 - d /\ i + d + 1 \in 1 .. n /\ (i + d + 1) - 1 = i + d
        BY <1>5, <1>6, <1>7, <2>2
      <3> QED BY <1>7, <1>13, <3>1
    <2> QED BY <2>1, <2>2
  <1>15. Promise!Excess(all) = d + e
    <2> DEFINE S == {k \in 0 .. Len(all) - 1 :
                       /\ Len(all) - k <= MaxCalls
                       /\ window > 0 => all[k + 1].at >= all[Len(all)].at - window}
    <2>1. Promise!Excess(all) = Min(S)
      BY DEF Promise!Excess, Promise!Min, Min
    <2>2. S \in SUBSET Nat
      BY <1>5, <1>13
    <2>3. d + e \in S
      <3>1. d + e \in 0 .. Len(all) - 1 /\ Len(all) - (d + e) <= MaxCalls
        BY <1>5, <1>6, <1>7, <1>9, <1>10, <1>13
      <3>2. ASSUME window > 0 PROVE all[d + e + 1].at >= all[Len(all)].at - window
        <4>1. At(u, e) = all[e + d + 1] /\ e + d + 1 = d + e + 1
          BY <1>5, <1>6, <1>7, <1>9, <1>10, <1>14
        <4>2. ~(At(u, e).at < c.at - window)
          BY <1>5, <1>6, <1>7, <1>9, <1>10, <3>2
        <4>3. At(u, e).at \in Int
          <5>1. At(u, e) \in Observed
            BY <1>5, <1>6, <1>7, <1>9, <1>10 DEF RingOK
          <5> QED BY <5>1, DetectorAssumption DEF Observed
        <4> QED BY <1>8, <1>13, <4>1, <4>2, <4>3
      <3> QED BY <3>1, <3>2
    <2>4. ASSUME NEW k \in S PROVE d + e <= k
      <3> SUFFICES ASSUME k < d + e PROVE FALSE
        BY <1>5, <1>6, <1>7, <1>9, <2>2
      <3>1. k \in Nat /\ n + 1 - k <= MaxCalls
        BY <1>5, <1>13
      <3>2. k >= d
        BY <1>5, <1>6, <3>1
      <3>3. k - d \in 0 .. e - 1 /\ k - d \in 0 .. u.n - 1 /\ (k - d) + d + 1 = k + 1
        BY <1>5, <1>6, <1>7, <1>9, <1>10, <3>1, <3>2
      <3>4. window > 0
        BY <1>9, <3>3
      <3>5. At(u, k - d).at < c.at - window
        BY <1>9, <3>3, <3>4
      <3>6. At(u, k - d) = all[k + 1]
        BY <1>14, <3>3
      <3>7. all[k + 1].at >= c.at - window
        BY <1>13, <3>4
      <3>8. At(u, k - d).at \in Int
        <4>1. At(u, k - d) \in Observed
          BY <1>7, <3>3 DEF RingOK
        <4> QED BY <4>1, DetectorAssumption DEF Observed
      <3> QED BY <1>8, <3>5, <3>6, <3>7, <3>8
    <2> HIDE DEF S
    <2> QED BY <2>1, <2>2, <2>3, <2>4, MinIs
  <1>16. Retained(r) = Promise!Newest(all, d + e)
    <2>1. /\ Retained(r) \in Seq(Observed) /\ Len(Retained(r)) = u.n - e
          /\ \A i \in 1 .. u.n - e : Retained(r)[i] = At(r, i - 1)
      BY <1>11, RetainedIsAt
    <2>2. Promise!Newest(all, d + e) = SubSeq(all, d + e + 1, n + 1)
      BY <1>13 DEF Promise!Newest
    <2>3. /\ SubSeq(all, d + e + 1, n + 1) \in Seq(Observed)
          /\ Len(SubSeq(all, d + e + 1, n + 1)) = n + 1 - (d + e)
          /\ \A i \in 1 .. n + 1 - (d + e) :
               SubSeq(all, d + e + 1, n + 1)[i] = all[d + e + i]
      <3>1. /\ d + e + 1 \in Int /\ n + 1 \in Int /\ d + e + 1 <= n + 1
            /\ \A i \in d + e + 1 .. n + 1 : i \in 1 .. Len(all)
        BY <1>5, <1>6, <1>7, <1>9, <1>10, <1>13
      <3>2. \A i \in d + e + 1 .. n + 1 : all[i] \in Observed
        BY <1>13, <3>1, ElementOfSeq
      <3>3. /\ SubSeq(all, d + e + 1, n + 1) \in Seq(Observed)
            /\ Len(SubSeq(all, d + e + 1, n + 1)) = (n + 1) - (d + e + 1) + 1
            /\ \A i \in 1 .. (n + 1) - (d + e + 1) + 1 :
                 SubSeq(all, d + e + 1, n + 1)[i] = all[(d + e + 1) + i - 1]
        BY <3>1, <3>2, SubSeqProperties
      <3>4. /\ (n + 1) - (d + e + 1) + 1 = n + 1 - (d + e)
            /\ \A i \in 1 .. n + 1 - (d + e) : (d + e + 1) + i - 1 = d + e + i
        BY <1>5, <1>6, <1>7, <1>9
      <3> QED BY <3>3, <3>4
    <2>4. u.n - e = n + 1 - (d + e)
      BY <1>5, <1>6, <1>7, <1>9
    <2>5. ASSUME NEW i \in 1 .. u.n - e
          PROVE  Retained(r)[i] = SubSeq(all, d + e + 1, n + 1)[i]
      <3>1. /\ i - 1 \in 0 .. u.n - e - 1 /\ (i - 1) + e \in 0 .. u.n - 1
            /\ ((i - 1) + e) + d + 1 = d + e + i
        BY <1>5, <1>6, <1>7, <1>9
      <3>2. At(r, i - 1) = At(u, (i - 1) + e)
        BY <1>11, <3>1
      <3>3. At(u, (i - 1) + e) = all[d + e + i]
        BY <1>14, <3>1
      <3> QED BY <2>1, <2>3, <2>4, <3>2, <3>3
    <2> QED BY <2>1, <2>2, <2>3, <2>4, <2>5, SeqEqual
  <1>17. r.evicted = (ring.evicted \/ d + e > 0)
    <2>1. (d = 1 \/ e > 0) <=> d + e > 0
      BY <1>5, <1>6, <1>7, <1>9
    <2> QED BY <1>7, <1>11, <2>1
  <1>18. d + e \in 0 .. n
    BY <1>5, <1>6, <1>7, <1>9, <1>10
  <1> QED BY <1>4, <1>11, <1>12, <1>15, <1>16, <1>17, <1>18

-----------------------------------------------------------------------------
(* The invariant.                                                          *)

LEMMA WindowInNat == DetectorInv => window \in Nat
  BY DetectorAssumption DEF DetectorInv

LEMMA DetectorInvInit == Init => DetectorInv
  <1> SUFFICES ASSUME Init PROVE DetectorInv
    OBVIOUS
  <1>1. RingOK(ring, Observed)
    BY EmptyRingOK DEF Init
  <1>2. 0 \in 0 .. MaxTime /\ Zero \in Observed \cup {Zero}
    BY DetectorAssumption
  <1> QED BY <1>1, <1>2 DEF Init, DetectorInv, Pumps

\* A step of a pump from one place to another; inHand need not be kept.
LEMMA GoKeeps ==
  ASSUME DetectorInv, NEW p \in Pumps, NEW from, NEW to,
         Go(p, from, to), to \in {"idle", "vector", "len", "count"}, inHand' = inHand
  PROVE  /\ pc' \in [Pumps -> {"idle", "observe", "vector", "len", "count"}]
         /\ \A q \in Pumps : pc'[q] = "observe" => inHand'[q] \in Observed
  BY DEF Go, DetectorInv

LEMMA StampKeeps ==
  ASSUME DetectorInv, NEW p \in Pumps, NEW t \in Targets \cup {NoTarget}, Stamp(p, t)
  PROVE  DetectorInv'
  <1>1. PICK c : c = [at |-> clock, target |-> t]
    OBVIOUS
  <1>2. c \in Observed
    BY <1>1 DEF Observed, DetectorInv
  <1>3. /\ inHand \in [Pumps -> Observed \cup {Zero}]
        /\ inHand' = [inHand EXCEPT ![p] = c]
        /\ pc \in [Pumps -> {"idle", "observe", "vector", "len", "count"}]
        /\ pc' = [pc EXCEPT ![p] = "observe"]
    BY <1>1 DEF Stamp, Go, DetectorInv
  <1>4. /\ inHand' \in [Pumps -> Observed \cup {Zero}]
        /\ pc' \in [Pumps -> {"idle", "observe", "vector", "len", "count"}]
    BY <1>2, <1>3
  <1>5. \A q \in Pumps : pc'[q] = "observe" => inHand'[q] \in Observed
    BY <1>2, <1>3 DEF DetectorInv
  <1>6. /\ RingOK(ring', Observed) /\ window' \in Windows
        /\ clock' \in 0 .. MaxTime /\ log' \in Seq(Observed)
    BY DEF Stamp, DetectorInv
  <1> QED BY <1>4, <1>5, <1>6 DEF DetectorInv

LEMMA ObserveStep ==
  ASSUME DetectorInv, NEW p \in Pumps, Observe(p)
  PROVE  DetectorInv' /\ Promise!Observe(inHand[p])
  <1>1. PICK c : c = inHand[p]
    OBVIOUS
  <1>2. c \in Observed
    BY <1>1 DEF Observe, Go, DetectorInv
  <1>3. window \in Nat
    BY WindowInNat
  <1>4. PICK r : r = DropOldest(Push(ring, c), Expired(Push(ring, c), c.at))
    OBVIOUS
  <1>5. ring' = r /\ log' = Append(log, c) /\ window' = window /\ inHand' = inHand
        /\ clock' = clock
    BY <1>1, <1>4 DEF Observe
  <1>6. /\ RingOK(r, Observed)
        /\ LET all == Append(Retained(ring), c)
           IN  /\ Retained(r) = Promise!Newest(all, Promise!Excess(all))
               /\ r.evicted = (ring.evicted \/ Promise!Excess(all) > 0)
    BY <1>2, <1>3, <1>4, ObserveKeeps
  <1>7. log' \in Seq(Observed)
    BY <1>2, <1>5, AppendProperties DEF DetectorInv
  <1>8. PICK to \in {"vector", "idle"} : Go(p, "observe", to)
    BY DEF Observe
  <1>9. /\ pc' \in [Pumps -> {"idle", "observe", "vector", "len", "count"}]
        /\ \A q \in Pumps : pc'[q] = "observe" => inHand'[q] \in Observed
    BY <1>5, <1>8, GoKeeps
  <1>10. DetectorInv'
    BY <1>5, <1>6, <1>7, <1>9 DEF DetectorInv
  <1> QED BY <1>1, <1>5, <1>6, <1>10 DEF Promise!Observe

\* Everything but an observation leaves the session alone.
LEMMA OtherSteps ==
  ASSUME DetectorInv,
         \/ Tick \/ Vector \/ Length \/ CountsInWindow \/ UNCHANGED vars
         \/ \E p \in Pumps : \E t \in Targets \cup {NoTarget} : Stamp(p, t)
  PROVE  DetectorInv' /\ UNCHANGED <<ring, window>>
  <1>1. CASE Tick
    <2>1. clock' \in 0 .. MaxTime
      BY <1>1, DetectorAssumption DEF Tick, DetectorInv
    <2> QED BY <1>1, <2>1 DEF Tick, DetectorInv
  <1>2. CASE \E p \in Pumps : \E t \in Targets \cup {NoTarget} : Stamp(p, t)
    BY <1>2, StampKeeps DEF Stamp
  <1>3. CASE Vector \/ Length \/ CountsInWindow
    <2>1. /\ UNCHANGED <<ring, window, clock, inHand, log>>
          /\ \E from, to : /\ to \in {"idle", "vector", "len", "count"}
                          /\ Go("client", from, to)
      BY <1>3 DEF Vector, Length, CountsInWindow
    <2>2. /\ pc' \in [Pumps -> {"idle", "observe", "vector", "len", "count"}]
          /\ \A q \in Pumps : pc'[q] = "observe" => inHand'[q] \in Observed
      BY <2>1, GoKeeps DEF Pumps
    <2> QED BY <2>1, <2>2 DEF DetectorInv
  <1>4. CASE UNCHANGED vars
    BY <1>4 DEF vars, DetectorInv
  <1> QED BY <1>1, <1>2, <1>3, <1>4

LEMMA DetectorInvNext == DetectorInv /\ [Next]_vars => DetectorInv'
  BY ObserveStep, OtherSteps DEF Next

LEMMA DetectorInvAlways == Spec => []DetectorInv
  BY DetectorInvInit, DetectorInvNext, PTL DEF Spec

-----------------------------------------------------------------------------
\* ring.push, dropOldest and evictLocked keep the buffer, its head and its
\* count inside the allocation, and the allocation inside MaxCalls.
THEOREM DetectorTypeCorrect == Spec => []TypeOK
  <1>1. DetectorInv => TypeOK
    BY RingAssumption DEF DetectorInv, TypeOK, RingOK, RingShape, Greatest
  <1> QED BY <1>1, DetectorInvAlways, PTL

\* No slot outside the retained calls holds on to one: what dropOldest lets go
\* and what push overwrites is gone from memory, at every capacity.
THEOREM SlotsCleared == Spec => []EvictedSlotsCleared
  <1>1. DetectorInv => EvictedSlotsCleared
    BY DEF DetectorInv, RingOK, Cleared, EvictedSlotsCleared
  <1> QED BY <1>1, DetectorInvAlways, PTL

\* The circular buffer under two pumps implements the plain sequence of History:
\* Observe is its Observe and every other step a stutter.
THEOREM HistoryCorrect == Spec => ImplementsHistory
  <1>1. Init => Promise!Init
    <2> SUFFICES ASSUME Init PROVE Promise!Init
      OBVIOUS
    <2>1. /\ Retained(ring) \in Seq(Observed) /\ Len(Retained(ring)) = ring.n
      BY EmptyRingOK, RetainedIsAt DEF Init
    <2>2. ring.n = 0 /\ ring.evicted = FALSE
      BY DEF Init, EmptyRing
    <2> QED BY <2>1, <2>2, EmptySeq DEF Promise!Init
  <1>2. DetectorInv /\ [Next]_vars => [Promise!Next]_(Promise!vars)
    <2> SUFFICES ASSUME DetectorInv, [Next]_vars
                 PROVE  [Promise!Next]_(Promise!vars)
      OBVIOUS
    <2>1. CASE \E p \in Pumps : Observe(p)
      <3>1. PICK p \in Pumps : Observe(p)
        BY <2>1
      <3>2. inHand[p] \in Observed
        BY <3>1 DEF Observe, Go, DetectorInv
      <3> QED BY <3>1, <3>2, ObserveStep DEF Promise!Next
    <2>2. CASE ~\E p \in Pumps : Observe(p)
      <3>1. UNCHANGED <<ring, window>>
        BY <2>2, OtherSteps DEF Next
      <3> QED BY <3>1 DEF Promise!vars
    <2> QED BY <2>1, <2>2
  <1> QED BY <1>1, <1>2, DetectorInvAlways, PTL DEF Spec, ImplementsHistory, Promise!Spec

-----------------------------------------------------------------------------
(* What the reports say.  The retained calls are the newest of the session *)
(* and, as long as nothing was let go, all of it.                          *)

SuffixInv ==
  /\ ring.n <= Len(log) /\ (ring.evicted \/ ring.n = Len(log))
  /\ \A i \in 1 .. ring.n : Retained(ring)[i] = log[Len(log) - ring.n + i]

LEMMA SuffixInit == Init => SuffixInv
  <1> SUFFICES ASSUME Init PROVE SuffixInv
    OBVIOUS
  <1>1. ring.n = 0 /\ Len(log) = 0
    BY EmptyRingOK, EmptySeq DEF Init
  <1> QED BY <1>1 DEF SuffixInv

LEMMA SuffixObserve ==
  ASSUME DetectorInv, SuffixInv, NEW p \in Pumps, Observe(p)
  PROVE  SuffixInv'
  <1>1. PICK c : c = inHand[p]
    OBVIOUS
  <1>2. c \in Observed
    BY <1>1 DEF Observe, Go, DetectorInv
  <1>3. PICK r : r = DropOldest(Push(ring, c), Expired(Push(ring, c), c.at))
    OBVIOUS
  <1>4. PICK q : q = Retained(ring)
    OBVIOUS
  <1>5. PICK all : all = Append(q, c)
    OBVIOUS
  <1>6. PICK k : k = Promise!Excess(all)
    OBVIOUS
  <1>7. PICK n : n = ring.n
    OBVIOUS
  <1>8. PICK m : m = Len(log)
    OBVIOUS
  <1>9. /\ RingOK(r, Observed) /\ Retained(r) = Promise!Newest(all, k)
        /\ r.evicted = (ring.evicted \/ k > 0) /\ k \in 0 .. n
    BY <1>2, <1>3, <1>4, <1>5, <1>6, <1>7, WindowInNat, ObserveKeeps
  <1>10. /\ q \in Seq(Observed) /\ Len(q) = n /\ n \in Nat
    BY <1>4, <1>7, RetainedIsAt, LenProperties DEF DetectorInv
  <1>11. /\ all \in Seq(Observed) /\ Len(all) = n + 1 /\ all[n + 1] = c
         /\ \A i \in 1 .. n : all[i] = q[i]
    BY <1>2, <1>5, <1>10, AppendProperties
  <1>12. /\ Len(Retained(r)) = n + 1 - k
         /\ \A i \in 1 .. n + 1 - k : Retained(r)[i] = all[k + i]
    <2>1. \A i \in k + 1 .. n + 1 : all[i] \in Observed
      BY <1>9, <1>10, <1>11, ElementOfSeq
    <2>2. /\ Len(SubSeq(all, k + 1, n + 1)) = n + 1 - (k + 1) + 1
          /\ \A i \in 1 .. n + 1 - (k + 1) + 1 :
               SubSeq(all, k + 1, n + 1)[i] = all[(k + 1) + i - 1]
      BY <1>9, <1>10, <2>1, SubSeqProperties
    <2>3. /\ n + 1 - (k + 1) + 1 = n + 1 - k
          /\ \A i \in 1 .. n + 1 - k : (k + 1) + i - 1 = k + i
      BY <1>9, <1>10
    <2> QED BY <1>9, <1>11, <2>2, <2>3 DEF Promise!Newest
  <1>13. r.n = n + 1 - k
    BY <1>9, <1>12, RetainedIsAt
  <1>14. /\ log \in Seq(Observed) /\ m \in Nat /\ n <= m
         /\ Len(log') = m + 1 /\ log'[m + 1] = c /\ \A i \in 1 .. m : log'[i] = log[i]
    BY <1>1, <1>2, <1>7, <1>8, AppendProperties, LenProperties
       DEF Observe, DetectorInv, SuffixInv
  <1>15. ASSUME NEW i \in 1 .. n + 1 - k PROVE all[k + i] = log'[(m + 1) - (n + 1 - k) + i]
    <2>1. CASE k + i = n + 1
      <3>1. (m + 1) - (n + 1 - k) + i = m + 1
        BY <1>9, <1>10, <1>14, <2>1
      <3> QED BY <1>11, <1>14, <2>1, <3>1
    <2>2. CASE k + i # n + 1
      <3>1. /\ k + i \in 1 .. n /\ (m + 1) - (n + 1 - k) + i = m - n + (k + i)
            /\ m - n + (k + i) \in 1 .. m
        BY <1>9, <1>10, <1>14, <2>2
      <3>2. q[k + i] = log[m - n + (k + i)]
        BY <1>4, <1>7, <1>8, <3>1 DEF SuffixInv
      <3> QED BY <1>11, <1>14, <3>1, <3>2
    <2> QED BY <2>1, <2>2
  <1>16. ring' = r
    BY <1>1, <1>3 DEF Observe
  <1>17. n + 1 - k <= m + 1 /\ (r.evicted \/ n + 1 - k = m + 1)
    <2>1. n + 1 - k <= m + 1
      BY <1>9, <1>10, <1>14
    <2>2. r.evicted \/ ~(k > 0)
      BY <1>9
    <2>3. r.evicted \/ ~ring.evicted
      BY <1>9
    <2>4. ~ring.evicted => n = m
      BY <1>7, <1>8 DEF SuffixInv
    <2>5. ~(k > 0) /\ n = m => n + 1 - k = m + 1
      BY <1>9, <1>10
    <2> QED BY <2>1, <2>2, <2>3, <2>4, <2>5
  <1> QED BY <1>12, <1>13, <1>14, <1>15, <1>16, <1>17 DEF SuffixInv

LEMMA SuffixNext == DetectorInv /\ SuffixInv /\ [Next]_vars => SuffixInv'
  <1>1. \/ Tick \/ Vector \/ Length \/ CountsInWindow \/ UNCHANGED vars
        \/ \E p \in Pumps : \E t \in Targets \cup {NoTarget} : Stamp(p, t)
        => UNCHANGED <<ring, log>>
    BY DEF Tick, Vector, Length, CountsInWindow, Stamp, vars
  <1>2. SuffixInv /\ UNCHANGED <<ring, log>> => SuffixInv'
    BY DEF SuffixInv
  <1> QED BY <1>1, <1>2, SuffixObserve DEF Next

LEMMA SuffixAlways == Spec => []SuffixInv
  BY SuffixInit, SuffixNext, DetectorInvAlways, PTL DEF Spec

\* The calls of q that name a target in T, as Walk numbers them.
CallsTo(q, T)  == {i \in DOMAIN q : q[i].target \in T}
WalkTo(q, T) ==
  {x \in {[index |-> i - 1, target |-> q[i].target] : i \in DOMAIN q} : x.target \in T}

\* The first of those is the least number, and no two calls have one number.
LEMMA WalkFindsFirst ==
  ASSUME NEW q \in Seq(Observed), NEW T
  PROVE  /\ Cardinality(WalkTo(q, T)) = Cardinality(CallsTo(q, T))
         /\ CallsTo(q, T) = {} => First(WalkTo(q, T)) = -1
         /\ CallsTo(q, T) # {} =>
              /\ First(WalkTo(q, T)) \in Nat /\ First(WalkTo(q, T)) + 1 \in CallsTo(q, T)
              /\ \A i \in 1 .. First(WalkTo(q, T)) : i \notin CallsTo(q, T)
  <1> DEFINE f == [i \in CallsTo(q, T) |-> [index |-> i - 1, target |-> q[i].target]]
  <1>1. /\ DOMAIN q = 1 .. Len(q) /\ Len(q) \in Nat
        /\ CallsTo(q, T) \subseteq 1 .. Len(q)
    BY LenProperties DEF CallsTo
  <1>2. WalkTo(q, T) = {f[i] : i \in CallsTo(q, T)}
    <2>1. ASSUME NEW x \in WalkTo(q, T) PROVE \E i \in CallsTo(q, T) : x = f[i]
      <3>1. PICK i \in DOMAIN q : x = [index |-> i - 1, target |-> q[i].target]
        BY DEF WalkTo
      <3>2. i \in CallsTo(q, T)
        BY <3>1 DEF WalkTo, CallsTo
      <3> QED BY <3>1, <3>2
    <2>2. ASSUME NEW i \in CallsTo(q, T) PROVE f[i] \in WalkTo(q, T)
      <3>1. f[i] = [index |-> i - 1, target |-> q[i].target] /\ f[i].target = q[i].target
        OBVIOUS
      <3>2. i \in DOMAIN q /\ q[i].target \in T
        BY DEF CallsTo
      <3> HIDE DEF f
      <3> QED BY <3>1, <3>2 DEF WalkTo
    <2> HIDE DEF f
    <2> QED BY <2>1, <2>2
  <1>3. \A i \in CallsTo(q, T) : f[i].index = i - 1
    OBVIOUS
  <1>4. f \in [CallsTo(q, T) -> WalkTo(q, T)]
    BY <1>2
  <1> HIDE DEF f
  <1>5. \A i, j \in CallsTo(q, T) : f[i] = f[j] => i = j
    <2> SUFFICES ASSUME NEW i \in CallsTo(q, T), NEW j \in CallsTo(q, T), f[i] = f[j]
                 PROVE  i = j
      OBVIOUS
    <2>1. i - 1 = j - 1
      BY <1>3
    <2> QED BY <1>1, <2>1
  <1>6. Cardinality(WalkTo(q, T)) = Cardinality(CallsTo(q, T))
    <2>1. f \in Bijection(CallsTo(q, T), WalkTo(q, T))
      BY <1>2, <1>4, <1>5, Fun_IsBij
    <2>2. ExistsBijection(CallsTo(q, T), WalkTo(q, T))
      BY <2>1 DEF ExistsBijection
    <2>3. IsFiniteSet(CallsTo(q, T))
      <3>1. IsFiniteSet(1 .. Len(q))
        BY <1>1, FS_Interval
      <3> QED BY <1>1, <3>1, FS_Subset
    <2> QED BY <2>2, <2>3, FS_Bijection
  <1>7. ASSUME CallsTo(q, T) = {} PROVE First(WalkTo(q, T)) = -1
    BY <1>2, <1>7 DEF First
  <1>8. ASSUME CallsTo(q, T) # {}
        PROVE  /\ First(WalkTo(q, T)) \in Nat /\ First(WalkTo(q, T)) + 1 \in CallsTo(q, T)
               /\ \A i \in 1 .. First(WalkTo(q, T)) : i \notin CallsTo(q, T)
    <2>1. PICK S : S = {x.index : x \in WalkTo(q, T)}
      OBVIOUS
    <2>2. S = {i - 1 : i \in CallsTo(q, T)}
      BY <1>2, <1>3, <2>1
    <2>3. S \in SUBSET Nat /\ S # {}
      BY <1>1, <1>8, <2>2
    <2>4. PICK k \in S : \A x \in S : k <= x
      BY <2>3, LeastExists
    <2>5. First(WalkTo(q, T)) = k
      <3>1. WalkTo(q, T) # {} /\ Min(S) = k
        BY <2>1, <2>3, <2>4, MinIs
      <3> QED BY <2>1, <3>1 DEF First
    <2>6. PICK j \in CallsTo(q, T) : k = j - 1
      BY <2>2
    <2>7. k + 1 = j
      BY <1>1, <2>6
    <2>8. ASSUME NEW i \in 1 .. k PROVE i \notin CallsTo(q, T)
      <3> SUFFICES ASSUME i \in CallsTo(q, T) PROVE FALSE
        OBVIOUS
      <3>1. i - 1 \in S
        BY <2>2
      <3> QED BY <2>3, <2>4, <2>8, <3>1
    <2> QED BY <2>3, <2>5, <2>6, <2>7, <2>8
  <1> QED BY <1>6, <1>7, <1>8

\* ResourceSummary and ScopeReport number the calls across the wrap: the call
\* they name as the first is the first in the session's newest calls, and they
\* count them all.
THEOREM ReportsAreTrue == Spec => []ReportsNameTheCall
  <1>1. DetectorInv /\ SuffixInv => ReportsNameTheCall
    <2> SUFFICES ASSUME DetectorInv, SuffixInv PROVE ReportsNameTheCall
      OBVIOUS
    <2>1. PICK q : q = Retained(ring)
      OBVIOUS
    <2>2. /\ q \in Seq(Observed) /\ Len(q) = ring.n /\ DOMAIN q = 1 .. ring.n
          /\ ring.n \in Nat
      BY <2>1, RetainedIsAt, LenProperties DEF DetectorInv
    <2>3. SubSeq(log, Len(log) - ring.n + 1, Len(log)) = q
      <3>1. PICK m : m = Len(log)
        OBVIOUS
      <3>2. PICK n : n = ring.n
        OBVIOUS
      <3>3. m \in Nat /\ n \in 0 .. m /\ log \in Seq(Observed)
        BY <2>2, <3>1, <3>2, LenProperties DEF DetectorInv, SuffixInv
      <3>4. PICK s : s = SubSeq(log, m - n + 1, m)
        OBVIOUS
      <3>5. \A i \in m - n + 1 .. m : log[i] \in Observed
        BY <3>1, <3>3, ElementOfSeq
      <3>6. /\ s \in Seq(Observed) /\ Len(s) = (IF m - n + 1 <= m THEN m - (m - n + 1) + 1 ELSE 0)
            /\ \A i \in 1 .. m - (m - n + 1) + 1 : s[i] = log[(m - n + 1) + i - 1]
        BY <3>3, <3>4, <3>5, SubSeqProperties
      <3>7. /\ Len(s) = n /\ \A i \in 1 .. n : s[i] = log[m - n + i]
        <4>1. /\ (IF m - n + 1 <= m THEN m - (m - n + 1) + 1 ELSE 0) = n
              /\ m - (m - n + 1) + 1 = n
              /\ \A i \in 1 .. n : (m - n + 1) + i - 1 = m - n + i
          BY <3>3
        <4> QED BY <3>6, <4>1
      <3>8. \A i \in 1 .. n : s[i] = q[i]
        BY <2>1, <3>1, <3>2, <3>7 DEF SuffixInv
      <3>9. s = q
        BY <2>2, <3>2, <3>6, <3>7, <3>8, SeqEqual
      <3> QED BY <3>1, <3>2, <3>4, <3>9
    <2>4. Walk(ring) = {[index |-> i - 1, target |-> q[i].target] : i \in DOMAIN q}
      BY <2>1 DEF Walk, Retained
    <2>5. ASSUME NEW T, NoTarget \notin T
          PROVE  {x \in Named(ring) : x.target \in T} = WalkTo(q, T)
      BY <2>4, <2>5 DEF Named, WalkTo
    <2>6. NoTarget \notin Places
      BY DetectorAssumption
    <2> DEFINE out    == Places \ Inside
               placed == {x \in Named(ring) : x.target \in Places}
    <2>7. placed = WalkTo(q, Places)
      BY <2>5, <2>6
    <2>8. {x \in placed : x.target \notin Inside} = WalkTo(q, out)
      <3>1. {x \in placed : x.target \notin Inside} = {x \in Named(ring) : x.target \in out}
        OBVIOUS
      <3> QED BY <2>5, <2>6, <3>1
    <2>9. /\ ScopeReport(ring).first = First(WalkTo(q, out))
          /\ ScopeReport(ring).outOfScope = Cardinality(WalkTo(q, out))
          /\ ScopeReport(ring).calls = Cardinality(WalkTo(q, Places))
      BY <2>7, <2>8 DEF ScopeReport
    <2>10. ASSUME NEW t \in DOMAIN ResourceSummary(ring).roots
           PROVE  /\ ResourceSummary(ring).roots[t].firstCall = First(WalkTo(q, {t}))
                  /\ ResourceSummary(ring).roots[t].calls = Cardinality(WalkTo(q, {t}))
      <3>1. ResourceSummary(ring).roots = Groups(Named(ring))
        BY DEF ResourceSummary
      <3>2. t \in {x.target : x \in Named(ring)}
        BY <3>1 DEF Groups
      <3>3. t # NoTarget
        BY <3>2 DEF Named
      <3>4. {x \in Named(ring) : x.target = t} = WalkTo(q, {t})
        <4>1. {x \in Named(ring) : x.target = t} = {x \in Named(ring) : x.target \in {t}}
          OBVIOUS
        <4> QED BY <2>5, <3>3, <4>1
      <3>5. Groups(Named(ring))[t] = [calls |-> Cardinality(WalkTo(q, {t})),
                                      firstCall |-> First(WalkTo(q, {t}))]
        BY <3>2, <3>4 DEF Groups
      <3> QED BY <3>1, <3>5
    <2>11. ASSUME NEW T
           PROVE  /\ Cardinality(WalkTo(q, T)) = Cardinality({i \in DOMAIN q : q[i].target \in T})
                  /\ IF \E i \in DOMAIN q : q[i].target \in T
                       THEN /\ First(WalkTo(q, T)) + 1 \in DOMAIN q
                            /\ q[First(WalkTo(q, T)) + 1].target \in T
                            /\ \A i \in 1 .. First(WalkTo(q, T)) : q[i].target \notin T
                       ELSE First(WalkTo(q, T)) = -1
      <3>1. {i \in DOMAIN q : q[i].target \in T} = CallsTo(q, T)
        BY DEF CallsTo
      <3>2. CASE CallsTo(q, T) = {}
        BY <2>2, <3>1, <3>2, WalkFindsFirst
      <3>3. CASE CallsTo(q, T) # {}
        <4>1. PICK k : k = First(WalkTo(q, T))
          OBVIOUS
        <4>2. k \in Nat /\ k + 1 \in CallsTo(q, T) /\ \A i \in 1 .. k : i \notin CallsTo(q, T)
          BY <2>2, <3>3, <4>1, WalkFindsFirst
        <4>3. k + 1 \in DOMAIN q /\ q[k + 1].target \in T
          BY <3>1, <4>2
        <4>4. \A i \in 1 .. k : i \in DOMAIN q
          BY <2>2, <4>2, <4>3
        <4>5. \A i \in 1 .. k : q[i].target \notin T
          BY <3>1, <4>2, <4>4
        <4> QED BY <2>2, <3>1, <4>1, <4>3, <4>5, WalkFindsFirst
      <3> QED BY <3>2, <3>3
    <2> DEFINE kept == SubSeq(log, Len(log) - ring.n + 1, Len(log))
               roots == ResourceSummary(ring).roots
               IsFirst(first, T) ==
                 IF \E i \in DOMAIN kept : kept[i].target \in T
                   THEN /\ first + 1 \in DOMAIN kept /\ kept[first + 1].target \in T
                        /\ \A i \in 1 .. first : kept[i].target \notin T
                   ELSE first = -1
               Number(T) == Cardinality({i \in DOMAIN kept : kept[i].target \in T})
    <2>12. kept = q
      BY <2>3
    <2>13. ASSUME NEW T
           PROVE  IsFirst(First(WalkTo(q, T)), T) /\ Cardinality(WalkTo(q, T)) = Number(T)
      <3> HIDE DEF kept
      <3> QED BY <2>11, <2>12
    <2>14. IsFirst(ScopeReport(ring).first, out) /\ ScopeReport(ring).outOfScope = Number(out)
      <3> HIDE DEF out, IsFirst, Number
      <3> QED BY <2>9, <2>13
    <2>15. ScopeReport(ring).calls = Number(Places)
      <3> HIDE DEF Number
      <3> QED BY <2>9, <2>13
    <2>16. \A t \in DOMAIN roots :
             IsFirst(roots[t].firstCall, {t}) /\ roots[t].calls = Number({t})
      <3> HIDE DEF IsFirst, Number
      <3> QED BY <2>10, <2>13
    <2> QED BY <2>14, <2>15, <2>16, Zenon DEF ReportsNameTheCall
  <1> QED BY <1>1, DetectorInvAlways, SuffixAlways, PTL

-----------------------------------------------------------------------------
(* What a rate rule sees.                                                  *)

Since(m, cutoff) == {i \in 1 .. m : log[i].at >= cutoff}
Distinct(S)      == Cardinality({log[i].target : i \in S} \ {NoTarget})

LEMMA TargetsFinite ==
  ASSUME NEW m \in Nat, NEW S \in SUBSET (1 .. m)
  PROVE  IsFiniteSet(S) /\ IsFiniteSet({log[i].target : i \in S} \ {NoTarget})
  <1> DEFINE T == {log[i].target : i \in S}
             f == [i \in S |-> log[i].target]
  <1>1. IsFiniteSet(S)
    <2>1. IsFiniteSet(1 .. m)
      BY FS_Interval
    <2> QED BY <2>1, FS_Subset
  <1>2. f \in [S -> T] /\ \A t \in T : \E i \in S : f[i] = t
    OBVIOUS
  <1>3. IsFiniteSet(T)
    <2> HIDE DEF f, T
    <2>1. f \in Surjection(S, T)
      BY <1>2, Fun_IsSurj
    <2> QED BY <1>1, <2>1, FS_Surjection
  <1>4. T \ {NoTarget} \in SUBSET T
    OBVIOUS
  <1>5. IsFiniteSet(T \ {NoTarget})
    <2> HIDE DEF T
    <2> QED BY <1>3, <1>4, FS_Subset
  <1> QED BY <1>1, <1>5

\* Walking back from the newest retained call to the first before the cutoff
\* counts no more than the session has since then, and all of it if its calls
\* are in order and the walk did not run out of a history that lacks some.
LEMMA CountTells ==
  ASSUME DetectorInv, SuffixInv, NEW now \in Int, NEW x, x = Count(Retained(ring), now),
         NEW S, S = Since(Len(log), now - RateWindow)
  PROVE  /\ x.of = Len(log) /\ x.now = now
         /\ x.calls <= Cardinality(S) /\ x.targets <= Distinct(S)
         /\ InOrder /\ ~x.truncated => x.calls = Cardinality(S) /\ x.targets = Distinct(S)
  <1>1. PICK m : m = Len(log)
    OBVIOUS
  <1>2. PICK n : n = ring.n
    OBVIOUS
  <1>3. PICK q : q = Retained(ring)
    OBVIOUS
  <1>4. PICK cutoff : cutoff = now - RateWindow
    OBVIOUS
  <1>5. /\ m \in Nat /\ n \in 0 .. m /\ cutoff \in Int
        /\ log \in Seq(Observed) /\ DOMAIN log = 1 .. m
        /\ q \in Seq(Observed) /\ Len(q) = n
        /\ \A i \in 1 .. n : q[i] = log[m - n + i]
        /\ ring.evicted \/ n = m
    <2>1. q \in Seq(Observed) /\ Len(q) = n /\ log \in Seq(Observed)
      BY <1>2, <1>3, RetainedIsAt DEF DetectorInv
    <2>2. cutoff \in Int
      BY <1>4, DetectorAssumption
    <2> QED BY <1>1, <1>2, <1>3, <2>1, <2>2, LenProperties DEF SuffixInv
  <1>6. PICK K : K = {j \in 0 .. n : \A i \in n - j + 1 .. n : q[i].at >= cutoff}
    OBVIOUS
  <1>7. PICK k : k = Max(K)
    OBVIOUS
  <1>8. PICK s : s = SubSeq(q, n - k + 1, n)
    OBVIOUS
  <1>9. /\ x.calls = k /\ x.targets = DistinctIn(s)
        /\ x.truncated = (k = n /\ ring.evicted)
        /\ x.now = now /\ x.of = m
    BY <1>1, <1>3, <1>4, <1>5, <1>6, <1>7, <1>8 DEF Count
  <1>10. k \in K /\ \A j \in K : j <= k
    <2>1. K \in SUBSET (0 .. n) /\ 0 \in K /\ n \in Nat
      BY <1>5, <1>6
    <2> QED BY <1>7, <2>1, MaxIs
  <1>11. k \in 0 .. n /\ \A i \in n - k + 1 .. n : q[i].at >= cutoff
    BY <1>6, <1>10
  <1>12. \A i \in 1 .. m : log[i].at \in Int
    <2>1. \A i \in 1 .. m : log[i] \in Observed
      BY <1>1, <1>5, ElementOfSeq
    <2> QED BY <2>1, DetectorAssumption DEF Observed
  <1>13. PICK L : L = m - k + 1 .. m
    OBVIOUS
  <1>14. S = {i \in 1 .. m : log[i].at >= cutoff}
    BY <1>1, <1>4 DEF Since
  <1>15. L \in SUBSET S
    <2> SUFFICES ASSUME NEW i \in L PROVE i \in S
      OBVIOUS
    <2>1. /\ i \in 1 .. m /\ i - m + n \in n - k + 1 .. n /\ i - m + n \in 1 .. n
          /\ m - n + (i - m + n) = i
      BY <1>5, <1>11, <1>13
    <2>2. q[i - m + n] = log[i]
      BY <1>5, <2>1
    <2> QED BY <1>11, <1>14, <2>1, <2>2
  <1>16. Cardinality(L) = k
    <2>1. m - k + 1 \in Int /\ m \in Int /\ k \in Nat
      BY <1>5, <1>11
    <2>2. Cardinality(L) = IF m - k + 1 > m THEN 0 ELSE m - (m - k + 1) + 1
      BY <1>13, <2>1, FS_Interval
    <2> QED BY <1>5, <2>1, <2>2
  <1>17. DistinctIn(s) = Distinct(L)
    <2>1. Len(s) = k /\ s \in Seq(Observed) /\ \A i \in 1 .. k : s[i] = q[n - k + i]
      <3>1. \A i \in n - k + 1 .. n : q[i] \in Observed
        BY <1>5, <1>11, ElementOfSeq
      <3>2. n - k + 1 \in Int /\ n \in Int
        BY <1>5, <1>11
      <3>3. /\ Len(s) = (IF n - k + 1 <= n THEN n - (n - k + 1) + 1 ELSE 0)
            /\ s \in Seq(Observed)
            /\ \A i \in 1 .. n - (n - k + 1) + 1 : s[i] = q[(n - k + 1) + i - 1]
        BY <1>8, <3>1, <3>2, SubSeqProperties
      <3>4. /\ (IF n - k + 1 <= n THEN n - (n - k + 1) + 1 ELSE 0) = k
            /\ n - (n - k + 1) + 1 = k
            /\ \A i \in 1 .. k : (n - k + 1) + i - 1 = n - k + i
        BY <1>5, <1>11
      <3> QED BY <3>3, <3>4
    <2>2. DOMAIN s = 1 .. k
      BY <2>1, LenProperties
    <2>3. ASSUME NEW i \in 1 .. k PROVE m - k + i \in L /\ s[i] = log[m - k + i]
      <3>1. /\ n - k + i \in 1 .. n /\ m - n + (n - k + i) = m - k + i
            /\ m - k + i \in m - k + 1 .. m
        BY <1>5, <1>11
      <3> QED BY <1>5, <1>13, <2>1, <3>1
    <2>4. ASSUME NEW i \in L PROVE i - m + k \in 1 .. k /\ log[i] = s[i - m + k]
      <3>1. i - m + k \in 1 .. k /\ m - k + (i - m + k) = i
        BY <1>5, <1>11, <1>13
      <3> QED BY <2>3, <3>1
    <2>5. {s[i].target : i \in DOMAIN s} = {log[i].target : i \in L}
      BY <2>2, <2>3, <2>4
    <2> QED BY <2>5 DEF DistinctIn, Distinct
  <1>18. /\ IsFiniteSet(S) /\ IsFiniteSet({log[i].target : i \in S} \ {NoTarget})
    <2>1. S \in SUBSET (1 .. m)
      BY <1>14
    <2> QED BY <1>5, <2>1, TargetsFinite
  <1>19. k <= Cardinality(S)
    BY <1>15, <1>16, <1>18, FS_Subset
  <1>20. Distinct(L) <= Distinct(S)
    <2>1. {log[i].target : i \in L} \ {NoTarget} \in SUBSET ({log[i].target : i \in S} \ {NoTarget})
      BY <1>15
    <2> QED BY <1>18, <2>1, FS_Subset DEF Distinct
  <1>21. ASSUME InOrder, ~x.truncated PROVE S = L
    <2> SUFFICES ASSUME NEW i \in S, i \notin L PROVE FALSE
      BY <1>15
    <2>1. i \in 1 .. m /\ i <= m - k /\ log[i].at >= cutoff
      BY <1>5, <1>11, <1>13, <1>14
    <2>2. k # n
      <3> SUFFICES ASSUME k = n PROVE FALSE
        OBVIOUS
      <3>1. ~ring.evicted
        BY <1>9, <1>21
      <3>2. n = m
        BY <1>5, <3>1
      <3> QED BY <1>5, <2>1, <3>2
    <2>3. n - k \in 1 .. n /\ k + 1 \in 0 .. n /\ m - n + (n - k) = m - k /\ m - k \in 1 .. m
      BY <1>5, <1>11, <2>2
    <2>4. ~(q[n - k].at >= cutoff)
      <3> SUFFICES ASSUME q[n - k].at >= cutoff PROVE k + 1 \in K
        BY <1>10, <1>11
      <3>1. ASSUME NEW j \in n - (k + 1) + 1 .. n PROVE q[j].at >= cutoff
        <4>1. j = n - k \/ j \in n - k + 1 .. n
          BY <1>5, <1>11
        <4> QED BY <1>11, <4>1
      <3> QED BY <1>6, <2>3, <3>1
    <2>5. ~(log[m - k].at >= cutoff)
      BY <1>5, <2>3, <2>4
    <2>6. log[i].at <= log[m - k].at
      <3>1. CASE i = m - k
        BY <1>12, <2>1, <3>1
      <3>2. CASE i # m - k
        <4>1. i < m - k
          <5>1. i \in Int /\ m - k \in Int
            BY <1>5, <1>11, <2>1
          <5> QED BY <2>1, <3>2, <5>1
        <4> QED BY <1>5, <1>21, <2>1, <2>3, <4>1 DEF InOrder
      <3> QED BY <3>1, <3>2
    <2>7. PICK u \in Int, v \in Int : u = log[i].at /\ v = log[m - k].at
      BY <1>12, <2>1, <2>3
    <2>8. cutoff \in Int /\ u >= cutoff /\ ~(v >= cutoff) /\ u <= v
      BY <1>5, <2>1, <2>5, <2>6, <2>7
    <2> QED BY <2>8
  <1> QED BY <1>1, <1>9, <1>16, <1>17, <1>19, <1>20, <1>21

\* The counts stay what they were found to be, while later calls are observed.
CountInv ==
  /\ pc["client"] \in {"vector", "len", "count"} => inHand["client"] \in Observed
  /\ counts.of \in 0 .. Len(log)
  /\ CountsAreHonest

LEMMA CountInit == Init => CountInv
  <1> SUFFICES ASSUME Init PROVE CountInv
    OBVIOUS
  <1>1. pc["client"] = "idle" /\ Len(log) = 0 /\ counts = NoCounts
    BY EmptySeq DEF Init, Pumps
  <1>2. counts.of = 0 /\ counts.calls = 0 /\ counts.targets = 0
    BY <1>1 DEF NoCounts
  <1>3. InWindow = {} /\ {log[i].target : i \in InWindow} \ {NoTarget} = {}
    BY <1>2 DEF InWindow
  <1>4. Cardinality(InWindow) = 0 /\ DistinctInWindow = 0
    BY <1>3, FS_EmptySet DEF DistinctInWindow
  <1> QED BY <1>1, <1>2, <1>4 DEF CountInv, CountsAreHonest

\* A longer log has the same calls up to the one that was counted.
LEMMA HonestFrame ==
  ASSUME DetectorInv, CountInv, counts' = counts, log' \in Seq(Observed),
         Len(log) <= Len(log'), \A i \in 1 .. Len(log) : log'[i] = log[i]
  PROVE  counts'.of \in 0 .. Len(log') /\ CountsAreHonest'
  <1>1. /\ Len(log) \in Nat /\ DOMAIN log = 1 .. Len(log)
        /\ Len(log') \in Nat /\ DOMAIN log' = 1 .. Len(log')
    BY LenProperties DEF DetectorInv
  <1>2. counts.of \in 0 .. Len(log)
    BY DEF CountInv
  <1>3. InWindow' = InWindow
    BY <1>1, <1>2 DEF InWindow
  <1>4. \A i \in InWindow : i \in 1 .. Len(log)
    BY <1>1, <1>2 DEF InWindow
  <1>5. DistinctInWindow' = DistinctInWindow
    <2>1. {log'[i].target : i \in InWindow'} = {log[i].target : i \in InWindow}
      BY <1>3, <1>4
    <2> QED BY <2>1 DEF DistinctInWindow
  <1>6. InOrder' => InOrder
    <2> SUFFICES ASSUME InOrder', NEW i \in DOMAIN log, NEW j \in DOMAIN log, i < j
                 PROVE  log[i].at <= log[j].at
      BY DEF InOrder
    <2>1. i \in DOMAIN log' /\ j \in DOMAIN log' /\ log'[i] = log[i] /\ log'[j] = log[j]
      BY <1>1
    <2> QED BY <2>1 DEF InOrder
  <1> QED BY <1>1, <1>2, <1>3, <1>5, <1>6 DEF CountInv, CountsAreHonest

LEMMA CountNext == DetectorInv /\ SuffixInv /\ CountInv /\ [Next]_vars => CountInv'
  <1> SUFFICES ASSUME DetectorInv, SuffixInv, CountInv, [Next]_vars PROVE CountInv'
    OBVIOUS
  <1>1. pc \in [Pumps -> {"idle", "observe", "vector", "len", "count"}] /\ "client" \in Pumps
    BY DEF DetectorInv, Pumps
  <1>2. ASSUME UNCHANGED <<counts, log>>
        PROVE  counts'.of \in 0 .. Len(log') /\ CountsAreHonest'
    <2>1. Len(log) \in Nat
      BY LenProperties DEF DetectorInv
    <2> QED BY <1>2, <2>1, HonestFrame DEF DetectorInv
  <1>3. CASE Tick \/ UNCHANGED vars
    BY <1>2, <1>3 DEF Tick, vars, CountInv
  <1>4. ASSUME NEW p \in Pumps, NEW t \in Targets \cup {NoTarget}, Stamp(p, t)
        PROVE  CountInv'
    <2>1. /\ pc[p] = "idle" /\ pc' = [pc EXCEPT ![p] = "observe"]
          /\ \A r : r # p => inHand'[r] = inHand[r]
          /\ UNCHANGED <<counts, log>>
      BY <1>4 DEF Stamp, Go, DetectorInv
    <2>2. pc'["client"] \in {"vector", "len", "count"} => inHand'["client"] \in Observed
      BY <1>1, <2>1 DEF CountInv
    <2> QED BY <1>2, <2>1, <2>2 DEF CountInv
  <1>5. ASSUME NEW p \in Pumps, Observe(p)
        PROVE  CountInv'
    <2>1. PICK c : c = inHand[p]
      OBVIOUS
    <2>2. /\ c \in Observed /\ pc[p] = "observe" /\ counts' = counts
          /\ log' = Append(log, c) /\ inHand' = inHand
          /\ \A r \in Pumps \ {p} : pc'[r] = pc[r]
      BY <1>5, <2>1 DEF Observe, Go, DetectorInv
    <2>3. /\ log' \in Seq(Observed) /\ Len(log) <= Len(log')
          /\ \A i \in 1 .. Len(log) : log'[i] = log[i]
      BY <2>2, AppendProperties, LenProperties DEF DetectorInv
    <2>4. pc'["client"] \in {"vector", "len", "count"} => inHand'["client"] \in Observed
      BY <1>1, <2>1, <2>2 DEF CountInv
    <2> QED BY <2>2, <2>3, <2>4, HonestFrame DEF CountInv
  <1>6. CASE Vector \/ Length
    <2>1. /\ pc["client"] \in {"vector", "len"} /\ UNCHANGED <<inHand, counts, log>>
      BY <1>6 DEF Vector, Length, Go
    <2> QED BY <1>2, <2>1 DEF CountInv
  <1>7. CASE CountsInWindow
    <2>1. PICK now : now = inHand["client"].at
      OBVIOUS
    <2>2. PICK x : x = Count(Retained(ring), now)
      OBVIOUS
    <2>3. /\ pc["client"] = "count" /\ pc'["client"] = "idle"
          /\ counts' = x /\ UNCHANGED log
      BY <1>1, <1>7, <2>1, <2>2 DEF CountsInWindow, Go
    <2>4. now \in Int
      BY <2>1, <2>3 DEF CountInv, Observed
    <2>5. PICK S : S = Since(Len(log), now - RateWindow)
      OBVIOUS
    <2>6. /\ x.of = Len(log) /\ x.now = now
          /\ x.calls <= Cardinality(S) /\ x.targets <= Distinct(S)
          /\ InOrder /\ ~x.truncated => x.calls = Cardinality(S) /\ x.targets = Distinct(S)
      BY <2>2, <2>4, <2>5, CountTells
    <2>7. InWindow' = S /\ DistinctInWindow' = Distinct(S) /\ InOrder' = InOrder
      BY <2>3, <2>5, <2>6 DEF InWindow, Since, DistinctInWindow, Distinct, InOrder
    <2>8. Len(log) \in Nat
      BY LenProperties DEF DetectorInv
    <2> QED BY <2>3, <2>6, <2>7, <2>8 DEF CountInv, CountsAreHonest
  <1> QED BY <1>3, <1>4, <1>5, <1>6, <1>7 DEF Next

\* A rate rule never sees more than its window holds, and sees all of it unless
\* CountsInWindow says that the counts are a floor, for pumps in time order.
THEOREM CountsAlwaysHonest == Spec => []CountsAreHonest
  <1>1. CountInv => CountsAreHonest
    BY DEF CountInv
  <1>2. Spec => []CountInv
    BY CountInit, CountNext, DetectorInvAlways, SuffixAlways, PTL DEF Spec
  <1> QED BY <1>1, <1>2, PTL
=============================================================================
