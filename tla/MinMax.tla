------------------------------- MODULE MinMax -------------------------------
(***************************************************************************)
(* Least and greatest elements of sets of numbers, for the modules whose   *)
(* definitions use Min and Max.                                            *)
(***************************************************************************)
EXTENDS FiniteSetsExt, WellFoundedInduction, TLAPS

LEMMA LeastExists ==
  ASSUME NEW S \in SUBSET Nat, S # {}
  PROVE  \E m \in S : \A x \in S : m <= x
  <1>1. \A x, y \in Nat : x < y => <<x, y>> \in OpToRel(<, Nat)
    BY DEF OpToRel
  <1>2. PICK m \in S : \A x \in S : ~(<<x, m>> \in OpToRel(<, Nat))
    BY NatLessThanWellFounded, WFMin
  <1>3. \A x \in S : ~(x < m)
    BY <1>1, <1>2, Zenon
  <1> QED BY <1>3

LEMMA MinIs ==
  ASSUME NEW S \in SUBSET Nat, NEW m \in S, \A x \in S : m <= x
  PROVE  Min(S) = m
  <1>1. PICK k : k = Min(S)
    OBVIOUS
  <1>2. k \in S /\ \A x \in S : k <= x
    BY <1>1 DEF Min
  <1>3. k \in Nat /\ m \in Nat /\ k <= m /\ m <= k
    BY <1>2
  <1> QED BY <1>1, <1>3

\* The maximum of a set of naturals that has a bound.
LEMMA MaxIs ==
  ASSUME NEW n \in Nat, NEW S \in SUBSET (0 .. n), S # {}
  PROVE  Max(S) \in S /\ \A x \in S : x <= Max(S)
  <1> DEFINE D == {n - x : x \in S}
  <1>1. D \in SUBSET Nat /\ D # {}
    <2>1. \A x \in S : n - x \in Nat
      OBVIOUS
    <2>2. PICK x : x \in S
      OBVIOUS
    <2>3. n - x \in D
      BY <2>2
    <2> QED BY <2>1, <2>3
  <1>2. PICK d \in D : \A y \in D : d <= y
    <2> HIDE DEF D
    <2> QED BY <1>1, LeastExists
  <1>3. n - d \in S /\ \A x \in S : x <= n - d
    <2>1. PICK m \in S : d = n - m
      BY <1>2
    <2>2. ASSUME NEW x \in S PROVE x <= n - d
      <3>1. d <= n - x
        BY <1>2
      <3> QED BY <2>1, <3>1
    <2> QED BY <2>1, <2>2
  <1>4. \E m \in S : \A x \in S : m >= x
    BY <1>2, <1>3
  <1> QED BY <1>4 DEF Max

\* Induction up to n, of membership in a set.
LEMMA UpTo ==
  ASSUME NEW n \in Nat, NEW S, 0 \in S, \A k \in 0 .. n : k \in S /\ k # n => k + 1 \in S
  PROVE  \A k \in 0 .. n : k \in S
  <1> DEFINE Bad == {k \in 0 .. n : k \notin S}
  <1> SUFFICES ASSUME Bad # {} PROVE FALSE
    OBVIOUS
  <1>1. Bad \in SUBSET Nat /\ Bad \subseteq 0 .. n /\ \A k \in 0 .. n : k \in Bad <=> k \notin S
    OBVIOUS
  <1> HIDE DEF Bad
  <1>2. PICK k \in Bad : \A x \in Bad : k <= x
    BY <1>1, LeastExists
  <1>3. k \in 1 .. n
    BY <1>1, <1>2
  <1>4. k - 1 \in 0 .. n /\ k - 1 \in S /\ k - 1 # n /\ (k - 1) + 1 = k
    BY <1>1, <1>2, <1>3
  <1> QED BY <1>1, <1>2, <1>4

IsFoldOf(n, base, step, iter) ==
  /\ iter[{}] = base
  /\ \A s \in SUBSET (1 .. n) : s # {} => iter[s] = step[Max(s)][iter[s \ {Max(s)}]]

\* A fold over the numbers to n, whatever it is folded with.
LEMMA FoldExists ==
  ASSUME NEW n \in Nat, NEW A, NEW base \in A, NEW step \in [1 .. n -> [A -> A]]
  PROVE  \E iter \in [SUBSET (1 .. n) -> A] : IsFoldOf(n, base, step, iter)
  <1> DEFINE Folds(k, iter) ==
               /\ iter \in [SUBSET (1 .. k) -> A]
               /\ iter = [s \in SUBSET (1 .. k) |->
                            IF s = {} THEN base ELSE step[Max(s)][iter[s \ {Max(s)}]]]
             Good == {k \in 0 .. n : \E iter : Folds(k, iter)}
  <1>1. ASSUME NEW k \in Nat, NEW s \in SUBSET (1 .. k), s # {}
        PROVE  Max(s) \in s /\ s \ {Max(s)} \in SUBSET (1 .. k - 1)
    <2>1. s \in SUBSET (0 .. k)
      OBVIOUS
    <2>2. Max(s) \in s /\ \A x \in s : x <= Max(s)
      BY <1>1, <2>1, MaxIs
    <2>3. ASSUME NEW x \in s \ {Max(s)} PROVE x \in 1 .. k - 1
      <3>1. x \in 1 .. k /\ Max(s) \in 1 .. k /\ x <= Max(s) /\ x # Max(s)
        BY <2>2
      <3> QED BY <3>1
    <2> QED BY <2>2, <2>3
  <1>2. 0 \in Good
    <2>1. PICK iter : iter = [s \in SUBSET (1 .. 0) |-> base]
      OBVIOUS
    <2>2. \A s \in SUBSET (1 .. 0) : s = {}
      OBVIOUS
    <2>3. Folds(0, iter)
      BY <2>1, <2>2
    <2> HIDE DEF Folds
    <2> QED BY <2>3
  <1>3. ASSUME NEW k \in 1 .. n, k - 1 \in Good PROVE k \in Good
    <2>1. PICK old : Folds(k - 1, old)
      <3> HIDE DEF Folds
      <3> QED BY <1>3
    <2>2. PICK new : new = [s \in SUBSET (1 .. k) |->
                              IF s = {} THEN base ELSE step[Max(s)][old[s \ {Max(s)}]]]
      OBVIOUS
    <2>3. ASSUME NEW s \in SUBSET (1 .. k - 1) PROVE new[s] = old[s]
      <3>1. s \in SUBSET (1 .. k)
        OBVIOUS
      <3>2. CASE s = {}
        BY <2>1, <2>2, <3>1, <3>2
      <3>3. CASE s # {}
        <4>1. new[s] = step[Max(s)][old[s \ {Max(s)}]]
          BY <2>2, <3>1, <3>3
        <4>2. old[s] = step[Max(s)][old[s \ {Max(s)}]]
          BY <2>1, <3>3
        <4> QED BY <4>1, <4>2, Zenon
      <3> QED BY <3>2, <3>3
    <2>4. ASSUME NEW s \in SUBSET (1 .. k), s # {}
          PROVE  /\ new[s] = step[Max(s)][new[s \ {Max(s)}]] /\ new[s] \in A
      <3>1. k \in Nat
        OBVIOUS
      <3>2. Max(s) \in s /\ s \ {Max(s)} \in SUBSET (1 .. k - 1)
        BY <1>1, <2>4, <3>1
      <3>4. Max(s) \in 1 .. n
        <4>1. 1 .. k \subseteq 1 .. n
          OBVIOUS
        <4> HIDE DEF Folds, Good
        <4> QED BY <3>2, <4>1, Zenon
      <3>3. old[s \ {Max(s)}] \in A
        BY <2>1, <3>2
      <3>5. new[s] = step[Max(s)][old[s \ {Max(s)}]]
        BY <2>2, <2>4
      <3>6. new[s \ {Max(s)}] = old[s \ {Max(s)}]
        BY <2>3, <3>2
      <3>7. step[Max(s)] \in [A -> A]
        BY <3>4
      <3> HIDE DEF Folds
      <3> QED BY <3>3, <3>5, <3>6, <3>7
    <2>5. new[{}] = base
      BY <2>2
    <2>6. Folds(k, new)
      <3>1. \A s \in SUBSET (1 .. k) : new[s] \in A
        BY <2>4, <2>5
      <3>2. new \in [SUBSET (1 .. k) -> A]
        BY <2>2, <3>1
      <3>3. \A s \in SUBSET (1 .. k) :
              new[s] = IF s = {} THEN base ELSE step[Max(s)][new[s \ {Max(s)}]]
        BY <2>4, <2>5
      <3> QED BY <3>2, <3>3
    <2> HIDE DEF Folds
    <2> QED BY <2>6
  <1>4. \A k \in 0 .. n : k \in Good
    <2>1. \A k \in 0 .. n : k # n => k + 1 \in 1 .. n /\ (k + 1) - 1 = k
      OBVIOUS
    <2> HIDE DEF Folds, Good
    <2>2. \A k \in 0 .. n : k \in Good /\ k # n => k + 1 \in Good
      BY <1>3, <2>1
    <2> QED BY <1>2, <2>2, UpTo
  <1>5. n \in Good
    <2>1. n \in 0 .. n
      OBVIOUS
    <2> HIDE DEF Good
    <2> QED BY <1>4, <2>1
  <1>6. PICK iter : Folds(n, iter)
    <2> HIDE DEF Folds
    <2> QED BY <1>5
  <1>7. iter \in [SUBSET (1 .. n) -> A] /\ iter[{}] = base
    BY <1>6
  <1>8. IsFoldOf(n, base, step, iter)
    BY <1>6, <1>7 DEF IsFoldOf
  <1> QED BY <1>7, <1>8

\* The stages of the fold.
LEMMA StageOf ==
  ASSUME NEW n \in Nat, NEW k \in 1 .. n
  PROVE  Max(1 .. k) = k /\ (1 .. k) \ {k} = 1 .. k - 1 /\ 1 .. k \in SUBSET (1 .. n) /\ 1 .. k # {}
  <1>1. k \in Nat /\ 1 .. k \in SUBSET (0 .. k) /\ 1 .. k # {} /\ k \in 1 .. k
    OBVIOUS
  <1>2. Max(1 .. k) \in 1 .. k /\ \A x \in 1 .. k : x <= Max(1 .. k)
    BY <1>1, MaxIs
  <1> QED BY <1>2
=============================================================================
