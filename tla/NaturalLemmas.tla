---------------------------- MODULE NaturalLemmas ----------------------------
(***************************************************************************)
(* Least and greatest elements of sets of numbers, which the proofs about  *)
(* tables, logs and pages use where the code walks to the first or the     *)
(* last row with some property, and the recursion of FlattenSeq.           *)
(***************************************************************************)
EXTENDS Integers, Sequences, WellFoundedInduction, TLAPS

(* A non-empty set of naturals has a least element. *)
LEMMA LeastNatural ==
    ASSUME NEW S, S \subseteq Nat, S # {}
    PROVE  \E n \in S : \A m \in S : n <= m
<1> DEFINE R == {ss \in Nat \X Nat : ss[1] < ss[2]}
<1>1. IsWellFoundedOn(R, Nat)
  BY NatLessThanWellFounded DEF OpToRel
<1>2. PICK n \in S : \A m \in S : ~(<<m, n>> \in R)
  <2> HIDE DEF R
  <2> QED
    BY <1>1, WFMin
<1>3. ASSUME NEW m \in S PROVE n <= m
  <2>1. n \in Nat /\ m \in Nat
    OBVIOUS
  <2>2. ~(m < n)
    BY <1>2, <2>1
  <2> QED
    BY <2>1, <2>2
<1> QED
  BY <1>3

(* A non-empty bounded set of numbers has a greatest element. *)
LEMMA GreatestBelow ==
    ASSUME NEW L \in Nat, NEW S, S \subseteq 0..L, S # {}
    PROVE  \E n \in S : \A m \in S : m <= n
<1> DEFINE T == {L - n : n \in S}
<1>1. T \subseteq Nat
  OBVIOUS
<1>2. T # {}
  OBVIOUS
<1>3. PICK k \in T : \A m \in T : k <= m
  BY <1>1, <1>2, LeastNatural
<1>4. PICK n \in S : k = L - n
  BY <1>3
<1>5. ASSUME NEW m \in S PROVE m <= n
  <2>1. m \in Int /\ n \in Int
    OBVIOUS
  <2>2. L - n <= L - m
    BY <1>3, <1>4
  <2> QED
    BY <2>1, <2>2
<1> QED
  BY <1>5
-----------------------------------------------------------------------------
(* FlattenSeq of the first n sequences, f telling it for fewer. *)
FlattenBody(q, n, f) ==
    [m \in 1..n |-> IF m = 1 THEN q[m] ELSE f[m - 1] \o q[m]]

(* The recursive definition of FlattenSeq defines a function. *)
LEMMA FlattenExists ==
    ASSUME NEW q, NEW l \in Nat
    PROVE  \E f : f = FlattenBody(q, l, f)
<1> DEFINE Bad == {n \in Nat : ~\E f : f = FlattenBody(q, n, f)}
<1> SUFFICES ASSUME Bad # {} PROVE FALSE
  OBVIOUS
<1>1. PICK n \in Bad : \A x \in Bad : n <= x
  <2>1. Bad \subseteq Nat
    OBVIOUS
  <2> HIDE DEF Bad
  <2> QED
    BY <2>1, LeastNatural
<1>2. n \in Nat /\ ~\E f : f = FlattenBody(q, n, f)
  BY <1>1
<1>3. n # 0
  <2> SUFFICES ASSUME n = 0 PROVE FALSE
    OBVIOUS
  <2> DEFINE g == [m \in 1..0 |-> <<>>]
  <2>1. g = FlattenBody(q, 0, g)
    BY DEF FlattenBody
  <2> QED
    BY <1>2, <2>1
<1>4. PICK f : f = FlattenBody(q, n - 1, f)
  <2>1. n - 1 \in Nat /\ ~(n <= n - 1)
    BY <1>2, <1>3
  <2>2. n - 1 \notin Bad
    BY <1>1, <2>1
  <2> QED
    BY <2>1, <2>2
<1> DEFINE top == IF n = 1 THEN q[n] ELSE f[n - 1] \o q[n]
           g == [m \in 1..n |-> IF m < n THEN f[m] ELSE top]
<1>5. ASSUME NEW m \in 1..n PROVE g[m] = FlattenBody(q, n, g)[m]
  <2>1. CASE m = n
    <3>1. n # 1 => n - 1 \in 1..n /\ n - 1 < n
      BY <1>2, <1>3
    <3>2. n # 1 => g[n - 1] = f[n - 1]
      BY <3>1
    <3> QED
      BY <1>2, <1>3, <2>1, <3>2 DEF FlattenBody
  <2>2. CASE m < n
    <3>1. m \in 1..(n - 1) /\ g[m] = f[m]
      BY <1>2, <2>2
    <3>2. f[m] = FlattenBody(q, n - 1, f)[m]
      BY <1>4
    <3>3. m # 1 => m - 1 \in 1..n /\ m - 1 < n /\ g[m - 1] = f[m - 1]
      BY <1>2, <2>2
    <3> HIDE DEF g
    <3> QED
      BY <3>1, <3>2, <3>3 DEF FlattenBody
  <2> QED
    BY <1>2, <2>1, <2>2
<1>6. g = FlattenBody(q, n, g)
  <2>1. FlattenBody(q, n, g) = [m \in 1..n |-> FlattenBody(q, n, g)[m]]
    BY DEF FlattenBody
  <2>2. g = [m \in 1..n |-> g[m]]
    OBVIOUS
  <2> HIDE DEF g
  <2> QED
    BY <1>5, <2>1, <2>2
<1> QED
  BY <1>2, <1>6
=============================================================================
