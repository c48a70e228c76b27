-------------------------- MODULE ClusterQueryProofs -------------------------
(***************************************************************************)
(* Theorems about the requests and the scrape of ClusterQuery, for every   *)
(* set of addresses and candidates, every log, page size and threshold,    *)
(* with any number of crashes and corrections between their statements.    *)
(*                                                                         *)
(* First what a replay yields, then what pages of a set are, then the      *)
(* tables, then one invariant per kind of request.                         *)
(***************************************************************************)
EXTENDS ClusterQuery, NaturalLemmas, FiniteSetTheorems, TLAPS

USE DEF Store!log, Store!hand

-----------------------------------------------------------------------------
(* What a replay yields.                                                   *)

(* T is a union of clusters: it has both ends of a row or none. *)
Closed(cs, T) ==
    \A i \in DOMAIN cs : Store!Ends(cs[i]) \subseteq T \/ Store!Ends(cs[i]) \cap T = {}

LEMMA EndsFacts ==
    ASSUME NEW cs, Store!IsScan(cs), NEW i \in DOMAIN cs
    PROVE  /\ Store!Ends(cs[i]) = {AddressA[cs[i]], AddressB[cs[i]]}
           /\ Store!Ends(cs[i]) \subseteq Address
           /\ Store!Ends(cs[i]) \subseteq Store!Touched(cs)
           /\ AddressA[cs[i]] \in Address /\ AddressB[cs[i]] \in Address
<1>1. cs[i] \in Cand
  BY DEF Store!IsScan
<1> QED
  BY <1>1, StoreAssumption DEF Store!Ends, Store!Touched

LEMMA TouchedFacts ==
    ASSUME NEW cs, Store!IsScan(cs)
    PROVE  /\ Store!Touched(cs) \subseteq Address
           /\ \A a \in Store!Touched(cs) : \E i \in DOMAIN cs : a \in Store!Ends(cs[i])
<1>1. \A a \in Store!Touched(cs) : \E i \in DOMAIN cs : a \in Store!Ends(cs[i])
  BY DEF Store!Touched
<1> QED
  BY <1>1, EndsFacts

(* The component of a is within every closed set that a is in, is closed   *)
(* itself and has a in it.                                                 *)
LEMMA ComponentFacts ==
    ASSUME NEW cs, Store!IsScan(cs), NEW a \in Store!Touched(cs)
    PROVE  /\ a \in Store!Component(cs, a)
           /\ Store!Component(cs, a) \subseteq Store!Touched(cs)
           /\ Closed(cs, Store!Component(cs, a))
           /\ \A T : T \subseteq Store!Touched(cs) /\ a \in T /\ Closed(cs, T)
                        => Store!Component(cs, a) \subseteq T
<1>1. /\ a \in Store!Component(cs, a)
      /\ Store!Component(cs, a) \subseteq Store!Touched(cs)
  BY DEF Store!Component
<1>2. ASSUME NEW T, T \subseteq Store!Touched(cs), a \in T, Closed(cs, T)
      PROVE  Store!Component(cs, a) \subseteq T
  BY <1>2 DEF Store!Component, Closed
<1>3. ASSUME NEW i \in DOMAIN cs, NEW c \in Store!Ends(cs[i]), c \in Store!Component(cs, a),
             NEW d \in Store!Ends(cs[i])
      PROVE  d \in Store!Component(cs, a)
  <2>1. ASSUME NEW T \in SUBSET Store!Touched(cs), a \in T, Closed(cs, T)
        PROVE  d \in T
    BY <1>2, <1>3, <2>1 DEF Closed
  <2>2. d \in Store!Touched(cs)
    BY EndsFacts
  <2> QED
    BY <2>1, <2>2 DEF Store!Component, Closed
<1>4. Closed(cs, Store!Component(cs, a))
  BY <1>3 DEF Closed
<1> QED
  BY <1>1, <1>2, <1>4

(* What is left when a closed set is taken away is closed. *)
LEMMA ClosedRest ==
    ASSUME NEW cs, Store!IsScan(cs), NEW T, Closed(cs, T)
    PROVE  Closed(cs, Store!Touched(cs) \ T)
  BY EndsFacts DEF Closed

(* Whoever is in the component of a has the same component. *)
LEMMA SameComponent ==
    ASSUME NEW cs, Store!IsScan(cs), NEW a \in Store!Touched(cs), NEW b \in Store!Component(cs, a)
    PROVE  Store!Component(cs, b) = Store!Component(cs, a)
<1>1. b \in Store!Touched(cs)
  BY ComponentFacts
<1>2. Store!Component(cs, b) \subseteq Store!Component(cs, a)
  BY <1>1, ComponentFacts
<1>3. a \in Store!Component(cs, b)
  <2> SUFFICES ASSUME a \notin Store!Component(cs, b) PROVE FALSE
    OBVIOUS
  <2> DEFINE T == Store!Touched(cs) \ Store!Component(cs, b)
  <2>1. Closed(cs, T) /\ T \subseteq Store!Touched(cs) /\ a \in T
    BY <1>1, ComponentFacts, ClosedRest
  <2>2. Store!Component(cs, a) \subseteq T
    BY <2>1, ComponentFacts
  <2> QED
    BY <1>1, <2>2, ComponentFacts
<1>4. Store!Component(cs, a) \subseteq Store!Component(cs, b)
  BY <1>1, <1>3, ComponentFacts
<1> QED
  BY <1>2, <1>4

(* The anchor of a component, by the component alone. *)
AnchorOf(cs, C) == CHOOSE x \in C : \A y \in C \ {x} : Store!SeenBefore(cs, x, y)

LEMMA AnchorFacts ==
    ASSUME NEW cs, Store!IsScan(cs), NEW a \in Store!Touched(cs)
    PROVE  /\ Store!Anchor(cs, a) = AnchorOf(cs, Store!Component(cs, a))
           /\ Store!Anchor(cs, a) \in Store!Component(cs, a)
<1> DEFINE C == Store!Component(cs, a)
           I == {i \in DOMAIN cs : Store!Ends(cs[i]) \cap C # {}}
<1>1. Store!Anchor(cs, a) = AnchorOf(cs, C)
  BY DEF Store!Anchor, AnchorOf
<1>2. PICK i \in I : \A j \in I : i <= j
  <2>1. DOMAIN cs \subseteq Nat
    BY DEF Store!IsScan
  <2>2. I \subseteq Nat
    BY <2>1
  <2>3. I # {}
    BY ComponentFacts, TouchedFacts
  <2> HIDE DEF I
  <2> QED
    BY <2>2, <2>3, LeastNatural
<1> DEFINE x == AddressA[cs[i]]
<1>3. x \in C
  BY <1>2, ComponentFacts, EndsFacts DEF Closed
<1>4. ASSUME NEW y \in C \ {x} PROVE Store!SeenBefore(cs, x, y)
  <2>1. ASSUME NEW j \in DOMAIN cs, y \in Store!Ends(cs[j]) PROVE i < j \/ i = j
    <3>1. j \in I /\ i \in Nat /\ j \in Nat
      BY <1>4, <2>1 DEF Store!IsScan
    <3> QED
      BY <1>2, <3>1
  <2>2. i \in DOMAIN cs /\ x \in Store!Ends(cs[i])
    BY <1>2, EndsFacts
  <2> QED
    BY <2>1, <2>2 DEF Store!SeenBefore
<1>5. AnchorOf(cs, C) \in C
  <2> HIDE DEF C, x
  <2> QED
    BY <1>3, <1>4 DEF AnchorOf
<1> QED
  BY <1>1, <1>5

(* v is a clustering whose ids are members: each address is in no cluster, *)
(* or in one under the id of an address of that cluster.                   *)
Clustered(v) ==
    /\ v \in [Address -> Address \cup {None}]
    /\ \A a \in Address : v[a] # None => v[a] \in Address /\ v[v[a]] = v[a]

(* Every id of v is the cluster of a row's ends, the ends of a row are in  *)
(* one cluster, and the rows link each cluster.                            *)
Linked(cs, v) ==
    /\ \A i \in DOMAIN cs : Together(v, AddressA[cs[i]], AddressB[cs[i]])
    /\ \A a \in Address : v[a] # None => \E i \in DOMAIN cs : v[AddressA[cs[i]]] = v[a]
    /\ \A id \in Address : \A S : S \subseteq Members(v, id) /\ S # {} /\ S # Members(v, id) =>
          \E i \in DOMAIN cs : /\ Store!Ends(cs[i]) \cap S # {}
                               /\ Store!Ends(cs[i]) \cap (Members(v, id) \ S) # {}

LEMMA ReplayClusters ==
    ASSUME NEW cs, Store!IsScan(cs)
    PROVE  Clustered(Store!Replay(cs))
<1> DEFINE v == Store!Replay(cs)
<1>1. ASSUME NEW a \in Address, a \in Store!Touched(cs)
      PROVE  v[a] = Store!Anchor(cs, a) /\ v[a] \in Store!Touched(cs) /\ v[v[a]] = v[a]
  <2>1. v[a] = Store!Anchor(cs, a)
    BY <1>1 DEF Store!Replay
  <2>2. v[a] \in Store!Component(cs, a)
    BY <1>1, <2>1, AnchorFacts
  <2>3. v[a] \in Store!Touched(cs) /\ v[a] \in Address
    BY <1>1, <2>2, ComponentFacts, TouchedFacts
  <2>4. v[v[a]] = Store!Anchor(cs, v[a])
    BY <2>3 DEF Store!Replay
  <2>5. Store!Component(cs, v[a]) = Store!Component(cs, a)
    BY <1>1, <2>2, SameComponent
  <2>6. Store!Anchor(cs, v[a]) = Store!Anchor(cs, a)
    BY <1>1, <2>3, <2>5, AnchorFacts
  <2> QED
    BY <2>1, <2>3, <2>4, <2>6
<1>2. ASSUME NEW a \in Address, a \notin Store!Touched(cs) PROVE v[a] = None
  BY <1>2 DEF Store!Replay
<1>3. v = [a \in Address |-> v[a]]
  BY DEF Store!Replay
<1> HIDE DEF v
<1>4. v \in [Address -> Address \cup {None}]
  BY <1>1, <1>2, <1>3, TouchedFacts
<1> QED
  BY <1>1, <1>2, <1>4, TouchedFacts DEF Clustered, v

(* Who is clustered at all is touched by a row, and shares its id with     *)
(* exactly its component.                                                  *)
LEMMA ReplayIds ==
    ASSUME NEW cs, Store!IsScan(cs), NEW a \in Address, Store!Replay(cs)[a] # None
    PROVE  /\ a \in Store!Touched(cs)
           /\ Store!Replay(cs)[a] = Store!Anchor(cs, a)
           /\ Store!Replay(cs)[a] \in Store!Component(cs, a)
           /\ \A b \in Store!Component(cs, a) : Store!Replay(cs)[b] = Store!Replay(cs)[a]
<1>1. a \in Store!Touched(cs) /\ Store!Replay(cs)[a] = Store!Anchor(cs, a)
  BY DEF Store!Replay
<1>2. Store!Replay(cs)[a] \in Store!Component(cs, a)
  BY <1>1, AnchorFacts
<1>3. ASSUME NEW b \in Store!Component(cs, a) PROVE Store!Replay(cs)[b] = Store!Replay(cs)[a]
  <2>1. b \in Store!Touched(cs) /\ b \in Address
    BY <1>1, ComponentFacts, TouchedFacts
  <2>2. Store!Replay(cs)[b] = Store!Anchor(cs, b)
    BY <2>1 DEF Store!Replay
  <2>3. Store!Component(cs, b) = Store!Component(cs, a)
    BY <1>1, SameComponent
  <2>4. Store!Anchor(cs, b) = Store!Anchor(cs, a)
    BY <1>1, <2>1, <2>3, AnchorFacts
  <2> QED
    BY <1>1, <2>2, <2>4
<1> QED
  BY <1>1, <1>2, <1>3

LEMMA ReplayLinks ==
    ASSUME NEW cs, Store!IsScan(cs)
    PROVE  Linked(cs, Store!Replay(cs))
<1> DEFINE v == Store!Replay(cs)
<1>1. ASSUME NEW i \in DOMAIN cs
      PROVE  Together(v, AddressA[cs[i]], AddressB[cs[i]])
  <2> DEFINE e == AddressA[cs[i]]
             f == AddressB[cs[i]]
  <2>1. e \in Address /\ f \in Address /\ e \in Store!Touched(cs) /\ f \in Store!Touched(cs)
    BY EndsFacts
  <2>2. v[e] = Store!Anchor(cs, e)
    BY <2>1 DEF Store!Replay
  <2>3. v[e] # None
    BY <2>1, <2>2, AnchorFacts, ComponentFacts, TouchedFacts, StoreAssumption
  <2>4. f \in Store!Component(cs, e)
    BY <2>1, ComponentFacts, EndsFacts DEF Closed
  <2>5. v[f] = v[e]
    BY <2>1, <2>3, <2>4, ReplayIds
  <2> QED
    BY <2>3, <2>5 DEF Together
<1>2. ASSUME NEW a \in Address, v[a] # None
      PROVE  \E i \in DOMAIN cs : v[AddressA[cs[i]]] = v[a]
  <2>1. a \in Store!Touched(cs)
    BY <1>2, ReplayIds
  <2>2. PICK i \in DOMAIN cs : a \in Store!Ends(cs[i])
    BY <2>1, TouchedFacts
  <2>3. v[AddressA[cs[i]]] = v[AddressB[cs[i]]]
    BY <1>1 DEF Together
  <2> HIDE DEF v
  <2> QED
    BY <2>2, <2>3, EndsFacts
<1>3. ASSUME NEW id \in Address, NEW S, S \subseteq Members(v, id), S # {}, S # Members(v, id)
      PROVE  \E i \in DOMAIN cs : /\ Store!Ends(cs[i]) \cap S # {}
                                  /\ Store!Ends(cs[i]) \cap (Members(v, id) \ S) # {}
  <2> SUFFICES ASSUME ~\E i \in DOMAIN cs : /\ Store!Ends(cs[i]) \cap S # {}
                                            /\ Store!Ends(cs[i]) \cap (Members(v, id) \ S) # {}
               PROVE  FALSE
    OBVIOUS
  <2>1. PICK a \in S, b \in Members(v, id) : b \notin S
    BY <1>3
  <2>2. /\ a \in Address /\ v[a] = id /\ b \in Address /\ v[b] = id /\ id # None
        /\ S \subseteq Address /\ \A c \in S : v[c] = id
    BY <1>3, <2>1, StoreAssumption DEF Members
  <2>3. S \subseteq Store!Touched(cs)
    BY <2>2, ReplayIds
  <2>4. ASSUME NEW i \in DOMAIN cs, NEW c \in Store!Ends(cs[i]), c \in S,
               NEW d \in Store!Ends(cs[i])
        PROVE  d \in S
    <3>1. v[AddressA[cs[i]]] = v[AddressB[cs[i]]]
      BY <1>1 DEF Together
    <3>2. v[d] = id /\ d \in Address
      <4> HIDE DEF v
      <4> QED
        BY <2>2, <2>4, <3>1, EndsFacts
    <3>3. d \in Members(v, id)
      BY <3>2 DEF Members
    <3> QED
      BY <2>4, <3>3
  <2>5. Closed(cs, S)
    BY <2>4 DEF Closed
  <2>6. id \in S
    <3>1. Store!Component(cs, a) \subseteq S
      BY <2>1, <2>3, <2>5, ComponentFacts
    <3> QED
      BY <2>2, <3>1, ReplayIds
  <2>7. id \notin S
    <3>1. Closed(cs, Store!Touched(cs) \ S)
      BY <2>5, ClosedRest
    <3>2. b \in Store!Touched(cs) \ S
      BY <2>1, <2>2, ReplayIds
    <3>3. Store!Component(cs, b) \subseteq Store!Touched(cs) \ S
      BY <3>1, <3>2, ComponentFacts
    <3> QED
      BY <2>2, <3>3, ReplayIds
  <2> QED
    BY <2>6, <2>7
<1> QED
  BY <1>1, <1>2, <1>3 DEF Linked

-----------------------------------------------------------------------------
(* Pages.  Before(m, a) members of m come before a in the order of their   *)
(* addresses.                                                              *)
Before(m, a) == Cardinality({b \in m : Rank[b] < Rank[a]})

LEMMA BeforeFacts ==
    ASSUME NEW m, m \subseteq Address, NEW a \in Address
    PROVE  /\ IsFiniteSet(m) /\ IsFiniteSet({b \in m : Rank[b] < Rank[a]})
           /\ Before(m, a) \in Nat
           /\ a \in m => Before(m, a) < Cardinality(m) /\ Cardinality(m) \in Nat
<1> DEFINE L == {b \in m : Rank[b] < Rank[a]}
<1>1. IsFiniteSet(m) /\ IsFiniteSet(L)
  BY FS_Subset, StoreAssumption
<1>2. Cardinality(L) \in Nat /\ Cardinality(m) \in Nat
  BY <1>1, FS_CardinalityType
<1>3. ASSUME a \in m PROVE Cardinality(L) < Cardinality(m)
  <2>1. L \subseteq m /\ L # m
    BY <1>3, QueryAssumption
  <2>2. Cardinality(L) <= Cardinality(m) /\ Cardinality(L) # Cardinality(m)
    BY <1>1, <2>1, FS_Subset
  <2> QED
    BY <1>2, <2>2
<1> QED
  BY <1>1, <1>2, <1>3 DEF Before

(* Of the members m, those up to a are still members in n. *)
Stay(m, n, a) == \A b \in m : Rank[b] <= Rank[a] => b \in n

(* If nobody up to it leaves, an address comes later, never earlier. *)
LEMMA BeforeGrows ==
    ASSUME NEW m, NEW n, m \subseteq Address, n \subseteq Address, NEW a \in Address,
           Stay(m, n, a)
    PROVE  Before(m, a) <= Before(n, a)
<1> DEFINE L == {b \in m : Rank[b] < Rank[a]}
           M == {b \in n : Rank[b] < Rank[a]}
<1>1. IsFiniteSet(M) /\ L \subseteq M
  <2>1. \A b \in m : Rank[b] \in Nat /\ Rank[a] \in Nat
    BY QueryAssumption
  <2>2. L \subseteq M
    BY <2>1 DEF Stay
  <2> QED
    BY <2>2, BeforeFacts
<1>2. Cardinality(L) <= Cardinality(M)
  BY <1>1, FS_Subset
<1> QED
  BY <1>2 DEF Before

(* Places are taken without gaps: if someone has place k or a later one,   *)
(* someone has place k.                                                    *)
LEMMA PlaceTaken ==
    ASSUME NEW m, m \subseteq Address, NEW k \in Nat, NEW a \in m, k <= Before(m, a)
    PROVE  \E b \in m : Before(m, b) = k
<1> DEFINE B == {n \in Nat : \E b \in m : Before(m, b) >= k /\ Rank[b] = n}
<1>1. PICK n \in B : \A x \in B : n <= x
  <2>1. B \subseteq Nat
    OBVIOUS
  <2>2. B # {}
    <3>1. Rank[a] \in Nat /\ Before(m, a) >= k
      BY QueryAssumption, BeforeFacts
    <3> QED
      BY <3>1
  <2> HIDE DEF B
  <2> QED
    BY <2>1, <2>2, LeastNatural
<1>2. PICK b \in m : Before(m, b) >= k /\ Rank[b] = n
  BY <1>1
<1>3. ASSUME NEW c \in m, Rank[c] < Rank[b] PROVE Before(m, c) < k
  <2>1. Rank[c] \in Nat /\ Rank[b] \in Nat /\ Before(m, c) \in Nat
    BY QueryAssumption, BeforeFacts
  <2> SUFFICES ASSUME Before(m, c) >= k PROVE FALSE
    BY <2>1
  <2>2. Rank[c] \in B
    BY <2>1
  <2> QED
    BY <1>1, <1>2, <1>3, <2>1, <2>2
<1>4. Before(m, b) \in Nat /\ b \in Address /\ Rank[b] \in Nat
  BY BeforeFacts, QueryAssumption
<1> SUFFICES ASSUME Before(m, b) > k PROVE FALSE
  BY <1>2, <1>4
<1> DEFINE L == {c \in m : Rank[c] < Rank[b]}
           R == {x \in 0..Rank[b] : \E c \in L : Rank[c] = x}
<1>5. L # {}
  <2>1. Before(m, b) = Cardinality(L)
    BY DEF Before
  <2>2. Before(m, b) # 0
    BY <1>4
  <2> QED
    BY <2>1, <2>2, FS_EmptySet
<1>6. PICK x \in R : \A y \in R : y <= x
  <2>1. R \subseteq 0..Rank[b]
    OBVIOUS
  <2>2. R # {}
    <3>1. PICK c \in L : TRUE
      BY <1>5
    <3>2. Rank[c] \in 0..Rank[b]
      BY <1>4, QueryAssumption
    <3> QED
      BY <3>2
  <2> HIDE DEF R
  <2> QED
    BY <1>4, <2>1, <2>2, GreatestBelow
<1>7. PICK c \in L : Rank[c] = x
  BY <1>6
<1>8. c \in m /\ c \in Address /\ Rank[c] \in Nat /\ Rank[c] < Rank[b]
  BY <1>7, QueryAssumption
<1> DEFINE K == {d \in m : Rank[d] < Rank[c]}
<1>9. L = K \cup {c}
  <2>1. ASSUME NEW d \in L PROVE d \in K \cup {c}
    <3>1. d \in Address /\ Rank[d] \in Nat /\ Rank[d] \in R
      BY <1>4, QueryAssumption
    <3>2. Rank[d] <= Rank[c]
      BY <1>6, <1>7, <3>1
    <3>3. Rank[d] = Rank[c] => d = c
      BY <1>8, <3>1, QueryAssumption
    <3> QED
      BY <1>8, <3>1, <3>2, <3>3
  <2>2. ASSUME NEW d \in K PROVE d \in L
    <3>1. d \in Address /\ Rank[d] \in Nat /\ Rank[d] < Rank[c]
      BY QueryAssumption
    <3> QED
      BY <1>4, <1>8, <3>1
  <2> QED
    BY <1>7, <2>1, <2>2
<1>10. c \notin K /\ IsFiniteSet(K)
  BY <1>8, BeforeFacts
<1>11. Cardinality(L) = Cardinality(K) + 1
  BY <1>9, <1>10, FS_AddElement
<1>12. Before(m, b) = Before(m, c) + 1
  BY <1>11 DEF Before
<1>13. Before(m, c) < k /\ Before(m, c) \in Nat
  BY <1>3, <1>8, BeforeFacts
<1> QED
  BY <1>12, <1>13

(* An address is on the page its place says; an empty page means that all  *)
(* the places are below.                                                   *)
LEMMA PageFacts ==
    ASSUME NEW m, m \subseteq Address, NEW limit \in Nat \ {0}, NEW from \in Nat
    PROVE  /\ \A a \in Address : a \in Page(m, limit, from) <=>
                 a \in m /\ from <= Before(m, a) /\ Before(m, a) < from + limit
           /\ Page(m, limit, from) = {} => \A a \in m : Before(m, a) < from
<1>1. ASSUME NEW a \in Address
      PROVE  a \in Page(m, limit, from) <=>
                 a \in m /\ from <= Before(m, a) /\ Before(m, a) < from + limit
  BY DEF Page, Before
<1>2. ASSUME Page(m, limit, from) = {}, NEW a \in m PROVE Before(m, a) < from
  <2>1. Before(m, a) \in Nat
    BY BeforeFacts
  <2> SUFFICES ASSUME from <= Before(m, a) PROVE FALSE
    BY <2>1
  <2>2. PICK b \in m : Before(m, b) = from
    BY PlaceTaken
  <2>3. b \in Page(m, limit, from)
    BY <1>1, <2>2
  <2> QED
    BY <1>2, <2>3
<1> QED
  BY <1>1, <1>2
-----------------------------------------------------------------------------
(* The tables.                                                             *)
Row == [cand : Cand, status : Store!Status]

(* cs holds candidates of rows of the table only. *)
Drawn(cs, table) ==
    Store!IsScan(cs) /\ \A k \in DOMAIN cs : \E i \in DOMAIN table : table[i].cand = cs[k]

(* ScanActive returns candidates of rows that are in the table, and so     *)
(* does its restriction to those that reach a threshold.                   *)
LEMMA ScanIsDrawn ==
    ASSUME NEW table \in Seq(Row), NEW S
    PROVE  Drawn(Store!ActiveOf(table, S), table)
<1> DEFINE D == {j \in DOMAIN table : table[j].status = "active" /\ table[j].cand \in S}
<1>1. DOMAIN table \subseteq Nat /\ \A i \in DOMAIN table : table[i].cand \in Cand
  <2>1. DOMAIN table = 1..Len(table) /\ Len(table) \in Nat
    OBVIOUS
  <2>2. \A i \in DOMAIN table : table[i] \in Row
    OBVIOUS
  <2> QED
    BY <2>1, <2>2 DEF Row
<1>2. Store!ActiveOf(table, S) = [i \in D |-> table[i].cand]
  BY DEF Store!ActiveOf
<1>3. D \subseteq DOMAIN table
  OBVIOUS
<1> HIDE DEF D
<1>4. DOMAIN Store!ActiveOf(table, S) = D /\ \A i \in D : Store!ActiveOf(table, S)[i] = table[i].cand
  BY <1>2
<1> QED
  BY <1>1, <1>3, <1>4 DEF Drawn, Store!IsScan
-----------------------------------------------------------------------------
(* The inductive invariant.                                                *)

(* The writers' locals; where the consumer is tells what kind of operation *)
(* it has in hand.                                                         *)
WriterInv ==
    /\ hub \subseteq Address
    /\ done \in 0..Len(Ops)
    /\ pc \in [Store!Actor -> Store!Step]
    /\ pc["consumer"] # "idle" => done < Len(Ops)
    /\ pc["consumer"] \in {"mark", "record"} => Store!IsRun(Ops[done + 1])
    /\ next \in Nat \ {0}
    /\ changed \in BOOLEAN
    /\ committed \in 0..done /\ dropped \subseteq 1..Len(Ops) /\ tries \in [1..Len(Ops) -> Nat]
    /\ faults \in Nat /\ corrections \in Nat
    /\ hit \subseteq {"overlap", "skipped", "dropped"}

(* What a writer has read is of rows that are in the table. *)
TableInv ==
    /\ evidence \in Seq(Row)
    /\ list \subseteq DOMAIN evidence
    /\ DOMAIN scan = Store!Actor
    /\ \A x \in Store!Actor : Drawn(scan[x], evidence)

(* The rows of the table at the places R, whatever has become of them,     *)
(* account for the clustering v: each of its clusters has a row, and is    *)
(* linked by rows.                                                         *)
Supported(v, R, table) ==
    /\ Clustered(v)
    /\ \A a \in Address : v[a] # None =>
          \E i \in R : v[AddressA[table[i].cand]] = v[a]
    /\ \A id \in Address : \A S \in SUBSET Members(v, id) :
          S # {} /\ S # Members(v, id) =>
              \E i \in R : /\ Store!Ends(table[i].cand) \cap S # {}
                          /\ Store!Ends(table[i].cand) \cap (Members(v, id) \ S) # {}

CacheInv == Supported(cache, DOMAIN evidence, evidence)

SameRequest == [kind : {"same"}, a : Address, b : Address, strict : BOOLEAN]
MembersRequest == [kind : {"members"}, id : Address, strict : BOOLEAN]
EvidenceRequest == [kind : {"evidence"}, id : Address]
ScrapeRequest == [kind : {"scrape"}, rows : Nat, failed : BOOLEAN]

(* The phase tells what kind of request is in hand. *)
RequestInv ==
    /\ views \in Seq([Address -> Address \cup {None}])
    /\ \A i \in DOMAIN views : Clustered(views[i])
    /\ listed \in [Address -> Nat]
    /\ offset \in Nat
    /\ answer \in BOOLEAN
    /\ \/ phase = "idle" /\ Fresh
       \/ phase \in {"second", "answer"} /\ req \in SameRequest
       \/ phase \in {"page", "answer"} /\ req \in MembersRequest
       \/ phase \in {"rows", "answer"} /\ req \in EvidenceRequest
       \/ phase \in {"active", "invalid", "answer"} /\ req \in ScrapeRequest

(* SameCluster's second read is made only when the first found a cluster.  *)
SameInv ==
    req.kind = "same" =>
        /\ phase = "second" => Len(views) = 1 /\ views[1][req.a] # None
        /\ answer => /\ Len(views) = 2 /\ views[1][req.a] # None
                     /\ views[2][req.b] = views[1][req.a]

(* The members at the i-th read. *)
Read(i) == Members(views[i], req.id)
Steady(a) == \A i \in DOMAIN views : i > 1 => Stay(Read(i - 1), Read(i), a)
Constant == \A i \in DOMAIN views : Read(i) = Read(1)

(* An address is to be listed from offset o on. *)
Ahead(m, a, o) == a \in m /\ Before(m, a) >= o

(* The one listing due so far, if its place is below o or the list ends.   *)
Due(m, a, o, ended) == IF a \in m /\ (ended \/ Before(m, a) < o) THEN 1 ELSE 0

(* A member that is not listed yet, where nobody up to it left, comes at   *)
(* the offset or later; if nothing changed, those before the offset were   *)
(* listed once.                                                            *)
PageInv ==
    req.kind = "members" =>
        /\ Len(views) > 0
        /\ \A a \in Read(1) : Steady(a) =>
              listed[a] > 0 \/ (phase = "page" /\ Ahead(Read(Len(views)), a, offset))
        /\ Constant => \A a \in Address :
              listed[a] = Due(Read(1), a, offset, phase = "answer")

(* The rows account for the clusters evidence_of has read; those it has    *)
(* returned link the members.                                              *)
EvidenceInv ==
    req.kind = "evidence" =>
        /\ phase = "rows" =>
              /\ Len(views) = 1 /\ Supported(views[1], DOMAIN evidence, evidence)
              /\ \A a \in Address :
                    listed[a] > 0 <=> a \in Page(Members(views[1], req.id), EvidenceLimit, 0)
        /\ phase = "answer" => found \subseteq DOMAIN evidence
        /\ EvidenceExplainsCluster

(* A row that was there when the scrape began is counted as active, or is  *)
(* invalidated for good.                                                   *)
ScrapeInv ==
    req.kind = "scrape" =>
        /\ req.rows <= Len(evidence)
        /\ Len(views) = 1 /\ Supported(views[1], 1..req.rows, evidence)
        /\ found \subseteq (DOMAIN evidence) \X {"active", "invalidated"}
        /\ phase = "invalid" =>
              \A i \in 1..req.rows : <<i, "active">> \in found \/ i \notin Store!Active
        /\ phase = "answer" /\ ~req.failed =>
              \A i \in 1..req.rows : \E s \in {"active", "invalidated"} : <<i, s>> \in found

IInv ==
    /\ WriterInv /\ TableInv /\ CacheInv
    /\ RequestInv /\ SameInv /\ PageInv /\ EvidenceInv /\ ScrapeInv
-----------------------------------------------------------------------------
(* What the writers do to the tables.                                      *)

(* Table u is table t with rows appended and rows invalidated. *)
GrownTo(t, u) ==
    /\ u \in Seq(Row)
    /\ Len(t) <= Len(u)
    /\ \A i \in DOMAIN t :
          /\ i \in DOMAIN u /\ u[i].cand = t[i].cand
          /\ u[i].status = "active" => t[i].status = "active"

LEMMA AppendGrows ==
    ASSUME NEW t \in Seq(Row), NEW c \in Cand
    PROVE  GrownTo(t, Append(t, [cand |-> c, status |-> "active"]))
<1> DEFINE r == [cand |-> c, status |-> "active"]
<1>1. r \in Row
  BY DEF Row, Store!Status
<1> HIDE DEF r
<1>2. Append(t, r) \in Seq(Row) /\ Len(t) <= Len(Append(t, r))
  BY <1>1
<1>3. \A i \in DOMAIN t : i \in DOMAIN Append(t, r) /\ Append(t, r)[i] = t[i]
  BY <1>1
<1>4. GrownTo(t, Append(t, r))
  BY <1>2, <1>3 DEF GrownTo
<1> QED
  BY <1>4 DEF r

LEMMA InvalidateGrows ==
    ASSUME NEW t \in Seq(Row), NEW i \in DOMAIN t, NEW u,
           NEW reason \in {"reorg", "manual-correction"},
           u = IF t[i].status = "active" THEN [t EXCEPT ![i].status = reason] ELSE t
    PROVE  GrownTo(t, u) /\ DOMAIN u = DOMAIN t
<1>1. CASE t[i].status # "active"
  BY <1>1 DEF GrownTo
<1>2. CASE t[i].status = "active"
  <2>1. u = [t EXCEPT ![i].status = reason]
    BY <1>2
  <2>2. t \in [1..Len(t) -> Row] /\ Len(t) \in Nat /\ DOMAIN t = 1..Len(t)
    OBVIOUS
  <2>3. DOMAIN u = 1..Len(t)
    BY <2>1, <2>2
  <2>4. ASSUME NEW j \in DOMAIN t, j # i PROVE u[j] = t[j]
    BY <2>1, <2>4
  <2>5. u[i] = [t[i] EXCEPT !.status = reason]
    BY <2>1
  <2>6. t[i] \in Row
    BY <2>2
  <2>7. u[i] \in Row /\ u[i].status = reason /\ u[i].cand = t[i].cand
    BY <2>5, <2>6 DEF Row, Store!Status
  <2>8. u \in [1..Len(t) -> Row]
    BY <2>1, <2>2, <2>4, <2>7
  <2>9. u \in Seq(Row) /\ Len(u) = Len(t)
    <3> HIDE DEF GrownTo
    <3> QED
      BY <2>2, <2>8
  <2> QED
    BY <1>2, <2>2, <2>3, <2>4, <2>7, <2>9 DEF GrownTo
<1> QED
  BY <1>1, <1>2

LEMMA StaysGrown == ASSUME NEW t \in Seq(Row) PROVE GrownTo(t, t)
BY DEF GrownTo

LEMMA DrawnStays ==
    ASSUME NEW cs, NEW t, NEW u, Drawn(cs, t), GrownTo(t, u)
    PROVE  Drawn(cs, u)
BY DEF Drawn, GrownTo

LEMMA DrawnNothing == ASSUME NEW t PROVE Drawn(<<>>, t)
BY DEF Drawn, Store!IsScan

LEMMA SupportedStays ==
    ASSUME NEW v, NEW R, NEW Q, NEW t, NEW u, Supported(v, R, t), GrownTo(t, u),
           R \subseteq DOMAIN t, R \subseteq Q
    PROVE  Supported(v, Q, u)
<1>1. \A i \in R : i \in Q /\ u[i].cand = t[i].cand
  BY DEF GrownTo
<1> QED
  BY <1>1 DEF Supported

(* What is replayed from rows of the table is accounted for by them. *)
LEMMA DrawnSupports ==
    ASSUME NEW cs, NEW t, Drawn(cs, t)
    PROVE  Supported(Store!Replay(cs), DOMAIN t, t)
<1>1. Store!IsScan(cs) /\ \A k \in DOMAIN cs : \E i \in DOMAIN t : t[i].cand = cs[k]
  BY DEF Drawn
<1>2. Linked(cs, Store!Replay(cs)) /\ Clustered(Store!Replay(cs))
  BY <1>1, ReplayLinks, ReplayClusters
<1> QED
  BY <1>1, <1>2 DEF Linked, Supported

LEMMA Actors ==
    "consumer" \in Store!Actor /\ "operator" \in Store!Actor /\ Store!Actor = {"consumer", "operator"}
BY DEF Store!Actor

LEMMA GotoFacts ==
    ASSUME pc \in [Store!Actor -> Store!Step], NEW x \in Store!Actor, NEW s \in Store!Step,
           Store!Goto(x, s)
    PROVE  /\ pc' \in [Store!Actor -> Store!Step]
           /\ pc'[x] = s
           /\ \A y \in Store!Actor : y # x => pc'[y] = pc[y]
BY DEF Store!Goto

(* The batch in hand. *)
LEMMA BatchFacts ==
    ASSUME WriterInv, done < Len(Ops), Store!IsRun(Ops[done + 1])
    PROVE  Ops[done + 1].cands \in Seq(Cand) /\ Ops[done + 1].hubs \subseteq Address
<1>1. done + 1 \in 1..Len(Ops)
  BY StoreAssumption DEF WriterInv
<1> QED
  BY <1>1, StoreAssumption DEF Store!IsRun

(* A step of a writer appends to the table or invalidates, nothing else.   *)
LEMMA TableGrows ==
    ASSUME WriterInv, TableInv, Store!Next
    PROVE  GrownTo(evidence, evidence')
<1>1. CASE Store!RecordAndMerge
  <2>1. done < Len(Ops) /\ Store!IsRun(Ops[done + 1])
    BY <1>1 DEF Store!RecordAndMerge, WriterInv
  <2> DEFINE c == Ops[done + 1].cands[next]
  <2>2. c \in Cand
    <3>1. Ops[done + 1].cands \in Seq(Cand) /\ next \in Nat \ {0}
      BY <2>1, BatchFacts DEF WriterInv
    <3>2. next \in 1..Len(Ops[done + 1].cands)
      BY <1>1, <3>1 DEF Store!RecordAndMerge
    <3> QED
      BY <3>1, <3>2
  <2>3. \/ evidence' = evidence
        \/ evidence' = Append(evidence, [cand |-> c, status |-> "active"])
    BY <1>1 DEF Store!RecordAndMerge
  <2> HIDE DEF c
  <2> QED
    BY <2>2, <2>3, AppendGrows, StaysGrown DEF TableInv
<1>2. CASE Store!InvalidateRow
  <2>1. PICK i \in list : Store!Invalidate(i, "reorg")
    BY <1>2 DEF Store!InvalidateRow
  <2> QED
    BY <2>1, InvalidateGrows DEF TableInv, Store!Invalidate
<1>3. CASE Store!CorrectRow
  <2>1. PICK i \in DOMAIN evidence : Store!Invalidate(i, "manual-correction")
    BY <1>3 DEF Store!CorrectRow
  <2> QED
    BY <2>1, InvalidateGrows DEF TableInv, Store!Invalidate
<1>4. CASE ~Store!RecordAndMerge /\ ~Store!InvalidateRow /\ ~Store!CorrectRow
  <2>1. evidence' = evidence
    BY <1>4 DEF Store!Next, Store!Consume, Store!StartRun, Store!MarkHub, Store!MarkDone,
                Store!RecordDone, Store!StartReorg, Store!InvalidateDone, Store!Commit,
                Store!Wait, Store!vars, Store!ScanActive, Store!ReplaceCache, Store!GivesUp,
                Store!Crash, Store!PeriodicFlushFails, Store!CorrectionFails
  <2> QED
    BY <2>1, StaysGrown DEF TableInv
<1> QED
  BY <1>1, <1>2, <1>3, <1>4

(* A writer's step keeps its locals consistent. *)
LEMMA WriterStep ==
    ASSUME WriterInv, Store!Next
    PROVE  WriterInv'
<1>0. Len(Ops) \in Nat
  BY StoreAssumption
<1> USE <1>0, Actors, GotoFacts DEF WriterInv, Store!Step
<1>b. ASSUME Store!Begin, done < Len(Ops) PROVE tries' \in [1..Len(Ops) -> Nat]
  <2>1. done + 1 \in 1..Len(Ops) /\ tries[done + 1] \in Nat
    BY <1>b
  <2> QED
    BY <1>b, <2>1 DEF Store!Begin
<1>1. CASE Store!StartRun
  BY <1>1, <1>b DEF Store!StartRun
<1>h. CASE Store!MarkHub
  <2>1. hub' \subseteq Address
    BY <1>h, BatchFacts DEF Store!MarkHub
  <2> QED
    BY <1>h, <2>1 DEF Store!MarkHub
<1>d. CASE Store!MarkDone
  BY <1>d DEF Store!MarkDone
<1>2. CASE Store!RecordAndMerge
  BY <1>2 DEF Store!RecordAndMerge
<1>3. CASE Store!RecordDone
  BY <1>3 DEF Store!RecordDone
<1>4. CASE Store!StartReorg
  BY <1>4, <1>b DEF Store!StartReorg
<1>5. CASE Store!InvalidateRow
  <2>1. changed' \in BOOLEAN
    BY <1>5 DEF Store!InvalidateRow
  <2> QED
    BY <1>5, <2>1 DEF Store!InvalidateRow
<1>6. CASE Store!InvalidateDone
  BY <1>6 DEF Store!InvalidateDone, Store!AfterInvalidation
<1>7. CASE Store!Commit
  <2>1. done + 1 \in 0..Len(Ops) /\ committed' \in 0..done'
    BY <1>7 DEF Store!Commit
  <2> QED
    BY <1>7, <2>1 DEF Store!Commit
<1>8. CASE Store!CorrectRow
  <2>1. /\ pc' \in [Store!Actor -> Store!Step] /\ pc'["consumer"] = pc["consumer"]
    BY <1>8 DEF Store!CorrectRow
  <2>2. corrections' \in Nat
    <3>1. corrections \in Nat /\ corrections' = corrections + 1
      BY <1>8 DEF Store!CorrectRow
    <3> QED
      BY <3>1
  <2> QED
    BY <1>8, <2>1, <2>2 DEF Store!CorrectRow
<1>9. ASSUME NEW x \in Store!Actor, Store!ScanActive(x) PROVE WriterInv'
  BY <1>9 DEF Store!ScanActive
<1>10. ASSUME NEW x \in Store!Actor, Store!ReplaceCache(x) PROVE WriterInv'
  <2>1. hit' \subseteq {"overlap", "skipped", "dropped"}
    BY <1>10 DEF Store!ReplaceCache
  <2>2. pc' \in [Store!Actor -> Store!Step] /\ (x # "consumer" => pc'["consumer"] = pc["consumer"])
        /\ (x = "consumer" => pc'["consumer"] = "commit")
    BY <1>10 DEF Store!ReplaceCache
  <2>3. UNCHANGED <<hub, done, next, changed, committed, dropped, tries, faults, corrections>>
    BY <1>10 DEF Store!ReplaceCache
  <2>4. pc'["consumer"] # "idle" => done < Len(Ops)
    BY <1>10, <2>2 DEF Store!ReplaceCache
  <2> QED
    BY <2>1, <2>2, <2>3, <2>4
<1>g. ASSUME Store!GivesUp
      PROVE  /\ pc' \in [Store!Actor -> Store!Step] /\ pc'["consumer"] = "idle"
             /\ UNCHANGED <<hub, corrections, tries>> /\ next' = 1 /\ changed' \in BOOLEAN
             /\ faults' \in Nat
  <2>1. faults' = faults + 1 /\ faults \in Nat
    BY <1>g DEF Store!GivesUp
  <2>2. faults' \in Nat
    BY <2>1
  <2> QED
    BY <1>g, <2>2 DEF Store!GivesUp
<1>11. CASE Store!Crash
  <2>1. done' = committed /\ UNCHANGED <<committed, dropped>>
    BY <1>11 DEF Store!Crash
  <2>2. done' \in 0..Len(Ops) /\ committed' \in 0..done'
    BY <2>1
  <2>3. hit' \subseteq {"overlap", "skipped", "dropped"}
    BY <1>11 DEF Store!Crash
  <2> QED
    BY <1>g, <1>11, <2>1, <2>2, <2>3 DEF Store!Crash
<1>f. CASE Store!PeriodicFlushFails
  <2>1. done < Len(Ops) /\ done' = done + 1 /\ committed' = committed
    BY <1>f DEF Store!PeriodicFlushFails
  <2>2. done' \in 0..Len(Ops) /\ committed' \in 0..done' /\ done + 1 \in 1..Len(Ops)
    BY <2>1
  <2>3. dropped' \subseteq 1..Len(Ops)
    BY <1>f, <2>2 DEF Store!PeriodicFlushFails
  <2>4. hit' \subseteq {"overlap", "skipped", "dropped"}
    BY <1>f DEF Store!PeriodicFlushFails
  <2> QED
    BY <1>g, <1>f, <2>2, <2>3, <2>4 DEF Store!PeriodicFlushFails
<1>12. CASE Store!CorrectionFails
  <2>1. pc' \in [Store!Actor -> Store!Step] /\ pc'["consumer"] = pc["consumer"]
    BY <1>12 DEF Store!CorrectionFails
  <2>2. UNCHANGED <<hub, done, next, changed, committed, dropped, tries, corrections>>
    BY <1>12 DEF Store!CorrectionFails
  <2>3. faults' \in Nat
    <3>1. faults' = faults + 1 /\ faults \in Nat
      BY <1>12 DEF Store!CorrectionFails
    <3> QED
      BY <3>1
  <2>4. hit' \subseteq {"overlap", "skipped", "dropped"}
    BY <1>12 DEF Store!CorrectionFails
  <2> QED
    BY <2>1, <2>2, <2>3, <2>4
<1>13. CASE Store!Wait
  BY <1>13 DEF Store!Wait, Store!vars
<1> QED
  BY <1>1, <1>h, <1>d, <1>2, <1>3, <1>4, <1>5, <1>6, <1>7, <1>8, <1>9, <1>10, <1>11, <1>f,
     <1>12, <1>13
  DEF Store!Next, Store!Consume

(* ... and what it has read within the table; the cache is replaced by a   *)
(* replay of rows that are there, or were.                                 *)
LEMMA TableStep ==
    ASSUME WriterInv, TableInv, CacheInv, Store!Next
    PROVE  TableInv' /\ CacheInv'
<1>1. GrownTo(evidence, evidence')
  BY TableGrows
<1>2. evidence' \in Seq(Row) /\ DOMAIN evidence \subseteq DOMAIN evidence'
  BY <1>1 DEF GrownTo
<1>3. list' \subseteq DOMAIN evidence'
  <2>1. list' \subseteq DOMAIN evidence
    BY DEF TableInv, Store!Next, Store!Consume, Store!StartRun, Store!MarkHub,
           Store!MarkDone, Store!RecordAndMerge, Store!RecordDone, Store!StartReorg, Store!InvalidateRow, Store!InvalidateDone,
           Store!Commit, Store!Wait, Store!vars, Store!CorrectRow, Store!ScanActive,
           Store!ReplaceCache, Store!GivesUp, Store!Crash, Store!PeriodicFlushFails,
           Store!CorrectionFails, Store!Active
  <2> QED
    BY <1>2, <2>1
<1>4. \/ scan' = scan
      \/ \E x \in Store!Actor : scan' = [scan EXCEPT ![x] = Store!ActiveOf(evidence, Cand)]
      \/ \E x \in Store!Actor : scan' = [scan EXCEPT ![x] = <<>>]
  BY Actors DEF Store!Next, Store!Consume, Store!StartRun, Store!MarkHub,
           Store!MarkDone, Store!RecordAndMerge, Store!RecordDone, Store!StartReorg, Store!InvalidateRow, Store!InvalidateDone,
           Store!Commit, Store!Wait, Store!vars, Store!CorrectRow, Store!ScanActive,
           Store!ReplaceCache, Store!GivesUp, Store!Crash, Store!PeriodicFlushFails,
           Store!CorrectionFails, Store!ActiveCands
<1>5. DOMAIN scan' = Store!Actor
  BY <1>4 DEF TableInv
<1>6. ASSUME NEW y \in Store!Actor PROVE Drawn(scan'[y], evidence')
  <2>1. \/ scan'[y] = scan[y] \/ scan'[y] = Store!ActiveOf(evidence, Cand)
        \/ scan'[y] = <<>>
    BY <1>4 DEF TableInv
  <2>2. Drawn(scan'[y], evidence)
    BY <2>1, ScanIsDrawn, DrawnNothing DEF TableInv
  <2> QED
    BY <1>1, <2>2, DrawnStays
<1>7. TableInv'
  BY <1>2, <1>3, <1>5, <1>6 DEF TableInv
<1>8. \/ cache' = cache
      \/ \E x \in Store!Actor : cache' = Store!Replay(scan[x])
  BY DEF Store!Next, Store!Consume, Store!StartRun, Store!MarkHub,
           Store!MarkDone, Store!RecordAndMerge, Store!RecordDone, Store!StartReorg, Store!InvalidateRow, Store!InvalidateDone,
           Store!Commit, Store!Wait, Store!vars, Store!CorrectRow, Store!ScanActive,
           Store!ReplaceCache, Store!GivesUp, Store!Crash, Store!PeriodicFlushFails,
           Store!CorrectionFails
<1>9. Supported(cache', DOMAIN evidence, evidence)
  BY <1>8, DrawnSupports DEF TableInv, CacheInv
<1>10. CacheInv'
  BY <1>1, <1>2, <1>9, SupportedStays DEF CacheInv
<1> QED
  BY <1>7, <1>10

(* What a statement sees of the clusters is a clustering; what it sees in  *)
(* the cache is accounted for.                                             *)
LEMMA ViewFacts ==
    ASSUME TableInv, CacheInv, NEW strict \in BOOLEAN
    PROVE  Clustered(View(strict)) /\ Clustered(cache)
<1>1. Clustered(cache)
  BY DEF CacheInv, Supported
<1>2. Clustered(ThresholdView)
  <2>1. Drawn(Store!ActiveOf(evidence, Strong), evidence)
    BY ScanIsDrawn DEF TableInv
  <2> QED
    BY <2>1, ReplayClusters DEF ThresholdView, Drawn
<1> QED
  BY <1>1, <1>2 DEF View
-----------------------------------------------------------------------------
(* The requests.                                                           *)
LEMMA Kinds ==
    /\ \A r \in SameRequest : r.kind = "same" /\ r.a \in Address /\ r.b \in Address /\ r.strict \in BOOLEAN
    /\ \A r \in MembersRequest : r.kind = "members" /\ r.id \in Address /\ r.strict \in BOOLEAN
    /\ \A r \in EvidenceRequest : r.kind = "evidence" /\ r.id \in Address
    /\ \A r \in ScrapeRequest : r.kind = "scrape" /\ r.rows \in Nat /\ r.failed \in BOOLEAN
    /\ NoRequest.kind = "none"
BY DEF SameRequest, MembersRequest, EvidenceRequest, ScrapeRequest, NoRequest

(* The kind of the request in hand follows from its phase, and back. *)
LEMMA PhaseFacts ==
    ASSUME RequestInv
    PROVE  /\ req.kind = "none" <=> phase = "idle"
           /\ req.kind = "same" => req \in SameRequest /\ phase \in {"second", "answer"}
           /\ req.kind = "members" => req \in MembersRequest /\ phase \in {"page", "answer"}
           /\ req.kind = "evidence" => req \in EvidenceRequest /\ phase \in {"rows", "answer"}
           /\ req.kind = "scrape" => req \in ScrapeRequest /\ phase \in {"active", "invalid", "answer"}
           /\ phase = "idle" => Fresh
           /\ phase = "second" => req.kind = "same"
           /\ phase = "page" => req.kind = "members"
           /\ phase = "rows" => req.kind = "evidence"
           /\ phase \in {"active", "invalid"} => req.kind = "scrape"
           /\ req.kind \in {"none", "same", "members", "evidence", "scrape"}
BY Kinds DEF RequestInv, Fresh

(* A further read of the clusters. *)
LEMMA ViewsFacts ==
    ASSUME NEW vs \in Seq([Address -> Address \cup {None}]),
           \A i \in DOMAIN vs : Clustered(vs[i]), NEW v, Clustered(v)
    PROVE  /\ Append(vs, v) \in Seq([Address -> Address \cup {None}])
           /\ \A i \in DOMAIN Append(vs, v) : Clustered(Append(vs, v)[i])
           /\ <<v>> \in Seq([Address -> Address \cup {None}])
           /\ \A i \in DOMAIN <<v>> : Clustered(<<v>>[i])
           /\ Len(Append(vs, v)) = Len(vs) + 1 /\ Append(vs, v)[Len(vs) + 1] = v
           /\ \A i \in DOMAIN vs : Append(vs, v)[i] = vs[i]
           /\ Len(vs) \in Nat /\ DOMAIN vs = 1..Len(vs)
           /\ Len(<<v>>) = 1 /\ <<v>>[1] = v
<1>1. v \in [Address -> Address \cup {None}]
  BY DEF Clustered
<1>2. \A i \in DOMAIN Append(vs, v) : Append(vs, v)[i] = v \/ (i \in DOMAIN vs /\ Append(vs, v)[i] = vs[i])
  BY <1>1
<1>3. \A i \in DOMAIN <<v>> : <<v>>[i] = v
  OBVIOUS
<1> HIDE DEF Clustered
<1>4. \A i \in DOMAIN Append(vs, v) : Clustered(Append(vs, v)[i])
  BY <1>2
<1>5. \A i \in DOMAIN <<v>> : Clustered(<<v>>[i])
  BY <1>3
<1>6. /\ Append(vs, v) \in Seq([Address -> Address \cup {None}])
      /\ <<v>> \in Seq([Address -> Address \cup {None}])
  BY <1>1
<1>7. /\ Len(Append(vs, v)) = Len(vs) + 1 /\ Append(vs, v)[Len(vs) + 1] = v
      /\ \A i \in DOMAIN vs : Append(vs, v)[i] = vs[i]
      /\ Len(vs) \in Nat /\ DOMAIN vs = 1..Len(vs)
      /\ Len(<<v>>) = 1 /\ <<v>>[1] = v
  BY <1>1
<1> QED
  BY <1>4, <1>5, <1>6, <1>7

LEMMA FreshStep == ASSUME Reply PROVE Fresh' /\ req' = NoRequest /\ phase' = "idle"
BY DEF Reply, Fresh, NoRequest

Tables == WriterInv /\ TableInv /\ CacheInv

LEMMA RequestStep ==
    ASSUME Tables, RequestInv, Query
    PROVE  RequestInv'
<1>1. /\ views \in Seq([Address -> Address \cup {None}])
      /\ \A i \in DOMAIN views : Clustered(views[i])
      /\ listed \in [Address -> Nat] /\ offset \in Nat /\ answer \in BOOLEAN
  BY DEF RequestInv
<1>2. ASSUME NEW strict \in BOOLEAN PROVE Clustered(View(strict)) /\ Clustered(cache)
  BY ViewFacts DEF Tables
<1>3. CASE SameFirst
  <2>1. PICK a \in Address, b \in Address, strict \in BOOLEAN :
             /\ req' = [kind |-> "same", a |-> a, b |-> b, strict |-> strict]
             /\ views' = <<View(strict)>>
             /\ phase' = IF View(strict)[a] = None THEN "answer" ELSE "second"
    BY <1>3 DEF SameFirst
  <2>2. req' \in SameRequest /\ phase' \in {"second", "answer"}
    BY <2>1 DEF SameRequest
  <2>3. /\ views' \in Seq([Address -> Address \cup {None}])
        /\ \A i \in DOMAIN views' : Clustered(views'[i])
    BY <1>1, <1>2, <2>1, ViewsFacts
  <2> QED
    BY <1>1, <1>3, <2>2, <2>3 DEF SameFirst, RequestInv
<1>4. CASE SameSecond
  <2>1. req.kind = "same" /\ req \in SameRequest /\ req' = req /\ phase' = "answer"
    BY <1>4, PhaseFacts DEF SameSecond
  <2>2. req.strict \in BOOLEAN
    BY <2>1, Kinds
  <2>3. /\ views' \in Seq([Address -> Address \cup {None}])
        /\ \A i \in DOMAIN views' : Clustered(views'[i])
    BY <1>1, <1>2, <1>4, <2>2, ViewsFacts DEF SameSecond
  <2>4. answer' \in BOOLEAN
    BY <1>4 DEF SameSecond
  <2> QED
    BY <1>1, <1>4, <2>1, <2>3, <2>4 DEF SameSecond, RequestInv
<1>5. ASSUME NEW id \in Address, NEW strict \in BOOLEAN, ReadPage(id, strict)
      PROVE  /\ views' \in Seq([Address -> Address \cup {None}])
             /\ \A i \in DOMAIN views' : Clustered(views'[i])
             /\ listed' \in [Address -> Nat] /\ offset' \in Nat /\ phase' \in {"page", "answer"}
  <2>1. /\ views' \in Seq([Address -> Address \cup {None}])
        /\ \A i \in DOMAIN views' : Clustered(views'[i])
    BY <1>1, <1>2, <1>5, ViewsFacts DEF ReadPage
  <2>2. listed' \in [Address -> Nat] /\ offset' \in Nat /\ phase' \in {"page", "answer"}
    BY <1>1, <1>5, QueryAssumption DEF ReadPage
  <2> QED
    BY <2>1, <2>2
<1>6. CASE FirstPage
  <2>1. PICK id \in Address, strict \in BOOLEAN :
             /\ req' = [kind |-> "members", id |-> id, strict |-> strict]
             /\ ReadPage(id, strict)
    BY <1>6 DEF FirstPage
  <2>2. req' \in MembersRequest
    BY <2>1 DEF MembersRequest
  <2> QED
    BY <1>1, <1>5, <1>6, <2>1, <2>2 DEF FirstPage, RequestInv
<1>7. CASE NextPage
  <2>1. req \in MembersRequest /\ req' = req /\ ReadPage(req.id, req.strict)
    BY <1>7, PhaseFacts DEF NextPage
  <2>2. req.id \in Address /\ req.strict \in BOOLEAN
    BY <2>1, Kinds
  <2> QED
    BY <1>1, <1>5, <1>7, <2>1, <2>2 DEF NextPage, RequestInv
<1>8. CASE EvidenceMembers
  <2>1. PICK id \in Address :
             /\ req' = [kind |-> "evidence", id |-> id]
             /\ listed' = [a \in Address |->
                   IF a \in Page(Members(cache, id), EvidenceLimit, 0) THEN 1 ELSE 0]
    BY <1>8 DEF EvidenceMembers
  <2>2. req' \in EvidenceRequest /\ listed' \in [Address -> Nat]
    BY <2>1 DEF EvidenceRequest
  <2>3. /\ views' \in Seq([Address -> Address \cup {None}])
        /\ \A i \in DOMAIN views' : Clustered(views'[i])
    BY <1>1, <1>2, <1>8, ViewsFacts DEF EvidenceMembers
  <2> QED
    BY <1>1, <1>8, <2>2, <2>3 DEF EvidenceMembers, RequestInv
<1>9. CASE EvidenceRows
  <2>1. req \in EvidenceRequest /\ req' = req /\ phase' = "answer"
    BY <1>9, PhaseFacts DEF EvidenceRows
  <2> QED
    BY <1>1, <1>9, <2>1 DEF EvidenceRows, RequestInv
<1>10. CASE ScrapeClusters
  <2>1. req' \in ScrapeRequest
    <3>1. Len(evidence) \in Nat
      BY DEF Tables, TableInv
    <3> QED
      BY <1>10, <3>1 DEF ScrapeClusters, ScrapeRequest
  <2>2. /\ views' \in Seq([Address -> Address \cup {None}])
        /\ \A i \in DOMAIN views' : Clustered(views'[i])
    BY <1>1, <1>2, <1>10, ViewsFacts DEF ScrapeClusters
  <2> QED
    BY <1>1, <1>10, <2>1, <2>2 DEF ScrapeClusters, RequestInv
<1>11. CASE ScrapeActive \/ ScrapeInvalid
  <2>1. req \in ScrapeRequest /\ req' = req /\ phase' \in {"invalid", "answer"}
    BY <1>11, PhaseFacts DEF ScrapeActive, ScrapeInvalid
  <2> QED
    BY <1>1, <1>11, <2>1 DEF ScrapeActive, ScrapeInvalid, RequestInv
<1>12. CASE SectionFails
  <2>1. req \in ScrapeRequest /\ req' = [req EXCEPT !.failed = TRUE] /\ phase' = "answer"
    BY <1>12, PhaseFacts DEF SectionFails
  <2>2. req' \in ScrapeRequest
    BY <2>1 DEF ScrapeRequest
  <2> QED
    BY <1>1, <1>12, <2>1, <2>2 DEF SectionFails, RequestInv
<1>13. CASE Reply
  <2>1. Fresh' /\ phase' = "idle"
    BY <1>13, FreshStep
  <2>2. /\ views' \in Seq([Address -> Address \cup {None}]) /\ DOMAIN views' = {}
        /\ offset' \in Nat /\ listed' \in [Address -> Nat]
    BY <1>13 DEF Reply
  <2>3. answer' \in BOOLEAN
    BY <1>13 DEF Reply
  <2> QED
    BY <2>1, <2>2, <2>3 DEF RequestInv
<1> QED
  BY <1>3, <1>4, <1>6, <1>7, <1>8, <1>9, <1>10, <1>11, <1>12, <1>13 DEF Query

(* A request stays of the kind it was begun as. *)
LEMMA ActionKinds ==
    ASSUME RequestInv
    PROVE  /\ SameFirst \/ SameSecond => req'.kind = "same"
           /\ FirstPage \/ NextPage => req'.kind = "members"
           /\ EvidenceMembers \/ EvidenceRows => req'.kind = "evidence"
           /\ ScrapeClusters \/ ScrapeActive \/ ScrapeInvalid \/ SectionFails => req'.kind = "scrape"
           /\ Reply => req'.kind = "none"
<1>1. SameFirst \/ SameSecond => req'.kind = "same"
  BY PhaseFacts DEF SameFirst, SameSecond
<1>2. FirstPage \/ NextPage => req'.kind = "members"
  BY PhaseFacts DEF FirstPage, NextPage
<1>3. EvidenceMembers \/ EvidenceRows => req'.kind = "evidence"
  BY PhaseFacts DEF EvidenceMembers, EvidenceRows
<1>4. ScrapeClusters \/ ScrapeActive \/ ScrapeInvalid => req'.kind = "scrape"
  BY PhaseFacts DEF ScrapeClusters, ScrapeActive, ScrapeInvalid
<1>5. SectionFails => req'.kind = "scrape"
  <2>1. SectionFails => req \in ScrapeRequest /\ req' = [req EXCEPT !.failed = TRUE]
    BY PhaseFacts DEF SectionFails
  <2> QED
    BY <2>1 DEF ScrapeRequest
<1>6. Reply => req'.kind = "none"
  BY FreshStep, Kinds
<1> QED
  BY <1>1, <1>2, <1>3, <1>4, <1>5, <1>6

LEMMA SameStep ==
    ASSUME Tables, RequestInv, SameInv, Query
    PROVE  SameInv'
<1>1. CASE SameFirst
  <2>1. PICK a \in Address, b \in Address, strict \in BOOLEAN :
             /\ req' = [kind |-> "same", a |-> a, b |-> b, strict |-> strict]
             /\ views' = <<View(strict)>>
             /\ phase' = IF View(strict)[a] = None THEN "answer" ELSE "second"
    BY <1>1 DEF SameFirst
  <2>2. answer' = FALSE /\ req'.a = a
    BY <1>1, <2>1 DEF SameFirst
  <2>3. Len(views') = 1 /\ views'[1] = View(strict)
    BY <2>1
  <2> QED
    BY <2>1, <2>2, <2>3 DEF SameInv
<1>2. CASE SameSecond
  <2>1. /\ req.kind = "same" /\ req' = req /\ phase' = "answer" /\ phase = "second"
        /\ req.strict \in BOOLEAN
    BY <1>2, PhaseFacts, Kinds DEF SameSecond
  <2>2. Len(views) = 1 /\ views[1][req.a] # None
    BY <2>1 DEF SameInv
  <2>3. Len(views') = 2 /\ views'[1] = views[1] /\ views'[2] = View(req.strict)
    <3>1. Clustered(View(req.strict))
      BY <2>1, ViewFacts DEF Tables
    <3>2. views' = Append(views, View(req.strict))
      BY <1>2 DEF SameSecond
    <3>3. /\ views \in Seq([Address -> Address \cup {None}])
          /\ \A i \in DOMAIN views : Clustered(views[i])
      BY DEF RequestInv
    <3>4. /\ Len(views') = Len(views) + 1 /\ views'[Len(views) + 1] = View(req.strict)
          /\ \A i \in DOMAIN views : views'[i] = views[i]
          /\ DOMAIN views = 1..Len(views)
      BY <3>1, <3>2, <3>3, ViewsFacts
    <3> QED
      BY <2>2, <3>4
  <2>4. answer' <=> View(req.strict)[req.b] = views[1][req.a]
    BY <1>2 DEF SameSecond
  <2> QED
    BY <2>1, <2>2, <2>3, <2>4 DEF SameInv
<1>3. CASE ~SameFirst /\ ~SameSecond
  <2>1. req'.kind # "same"
    BY <1>3, ActionKinds DEF Query
  <2> QED
    BY <2>1 DEF SameInv
<1> QED
  BY <1>1, <1>2, <1>3

(* A positive answer of SameCluster is true of the later view if clusters  *)
(* only grew, and of the earlier one if they only split.                   *)
LEMMA SameFollows ==
    ASSUME RequestInv, SameInv
    PROVE  SameIsNotInvented
<1> SUFFICES ASSUME Answered("same"), answer
             PROVE  /\ Grows(views[1], views[2]) => Together(views[2], req.a, req.b)
                    /\ Grows(views[2], views[1]) => Together(views[1], req.a, req.b)
  BY DEF SameIsNotInvented
<1>1. /\ Len(views) = 2 /\ views[1][req.a] # None /\ views[2][req.b] = views[1][req.a]
      /\ req.a \in Address /\ req.b \in Address
  BY PhaseFacts, Kinds DEF Answered, SameInv
<1>2. PICK v, w, id : v = views[1] /\ w = views[2] /\ id = views[1][req.a]
  OBVIOUS
<1>3. Clustered(v) /\ Clustered(w)
  <2>1. 1 \in DOMAIN views /\ 2 \in DOMAIN views
    BY <1>1 DEF RequestInv
  <2> QED
    BY <1>2, <2>1 DEF RequestInv
<1>4. /\ v[req.a] = id /\ w[req.b] = id /\ id # None
      /\ id \in Address /\ v[id] = id /\ w[id] = id
  BY <1>1, <1>2, <1>3 DEF Clustered
<1>5. Together(v, req.a, id) /\ Together(w, req.b, id)
  BY <1>4 DEF Together
<1>6. ASSUME Grows(v, w) PROVE Together(w, req.a, req.b)
  <2>1. Together(w, req.a, id)
    BY <1>1, <1>4, <1>5, <1>6 DEF Grows
  <2> QED
    BY <1>5, <2>1 DEF Together
<1>7. ASSUME Grows(w, v) PROVE Together(v, req.a, req.b)
  <2>1. Together(v, req.b, id)
    BY <1>1, <1>4, <1>5, <1>7 DEF Grows
  <2> QED
    BY <1>5, <2>1 DEF Together
<1> QED
  BY <1>2, <1>6, <1>7

(* One more page at offset o, of the members n: an address listed k times  *)
(* before is now listed l times.                                           *)
Counted(l, k, a, n, o) ==
    k \in Nat /\ l \in Nat /\ l = k + (IF a \in Page(n, Limit, o) THEN 1 ELSE 0)

(* Where nobody up to them left, members that move, move to later pages;   *)
(* an empty page ends the list.                                            *)
LEMMA PageKeepsAhead ==
    ASSUME NEW m, NEW n, m \subseteq Address, n \subseteq Address, NEW o \in Nat,
           NEW a \in Address, Stay(m, n, a), NEW k, NEW l, Counted(l, k, a, n, o),
           k > 0 \/ Ahead(m, a, o)
    PROVE  l > 0 \/ (Page(n, Limit, o) # {} /\ Ahead(n, a, o + Limit))
<1>1. /\ a \in Page(n, Limit, o) <=> a \in n /\ o <= Before(n, a) /\ Before(n, a) < o + Limit
      /\ Page(n, Limit, o) = {} => \A b \in n : Before(n, b) < o
  BY PageFacts, QueryAssumption
<1>2. Before(n, a) \in Nat /\ Limit \in Nat
  BY BeforeFacts, QueryAssumption
<1> SUFFICES ASSUME ~(l > 0) PROVE Page(n, Limit, o) # {} /\ Ahead(n, a, o + Limit)
  OBVIOUS
<1>3. k = 0 /\ a \notin Page(n, Limit, o)
  BY DEF Counted
<1>4. a \in m /\ Before(m, a) >= o
  BY <1>3 DEF Ahead
<1>5. Before(m, a) <= Before(n, a) /\ Before(m, a) \in Nat
  BY BeforeGrows, BeforeFacts
<1>6. a \in n /\ Before(n, a) >= o
  <2>1. Rank[a] <= Rank[a]
    BY QueryAssumption
  <2> QED
    BY <1>2, <1>4, <1>5, <2>1 DEF Stay
<1> QED
  BY <1>1, <1>2, <1>3, <1>6 DEF Ahead

(* Members that do not move are listed once. *)
LEMMA PageKeepsDue ==
    ASSUME NEW n, n \subseteq Address, NEW o \in Nat, NEW a \in Address,
           NEW k, NEW l, Counted(l, k, a, n, o), k = Due(n, a, o, FALSE)
    PROVE  l = Due(n, a, o + Limit, Page(n, Limit, o) = {})
<1>1. /\ a \in Page(n, Limit, o) <=> a \in n /\ o <= Before(n, a) /\ Before(n, a) < o + Limit
      /\ Page(n, Limit, o) = {} => \A b \in n : Before(n, b) < o
  BY PageFacts, QueryAssumption
<1>2. Before(n, a) \in Nat /\ Limit \in Nat
  BY BeforeFacts, QueryAssumption
<1>3. CASE a \notin n
  BY <1>1, <1>3 DEF Counted, Due
<1>4. CASE a \in n
  <2>1. k = IF Before(n, a) < o THEN 1 ELSE 0
    BY <1>4 DEF Due
  <2>2. l = k + (IF o <= Before(n, a) /\ Before(n, a) < o + Limit THEN 1 ELSE 0)
    BY <1>1, <1>4 DEF Counted
  <2>3. l = IF Before(n, a) < o + Limit THEN 1 ELSE 0
    BY <1>2, <2>1, <2>2
  <2>4. Page(n, Limit, o) = {} => Before(n, a) < o + Limit
    BY <1>1, <1>2, <1>4
  <2> QED
    BY <1>4, <2>3, <2>4 DEF Due
<1> QED
  BY <1>3, <1>4

(* ReadPage, for the view the statement gets. *)
PageRead(id, v) ==
    LET page == Page(Members(v, id), Limit, offset) IN
    /\ views' = Append(views, v)
    /\ listed' = [a \in Address |-> listed[a] + (IF a \in page THEN 1 ELSE 0)]
    /\ offset' = offset + Limit
    /\ phase' = IF page = {} THEN "answer" ELSE "page"

(* A client begins to page through id, or goes on. *)
Paging(id) ==
    \/ phase = "idle" /\ Fresh
    \/ phase = "page" /\ req.kind = "members" /\ req.id = id

LEMMA PageReadFacts ==
    ASSUME Tables, NEW id, NEW strict \in BOOLEAN, ReadPage(id, strict)
    PROVE  \E v : Clustered(v) /\ PageRead(id, v)
<1>1. Clustered(View(strict))
  BY ViewFacts DEF Tables
<1>2. PageRead(id, View(strict))
  BY DEF ReadPage, PageRead
<1> QED
  BY <1>1, <1>2

LEMMA PageStep ==
    ASSUME Tables, RequestInv, PageInv, Query
    PROVE  PageInv'
<1>1. /\ views \in Seq([Address -> Address \cup {None}])
      /\ \A i \in DOMAIN views : Clustered(views[i])
      /\ listed \in [Address -> Nat] /\ offset \in Nat
      /\ Len(views) \in Nat /\ DOMAIN views = 1..Len(views)
  BY DEF RequestInv
<1>2. ASSUME NEW id \in Address, NEW v, Clustered(v), PageRead(id, v), req'.id = id,
             Paging(id)
      PROVE  PageInv'
  <2>1. PICK n, L : n = Members(v, id) /\ L = Len(views) + 1
    OBVIOUS
  <2>2. n \subseteq Address /\ L \in Nat /\ L # 0
    BY <1>1, <2>1 DEF Members
  <2>3. /\ views' = Append(views, v)
        /\ listed' = [a \in Address |-> listed[a] + (IF a \in Page(n, Limit, offset) THEN 1 ELSE 0)]
        /\ offset' = offset + Limit
        /\ phase' = IF Page(n, Limit, offset) = {} THEN "answer" ELSE "page"
    BY <1>2, <2>1 DEF PageRead
  <2>4. /\ Len(views') = L /\ views'[L] = v /\ DOMAIN views' = 1..L
        /\ \A i \in DOMAIN views : views'[i] = views[i]
    <3>1. Clustered(v) /\ views' = Append(views, v)
      BY <1>2, <2>3
    <3>2. /\ views \in Seq([Address -> Address \cup {None}])
          /\ \A i \in DOMAIN views : Clustered(views[i])
      BY DEF RequestInv
    <3>3. /\ Len(views') = Len(views) + 1 /\ views'[Len(views) + 1] = v
          /\ \A i \in DOMAIN views : views'[i] = views[i]
          /\ DOMAIN views = 1..Len(views)
      BY <3>1, <3>2, ViewsFacts
    <3>4. views' \in Seq([Address -> Address \cup {None}])
      BY <3>1, <3>2, ViewsFacts
    <3>5. DOMAIN views' = 1..Len(views')
      BY <3>4
    <3> QED
      BY <2>1, <3>3, <3>5
  <2>5. Read(L)' = n
    BY <1>2, <2>1, <2>4 DEF Read
  <2>6. ASSUME NEW a \in Address
        PROVE  Counted(listed'[a], listed[a], a, n, offset)
    BY <1>1, <2>3 DEF Counted
  <2>7. CASE phase = "idle" /\ Fresh
    <3>1. L = 1 /\ offset = 0 /\ \A a \in Address : listed[a] = 0
      BY <1>1, <2>1, <2>7 DEF Fresh
    <3>2. ASSUME NEW a \in n
          PROVE  listed'[a] > 0 \/ (phase' = "page" /\ Ahead(n, a, offset'))
      <4>1. a \in Address /\ Ahead(n, a, offset) /\ Stay(n, n, a)
        <5>1. a \in Address /\ n \subseteq Address
          BY <2>2
        <5>2. Before(n, a) \in Nat
          BY <5>1, BeforeFacts
        <5>3. Before(n, a) >= offset
          BY <3>1, <5>2
        <5> QED
          BY <5>1, <5>3 DEF Ahead, Stay
      <4>2. listed'[a] > 0 \/ (Page(n, Limit, offset) # {} /\ Ahead(n, a, offset + Limit))
        BY <1>1, <2>2, <2>6, <4>1, PageKeepsAhead
      <4> QED
        BY <2>3, <4>2
    <3>3. ASSUME NEW a \in Address
          PROVE  listed'[a] = Due(n, a, offset', phase' = "answer")
      <4>1. listed[a] = Due(n, a, offset, FALSE)
        <5>1. Before(n, a) \in Nat
          BY <2>2, BeforeFacts
        <5>2. ~(Before(n, a) < offset) /\ listed[a] = 0
          BY <3>1, <5>1
        <5> QED
          BY <5>2 DEF Due
      <4>2. listed'[a] = Due(n, a, offset + Limit, Page(n, Limit, offset) = {})
        BY <1>1, <2>2, <2>6, <4>1, PageKeepsDue
      <4> QED
        BY <2>3, <4>2 DEF Due
    <3>4. Read(1)' = n /\ Read(Len(views))' = n
      BY <2>4, <2>5, <3>1 DEF Read
    <3> QED
      BY <2>4, <3>1, <3>2, <3>3, <3>4 DEF PageInv
  <2>8. CASE phase = "page" /\ req.kind = "members" /\ req.id = id
    <3>1. PICK m : m = Read(Len(views))
      OBVIOUS
    <3>2. /\ Len(views) > 0 /\ 1 \in DOMAIN views /\ Len(views) \in DOMAIN views /\ L > 1
          /\ L - 1 = Len(views) /\ Len(views) \in Nat
      BY <1>1, <2>1, <2>8 DEF PageInv
    <3>3. \A i \in DOMAIN views : Read(i)' = Read(i)
      BY <1>2, <2>4, <2>8 DEF Read
    <3>4. Read(1)' = Read(1) /\ Read(Len(views))' = n /\ Read(1) \subseteq Address
      <4>1. Read(Len(views))' = Members(views'[L], req'.id)
        BY <2>4 DEF Read
      <4>2. Read(L)' = Members(views'[L], req'.id)
        BY DEF Read
      <4> QED
        BY <2>5, <3>2, <3>3, <4>1, <4>2 DEF Read, Members
    <3>5. ASSUME NEW a \in Address, Steady(a)' PROVE Steady(a) /\ Stay(m, n, a)
      <4>1. \A i \in DOMAIN views' : i > 1 => Stay(Read(i - 1)', Read(i)', a)
        BY <3>5 DEF Steady, Stay
      <4>2. Stay(Read(L - 1)', n, a)
        BY <2>2, <2>4, <2>5, <3>2, <4>1
      <4>3. Read(L - 1)' = m
        <5>1. Read(L - 1)' = Members(views'[L - 1], req'.id)
          BY DEF Read
        <5>2. views'[L - 1] = views[Len(views)]
          BY <2>4, <3>2
        <5> QED
          BY <1>2, <2>8, <3>1, <5>1, <5>2 DEF Read
      <4>4. ASSUME NEW i \in DOMAIN views, i > 1 PROVE Stay(Read(i - 1), Read(i), a)
        <5>1. i \in DOMAIN views' /\ i - 1 \in DOMAIN views
          BY <1>1, <2>1, <2>4, <4>4
        <5>2. Stay(Read(i - 1)', Read(i)', a)
          BY <4>1, <4>4, <5>1
        <5>3. Read(i - 1)' = Read(i - 1)
          BY <1>2, <2>4, <2>8, <5>1 DEF Read
        <5> QED
          BY <3>3, <5>2, <5>3
      <4> QED
        BY <4>2, <4>3, <4>4 DEF Steady
    <3>6. ASSUME Constant' PROVE Constant /\ n = Read(1)
      <4>1. \A i \in DOMAIN views' : Read(i)' = Read(1)'
        BY <3>6 DEF Constant
      <4>2. \A i \in DOMAIN views : i \in DOMAIN views'
        BY <1>1, <2>1, <2>4
      <4>3. \A i \in DOMAIN views : Read(i) = Read(1)
        BY <3>3, <3>4, <4>1, <4>2
      <4>4. L \in DOMAIN views'
        BY <2>2, <2>4
      <4>5. Read(L)' = Read(1)'
        BY <4>1, <4>4
      <4> QED
        BY <2>5, <3>4, <4>3, <4>5 DEF Constant
    <3>7. ASSUME NEW a \in Read(1), Steady(a)'
          PROVE  listed'[a] > 0 \/ (phase' = "page" /\ Ahead(n, a, offset'))
      <4>1. a \in Address
        BY <3>4
      <4>2. Steady(a) /\ Stay(m, n, a) /\ m \subseteq Address
        BY <3>1, <3>5, <3>7, <4>1 DEF Read, Members
      <4>3. listed[a] > 0 \/ Ahead(m, a, offset)
        BY <2>8, <3>1, <3>7, <4>2 DEF PageInv
      <4>4. listed'[a] > 0 \/ (Page(n, Limit, offset) # {} /\ Ahead(n, a, offset + Limit))
        BY <1>1, <2>2, <2>6, <4>1, <4>2, <4>3, PageKeepsAhead
      <4> QED
        BY <2>3, <4>4
    <3>8. ASSUME Constant', NEW a \in Address
          PROVE  listed'[a] = Due(n, a, offset', phase' = "answer")
      <4>1. listed[a] = Due(n, a, offset, FALSE)
        <5>1. listed[a] = Due(n, a, offset, phase = "answer") /\ ~(phase = "answer")
          BY <2>8, <3>6, <3>8 DEF PageInv
        <5> QED
          BY <5>1 DEF Due
      <4>2. listed'[a] = Due(n, a, offset + Limit, Page(n, Limit, offset) = {})
        BY <1>1, <2>2, <2>6, <4>1, PageKeepsDue
      <4> QED
        BY <2>3, <4>2 DEF Due
    <3>9. Len(views') > 0
      BY <2>4, <3>2
    <3> QED
      BY <3>4, <3>6, <3>7, <3>8, <3>9 DEF PageInv
  <2> QED
    BY <1>2, <2>7, <2>8 DEF Paging
<1>3. CASE FirstPage
  <2>1. PICK id \in Address, strict \in BOOLEAN :
             /\ req' = [kind |-> "members", id |-> id, strict |-> strict]
             /\ ReadPage(id, strict)
    BY <1>3 DEF FirstPage
  <2>2. req'.id = id
    BY <2>1
  <2>3. Paging(id)
    BY <1>3, PhaseFacts DEF FirstPage, Paging
  <2>4. PICK v : Clustered(v) /\ PageRead(id, v)
    BY <2>1, PageReadFacts
  <2> QED
    BY <1>2, <2>2, <2>3, <2>4
<1>4. CASE NextPage
  <2>1. /\ req.kind = "members" /\ req \in MembersRequest /\ req' = req /\ phase = "page"
        /\ ReadPage(req.id, req.strict)
    BY <1>4, PhaseFacts DEF NextPage
  <2>2. req.id \in Address /\ req.strict \in BOOLEAN
    BY <2>1, Kinds
  <2>3. PICK v : Clustered(v) /\ PageRead(req.id, v)
    BY <2>1, <2>2, PageReadFacts
  <2>4. Paging(req.id) /\ req'.id = req.id
    BY <2>1 DEF Paging
  <2> QED
    BY <1>2, <2>2, <2>3, <2>4
<1>5. CASE ~FirstPage /\ ~NextPage
  <2>1. req'.kind # "members"
    BY <1>5, ActionKinds DEF Query
  <2> QED
    BY <2>1 DEF PageInv
<1> QED
  BY <1>3, <1>4, <1>5

(* When the last page was empty the list is complete. *)
LEMMA PageFollows ==
    ASSUME RequestInv, PageInv
    PROVE  MissedOnlyAfterLeave
<1> SUFFICES ASSUME phase = "answer", req.kind = "members"
             PROVE  /\ \A a \in Read(1) : Steady(a) => listed[a] > 0
                    /\ Constant => \A a \in Address : listed[a] = IF a \in Read(1) THEN 1 ELSE 0
  BY DEF MissedOnlyAfterLeave, Answered, Steady, Stay, Constant, Read
<1>1. ASSUME NEW a \in Read(1), Steady(a) PROVE listed[a] > 0
  BY <1>1 DEF PageInv
<1>2. ASSUME Constant, NEW a \in Address PROVE listed[a] = IF a \in Read(1) THEN 1 ELSE 0
  <2>1. listed[a] = Due(Read(1), a, offset, phase = "answer")
    BY <1>2 DEF PageInv
  <2> QED
    BY <2>1 DEF Due
<1> QED
  BY <1>1, <1>2

(* All of a cluster that is within the limit is on its first page. *)
LEMMA FirstPageIsAll ==
    ASSUME NEW m, m \subseteq Address, NEW limit \in Nat \ {0}, Cardinality(m) <= limit
    PROVE  Page(m, limit, 0) = m
<1>1. ASSUME NEW a \in m PROVE a \in Page(m, limit, 0)
  <2>1. a \in Address /\ Before(m, a) \in Nat /\ Before(m, a) < Cardinality(m) /\ Cardinality(m) \in Nat
    BY BeforeFacts
  <2>2. 0 <= Before(m, a) /\ Before(m, a) < 0 + limit
    BY <2>1
  <2> QED
    BY <2>1, <2>2, PageFacts
<1>2. Page(m, limit, 0) \subseteq m
  BY DEF Page
<1> QED
  BY <1>1, <1>2

(* The rows R of the table link the members m. *)
Links(R, m, table) ==
    \A S \in SUBSET m : S # {} /\ S # m =>
        \E i \in R : /\ Store!Ends(table[i].cand) \cap S # {}
                     /\ Store!Ends(table[i].cand) \cap (m \ S) # {}

LEMMA ExplainsLinks ==
    EvidenceExplainsCluster <=>
        (Answered("evidence") =>
            (Cardinality(Members(views[1], req.id)) <= EvidenceLimit =>
                Links(found, Members(views[1], req.id), evidence)))
BY DEF EvidenceExplainsCluster, Links

LEMMA EvidenceStep ==
    ASSUME Tables, RequestInv, EvidenceInv, Query
    PROVE  EvidenceInv'
<1>1. CASE EvidenceMembers
  <2>1. PICK id \in Address :
             /\ req' = [kind |-> "evidence", id |-> id]
             /\ listed' = [a \in Address |->
                   IF a \in Page(Members(cache, id), EvidenceLimit, 0) THEN 1 ELSE 0]
    BY <1>1 DEF EvidenceMembers
  <2>2. views' = <<cache>> /\ phase' = "rows" /\ evidence' = evidence
    BY <1>1 DEF EvidenceMembers, store
  <2>3. Len(views') = 1 /\ views'[1] = cache /\ req'.id = id
    BY <2>1, <2>2
  <2>4. Supported(views'[1], DOMAIN evidence', evidence')
    BY <2>2, <2>3 DEF Tables, CacheInv
  <2>5. ASSUME NEW a \in Address
        PROVE  listed'[a] > 0 <=> a \in Page(Members(views'[1], req'.id), EvidenceLimit, 0)
    BY <2>1, <2>3
  <2>6. EvidenceExplainsCluster'
    BY <2>2 DEF EvidenceExplainsCluster, Answered
  <2> QED
    BY <2>2, <2>3, <2>4, <2>5, <2>6 DEF EvidenceInv
<1>2. CASE EvidenceRows
  <2>1. /\ req.kind = "evidence" /\ phase = "rows" /\ req.id \in Address
        /\ UNCHANGED <<evidence, req, views, listed>> /\ phase' = "answer"
        /\ found' = ByAddresses({a \in Address : listed[a] > 0})
    BY <1>2, PhaseFacts, Kinds DEF EvidenceRows, store
  <2>2. PICK m : m = Members(views[1], req.id)
    OBVIOUS
  <2>3. m \subseteq Address
    BY <2>2 DEF Members
  <2>4. /\ Supported(views[1], DOMAIN evidence, evidence)
        /\ \A a \in Address : listed[a] > 0 <=> a \in Page(m, EvidenceLimit, 0)
    BY <2>1, <2>2 DEF EvidenceInv
  <2>5. Links(DOMAIN evidence, m, evidence)
    BY <2>1, <2>2, <2>4 DEF Supported, Links
  <2>6. ASSUME Cardinality(m) <= EvidenceLimit PROVE Links(found', m, evidence)
    <3>1. Page(m, EvidenceLimit, 0) = m
      BY <2>3, <2>6, FirstPageIsAll, QueryAssumption
    <3>2. {a \in Address : listed[a] > 0} = m
      BY <2>3, <2>4, <3>1
    <3>3. \A i \in DOMAIN evidence : Store!Ends(evidence[i].cand) \cap m # {} => i \in found'
      BY <2>1, <3>2 DEF ByAddresses
    <3> QED
      BY <2>5, <3>3 DEF Links
  <2>7. found' \subseteq DOMAIN evidence'
    BY <2>1 DEF ByAddresses
  <2>8. EvidenceExplainsCluster'
    <3>1. Members(views'[1], req'.id) = m /\ evidence' = evidence
      BY <2>1, <2>2
    <3> QED
      BY <2>6, <3>1 DEF EvidenceExplainsCluster, Links
  <2> QED
    BY <2>1, <2>7, <2>8 DEF EvidenceInv
<1>3. CASE ~EvidenceMembers /\ ~EvidenceRows
  <2>1. req'.kind # "evidence"
    BY <1>3, ActionKinds DEF Query
  <2> QED
    BY <2>1 DEF EvidenceInv
<1> QED
  BY <1>1, <1>2, <1>3

LEMMA EvidenceUnderWrite ==
    ASSUME Tables, RequestInv, EvidenceInv, GrownTo(evidence, evidence'), UNCHANGED query
    PROVE  EvidenceInv'
<1>1. UNCHANGED <<req, phase, views, listed, offset, found, answer>>
  BY DEF query
<1> SUFFICES ASSUME req.kind = "evidence" PROVE EvidenceInv'
  BY <1>1 DEF EvidenceInv
<1>2. DOMAIN evidence \subseteq DOMAIN evidence' /\ \A i \in DOMAIN evidence : evidence'[i].cand = evidence[i].cand
  BY DEF GrownTo
<1>3. CASE phase = "rows"
  <2>1. Supported(views[1], DOMAIN evidence, evidence) /\ Len(views) = 1
    BY <1>3 DEF EvidenceInv
  <2>2. Supported(views[1], DOMAIN evidence', evidence')
    BY <1>2, <2>1, SupportedStays
  <2>3. EvidenceExplainsCluster'
    BY <1>1, <1>3 DEF EvidenceExplainsCluster, Answered
  <2>4. \A a \in Address :
            listed'[a] > 0 <=> a \in Page(Members(views'[1], req'.id), EvidenceLimit, 0)
    BY <1>1, <1>3 DEF EvidenceInv
  <2> QED
    BY <1>1, <1>3, <2>1, <2>2, <2>3, <2>4 DEF EvidenceInv
<1>4. CASE phase = "answer"
  <2>1. found \subseteq DOMAIN evidence /\ EvidenceExplainsCluster
    BY <1>4 DEF EvidenceInv
  <2>2. PICK m : m = Members(views[1], req.id)
    OBVIOUS
  <2>3. Cardinality(m) <= EvidenceLimit => Links(found, m, evidence)
    BY <1>4, <2>1, <2>2, ExplainsLinks DEF Answered
  <2>4. Cardinality(m) <= EvidenceLimit => Links(found', m, evidence')
    BY <1>1, <1>2, <2>1, <2>3 DEF Links
  <2>5. EvidenceExplainsCluster'
    <3>1. Members(views'[1], req'.id) = m
      BY <1>1, <2>2
    <3> QED
      BY <2>4, <3>1 DEF EvidenceExplainsCluster, Links
  <2>6. found' \subseteq DOMAIN evidence'
    BY <1>1, <1>2, <2>1
  <2> QED
    BY <1>1, <1>4, <2>5, <2>6 DEF EvidenceInv
<1> QED
  BY <1>3, <1>4, PhaseFacts

LEMMA ScrapeStep ==
    ASSUME Tables, RequestInv, ScrapeInv, Query
    PROVE  ScrapeInv'
<1>0. Len(evidence) \in Nat /\ DOMAIN evidence = 1..Len(evidence)
  BY DEF Tables, TableInv
<1>1. CASE ScrapeClusters
  <2>1. PICK r : r = Len(evidence)
    OBVIOUS
  <2>2. /\ req'.rows = r /\ views' = <<cache>> /\ phase' = "active" /\ found' = found
        /\ evidence' = evidence
    BY <1>1, <2>1 DEF ScrapeClusters, store
  <2>3. Len(views') = 1 /\ views'[1] = cache
    BY <2>2
  <2>4. Supported(cache, 1..r, evidence)
    BY <1>0, <2>1 DEF Tables, CacheInv
  <2>5. found' = {}
    BY <1>1, <2>2, PhaseFacts DEF ScrapeClusters, Fresh
  <2>6. req'.rows <= Len(evidence')
    BY <1>0, <2>1, <2>2
  <2> QED
    BY <2>2, <2>3, <2>4, <2>5, <2>6 DEF ScrapeInv
<1>2. CASE ScrapeActive
  <2>1. /\ req.kind = "scrape" /\ UNCHANGED <<req, views, evidence>> /\ phase' = "invalid"
        /\ found' = {<<i, "active">> : i \in Store!Active}
    BY <1>2, PhaseFacts DEF ScrapeActive, Counts, store
  <2>2. Store!Active \subseteq DOMAIN evidence /\ Store!Active' = Store!Active
    BY <2>1 DEF Store!Active
  <2>3. found' \subseteq (DOMAIN evidence') \X {"active", "invalidated"}
    BY <2>1, <2>2
  <2>4. \A i \in 1..req.rows : <<i, "active">> \in found' \/ i \notin Store!Active'
    BY <2>1, <2>2
  <2>5. req'.rows <= Len(evidence') /\ Len(views') = 1 /\ Supported(views'[1], 1..req'.rows, evidence')
    BY <2>1 DEF ScrapeInv
  <2> QED
    BY <2>1, <2>3, <2>4, <2>5 DEF ScrapeInv
<1>3. CASE ScrapeInvalid
  <2>1. /\ req \in ScrapeRequest /\ req.kind = "scrape" /\ phase = "invalid"
        /\ UNCHANGED <<req, views, evidence>> /\ phase' = "answer"
        /\ found' = found \cup {<<i, "invalidated">> : i \in DOMAIN evidence \ Store!Active}
    BY <1>3, PhaseFacts DEF ScrapeInvalid, Counts, store
  <2>2. /\ req.rows \in Nat /\ req.rows <= Len(evidence) /\ Len(views) = 1
        /\ Supported(views[1], 1..req.rows, evidence)
        /\ found \subseteq (DOMAIN evidence) \X {"active", "invalidated"}
        /\ \A i \in 1..req.rows : <<i, "active">> \in found \/ i \notin Store!Active
    BY <2>1, Kinds DEF ScrapeInv
  <2>3. found' \subseteq (DOMAIN evidence') \X {"active", "invalidated"}
    BY <2>1, <2>2
  <2>4. ASSUME NEW i \in 1..req.rows
        PROVE  \E s \in {"active", "invalidated"} : <<i, s>> \in found'
    <3>1. i \in DOMAIN evidence
      BY <1>0, <2>2
    <3>2. CASE <<i, "active">> \in found
      BY <2>1, <3>2
    <3>3. CASE i \notin Store!Active
      BY <2>1, <3>1, <3>3
    <3> QED
      BY <2>2, <3>2, <3>3
  <2> QED
    BY <2>1, <2>2, <2>3, <2>4 DEF ScrapeInv
<1>4. CASE SectionFails
  <2>1. /\ req \in ScrapeRequest /\ req.kind = "scrape" /\ req' = [req EXCEPT !.failed = TRUE]
        /\ UNCHANGED <<views, found, evidence>> /\ phase' = "answer"
    BY <1>4, PhaseFacts DEF SectionFails, store
  <2>2. req'.rows = req.rows /\ req'.failed = TRUE
    BY <2>1 DEF ScrapeRequest
  <2> QED
    BY <2>1, <2>2 DEF ScrapeInv
<1>5. CASE ~ScrapeClusters /\ ~ScrapeActive /\ ~ScrapeInvalid /\ ~SectionFails
  <2>1. req'.kind # "scrape"
    BY <1>5, ActionKinds DEF Query
  <2> QED
    BY <2>1 DEF ScrapeInv
<1> QED
  BY <1>1, <1>2, <1>3, <1>4, <1>5

(* An invalidated row stays so: no row slips from one count to the other   *)
(* between the two statements unseen.                                      *)
LEMMA ScrapeUnderWrite ==
    ASSUME Tables, RequestInv, ScrapeInv, GrownTo(evidence, evidence'), UNCHANGED query
    PROVE  ScrapeInv'
<1>1. UNCHANGED <<req, phase, views, listed, offset, found, answer>>
  BY DEF query
<1> SUFFICES ASSUME req.kind = "scrape" PROVE ScrapeInv'
  BY <1>1 DEF ScrapeInv
<1>2. /\ DOMAIN evidence \subseteq DOMAIN evidence' /\ Len(evidence) <= Len(evidence')
      /\ Len(evidence) \in Nat /\ Len(evidence') \in Nat /\ DOMAIN evidence = 1..Len(evidence)
      /\ \A i \in DOMAIN evidence : evidence'[i].status = "active" => evidence[i].status = "active"
  BY DEF GrownTo, Tables, TableInv
<1>3. /\ req.rows \in Nat /\ req.rows <= Len(evidence) /\ Len(views) = 1
      /\ Supported(views[1], 1..req.rows, evidence)
      /\ found \subseteq (DOMAIN evidence) \X {"active", "invalidated"}
  BY PhaseFacts, Kinds DEF ScrapeInv
<1>4. 1..req.rows \subseteq DOMAIN evidence
  BY <1>2, <1>3
<1>5. Supported(views[1], 1..req.rows, evidence')
  BY <1>3, <1>4, SupportedStays
<1>6. req.rows <= Len(evidence')
  BY <1>2, <1>3
<1>7. found \subseteq (DOMAIN evidence') \X {"active", "invalidated"}
  BY <1>2, <1>3
<1>8. \A i \in 1..req.rows : i \notin Store!Active => i \notin Store!Active'
  BY <1>2, <1>4 DEF Store!Active
<1>9. phase = "invalid" => \A i \in 1..req.rows : <<i, "active">> \in found \/ i \notin Store!Active'
  BY <1>8 DEF ScrapeInv
<1>10. phase = "answer" /\ ~req.failed =>
              \A i \in 1..req.rows : \E s \in {"active", "invalidated"} : <<i, s>> \in found
  BY DEF ScrapeInv
<1> QED
  BY <1>1, <1>3, <1>5, <1>6, <1>7, <1>9, <1>10 DEF ScrapeInv

(* There are at most as many clusters as rows: each has a row of its own.  *)
LEMMA ScrapeFollows ==
    ASSUME Tables, RequestInv, ScrapeInv
    PROVE  ScrapeMissesNoRow
<1> SUFFICES ASSUME phase = "answer", req.kind = "scrape", ~req.failed
             PROVE  /\ \A i \in 1..req.rows : \E s \in {"active", "invalidated"} : <<i, s>> \in found
                    /\ Cardinality({views[1][a] : a \in Address} \ {None}) <= Cardinality(found)
  BY DEF ScrapeMissesNoRow, Answered
<1>1. \A i \in 1..req.rows : \E s \in {"active", "invalidated"} : <<i, s>> \in found
  BY DEF ScrapeInv
<1>2. PICK v : v = views[1]
  OBVIOUS
<1>3. /\ \A a \in Address : v[a] # None =>
             \E i \in 1..req.rows : v[AddressA[evidence[i].cand]] = v[a]
      /\ found \subseteq (DOMAIN evidence) \X {"active", "invalidated"}
  BY <1>2 DEF ScrapeInv, Supported
<1> DEFINE ids == {v[a] : a \in Address} \ {None}
           owner(p) == v[AddressA[evidence[p[1]].cand]]
           f == [id \in ids |-> CHOOSE p \in found : owner(p) = id]
<1>4. ASSUME NEW id \in ids PROVE \E p \in found : owner(p) = id
  <2>1. PICK i \in 1..req.rows : v[AddressA[evidence[i].cand]] = id
    BY <1>3
  <2>2. PICK s \in {"active", "invalidated"} : <<i, s>> \in found
    BY <1>1
  <2>3. owner(<<i, s>>) = id
    BY <2>1
  <2> QED
    BY <2>2, <2>3
<1>5. ASSUME NEW id \in ids PROVE f[id] \in found /\ owner(f[id]) = id
  <2> HIDE DEF owner, ids
  <2> QED
    BY <1>4
<1>6. f \in Injection(ids, found)
  <2>1. f = [id \in ids |-> f[id]] /\ DOMAIN f = ids
    <3> HIDE DEF owner, ids
    <3> QED
      OBVIOUS
  <2> HIDE DEF f, owner, ids
  <2>2. f \in [ids -> found]
    BY <1>5, <2>1
  <2>3. \A a, b \in ids : f[a] = f[b] => a = b
    BY <1>5
  <2> QED
    BY <2>1, <2>2, <2>3 DEF Injection, IsInjective
<1>7. IsFiniteSet(found)
  <2> DEFINE T == {"active", "invalidated"}
  <2>1. IsFiniteSet(DOMAIN evidence)
    <3>1. Len(evidence) \in Nat /\ DOMAIN evidence = 1..Len(evidence)
      BY DEF Tables, TableInv
    <3>2. IsFiniteSet(1..Len(evidence))
      BY <3>1, FS_Interval
    <3> QED
      BY <3>1, <3>2
  <2>2. IsFiniteSet(T)
    <3>1. IsFiniteSet({"active"})
      BY FS_Singleton
    <3>2. IsFiniteSet({"active"} \cup {"invalidated"})
      BY <3>1, FS_AddElement
    <3>3. T = {"active"} \cup {"invalidated"}
      OBVIOUS
    <3> QED
      BY <3>2, <3>3
  <2> HIDE DEF T
  <2>3. IsFiniteSet((DOMAIN evidence) \X T)
    BY <2>1, <2>2, FS_Product
  <2>4. found \subseteq (DOMAIN evidence) \X T
    BY <1>3 DEF T
  <2> QED
    BY <2>3, <2>4, FS_Subset
<1>8. Cardinality(ids) <= Cardinality(found)
  <2> HIDE DEF f, ids
  <2> QED
    BY <1>6, <1>7, FS_Injection
<1>9. ids = {views[1][a] : a \in Address} \ {None}
  BY <1>2
<1> QED
  BY <1>1, <1>8, <1>9
-----------------------------------------------------------------------------
LEMMA InitInv == Init => IInv
<1> SUFFICES ASSUME Init PROVE IInv
  OBVIOUS
<1>1. /\ evidence = <<>> /\ hub = {} /\ cache = [a \in Address |-> None] /\ done = 0
      /\ pc = [x \in Store!Actor |-> "idle"] /\ next = 1 /\ list = {}
      /\ scan = [x \in Store!Actor |-> <<>>]
      /\ faults = 0 /\ corrections = 0 /\ hit = {}
  BY DEF Init, Store!Init
<1>2. changed \in BOOLEAN /\ committed = 0 /\ dropped = {} /\ tries = [k \in 1..Len(Ops) |-> 0]
  BY DEF Init, Store!Init
<1>3. WriterInv
  BY <1>1, <1>2, Actors, StoreAssumption DEF WriterInv, Store!Step
<1>4. TableInv
  BY <1>1, DrawnNothing DEF TableInv
<1>5. CacheInv
  <2>1. Store!Touched(<<>>) = {}
    BY DEF Store!Touched
  <2>2. cache = Store!Replay(<<>>)
    BY <1>1, <2>1 DEF Store!Replay
  <2> QED
    BY <1>1, <2>2, DrawnNothing, DrawnSupports DEF CacheInv
<1>6. Fresh
  BY DEF Init
<1>7. req.kind = "none" /\ phase = "idle" /\ views = <<>> /\ offset = 0
      /\ listed = [a \in Address |-> 0]
  BY <1>6 DEF Fresh, NoRequest
<1>8. RequestInv
  <2>1. answer \in BOOLEAN
    BY <1>6 DEF Fresh
  <2>2. views \in Seq([Address -> Address \cup {None}]) /\ DOMAIN views = {}
        /\ offset \in Nat /\ listed \in [Address -> Nat]
    BY <1>7
  <2> QED
    BY <1>6, <1>7, <2>1, <2>2 DEF RequestInv
<1> QED
  BY <1>3, <1>4, <1>5, <1>7, <1>8 DEF IInv, SameInv, PageInv, EvidenceInv, ScrapeInv

(* A statement of a request leaves the tables, a writer's step the request *)
(* in hand.                                                                *)
LEMMA NextInv == IInv /\ [Next]_vars => IInv'
<1> SUFFICES ASSUME IInv, [Next]_vars PROVE IInv'
  OBVIOUS
<1>1. Tables /\ WriterInv /\ TableInv /\ CacheInv /\ RequestInv /\ SameInv /\ PageInv
      /\ EvidenceInv /\ ScrapeInv
  BY DEF IInv, Tables
<1>2. CASE Query
  <2>1. UNCHANGED store
    BY <1>2 DEF Query, SameFirst, SameSecond, FirstPage, NextPage, EvidenceMembers, EvidenceRows,
                ScrapeClusters, ScrapeActive, ScrapeInvalid, SectionFails, Reply
  <2>2. WriterInv' /\ TableInv' /\ CacheInv'
    BY <1>1, <2>1 DEF store, WriterInv, TableInv, CacheInv
  <2>3. RequestInv' /\ SameInv' /\ PageInv' /\ EvidenceInv' /\ ScrapeInv'
    BY <1>1, <1>2, RequestStep, SameStep, PageStep, EvidenceStep, ScrapeStep
  <2> QED
    BY <2>2, <2>3 DEF IInv
<1>3. CASE Write
  <2>1. Store!Next /\ UNCHANGED query
    BY <1>3 DEF Write
  <2>2. WriterInv' /\ TableInv' /\ CacheInv' /\ GrownTo(evidence, evidence')
    BY <1>1, <2>1, WriterStep, TableStep, TableGrows
  <2>3. EvidenceInv' /\ ScrapeInv'
    BY <1>1, <2>1, <2>2, EvidenceUnderWrite, ScrapeUnderWrite
  <2>4. UNCHANGED <<req, phase, views, listed, offset, found, answer>>
    BY <2>1 DEF query
  <2>5. RequestInv'
    BY <1>1, <2>4 DEF RequestInv, Fresh
  <2>6. SameInv'
    BY <1>1, <2>4 DEF SameInv
  <2>7. PageInv'
    BY <1>1, <2>4 DEF PageInv, Steady, Constant, Read
  <2> QED
    BY <2>2, <2>3, <2>5, <2>6, <2>7 DEF IInv
<1>4. CASE UNCHANGED vars
  <2>1. UNCHANGED store /\ UNCHANGED <<req, phase, views, listed, offset, found, answer>>
    BY <1>4 DEF vars, query
  <2>2. WriterInv' /\ TableInv' /\ CacheInv'
    BY <1>1, <2>1 DEF store, WriterInv, TableInv, CacheInv
  <2>3. GrownTo(evidence, evidence') /\ UNCHANGED query
    BY <1>1, <1>4, <2>1, StaysGrown DEF store, vars, TableInv
  <2>4. EvidenceInv' /\ ScrapeInv'
    BY <1>1, <2>3, EvidenceUnderWrite, ScrapeUnderWrite
  <2>5. RequestInv'
    BY <1>1, <2>1 DEF RequestInv, Fresh
  <2>6. SameInv' /\ PageInv'
    BY <1>1, <2>1 DEF SameInv, PageInv, Steady, Constant, Read
  <2> QED
    BY <2>2, <2>4, <2>5, <2>6 DEF IInv
<1> QED
  BY <1>2, <1>3, <1>4 DEF Next

(* The invariant of the writers and of every kind of request.              *)
THEOREM Invariance == Spec => []IInv
BY InitInv, NextInv, PTL DEF Spec

LEMMA TypesFollow == ASSUME IInv PROVE TypeOK
<1>1. WriterInv /\ TableInv /\ CacheInv /\ RequestInv
  BY DEF IInv
<1>2. Store!TypeOK
  <2>1. cache \in [Address -> Address \cup {None}]
    BY <1>1 DEF CacheInv, Supported, Clustered
  <2>2. \A x \in Store!Actor : Store!IsScan(scan[x])
    BY <1>1 DEF TableInv, Drawn
  <2>3. /\ evidence \in Seq([cand : Cand, status : Store!Status]) /\ list \subseteq DOMAIN evidence
    BY <1>1 DEF TableInv, Row
  <2> QED
    BY <1>1, <2>1, <2>2, <2>3 DEF Store!TypeOK, WriterInv
<1>3. req.kind \in {"none", "same", "members", "evidence", "scrape"}
  BY <1>1, PhaseFacts
<1>4. phase \in {"idle", "second", "page", "rows", "active", "invalid", "answer"}
  BY <1>1 DEF RequestInv
<1>5. \A i \in DOMAIN views : views[i] \in [Address -> Address \cup {None}]
  BY <1>1 DEF RequestInv, Clustered
<1>6. listed \in [Address -> Nat] /\ offset \in Nat /\ answer \in BOOLEAN /\ (phase = "idle" => Fresh)
  BY <1>1, PhaseFacts DEF RequestInv
<1> QED
  BY <1>2, <1>3, <1>4, <1>5, <1>6 DEF TypeOK

(* Every variable of the tables, the writers and the request in hand keeps *)
(* its type, and nothing of a request outlives it: MembersOf's offset and  *)
(* the rows returned start afresh with every request.                      *)
THEOREM TypeCorrect == Spec => []TypeOK
BY Invariance, TypesFollow, PTL

(* SameCluster's two reads may see different clusters; a positive answer   *)
(* is still true of one of them whenever clusters only grew or only split  *)
(* in between.                                                             *)
THEOREM SameClusterIsSound == Spec => []SameIsNotInvented
<1>1. IInv => SameIsNotInvented
  BY SameFollows DEF IInv
<1> QED
  BY <1>1, Invariance, PTL

(* A client that pages through MembersOf by offsets misses a member only   *)
(* if it, or one before it in the order of the addresses, left meanwhile,  *)
(* whoever joined, and gets everybody once if nothing changed.             *)
THEOREM PagingIsComplete == Spec => []MissedOnlyAfterLeave
<1>1. IInv => MissedOnlyAfterLeave
  BY PageFollows DEF IInv
<1> QED
  BY <1>1, Invariance, PTL

(* The rows handleEvidenceOf returns link all the members it found, up to  *)
(* its limit, whatever was invalidated or rebuilt between its reads.       *)
THEOREM EvidenceExplains == Spec => []EvidenceExplainsCluster
<1>1. IInv => EvidenceExplainsCluster
  <2> SUFFICES ASSUME IInv PROVE EvidenceExplainsCluster
    OBVIOUS
  <2>1. CASE req.kind = "evidence"
    BY <2>1 DEF IInv, EvidenceInv
  <2>2. CASE req.kind # "evidence"
    BY <2>2 DEF EvidenceExplainsCluster, Answered
  <2> QED
    BY <2>1, <2>2
<1> QED
  BY <1>1, Invariance, PTL

(* A scrape without an error counts every row that was there when it began *)
(* and finds at least as many rows as clusters, with writers between its   *)
(* statements.                                                             *)
THEOREM ScrapeIsComplete == Spec => []ScrapeMissesNoRow
<1>1. IInv => ScrapeMissesNoRow
  BY ScrapeFollows DEF IInv, Tables
<1> QED
  BY <1>1, Invariance, PTL
=============================================================================
