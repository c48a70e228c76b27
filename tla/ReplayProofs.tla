---------------------------- MODULE ReplayProofs -----------------------------
(***************************************************************************)
(* What replaying the evidence guarantees, for every set of addresses and  *)
(* rows and every length of the table: the disjoint sets hold what the     *)
(* edges united so far link, the tree is a spanning forest of them, and    *)
(* the walk ends with the strength of the tree's path to the anchor.       *)
(***************************************************************************)
EXTENDS Replay, NaturalLemmas, FiniteSetTheorems, TLAPS

-----------------------------------------------------------------------------
(* Being linked.                                                           *)

(* S holds edges or rows between addresses. *)
Between(S) == \A r \in S : r.a \in Address /\ r.b \in Address

(* T is a union of classes of S. *)
Closed(S, T) == \A r \in S : r.a \in T <=> r.b \in T

Class(S, x) == {y \in Address : Linked(S, x, y)}

LEMMA LinkedIs ==
    ASSUME NEW S, NEW x, NEW y
    PROVE  Linked(S, x, y) <=> \A T : T \subseteq Address /\ x \in T /\ Closed(S, T) => y \in T
  BY DEF Linked, Closed

LEMMA LinkedSame ==
    ASSUME NEW S, NEW x
    PROVE  Linked(S, x, x)
  BY DEF Linked

LEMMA LinkedSymmetric ==
    ASSUME NEW S, Between(S), NEW x \in Address, NEW y \in Address, Linked(S, x, y)
    PROVE  Linked(S, y, x)
<1> SUFFICES ASSUME NEW T, T \subseteq Address, y \in T, Closed(S, T), x \notin T PROVE FALSE
  BY LinkedIs
<1>1. Closed(S, Address \ T)
  BY DEF Closed, Between
<1> QED
  BY <1>1, LinkedIs

LEMMA LinkedTransitive ==
    ASSUME NEW S, NEW x, NEW y, NEW z, Linked(S, x, y), Linked(S, y, z)
    PROVE  Linked(S, x, z)
  BY DEF Linked

(* More edges link more. *)
LEMMA LinkedMore ==
    ASSUME NEW S, NEW U, NEW x, NEW y, S \subseteq U, Linked(S, x, y)
    PROVE  Linked(U, x, y)
<1>1. \A T : Closed(U, T) => Closed(S, T)
  BY DEF Closed
<1> QED
  BY <1>1, LinkedIs

LEMMA LinkedEdge ==
    ASSUME NEW S, NEW e \in S
    PROVE  Linked(S, e.a, e.b) /\ Linked(S, e.b, e.a)
  BY DEF Linked

LEMMA ClassClosed ==
    ASSUME NEW S, Between(S), NEW x
    PROVE  Closed(S, Class(S, x))
<1> SUFFICES ASSUME NEW r \in S PROVE r.a \in Class(S, x) <=> r.b \in Class(S, x)
  BY DEF Closed
<1>1. r.a \in Address /\ r.b \in Address
  BY DEF Between
<1>2. Linked(S, r.a, r.b) /\ Linked(S, r.b, r.a)
  BY LinkedEdge
<1> QED
  BY <1>1, <1>2, LinkedTransitive DEF Class

(* Whichever edges leave the same sets closed link the same. *)
LEMMA LinkedByClosed ==
    ASSUME NEW S, NEW U, NEW x, NEW y, \A T : Closed(S, T) <=> Closed(U, T)
    PROVE  Linked(S, x, y) <=> Linked(U, x, y)
  BY LinkedIs

(* One more edge joins the classes of its ends. *)
LEMMA LinkedAdd ==
    ASSUME NEW S, Between(S), NEW e, e.a \in Address, e.b \in Address, NEW x \in Address, NEW y \in Address
    PROVE  Linked(S \cup {e}, x, y) <=>
              \/ Linked(S, x, y)
              \/ Linked(S, x, e.a) /\ Linked(S, e.b, y)
              \/ Linked(S, x, e.b) /\ Linked(S, e.a, y)
<1> DEFINE U == S \cup {e}
<1>1. Linked(U, e.a, e.b) /\ Linked(U, e.b, e.a)
  BY LinkedEdge
<1>2. S \subseteq U
  OBVIOUS
<1>3. ASSUME Linked(S, x, e.a), Linked(S, e.b, y) PROVE Linked(U, x, y)
  BY <1>1, <1>2, <1>3, LinkedMore, LinkedTransitive
<1>4. ASSUME Linked(S, x, e.b), Linked(S, e.a, y) PROVE Linked(U, x, y)
  BY <1>1, <1>2, <1>4, LinkedMore, LinkedTransitive
<1>5. ASSUME Linked(U, x, y), ~Linked(S, x, y),
             ~(Linked(S, x, e.a) /\ Linked(S, e.b, y)),
             ~(Linked(S, x, e.b) /\ Linked(S, e.a, y))
      PROVE  FALSE
  <2> DEFINE C == Class(S, x)
             Ca == Class(S, e.a)
             Cb == Class(S, e.b)
  <2>1. Closed(S, C) /\ Closed(S, Ca) /\ Closed(S, Cb)
    BY ClassClosed
  <2>2. x \in C /\ e.a \in Ca /\ e.b \in Cb
    BY LinkedSame DEF Class
  <2>3. PICK T : T = IF e.a \in C THEN (IF e.b \in C THEN C ELSE C \cup Cb)
                     ELSE IF e.b \in C THEN C \cup Ca ELSE C
    OBVIOUS
  <2>4. C \subseteq Address /\ Ca \subseteq Address /\ Cb \subseteq Address
    BY DEF Class
  <2>5. (e.a \in C <=> Linked(S, x, e.a)) /\ (e.b \in C <=> Linked(S, x, e.b))
        /\ (y \in C <=> Linked(S, x, y)) /\ (y \in Ca <=> Linked(S, e.a, y)) /\ (y \in Cb <=> Linked(S, e.b, y))
    BY DEF Class
  <2> HIDE DEF C, Ca, Cb, U
  <2>6. Closed(S, T)
    BY <2>1, <2>3 DEF Closed
  <2>7. T \subseteq Address /\ x \in T /\ (e.a \in T <=> e.b \in T)
    BY <2>2, <2>3, <2>4
  <2>8. Closed(U, T)
    BY <2>6, <2>7 DEF Closed, U
  <2>9. y \in T
    BY <1>5, <2>7, <2>8, LinkedIs
  <2> QED
    BY <1>5, <2>3, <2>5, <2>9
<1> QED
  BY <1>2, <1>3, <1>4, <1>5, LinkedMore

(* Within a union of classes only its own edges count. *)
LEMMA LinkedWithin ==
    ASSUME NEW S, NEW C, C \subseteq Address, Closed(S, C), NEW x \in C, NEW y
    PROVE  Linked(S, x, y) <=> Linked({e \in S : e.a \in C}, x, y)
<1> DEFINE U == {e \in S : e.a \in C}
<1>1. ASSUME NEW T, T \subseteq Address, Closed(U, T) PROVE Closed(S, T \cap C)
  BY <1>1 DEF Closed
<1>2. Linked(S, x, y) => Linked(U, x, y)
  <2> SUFFICES ASSUME Linked(S, x, y), NEW T, T \subseteq Address, x \in T, Closed(U, T) PROVE y \in T
    BY LinkedIs
  <2>1. Closed(S, T \cap C) /\ T \cap C \subseteq Address /\ x \in T \cap C
    BY <1>1
  <2> QED
    BY <2>1, LinkedIs
<1>3. U \subseteq S
  OBVIOUS
<1> QED
  BY <1>2, <1>3, LinkedMore

-----------------------------------------------------------------------------
(* The result of a replay, as a function of its rows.                      *)

RowsFrom(ev, t) == Restrict(ev, {i \in DOMAIN ev : ev[i].active /\ AtLeast(ev[i], t)})

Cluster(rows, x) == {y \in Seen(rows) : Linked(Range(rows), x, y)}

AnchorOf(rows, x) ==
    CHOOSE y \in Cluster(rows, x) :
        \A z \in Cluster(rows, x) : FirstSeenOrder(rows, y) <= FirstSeenOrder(rows, z)

(* The edges of E before n, and those of D that do not close a cycle. *)
Upto(E, n) == {E[m] : m \in {k \in DOMAIN E : k < n}}
Merging(E, D) == {E[n] : n \in {k \in D : ~Linked(Upto(E, k), E[k].a, E[k].b)}}
Tree(E) == Merging(E, DOMAIN E)

From(S, c) == {e \in S : e.conf >= c}

(* c is the weight of the weakest edge on the way from x to y. *)
IsStrength(c, S, x, y) ==
    /\ c \in 1..Certain
    /\ Linked(From(S, c), x, y)
    /\ \A k \in 1..Certain : k > c => ~Linked(From(S, k), x, y)

Strength(S, x, y) == CHOOSE c \in 1..Certain : IsStrength(c, S, x, y)

EdgeSet(rows) == {CombinedEdges(rows)[n] : n \in DOMAIN CombinedEdges(rows)}

(* t is the tree, a spanning forest of what the rows link. *)
Spanning(rows, t) ==
    /\ t = Tree(CombinedEdges(rows))
    /\ t \subseteq EdgeSet(rows)
    /\ \A e \in t : ~Linked(t \ {e}, e.a, e.b)
    /\ \A x, y \in Address : Linked(t, x, y) <=> Linked(Range(rows), x, y)

Result(rows) ==
    [x \in Seen(rows) |->
        [id |-> AnchorOf(rows, x),
         conf |-> Strength(Tree(CombinedEdges(rows)), AnchorOf(rows, x), x)]]

-----------------------------------------------------------------------------
(* The inductive invariant.                                                *)

EvidenceRow ==
    {r \in [a : Address, b : Address, source : {r.source : r \in Row}, conf : 1..Certain,
            active : BOOLEAN] : r.a # r.b}

TypeOK ==
    /\ evidence \in Seq(EvidenceRow)
    /\ min \in Threshold \cup {0}
    /\ pc \in {"idle", "collect", "union", "walk"}

(* R holds the roots of d. *)
Roots(d, R) ==
    /\ R \in [Address -> Address]
    /\ \A y \in Address : R[y] = IF d.parent[y] = y THEN y ELSE R[d.parent[y]]

(* d is a forest, with ranks that grow towards the roots. *)
Forest(d) ==
    /\ d \in [parent : [Address -> Address], rank : [Address -> Nat]]
    /\ \A y \in Address : d.parent[y] # y => d.rank[y] < d.rank[d.parent[y]]
    /\ \E n \in Nat : \A y \in Address : d.rank[y] <= n

(* Once the edges of E under D are united, they and the tree link what has *)
(* the same root.                                                          *)
United(E, D, t, d) ==
    /\ t = Merging(E, D)
    /\ \A e \in t : ~Linked(t \ {e}, e.a, e.b)
    /\ \A x, y \in Address : Linked(t, x, y) <=> Linked({E[n] : n \in D}, x, y)
    /\ Forest(d)
    /\ \E R : /\ Roots(d, R)
              /\ \A x, y \in Address : R[x] = R[y] <=> Linked({E[n] : n \in D}, x, y)

Idling == edges = <<>> /\ dsu = New /\ tree = {} /\ conf = <<>>

Uniting ==
    \E D : /\ D \subseteq DOMAIN CombinedEdges(Rows)
           /\ edges = Restrict(CombinedEdges(Rows), DOMAIN CombinedEdges(Rows) \ D)
           /\ \A n \in D, m \in DOMAIN edges : n < m
           /\ United(CombinedEdges(Rows), D, tree, dsu)

Inside(S, X) == {e \in S : Pair(e) \subseteq X}

(* The walk has come to the domain of cf, from the anchors along the tree. *)
Walked(rows, t, cf) ==
    /\ {AnchorOf(rows, y) : y \in Seen(rows)} \subseteq DOMAIN cf
    /\ DOMAIN cf \subseteq Seen(rows)
    /\ \A x \in DOMAIN cf :
          /\ IsStrength(cf[x], t, AnchorOf(rows, x), x)
          /\ Linked(Inside(From(t, cf[x]), DOMAIN cf), AnchorOf(rows, x), x)

Walking ==
    /\ DOMAIN edges = {}
    /\ United(CombinedEdges(Rows), DOMAIN CombinedEdges(Rows), tree, dsu)
    /\ Walked(Rows, tree, conf)

IsResult(v, rows) == v = Result(rows) /\ Spanning(rows, Tree(CombinedEdges(rows)))

IsView(v, rows) == v = Materialised(Result(rows)) /\ Spanning(rows, Tree(CombinedEdges(rows)))

ViewInv == pc = "idle" \/ min # 0 => IsView(view, RowsFrom(evidence, 0))

AnswerInv ==
    /\ min = 0 => DOMAIN answer = {}
    /\ min # 0 /\ pc = "idle" => IsResult(answer, RowsFrom(evidence, min))

(* rows without what was recorded again at n *)
RepeatedAt(n, rows) ==
    /\ n \in DOMAIN rows
    /\ \A i \in DOMAIN rows : i <= n
    /\ \E i \in DOMAIN rows \ {n} : /\ Pair(rows[i]) = Pair(rows[n])
                                    /\ rows[i].source = rows[n].source
                                    /\ rows[i].conf = rows[n].conf

With(rows, n, r) == [i \in DOMAIN rows \cup {n} |-> IF i = n THEN r ELSE rows[i]]

HistoryInv ==
    /\ change.kind = "again" =>
          \E n \in DOMAIN evidence :
              /\ RepeatedAt(n, RowsFrom(evidence, 0))
              /\ change.row.source = RowsFrom(evidence, 0)[n].source
              /\ before = Materialised(Result(Restrict(RowsFrom(evidence, 0),
                                                      DOMAIN RowsFrom(evidence, 0) \ {n})))
    /\ change.kind = "invalidate" =>
          \E n \in DOMAIN evidence \ DOMAIN RowsFrom(evidence, 0) :
              /\ change.row \in EvidenceRow
              /\ before = Materialised(Result(With(RowsFrom(evidence, 0), n, change.row)))

PhaseInv ==
    /\ pc \in {"idle", "collect"} => Idling
    /\ pc = "union" => Uniting /\ conf = <<>>
    /\ pc = "walk" => Walking

ReplayInv == TypeOK /\ PhaseInv /\ ViewInv /\ AnswerInv /\ HistoryInv
-----------------------------------------------------------------------------
(* The disjoint sets.                                                      *)

(* Towards the root the rank grows, and the root has itself as parent. *)
LEMMA RootFacts ==
    ASSUME NEW d, Forest(d), NEW R, Roots(d, R), NEW x \in Address
    PROVE  /\ R[x] \in Address
           /\ d.parent[R[x]] = R[x] /\ R[R[x]] = R[x]
           /\ R[x] # x => d.rank[x] < d.rank[R[x]]
<1>1. /\ d.parent \in [Address -> Address] /\ d.rank \in [Address -> Nat] /\ R \in [Address -> Address]
      /\ \A y \in Address : d.parent[y] # y => d.rank[y] < d.rank[d.parent[y]]
      /\ \A y \in Address : R[y] = IF d.parent[y] = y THEN y ELSE R[d.parent[y]]
  BY DEF Forest, Roots
<1>2. PICK n \in Nat : \A y \in Address : d.rank[y] <= n
  BY DEF Forest
<1> DEFINE Good(y) == d.parent[R[y]] = R[y] /\ (R[y] # y => d.rank[y] < d.rank[R[y]])
           Bad == {k \in Nat : \E y \in Address : k = n - d.rank[y] /\ ~Good(y)}
<1>3. Bad = {}
  <2> SUFFICES ASSUME Bad # {} PROVE FALSE
    OBVIOUS
  <2>1. PICK k \in Bad : \A m \in Bad : k <= m
    <3>1. Bad \subseteq Nat
      OBVIOUS
    <3> HIDE DEF Bad
    <3> QED
      BY <3>1, LeastNatural
  <2>2. PICK y \in Address : k = n - d.rank[y] /\ ~Good(y)
    BY <2>1
  <2>3. d.parent[y] # y /\ R[y] = R[d.parent[y]] /\ d.rank[y] < d.rank[d.parent[y]]
    BY <1>1, <2>2
  <2>4. n - d.rank[d.parent[y]] \in Nat /\ n - d.rank[d.parent[y]] < k
    BY <1>1, <1>2, <2>2, <2>3
  <2>5. Good(d.parent[y])
    BY <1>1, <2>1, <2>4
  <2>6. d.rank[d.parent[y]] \in Nat /\ d.rank[y] \in Nat /\ d.rank[R[y]] \in Nat
    BY <1>1
  <2> QED
    BY <2>2, <2>3, <2>5, <2>6
<1>4. Good(x)
  <2>1. n - d.rank[x] \in Nat
    BY <1>1, <1>2
  <2> QED
    BY <1>3, <2>1
<1>5. R[x] \in Address
  BY <1>1
<1> QED
  BY <1>1, <1>4, <1>5

(* Find returns the root. *)
LEMMA FindFacts ==
    ASSUME NEW d, Forest(d), NEW R, Roots(d, R), NEW x \in Address
    PROVE  Find(d, x) = R[x]
<1>1. /\ d.parent \in [Address -> Address] /\ d.rank \in [Address -> Nat] /\ R \in [Address -> Address]
      /\ \A y \in Address : d.parent[y] # y => d.rank[y] < d.rank[d.parent[y]]
      /\ \A y \in Address : R[y] = IF d.parent[y] = y THEN y ELSE R[d.parent[y]]
  BY DEF Forest, Roots
<1>2. PICK n \in Nat : \A y \in Address : d.rank[y] <= n
  BY DEF Forest
<1> DEFINE F == CHOOSE f : f = [y \in Address |-> IF d.parent[y] = y THEN y ELSE f[d.parent[y]]]
<1>3. R = [y \in Address |-> IF d.parent[y] = y THEN y ELSE R[d.parent[y]]]
  BY <1>1
<1>4. F = [y \in Address |-> IF d.parent[y] = y THEN y ELSE F[d.parent[y]]]
  BY <1>3
<1>5. Find(d, x) = F[x]
  BY DEF Find
<1> HIDE DEF F
<1> DEFINE Bad == {k \in Nat : \E y \in Address : k = n - d.rank[y] /\ F[y] # R[y]}
<1>6. Bad = {}
  <2> SUFFICES ASSUME Bad # {} PROVE FALSE
    OBVIOUS
  <2>1. PICK k \in Bad : \A m \in Bad : k <= m
    <3>1. Bad \subseteq Nat
      OBVIOUS
    <3> HIDE DEF Bad
    <3> QED
      BY <3>1, LeastNatural
  <2>2. PICK y \in Address : k = n - d.rank[y] /\ F[y] # R[y]
    BY <2>1
  <2>3. F[y] = IF d.parent[y] = y THEN y ELSE F[d.parent[y]]
    BY <1>4
  <2>4. d.parent[y] # y /\ R[y] = R[d.parent[y]] /\ d.rank[y] < d.rank[d.parent[y]]
    BY <1>1, <2>2, <2>3
  <2>5. n - d.rank[d.parent[y]] \in Nat /\ n - d.rank[d.parent[y]] < k
    BY <1>1, <1>2, <2>2, <2>4
  <2>6. F[d.parent[y]] = R[d.parent[y]]
    BY <1>1, <2>1, <2>5
  <2> QED
    BY <2>2, <2>3, <2>4, <2>6
<1>7. n - d.rank[x] \in Nat
  BY <1>1, <1>2
<1> QED
  BY <1>5, <1>6, <1>7

(* The addresses from which every step towards the root is in the set. *)
Reach(d, y) == {z \in Address : \A T : T \subseteq Address /\ y \in T /\ (\A u \in T : d.parent[u] \in T) => z \in T}

(* The recursive definition of a path defines a function. *)
LEMMA ReachFacts ==
    ASSUME NEW d, d.parent \in [Address -> Address], NEW y \in Address
    PROVE  Reach(d, y) = IF d.parent[y] = y THEN {y} ELSE {y} \cup Reach(d, d.parent[y])
<1>1. y \in Reach(d, y) /\ Reach(d, y) \subseteq Address
  BY DEF Reach
<1>2. CASE d.parent[y] = y
  <2>1. ASSUME NEW z \in Reach(d, y) PROVE z \in {y}
    BY <1>2 DEF Reach
  <2> QED
    BY <1>1, <1>2, <2>1
<1>3. CASE d.parent[y] # y
  <2> DEFINE p == d.parent[y]
             T == {y} \cup Reach(d, p)
  <2>1. p \in Reach(d, p) /\ p \in Address
    BY DEF Reach
  <2>2. \A u \in Reach(d, p) : d.parent[u] \in Reach(d, p)
    BY DEF Reach
  <2>3. T \subseteq Address /\ y \in T /\ \A u \in T : d.parent[u] \in T
    BY <2>1, <2>2 DEF Reach
  <2>4. Reach(d, y) \subseteq T
    <3> HIDE DEF T
    <3> QED
      BY <2>3 DEF Reach
  <2>5. Reach(d, p) \subseteq Reach(d, y)
    BY DEF Reach
  <2> QED
    BY <1>1, <1>3, <2>4, <2>5
<1> QED
  BY <1>2, <1>3

(* Compressing a path leaves the roots as they are. *)
LEMMA CompressFacts ==
    ASSUME NEW d, Forest(d), NEW R, Roots(d, R), NEW x \in Address
    PROVE  Forest(Compress(d, x)) /\ Roots(Compress(d, x), R) /\ Compress(d, x).rank = d.rank
<1>1. /\ d \in [parent : [Address -> Address], rank : [Address -> Nat]]
      /\ d.parent \in [Address -> Address] /\ d.rank \in [Address -> Nat] /\ R \in [Address -> Address]
      /\ \A y \in Address : d.parent[y] # y => d.rank[y] < d.rank[d.parent[y]]
      /\ \A y \in Address : R[y] = IF d.parent[y] = y THEN y ELSE R[d.parent[y]]
  BY DEF Forest, Roots
<1>2. PICK n \in Nat : \A y \in Address : d.rank[y] <= n
  BY DEF Forest
<1> DEFINE F == CHOOSE f : f = [y \in Address |-> IF d.parent[y] = y THEN {y} ELSE {y} \cup f[d.parent[y]]]
<1>3. F = [y \in Address |-> IF d.parent[y] = y THEN {y} ELSE {y} \cup F[d.parent[y]]]
  <2> DEFINE P == [y \in Address |-> Reach(d, y)]
  <2>1. \A y \in Address : P[y] = IF d.parent[y] = y THEN {y} ELSE {y} \cup P[d.parent[y]]
    BY <1>1, ReachFacts
  <2>2. P = [y \in Address |-> IF d.parent[y] = y THEN {y} ELSE {y} \cup P[d.parent[y]]]
    BY <2>1
  <2> QED
    BY <2>2
<1>4. Compress(d, x) = [d EXCEPT !.parent = [y \in Address |-> IF y \in F[x] THEN Find(d, x) ELSE d.parent[y]]]
  BY DEF Compress
<1> HIDE DEF F
<1> DEFINE Bad == {k \in Nat : \E y \in Address : k = n - d.rank[y] /\ \E z \in F[y] : z \notin Address \/ R[z] # R[y]}
<1>5. Bad = {}
  <2> SUFFICES ASSUME Bad # {} PROVE FALSE
    OBVIOUS
  <2>1. PICK k \in Bad : \A m \in Bad : k <= m
    <3>1. Bad \subseteq Nat
      OBVIOUS
    <3> HIDE DEF Bad
    <3> QED
      BY <3>1, LeastNatural
  <2>2. PICK y \in Address : k = n - d.rank[y] /\ \E z \in F[y] : z \notin Address \/ R[z] # R[y]
    BY <2>1
  <2>3. PICK z \in F[y] : z \notin Address \/ R[z] # R[y]
    BY <2>2
  <2>4. F[y] = IF d.parent[y] = y THEN {y} ELSE {y} \cup F[d.parent[y]]
    BY <1>3
  <2>5. d.parent[y] # y /\ R[y] = R[d.parent[y]] /\ d.rank[y] < d.rank[d.parent[y]] /\ z \in F[d.parent[y]]
    BY <1>1, <2>2, <2>4, <2>3
  <2>6. n - d.rank[d.parent[y]] \in Nat /\ n - d.rank[d.parent[y]] < k
    BY <1>1, <1>2, <2>2, <2>5
  <2>7. z \in Address /\ R[z] = R[d.parent[y]]
    BY <1>1, <2>1, <2>5, <2>6
  <2> QED
    BY <2>2, <2>5, <2>7, <2>3
<1>6. \A z \in F[x] : z \in Address /\ R[z] = R[x]
  <2>1. n - d.rank[x] \in Nat
    BY <1>1, <1>2
  <2> QED
    BY <1>5, <2>1
<1> DEFINE c == Compress(d, x)
<1>7. /\ c \in [parent : [Address -> Address], rank : [Address -> Nat]]
      /\ c.rank = d.rank
      /\ \A y \in Address : c.parent[y] = IF y \in F[x] THEN R[x] ELSE d.parent[y]
  BY <1>1, <1>4, FindFacts
<1> HIDE DEF c
<1>8. R[x] \in Address /\ R[R[x]] = R[x]
  BY RootFacts
<1>9. ASSUME NEW y \in Address
      PROVE  /\ c.parent[y] # y => c.rank[y] < c.rank[c.parent[y]]
             /\ R[y] = IF c.parent[y] = y THEN y ELSE R[c.parent[y]]
  <2>1. CASE y \in F[x]
    <3>1. R[y] # y => d.rank[y] < d.rank[R[y]]
      BY RootFacts
    <3> QED
      BY <1>6, <1>7, <1>8, <2>1, <3>1
  <2>2. CASE y \notin F[x]
    BY <1>1, <1>7, <2>2
  <2> QED
    BY <2>1, <2>2
<1>10. Forest(c) /\ Roots(c, R)
  BY <1>1, <1>2, <1>7, <1>9 DEF Forest, Roots
<1> QED
  BY <1>7, <1>10 DEF c

(* Linking two roots joins their sets and no others. *)
LEMMA LinkFacts ==
    ASSUME NEW d, Forest(d), NEW R, Roots(d, R), NEW ra \in Address, NEW rb \in Address,
           R[ra] = ra, R[rb] = rb, ra # rb
    PROVE  Forest(Link(d, ra, rb)) /\
           \E Q : /\ Roots(Link(d, ra, rb), Q)
                  /\ \A x, y \in Address : Q[x] = Q[y] <=>
                        R[x] = R[y] \/ (R[x] \in {ra, rb} /\ R[y] \in {ra, rb})
<1>1. /\ d \in [parent : [Address -> Address], rank : [Address -> Nat]]
      /\ d.parent \in [Address -> Address] /\ d.rank \in [Address -> Nat] /\ R \in [Address -> Address]
      /\ \A y \in Address : d.parent[y] # y => d.rank[y] < d.rank[d.parent[y]]
      /\ \A y \in Address : R[y] = IF d.parent[y] = y THEN y ELSE R[d.parent[y]]
  BY DEF Forest, Roots
<1>2. PICK n \in Nat : \A y \in Address : d.rank[y] <= n
  BY DEF Forest
<1>3. PICK up : up = IF d.rank[ra] < d.rank[rb] THEN rb ELSE ra
  OBVIOUS
<1>4. PICK down : down = IF up = ra THEN rb ELSE ra
  OBVIOUS
<1>5. up \in Address /\ down \in Address /\ up # down /\ {up, down} = {ra, rb}
  BY <1>3, <1>4
<1>6. R[up] = up /\ R[down] = down /\ d.parent[up] = up /\ d.parent[down] = down
  BY <1>5, RootFacts
<1> DEFINE l == Link(d, ra, rb)
<1>7. l = [d EXCEPT !.parent[down] = up, !.rank[up] = IF d.rank[ra] = d.rank[rb] THEN @ + 1 ELSE @]
  BY <1>3, <1>4 DEF Link
<1>8. /\ l \in [parent : [Address -> Address], rank : [Address -> Nat]]
      /\ \A y \in Address : l.parent[y] = IF y = down THEN up ELSE d.parent[y]
      /\ \A y \in Address : l.rank[y] = IF y = up /\ d.rank[ra] = d.rank[rb] THEN d.rank[y] + 1 ELSE d.rank[y]
  <2> HIDE DEF l
  <2> DEFINE P == [d.parent EXCEPT ![down] = up]
             K == [d.rank EXCEPT ![up] = IF d.rank[ra] = d.rank[rb] THEN d.rank[up] + 1 ELSE d.rank[up]]
  <2>1. P \in [Address -> Address] /\ \A y \in Address : P[y] = IF y = down THEN up ELSE d.parent[y]
    BY <1>1, <1>5
  <2>2. /\ K \in [Address -> Nat]
        /\ \A y \in Address : K[y] = IF y = up /\ d.rank[ra] = d.rank[rb] THEN d.rank[y] + 1 ELSE d.rank[y]
    <3>1. d.rank[up] \in Nat /\ d.rank[up] + 1 \in Nat
      BY <1>1, <1>5
    <3> QED
      BY <1>1, <1>5, <3>1
  <2>3. l = [parent |-> P, rank |-> K]
    BY <1>1, <1>7
  <2> HIDE DEF P, K
  <2>4. l.parent = P /\ l.rank = K /\ l \in [parent : [Address -> Address], rank : [Address -> Nat]]
    BY <2>1, <2>2, <2>3
  <2> QED
    BY <2>1, <2>2, <2>4
<1> HIDE DEF l
<1> DEFINE Q == [y \in Address |-> IF R[y] = down THEN up ELSE R[y]]
<1>9. ASSUME NEW y \in Address
      PROVE  /\ l.parent[y] # y => l.rank[y] < l.rank[l.parent[y]]
             /\ Q[y] = IF l.parent[y] = y THEN y ELSE Q[l.parent[y]]
             /\ l.rank[y] <= n + 1
  <2>1. l.rank[y] <= n + 1
    BY <1>1, <1>2, <1>8
  <2>2. CASE y = down
    <3>1. l.rank[down] < l.rank[up]
      BY <1>1, <1>3, <1>4, <1>5, <1>8
    <3> QED
      BY <1>5, <1>6, <1>8, <2>1, <2>2, <3>1
  <2>3. CASE y # down
    <3>1. l.parent[y] = d.parent[y] /\ d.parent[y] \in Address
      BY <1>1, <1>8, <2>3
    <3>2. d.parent[y] # y => l.rank[y] < l.rank[l.parent[y]]
      BY <1>1, <1>6, <1>8, <2>3, <3>1
    <3>3. d.parent[y] = y => R[y] = y
      BY <1>1
    <3>4. d.parent[y] # y => R[y] = R[d.parent[y]]
      BY <1>1
    <3> QED
      BY <2>1, <2>3, <3>1, <3>2, <3>3, <3>4
  <2> QED
    BY <2>2, <2>3
<1>10. Q \in [Address -> Address]
  BY <1>1, <1>5
<1>11. \A x, y \in Address : Q[x] = Q[y] <=> R[x] = R[y] \/ (R[x] \in {ra, rb} /\ R[y] \in {ra, rb})
  BY <1>5
<1> HIDE DEF Q
<1>12. Forest(l)
  BY <1>8, <1>9 DEF Forest
<1>13. Roots(l, Q)
  BY <1>9, <1>10 DEF Roots
<1> QED
  BY <1>11, <1>12, <1>13 DEF l

(* At first everyone is alone. *)
LEMMA NewFacts == Forest(New) /\ Roots(New, [x \in Address |-> x])
  BY DEF Forest, Roots, New
-----------------------------------------------------------------------------
(* Least, greatest and sums.                                               *)

LEMMA MinFacts ==
    ASSUME NEW S, S \subseteq Nat, S # {}
    PROVE  Min(S) \in S /\ \A y \in S : Min(S) <= y
<1>1. \E n \in S : \A m \in S : n <= m
  BY LeastNatural
<1> QED
  BY <1>1 DEF Min

LEMMA MaxFacts ==
    ASSUME NEW L \in Nat, NEW S, S \subseteq 0..L, S # {}
    PROVE  Max(S) \in S /\ \A y \in S : y <= Max(S)
<1>1. \E n \in S : \A m \in S : m <= n
  BY GreatestBelow
<1> QED
  BY <1>1 DEF Max

(* Sum of f over the subsets of S with at most n elements. *)
SumBody(f, S, n, g) ==
    [s \in {t \in SUBSET S : Cardinality(t) <= n} |->
        IF s = {} THEN 0 ELSE f[CHOOSE x \in s : TRUE] + g[s \ {CHOOSE x \in s : TRUE}]]

LEMMA Smaller ==
    ASSUME NEW S, IsFiniteSet(S), NEW s, s \subseteq S, s # {}
    PROVE  /\ (CHOOSE x \in s : TRUE) \in s
           /\ Cardinality(s) \in Nat /\ Cardinality(s) # 0
           /\ Cardinality(s \ {CHOOSE x \in s : TRUE}) = Cardinality(s) - 1
           /\ IsFiniteSet(s)
<1>1. (CHOOSE x \in s : TRUE) \in s
  OBVIOUS
<1>2. IsFiniteSet(s)
  BY FS_Subset
<1>3. Cardinality(s) \in Nat /\ Cardinality(s) # 0
  BY <1>2, FS_CardinalityType, FS_EmptySet
<1> QED
  BY <1>1, <1>2, <1>3, FS_RemoveElement

(* The recursive definition of a sum defines a function. *)
LEMMA SumExists ==
    ASSUME NEW f, NEW S, IsFiniteSet(S), NEW l \in Nat
    PROVE  \E g : g = SumBody(f, S, l, g)
<1> DEFINE Bad == {n \in Nat : ~\E g : g = SumBody(f, S, n, g)}
<1> SUFFICES ASSUME Bad # {} PROVE FALSE
  OBVIOUS
<1>1. PICK n \in Bad : \A m \in Bad : n <= m
  <2>1. Bad \subseteq Nat
    OBVIOUS
  <2> HIDE DEF Bad
  <2> QED
    BY <2>1, LeastNatural
<1>2. n \in Nat /\ ~\E g : g = SumBody(f, S, n, g)
  BY <1>1
<1>3. n # 0
  <2> SUFFICES ASSUME n = 0 PROVE FALSE
    OBVIOUS
  <2>1. PICK g : g = [s \in {t \in SUBSET S : Cardinality(t) <= 0} |-> 0]
    OBVIOUS
  <2>2. ASSUME NEW s, s \in SUBSET S, Cardinality(s) <= 0 PROVE s = {}
    <3>1. s # {} => Cardinality(s) \in Nat /\ Cardinality(s) # 0
      BY <2>2, Smaller
    <3> QED
      BY <2>2, <3>1
  <2>3. SumBody(f, S, 0, g) = [s \in {t \in SUBSET S : Cardinality(t) <= 0} |-> 0]
    BY <2>2 DEF SumBody
  <2> QED
    BY <1>2, <2>1, <2>3
<1>4. PICK h : h = SumBody(f, S, n - 1, h)
  <2>1. n - 1 \in Nat /\ ~(n <= n - 1)
    BY <1>2, <1>3
  <2>2. n - 1 \notin Bad
    BY <1>1, <2>1
  <2> QED
    BY <2>1, <2>2
<1>5. PICK g : g = SumBody(f, S, n, h)
  OBVIOUS
<1>6. ASSUME NEW s \in SUBSET S, Cardinality(s) <= n - 1
      PROVE  g[s] = h[s]
  <2>1. s = {} \/ Cardinality(s) \in Nat
    BY Smaller
  <2>2. Cardinality(s) <= n
    BY <1>2, <1>6, <2>1, FS_EmptySet
  <2>3. g[s] = IF s = {} THEN 0 ELSE f[CHOOSE x \in s : TRUE] + h[s \ {CHOOSE x \in s : TRUE}]
    BY <1>5, <2>2 DEF SumBody
  <2>4. h[s] = IF s = {} THEN 0 ELSE f[CHOOSE x \in s : TRUE] + h[s \ {CHOOSE x \in s : TRUE}]
    BY <1>4, <1>6 DEF SumBody
  <2> QED
    BY <2>3, <2>4
<1>7. ASSUME NEW s \in SUBSET S, Cardinality(s) <= n, s # {}
      PROVE  g[s \ {CHOOSE x \in s : TRUE}] = h[s \ {CHOOSE x \in s : TRUE}]
  <2>1. Cardinality(s) \in Nat /\ Cardinality(s \ {CHOOSE x \in s : TRUE}) = Cardinality(s) - 1
    BY <1>7, Smaller
  <2>2. Cardinality(s \ {CHOOSE x \in s : TRUE}) <= n - 1
    BY <1>2, <1>7, <2>1
  <2>3. s \ {CHOOSE x \in s : TRUE} \in SUBSET S
    OBVIOUS
  <2> QED
    BY <1>6, <2>2, <2>3
<1>8. SumBody(f, S, n, h) = SumBody(f, S, n, g)
  BY <1>7 DEF SumBody
<1> QED
  BY <1>2, <1>5, <1>8

(* A sum of naturals is a natural, and no term exceeds it. *)
LEMMA SumFacts ==
    ASSUME NEW f, IsFiniteSet(DOMAIN f), \A k \in DOMAIN f : f[k] \in Nat
    PROVE  SumFunction(f) \in Nat /\ \A k \in DOMAIN f : f[k] <= SumFunction(f)
<1> DEFINE S == DOMAIN f
           l == Cardinality(S)
<1>1. l \in Nat
  BY FS_CardinalityType
<1>2. PICK g : g = SumBody(f, S, l, g)
  BY <1>1, SumExists
<1>3. {t \in SUBSET S : Cardinality(t) <= l} = SUBSET S
  BY FS_Subset
<1>4. g = [s \in SUBSET S |-> IF s = {} THEN 0 ELSE f[CHOOSE x \in s : TRUE] + g[s \ {CHOOSE x \in s : TRUE}]]
  BY <1>2, <1>3 DEF SumBody
<1> DEFINE G == CHOOSE h : h = [s \in SUBSET S |-> IF s = {} THEN 0 ELSE f[CHOOSE x \in s : TRUE] + h[s \ {CHOOSE x \in s : TRUE}]]
<1>5. G = [s \in SUBSET S |-> IF s = {} THEN 0 ELSE f[CHOOSE x \in s : TRUE] + G[s \ {CHOOSE x \in s : TRUE}]]
  BY <1>4
<1>6. SumFunction(f) = G[S]
  BY DEF SumFunction, SumFunctionOnSet, FoldFunctionOnSet, MapThenFoldSet
<1> HIDE DEF G
<1> DEFINE Good(s) == G[s] \in Nat /\ \A k \in s : f[k] <= G[s]
           Bad == {n \in Nat : \E s \in SUBSET S : n = Cardinality(s) /\ ~Good(s)}
<1>7. Bad = {}
  <2> SUFFICES ASSUME Bad # {} PROVE FALSE
    OBVIOUS
  <2>1. PICK n \in Bad : \A m \in Bad : n <= m
    <3>1. Bad \subseteq Nat
      OBVIOUS
    <3> HIDE DEF Bad
    <3> QED
      BY <3>1, LeastNatural
  <2>2. PICK s \in SUBSET S : n = Cardinality(s) /\ ~Good(s)
    BY <2>1
  <2>3. G[s] = IF s = {} THEN 0 ELSE f[CHOOSE x \in s : TRUE] + G[s \ {CHOOSE x \in s : TRUE}]
    BY <1>5
  <2>4. s # {}
    <3> SUFFICES ASSUME s = {} PROVE FALSE
      OBVIOUS
    <3>1. G[s] = 0
      BY <2>3
    <3> QED
      BY <2>2, <3>1
  <2>5. PICK c : c = CHOOSE x \in s : TRUE
    OBVIOUS
  <2>6. c \in s /\ n \in Nat /\ Cardinality(s \ {c}) = n - 1 /\ n # 0
    BY <2>2, <2>4, <2>5, Smaller
  <2>7. s \ {c} \in SUBSET S /\ n - 1 \in Nat /\ ~(n <= n - 1)
    BY <2>6
  <2>8. Good(s \ {c})
    BY <2>1, <2>6, <2>7
  <2>9. f[c] \in Nat /\ G[s] = f[c] + G[s \ {c}]
    BY <2>2, <2>3, <2>4, <2>5, <2>6
  <2>10. \A k \in s : f[k] \in Nat
    BY <2>2
  <2> QED
    BY <2>2, <2>8, <2>9, <2>10
<1>8. Good(S)
  <2>1. S \in SUBSET S
    OBVIOUS
  <2> QED
    BY <1>1, <1>7, <2>1
<1> QED
  BY <1>6, <1>8
-----------------------------------------------------------------------------
(* Rows and the edges they combine to.                                     *)

RowsOk(rows) ==
    /\ DOMAIN rows \subseteq Nat
    /\ IsFiniteSet(DOMAIN rows)
    /\ \A i \in DOMAIN rows : rows[i] \in EvidenceRow

LEMMA RowFields ==
    ASSUME NEW r \in EvidenceRow
    PROVE  /\ r.a \in Address /\ r.b \in Address /\ r.a # r.b
           /\ r.a \in Nat /\ r.b \in Nat
           /\ r.conf \in 1..Certain
  BY RowAssumption DEF EvidenceRow

LEMMA MinMaxPair ==
    ASSUME NEW x \in Nat, NEW y \in Nat, x # y
    PROVE  {Min({x, y}), Max({x, y})} = {x, y} /\ Min({x, y}) # Max({x, y})
<1>1. Min({x, y}) = IF x <= y THEN x ELSE y
  BY DEF Min
<1>2. Max({x, y}) = IF x <= y THEN y ELSE x
  BY DEF Max
<1> QED
  BY <1>1, <1>2

(* The confidence of a pair is at least what each of its rows alone would  *)
(* give it.                                                                *)
LEMMA CombinedFacts ==
    ASSUME NEW rows, RowsOk(rows), NEW i \in DOMAIN rows
    PROVE  /\ Combined(rows, Pair(rows[i])) \in 1..Certain
           /\ Float[rows[i].conf] <= Combined(rows, Pair(rows[i]))
<1> DEFINE p == Pair(rows[i])
           Key(j) == SourceKey(rows, j)
           of == {j \in DOMAIN rows : Pair(rows[j]) = p}
           Of(k) == {j \in of : Key(j) = k}
           Confs(k) == {rows[j].conf : j \in Of(k)}
           best == [k \in {Key(j) : j \in of} |-> Max(Confs(k))]
<1>1. BySource(rows, p) = best
  BY DEF BySource
<1>2. IsFiniteSet(of)
  BY FS_Subset DEF RowsOk
<1>3. IsFiniteSet(DOMAIN best)
  <2>1. DOMAIN best = {Key(j) : j \in of}
    OBVIOUS
  <2>2. PICK f : f = [j \in of |-> Key(j)]
    OBVIOUS
  <2> HIDE DEF of, best, Key
  <2>3. f \in Surjection(of, DOMAIN best)
    BY <2>1, <2>2 DEF Surjection
  <2> QED
    BY <1>2, <2>3, FS_Surjection
<1>4. Certain \in Nat
  BY RowAssumption
<1>5. ASSUME NEW k \in DOMAIN best
      PROVE  best[k] \in Nat /\ best[k] \in 1..Certain /\ \A j \in Of(k) : rows[j].conf <= best[k]
  <2>1. \A j \in Of(k) : rows[j].conf \in 1..Certain
    BY RowFields DEF RowsOk
  <2>2. Confs(k) \subseteq 1..Certain /\ Confs(k) \subseteq 0..Certain /\ Confs(k) # {}
    BY <2>1, <1>4
  <2>3. Max(Confs(k)) \in Confs(k) /\ \A y \in Confs(k) : y <= Max(Confs(k))
    <3> HIDE DEF Confs
    <3> QED
      BY <1>4, <2>2, MaxFacts
  <2>4. best[k] = Max(Confs(k))
    OBVIOUS
  <2> HIDE DEF best
  <2> QED
    BY <2>1, <2>2, <2>3, <2>4, <1>4
<1>6. SumFunction(best) \in Nat /\ \A k \in DOMAIN best : best[k] <= SumFunction(best)
  <2> HIDE DEF best
  <2> QED
    BY <1>3, <1>5, SumFacts
<1>7. i \in of /\ Key(i) \in DOMAIN best /\ i \in Of(Key(i))
  OBVIOUS
<1>8. rows[i].conf \in 1..Certain
  BY RowFields DEF RowsOk
<1>9. Combined(rows, p) = Float[Min({Certain, SumFunction(best)})]
  BY <1>1 DEF Combined
<1>10. best[Key(i)] \in 1..Certain /\ rows[i].conf <= best[Key(i)]
  <2> HIDE DEF best, of
  <2> QED
    BY <1>5, <1>7
<1> HIDE DEF best, of, Key, Of, p
<1>11. Min({Certain, SumFunction(best)}) = IF Certain <= SumFunction(best) THEN Certain ELSE SumFunction(best)
  BY <1>4, <1>6 DEF Min
<1>12. PICK m : m = Min({Certain, SumFunction(best)})
  OBVIOUS
<1>13. m \in 1..Certain /\ rows[i].conf <= m
  BY <1>4, <1>6, <1>7, <1>8, <1>10, <1>11, <1>12
<1>14. Combined(rows, p) \in 1..Certain /\ Float[rows[i].conf] <= Combined(rows, p)
  BY <1>8, <1>9, <1>12, <1>13, RoundingAssumption
<1> QED
  BY <1>14 DEF p

(* combinedEdges has an edge between the ends of its row. *)
LEMMA EdgeFacts ==
    ASSUME NEW rows, RowsOk(rows), NEW n \in DOMAIN CombinedEdges(rows), NEW e, e = CombinedEdges(rows)[n]
    PROVE  /\ n \in DOMAIN rows /\ n \in Nat
           /\ e.a \in Address /\ e.b \in Address /\ e.a # e.b
           /\ {e.a, e.b} = Pair(rows[n])
           /\ e.conf \in 1..Certain /\ Float[rows[n].conf] <= e.conf
<1> DEFINE p == Pair(rows[n])
<1>1. n \in DOMAIN rows /\ n \in Nat
  BY DEF CombinedEdges, RowsOk
<1>2. e = [a |-> Min(p), b |-> Max(p), conf |-> Combined(rows, p)]
  BY DEF CombinedEdges
<1>3. rows[n].a \in Address /\ rows[n].b \in Address /\ rows[n].a # rows[n].b /\ rows[n].a \in Nat /\ rows[n].b \in Nat
  BY <1>1, RowFields DEF RowsOk
<1>4. p = {rows[n].a, rows[n].b}
  BY DEF Pair
<1>5. {Min(p), Max(p)} = p /\ Min(p) # Max(p)
  BY <1>3, <1>4, MinMaxPair
<1>6. Combined(rows, p) \in 1..Certain /\ Float[rows[n].conf] <= Combined(rows, p)
  BY <1>1, CombinedFacts
<1>7. e.a = Min(p) /\ e.b = Max(p) /\ e.conf = Combined(rows, p)
  BY <1>2
<1>8. Min(p) \in Address /\ Max(p) \in Address
  BY <1>3, <1>4, <1>5
<1> HIDE DEF p
<1>9. {e.a, e.b} = Pair(rows[n])
  BY <1>5, <1>7 DEF p
<1> QED
  BY <1>1, <1>5, <1>6, <1>7, <1>8, <1>9

(* Every row has an edge. *)
LEMMA RowHasEdge ==
    ASSUME NEW rows, RowsOk(rows), NEW i \in DOMAIN rows
    PROVE  \E n \in DOMAIN CombinedEdges(rows) : n <= i /\ Pair(rows[n]) = Pair(rows[i])
<1> DEFINE S == {j \in DOMAIN rows : Pair(rows[j]) = Pair(rows[i])}
<1>1. S \subseteq Nat /\ i \in S
  BY DEF RowsOk
<1>2. PICK n \in S : \A j \in S : n <= j
  <2> HIDE DEF S
  <2> QED
    BY <1>1, LeastNatural
<1>3. ASSUME NEW j \in DOMAIN rows, j < n PROVE Pair(rows[j]) # Pair(rows[n])
  <2>1. j \in Nat /\ n \in Nat
    BY <1>1 DEF RowsOk
  <2>2. j \notin S
    BY <1>2, <1>3, <2>1
  <2> QED
    BY <2>2
<1>4. n \in DOMAIN CombinedEdges(rows)
  BY <1>3 DEF CombinedEdges
<1> QED
  BY <1>1, <1>2, <1>4

LEMMA RowsBetween ==
    ASSUME NEW rows, RowsOk(rows)
    PROVE  Between(Range(rows)) /\ Between(EdgeSet(rows))
<1>1. Between(Range(rows))
  BY RowFields DEF RowsOk, Range, Between
<1>2. Between(EdgeSet(rows))
  BY EdgeFacts DEF EdgeSet, Between
<1> QED
  BY <1>1, <1>2

(* The edges leave closed what the rows leave closed. *)
LEMMA EdgesClosed ==
    ASSUME NEW rows, RowsOk(rows), NEW T
    PROVE  Closed(EdgeSet(rows), T) <=> Closed(Range(rows), T)
<1>1. ASSUME Closed(EdgeSet(rows), T) PROVE Closed(Range(rows), T)
  <2> SUFFICES ASSUME NEW i \in DOMAIN rows PROVE rows[i].a \in T <=> rows[i].b \in T
    BY DEF Closed, Range
  <2>1. PICK n \in DOMAIN CombinedEdges(rows) : Pair(rows[n]) = Pair(rows[i])
    BY RowHasEdge
  <2>2. PICK e : e = CombinedEdges(rows)[n]
    OBVIOUS
  <2>3. {e.a, e.b} = {rows[i].a, rows[i].b}
    BY <2>1, <2>2, EdgeFacts DEF Pair
  <2>4. e.a \in T <=> e.b \in T
    BY <1>1, <2>2 DEF Closed, EdgeSet
  <2> QED
    BY <2>3, <2>4
<1>2. ASSUME Closed(Range(rows), T) PROVE Closed(EdgeSet(rows), T)
  <2> SUFFICES ASSUME NEW n \in DOMAIN CombinedEdges(rows), NEW e, e = CombinedEdges(rows)[n]
               PROVE e.a \in T <=> e.b \in T
    BY DEF Closed, EdgeSet
  <2>1. n \in DOMAIN rows /\ {e.a, e.b} = {rows[n].a, rows[n].b}
    BY EdgeFacts DEF Pair
  <2>2. rows[n].a \in T <=> rows[n].b \in T
    BY <1>2, <2>1 DEF Closed, Range
  <2> QED
    BY <2>1, <2>2
<1> QED
  BY <1>1, <1>2

(* The edges link what the rows link. *)
LEMMA EdgesLink ==
    ASSUME NEW rows, RowsOk(rows), NEW x, NEW y
    PROVE  Linked(EdgeSet(rows), x, y) <=> Linked(Range(rows), x, y)
  BY EdgesClosed, LinkedByClosed
-----------------------------------------------------------------------------
(* Anchors.                                                                *)

(* x in the order in which addresses appear: 2i as a of row i, 2i+1 as b. *)
Places(rows, x) ==
    {2 * i : i \in {j \in DOMAIN rows : rows[j].a = x}}
        \cup {2 * i + 1 : i \in {j \in DOMAIN rows : rows[j].b = x}}

LEMMA SeenFacts ==
    ASSUME NEW rows, RowsOk(rows)
    PROVE  /\ Seen(rows) \subseteq Address
           /\ Closed(Range(rows), Seen(rows))
           /\ \A x \in Seen(rows) : \E i \in DOMAIN rows : x = rows[i].a \/ x = rows[i].b
           /\ \A i \in DOMAIN rows : rows[i].a \in Seen(rows) /\ rows[i].b \in Seen(rows)
<1>1. \A i \in DOMAIN rows : rows[i].a \in Seen(rows) /\ rows[i].b \in Seen(rows)
  BY DEF Seen, Pair
<1>2. \A x \in Seen(rows) : \E i \in DOMAIN rows : x = rows[i].a \/ x = rows[i].b
  BY DEF Seen, Pair
<1>3. Seen(rows) \subseteq Address
  BY <1>2, RowFields DEF RowsOk
<1>4. Closed(Range(rows), Seen(rows))
  BY <1>1 DEF Closed, Range
<1> QED
  BY <1>1, <1>2, <1>3, <1>4

LEMMA FirstSeenFacts ==
    ASSUME NEW rows, RowsOk(rows), NEW x \in Seen(rows)
    PROVE  FirstSeenOrder(rows, x) \in Nat /\ FirstSeenOrder(rows, x) = Min(Places(rows, x))
           /\ Places(rows, x) \subseteq Nat /\ Places(rows, x) # {}
<1>1. Places(rows, x) \subseteq Nat
  BY DEF Places, RowsOk
<1>2. Places(rows, x) # {}
  <2>1. PICK i \in DOMAIN rows : x = rows[i].a \/ x = rows[i].b
    BY SeenFacts
  <2>2. 2 * i \in Places(rows, x) \/ 2 * i + 1 \in Places(rows, x)
    BY <2>1 DEF Places
  <2> QED
    BY <2>2
<1>3. FirstSeenOrder(rows, x) = Min(Places(rows, x))
  BY DEF FirstSeenOrder, Places
<1>4. Min(Places(rows, x)) \in Places(rows, x)
  BY <1>1, <1>2, MinFacts
<1> QED
  BY <1>1, <1>2, <1>3, <1>4

(* What is linked to an address of the rows is one of theirs. *)
LEMMA LinkedSeen ==
    ASSUME NEW rows, RowsOk(rows), NEW x \in Seen(rows), NEW y, Linked(Range(rows), x, y)
    PROVE  y \in Seen(rows)
  BY SeenFacts, LinkedIs

LEMMA AnchorFacts ==
    ASSUME NEW rows, RowsOk(rows), NEW x \in Seen(rows)
    PROVE  /\ AnchorOf(rows, x) \in Seen(rows)
           /\ Linked(Range(rows), x, AnchorOf(rows, x))
           /\ Linked(Range(rows), AnchorOf(rows, x), x)
<1> DEFINE C == Cluster(rows, x)
           F == {FirstSeenOrder(rows, y) : y \in C}
<1>1. C \subseteq Seen(rows) /\ x \in C
  BY LinkedSame DEF Cluster
<1>2. F \subseteq Nat /\ F # {}
  BY <1>1, FirstSeenFacts
<1>3. PICK n \in F : \A m \in F : n <= m
  <2> HIDE DEF F
  <2> QED
    BY <1>2, LeastNatural
<1>4. PICK y \in C : n = FirstSeenOrder(rows, y)
  OBVIOUS
<1>5. \A z \in C : FirstSeenOrder(rows, y) <= FirstSeenOrder(rows, z)
  BY <1>3, <1>4
<1>6. AnchorOf(rows, x) \in C
  <2> HIDE DEF C
  <2> QED
    BY <1>4, <1>5 DEF AnchorOf, C
<1>7. AnchorOf(rows, x) \in Seen(rows) /\ Linked(Range(rows), x, AnchorOf(rows, x))
  BY <1>6 DEF Cluster
<1>8. x \in Address /\ AnchorOf(rows, x) \in Address
  BY <1>7, SeenFacts
<1> QED
  BY <1>7, <1>8, RowsBetween, LinkedSymmetric

(* Addresses have the same anchor exactly if they are linked. *)
LEMMA SameAnchor ==
    ASSUME NEW rows, RowsOk(rows), NEW x \in Seen(rows), NEW y \in Seen(rows)
    PROVE  AnchorOf(rows, x) = AnchorOf(rows, y) <=> Linked(Range(rows), x, y)
<1> DEFINE S == Range(rows)
<1>1. x \in Address /\ y \in Address
  BY SeenFacts
<1>2. ASSUME AnchorOf(rows, x) = AnchorOf(rows, y) PROVE Linked(S, x, y)
  <2>1. Linked(S, x, AnchorOf(rows, x)) /\ Linked(S, AnchorOf(rows, y), y)
    BY AnchorFacts
  <2> QED
    BY <1>2, <2>1, LinkedTransitive
<1>3. ASSUME Linked(S, x, y) PROVE AnchorOf(rows, x) = AnchorOf(rows, y)
  <2>1. Linked(S, y, x)
    BY <1>1, <1>3, RowsBetween, LinkedSymmetric
  <2>2. \A z : Linked(S, x, z) <=> Linked(S, y, z)
    BY <1>3, <2>1, LinkedTransitive
  <2>3. Cluster(rows, x) = Cluster(rows, y)
    BY <2>2 DEF Cluster
  <2> QED
    BY <2>3 DEF AnchorOf
<1> QED
  BY <1>2, <1>3

-----------------------------------------------------------------------------
(* One more union.                                                         *)

LEMMA UniteStep ==
    ASSUME NEW E, NEW D, NEW n, NEW t, NEW d, NEW e,
           Between({E[k] : k \in D}), e.a \in Address, e.b \in Address, e = E[n],
           Upto(E, n) = {E[k] : k \in D}, United(E, D, t, d)
    PROVE  LET found == Compress(Compress(d, e.a), e.b)
               ra == Find(d, e.a)
               rb == Find(d, e.b)
           IN  IF ra = rb THEN United(E, D \cup {n}, t, found)
               ELSE United(E, D \cup {n}, t \cup {e}, Link(found, ra, rb))
<1> DEFINE S == {E[k] : k \in D}
           U == {E[k] : k \in D \cup {n}}
           found == Compress(Compress(d, e.a), e.b)
           ra == Find(d, e.a)
           rb == Find(d, e.b)
<1>1. PICK R : Roots(d, R) /\ \A x, y \in Address : R[x] = R[y] <=> Linked(S, x, y)
  BY DEF United
<1>2. /\ t = Merging(E, D) /\ Forest(d)
      /\ \A f \in t : ~Linked(t \ {f}, f.a, f.b)
      /\ \A x, y \in Address : Linked(t, x, y) <=> Linked(S, x, y)
  BY DEF United
<1>3. U = S \cup {e}
  OBVIOUS
<1>4. Forest(found) /\ Roots(found, R)
  BY <1>1, <1>2, CompressFacts
<1>5. ra = R[e.a] /\ rb = R[e.b]
  BY <1>1, <1>2, FindFacts
<1>6. t \subseteq S
  BY <1>2 DEF Merging
<1>7. Between(S) /\ Between(t)
  BY <1>6 DEF Between
<1>8. \A x, y \in Address : Linked(U, x, y) <=>
              \/ Linked(S, x, y)
              \/ Linked(S, x, e.a) /\ Linked(S, e.b, y)
              \/ Linked(S, x, e.b) /\ Linked(S, e.a, y)
  <2> HIDE DEF S, U
  <2> QED
    BY <1>3, <1>7, LinkedAdd
<1>9. \A x, y \in Address : Linked(S, x, y) <=> Linked(S, y, x)
  <2> HIDE DEF S
  <2> QED
    BY <1>7, LinkedSymmetric
<1>10. Merging(E, D \cup {n}) = IF Linked(S, e.a, e.b) THEN t ELSE t \cup {e}
  BY <1>2 DEF Merging
<1> HIDE DEF S, U, found
<1>11. CASE ra = rb
  <2>1. Linked(S, e.a, e.b)
    <3>1. R[e.a] = R[e.b]
      BY <1>5, <1>11
    <3> QED
      BY <1>1, <3>1, Zenon
  <2>2. \A x, y \in Address : Linked(U, x, y) <=> Linked(S, x, y)
    BY <1>8, <1>9, <2>1, LinkedTransitive
  <2>3. United(E, D \cup {n}, t, found)
    BY <1>1, <1>2, <1>4, <1>10, <2>1, <2>2 DEF United, U
  <2> QED
    BY <1>11, <2>3 DEF found
<1>12. CASE ra # rb
  <2>1. ~Linked(S, e.a, e.b)
    BY <1>1, <1>5, <1>12
  <2>2. ra \in Address /\ rb \in Address /\ R[ra] = ra /\ R[rb] = rb
    BY <1>1, <1>2, <1>5, RootFacts
  <2>3. PICK Q : /\ Roots(Link(found, ra, rb), Q)
                 /\ \A x, y \in Address : Q[x] = Q[y] <=>
                       R[x] = R[y] \/ (R[x] \in {ra, rb} /\ R[y] \in {ra, rb})
    BY <1>4, <1>12, <2>2, LinkFacts
  <2>4. Forest(Link(found, ra, rb))
    BY <1>4, <1>12, <2>2, LinkFacts
  <2>5. \A x, y \in Address : Q[x] = Q[y] <=> Linked(U, x, y)
    <3> SUFFICES ASSUME NEW x \in Address, NEW y \in Address
                 PROVE  Q[x] = Q[y] <=> Linked(U, x, y)
      OBVIOUS
    <3>1. /\ R[x] = ra <=> Linked(S, x, e.a)
          /\ R[x] = rb <=> Linked(S, x, e.b)
          /\ R[y] = ra <=> Linked(S, e.a, y)
          /\ R[y] = rb <=> Linked(S, e.b, y)
          /\ R[x] = R[y] <=> Linked(S, x, y)
      BY <1>1, <1>5, <1>9
    <3> HIDE DEF ra, rb
    <3> QED
      BY <1>8, <2>3, <3>1
  <2>6. \A x, y \in Address : Linked(t \cup {e}, x, y) <=> Linked(U, x, y)
    <3>1. \A x, y \in Address : Linked(t \cup {e}, x, y) <=>
              \/ Linked(t, x, y)
              \/ Linked(t, x, e.a) /\ Linked(t, e.b, y)
              \/ Linked(t, x, e.b) /\ Linked(t, e.a, y)
      BY <1>7, LinkedAdd
    <3> QED
      BY <1>2, <1>8, <3>1
  <2>7. ASSUME NEW f \in t \cup {e}, Linked((t \cup {e}) \ {f}, f.a, f.b) PROVE FALSE
    <3>1. CASE f = e
      <4>1. (t \cup {e}) \ {f} \subseteq t
        BY <3>1
      <4>2. Linked(t, e.a, e.b)
        BY <2>7, <3>1, <4>1, LinkedMore
      <4> QED
        BY <1>2, <2>1, <4>2
    <3>2. CASE f # e
      <4> DEFINE v == t \ {f}
      <4>1. f \in t /\ (t \cup {e}) \ {f} = v \cup {e} /\ v \subseteq t
        BY <3>2
      <4>2. Between(v) /\ f.a \in Address /\ f.b \in Address
        BY <1>7, <4>1 DEF Between
      <4>3. ~Linked(v, f.a, f.b)
        BY <1>2, <4>1
      <4> HIDE DEF v
      <4>4. \/ Linked(v, f.a, e.a) /\ Linked(v, e.b, f.b)
            \/ Linked(v, f.a, e.b) /\ Linked(v, e.a, f.b)
        BY <2>7, <4>1, <4>2, <4>3, LinkedAdd
      <4>5. \/ Linked(t, f.a, e.a) /\ Linked(t, e.b, f.b)
            \/ Linked(t, f.a, e.b) /\ Linked(t, e.a, f.b)
        BY <4>1, <4>4, LinkedMore
      <4>6. Linked(t, f.a, f.b)
        BY <4>1, LinkedEdge
      <4>7. /\ Linked(S, f.a, f.b)
            /\ \/ Linked(S, f.a, e.a) /\ Linked(S, e.b, f.b)
               \/ Linked(S, f.a, e.b) /\ Linked(S, e.a, f.b)
        BY <1>2, <4>2, <4>5, <4>6, Zenon
      <4>8. CASE Linked(S, f.a, e.a) /\ Linked(S, e.b, f.b)
        <5>1. Linked(S, e.a, f.a) /\ Linked(S, f.b, e.b)
          BY <1>9, <4>2, <4>8
        <5>2. Linked(S, e.a, f.b)
          BY <4>7, <5>1, LinkedTransitive
        <5>3. Linked(S, e.a, e.b)
          BY <5>1, <5>2, LinkedTransitive
        <5> QED
          BY <2>1, <5>3
      <4>9. CASE Linked(S, f.a, e.b) /\ Linked(S, e.a, f.b)
        <5>1. Linked(S, f.b, f.a)
          BY <1>9, <4>2, <4>7
        <5>2. Linked(S, e.a, f.a)
          BY <4>9, <5>1, LinkedTransitive
        <5>3. Linked(S, e.a, e.b)
          BY <4>9, <5>2, LinkedTransitive
        <5> QED
          BY <2>1, <5>3
      <4> QED
        BY <4>7, <4>8, <4>9
    <3> QED
      BY <3>1, <3>2
  <2>8. United(E, D \cup {n}, t \cup {e}, Link(found, ra, rb))
    BY <1>10, <2>1, <2>3, <2>4, <2>5, <2>6, <2>7 DEF United, U
  <2> QED
    BY <1>12, <2>8 DEF found
<1> QED
  BY <1>11, <1>12
-----------------------------------------------------------------------------
(* The tree and the walk along it.                                         *)

LEMMA UnitedSpans ==
    ASSUME NEW rows, RowsOk(rows), NEW t, NEW d,
           United(CombinedEdges(rows), DOMAIN CombinedEdges(rows), t, d)
    PROVE  /\ Spanning(rows, t)
           /\ \A x, y \in Address : Find(d, x) = Find(d, y) <=> Linked(Range(rows), x, y)
<1> DEFINE E == CombinedEdges(rows)
<1>1. t = Tree(E) /\ \A e \in t : ~Linked(t \ {e}, e.a, e.b)
  BY DEF United, Tree
<1>2. t \subseteq EdgeSet(rows)
  BY <1>1 DEF Tree, Merging, EdgeSet
<1>3. \A x, y \in Address : Linked(t, x, y) <=> Linked(EdgeSet(rows), x, y)
  BY DEF United, EdgeSet
<1>4. PICK R : Roots(d, R) /\ \A x, y \in Address : R[x] = R[y] <=> Linked(EdgeSet(rows), x, y)
  BY DEF United, EdgeSet
<1>5. Forest(d)
  BY DEF United
<1>6. \A x \in Address : Find(d, x) = R[x]
  BY <1>4, <1>5, FindFacts
<1>7. \A x, y \in Address : Linked(EdgeSet(rows), x, y) <=> Linked(Range(rows), x, y)
  BY EdgesLink
<1>8. \A x, y \in Address : Linked(t, x, y) <=> Linked(Range(rows), x, y)
  BY <1>3, <1>7, Zenon
<1>9. \A x, y \in Address : Find(d, x) = Find(d, y) <=> R[x] = R[y]
  BY <1>6
<1>10. \A x, y \in Address : Find(d, x) = Find(d, y) <=> Linked(Range(rows), x, y)
  BY <1>4, <1>7, <1>9, Zenon
<1> QED
  BY <1>1, <1>2, <1>8, <1>10 DEF Spanning

LEMMA TreeEdge ==
    ASSUME NEW rows, RowsOk(rows), NEW t, Spanning(rows, t), NEW e \in t
    PROVE  /\ e.a \in Address /\ e.b \in Address /\ e.a # e.b
           /\ e.a \in Seen(rows) /\ e.b \in Seen(rows)
           /\ e.conf \in 1..Certain
           /\ AnchorOf(rows, e.a) = AnchorOf(rows, e.b)
<1>1. PICK n \in DOMAIN CombinedEdges(rows) : e = CombinedEdges(rows)[n]
  BY DEF Spanning, EdgeSet
<1>2. /\ n \in DOMAIN rows /\ e.a \in Address /\ e.b \in Address /\ e.a # e.b /\ e.conf \in 1..Certain
      /\ {e.a, e.b} = {rows[n].a, rows[n].b}
  BY <1>1, EdgeFacts DEF Pair
<1>3. e.a \in Seen(rows) /\ e.b \in Seen(rows)
  BY <1>2, SeenFacts
<1>4. Linked(t, e.a, e.b)
  BY LinkedEdge
<1>5. Linked(Range(rows), e.a, e.b)
  BY <1>2, <1>4 DEF Spanning
<1> QED
  BY <1>2, <1>3, <1>5, SameAnchor

LEMMA TreeBetween ==
    ASSUME NEW rows, RowsOk(rows), NEW t, Spanning(rows, t), NEW u, u \subseteq t
    PROVE  Between(u)
  BY TreeEdge DEF Between

LEMMA StrengthIs ==
    ASSUME NEW c, NEW S, NEW x, NEW y, IsStrength(c, S, x, y)
    PROVE  Strength(S, x, y) = c
<1> DEFINE k == Strength(S, x, y)
<1>1. c \in 1..Certain
  BY DEF IsStrength
<1>2. k \in 1..Certain /\ IsStrength(k, S, x, y)
  BY <1>1 DEF Strength
<1>3. ~(k > c) /\ ~(c > k)
  BY <1>1, <1>2 DEF IsStrength
<1> QED
  BY <1>1, <1>2, <1>3, RowAssumption

(* The walk starts at the anchors. *)
LEMMA WalkStarts ==
    ASSUME NEW rows, RowsOk(rows), NEW t, Spanning(rows, t),
           NEW cf, cf = [x \in {AnchorOf(rows, y) : y \in Seen(rows)} |-> Certain]
    PROVE  Walked(rows, t, cf)
<1>1. DOMAIN cf = {AnchorOf(rows, y) : y \in Seen(rows)}
  OBVIOUS
<1>2. DOMAIN cf \subseteq Seen(rows)
  BY <1>1, AnchorFacts
<1>3. ASSUME NEW x \in DOMAIN cf
      PROVE  /\ IsStrength(cf[x], t, AnchorOf(rows, x), x)
             /\ Linked(Inside(From(t, cf[x]), DOMAIN cf), AnchorOf(rows, x), x)
  <2>1. PICK y \in Seen(rows) : x = AnchorOf(rows, y)
    BY <1>1
  <2>2. x \in Seen(rows) /\ Linked(Range(rows), x, y)
    BY <2>1, AnchorFacts
  <2>3. AnchorOf(rows, x) = x
    BY <2>1, <2>2, SameAnchor
  <2>4. PICK i \in DOMAIN rows : TRUE
    BY <2>2, SeenFacts
  <2>5. rows[i].conf \in 1..Certain
    BY RowFields DEF RowsOk
  <2>6. cf[x] = Certain /\ Certain \in 1..Certain /\ \A k \in 1..Certain : ~(k > Certain)
    BY <1>1, <2>5, RowAssumption
  <2> QED
    BY <2>3, <2>6, LinkedSame DEF IsStrength
<1> QED
  BY <1>1, <1>2, <1>3 DEF Walked

(* One level more: x is reached from y along e. *)
LEMMA WalkReaches ==
    ASSUME NEW rows, RowsOk(rows), NEW t, Spanning(rows, t), NEW cf, Walked(rows, t, cf),
           NEW e \in t, NEW x, NEW y \in DOMAIN cf, x \notin DOMAIN cf, {e.a, e.b} = {x, y},
           NEW X, DOMAIN cf \subseteq X, x \in X, NEW c, c = Along(cf[y], e)
    PROVE  /\ x \in Seen(rows)
           /\ IsStrength(c, t, AnchorOf(rows, x), x)
           /\ Linked(Inside(From(t, c), X), AnchorOf(rows, x), x)
<1> DEFINE A == AnchorOf(rows, y)
<1>1. /\ x \in Seen(rows) /\ y \in Seen(rows) /\ x \in Address /\ y \in Address /\ x # y
      /\ e.conf \in 1..Certain /\ AnchorOf(rows, x) = A
  BY TreeEdge
<1>2. IsStrength(cf[y], t, A, y) /\ Linked(Inside(From(t, cf[y]), DOMAIN cf), A, y)
  BY DEF Walked
<1>3. A \in Address
  BY <1>1, AnchorFacts, SeenFacts
<1>4. cf[y] \in 1..Certain
  BY <1>2 DEF IsStrength
<1>5. c = IF cf[y] <= e.conf THEN cf[y] ELSE e.conf
  BY <1>1, <1>4, RowAssumption DEF Along, Min
<1>6. c \in 1..Certain /\ c <= cf[y] /\ c <= e.conf
  BY <1>1, <1>4, <1>5, RowAssumption
<1> HIDE DEF A
<1>7. Linked(Inside(From(t, c), X), A, x)
  <2> DEFINE I == Inside(From(t, c), X)
  <2>1. e \in I
    BY <1>6, RowAssumption DEF Inside, From, Pair
  <2>2. \A f \in t : f.conf \in 1..Certain
    BY TreeEdge
  <2>3. Inside(From(t, cf[y]), DOMAIN cf) \subseteq I
    BY <1>4, <1>6, <2>2, RowAssumption DEF Inside, From, Pair
  <2>4. Linked(I, A, y)
    BY <1>2, <2>3, LinkedMore
  <2>5. Linked(I, e.a, e.b) /\ Linked(I, e.b, e.a)
    BY <2>1, LinkedEdge
  <2>6. Linked(I, y, x)
    BY <1>1, <2>5
  <2> QED
    BY <2>4, <2>6, LinkedTransitive
<1>8. Linked(From(t, c), A, x)
  <2>1. Inside(From(t, c), X) \subseteq From(t, c)
    BY DEF Inside
  <2> QED
    BY <1>7, <2>1, LinkedMore
<1>9. ASSUME NEW k \in 1..Certain, k > c, Linked(From(t, k), A, x) PROVE FALSE
  <2>1. CASE e.conf >= k
    <3>1. k > cf[y]
      BY <1>1, <1>4, <1>5, <1>9, <2>1, RowAssumption
    <3>2. e \in From(t, k)
      BY <2>1 DEF From
    <3>3. Linked(From(t, k), e.a, e.b) /\ Linked(From(t, k), e.b, e.a)
      BY <3>2, LinkedEdge
    <3>4. Linked(From(t, k), x, y)
      BY <1>1, <3>3
    <3>5. Linked(From(t, k), A, y)
      BY <1>9, <3>4, LinkedTransitive
    <3> QED
      BY <1>2, <3>1, <3>5 DEF IsStrength
  <2>2. CASE ~(e.conf >= k)
    <3> DEFINE v == t \ {e}
    <3>1. From(t, k) \subseteq v
      BY <2>2 DEF From
    <3>2. Inside(From(t, cf[y]), DOMAIN cf) \subseteq v
      <4>1. ~(Pair(e) \subseteq DOMAIN cf)
        BY DEF Pair
      <4> QED
        BY <4>1 DEF Inside, From
    <3>3. Linked(v, A, x) /\ Linked(v, A, y)
      BY <1>2, <1>9, <3>1, <3>2, LinkedMore
    <3>4. Between(v)
      BY TreeBetween
    <3>5. Linked(v, x, A) /\ Linked(v, y, A)
      BY <1>1, <1>3, <3>3, <3>4, LinkedSymmetric
    <3>6. Linked(v, x, y) /\ Linked(v, y, x)
      BY <3>3, <3>5, LinkedTransitive
    <3>7. Linked(v, e.a, e.b)
      BY <1>1, <3>6
    <3> QED
      BY <3>7 DEF Spanning
  <2> QED
    BY <2>1, <2>2
<1>10. IsStrength(c, t, A, x)
  BY <1>6, <1>8, <1>9 DEF IsStrength
<1> QED
  BY <1>1, <1>7, <1>10

LEMMA WalkSteps ==
    ASSUME NEW rows, RowsOk(rows), NEW t, Spanning(rows, t), NEW cf, Walked(rows, t, cf),
           NEW cg, DOMAIN cf \subseteq DOMAIN cg, \A x \in DOMAIN cf : cg[x] = cf[x],
           \A x \in DOMAIN cg \ DOMAIN cf :
              \E e \in t, y \in DOMAIN cf : {e.a, e.b} = {x, y} /\ cg[x] = Along(cf[y], e)
    PROVE  Walked(rows, t, cg)
<1>1. ASSUME NEW x \in DOMAIN cg
      PROVE  /\ x \in Seen(rows)
             /\ IsStrength(cg[x], t, AnchorOf(rows, x), x)
             /\ Linked(Inside(From(t, cg[x]), DOMAIN cg), AnchorOf(rows, x), x)
  <2>1. CASE x \in DOMAIN cf
    <3>1. Inside(From(t, cf[x]), DOMAIN cf) \subseteq Inside(From(t, cf[x]), DOMAIN cg)
      BY DEF Inside
    <3>2. Linked(Inside(From(t, cf[x]), DOMAIN cf), AnchorOf(rows, x), x)
      BY <2>1 DEF Walked
    <3>3. Linked(Inside(From(t, cf[x]), DOMAIN cg), AnchorOf(rows, x), x)
      BY <3>1, <3>2, LinkedMore
    <3> QED
      BY <2>1, <3>3 DEF Walked
  <2>2. CASE x \notin DOMAIN cf
    <3>1. PICK e \in t, y \in DOMAIN cf : {e.a, e.b} = {x, y} /\ cg[x] = Along(cf[y], e)
      BY <2>2
    <3> QED
      BY <2>2, <3>1, WalkReaches
  <2> QED
    BY <2>1, <2>2
<1>2. {AnchorOf(rows, y) : y \in Seen(rows)} \subseteq DOMAIN cg
  BY DEF Walked
<1> QED
  BY <1>1, <1>2 DEF Walked

(* When no edge leads on, everyone has been reached, with the confidence   *)
(* of the result.                                                          *)
LEMMA WalkEnds ==
    ASSUME NEW rows, RowsOk(rows), NEW t, Spanning(rows, t), NEW cf, Walked(rows, t, cf), Closed(t, DOMAIN cf)
    PROVE  /\ DOMAIN cf = Seen(rows)
           /\ Result(rows) = [x \in Seen(rows) |-> [id |-> AnchorOf(rows, x), conf |-> cf[x]]]
<1>1. Seen(rows) \subseteq DOMAIN cf
  <2> SUFFICES ASSUME NEW x \in Seen(rows) PROVE x \in DOMAIN cf
    OBVIOUS
  <2>1. AnchorOf(rows, x) \in DOMAIN cf
    BY DEF Walked
  <2>2. Linked(Range(rows), AnchorOf(rows, x), x) /\ AnchorOf(rows, x) \in Address /\ x \in Address
    BY AnchorFacts, SeenFacts
  <2>3. Linked(t, AnchorOf(rows, x), x)
    BY <2>2 DEF Spanning
  <2>4. DOMAIN cf \subseteq Address
    BY SeenFacts DEF Walked
  <2> QED
    BY <2>1, <2>3, <2>4, LinkedIs
<1>2. DOMAIN cf = Seen(rows)
  BY <1>1 DEF Walked
<1>3. \A x \in Seen(rows) : Strength(t, AnchorOf(rows, x), x) = cf[x]
  BY <1>2, StrengthIs DEF Walked
<1>4. t = Tree(CombinedEdges(rows))
  BY DEF Spanning
<1> QED
  BY <1>2, <1>3, <1>4 DEF Result
-----------------------------------------------------------------------------
(* The rows of the table.                                                  *)

LEMMA RowsFromOk ==
    ASSUME NEW ev, ev \in Seq(EvidenceRow), NEW t
    PROVE  /\ RowsOk(RowsFrom(ev, t))
           /\ \A i \in DOMAIN RowsFrom(ev, t) : i \in DOMAIN ev /\ RowsFrom(ev, t)[i] = ev[i]
<1>1. Len(ev) \in Nat /\ DOMAIN ev = 1..Len(ev) /\ \A i \in DOMAIN ev : ev[i] \in EvidenceRow
  OBVIOUS
<1>2. DOMAIN RowsFrom(ev, t) = {i \in DOMAIN ev : ev[i].active /\ AtLeast(ev[i], t)}
  BY DEF RowsFrom, Restrict
<1>3. \A i \in DOMAIN RowsFrom(ev, t) : RowsFrom(ev, t)[i] = ev[i]
  BY DEF RowsFrom, Restrict
<1>4. DOMAIN RowsFrom(ev, t) \subseteq 1..Len(ev)
  BY <1>1, <1>2
<1>5. IsFiniteSet(DOMAIN RowsFrom(ev, t))
  <2>1. IsFiniteSet(1..Len(ev))
    BY <1>1, FS_Interval
  <2> QED
    BY <1>4, <2>1, FS_Subset
<1>6. RowsOk(RowsFrom(ev, t))
  BY <1>1, <1>2, <1>3, <1>4, <1>5 DEF RowsOk
<1> QED
  BY <1>1, <1>3, <1>4, <1>6

LEMMA RowsFacts == Rows = RowsFrom(evidence, min)
  BY DEF Rows, RowsFrom

(* For the full view every active row counts. *)
LEMMA FullRows ==
    ASSUME NEW ev, ev \in Seq(EvidenceRow)
    PROVE  DOMAIN RowsFrom(ev, 0) = {i \in DOMAIN ev : ev[i].active}
<1>1. \A i \in DOMAIN ev : ev[i] \in EvidenceRow
  OBVIOUS
<1>2. \A i \in DOMAIN ev : AtLeast(ev[i], 0)
  BY <1>1, RowFields, RowAssumption DEF AtLeast
<1> QED
  BY <1>2 DEF RowsFrom, Restrict

ActiveRow == {r \in EvidenceRow : r.active}

(* aw is ev with one more row, r at n ... *)
OneMore(ev, r, n, aw) ==
    /\ aw \in Seq(EvidenceRow)
    /\ n \in DOMAIN aw
    /\ DOMAIN RowsFrom(aw, 0) = DOMAIN RowsFrom(ev, 0) \cup {n}
    /\ RowsFrom(aw, 0)[n] = r
    /\ \A i \in DOMAIN RowsFrom(ev, 0) : i < n /\ i \in DOMAIN ev /\ RowsFrom(aw, 0)[i] = ev[i]
    /\ Restrict(RowsFrom(aw, 0), DOMAIN RowsFrom(aw, 0) \ {n}) = RowsFrom(ev, 0)

(* ... and iv is ev with one less, at n. *)
OneLess(ev, n, iv) ==
    /\ iv \in Seq(EvidenceRow)
    /\ n \in DOMAIN iv /\ n \notin DOMAIN RowsFrom(iv, 0)
    /\ With(RowsFrom(iv, 0), n, ev[n]) = RowsFrom(ev, 0)

Inactive(ev, n) == [ev EXCEPT ![n].active = FALSE]

LEMMA AppendRows ==
    ASSUME NEW ev, ev \in Seq(EvidenceRow), NEW r \in ActiveRow
    PROVE  OneMore(ev, r, Len(ev) + 1, Append(ev, r))
<1> DEFINE n == Len(ev) + 1
           aw == Append(ev, r)
<1>0. r \in EvidenceRow /\ r.active
  BY DEF ActiveRow
<1>1. Len(ev) \in Nat /\ DOMAIN ev = 1..Len(ev) /\ n \in Nat
  OBVIOUS
<1>2. aw \in Seq(EvidenceRow)
  BY <1>0
<1>3. DOMAIN aw = 1..n /\ aw[n] = r /\ \A i \in DOMAIN ev : aw[i] = ev[i]
  OBVIOUS
<1>13. n = Len(ev) + 1
  OBVIOUS
<1> HIDE DEF aw, n
<1>4. \A i : i \in 1..n <=> i \in 1..Len(ev) \/ i = n
  BY <1>1, <1>13
<1>5. ~(n \in 1..Len(ev)) /\ \A i \in 1..Len(ev) : i < n
  BY <1>1, <1>13
<1>6. DOMAIN RowsFrom(aw, 0) = {i \in DOMAIN aw : aw[i].active}
  BY <1>2, FullRows
<1>7. DOMAIN RowsFrom(ev, 0) = {i \in DOMAIN ev : ev[i].active}
  BY FullRows
<1>8. DOMAIN RowsFrom(aw, 0) = DOMAIN RowsFrom(ev, 0) \cup {n}
  BY <1>0, <1>1, <1>3, <1>4, <1>6, <1>7
<1>9. \A i \in DOMAIN RowsFrom(aw, 0) : RowsFrom(aw, 0)[i] = aw[i]
  BY <1>2, RowsFromOk
<1>10. \A i \in DOMAIN RowsFrom(ev, 0) : i \in DOMAIN ev /\ i < n /\ RowsFrom(aw, 0)[i] = ev[i] /\ RowsFrom(ev, 0)[i] = ev[i]
  <2>1. \A i \in DOMAIN RowsFrom(ev, 0) : i \in DOMAIN ev /\ RowsFrom(ev, 0)[i] = ev[i]
    BY RowsFromOk
  <2> QED
    BY <1>1, <1>3, <1>5, <1>8, <1>9, <2>1
<1>11. DOMAIN RowsFrom(aw, 0) \ {n} = DOMAIN RowsFrom(ev, 0)
  BY <1>1, <1>5, <1>7, <1>8
<1>12. Restrict(RowsFrom(aw, 0), DOMAIN RowsFrom(aw, 0) \ {n}) = RowsFrom(ev, 0)
  <2>1. Restrict(RowsFrom(aw, 0), DOMAIN RowsFrom(ev, 0)) = [i \in DOMAIN RowsFrom(ev, 0) |-> RowsFrom(ev, 0)[i]]
    BY <1>10 DEF Restrict
  <2>2. RowsFrom(ev, 0) = [i \in DOMAIN RowsFrom(ev, 0) |-> RowsFrom(ev, 0)[i]]
    BY DEF RowsFrom, Restrict
  <2> QED
    BY <1>11, <2>1, <2>2
<1> QED
  <2>1. OneMore(ev, r, n, aw)
    <3>1. n \in DOMAIN aw /\ RowsFrom(aw, 0)[n] = r
      BY <1>1, <1>3, <1>4, <1>8, <1>9
    <3>2. \A i \in DOMAIN RowsFrom(ev, 0) : i < n /\ i \in DOMAIN ev /\ RowsFrom(aw, 0)[i] = ev[i]
      BY <1>10
    <3> QED
      BY <1>2, <1>8, <1>12, <3>1, <3>2 DEF OneMore
  <2> QED
    BY <2>1 DEF n, aw

LEMMA InvalidateRows ==
    ASSUME NEW ev, ev \in Seq(EvidenceRow), NEW n \in DOMAIN ev, ev[n] \in ActiveRow
    PROVE  OneLess(ev, n, Inactive(ev, n))
<1>0. PICK iv : iv = Inactive(ev, n)
  OBVIOUS
<1>1. Len(ev) \in Nat /\ DOMAIN ev = 1..Len(ev) /\ ev[n] \in EvidenceRow /\ ev[n].active
  BY DEF ActiveRow
<1>2. PICK r : r = [ev[n] EXCEPT !.active = FALSE]
  OBVIOUS
<1>3. r \in EvidenceRow /\ r.active = FALSE
  BY <1>1, <1>2 DEF EvidenceRow
<1>4. iv = [ev EXCEPT ![n] = r]
  BY <1>0, <1>2 DEF Inactive
<1>5. iv \in Seq(EvidenceRow)
  <2>1. iv \in [1..Len(ev) -> EvidenceRow]
    <3>1. ev \in [1..Len(ev) -> EvidenceRow]
      BY <1>1
    <3> QED
      BY <1>3, <1>4, <3>1
  <2> QED
    BY <1>1, <2>1
<1>6. DOMAIN iv = DOMAIN ev /\ iv[n] = r /\ \A i \in DOMAIN ev : i # n => iv[i] = ev[i]
  BY <1>1, <1>4
<1>7. DOMAIN RowsFrom(iv, 0) = {i \in DOMAIN iv : iv[i].active}
  BY <1>5, FullRows
<1>8. DOMAIN RowsFrom(ev, 0) = {i \in DOMAIN ev : ev[i].active}
  BY FullRows
<1>9. DOMAIN RowsFrom(ev, 0) = DOMAIN RowsFrom(iv, 0) \cup {n} /\ n \notin DOMAIN RowsFrom(iv, 0)
  BY <1>1, <1>3, <1>6, <1>7, <1>8
<1>10. \A i \in DOMAIN RowsFrom(ev, 0) : RowsFrom(ev, 0)[i] = IF i = n THEN ev[n] ELSE RowsFrom(iv, 0)[i]
  <2>1. \A i \in DOMAIN RowsFrom(ev, 0) : i \in DOMAIN ev /\ RowsFrom(ev, 0)[i] = ev[i]
    BY RowsFromOk
  <2>2. \A i \in DOMAIN RowsFrom(iv, 0) : i \in DOMAIN iv /\ RowsFrom(iv, 0)[i] = iv[i]
    BY <1>5, RowsFromOk
  <2> QED
    BY <1>6, <1>9, <2>1, <2>2
<1>11. RowsFrom(ev, 0) = [i \in DOMAIN RowsFrom(ev, 0) |-> RowsFrom(ev, 0)[i]]
  BY DEF RowsFrom, Restrict
<1>12. With(RowsFrom(iv, 0), n, ev[n]) = RowsFrom(ev, 0)
  BY <1>9, <1>10, <1>11 DEF With
<1> QED
  BY <1>0, <1>5, <1>6, <1>9, <1>12 DEF OneLess
-----------------------------------------------------------------------------
(* The invariant holds at first and is kept by every step.                 *)

LEMMA RowsTyped ==
    ASSUME TypeOK
    PROVE  RowsOk(Rows)
  BY RowsFacts, RowsFromOk DEF TypeOK

LEMMA ReplayInit ==
    ASSUME Init
    PROVE  ReplayInv
<1> USE DEF Init
<1>1. TypeOK
  BY DEF TypeOK
<1>2. PhaseInv
  BY DEF PhaseInv, Idling
<1>3. Seen(RowsFrom(evidence, 0)) = {}
  BY DEF Seen, RowsFrom, Restrict
<1>4. ViewInv
  <2>1. view = Materialised(Result(RowsFrom(evidence, 0)))
    BY <1>3 DEF Result, Materialised
  <2>2. PICK rows : rows = RowsFrom(evidence, 0)
    OBVIOUS
  <2>3. DOMAIN rows = {}
    BY <2>2 DEF RowsFrom, Restrict
  <2>4. DOMAIN CombinedEdges(rows) = {} /\ Range(rows) = {}
    BY <2>3 DEF CombinedEdges, Range
  <2>5. Tree(CombinedEdges(rows)) = {}
    BY <2>4 DEF Tree, Merging
  <2>6. Spanning(rows, Tree(CombinedEdges(rows)))
    BY <2>4, <2>5 DEF Spanning
  <2> QED
    BY <2>1, <2>2, <2>6 DEF ViewInv, IsView
<1>5. AnswerInv
  BY DEF AnswerInv
<1>6. HistoryInv
  BY DEF HistoryInv
<1> QED
  BY <1>1, <1>2, <1>4, <1>5, <1>6 DEF ReplayInv

(* What a change of the table leaves to be shown: its history. *)
LEMMA ChangedKeeps ==
    ASSUME ReplayInv, NEW how, Changed(how), evidence' \in Seq(EvidenceRow), HistoryInv'
    PROVE  ReplayInv'
<1> USE DEF ReplayInv, Changed
<1>1. TypeOK'
  BY DEF TypeOK
<1>2. PhaseInv'
  BY DEF PhaseInv, Idling
<1>3. ViewInv'
  BY DEF ViewInv
<1>4. AnswerInv'
  BY DEF AnswerInv
<1> QED
  BY <1>1, <1>2, <1>3, <1>4

LEMMA AppendRowKeeps ==
    ASSUME ReplayInv, AppendRow
    PROVE  ReplayInv'
<1>1. PICK r \in Row : evidence' = Append(evidence, [a |-> r.a, b |-> r.b,
          source |-> r.source, conf |-> r.conf, active |-> TRUE])
  BY DEF AppendRow
<1>2. PICK s : s = [a |-> r.a, b |-> r.b, source |-> r.source, conf |-> r.conf, active |-> TRUE]
  OBVIOUS
<1>3. s \in EvidenceRow /\ s.active
  BY <1>2, RowAssumption DEF EvidenceRow
<1>4. evidence' \in Seq(EvidenceRow)
  BY <1>1, <1>2, <1>3 DEF ReplayInv, TypeOK
<1>5. Changed([kind |-> "append"])
  BY DEF AppendRow
<1>6. HistoryInv'
  BY <1>5 DEF HistoryInv, Changed
<1> QED
  BY <1>4, <1>5, <1>6, ChangedKeeps

LEMMA AppendAgainKeeps ==
    ASSUME ReplayInv, AppendAgain
    PROVE  ReplayInv'
<1>1. PICK i \in DOMAIN evidence :
          /\ evidence[i].active
          /\ \/ evidence' = Append(evidence, evidence[i])
             \/ evidence' = Append(evidence, [evidence[i] EXCEPT !.a = evidence[i].b,
                                                                 !.b = evidence[i].a])
          /\ Changed([kind |-> "again", row |-> evidence[i]])
  BY DEF AppendAgain
<1>2. evidence \in Seq(EvidenceRow) /\ evidence[i] \in EvidenceRow
  BY DEF ReplayInv, TypeOK
<1>3. PICK r : /\ evidence' = Append(evidence, r)
               /\ r \in {evidence[i], [evidence[i] EXCEPT !.a = evidence[i].b, !.b = evidence[i].a]}
  BY <1>1
<1>4. r \in EvidenceRow /\ r.active /\ r.source = evidence[i].source /\ r.conf = evidence[i].conf /\ Pair(r) = Pair(evidence[i])
  <2>1. CASE r = evidence[i]
    BY <1>1, <1>2, <2>1
  <2>2. CASE r = [evidence[i] EXCEPT !.a = evidence[i].b, !.b = evidence[i].a]
    BY <1>1, <1>2, <2>2 DEF EvidenceRow, Pair
  <2> QED
    BY <1>3, <2>1, <2>2
<1>5. PICK n : n = Len(evidence) + 1
  OBVIOUS
<1> DEFINE old == RowsFrom(evidence, 0)
           new == RowsFrom(evidence', 0)
<1>6. /\ evidence' \in Seq(EvidenceRow)
      /\ n \in DOMAIN evidence'
      /\ DOMAIN new = DOMAIN old \cup {n}
      /\ new[n] = r
      /\ \A j \in DOMAIN old : j < n /\ j \in DOMAIN evidence /\ new[j] = evidence[j]
      /\ Restrict(new, DOMAIN new \ {n}) = old
  <2>1. r \in ActiveRow
    BY <1>4 DEF ActiveRow
  <2>2. OneMore(evidence, r, Len(evidence) + 1, Append(evidence, r))
    BY <1>2, <2>1, AppendRows
  <2>3. OneMore(evidence, r, n, evidence')
    BY <1>3, <1>5, <2>2
  <2> QED
    BY <2>3 DEF OneMore
<1>7. i \in DOMAIN old
  <2>1. DOMAIN old = {j \in DOMAIN evidence : evidence[j].active}
    BY <1>2, FullRows
  <2> QED
    BY <1>1, <2>1
<1>8. n \in Nat /\ DOMAIN old \subseteq Nat
  BY <1>2, <1>5, RowsFromOk DEF RowsOk
<1>9. RepeatedAt(n, new)
  <2>1. \A j \in DOMAIN new : j <= n
    BY <1>6, <1>8
  <2>2. i \in DOMAIN new \ {n} /\ new[i] = evidence[i]
    BY <1>6, <1>7, <1>8
  <2> HIDE DEF new
  <2> QED
    BY <1>4, <1>6, <2>1, <2>2 DEF RepeatedAt
<1>10. change' = [kind |-> "again", row |-> evidence[i]] /\ before' = view /\ pc = "idle"
  BY <1>1 DEF Changed
<1>11. view = Materialised(Result(old))
  BY <1>10 DEF ReplayInv, ViewInv, IsView
<1>12. HistoryInv'
  <2>1. change'.kind = "again" /\ change'.row.source = new[n].source
    BY <1>4, <1>6, <1>10
  <2>2. before' = Materialised(Result(Restrict(new, DOMAIN new \ {n})))
    BY <1>6, <1>10, <1>11
  <2> QED
    BY <1>6, <1>9, <2>1, <2>2 DEF HistoryInv
<1> QED
  BY <1>1, <1>6, <1>12, ChangedKeeps

LEMMA InvalidateKeeps ==
    ASSUME ReplayInv, Invalidate
    PROVE  ReplayInv'
<1>1. PICK n \in DOMAIN evidence :
          /\ evidence[n].active
          /\ evidence' = [evidence EXCEPT ![n].active = FALSE]
          /\ Changed([kind |-> "invalidate", row |-> evidence[n]])
  BY DEF Invalidate, Invalidated
<1>2. evidence \in Seq(EvidenceRow) /\ evidence[n] \in EvidenceRow
  BY DEF ReplayInv, TypeOK
<1> DEFINE old == RowsFrom(evidence, 0)
           new == RowsFrom(evidence', 0)
<1>3. /\ evidence' \in Seq(EvidenceRow)
      /\ n \in DOMAIN evidence' /\ n \notin DOMAIN new
      /\ With(new, n, evidence[n]) = old
  <2>1. evidence[n] \in ActiveRow
    BY <1>1, <1>2 DEF ActiveRow
  <2>2. OneLess(evidence, n, Inactive(evidence, n))
    BY <1>2, <2>1, InvalidateRows
  <2>3. evidence' = Inactive(evidence, n)
    BY <1>1 DEF Inactive
  <2>4. OneLess(evidence, n, evidence')
    BY <2>2, <2>3
  <2> QED
    BY <2>4 DEF OneLess
<1>4. change' = [kind |-> "invalidate", row |-> evidence[n]] /\ before' = view /\ pc = "idle"
  BY <1>1 DEF Changed
<1>5. view = Materialised(Result(old))
  BY <1>4 DEF ReplayInv, ViewInv, IsView
<1>6. HistoryInv'
  <2>1. change'.kind = "invalidate" /\ change'.row = evidence[n]
    BY <1>4
  <2>2. before' = Materialised(Result(With(new, n, change'.row)))
    BY <1>3, <1>4, <1>5, <2>1
  <2> QED
    BY <1>2, <1>3, <2>1, <2>2 DEF HistoryInv
<1> QED
  BY <1>1, <1>3, <1>6, ChangedKeeps

LEMMA QueryKeeps ==
    ASSUME ReplayInv, Query
    PROVE  ReplayInv'
<1> USE DEF ReplayInv, Query, tables
<1>1. min' # 0
  BY RowAssumption
<1>2. TypeOK'
  BY DEF TypeOK
<1>3. PhaseInv'
  BY DEF PhaseInv, Idling
<1>4. ViewInv'
  BY DEF ViewInv
<1>5. AnswerInv'
  BY <1>1 DEF AnswerInv
<1>6. HistoryInv'
  BY DEF HistoryInv
<1> QED
  BY <1>2, <1>3, <1>4, <1>5, <1>6

(* A step of the replay keeps all but its phase. *)
LEMMA PhaseKeeps ==
    ASSUME ReplayInv, UNCHANGED <<tables, min, answer>>, pc \in {"collect", "union", "walk"},
           pc' \in {"union", "walk"}, PhaseInv'
    PROVE  ReplayInv'
<1> USE DEF ReplayInv, tables
<1>1. TypeOK'
  BY DEF TypeOK
<1>2. ViewInv'
  BY DEF ViewInv
<1>3. AnswerInv'
  BY DEF AnswerInv
<1>4. HistoryInv'
  BY DEF HistoryInv
<1> QED
  BY <1>1, <1>2, <1>3, <1>4

LEMMA NothingUnited ==
    ASSUME NEW E
    PROVE  United(E, {}, {}, New)
<1>1. {E[n] : n \in {}} = {} /\ Merging(E, {}) = {}
  BY DEF Merging
<1>2. \A x, y \in Address : Linked({}, x, y) <=> x = y
  <2> SUFFICES ASSUME NEW x \in Address, NEW y \in Address, Linked({}, x, y) PROVE x = y
    BY LinkedSame
  <2>1. {x} \subseteq Address /\ x \in {x} /\ Closed({}, {x})
    BY DEF Closed
  <2> QED
    BY <2>1, LinkedIs
<1>3. PICK R : R = [x \in Address |-> x]
  OBVIOUS
<1>4. Roots(New, R) /\ Forest(New)
  BY <1>3, NewFacts
<1>5. \A x, y \in Address : R[x] = R[y] <=> x = y
  BY <1>3
<1> QED
  <2>1. \A x, y \in Address : R[x] = R[y] <=> Linked({}, x, y)
    BY <1>2, <1>5, Zenon
  <2> QED
    BY <1>1, <1>4, <2>1 DEF United

LEMMA CollectKeeps ==
    ASSUME ReplayInv, Collect
    PROVE  ReplayInv'
<1> DEFINE E == CombinedEdges(Rows)
<1>1. Idling
  BY DEF ReplayInv, PhaseInv, Collect
<1>2. /\ edges' = E /\ pc' = "union" /\ pc = "collect"
      /\ dsu' = New /\ tree' = {} /\ conf' = <<>>
      /\ UNCHANGED <<tables, min, answer>>
  BY <1>1 DEF Collect, Idling
<1>3. Rows' = Rows
  BY <1>2 DEF Rows, tables
<1>4. E = Restrict(E, DOMAIN E \ {})
  BY DEF CombinedEdges, Restrict
<1>5. United(E, {}, {}, New)
  BY NothingUnited
<1>6. Uniting'
  <2>1. {} \subseteq DOMAIN E /\ edges' = Restrict(E, DOMAIN E \ {}) /\ (\A n \in {}, m \in DOMAIN edges' : n < m)
        /\ United(E, {}, tree', dsu')
    BY <1>2, <1>4, <1>5
  <2>2. CombinedEdges(Rows)' = E
    BY <1>3
  <2> HIDE DEF E
  <2> QED
    BY <2>1, <2>2 DEF Uniting
<1>7. PhaseInv'
  BY <1>2, <1>6 DEF PhaseInv
<1> QED
  BY <1>2, <1>7, PhaseKeeps
LEMMA UnionKeeps ==
    ASSUME ReplayInv, Union
    PROVE  ReplayInv'
<1> DEFINE E == CombinedEdges(Rows)
<1>1. RowsOk(Rows)
  BY RowsTyped DEF ReplayInv
<1>2. PICK D : /\ D \subseteq DOMAIN E
               /\ edges = Restrict(E, DOMAIN E \ D)
               /\ \A k \in D, m \in DOMAIN edges : k < m
               /\ United(E, D, tree, dsu)
  BY DEF ReplayInv, PhaseInv, Uniting, Union
<1>3. conf = <<>> /\ pc = "union"
  BY DEF ReplayInv, PhaseInv, Union
<1>4. \A k \in DOMAIN E : k \in Nat /\ E[k].a \in Address /\ E[k].b \in Address
  BY <1>1, EdgeFacts
<1>5. Rows' = Rows /\ CombinedEdges(Rows)' = E
  BY DEF Rows, Union, tables
<1> HIDE DEF E
<1>6. DOMAIN edges = DOMAIN E \ D /\ \A k \in DOMAIN edges : edges[k] = E[k]
  BY <1>2 DEF Restrict
<1>7. PICK n : n = Min(DOMAIN edges)
  OBVIOUS
<1>8. n \in DOMAIN edges /\ \A m \in DOMAIN edges : n <= m
  <2>1. DOMAIN edges # {} /\ DOMAIN edges \subseteq Nat
    BY <1>4, <1>6 DEF Union
  <2> QED
    BY <1>7, <2>1, MinFacts
<1>9. {k \in DOMAIN E : k < n} = D
  BY <1>2, <1>4, <1>6, <1>8
<1>10. Upto(E, n) = {E[k] : k \in D}
  BY <1>9 DEF Upto
<1>11. PICK e : e = E[n]
  OBVIOUS
<1>12. e = edges[n] /\ e.a \in Address /\ e.b \in Address /\ Between({E[k] : k \in D})
  BY <1>2, <1>4, <1>6, <1>8, <1>11 DEF Between
<1> DEFINE found == Compress(Compress(dsu, e.a), e.b)
           ra == Find(dsu, e.a)
           rb == Find(dsu, e.b)
<1>13. IF ra = rb THEN United(E, D \cup {n}, tree, found)
       ELSE United(E, D \cup {n}, tree \cup {e}, Link(found, ra, rb))
  BY <1>2, <1>10, <1>11, <1>12, UniteStep
<1>14. IF ra = rb THEN dsu' = found /\ tree' = tree ELSE dsu' = Link(found, ra, rb) /\ tree' = tree \cup {e}
  BY <1>7, <1>12 DEF Union
<1>15. United(E, D \cup {n}, tree', dsu')
  <2> HIDE DEF found, ra, rb
  <2> QED
    BY <1>13, <1>14
<1>16. edges' = Restrict(edges, DOMAIN edges \ {n})
  BY <1>7 DEF Union
<1>17. edges' = Restrict(E, DOMAIN E \ (D \cup {n}))
  <2>1. DOMAIN edges \ {n} = DOMAIN E \ (D \cup {n})
    BY <1>6
  <2> QED
    BY <1>6, <1>16, <2>1 DEF Restrict
<1>18. \A k \in D \cup {n}, m \in DOMAIN edges' : k < m
  <2>1. DOMAIN edges' = DOMAIN edges \ {n}
    BY <1>16 DEF Restrict
  <2>2. \A m \in DOMAIN edges : m \in Nat
    BY <1>4, <1>6
  <2> QED
    BY <1>2, <1>8, <2>1, <2>2
<1>19. Uniting'
  <2>1. D \cup {n} \subseteq DOMAIN E
    BY <1>2, <1>6, <1>8
  <2> QED
    BY <1>5, <1>15, <1>17, <1>18, <2>1 DEF Uniting
<1>20. PhaseInv'
  BY <1>3, <1>19 DEF PhaseInv, Union
<1>21. UNCHANGED <<tables, min, answer>> /\ pc' = "union"
  BY <1>3 DEF Union
<1> QED
  BY <1>3, <1>20, <1>21, PhaseKeeps

(* The anchor the code finds is the one of the result. *)
LEMMA AnchorIs ==
    ASSUME RowsOk(Rows), United(CombinedEdges(Rows), DOMAIN CombinedEdges(Rows), tree, dsu), NEW x \in Seen(Rows)
    PROVE  Anchor(x) = AnchorOf(Rows, x)
<1>1. Seen(Rows) \subseteq Address
  BY SeenFacts
<1>2. \A u, v \in Address : Find(dsu, u) = Find(dsu, v) <=> Linked(Range(Rows), u, v)
  BY UnitedSpans
<1>3. ASSUME NEW y \in Seen(Rows) PROVE Find(dsu, y) = Find(dsu, x) <=> Linked(Range(Rows), x, y)
  <2>1. x \in Address /\ y \in Address
    BY <1>1
  <2>2. Find(dsu, x) = Find(dsu, y) <=> Linked(Range(Rows), x, y)
    BY <1>2, <2>1, Zenon
  <2> QED
    BY <2>2, Zenon
<1>4. Members(x) = Cluster(Rows, x)
  BY <1>3 DEF Members, Cluster
<1> QED
  BY <1>4 DEF Anchor, AnchorOf

LEMMA StartWalkKeeps ==
    ASSUME ReplayInv, StartWalk
    PROVE  ReplayInv'
<1> DEFINE E == CombinedEdges(Rows)
<1>1. RowsOk(Rows)
  BY RowsTyped DEF ReplayInv
<1>2. PICK D : /\ D \subseteq DOMAIN E
               /\ edges = Restrict(E, DOMAIN E \ D)
               /\ United(E, D, tree, dsu)
  BY DEF ReplayInv, PhaseInv, Uniting, StartWalk
<1>3. /\ pc = "union" /\ pc' = "walk" /\ DOMAIN edges = {}
      /\ conf' = [x \in {Anchor(y) : y \in Seen(Rows)} |-> Certain]
      /\ UNCHANGED <<tables, min, answer>> /\ UNCHANGED <<edges, dsu, tree>>
  BY DEF StartWalk
<1>4. Rows' = Rows /\ CombinedEdges(Rows)' = E
  BY <1>3 DEF Rows, tables
<1>5. D = DOMAIN E
  BY <1>2, <1>3 DEF Restrict
<1>6. United(E, DOMAIN E, tree, dsu)
  BY <1>2, <1>5
<1>7. Spanning(Rows, tree)
  BY <1>1, <1>6, UnitedSpans
<1>8. {Anchor(y) : y \in Seen(Rows)} = {AnchorOf(Rows, y) : y \in Seen(Rows)}
  BY <1>1, <1>6, AnchorIs
<1>9. conf' = [x \in {AnchorOf(Rows, y) : y \in Seen(Rows)} |-> Certain]
  BY <1>3, <1>8
<1>10. Walked(Rows, tree, conf')
  BY <1>1, <1>7, <1>9, WalkStarts
<1> HIDE DEF E
<1>11. Walking'
  BY <1>3, <1>4, <1>6, <1>10 DEF Walking
<1>12. PhaseInv'
  BY <1>3, <1>11 DEF PhaseInv
<1> QED
  BY <1>3, <1>12, PhaseKeeps

(* The edges that lead on have exactly one end reached. *)
LEMMA FrontierIs ==
    ASSUME RowsOk(Rows), Spanning(Rows, tree), NEW e \in tree
    PROVE  e \in Frontier <=> ~(e.a \in DOMAIN conf <=> e.b \in DOMAIN conf)
<1> DEFINE P == Pair(e) \cap DOMAIN conf
<1>1. e.a # e.b
  BY TreeEdge
<1>2. e \in Frontier <=> Cardinality(P) = 1
  BY DEF Frontier
<1>3. CASE e.a \in DOMAIN conf /\ e.b \in DOMAIN conf
  <2>1. P = {e.a, e.b}
    BY <1>3 DEF Pair
  <2>2. Cardinality(P) = 2
    <3>1. IsFiniteSet({e.a}) /\ Cardinality({e.a}) = 1 /\ P = {e.a} \cup {e.b} /\ e.b \notin {e.a}
      BY <1>1, <2>1, FS_Singleton
    <3>2. Cardinality({e.a} \cup {e.b}) = 1 + 1
      BY <3>1, FS_AddElement
    <3> QED
      BY <3>1, <3>2
  <2> QED
    BY <1>2, <1>3, <2>2
<1>4. CASE e.a \notin DOMAIN conf /\ e.b \notin DOMAIN conf
  <2>1. P = {}
    BY <1>4 DEF Pair
  <2>2. Cardinality(P) = 0
    BY <2>1, FS_EmptySet
  <2> QED
    BY <1>2, <1>4, <2>2
<1>5. CASE ~(e.a \in DOMAIN conf <=> e.b \in DOMAIN conf)
  <2>1. \E x : P = {x}
    BY <1>5 DEF Pair
  <2>2. Cardinality(P) = 1
    BY <2>1, FS_Singleton
  <2> QED
    BY <1>2, <1>5, <2>2
<1> QED
  BY <1>3, <1>4, <1>5

LEMMA WalkKeeps ==
    ASSUME ReplayInv, Walk
    PROVE  ReplayInv'
<1>1. RowsOk(Rows)
  BY RowsTyped DEF ReplayInv
<1>2. Walking
  BY DEF ReplayInv, PhaseInv, Walk
<1>3. /\ pc = "walk" /\ pc' = "walk"
      /\ UNCHANGED <<tables, min, answer>> /\ UNCHANGED <<edges, dsu, tree>>
      /\ conf' = [x \in DOMAIN conf \cup UNION {Pair(e) : e \in Frontier} |->
          IF x \in DOMAIN conf THEN conf[x]
          ELSE LET e == CHOOSE f \in Frontier : x \in Pair(f)
               IN  Along(conf[CHOOSE y \in Pair(e) : y # x], e)]
  BY DEF Walk
<1>4. Rows' = Rows
  BY <1>3 DEF Rows, tables
<1>5. Spanning(Rows, tree) /\ Walked(Rows, tree, conf)
  BY <1>1, <1>2, UnitedSpans DEF Walking
<1>6. DOMAIN conf \subseteq DOMAIN conf' /\ \A x \in DOMAIN conf : conf'[x] = conf[x]
  BY <1>3
<1>7. ASSUME NEW x \in DOMAIN conf' \ DOMAIN conf
      PROVE  \E e \in tree, y \in DOMAIN conf : {e.a, e.b} = {x, y} /\ conf'[x] = Along(conf[y], e)
  <2>1. \E f \in Frontier : x \in Pair(f)
    BY <1>3
  <2>2. PICK e : e = CHOOSE f \in Frontier : x \in Pair(f)
    OBVIOUS
  <2>3. e \in Frontier /\ x \in Pair(e)
    BY <2>1, <2>2
  <2>4. PICK y : y = CHOOSE z \in Pair(e) : z # x
    OBVIOUS
  <2>5. e \in tree
    BY <2>3 DEF Frontier
  <2>6. e.a # e.b
    BY <1>1, <1>5, <2>5, TreeEdge
  <2>7. y \in Pair(e) /\ y # x
    BY <2>3, <2>4, <2>6 DEF Pair
  <2>8. {e.a, e.b} = {x, y}
    BY <2>3, <2>7 DEF Pair
  <2>9. ~(e.a \in DOMAIN conf <=> e.b \in DOMAIN conf)
    BY <1>1, <1>5, <2>3, <2>5, FrontierIs
  <2>10. y \in DOMAIN conf
    BY <1>7, <2>8, <2>9
  <2>11. conf'[x] = Along(conf[y], e)
    BY <1>3, <1>7, <2>2, <2>4
  <2> QED
    BY <2>5, <2>8, <2>10, <2>11
<1>8. Walked(Rows, tree, conf')
  BY <1>1, <1>5, <1>6, <1>7, WalkSteps
<1>9. Walking'
  BY <1>2, <1>3, <1>4, <1>8 DEF Walking
<1>10. PhaseInv'
  BY <1>3, <1>9 DEF PhaseInv
<1> QED
  BY <1>3, <1>10, PhaseKeeps

LEMMA FinishKeeps ==
    ASSUME ReplayInv, Finish
    PROVE  ReplayInv'
<1>1. RowsOk(Rows)
  BY RowsTyped DEF ReplayInv
<1>2. Walking /\ pc = "walk" /\ pc' = "idle"
  BY DEF ReplayInv, PhaseInv, Finish, Idle
<1>3. Spanning(Rows, tree) /\ Walked(Rows, tree, conf)
  BY <1>1, <1>2, UnitedSpans DEF Walking
<1>4. Closed(tree, DOMAIN conf)
  <2> SUFFICES ASSUME NEW e \in tree PROVE e.a \in DOMAIN conf <=> e.b \in DOMAIN conf
    BY DEF Closed
  <2>1. e \notin Frontier
    BY DEF Finish
  <2> QED
    BY <1>1, <1>3, <2>1, FrontierIs
<1>5. Result(Rows) = [x \in Seen(Rows) |-> [id |-> AnchorOf(Rows, x), conf |-> conf[x]]]
  BY <1>1, <1>3, <1>4, WalkEnds
<1>6. \A x \in Seen(Rows) : Anchor(x) = AnchorOf(Rows, x)
  BY <1>1, <1>2, AnchorIs DEF Walking
<1>7. IF min = 0 THEN IsView(view', Rows) /\ answer' = answer ELSE IsResult(answer', Rows) /\ view' = view
  <2>1. Spanning(Rows, Tree(CombinedEdges(Rows)))
    BY <1>3 DEF Spanning
  <2>2. IF min = 0 THEN view' = Materialised(Result(Rows)) /\ answer' = answer
        ELSE answer' = Result(Rows) /\ view' = view
    BY <1>5, <1>6 DEF Finish
  <2> QED
    BY <2>1, <2>2 DEF IsResult, IsView
<1>8. Rows = RowsFrom(evidence, min)
  BY RowsFacts
<1>9. evidence' = evidence /\ change' = change /\ before' = before /\ min' = min
  BY DEF Finish
<1>10. TypeOK'
  BY <1>2, <1>9 DEF TypeOK, ReplayInv
<1>11. PhaseInv'
  BY <1>2 DEF PhaseInv, Idling, Finish, Idle
<1>12. ViewInv'
  BY <1>7, <1>8, <1>9 DEF ViewInv, ReplayInv
<1>13. AnswerInv'
  BY <1>7, <1>8, <1>9 DEF AnswerInv, ReplayInv
<1>14. HistoryInv'
  BY <1>9 DEF HistoryInv, ReplayInv
<1> QED
  BY <1>10, <1>11, <1>12, <1>13, <1>14 DEF ReplayInv

(* The invariant of the replay holds. *)
LEMMA ReplayInvariant == Spec => []ReplayInv
<1>1. Init => ReplayInv
  BY ReplayInit
<1>2. ASSUME ReplayInv, [Next]_vars PROVE ReplayInv'
  <2>1. CASE UNCHANGED vars
    <3> USE <2>1 DEF vars
    <3>1. Rows' = Rows
      BY DEF Rows
    <3>2. TypeOK' /\ ViewInv' /\ AnswerInv' /\ HistoryInv'
      BY <1>2 DEF ReplayInv, TypeOK, ViewInv, AnswerInv, HistoryInv
    <3>3. Idling' = Idling
      BY DEF Idling
    <3>4. Uniting' = Uniting
      BY <3>1 DEF Uniting
    <3>5. Walking' = Walking
      BY <3>1 DEF Walking
    <3>6. PhaseInv'
      BY <1>2, <3>3, <3>4, <3>5 DEF ReplayInv, PhaseInv
    <3> QED
      BY <3>2, <3>6 DEF ReplayInv
  <2>2. CASE AppendRow
    BY <1>2, <2>2, AppendRowKeeps
  <2>3. CASE AppendAgain
    BY <1>2, <2>3, AppendAgainKeeps
  <2>4. CASE Invalidate
    BY <1>2, <2>4, InvalidateKeeps
  <2>5. CASE Query
    BY <1>2, <2>5, QueryKeeps
  <2>6. CASE Collect
    BY <1>2, <2>6, CollectKeeps
  <2>7. CASE Union
    BY <1>2, <2>7, UnionKeeps
  <2>8. CASE StartWalk
    BY <1>2, <2>8, StartWalkKeeps
  <2>9. CASE Walk
    BY <1>2, <2>9, WalkKeeps
  <2>10. CASE Finish
    BY <1>2, <2>10, FinishKeeps
  <2> QED
    BY <1>2, <2>1, <2>2, <2>3, <2>4, <2>5, <2>6, <2>7, <2>8, <2>9, <2>10 DEF Next
<1> QED
  BY <1>1, <1>2, PTL DEF Spec
-----------------------------------------------------------------------------
(* What a result says.                                                     *)

LEMMA StrengthExists ==
    ASSUME NEW rows, RowsOk(rows), NEW t, Spanning(rows, t), NEW x \in Seen(rows)
    PROVE  IsStrength(Strength(t, AnchorOf(rows, x), x), t, AnchorOf(rows, x), x)
<1> DEFINE A == AnchorOf(rows, x)
           C == {c \in 1..Certain : Linked(From(t, c), A, x)}
<1>1. A \in Address /\ x \in Address /\ Linked(Range(rows), A, x)
  BY AnchorFacts, SeenFacts
<1>2. Linked(t, A, x)
  BY <1>1 DEF Spanning
<1>3. From(t, 1) = t
  BY TreeEdge DEF From
<1>4. Certain \in Nat /\ 1 \in 1..Certain
  <2>1. PICK i \in DOMAIN rows : TRUE
    BY SeenFacts
  <2>2. rows[i].conf \in 1..Certain
    BY RowFields DEF RowsOk
  <2> QED
    BY <2>2, RowAssumption
<1>5. 1 \in C /\ C \subseteq 0..Certain
  BY <1>2, <1>3, <1>4
<1>6. PICK c \in C : \A k \in C : k <= c
  <2> HIDE DEF C
  <2> QED
    BY <1>4, <1>5, GreatestBelow
<1>7. IsStrength(c, t, A, x)
  <2>1. ASSUME NEW k \in 1..Certain, k > c, Linked(From(t, k), A, x) PROVE FALSE
    <3>1. k \in C
      BY <2>1
    <3>2. k <= c /\ k \in Int /\ c \in Int
      BY <1>4, <1>5, <1>6, <3>1
    <3> QED
      BY <2>1, <3>2
  <2> QED
    BY <1>6, <2>1 DEF IsStrength
<1> QED
  BY <1>7, StrengthIs

LEMMA ResultFacts ==
    ASSUME NEW rows, RowsOk(rows), NEW v, IsResult(v, rows)
    PROVE  /\ DOMAIN v = Seen(rows)
           /\ \A x \in Seen(rows) :
                /\ v[x].id = AnchorOf(rows, x)
                /\ IsStrength(v[x].conf, Tree(CombinedEdges(rows)), AnchorOf(rows, x), x)
<1>1. v = Result(rows) /\ Spanning(rows, Tree(CombinedEdges(rows)))
  BY DEF IsResult
<1>2. DOMAIN v = Seen(rows)
  BY <1>1 DEF Result
<1>3. ASSUME NEW x \in Seen(rows)
      PROVE  /\ v[x].id = AnchorOf(rows, x)
             /\ v[x].conf = Strength(Tree(CombinedEdges(rows)), AnchorOf(rows, x), x)
  BY <1>1 DEF Result
<1>4. \A x \in Seen(rows) : IsStrength(v[x].conf, Tree(CombinedEdges(rows)), AnchorOf(rows, x), x)
  BY <1>1, <1>3, StrengthExists
<1> QED
  BY <1>2, <1>3, <1>4

(* The stored view is the result, with the confidences as the column keeps *)
(* them.                                                                   *)
LEMMA ViewFacts ==
    ASSUME NEW rows, RowsOk(rows), NEW v, IsView(v, rows)
    PROVE  /\ DOMAIN v = Seen(rows)
           /\ \A x \in Seen(rows) :
                /\ v[x].id = AnchorOf(rows, x)
                /\ \E c : /\ v[x].conf = Numeric[c]
                          /\ IsStrength(c, Tree(CombinedEdges(rows)), AnchorOf(rows, x), x)
<1>1. PICK w : w = Result(rows)
  OBVIOUS
<1>2. IsResult(w, rows) /\ v = Materialised(w)
  BY <1>1 DEF IsView, IsResult
<1>3. /\ DOMAIN w = Seen(rows)
      /\ \A x \in Seen(rows) :
            /\ w[x].id = AnchorOf(rows, x)
            /\ IsStrength(w[x].conf, Tree(CombinedEdges(rows)), AnchorOf(rows, x), x)
  BY <1>2, ResultFacts
<1>4. DOMAIN v = Seen(rows)
  BY <1>2, <1>3 DEF Materialised
<1>5. ASSUME NEW x \in Seen(rows)
      PROVE  v[x].id = AnchorOf(rows, x) /\ v[x].conf = Numeric[w[x].conf]
  <2>1. v[x] = [id |-> w[x].id, conf |-> Numeric[w[x].conf]]
    BY <1>2, <1>3 DEF Materialised
  <2> QED
    BY <1>3, <2>1
<1> QED
  BY <1>3, <1>4, <1>5

LEMMA SameIdIffLinkedHolds ==
    ASSUME ReplayInv
    PROVE  SameIdIffLinked
<1> SUFFICES ASSUME pc = "idle"
             PROVE  /\ DOMAIN view = UNION {Pair(r) : r \in ActiveRows}
                    /\ \A x, y \in DOMAIN view : view[x].id = view[y].id <=> Linked(ActiveRows, x, y)
  BY DEF SameIdIffLinked
<1>1. PICK rows : rows = RowsFrom(evidence, 0)
  OBVIOUS
<1>2. evidence \in Seq(EvidenceRow) /\ RowsOk(rows) /\ IsView(view, rows)
  BY <1>1, RowsFromOk DEF ReplayInv, TypeOK, ViewInv
<1>3. ActiveRows = Range(rows)
  <2>1. DOMAIN rows = {i \in DOMAIN evidence : evidence[i].active}
    BY <1>1, <1>2, FullRows
  <2>2. \A i \in DOMAIN rows : rows[i] = evidence[i]
    BY <1>1, <1>2, RowsFromOk
  <2> QED
    BY <2>1, <2>2 DEF ActiveRows, Range
<1>4. UNION {Pair(r) : r \in ActiveRows} = Seen(rows)
  BY <1>3 DEF Seen, Range
<1>5. DOMAIN view = Seen(rows) /\ \A x \in Seen(rows) : view[x].id = AnchorOf(rows, x)
  BY <1>2, ViewFacts
<1> QED
  BY <1>2, <1>3, <1>4, <1>5, SameAnchor

LEMMA NeverOverstatedHolds ==
    ASSUME ReplayInv
    PROVE  NeverOverstated
<1> SUFFICES ASSUME pc = "idle", min = 0, NEW x \in DOMAIN view, NEW pairs, pairs = Range(CombinedEdges(Rows))
             PROVE  /\ Linked({e \in pairs : Numeric[e.conf] >= view[x].conf}, view[x].id, x)
                    /\ \E e \in pairs : view[e.a].id = view[x].id /\ Numeric[e.conf] <= view[x].conf
  BY DEF NeverOverstated
<1>1. PICK rows : rows = Rows
  OBVIOUS
<1>2. RowsOk(rows) /\ IsView(view, rows)
  BY <1>1, RowsTyped, RowsFacts DEF ReplayInv, ViewInv
<1>3. pairs = EdgeSet(rows)
  BY <1>1 DEF Range, EdgeSet
<1>4. PICK t, A : t = Tree(CombinedEdges(rows)) /\ A = AnchorOf(rows, x)
  OBVIOUS
<1>5. Spanning(rows, t)
  BY <1>2, <1>4 DEF IsView
<1>6. PICK c : view[x].conf = Numeric[c] /\ IsStrength(c, t, A, x)
  BY <1>2, <1>4, ViewFacts
<1>7. x \in Seen(rows) /\ view[x].id = A /\ IsStrength(c, t, A, x)
  BY <1>2, <1>4, <1>6, ViewFacts
<1>8. c \in 1..Certain /\ Linked(From(t, c), A, x)
  BY <1>7 DEF IsStrength
<1>n. \A k, d \in 1..Certain : k <= d => Numeric[k] <= Numeric[d]
  BY RoundingAssumption
<1>e. \A e \in pairs : e.conf \in 1..Certain
  BY <1>2, <1>3, EdgeFacts DEF EdgeSet
<1>9. Linked({e \in pairs : Numeric[e.conf] >= view[x].conf}, view[x].id, x)
  <2>1. ASSUME NEW e \in From(t, c) PROVE e \in pairs /\ Numeric[e.conf] >= Numeric[c]
    <3>1. e \in pairs /\ e.conf >= c
      BY <1>3, <1>5 DEF From, Spanning
    <3>2. e.conf \in 1..Certain /\ c <= e.conf
      BY <1>8, <1>e, <3>1, RowAssumption
    <3>3. Numeric[c] <= Numeric[e.conf] /\ Numeric[c] \in Int /\ Numeric[e.conf] \in Int
      BY <1>8, <1>n, <3>2, RoundingAssumption
    <3> QED
      BY <3>1, <3>3
  <2>2. From(t, c) \subseteq {e \in pairs : Numeric[e.conf] >= view[x].conf}
    BY <1>6, <2>1
  <2> QED
    BY <1>7, <1>8, <2>2, LinkedMore
<1>10. ASSUME NEW e \in pairs, e.conf <= c, Linked(Range(rows), x, e.a)
       PROVE  view[e.a].id = view[x].id /\ Numeric[e.conf] <= view[x].conf
  <2>1. e.a \in Seen(rows)
    BY <1>2, <1>7, <1>10, LinkedSeen
  <2>2. AnchorOf(rows, e.a) = A
    BY <1>2, <1>4, <1>7, <1>10, <2>1, SameAnchor
  <2>3. view[e.a].id = A
    BY <1>2, <2>1, <2>2, ViewFacts
  <2>4. Numeric[e.conf] <= Numeric[c]
    BY <1>8, <1>10, <1>n, <1>e
  <2> QED
    BY <1>6, <1>7, <2>3, <2>4
<1>11. CASE c = Certain
  <2>1. PICK i \in DOMAIN rows : x = rows[i].a \/ x = rows[i].b
    BY <1>2, <1>7, SeenFacts
  <2>2. PICK n \in DOMAIN CombinedEdges(rows) : Pair(rows[n]) = Pair(rows[i])
    BY <1>2, RowHasEdge
  <2>3. PICK e : e = CombinedEdges(rows)[n]
    OBVIOUS
  <2>4. e \in EdgeSet(rows) /\ {e.a, e.b} = Pair(rows[i]) /\ e.conf \in 1..Certain
    BY <1>2, <2>2, <2>3, EdgeFacts DEF EdgeSet
  <2>5. x \in {e.a, e.b}
    BY <2>1, <2>4 DEF Pair
  <2>6. Linked(EdgeSet(rows), x, e.a)
    BY <2>4, <2>5, LinkedEdge, LinkedSame
  <2>7. Linked(Range(rows), x, e.a)
    BY <1>2, <2>6, EdgesLink
  <2>8. e.conf <= c
    BY <1>11, <2>4, RowAssumption
  <2> QED
    BY <1>3, <1>9, <1>10, <2>4, <2>7, <2>8
<1>12. CASE c # Certain
  <2> DEFINE k == c + 1
             K == Class(Range(rows), A)
  <2>1. c \in Nat /\ k \in 1..Certain /\ k > c
    BY <1>8, <1>12, RowAssumption
  <2>2. ~Linked(From(t, k), A, x)
    BY <1>7, <2>1 DEF IsStrength
  <2>3. A \in Address /\ x \in Address /\ A \in K /\ K \subseteq Address
    BY <1>2, <1>4, <1>7, AnchorFacts, SeenFacts, LinkedSame DEF Class
  <2>4. \A e \in t : e.a \in Address /\ e.b \in Address /\ e.conf \in 1..Certain
    BY <1>2, <1>5, TreeEdge
  <2>5. Closed(t, K)
    <3> SUFFICES ASSUME NEW e \in t PROVE e.a \in K <=> e.b \in K
      BY DEF Closed
    <3>1. Linked(t, e.a, e.b) /\ Linked(t, e.b, e.a)
      BY LinkedEdge
    <3>2. Linked(Range(rows), e.a, e.b) /\ Linked(Range(rows), e.b, e.a)
      BY <1>5, <2>4, <3>1 DEF Spanning
    <3> QED
      BY <2>4, <3>2, LinkedTransitive DEF Class
  <2>6. \A j : Closed(From(t, j), K)
    BY <2>5 DEF Closed, From
  <2>7. Linked({e \in From(t, c) : e.a \in K}, A, x)
    <3> HIDE DEF K
    <3> QED
      BY <1>8, <2>3, <2>6, LinkedWithin
  <2>8. ~({e \in From(t, c) : e.a \in K} \subseteq From(t, k))
    BY <2>2, <2>7, LinkedMore
  <2>9. PICK e \in From(t, c) : e.a \in K /\ e \notin From(t, k)
    BY <2>8
  <2>10. e \in t /\ e.conf <= c
    BY <2>1, <2>4, <2>9, RowAssumption DEF From
  <2>11. Linked(Range(rows), A, e.a) /\ Linked(Range(rows), x, A)
    BY <1>2, <1>4, <1>7, <2>9, AnchorFacts DEF Class
  <2>12. Linked(Range(rows), x, e.a)
    BY <2>11, LinkedTransitive
  <2>13. e \in pairs
    BY <1>3, <1>5, <2>10 DEF Spanning
  <2> QED
    BY <1>9, <1>10, <2>10, <2>12, <2>13
<1> QED
  BY <1>11, <1>12

LEMMA ThresholdHoldsHolds ==
    ASSUME ReplayInv
    PROVE  ThresholdHolds
<1> SUFFICES ASSUME NEW x \in DOMAIN answer, NEW y \in DOMAIN answer, pc = "idle"
             PROVE  /\ answer[x].conf >= Float[min]
                    /\ answer[x].id = answer[y].id => view[x].id = view[y].id
  BY DEF ThresholdHolds
<1>1. min # 0
  BY DEF ReplayInv, AnswerInv
<1>2. min \in 1..Certain
  BY <1>1, RowAssumption DEF ReplayInv, TypeOK
<1>3. PICK rows, all : rows = RowsFrom(evidence, min) /\ all = RowsFrom(evidence, 0)
  OBVIOUS
<1>4. evidence \in Seq(EvidenceRow)
  BY DEF ReplayInv, TypeOK
<1>5. RowsOk(rows) /\ RowsOk(all) /\ IsResult(answer, rows) /\ IsView(view, all)
  BY <1>1, <1>3, <1>4, RowsFromOk DEF ReplayInv, AnswerInv, ViewInv
<1>6. PICK t : t = Tree(CombinedEdges(rows))
  OBVIOUS
<1>7. Spanning(rows, t)
  BY <1>5, <1>6 DEF IsResult
<1>8. x \in Seen(rows) /\ y \in Seen(rows) /\ answer[x].id = AnchorOf(rows, x) /\ answer[y].id = AnchorOf(rows, y)
      /\ IsStrength(answer[x].conf, t, AnchorOf(rows, x), x)
  BY <1>5, <1>6, ResultFacts
<1>9. answer[x].conf >= Float[min]
  <2>0. Float[min] \in 1..Certain
    BY <1>2, RoundingAssumption
  <2>1. \A i \in DOMAIN rows : rows[i].conf >= min
    BY <1>3 DEF RowsFrom, Restrict, AtLeast
  <2>2. ASSUME NEW e \in t PROVE e.conf >= Float[min]
    <3>1. PICK n \in DOMAIN CombinedEdges(rows) : e = CombinedEdges(rows)[n]
      BY <1>7, <2>2 DEF Spanning, EdgeSet
    <3>2. n \in DOMAIN rows /\ Float[rows[n].conf] <= e.conf /\ e.conf \in 1..Certain
      BY <1>5, <3>1, EdgeFacts
    <3>3. rows[n].conf \in 1..Certain
      BY <1>5, <3>2, RowFields DEF RowsOk
    <3>4. Float[min] <= Float[rows[n].conf] /\ Float[rows[n].conf] \in 1..Certain
      <4>1. min <= rows[n].conf
        BY <1>2, <2>1, <3>2, <3>3
      <4> QED
        BY <1>2, <3>3, <4>1, RoundingAssumption
    <3> QED
      BY <2>0, <3>2, <3>4, RowAssumption
  <2>3. From(t, Float[min]) = t
    BY <2>2 DEF From
  <2>4. AnchorOf(rows, x) \in Address /\ x \in Address /\ Linked(Range(rows), AnchorOf(rows, x), x)
    BY <1>5, <1>8, AnchorFacts, SeenFacts
  <2>5. Linked(From(t, Float[min]), AnchorOf(rows, x), x)
    BY <1>7, <2>3, <2>4 DEF Spanning
  <2>6. answer[x].conf \in 1..Certain /\ ~(Float[min] > answer[x].conf)
    BY <2>0, <1>8, <2>5 DEF IsStrength
  <2> QED
    BY <2>0, <2>6, RowAssumption
<1>10. ASSUME answer[x].id = answer[y].id PROVE view[x].id = view[y].id
  <2>1. Linked(Range(rows), x, y)
    BY <1>5, <1>8, <1>10, SameAnchor
  <2>2. \A i \in DOMAIN rows : i \in DOMAIN all /\ rows[i] = all[i]
    <3>1. DOMAIN all = {i \in DOMAIN evidence : evidence[i].active}
      BY <1>3, <1>4, FullRows
    <3>2. \A i \in DOMAIN rows : i \in DOMAIN evidence /\ evidence[i].active /\ rows[i] = evidence[i]
      BY <1>3 DEF RowsFrom, Restrict
    <3>3. \A i \in DOMAIN all : all[i] = evidence[i]
      BY <1>3, <1>4, RowsFromOk
    <3> QED
      BY <3>1, <3>2, <3>3
  <2>3. Range(rows) \subseteq Range(all)
    BY <2>2 DEF Range
  <2>4. Linked(Range(all), x, y)
    BY <2>1, <2>3, LinkedMore
  <2>5. Seen(rows) \subseteq Seen(all)
    BY <2>2 DEF Seen
  <2>6. x \in Seen(all) /\ y \in Seen(all)
    BY <1>8, <2>5
  <2>7. AnchorOf(all, x) = AnchorOf(all, y)
    BY <1>5, <2>4, <2>6, SameAnchor
  <2> QED
    BY <1>5, <2>6, <2>7, ViewFacts
<1> QED
  BY <1>9, <1>10
-----------------------------------------------------------------------------
(* A cluster depends on its own rows only.                                 *)

OwnRows(rows, K) == {j \in DOMAIN rows : rows[j].a \in K}

(* In K, a union of clusters of both, the tables agree. *)
Agree(rows, old, K) ==
    /\ K \subseteq Address
    /\ Closed(Range(rows), K) /\ Closed(Range(old), K)
    /\ OwnRows(rows, K) = OwnRows(old, K)
    /\ \A j \in OwnRows(rows, K) : rows[j] = old[j]

LEMMA AgreeSymmetric ==
    ASSUME NEW rows, NEW old, NEW K, Agree(rows, old, K)
    PROVE  Agree(old, rows, K)
  BY DEF Agree

LEMMA OwnRow ==
    ASSUME NEW rows, NEW K, Closed(Range(rows), K), NEW j \in DOMAIN rows, NEW x \in Pair(rows[j]), x \in K
    PROVE  j \in OwnRows(rows, K) /\ Pair(rows[j]) \subseteq K
  BY DEF OwnRows, Closed, Range, Pair

LEMMA OwnOf ==
    ASSUME NEW rows, NEW old, NEW K, Agree(rows, old, K), NEW p, p \subseteq K, NEW j \in DOMAIN rows, Pair(rows[j]) = p
    PROVE  j \in DOMAIN old /\ Pair(old[j]) = p /\ old[j] = rows[j]
<1>1. rows[j].a \in K
  BY DEF Pair
<1>2. j \in OwnRows(rows, K)
  BY <1>1 DEF OwnRows
<1>3. j \in OwnRows(old, K) /\ old[j] = rows[j]
  BY <1>2 DEF Agree
<1> QED
  BY <1>3 DEF OwnRows

LEMMA OwnCombined ==
    ASSUME NEW rows, NEW old, NEW K, Agree(rows, old, K), NEW p, p \subseteq K
    PROVE  Combined(rows, p) = Combined(old, p)
<1>1. PICK of : of = {j \in DOMAIN rows : Pair(rows[j]) = p}
  OBVIOUS
<1>2. of = {j \in DOMAIN old : Pair(old[j]) = p} /\ \A j \in of : rows[j] = old[j]
  BY <1>1, OwnOf, AgreeSymmetric
<1>3. \A j \in of : SourceKey(rows, j) = SourceKey(old, j)
  BY <1>2 DEF SourceKey
<1>4. {SourceKey(rows, j) : j \in of} = {SourceKey(old, j) : j \in of}
  BY <1>3
<1>5. ASSUME NEW k
      PROVE  {rows[i].conf : i \in {j \in of : SourceKey(rows, j) = k}}
                = {old[i].conf : i \in {j \in of : SourceKey(old, j) = k}}
  BY <1>2, <1>3
<1>6. BySource(rows, p) = [k \in {SourceKey(rows, j) : j \in of} |->
            Max({rows[i].conf : i \in {j \in of : SourceKey(rows, j) = k}})]
  BY <1>1 DEF BySource
<1>7. BySource(old, p) = [k \in {SourceKey(old, j) : j \in of} |->
            Max({old[i].conf : i \in {j \in of : SourceKey(old, j) = k}})]
  BY <1>2 DEF BySource
<1>8. BySource(rows, p) = BySource(old, p)
  BY <1>4, <1>5, <1>6, <1>7
<1> QED
  BY <1>8 DEF Combined

LEMMA OwnEdge ==
    ASSUME NEW rows, RowsOk(rows), NEW old, RowsOk(old), NEW K, Agree(rows, old, K),
           NEW n \in DOMAIN CombinedEdges(rows), CombinedEdges(rows)[n].a \in K
    PROVE  n \in DOMAIN CombinedEdges(old) /\ CombinedEdges(old)[n] = CombinedEdges(rows)[n]
<1>1. PICK e, p : e = CombinedEdges(rows)[n] /\ p = Pair(rows[n])
  OBVIOUS
<1>2. n \in DOMAIN rows /\ {e.a, e.b} = p
  BY <1>1, EdgeFacts
<1>3. p \subseteq K
  BY <1>1, <1>2, OwnRow DEF Agree
<1>4. n \in DOMAIN old /\ Pair(old[n]) = p
  BY <1>1, <1>2, <1>3, OwnOf
<1>5. \A j \in DOMAIN rows : j < n => Pair(rows[j]) # p
  BY <1>1 DEF CombinedEdges
<1>6. ASSUME NEW j \in DOMAIN old, j < n, Pair(old[j]) = p PROVE FALSE
  <2>1. j \in DOMAIN rows /\ Pair(rows[j]) = p
    BY <1>3, <1>6, OwnOf, AgreeSymmetric
  <2> QED
    BY <1>5, <1>6, <2>1
<1>7. n \in DOMAIN CombinedEdges(old)
  BY <1>4, <1>6 DEF CombinedEdges
<1>8. CombinedEdges(old)[n] = [a |-> Min(p), b |-> Max(p), conf |-> Combined(old, p)]
  BY <1>4, <1>7 DEF CombinedEdges
<1>9. CombinedEdges(rows)[n] = [a |-> Min(p), b |-> Max(p), conf |-> Combined(rows, p)]
  BY <1>1 DEF CombinedEdges
<1>10. Combined(old, p) = Combined(rows, p)
  BY <1>3, OwnCombined
<1> QED
  BY <1>7, <1>8, <1>9, <1>10

OwnEdges(S, K) == {e \in S : e.a \in K}

LEMMA LinkedOwn ==
    ASSUME NEW S, NEW U, NEW K, K \subseteq Address, Closed(S, K), Closed(U, K),
           OwnEdges(S, K) = OwnEdges(U, K), NEW x \in K, NEW y
    PROVE  Linked(S, x, y) <=> Linked(U, x, y)
<1>1. Linked(S, x, y) <=> Linked(OwnEdges(S, K), x, y)
  BY LinkedWithin DEF OwnEdges
<1>2. Linked(U, x, y) <=> Linked(OwnEdges(U, K), x, y)
  BY LinkedWithin DEF OwnEdges
<1> QED
  BY <1>1, <1>2

LEMMA OwnUpto ==
    ASSUME NEW rows, RowsOk(rows), NEW old, RowsOk(old), NEW K, Agree(rows, old, K), NEW n
    PROVE  OwnEdges(Upto(CombinedEdges(rows), n), K) \subseteq OwnEdges(Upto(CombinedEdges(old), n), K)
<1> SUFFICES ASSUME NEW e \in OwnEdges(Upto(CombinedEdges(rows), n), K)
             PROVE  e \in OwnEdges(Upto(CombinedEdges(old), n), K)
  OBVIOUS
<1>1. PICK m \in DOMAIN CombinedEdges(rows) : m < n /\ e = CombinedEdges(rows)[m]
  BY DEF OwnEdges, Upto
<1>2. e.a \in K
  BY DEF OwnEdges
<1>3. m \in DOMAIN CombinedEdges(old) /\ e = CombinedEdges(old)[m]
  BY <1>1, <1>2, OwnEdge
<1> QED
  BY <1>1, <1>2, <1>3 DEF OwnEdges, Upto

LEMMA ClosedParts ==
    ASSUME NEW rows, RowsOk(rows), NEW K, Closed(Range(rows), K)
    PROVE  /\ \A n : Closed(Upto(CombinedEdges(rows), n), K)
           /\ \A c : Closed(From(Tree(CombinedEdges(rows)), c), K)
           /\ Tree(CombinedEdges(rows)) \subseteq EdgeSet(rows)
<1>1. Closed(EdgeSet(rows), K)
  BY EdgesClosed
<1>2. Tree(CombinedEdges(rows)) \subseteq EdgeSet(rows)
  BY DEF Tree, Merging, EdgeSet
<1>3. \A n : Upto(CombinedEdges(rows), n) \subseteq EdgeSet(rows)
  BY DEF Upto, EdgeSet
<1>4. \A c : From(Tree(CombinedEdges(rows)), c) \subseteq EdgeSet(rows)
  BY <1>2 DEF From
<1>5. \A S : S \subseteq EdgeSet(rows) => Closed(S, K)
  BY <1>1 DEF Closed
<1> QED
  BY <1>2, <1>3, <1>4, <1>5

LEMMA OwnTree ==
    ASSUME NEW rows, RowsOk(rows), NEW old, RowsOk(old), NEW K, Agree(rows, old, K)
    PROVE  OwnEdges(Tree(CombinedEdges(rows)), K) \subseteq OwnEdges(Tree(CombinedEdges(old)), K)
<1> DEFINE E == CombinedEdges(rows)
           F == CombinedEdges(old)
<1> SUFFICES ASSUME NEW e \in OwnEdges(Tree(E), K) PROVE e \in OwnEdges(Tree(F), K)
  OBVIOUS
<1>1. PICK n \in DOMAIN E : e = E[n] /\ ~Linked(Upto(E, n), e.a, e.b)
  BY DEF OwnEdges, Tree, Merging
<1>2. e.a \in K
  BY DEF OwnEdges
<1>3. n \in DOMAIN F /\ e = F[n]
  BY <1>1, <1>2, OwnEdge
<1>4. Agree(old, rows, K)
  BY AgreeSymmetric
<1>5. OwnEdges(Upto(E, n), K) = OwnEdges(Upto(F, n), K)
  <2>1. OwnEdges(Upto(E, n), K) \subseteq OwnEdges(Upto(F, n), K)
    BY OwnUpto
  <2>2. OwnEdges(Upto(F, n), K) \subseteq OwnEdges(Upto(E, n), K)
    BY <1>4, OwnUpto
  <2> QED
    BY <2>1, <2>2
<1>6. Closed(Upto(E, n), K) /\ Closed(Upto(F, n), K) /\ K \subseteq Address
  BY ClosedParts DEF Agree
<1> HIDE DEF E, F
<1>7. Linked(Upto(E, n), e.a, e.b) <=> Linked(Upto(F, n), e.a, e.b)
  BY <1>2, <1>5, <1>6, LinkedOwn
<1>8. e \in Tree(F)
  BY <1>1, <1>3, <1>7 DEF Tree, Merging
<1> QED
  BY <1>2, <1>8 DEF OwnEdges

LEMMA OwnSeen ==
    ASSUME NEW rows, NEW old, NEW K, Agree(rows, old, K), NEW x \in Seen(rows), x \in K
    PROVE  x \in Seen(old)
<1>1. PICK j \in DOMAIN rows : x \in Pair(rows[j])
  BY DEF Seen
<1>2. Pair(rows[j]) \subseteq K
  BY <1>1, OwnRow DEF Agree
<1>3. j \in DOMAIN old /\ Pair(old[j]) = Pair(rows[j])
  BY <1>2, OwnOf
<1> QED
  BY <1>1, <1>3 DEF Seen

LEMMA OwnPlaces ==
    ASSUME NEW rows, NEW old, NEW K, Agree(rows, old, K), NEW x \in K
    PROVE  FirstSeenOrder(rows, x) = FirstSeenOrder(old, x)
<1>1. ASSUME NEW j \in DOMAIN rows, x \in Pair(rows[j]) PROVE j \in DOMAIN old /\ old[j] = rows[j]
  BY <1>1, OwnRow, OwnOf DEF Agree
<1>2. ASSUME NEW j \in DOMAIN old, x \in Pair(old[j]) PROVE j \in DOMAIN rows /\ old[j] = rows[j]
  <2>1. Agree(old, rows, K)
    BY AgreeSymmetric
  <2> QED
    BY <1>2, <2>1, OwnRow, OwnOf DEF Agree
<1>3. {j \in DOMAIN rows : rows[j].a = x} = {j \in DOMAIN old : old[j].a = x}
  BY <1>1, <1>2 DEF Pair
<1>4. {j \in DOMAIN rows : rows[j].b = x} = {j \in DOMAIN old : old[j].b = x}
  BY <1>1, <1>2 DEF Pair
<1> QED
  BY <1>3, <1>4 DEF FirstSeenOrder

(* Where the tables agree, so do the results. *)
LEMMA AgreeResult ==
    ASSUME NEW rows, RowsOk(rows), NEW old, RowsOk(old), NEW K, Agree(rows, old, K), NEW x \in Seen(rows), x \in K
    PROVE  x \in Seen(old) /\ Result(rows)[x] = Result(old)[x]
<1>1. Agree(old, rows, K) /\ K \subseteq Address /\ Closed(Range(rows), K) /\ Closed(Range(old), K)
  BY AgreeSymmetric DEF Agree
<1>2. x \in Seen(old)
  BY OwnSeen
<1>3. OwnEdges(Range(rows), K) = OwnEdges(Range(old), K)
  BY DEF Agree, OwnEdges, OwnRows, Range
<1>4. \A y : Linked(Range(rows), x, y) <=> Linked(Range(old), x, y)
  BY <1>1, <1>3, LinkedOwn
<1>5. \A y : Linked(Range(rows), x, y) => y \in K
  BY <1>1, LinkedIs
<1>6. Cluster(rows, x) = Cluster(old, x) /\ Cluster(rows, x) \subseteq K
  <2>1. ASSUME NEW y \in Cluster(rows, x) PROVE y \in Cluster(old, x) /\ y \in K
    <3>1. y \in Seen(rows) /\ Linked(Range(rows), x, y)
      BY DEF Cluster
    <3>2. y \in K /\ Linked(Range(old), x, y)
      BY <1>4, <1>5, <3>1
    <3>3. y \in Seen(old)
      BY <3>1, <3>2, OwnSeen
    <3> QED
      BY <3>2, <3>3 DEF Cluster
  <2>2. ASSUME NEW y \in Cluster(old, x) PROVE y \in Cluster(rows, x)
    <3>1. y \in Seen(old) /\ Linked(Range(old), x, y)
      BY DEF Cluster
    <3>2. y \in K /\ Linked(Range(rows), x, y)
      BY <1>4, <1>5, <3>1
    <3>3. y \in Seen(rows)
      BY <1>1, <3>1, <3>2, OwnSeen
    <3> QED
      BY <3>2, <3>3 DEF Cluster
  <2> QED
    BY <2>1, <2>2
<1>7. \A y \in Cluster(rows, x) : FirstSeenOrder(rows, y) = FirstSeenOrder(old, y)
  BY <1>6, OwnPlaces
<1>8. AnchorOf(rows, x) = AnchorOf(old, x)
  BY <1>6, <1>7 DEF AnchorOf
<1>9. PICK A, S, T : A = AnchorOf(rows, x) /\ S = Tree(CombinedEdges(rows)) /\ T = Tree(CombinedEdges(old))
  OBVIOUS
<1>10. A \in K
  BY <1>5, <1>9, AnchorFacts
<1>11. OwnEdges(S, K) = OwnEdges(T, K)
  <2>1. OwnEdges(S, K) \subseteq OwnEdges(T, K)
    BY <1>9, OwnTree
  <2>2. OwnEdges(T, K) \subseteq OwnEdges(S, K)
    BY <1>1, <1>9, OwnTree
  <2> QED
    BY <2>1, <2>2
<1>12. \A c : OwnEdges(From(S, c), K) = OwnEdges(From(T, c), K)
  BY <1>11 DEF OwnEdges, From
<1>13. \A c : Closed(From(S, c), K) /\ Closed(From(T, c), K)
  BY <1>1, <1>9, ClosedParts
<1>14. \A c : Linked(From(S, c), A, x) <=> Linked(From(T, c), A, x)
  BY <1>1, <1>10, <1>12, <1>13, LinkedOwn
<1>15. \A c : IsStrength(c, S, A, x) <=> IsStrength(c, T, A, x)
  BY <1>14 DEF IsStrength
<1>16. Strength(S, A, x) = Strength(T, A, x)
  BY <1>15 DEF Strength
<1> QED
  BY <1>2, <1>8, <1>9, <1>16 DEF Result
LEMMA WithFacts ==
    ASSUME NEW rows, RowsOk(rows), NEW n \in Nat, n \notin DOMAIN rows, NEW r \in EvidenceRow, NEW old, old = With(rows, n, r)
    PROVE  /\ RowsOk(old) /\ DOMAIN old = DOMAIN rows \cup {n} /\ old[n] = r
           /\ \A j \in DOMAIN rows : old[j] = rows[j]
           /\ Range(rows) \subseteq Range(old) /\ Seen(rows) \subseteq Seen(old) /\ r.a \in Seen(old)
<1>1. DOMAIN old = DOMAIN rows \cup {n} /\ old[n] = r /\ \A j \in DOMAIN rows : old[j] = rows[j]
  BY DEF With
<1>2. IsFiniteSet(DOMAIN rows \cup {n})
  BY FS_AddElement DEF RowsOk
<1>3. RowsOk(old)
  BY <1>1, <1>2 DEF RowsOk
<1>4. Range(rows) \subseteq Range(old)
  BY <1>1 DEF Range
<1>5. Seen(rows) \subseteq Seen(old)
  BY <1>1 DEF Seen
<1>6. r.a \in Seen(old)
  BY <1>1 DEF Seen, Pair
<1> QED
  BY <1>1, <1>3, <1>4, <1>5, <1>6

(* Without the row at n the other clusters stay as they are. *)
LEMMA RollbackKeeps ==
    ASSUME NEW rows, RowsOk(rows), NEW n \in Nat, n \notin DOMAIN rows, NEW r \in EvidenceRow,
           NEW old, old = With(rows, n, r), NEW x \in Seen(old), AnchorOf(old, x) # AnchorOf(old, r.a)
    PROVE  x \in Seen(rows) /\ Result(rows)[x] = Result(old)[x]
<1> DEFINE K == Class(Range(old), x)
<1>1. /\ RowsOk(old) /\ DOMAIN old = DOMAIN rows \cup {n} /\ old[n] = r
      /\ \A j \in DOMAIN rows : old[j] = rows[j]
      /\ Range(rows) \subseteq Range(old) /\ Seen(rows) \subseteq Seen(old) /\ r.a \in Seen(old)
  <2>1. DOMAIN old = DOMAIN rows \cup {n} /\ old[n] = r
    BY DEF With
  <2>2. \A j \in DOMAIN rows : old[j] = rows[j]
    BY DEF With
  <2>3. RowsOk(old) /\ Range(rows) \subseteq Range(old) /\ Seen(rows) \subseteq Seen(old) /\ r.a \in Seen(old)
    BY WithFacts
  <2> QED
    BY <2>1, <2>2, <2>3
<1>2. K \subseteq Address /\ x \in K
  BY <1>1, SeenFacts, LinkedSame DEF Class
<1>3. Closed(Range(old), K)
  BY <1>1, RowsBetween, ClassClosed
<1>4. Closed(Range(rows), K)
  BY <1>1, <1>3 DEF Closed
<1>5. ~Linked(Range(old), x, r.a)
  BY <1>1, SameAnchor
<1>6. r.a \notin K
  BY <1>5 DEF Class
<1> HIDE DEF K
<1>7. OwnRows(rows, K) = OwnRows(old, K) /\ \A j \in OwnRows(rows, K) : rows[j] = old[j]
  BY <1>1, <1>6 DEF OwnRows
<1>8. Agree(old, rows, K)
  BY <1>2, <1>3, <1>4, <1>7 DEF Agree
<1> QED
  BY <1>1, <1>2, <1>8, AgreeResult

LEMMA RollbackHolds ==
    ASSUME ReplayInv
    PROVE  RollbackStaysInItsCluster
<1> SUFFICES ASSUME pc = "idle", change.kind = "invalidate"
             PROVE  /\ \A x \in DOMAIN before : before[x].id # before[change.row.a].id =>
                          x \in DOMAIN view /\ view[x] = before[x]
                    /\ \A x, y \in DOMAIN view : view[x].id = view[y].id => before[x].id = before[y].id
  BY DEF RollbackStaysInItsCluster
<1>1. PICK rows : rows = RowsFrom(evidence, 0)
  OBVIOUS
<1>2. evidence \in Seq(EvidenceRow) /\ RowsOk(rows) /\ IsView(view, rows)
  BY <1>1, RowsFromOk DEF ReplayInv, TypeOK, ViewInv
<1>3. PICK n \in DOMAIN evidence \ DOMAIN rows : change.row \in EvidenceRow /\ before = Materialised(Result(With(rows, n, change.row)))
  BY <1>1 DEF ReplayInv, HistoryInv
<1>4. PICK r, old : r = change.row /\ old = With(rows, n, r)
  OBVIOUS
<1>5. n \in Nat /\ n \notin DOMAIN rows /\ r \in EvidenceRow
  BY <1>2, <1>3, <1>4
<1>6. RowsOk(old) /\ Range(rows) \subseteq Range(old) /\ Seen(rows) \subseteq Seen(old) /\ r.a \in Seen(old)
  BY <1>2, <1>4, <1>5, WithFacts
<1>m. ASSUME NEW q
      PROVE  /\ DOMAIN Materialised(Result(q)) = Seen(q)
             /\ \A x \in Seen(q) :
                   /\ Materialised(Result(q))[x] = [id |-> Result(q)[x].id, conf |-> Numeric[Result(q)[x].conf]]
                   /\ Materialised(Result(q))[x].id = AnchorOf(q, x)
  BY DEF Materialised, Result
<1>7. DOMAIN before = Seen(old) /\ before = Materialised(Result(old)) /\ \A x \in Seen(old) : before[x].id = AnchorOf(old, x)
  BY <1>3, <1>4, <1>m
<1>8. DOMAIN view = Seen(rows) /\ view = Materialised(Result(rows)) /\ \A x \in Seen(rows) : view[x].id = AnchorOf(rows, x)
  BY <1>2, <1>m DEF IsView
<1>9. ASSUME NEW x \in DOMAIN before, before[x].id # before[change.row.a].id
      PROVE  x \in DOMAIN view /\ view[x] = before[x]
  <2>1. x \in Seen(old) /\ AnchorOf(old, x) # AnchorOf(old, r.a)
    BY <1>4, <1>6, <1>7, <1>9
  <2>2. x \in Seen(rows) /\ Result(rows)[x] = Result(old)[x]
    BY <1>2, <1>4, <1>5, <2>1, RollbackKeeps
  <2>3. view[x] = [id |-> Result(rows)[x].id, conf |-> Numeric[Result(rows)[x].conf]]
    BY <1>m, <1>8, <2>2
  <2>4. before[x] = [id |-> Result(old)[x].id, conf |-> Numeric[Result(old)[x].conf]]
    BY <1>m, <1>7, <2>1
  <2> QED
    BY <1>8, <2>2, <2>3, <2>4
<1>10. ASSUME NEW x \in DOMAIN view, NEW y \in DOMAIN view, view[x].id = view[y].id
       PROVE  before[x].id = before[y].id
  <2>1. x \in Seen(rows) /\ y \in Seen(rows) /\ AnchorOf(rows, x) = AnchorOf(rows, y)
    BY <1>8, <1>10
  <2>2. Linked(Range(rows), x, y)
    BY <1>2, <2>1, SameAnchor
  <2>3. Linked(Range(old), x, y) /\ x \in Seen(old) /\ y \in Seen(old)
    BY <1>6, <2>1, <2>2, LinkedMore
  <2>4. AnchorOf(old, x) = AnchorOf(old, y)
    BY <1>6, <2>3, SameAnchor
  <2> QED
    BY <1>7, <2>3, <2>4
<1> QED
  BY <1>9, <1>10

-----------------------------------------------------------------------------
(* Recording a row again.                                                  *)

LEMMA SameMin ==
    ASSUME NEW S, NEW U, S \subseteq U, U \subseteq Nat, S # {}, \A u \in U : \E s \in S : s <= u
    PROVE  Min(U) = Min(S)
<1>1. Min(S) \in S /\ \A y \in S : Min(S) <= y
  BY MinFacts
<1>2. Min(U) \in U /\ \A y \in U : Min(U) <= y
  BY MinFacts
<1>3. PICK s \in S : s <= Min(U)
  BY <1>2
<1>4. Min(S) <= s /\ Min(U) <= Min(S) /\ s \in Nat /\ Min(S) \in Nat /\ Min(U) \in Nat
  BY <1>1, <1>2
<1> QED
  BY <1>3, <1>4

(* The row at n says what that at i says already. *)
Again(rows, n, i, old) ==
    /\ RowsOk(rows) /\ RowsOk(old)
    /\ n \in DOMAIN rows /\ i \in DOMAIN old
    /\ DOMAIN rows = DOMAIN old \cup {n}
    /\ \A j \in DOMAIN old : j < n /\ old[j] = rows[j]
    /\ Pair(rows[i]) = Pair(rows[n])
    /\ rows[i].source = rows[n].source /\ rows[n].source # Manual
    /\ rows[i].conf = rows[n].conf

LEMMA AgainCombined ==
    ASSUME NEW rows, NEW n, NEW i, NEW old, Again(rows, n, i, old), NEW p
    PROVE  Combined(rows, p) = Combined(old, p)
<1>1. PICK of, ow : of = {j \in DOMAIN rows : Pair(rows[j]) = p} /\ ow = {j \in DOMAIN old : Pair(old[j]) = p}
  OBVIOUS
<1>2. \A j \in DOMAIN old : j \in DOMAIN rows /\ old[j] = rows[j] /\ SourceKey(old, j) = SourceKey(rows, j)
  BY DEF Again, SourceKey
<1>3. SourceKey(rows, n) = SourceKey(rows, i)
  BY DEF Again, SourceKey
<1>4. ow \subseteq of /\ (\A j \in of : j \in ow \/ (j = n /\ i \in ow))
  BY <1>1, <1>2 DEF Again
<1>5. {SourceKey(rows, j) : j \in of} = {SourceKey(old, j) : j \in ow}
  <2>1. \A j \in ow : SourceKey(old, j) = SourceKey(rows, j)
    BY <1>1, <1>2
  <2> QED
    BY <1>3, <1>4, <2>1
<1>6. ASSUME NEW k
      PROVE  {rows[h].conf : h \in {j \in of : SourceKey(rows, j) = k}}
                = {old[h].conf : h \in {j \in ow : SourceKey(old, j) = k}}
  <2>1. \A j \in ow : SourceKey(old, j) = SourceKey(rows, j) /\ old[j].conf = rows[j].conf
    BY <1>1, <1>2
  <2>2. rows[n].conf = rows[i].conf
    BY DEF Again
  <2> QED
    BY <1>3, <1>4, <2>1, <2>2
<1>7. BySource(rows, p) = [k \in {SourceKey(rows, j) : j \in of} |->
            Max({rows[h].conf : h \in {j \in of : SourceKey(rows, j) = k}})]
  BY <1>1 DEF BySource
<1>8. BySource(old, p) = [k \in {SourceKey(old, j) : j \in ow} |->
            Max({old[h].conf : h \in {j \in ow : SourceKey(old, j) = k}})]
  BY <1>1 DEF BySource
<1>9. BySource(rows, p) = BySource(old, p)
  BY <1>5, <1>6, <1>7, <1>8
<1> QED
  BY <1>9 DEF Combined

LEMMA AgainEdges ==
    ASSUME NEW rows, NEW n, NEW i, NEW old, Again(rows, n, i, old)
    PROVE  CombinedEdges(rows) = CombinedEdges(old)
<1> DEFINE First(r) == {h \in DOMAIN r : \A j \in DOMAIN r : j < h => Pair(r[j]) # Pair(r[h])}
<1>1. /\ n \in DOMAIN rows /\ i \in DOMAIN old /\ i < n /\ Pair(rows[i]) = Pair(rows[n])
      /\ DOMAIN rows = DOMAIN old \cup {n}
      /\ DOMAIN rows \subseteq Nat
      /\ \A j \in DOMAIN old : j < n /\ old[j] = rows[j]
  BY DEF Again, RowsOk
<1>2. \A h \in DOMAIN old : ~(n < h)
  BY <1>1
<1>3. First(rows) = First(old)
  <2>1. n \notin First(rows)
    BY <1>1
  <2>2. \A h \in DOMAIN old : h \in First(rows) <=> h \in First(old)
    BY <1>1, <1>2
  <2> QED
    BY <1>1, <2>1, <2>2
<1>4. \A h \in First(old) : rows[h] = old[h]
  BY <1>1
<1>5. CombinedEdges(rows) = [h \in First(rows) |->
          [a |-> Min(Pair(rows[h])), b |-> Max(Pair(rows[h])), conf |-> Combined(rows, Pair(rows[h]))]]
  BY DEF CombinedEdges
<1>6. CombinedEdges(old) = [h \in First(old) |->
          [a |-> Min(Pair(old[h])), b |-> Max(Pair(old[h])), conf |-> Combined(old, Pair(old[h]))]]
  BY DEF CombinedEdges
<1>7. \A p : Combined(rows, p) = Combined(old, p)
  BY AgainCombined
<1> HIDE DEF First
<1> QED
  BY <1>3, <1>4, <1>5, <1>6, <1>7

LEMMA AgainResult ==
    ASSUME NEW rows, NEW n, NEW i, NEW old, Again(rows, n, i, old)
    PROVE  Result(rows) = Result(old)
<1>1. /\ RowsOk(rows) /\ RowsOk(old) /\ n \in DOMAIN rows /\ i \in DOMAIN old /\ i \in DOMAIN rows
      /\ {rows[i].a, rows[i].b} = {rows[n].a, rows[n].b}
      /\ DOMAIN rows = DOMAIN old \cup {n}
      /\ \A j \in DOMAIN old : j < n /\ old[j] = rows[j]
  BY DEF Again, Pair
<1>2. Seen(rows) = Seen(old)
  <2>1. Seen(old) \subseteq Seen(rows)
    BY <1>1 DEF Seen
  <2>2. Seen(rows) \subseteq Seen(old)
    BY <1>1 DEF Seen, Pair
  <2> QED
    BY <2>1, <2>2
<1>3. \A T : Closed(Range(rows), T) <=> Closed(Range(old), T)
  <2>1. ASSUME NEW T, Closed(Range(old), T) PROVE Closed(Range(rows), T)
    <3>1. \A j \in DOMAIN old : rows[j].a \in T <=> rows[j].b \in T
      BY <1>1, <2>1 DEF Closed, Range
    <3>2. rows[n].a \in T <=> rows[n].b \in T
      BY <1>1, <3>1
    <3> QED
      BY <1>1, <3>1, <3>2 DEF Closed, Range
  <2>2. Range(old) \subseteq Range(rows)
    BY <1>1 DEF Range
  <2>3. ASSUME NEW T, Closed(Range(rows), T) PROVE Closed(Range(old), T)
    BY <2>2, <2>3 DEF Closed
  <2> QED
    BY <2>1, <2>3
<1>4. \A x, y : Linked(Range(rows), x, y) <=> Linked(Range(old), x, y)
  BY <1>3, LinkedByClosed
<1>5. \A x : Cluster(rows, x) = Cluster(old, x)
  BY <1>2, <1>4 DEF Cluster
<1>6. ASSUME NEW x \in Seen(rows) PROVE FirstSeenOrder(rows, x) = FirstSeenOrder(old, x)
  <2>1. /\ FirstSeenOrder(rows, x) = Min(Places(rows, x)) /\ Places(rows, x) \subseteq Nat
        /\ FirstSeenOrder(old, x) = Min(Places(old, x)) /\ Places(old, x) # {}
    BY <1>1, <1>2, FirstSeenFacts
  <2>2. Places(old, x) \subseteq Places(rows, x)
    BY <1>1 DEF Places
  <2>3. ASSUME NEW u \in Places(rows, x) PROVE \E s \in Places(old, x) : s <= u
    <3>1. n \in Nat /\ i \in Nat /\ i < n /\ \A j \in DOMAIN old : j \in Nat
      BY <1>1 DEF RowsOk
    <3>2. PICK j \in DOMAIN rows : (u = 2 * j /\ rows[j].a = x) \/ (u = 2 * j + 1 /\ rows[j].b = x)
      BY DEF Places
    <3>3. CASE j \in DOMAIN old
      <4>1. u \in Places(old, x)
        BY <1>1, <3>2, <3>3 DEF Places
      <4>2. u \in Nat
        BY <2>1
      <4> QED
        BY <4>1, <4>2
    <3>4. CASE j = n
      <4>1. x = old[i].a \/ x = old[i].b
        BY <1>1, <3>2, <3>4
      <4>2. 2 * i \in Places(old, x) \/ 2 * i + 1 \in Places(old, x)
        BY <1>1, <4>1 DEF Places
      <4>3. 2 * i <= u /\ 2 * i + 1 <= u
        BY <3>1, <3>2, <3>4
      <4> QED
        BY <4>2, <4>3
    <3> QED
      BY <1>1, <3>3, <3>4
  <2> QED
    BY <2>1, <2>2, <2>3, SameMin
<1>7. \A x \in Seen(rows) : AnchorOf(rows, x) = AnchorOf(old, x)
  <2> SUFFICES ASSUME NEW x \in Seen(rows) PROVE AnchorOf(rows, x) = AnchorOf(old, x)
    OBVIOUS
  <2>1. Cluster(rows, x) = Cluster(old, x) /\ Cluster(rows, x) \subseteq Seen(rows)
    BY <1>5 DEF Cluster
  <2>2. \A y \in Cluster(rows, x) : FirstSeenOrder(rows, y) = FirstSeenOrder(old, y)
    BY <1>6, <2>1
  <2> QED
    BY <2>1, <2>2 DEF AnchorOf
<1>8. CombinedEdges(rows) = CombinedEdges(old)
  BY AgainEdges
<1> QED
  BY <1>2, <1>7, <1>8 DEF Result

LEMMA RecordedAgainHolds ==
    ASSUME ReplayInv
    PROVE  RecordedAgainChangesNothing
<1> SUFFICES ASSUME pc = "idle", change.kind = "again", change.row.source # Manual PROVE view = before
  BY DEF RecordedAgainChangesNothing
<1>1. PICK rows : rows = RowsFrom(evidence, 0)
  OBVIOUS
<1>2. RowsOk(rows) /\ view = Materialised(Result(rows))
  BY <1>1, RowsFromOk DEF ReplayInv, TypeOK, ViewInv, IsView
<1>3. PICK n : /\ RepeatedAt(n, rows)
               /\ change.row.source = rows[n].source
               /\ before = Materialised(Result(Restrict(rows, DOMAIN rows \ {n})))
  BY <1>1 DEF ReplayInv, HistoryInv
<1>4. PICK i \in DOMAIN rows \ {n} : /\ Pair(rows[i]) = Pair(rows[n])
                                     /\ rows[i].source = rows[n].source
                                     /\ rows[i].conf = rows[n].conf
  BY <1>3 DEF RepeatedAt
<1>5. PICK old : old = Restrict(rows, DOMAIN rows \ {n})
  OBVIOUS
<1>6. DOMAIN old = DOMAIN rows \ {n} /\ \A j \in DOMAIN old : old[j] = rows[j]
  BY <1>5 DEF Restrict
<1>7. n \in DOMAIN rows /\ \A j \in DOMAIN old : j < n
  BY <1>2, <1>3, <1>6 DEF RepeatedAt, RowsOk
<1>8. RowsOk(old)
  BY <1>2, <1>6, FS_Subset DEF RowsOk
<1>9. Again(rows, n, i, old)
  BY <1>2, <1>3, <1>4, <1>6, <1>7, <1>8 DEF Again
<1> QED
  BY <1>2, <1>3, <1>5, <1>9, AgainResult

-----------------------------------------------------------------------------
(* The theorems.                                                           *)

(* Cluster ids are the same exactly where active evidence links, for any   *)
(* number of addresses and rows, whatever the order of the unions and      *)
(* however paths are compressed (replay.go:126-151, unionfind.go).         *)
THEOREM ClustersAreComponents == Spec => []SameIdIffLinked
  BY ReplayInvariant, SameIdIffLinkedHolds, PTL

(* The confidence stored for a member is, as the column rounds, that of a  *)
(* path to the anchor, and not below the weakest pair of the cluster       *)
(* (replay.go:153-171).                                                    *)
THEOREM ConfidenceIsConservative == Spec => []NeverOverstated
  BY ReplayInvariant, NeverOverstatedHolds, PTL

(* A threshold view reaches what float64 makes of its threshold, however   *)
(* that rounds, and refines the full view (store.go:211-231).              *)
THEOREM ThresholdViewHolds == Spec => []ThresholdHolds
  BY ReplayInvariant, ThresholdHoldsHolds, PTL

(* Recording the evidence of a transaction again leaves the replayed view  *)
(* as it was, ids and confidences included (replay.go:94-105, 199-211).    *)
THEOREM RedeliveryKeepsTheView == Spec => []RecordedAgainChangesNothing
  BY ReplayInvariant, RecordedAgainHolds, PTL

(* Invalidating a row leaves the other clusters as they were and only      *)
(* splits its own (evidence/store.go:53-68, replay.go).                    *)
THEOREM RollbackIsLocal == Spec => []RollbackStaysInItsCluster
  BY ReplayInvariant, RollbackHolds, PTL
=============================================================================
