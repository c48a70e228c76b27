---------------------------- MODULE PipelineProofs ----------------------------
(***************************************************************************)
(* What Run guarantees for every chain, batch and parameters.              *)
(***************************************************************************)
EXTENDS Pipeline, NaturalLemmas, TLAPS

-----------------------------------------------------------------------------
(* Sequences the stages build.                                             *)

(* s is a sequence, of whatever elements. *)
IsSeq(s) == s \in Seq(ToSet(s))

LEMMA SeqFacts ==
    ASSUME NEW s, IsSeq(s)
    PROVE  Len(s) \in Nat /\ DOMAIN s = 1..Len(s)
  BY DEF IsSeq

LEMMA SeqOver ==
    ASSUME NEW S, NEW t, t \in Seq(S)
    PROVE  IsSeq(t) /\ ToSet(t) \subseteq S /\ \A i \in DOMAIN t : t[i] \in S
<1>1. IsSeq(t)
  BY DEF IsSeq, ToSet
<1>2. \A i \in DOMAIN t : t[i] \in S
  OBVIOUS
<1>3. ToSet(t) \subseteq S
  BY <1>2 DEF ToSet
<1> QED
  BY <1>1, <1>2, <1>3

(* Pick of the first n elements, f telling it for fewer. *)
PickBody(s, I, n, f) ==
    [m \in 0..n |->
        IF m = 0 THEN <<>>
        ELSE IF m \in I THEN Append(f[m - 1], s[m]) ELSE f[m - 1]]

(* The recursive definition of Pick defines a function. *)
LEMMA PickExists ==
    ASSUME NEW s, NEW I, NEW l \in Nat
    PROVE  \E f : f = PickBody(s, I, l, f)
<1> DEFINE Bad == {n \in Nat : ~\E f : f = PickBody(s, I, n, f)}
<1> SUFFICES ASSUME Bad # {} PROVE FALSE
  OBVIOUS
<1>1. PICK n \in Bad : \A x \in Bad : n <= x
  <2>1. Bad \subseteq Nat
    OBVIOUS
  <2> HIDE DEF Bad
  <2> QED
    BY <2>1, LeastNatural
<1>2. n \in Nat /\ ~\E f : f = PickBody(s, I, n, f)
  BY <1>1
<1>3. n # 0
  <2> SUFFICES ASSUME n = 0 PROVE FALSE
    OBVIOUS
  <2> DEFINE g == [m \in 0..0 |-> <<>>]
  <2>1. g = PickBody(s, I, 0, g)
    BY DEF PickBody
  <2> QED
    BY <1>2, <2>1
<1>4. PICK f : f = PickBody(s, I, n - 1, f)
  <2>1. n - 1 \in Nat /\ ~(n <= n - 1)
    BY <1>2, <1>3
  <2>2. n - 1 \notin Bad
    BY <1>1, <2>1
  <2> QED
    BY <2>1, <2>2
<1> DEFINE top == IF n \in I THEN Append(f[n - 1], s[n]) ELSE f[n - 1]
           g == [m \in 0..n |-> IF m < n THEN f[m] ELSE top]
<1>5. ASSUME NEW m \in 0..n PROVE g[m] = PickBody(s, I, n, g)[m]
  <2>1. CASE m = n
    <3>1. n - 1 \in 0..n /\ n - 1 < n
      BY <1>2, <1>3
    <3>2. g[n - 1] = f[n - 1]
      BY <3>1
    <3> QED
      BY <1>2, <1>3, <2>1, <3>2 DEF PickBody
  <2>2. CASE m < n
    <3>1. m \in 0..(n - 1) /\ g[m] = f[m]
      BY <1>2, <2>2
    <3>2. f[m] = PickBody(s, I, n - 1, f)[m]
      BY <1>4
    <3>3. m # 0 => m - 1 \in 0..n /\ m - 1 < n /\ g[m - 1] = f[m - 1]
      BY <1>2, <2>2
    <3> HIDE DEF g
    <3> QED
      BY <3>1, <3>2, <3>3 DEF PickBody
  <2> QED
    BY <1>2, <2>1, <2>2
<1>6. g = PickBody(s, I, n, g)
  <2>1. PickBody(s, I, n, g) = [m \in 0..n |-> PickBody(s, I, n, g)[m]]
    BY DEF PickBody
  <2>2. g = [m \in 0..n |-> g[m]]
    OBVIOUS
  <2> HIDE DEF g
  <2> QED
    BY <1>5, <2>1, <2>2
<1> QED
  BY <1>2, <1>6

(* t holds the elements of s at the places in I up to n, and no others. *)
PickedUpTo(t, s, I, n) ==
    t \in Seq({s[i] : i \in {j \in I : j \in 1..n}})
    /\ \A i \in I : i \in 1..n => \E k \in DOMAIN t : t[k] = s[i]

(* What Pick returns: the elements at the given places. *)
LEMMA PickFacts ==
    ASSUME NEW s, IsSeq(s), NEW I, I \subseteq DOMAIN s
    PROVE  /\ IsSeq(Pick(s, I))
           /\ ToSet(Pick(s, I)) = {s[i] : i \in I}
<1> DEFINE l == Len(s)
           F == CHOOSE f : f = PickBody(s, I, l, f)
<1>1. l \in Nat /\ DOMAIN s = 1..l
  BY DEF IsSeq
<1>2. F = PickBody(s, I, l, F)
  BY <1>1, PickExists
<1>3. Pick(s, I) = F[l]
  BY DEF Pick, PickBody
<1> HIDE DEF F, l
<1> DEFINE Bad == {n \in Nat : n <= l /\ ~PickedUpTo(F[n], s, I, n)}
<1>4. Bad = {}
  <2> SUFFICES ASSUME Bad # {} PROVE FALSE
    OBVIOUS
  <2>1. PICK n \in Bad : \A x \in Bad : n <= x
    <3>1. Bad \subseteq Nat
      OBVIOUS
    <3> HIDE DEF Bad
    <3> QED
      BY <3>1, LeastNatural
  <2>2. n \in Nat /\ n <= l /\ ~PickedUpTo(F[n], s, I, n) /\ n \in 0..l
    BY <1>1, <2>1
  <2>3. F[n] = PickBody(s, I, l, F)[n]
    BY <1>2
  <2>4. n # 0
    <3> SUFFICES ASSUME n = 0 PROVE FALSE
      OBVIOUS
    <3>1. F[n] = <<>>
      BY <2>2, <2>3 DEF PickBody
    <3> QED
      BY <2>2, <3>1 DEF PickedUpTo
  <2>5. n - 1 \in Nat /\ PickedUpTo(F[n - 1], s, I, n - 1)
    <3>1. n - 1 \in Nat /\ n - 1 <= l /\ ~(n <= n - 1)
      BY <1>1, <2>2, <2>4
    <3> QED
      BY <2>1, <3>1
  <2>6. F[n] = IF n \in I THEN Append(F[n - 1], s[n]) ELSE F[n - 1]
    BY <2>2, <2>3, <2>4 DEF PickBody
  <2>7. \A j : j \in 1..n <=> j \in 1..(n - 1) \/ j = n
    BY <2>2, <2>4
  <2>8. CASE n \notin I
    <3>1. {j \in I : j \in 1..n} = {j \in I : j \in 1..(n - 1)}
      BY <2>7, <2>8
    <3>2. \A i \in I : i \in 1..n => i \in 1..(n - 1)
      BY <2>7, <2>8
    <3> QED
      BY <2>2, <2>5, <2>6, <2>8, <3>1, <3>2 DEF PickedUpTo
  <2>9. CASE n \in I
    <3> DEFINE t == F[n - 1]
               X == {s[i] : i \in {j \in I : j \in 1..n}}
               Y == {s[i] : i \in {j \in I : j \in 1..(n - 1)}}
    <3>1. Y \subseteq X /\ s[n] \in X
      BY <2>7, <2>9
    <3>2. t \in Seq(Y) /\ \A i \in I : i \in 1..(n - 1) => \E k \in DOMAIN t : t[k] = s[i]
      BY <2>5 DEF PickedUpTo
    <3>3. F[n] = Append(t, s[n])
      BY <2>6, <2>9
    <3> HIDE DEF t, X, Y
    <3>4. t \in Seq(X)
      BY <3>1, <3>2
    <3>5. Append(t, s[n]) \in Seq(X)
      BY <3>1, <3>4
    <3>6. /\ Len(t) + 1 \in DOMAIN Append(t, s[n])
          /\ Append(t, s[n])[Len(t) + 1] = s[n]
          /\ \A k \in DOMAIN t : k \in DOMAIN Append(t, s[n]) /\ Append(t, s[n])[k] = t[k]
      BY <3>1, <3>4
    <3>7. ASSUME NEW i \in I, i \in 1..n PROVE \E k \in DOMAIN Append(t, s[n]) : Append(t, s[n])[k] = s[i]
      <4>1. CASE i = n
        BY <3>6, <4>1
      <4>2. CASE i \in 1..(n - 1)
        <5>1. PICK k \in DOMAIN t : t[k] = s[i]
          BY <3>2, <4>2
        <5> QED
          BY <3>6, <5>1
      <4> QED
        BY <2>7, <3>7, <4>1, <4>2
    <3>8. PickedUpTo(F[n], s, I, n)
      BY <3>3, <3>5, <3>7 DEF PickedUpTo, X
    <3> QED
      BY <2>2, <3>8
  <2> QED
    BY <2>8, <2>9
<1>5. PickedUpTo(Pick(s, I), s, I, l)
  BY <1>1, <1>3, <1>4
<1> DEFINE t == Pick(s, I)
           X == {s[i] : i \in I}
<1>6. {j \in I : j \in 1..l} = I
  BY <1>1
<1>7. t \in Seq(X) /\ \A i \in I : \E k \in DOMAIN t : t[k] = s[i]
  BY <1>1, <1>5, <1>6 DEF PickedUpTo
<1> HIDE DEF t
<1>8. ToSet(t) = X
  <2>1. \A k \in DOMAIN t : t[k] \in X
    BY <1>7
  <2>2. \A x \in X : \E k \in DOMAIN t : t[k] = x
    BY <1>7
  <2> HIDE DEF X
  <2> QED
    BY <2>1, <2>2 DEF ToSet
<1> QED
  BY <1>7, <1>8 DEF IsSeq, t

(* What FlattenSeq returns is made of the elements of its sequences. *)
LEMMA FlattenFacts ==
    ASSUME NEW q, IsSeq(q), NEW S, \A i \in DOMAIN q : q[i] \in Seq(S)
    PROVE  FlattenSeq(q) \in Seq(S)
<1> DEFINE l == Len(q)
           F == CHOOSE f : f = FlattenBody(q, l, f)
<1>1. l \in Nat /\ DOMAIN q = 1..l
  BY DEF IsSeq
<1>2. F = FlattenBody(q, l, F)
  BY <1>1, FlattenExists
<1>3. CASE l = 0
  <2>1. FlattenSeq(q) = q
    BY <1>3 DEF FlattenSeq
  <2>2. q = <<>>
    BY <1>1, <1>3 DEF IsSeq
  <2> QED
    BY <2>1, <2>2
<1>4. CASE l # 0
  <2>1. FlattenSeq(q) = F[l]
    BY <1>4 DEF FlattenSeq, FlattenBody
  <2> HIDE DEF F, l
  <2> DEFINE Bad == {n \in Nat : 1 <= n /\ n <= l /\ F[n] \notin Seq(S)}
  <2>2. Bad = {}
    <3> SUFFICES ASSUME Bad # {} PROVE FALSE
      OBVIOUS
    <3>1. PICK n \in Bad : \A x \in Bad : n <= x
      <4>1. Bad \subseteq Nat
        OBVIOUS
      <4> HIDE DEF Bad
      <4> QED
        BY <4>1, LeastNatural
    <3>2. n \in Nat /\ 1 <= n /\ n <= l /\ F[n] \notin Seq(S) /\ n \in 1..l
      BY <1>1, <3>1
    <3>3. F[n] = FlattenBody(q, l, F)[n]
      BY <1>2
    <3>4. q[n] \in Seq(S)
      BY <1>1, <3>2
    <3>5. CASE n = 1
      BY <3>2, <3>3, <3>4, <3>5 DEF FlattenBody
    <3>6. CASE n # 1
      <4>1. n - 1 \in Nat /\ 1 <= n - 1 /\ n - 1 <= l /\ ~(n <= n - 1)
        BY <1>1, <3>2, <3>6
      <4>2. F[n - 1] \in Seq(S)
        BY <3>1, <4>1
      <4>3. F[n] = F[n - 1] \o q[n]
        BY <3>2, <3>3, <3>6 DEF FlattenBody
      <4> QED
        BY <3>2, <3>4, <4>2, <4>3
    <3> QED
      BY <3>5, <3>6
  <2> QED
    BY <1>1, <1>4, <2>1, <2>2
<1> QED
  BY <1>3, <1>4

(* FlattenSeq of sequences of whatever elements. *)
LEMMA FlattenElements ==
    ASSUME NEW q, IsSeq(q), \A i \in DOMAIN q : IsSeq(q[i])
    PROVE  /\ IsSeq(FlattenSeq(q))
           /\ \A x \in ToSet(FlattenSeq(q)) : \E i \in DOMAIN q : x \in ToSet(q[i])
<1> DEFINE S == {x \in UNION {ToSet(q[i]) : i \in DOMAIN q} : TRUE}
           t == FlattenSeq(q)
<1>1. ASSUME NEW i \in DOMAIN q PROVE q[i] \in Seq(S)
  <2>1. q[i] \in Seq(ToSet(q[i])) /\ ToSet(q[i]) \subseteq S
    BY DEF IsSeq
  <2> HIDE DEF S
  <2> QED
    BY <2>1
<1>2. t \in Seq(S)
  <2> HIDE DEF S
  <2> QED
    BY <1>1, FlattenFacts
<1>3. \A x \in S : \E i \in DOMAIN q : x \in ToSet(q[i])
  OBVIOUS
<1> HIDE DEF S, t
<1>4. IsSeq(t)
  BY <1>2 DEF IsSeq, ToSet
<1>5. ToSet(t) \subseteq S
  BY <1>2 DEF ToSet
<1> QED
  BY <1>3, <1>4, <1>5 DEF t

(* The list without repetitions has the same elements. *)
LEMMA FirstOccurrencesFacts ==
    ASSUME NEW s, IsSeq(s)
    PROVE  IsSeq(FirstOccurrences(s)) /\ ToSet(FirstOccurrences(s)) = ToSet(s)
<1> DEFINE I == {i \in DOMAIN s : \A j \in 1..(i - 1) : s[j] # s[i]}
<1>1. IsSeq(FirstOccurrences(s)) /\ ToSet(FirstOccurrences(s)) = {s[i] : i \in I}
  BY PickFacts DEF FirstOccurrences
<1>2. ASSUME NEW k \in DOMAIN s PROVE \E i \in I : s[i] = s[k]
  <2>1. Len(s) \in Nat /\ DOMAIN s = 1..Len(s)
    BY DEF IsSeq
  <2> DEFINE K == {i \in DOMAIN s : s[i] = s[k]}
  <2>2. K \subseteq Nat /\ K # {}
    BY <2>1
  <2>3. PICK i \in K : \A j \in K : i <= j
    <3> HIDE DEF K
    <3> QED
      BY <2>2, LeastNatural
  <2>4. ASSUME NEW j \in 1..(i - 1) PROVE s[j] # s[i]
    <3>1. i \in DOMAIN s /\ i \in 1..Len(s) /\ s[i] = s[k]
      BY <2>1, <2>3
    <3>2. j \in 1..Len(s) /\ ~(i <= j)
      BY <2>1, <3>1
    <3> QED
      BY <2>1, <2>3, <3>1, <3>2
  <2> QED
    BY <2>3, <2>4
<1>3. ToSet(s) = {s[i] : i \in I}
  BY <1>2 DEF ToSet
<1> QED
  BY <1>1, <1>3

(* A sequence given place by place. *)
LEMMA MappedSeq ==
    ASSUME NEW t, NEW n \in Nat, DOMAIN t = 1..n, t = [i \in 1..n |-> t[i]]
    PROVE  IsSeq(t) /\ Len(t) = n
<1>1. ToSet(t) = {t[i] : i \in 1..n}
  BY DEF ToSet
<1>2. t \in [1..n -> ToSet(t)]
  BY <1>1
<1> HIDE <1>1
<1>3. t \in Seq(ToSet(t))
  BY <1>2
<1> QED
  BY <1>3 DEF IsSeq

Own(ds) == {ds[i].addr : i \in DOMAIN ds}

(* Run's addresses are those of the deltas. *)
LEMMA AddressesFacts ==
    ASSUME NEW ds, IsSeq(ds)
    PROVE  IsSeq(Addresses(ds)) /\ ToSet(Addresses(ds)) = Own(ds)
<1> DEFINE as == [i \in DOMAIN ds |-> ds[i].addr]
<1>1. Len(ds) \in Nat /\ DOMAIN ds = 1..Len(ds)
  BY DEF IsSeq
<1>2. DOMAIN as = 1..Len(ds) /\ as = [i \in 1..Len(ds) |-> as[i]]
  BY <1>1
<1>3. ToSet(as) = Own(ds)
  BY DEF ToSet, Own
<1>4. Addresses(ds) = FirstOccurrences(as)
  BY DEF Addresses
<1> HIDE DEF as
<1>5. IsSeq(as)
  BY <1>1, <1>2, MappedSeq
<1> QED
  BY <1>3, <1>4, <1>5, FirstOccurrencesFacts

LEMMA SpentFacts ==
    ASSUME NEW td, IsSeq(td)
    PROVE  IsSeq(SpentAddresses(td)) /\ ToSet(SpentAddresses(td)) \subseteq Own(td)
<1> DEFINE I == {i \in DOMAIN td : td[i].amt < 0}
           t == Pick(td, I)
<1>1. IsSeq(t) /\ ToSet(t) = {td[i] : i \in I}
  BY PickFacts
<1>2. SpentAddresses(td) = Addresses(t)
  BY DEF SpentAddresses
<1>3. Own(t) \subseteq Own(td)
  <2>1. ASSUME NEW k \in DOMAIN t PROVE t[k].addr \in Own(td)
    <3>1. t[k] \in {td[i] : i \in I}
      BY <1>1 DEF ToSet
    <3> QED
      BY <3>1 DEF Own
  <2> HIDE DEF t
  <2> QED
    BY <2>1 DEF Own
<1> HIDE DEF t
<1> QED
  BY <1>1, <1>2, <1>3, AddressesFacts

LEMMA ReceivedFacts ==
    ASSUME NEW td, IsSeq(td)
    PROVE  /\ IsSeq(ReceivedEntries(td))
           /\ \A i \in DOMAIN ReceivedEntries(td) : ReceivedEntries(td)[i].addr \in Own(td)
<1> DEFINE I == {i \in DOMAIN td : td[i].amt > 0}
           t == Pick(td, I)
<1>1. IsSeq(t) /\ ToSet(t) = {td[i] : i \in I}
  BY PickFacts
<1>2. ReceivedEntries(td) = t
  BY DEF ReceivedEntries
<1>3. ASSUME NEW k \in DOMAIN t PROVE t[k].addr \in Own(td)
  <2>1. t[k] \in {td[i] : i \in I}
    BY <1>1 DEF ToSet
  <2> QED
    BY <2>1 DEF Own
<1> QED
  BY <1>1, <1>2, <1>3

(* td holds deltas of ds, all of one transaction. *)
Part(td, ds) ==
    /\ IsSeq(td) /\ 1 \in DOMAIN td
    /\ ToSet(td) \subseteq ToSet(ds)
    /\ \A i \in DOMAIN td : td[i].tx = td[1].tx

(* GroupByTx splits a batch into transactions. *)
LEMMA GroupFacts ==
    ASSUME NEW ds, IsSeq(ds)
    PROVE  /\ IsSeq(GroupByTx(ds))
           /\ \A k \in DOMAIN GroupByTx(ds) : Part(GroupByTx(ds)[k], ds)
<1> DEFINE ids == [i \in DOMAIN ds |-> ds[i].tx]
           txs == FirstOccurrences(ids)
           At(k) == {i \in DOMAIN ds : ds[i].tx = txs[k]}
           g == [k \in DOMAIN txs |-> Pick(ds, At(k))]
<1>1. IsSeq(ids) /\ ToSet(ids) = {ds[i].tx : i \in DOMAIN ds}
  <2>1. Len(ds) \in Nat /\ DOMAIN ds = 1..Len(ds)
    BY DEF IsSeq
  <2>2. DOMAIN ids = 1..Len(ds) /\ ids = [i \in 1..Len(ds) |-> ids[i]]
    BY <2>1
  <2>3. ToSet(ids) = {ds[i].tx : i \in DOMAIN ds}
    BY DEF ToSet
  <2> HIDE DEF ids
  <2> QED
    BY <2>1, <2>2, <2>3, MappedSeq
<1>2. IsSeq(txs) /\ ToSet(txs) = {ds[i].tx : i \in DOMAIN ds}
  <2> HIDE DEF ids
  <2> QED
    BY <1>1, FirstOccurrencesFacts
<1>3. GroupByTx(ds) = g
  BY DEF GroupByTx
<1> HIDE DEF txs
<1>4. IsSeq(g)
  <2>1. Len(txs) \in Nat /\ DOMAIN txs = 1..Len(txs)
    BY <1>2 DEF IsSeq
  <2>2. DOMAIN g = 1..Len(txs) /\ g = [k \in 1..Len(txs) |-> g[k]]
    BY <2>1
  <2> HIDE DEF g
  <2> QED
    BY <2>1, <2>2, MappedSeq
<1>5. ASSUME NEW k \in DOMAIN txs PROVE Part(Pick(ds, At(k)), ds)
  <2> DEFINE td == Pick(ds, At(k))
  <2>1. IsSeq(td) /\ ToSet(td) = {ds[i] : i \in At(k)}
    BY PickFacts
  <2>2. PICK j \in DOMAIN ds : ds[j].tx = txs[k]
    BY <1>2 DEF ToSet
  <2>3. ds[j] \in ToSet(td)
    BY <2>1, <2>2
  <2>4. \A x \in ToSet(td) : x \in ToSet(ds) /\ x.tx = txs[k]
    BY <2>1 DEF ToSet
  <2> HIDE DEF td
  <2>5. Len(td) \in Nat /\ DOMAIN td = 1..Len(td)
    BY <2>1 DEF IsSeq
  <2>6. 1 \in DOMAIN td
    <3>1. PICK i \in DOMAIN td : td[i] = ds[j]
      BY <2>3 DEF ToSet
    <3> QED
      BY <2>5, <3>1
  <2>7. \A i \in DOMAIN td : td[i].tx = txs[k]
    BY <2>4 DEF ToSet
  <2>8. \A i \in DOMAIN td : td[i].tx = td[1].tx
    BY <2>6, <2>7
  <2>9. ToSet(td) \subseteq ToSet(ds)
    BY <2>4
  <2> QED
    BY <2>1, <2>6, <2>8, <2>9 DEF Part, td
<1> QED
  BY <1>3, <1>4, <1>5
-----------------------------------------------------------------------------
(* What the engines generate.                                              *)

(* A candidate is about two addresses of the batch and carries its block;  *)
(* one for funding is about an address registered at this height, and one  *)
(* of the engines that ask IsExcluded about a transaction that is not.     *)
Sound(c, ds) ==
    /\ c.a \in Own(ds) /\ c.b \in Own(ds)
    /\ c.tx \in {ds[i].tx : i \in DOMAIN ds}
    /\ c.block = op /\ c.height = Height[op]
    /\ c.key = "funding" => seen[c.b] = Height[op]
    /\ c.key \in {"common-input", "change"} => c.tx \notin excluded

Yields(cs, ds) == IsSeq(cs) /\ \A i \in DOMAIN cs : Sound(cs[i], ds)

LEMMA NothingYields == ASSUME NEW ds PROVE Yields(<<>>, ds)
  BY DEF Yields, IsSeq, ToSet

LEMMA OneYields ==
    ASSUME NEW ds, NEW c, Sound(c, ds)
    PROVE  Yields(<<c>>, ds)
<1>1. ToSet(<<c>>) = {c}
  BY DEF ToSet
<1>2. <<c>> \in Seq({c})
  OBVIOUS
<1> QED
  BY <1>1, <1>2 DEF Yields, IsSeq

(* A part's addresses and transaction are the batch's. *)
LEMMA PartFacts ==
    ASSUME NEW ds, NEW td, Part(td, ds)
    PROVE  Own(td) \subseteq Own(ds) /\ td[1].tx \in {ds[i].tx : i \in DOMAIN ds}
<1>1. ASSUME NEW k \in DOMAIN td PROVE \E i \in DOMAIN ds : ds[i] = td[k]
  BY DEF Part, ToSet
<1>2. 1 \in DOMAIN td
  BY DEF Part
<1> QED
  BY <1>1, <1>2 DEF Own

(* What is yielded for each transaction is yielded for the batch. *)
LEMMA FlattenYields ==
    ASSUME NEW ds, NEW q, IsSeq(q), \A k \in DOMAIN q : Yields(q[k], ds)
    PROVE  Yields(FlattenSeq(q), ds)
<1> DEFINE t == FlattenSeq(q)
<1>1. \A k \in DOMAIN q : IsSeq(q[k])
  BY DEF Yields
<1>2. IsSeq(t) /\ \A x \in ToSet(t) : \E k \in DOMAIN q : x \in ToSet(q[k])
  BY <1>1, FlattenElements
<1> HIDE DEF t
<1>3. ASSUME NEW i \in DOMAIN t PROVE Sound(t[i], ds)
  <2>1. PICK k \in DOMAIN q : t[i] \in ToSet(q[k])
    BY <1>2 DEF ToSet
  <2>2. PICK j \in DOMAIN q[k] : t[i] = q[k][j]
    BY <2>1 DEF ToSet
  <2>3. Sound(q[k][j], ds)
    BY <2>2 DEF Yields
  <2> QED
    BY <2>2, <2>3
<1> QED
  BY <1>2, <1>3 DEF Yields, t

LEMMA CommonInputYields ==
    ASSUME NEW ds, NEW td, Part(td, ds)
    PROVE  Yields(CommonInput(td), ds)
<1> DEFINE as == SpentAddresses(td)
           ins == Plain(as)
           cs == [i \in 1..(Len(ins) - 1) |->
                    Candidate("common-input", ins[1], ins[i + 1], td, Confidence["common-input"])]
<1>1. IsSeq(as) /\ ToSet(as) \subseteq Own(td)
  BY SpentFacts DEF Part
<1>2. IsSeq(ins) /\ ToSet(ins) \subseteq Own(td)
  <2> HIDE DEF as
  <2>1. {i \in DOMAIN as : as[i] \notin hub} \subseteq DOMAIN as
    OBVIOUS
  <2>2. /\ IsSeq(Plain(as))
        /\ ToSet(Plain(as)) = {as[i] : i \in {j \in DOMAIN as : as[j] \notin hub}}
    BY <1>1, <2>1, PickFacts DEF Plain
  <2> QED
    BY <1>1, <2>2 DEF ToSet
<1>3. CASE td[1].tx \in excluded \/ Len(ins) < 2
  BY <1>3, NothingYields DEF CommonInput
<1>4. CASE ~(td[1].tx \in excluded \/ Len(ins) < 2)
  <2>1. CommonInput(td) = cs
    BY <1>4 DEF CommonInput
  <2> HIDE DEF ins
  <2>2. Len(ins) \in Nat /\ DOMAIN ins = 1..Len(ins)
    BY <1>2 DEF IsSeq
  <2>3. \A i \in DOMAIN ins : ins[i] \in Own(ds)
    BY <1>2, PartFacts DEF ToSet
  <2>4. \A i \in 1..(Len(ins) - 1) : 1 \in DOMAIN ins /\ i + 1 \in DOMAIN ins
    BY <2>2
  <2>5. \A i \in 1..(Len(ins) - 1) : Sound(cs[i], ds)
    BY <1>4, <2>3, <2>4, PartFacts DEF Sound, Candidate
  <2>6. DOMAIN cs = 1..(Len(ins) - 1) /\ cs = [i \in 1..(Len(ins) - 1) |-> cs[i]]
    OBVIOUS
  <2> HIDE DEF cs
  <2>7. Len(ins) - 1 \in Nat
    BY <1>4, <2>2
  <2>8. IsSeq(cs)
    BY <2>6, <2>7, MappedSeq
  <2> QED
    BY <2>1, <2>5, <2>6, <2>8 DEF Yields
<1> QED
  BY <1>3, <1>4

LEMMA SweepYields ==
    ASSUME NEW ds, NEW td, Part(td, ds)
    PROVE  Yields(Sweep(td), ds)
<1> DEFINE as == SpentAddresses(td)
           outs == ReceivedEntries(td)
           From(src, dst) ==
               IF src # dst /\ looksLikeSweep(td, src, dst)
               THEN <<Candidate("sweep-seed", dst, src, td,
                                Min({Confidence["sweep-seed"], Seeds[dst]}))>>
               ELSE <<>>
           To(out) ==
               IF Seeds[out.addr] = None THEN <<>>
               ELSE FlattenSeq([i \in DOMAIN as |-> From(as[i], out.addr)])
<1>1. Sweep(td) = FlattenSeq([i \in DOMAIN outs |-> To(outs[i])])
  BY DEF Sweep, Each
<1>2. IsSeq(as) /\ \A i \in DOMAIN as : as[i] \in Own(ds)
  BY SpentFacts, PartFacts DEF Part, ToSet
<1>3. IsSeq(outs) /\ \A i \in DOMAIN outs : outs[i].addr \in Own(ds)
  BY ReceivedFacts, PartFacts DEF Part
<1>4. ASSUME NEW src \in Own(ds), NEW dst \in Own(ds) PROVE Yields(From(src, dst), ds)
  <2> DEFINE c == Candidate("sweep-seed", dst, src, td,
                            Min({Confidence["sweep-seed"], Seeds[dst]}))
  <2>1. Sound(c, ds)
    BY PartFacts DEF Sound, Candidate
  <2> HIDE DEF c
  <2>2. Yields(<<c>>, ds) /\ Yields(<<>>, ds)
    BY <2>1, OneYields, NothingYields
  <2> QED
    BY <2>2 DEF c
<1> HIDE DEF as, outs, From
<1>5. ASSUME NEW out, out.addr \in Own(ds) PROVE Yields(To(out), ds)
  <2> DEFINE q == [i \in DOMAIN as |-> From(as[i], out.addr)]
  <2>1. Len(as) \in Nat /\ DOMAIN as = 1..Len(as)
    BY <1>2, SeqFacts
  <2>2. DOMAIN q = 1..Len(as) /\ q = [i \in 1..Len(as) |-> q[i]]
    BY <2>1
  <2>3. \A i \in DOMAIN q : Yields(q[i], ds)
    BY <1>2, <1>4, <1>5
  <2> HIDE DEF q
  <2>4. IsSeq(q)
    BY <2>1, <2>2, MappedSeq
  <2>5. Yields(FlattenSeq(q), ds) /\ Yields(<<>>, ds)
    BY <2>3, <2>4, FlattenYields, NothingYields
  <2> QED
    BY <2>5 DEF q
<1> DEFINE p == [i \in DOMAIN outs |-> To(outs[i])]
<1> HIDE DEF To
<1>6. Len(outs) \in Nat /\ DOMAIN outs = 1..Len(outs)
  BY <1>3 DEF IsSeq
<1>7. DOMAIN p = 1..Len(outs) /\ p = [i \in 1..Len(outs) |-> p[i]]
  BY <1>6
<1>8. \A i \in DOMAIN p : Yields(p[i], ds)
  BY <1>3, <1>5
<1>9. Sweep(td) = FlattenSeq(p)
  BY <1>1
<1> HIDE DEF p
<1>10. IsSeq(p)
  BY <1>6, <1>7, MappedSeq
<1> QED
  BY <1>8, <1>9, <1>10, FlattenYields

LEMMA ScoreRange == ASSUME NEW out PROVE scoreChangeCandidate(out) \in 0..100
<1>1. Weight["new"] = 50 /\ Weight["not-round"] = 20 /\ Weight["respent"] = 30
  BY DEF Weight
<1> QED
  BY <1>1 DEF scoreChangeCandidate

(* The engine finds an output to take for the change: the first of those   *)
(* with the highest score.                                                 *)
LEMMA BestExists ==
    ASSUME NEW outs, IsSeq(outs), outs # <<>>
    PROVE  \E i \in DOMAIN outs : \A j \in DOMAIN outs :
               \/ scoreChangeCandidate(outs[i]) > scoreChangeCandidate(outs[j])
               \/ scoreChangeCandidate(outs[i]) = scoreChangeCandidate(outs[j]) /\ i <= j
<1> DEFINE f == [i \in DOMAIN outs |-> scoreChangeCandidate(outs[i])]
           S == {f[i] : i \in DOMAIN outs}
<1>1. Len(outs) \in Nat /\ DOMAIN outs = 1..Len(outs) /\ DOMAIN outs # {}
  BY DEF IsSeq
<1>2. \A i \in DOMAIN outs : f[i] \in 0..100 /\ f[i] = scoreChangeCandidate(outs[i])
  BY ScoreRange
<1> HIDE DEF f
<1>3. S \subseteq 0..100 /\ S # {}
  BY <1>1, <1>2
<1>4. PICK m \in S : \A n \in S : n <= m
  <2> HIDE DEF S
  <2> QED
    BY <1>3, GreatestBelow
<1> DEFINE K == {i \in DOMAIN outs : f[i] = m}
<1>5. K \subseteq Nat /\ K # {}
  BY <1>1, <1>4
<1>6. PICK i \in K : \A j \in K : i <= j
  <2> HIDE DEF K
  <2> QED
    BY <1>5, LeastNatural
<1>7. ASSUME NEW j \in DOMAIN outs PROVE f[i] > f[j] \/ (f[i] = f[j] /\ i <= j)
  <2>1. f[j] \in S /\ f[i] = m /\ i \in DOMAIN outs
    BY <1>6
  <2>2. PICK x \in 0..100 : x = f[j]
    BY <1>2
  <2>3. PICK y \in 0..100 : y = f[i]
    BY <1>2, <2>1
  <2>4. x <= y
    BY <1>4, <2>1, <2>2, <2>3
  <2>5. CASE x = y
    <3>1. f[j] = m
      BY <2>1, <2>2, <2>3, <2>5
    <3>2. j \in K
      BY <3>1
    <3>3. i <= j
      BY <1>6, <3>2
    <3> QED
      BY <2>1, <3>1, <3>3
  <2>6. CASE x # y
    <3>1. y > x
      <4>1. x \in Int /\ y \in Int
        OBVIOUS
      <4> QED
        BY <2>4, <2>6, <4>1, SMT
    <3> QED
      BY <2>2, <2>3, <3>1
  <2> QED
    BY <2>5, <2>6
<1>8. i \in DOMAIN outs
  BY <1>6
<1> QED
  BY <1>2, <1>7, <1>8

LEMMA ChangeYields ==
    ASSUME NEW ds, NEW td, Part(td, ds)
    PROVE  Yields(Change(td), ds)
<1> DEFINE ins == SpentAddresses(td)
           outs == ReceivedEntries(td)
           best == CHOOSE i \in DOMAIN outs : \A j \in DOMAIN outs :
                       \/ scoreChangeCandidate(outs[i]) > scoreChangeCandidate(outs[j])
                       \/ /\ scoreChangeCandidate(outs[i]) = scoreChangeCandidate(outs[j])
                          /\ i <= j
           c == Candidate("change", ins[1], outs[best].addr, td,
                          Min({Confidence["change"], scoreChangeCandidate(outs[best])}))
<1>1. \/ Change(td) = <<>>
      \/ /\ Change(td) = <<c>>
         /\ td[1].tx \notin excluded /\ ins # <<>> /\ outs # <<>>
  BY DEF Change
<1>2. IsSeq(ins) /\ \A i \in DOMAIN ins : ins[i] \in Own(ds)
  BY SpentFacts, PartFacts DEF Part, ToSet
<1>3. IsSeq(outs) /\ \A i \in DOMAIN outs : outs[i].addr \in Own(ds)
  BY ReceivedFacts, PartFacts DEF Part
<1>4. CASE Change(td) = <<>>
  BY <1>4, NothingYields
<1>5. CASE Change(td) = <<c>> /\ td[1].tx \notin excluded /\ ins # <<>> /\ outs # <<>>
  <2> HIDE DEF ins, outs
  <2>1. best \in DOMAIN outs
    BY <1>3, <1>5, BestExists
  <2> HIDE DEF best
  <2>2. 1 \in DOMAIN ins
    BY <1>2, <1>5 DEF IsSeq
  <2>3. Sound(c, ds)
    BY <1>2, <1>3, <1>5, <2>1, <2>2, PartFacts DEF Sound, Candidate
  <2> HIDE DEF c
  <2> QED
    BY <1>5, <2>3, OneYields
<1> QED
  BY <1>1, <1>4, <1>5

(* The first spender and receiving deltas of the transaction, for both     *)
(* engines that pair them.                                                 *)
LEMMA FirstSpenderYields ==
    ASSUME NEW ds, NEW td, Part(td, ds), NEW key, key \in {"funding", "deployer"},
           1 \in DOMAIN SpentAddresses(td),
           NEW J, J \subseteq DOMAIN ReceivedEntries(td),
           key = "funding" => \A j \in J : seen[ReceivedEntries(td)[j].addr] = Height[op],
           NEW outs, outs = Pick(ReceivedEntries(td), J)
    PROVE  Yields([i \in DOMAIN outs |->
                      Candidate(key, SpentAddresses(td)[1], outs[i].addr, td, Confidence[key])], ds)
<1> DEFINE a == SpentAddresses(td)[1]
           all == ReceivedEntries(td)
           cs == [i \in DOMAIN outs |-> Candidate(key, a, outs[i].addr, td, Confidence[key])]
<1>1. a \in Own(ds)
  BY SpentFacts, PartFacts DEF Part, ToSet
<1>2. IsSeq(all) /\ \A i \in DOMAIN all : all[i].addr \in Own(ds)
  BY ReceivedFacts, PartFacts DEF Part
<1>3. IsSeq(outs) /\ ToSet(outs) = {all[i] : i \in J}
  <2> HIDE DEF all
  <2> QED
    BY <1>2, PickFacts DEF all
<1>4. ASSUME NEW i \in DOMAIN outs
      PROVE  outs[i].addr \in Own(ds) /\ (key = "funding" => seen[outs[i].addr] = Height[op])
  <2>1. PICK j \in J : outs[i] = all[j]
    BY <1>3 DEF ToSet
  <2> QED
    BY <1>2, <2>1
<1> HIDE DEF a, all
<1>5. \A i \in DOMAIN outs : Sound(cs[i], ds)
  BY <1>1, <1>4, PartFacts DEF Sound, Candidate
<1>6. Len(outs) \in Nat /\ DOMAIN outs = 1..Len(outs)
  BY <1>3, SeqFacts
<1>7. DOMAIN cs = 1..Len(outs) /\ cs = [i \in 1..Len(outs) |-> cs[i]]
  BY <1>6
<1> HIDE DEF cs
<1>8. IsSeq(cs)
  BY <1>6, <1>7, MappedSeq
<1>9. Yields(cs, ds)
  BY <1>5, <1>6, <1>7, <1>8 DEF Yields
<1> QED
  BY <1>9 DEF cs, a

LEMMA FundingYields ==
    ASSUME NEW ds, NEW td, Part(td, ds)
    PROVE  Yields(Funding(td), ds)
<1> DEFINE ins == SpentAddresses(td)
           all == ReceivedEntries(td)
           J == {i \in DOMAIN all : /\ all[i].addr # ins[1]
                                    /\ ~all[i].create /\ isNewAddress(all[i].addr)}
           outs == Pick(all, J)
           cs == [i \in DOMAIN outs |->
                    Candidate("funding", ins[1], outs[i].addr, td, Confidence["funding"])]
<1>1. Funding(td) = IF ins = <<>> \/ ins[1] \in hub THEN <<>> ELSE cs
  BY DEF Funding, FirstSpenderTo
<1>2. IsSeq(ins)
  BY SpentFacts DEF Part
<1>3. CASE ins # <<>>
  <2>1. 1 \in DOMAIN ins
    <3> HIDE DEF ins
    <3> QED
      BY <1>2, <1>3 DEF IsSeq
  <2>2. J \subseteq DOMAIN all /\ \A j \in J : seen[all[j].addr] = Height[op]
    BY DEF isNewAddress
  <2>3. Yields(cs, ds)
    BY <2>1, <2>2, FirstSpenderYields
  <2> QED
    BY <1>1, <2>3, NothingYields
<1>4. CASE ins = <<>>
  BY <1>1, <1>4, NothingYields
<1> QED
  BY <1>3, <1>4

LEMMA DeployerYields ==
    ASSUME NEW ds, NEW td, Part(td, ds)
    PROVE  Yields(Deployer(td), ds)
<1> DEFINE ins == SpentAddresses(td)
           all == ReceivedEntries(td)
           J == {i \in DOMAIN all : all[i].addr # ins[1] /\ all[i].create}
           outs == Pick(all, J)
           cs == [i \in DOMAIN outs |->
                    Candidate("deployer", ins[1], outs[i].addr, td, Confidence["deployer"])]
<1>1. Deployer(td) = IF ins = <<>> \/ ins[1] \in hub THEN <<>> ELSE cs
  BY DEF Deployer, FirstSpenderTo
<1>2. IsSeq(ins)
  BY SpentFacts DEF Part
<1>3. CASE ins # <<>>
  <2>1. 1 \in DOMAIN ins
    <3> HIDE DEF ins
    <3> QED
      BY <1>2, <1>3 DEF IsSeq
  <2>2. J \subseteq DOMAIN all
    OBVIOUS
  <2>3. Yields(cs, ds)
    BY <2>1, <2>2, FirstSpenderYields
  <2> QED
    BY <1>1, <2>3, NothingYields
<1>4. CASE ins = <<>>
  BY <1>1, <1>4, NothingYields
<1> QED
  BY <1>3, <1>4

LEMMA MinMaxFacts ==
    ASSUME NEW x \in Nat, NEW y \in Nat
    PROVE  /\ Min({x, y}) \in {x, y} /\ Max({x, y}) \in {x, y}
           /\ Max({x, y}) >= x /\ Max({x, y}) >= y
<1>1. \E m \in {x, y} : \A n \in {x, y} : m <= n
  OBVIOUS
<1>2. \E m \in {x, y} : \A n \in {x, y} : m >= n
  OBVIOUS
<1> QED
  BY <1>1, <1>2 DEF Min, Max

LEMMA PairsYield ==
    ASSUME NEW ds, NEW td, Part(td, ds), Own(ds) \subseteq Nat
    PROVE  Yields(PairsOf(td), ds)
<1> DEFINE as == Addresses(td)
           C(i, j) == Candidate("behavioral", Min({as[i], as[i + j]}), Max({as[i], as[i + j]}),
                                td, Confidence["behavioral"])
           With(i) == [j \in 1..(Len(as) - i) |-> C(i, j)]
           q == [i \in DOMAIN as |-> With(i)]
<1>1. PairsOf(td) = FlattenSeq(q)
  BY DEF PairsOf
<1>2. IsSeq(as) /\ \A i \in DOMAIN as : as[i] \in Own(ds)
  BY AddressesFacts, PartFacts DEF Part, ToSet
<1> HIDE DEF as
<1>3. PICK l \in Nat : l = Len(as) /\ DOMAIN as = 1..l
  BY <1>2, SeqFacts
<1>4. ASSUME NEW i \in 1..l, NEW j \in 1..(l - i) PROVE Sound(C(i, j), ds)
  <2>1. i + j \in 1..l
    OBVIOUS
  <2>2. as[i] \in Own(ds) /\ as[i + j] \in Own(ds)
    BY <1>2, <1>3, <2>1
  <2>3. as[i] \in Nat /\ as[i + j] \in Nat
    BY <2>2
  <2>4. Min({as[i], as[i + j]}) \in Own(ds) /\ Max({as[i], as[i + j]}) \in Own(ds)
    BY <2>2, <2>3, MinMaxFacts
  <2> QED
    BY <2>4, PartFacts DEF Sound, Candidate
<1> HIDE DEF C
<1>5. ASSUME NEW i \in 1..l PROVE Yields(With(i), ds)
  <2> DEFINE cs == With(i)
             n == l - i
  <2>1. n \in Nat
    OBVIOUS
  <2>2. DOMAIN cs = 1..n /\ cs = [j \in 1..n |-> cs[j]] /\ \A j \in 1..n : Sound(cs[j], ds)
    BY <1>3, <1>4
  <2> HIDE DEF cs, n
  <2>3. IsSeq(cs)
    BY <2>1, <2>2, MappedSeq
  <2>4. Yields(cs, ds)
    BY <2>2, <2>3 DEF Yields
  <2> QED
    BY <2>4 DEF cs
<1> HIDE DEF With
<1>6. DOMAIN q = 1..l /\ q = [i \in 1..l |-> q[i]] /\ \A i \in DOMAIN q : Yields(q[i], ds)
  BY <1>3, <1>5
<1> HIDE DEF q
<1>7. IsSeq(q)
  BY <1>3, <1>6, MappedSeq
<1> QED
  BY <1>1, <1>6, <1>7, FlattenYields

LEMMA PickYields ==
    ASSUME NEW ds, NEW cs, Yields(cs, ds), NEW J, J \subseteq DOMAIN cs
    PROVE  Yields(Pick(cs, J), ds)
<1> DEFINE t == Pick(cs, J)
<1>1. IsSeq(t) /\ ToSet(t) = {cs[i] : i \in J}
  BY PickFacts DEF Yields
<1> HIDE DEF t
<1>2. ASSUME NEW i \in DOMAIN t PROVE Sound(t[i], ds)
  <2>1. PICK j \in J : t[i] = cs[j]
    BY <1>1 DEF ToSet
  <2> QED
    BY <2>1 DEF Yields
<1> QED
  BY <1>1, <1>2 DEF Yields, t

(* Whatever engine, its candidates are sound. *)
LEMMA GenerateYields ==
    ASSUME NEW ds, IsSeq(ds), Own(ds) \subseteq Nat, NEW key, key \in ToSet(Engines)
    PROVE  Yields(Generate(key, ds), ds)
<1> DEFINE g == GroupByTx(ds)
<1>1. IsSeq(g) /\ \A k \in DOMAIN g : Part(g[k], ds)
  BY GroupFacts
<1> HIDE DEF g
<1>2. Len(g) \in Nat /\ DOMAIN g = 1..Len(g)
  BY <1>1, SeqFacts
<1>3. ASSUME NEW q, DOMAIN q = DOMAIN g, q = [k \in DOMAIN g |-> q[k]],
             \A k \in DOMAIN g : Yields(q[k], ds)
      PROVE  Yields(FlattenSeq(q), ds)
  <2>1. IsSeq(q)
    BY <1>2, <1>3, MappedSeq
  <2> QED
    BY <1>3, <2>1, FlattenYields
<1>4. Yields(Each(g, CommonInput), ds)
  <2> DEFINE q == [k \in DOMAIN g |-> CommonInput(g[k])]
  <2>1. Each(g, CommonInput) = FlattenSeq(q)
    BY DEF Each
  <2>2. \A k \in DOMAIN g : Yields(q[k], ds)
    BY <1>1, CommonInputYields
  <2>3. DOMAIN q = DOMAIN g /\ q = [k \in DOMAIN g |-> q[k]]
    OBVIOUS
  <2> HIDE DEF q
  <2> QED
    BY <1>3, <2>1, <2>2, <2>3
<1>5. Yields(Each(g, Sweep), ds)
  <2> DEFINE q == [k \in DOMAIN g |-> Sweep(g[k])]
  <2>1. Each(g, Sweep) = FlattenSeq(q)
    BY DEF Each
  <2>2. \A k \in DOMAIN g : Yields(q[k], ds)
    BY <1>1, SweepYields
  <2>3. DOMAIN q = DOMAIN g /\ q = [k \in DOMAIN g |-> q[k]]
    OBVIOUS
  <2> HIDE DEF q
  <2> QED
    BY <1>3, <2>1, <2>2, <2>3
<1>6. Yields(Each(g, Change), ds)
  <2> DEFINE q == [k \in DOMAIN g |-> Change(g[k])]
  <2>1. Each(g, Change) = FlattenSeq(q)
    BY DEF Each
  <2>2. \A k \in DOMAIN g : Yields(q[k], ds)
    BY <1>1, ChangeYields
  <2>3. DOMAIN q = DOMAIN g /\ q = [k \in DOMAIN g |-> q[k]]
    OBVIOUS
  <2> HIDE DEF q
  <2> QED
    BY <1>3, <2>1, <2>2, <2>3
<1>7. Yields(Each(g, Funding), ds)
  <2> DEFINE q == [k \in DOMAIN g |-> Funding(g[k])]
  <2>1. Each(g, Funding) = FlattenSeq(q)
    BY DEF Each
  <2>2. \A k \in DOMAIN g : Yields(q[k], ds)
    BY <1>1, FundingYields
  <2>3. DOMAIN q = DOMAIN g /\ q = [k \in DOMAIN g |-> q[k]]
    OBVIOUS
  <2> HIDE DEF q
  <2> QED
    BY <1>3, <2>1, <2>2, <2>3
<1>8. Yields(Each(g, Deployer), ds)
  <2> DEFINE q == [k \in DOMAIN g |-> Deployer(g[k])]
  <2>1. Each(g, Deployer) = FlattenSeq(q)
    BY DEF Each
  <2>2. \A k \in DOMAIN g : Yields(q[k], ds)
    BY <1>1, DeployerYields
  <2>3. DOMAIN q = DOMAIN g /\ q = [k \in DOMAIN g |-> q[k]]
    OBVIOUS
  <2> HIDE DEF q
  <2> QED
    BY <1>3, <2>1, <2>2, <2>3
<1>9. Yields(Behavioral(ds), ds)
  <2> DEFINE q == [k \in DOMAIN g |-> PairsOf(g[k])]
             all == Each(g, PairsOf)
             J == {i \in DOMAIN all :
                     /\ \A j \in 1..(i - 1) : <<all[j].a, all[j].b>> # <<all[i].a, all[i].b>>
                     /\ SharedTransactionCount(all[i].a, all[i].b) >= MinInteractions
                     /\ {all[i].a, all[i].b} \cap hub = {}}
  <2>1. all = FlattenSeq(q)
    BY DEF Each
  <2>2. \A k \in DOMAIN g : Yields(q[k], ds)
    BY <1>1, PairsYield
  <2>3. DOMAIN q = DOMAIN g /\ q = [k \in DOMAIN g |-> q[k]]
    OBVIOUS
  <2>4. Yields(all, ds)
    <3> HIDE DEF q, all
    <3> QED
      BY <1>3, <2>1, <2>2, <2>3
  <2>5. Behavioral(ds) = Pick(all, J) /\ J \subseteq DOMAIN all
    BY DEF Behavioral, g
  <2> HIDE DEF all, J
  <2> QED
    BY <2>4, <2>5, PickYields
<1>10. key \in {"common-input", "sweep-seed", "change", "funding", "deployer", "behavioral"}
  BY DEF ToSet, Engines
<1> QED
  BY <1>4, <1>5, <1>6, <1>7, <1>8, <1>9, <1>10, NothingYields DEF Generate, g

LEMMA RemoveAtFacts ==
    ASSUME NEW s, IsSeq(s), NEW i \in DOMAIN s
    PROVE  /\ IsSeq(RemoveAt(s, i)) /\ ToSet(RemoveAt(s, i)) \subseteq ToSet(s)
           /\ \A x \in ToSet(s) : x \in ToSet(RemoveAt(s, i)) \/ x = s[i]
<1> DEFINE S == ToSet(s)
           u == SubSeq(s, 1, i - 1)
           v == SubSeq(s, i + 1, Len(s))
           t == RemoveAt(s, i)
<1>1. s \in Seq(S) /\ \A k \in DOMAIN s : s[k] \in S
  BY DEF IsSeq, ToSet
<1>2. \A x \in S : \E k \in DOMAIN s : s[k] = x
  BY DEF ToSet
<1> HIDE DEF S
<1>3. PICK l \in Nat : l = Len(s) /\ DOMAIN s = 1..l
  BY <1>1
<1>4. i \in 1..l
  BY <1>3
<1>5. u \in Seq(S) /\ Len(u) = i - 1 /\ \A k \in 1..(i - 1) : u[k] = s[k]
  BY <1>1, <1>3, <1>4
<1>6. v \in Seq(S) /\ Len(v) = l - i /\ \A k \in 1..(l - i) : v[k] = s[i + k]
  BY <1>1, <1>3, <1>4
<1>7. t = u \o v
  BY DEF RemoveAt
<1> HIDE DEF t, u, v
<1>8. t \in Seq(S) /\ Len(t) = l - 1
  <2>1. u \in Seq(S) /\ v \in Seq(S) /\ Len(u) = i - 1 /\ Len(v) = l - i
    BY <1>5, <1>6
  <2>2. t \in Seq(S) /\ Len(t) = Len(u) + Len(v)
    <3>1. u \o v \in Seq(S)
      BY <2>1
    <3>2. Len(u \o v) = Len(u) + Len(v)
      BY <2>1
    <3> QED
      BY <1>7, <3>1, <3>2
  <2>3. Len(t) = (i - 1) + (l - i)
    BY <2>1, <2>2
  <2>4. (i - 1) + (l - i) = l - 1
    BY <1>4
  <2> QED
    BY <2>2, <2>3, <2>4
<1>9. \A k \in 1..(i - 1) : t[k] = u[k]
  BY <1>4, <1>5, <1>6, <1>7
<1>10. \A k \in i..(l - 1) : t[k] = v[k - (i - 1)]
  BY <1>4, <1>5, <1>6, <1>7
<1>11. DOMAIN t = 1..(l - 1)
  BY <1>8
<1>12. ASSUME NEW x \in S PROVE x \in ToSet(t) \/ x = s[i]
  <2>1. PICK k \in 1..l : s[k] = x
    BY <1>2, <1>3
  <2>2. CASE k < i
    <3>1. k \in 1..(i - 1) /\ k \in 1..(l - 1)
      BY <1>4, <2>2
    <3>2. t[k] = x
      BY <1>5, <1>9, <2>1, <3>1
    <3> QED
      BY <1>11, <3>1, <3>2 DEF ToSet
  <2>3. CASE k > i
    <3>1. k - 1 \in i..(l - 1) /\ k - 1 \in 1..(l - 1) /\ k - i \in 1..(l - i)
      BY <1>4, <2>3
    <3>2. (k - 1) - (i - 1) = k - i /\ i + (k - i) = k
      BY <1>4
    <3>3. t[k - 1] = v[k - i] /\ v[k - i] = s[k]
      BY <1>6, <1>10, <3>1, <3>2
    <3> QED
      BY <1>11, <2>1, <3>1, <3>3 DEF ToSet
  <2>4. CASE k = i
    BY <2>1, <2>4
  <2> QED
    BY <1>4, <2>2, <2>3, <2>4
<1>13. IsSeq(t) /\ ToSet(t) \subseteq S
  BY <1>8, SeqOver
<1> QED
  BY <1>12, <1>13 DEF S, t

LEMMA TailFacts ==
    ASSUME NEW s, IsSeq(s), s # <<>>
    PROVE  /\ IsSeq(Tail(s)) /\ ToSet(Tail(s)) \subseteq ToSet(s)
           /\ Head(s) \in ToSet(s)
           /\ \A x \in ToSet(s) : x \in ToSet(Tail(s)) \/ x = Head(s)
<1> DEFINE S == ToSet(s)
<1>1. s \in Seq(S) /\ \A k \in DOMAIN s : s[k] \in S
  BY DEF IsSeq, ToSet
<1>2. \A x \in S : \E k \in DOMAIN s : s[k] = x
  BY DEF ToSet
<1> HIDE DEF S
<1>3. PICK l \in Nat : l = Len(s) /\ DOMAIN s = 1..l /\ l > 0
  BY <1>1
<1>4. Tail(s) \in Seq(S) /\ Len(Tail(s)) = l - 1 /\ \A k \in 1..(l - 1) : Tail(s)[k] = s[k + 1]
  BY <1>1, <1>3
<1>5. Head(s) = s[1] /\ 1 \in 1..l
  BY <1>1, <1>3
<1>6. ASSUME NEW x \in S PROVE x \in ToSet(Tail(s)) \/ x = Head(s)
  <2>1. PICK k \in 1..l : s[k] = x
    BY <1>2, <1>3
  <2>2. CASE k = 1
    BY <1>5, <2>1, <2>2
  <2>3. CASE k # 1
    <3>1. k - 1 \in 1..(l - 1) /\ (k - 1) + 1 = k
      BY <2>3
    <3>2. Tail(s)[k - 1] = x /\ k - 1 \in DOMAIN Tail(s)
      BY <1>4, <2>1, <3>1
    <3> QED
      BY <3>2 DEF ToSet
  <2> QED
    BY <2>2, <2>3
<1>7. IsSeq(Tail(s)) /\ ToSet(Tail(s)) \subseteq S
  BY <1>4, SeqOver
<1>8. Head(s) \in S
  BY <1>1, <1>3, <1>5
<1> QED
  BY <1>6, <1>7, <1>8 DEF S

LEMMA ConcatYields ==
    ASSUME NEW ds, NEW s, NEW t, Yields(s, ds), Yields(t, ds)
    PROVE  Yields(s \o t, ds)
<1> DEFINE q == <<s, t>>
<1>1. IsSeq(s) /\ IsSeq(t)
  BY DEF Yields
<1> DEFINE S == ToSet(s) \cup ToSet(t)
<1>2. s \in Seq(S) /\ t \in Seq(S)
  BY <1>1 DEF IsSeq
<1>3. \A x \in S : (\E i \in DOMAIN s : s[i] = x) \/ (\E i \in DOMAIN t : t[i] = x)
  BY DEF ToSet
<1> HIDE DEF S
<1>4. s \o t \in Seq(S)
  BY <1>2
<1>5. IsSeq(s \o t) /\ \A i \in DOMAIN (s \o t) : (s \o t)[i] \in S
  BY <1>4, SeqOver
<1>6. \A x \in S : Sound(x, ds)
  BY <1>3 DEF Yields
<1> QED
  BY <1>5, <1>6 DEF Yields

LEMMA TailYields ==
    ASSUME NEW ds, NEW s, Yields(s, ds), s # <<>>
    PROVE  Yields(Tail(s), ds) /\ Sound(Head(s), ds)
<1>1. IsSeq(s) /\ \A x \in ToSet(s) : Sound(x, ds)
  BY DEF Yields, ToSet
<1>2. IsSeq(Tail(s)) /\ ToSet(Tail(s)) \subseteq ToSet(s) /\ Head(s) \in ToSet(s)
  BY <1>1, TailFacts
<1>3. \A i \in DOMAIN Tail(s) : Tail(s)[i] \in ToSet(s)
  BY <1>2 DEF ToSet
<1> QED
  BY <1>1, <1>2, <1>3 DEF Yields
-----------------------------------------------------------------------------
(* The inductive invariant.                                                *)

(* After the registry, and after the hubs. *)
Marked == {"collaborative", "flag", "exclude", "generate", "record"}
Upserted == {"hubs"} \cup Marked

Stage == {"idle", "insert", "upsert"} \cup Upserted

(* A row of merge_evidence. *)
IsRow(e) == e = [cand |-> e.cand, status |-> e.status]

(* Types, and the batch in hand is a part of its block. *)
TypeInv ==
    /\ op \in Block \cup {None} /\ pos \in Nat /\ to \in Nat
    /\ pc \in Stage
    /\ op # None => pos < Len(Deltas[op])
    /\ pc # "idle" => op # None /\ pos < to /\ to <= Len(Deltas[op])
    /\ seen \in [Address -> Nat \cup {None}] /\ last \in [Address -> Nat]
    /\ IsSeq(todo) /\ ToSet(todo) \subseteq Address
    /\ eng \in 0..Len(Engines)
    /\ IsSeq(cands)
    /\ IsSeq(evidence) /\ \A i \in DOMAIN evidence : IsRow(evidence[i])

Registered(a, h) == seen[a] # None /\ last[a] >= h

(* What is committed of the block in hand is registered, if no batch of it *)
(* was given up.                                                           *)
CommittedInv ==
    op # None => \A i \in 1..pos : op \in dropped \/ Registered(Deltas[op][i].addr, Height[op])

(* Whoever is in the batch is registered or still in the loop's list. *)
RegisterInv ==
    /\ CommittedInv
    /\ pc = "upsert" => \A a \in Own(Batch) : a \in ToSet(todo) \/ Registered(a, Height[op])
    /\ pc \in Upserted => \A a \in Own(Batch) : Registered(a, Height[op])

(* A row is of a delta of its block. *)
RowInv ==
    \A r \in rows :
        /\ r.block \in Block /\ r.height = Height[r.block]
        /\ r.addr \in Own(Deltas[r.block])

(* Whoever in the batch has too many counterparties is marked or still in  *)
(* the loop's list.                                                        *)
HubInv ==
    /\ pc = "hubs" => \A a \in Own(Batch) : Popular(a) => a \in hub \/ a \in ToSet(todo)
    /\ pc \in Marked => \A a \in Own(Batch) : Popular(a) => a \in hub

(* There are candidates only while they are generated and recorded, and    *)
(* they are sound.                                                         *)
CandInv ==
    /\ pc \notin {"generate", "record"} => cands = <<>>
    /\ pc \in {"generate", "record"} => Yields(cands, Batch)

(* Funding evidence is about a registered address. *)
FundingInv ==
    \A i \in DOMAIN evidence : LET c == evidence[i].cand IN
        c.key = "funding" => c.b \in Address /\ seen[c.b] \in Nat /\ c.height = seen[c.b]

IInv ==
    /\ TypeInv /\ RegisterInv /\ RowInv /\ RegistryCoversRows
    /\ HubInv /\ CandInv /\ FundingInv

-----------------------------------------------------------------------------
(* Facts about blocks, batches and stages.                                 *)

LEMMA BlockFacts ==
    ASSUME NEW b \in Block
    PROVE  /\ Len(Deltas[b]) \in Nat /\ Len(Deltas[b]) > 0 /\ DOMAIN Deltas[b] = 1..Len(Deltas[b])
           /\ IsSeq(Deltas[b]) /\ Own(Deltas[b]) \subseteq Address
           /\ CutAt[b] \subseteq 1..Len(Deltas[b])
           /\ Height[b] \in Nat /\ b # None
<1>1. IsSeq(Deltas[b]) /\ Len(Deltas[b]) > 0
  BY ChainAssumption DEF IsSeq
<1>2. Len(Deltas[b]) \in Nat /\ DOMAIN Deltas[b] = 1..Len(Deltas[b])
  BY <1>1, SeqFacts
<1>3. Own(Deltas[b]) \subseteq Address
  BY ChainAssumption DEF Own
<1>4. CutAt[b] \subseteq 1..Len(Deltas[b]) /\ Height[b] \in Nat /\ b # None
  BY ChainAssumption
<1> QED
  BY <1>1, <1>2, <1>3, <1>4

(* The batch in hand is the part of the block between pos and to. *)
LEMMA BatchFacts ==
    ASSUME TypeInv, pc # "idle"
    PROVE  /\ IsSeq(Batch) /\ Own(Batch) \subseteq Address /\ op \in Block
           /\ \A i \in DOMAIN Batch : \E j \in DOMAIN Deltas[op] : Batch[i] = Deltas[op][j]
           /\ \A j \in (pos + 1)..to : \E i \in DOMAIN Batch : Batch[i] = Deltas[op][j]
<1> DEFINE s == Deltas[op]
           S == ToSet(s)
<1>1. op \in Block /\ pos \in Nat /\ to \in Nat /\ pos < to /\ to <= Len(s)
  BY DEF TypeInv
<1>2. Len(s) \in Nat /\ DOMAIN s = 1..Len(s) /\ IsSeq(s) /\ Own(s) \subseteq Address
  BY <1>1, BlockFacts
<1>3. s \in Seq(S)
  BY <1>2 DEF IsSeq
<1>4. Batch = SubSeq(s, pos + 1, to)
  BY DEF Batch
<1> HIDE DEF s, S
<1>5. PICK t : t = SubSeq(s, pos + 1, to)
  OBVIOUS
<1>6. t \in Seq(S) /\ Len(t) = to - pos
  BY <1>1, <1>2, <1>3, <1>5
<1>7. \A i \in 1..(to - pos) : t[i] = s[pos + i]
  BY <1>1, <1>2, <1>3, <1>5
<1>8. DOMAIN t = 1..(to - pos)
  BY <1>1, <1>6
<1>9. IsSeq(t)
  BY <1>6, SeqOver
<1>10. ASSUME NEW i \in DOMAIN t PROVE \E j \in DOMAIN s : t[i] = s[j]
  <2>1. i \in 1..(to - pos)
    BY <1>8
  <2>2. pos + i \in 1..Len(s)
    BY <1>1, <1>2, <2>1
  <2> QED
    BY <1>2, <1>7, <2>1, <2>2
<1>11. ASSUME NEW j \in (pos + 1)..to PROVE \E i \in DOMAIN t : t[i] = s[j]
  <2>1. j - pos \in 1..(to - pos) /\ pos + (j - pos) = j
    BY <1>1
  <2> QED
    BY <1>7, <1>8, <2>1
<1>12. Own(t) \subseteq Address
  BY <1>2, <1>10 DEF Own
<1> QED
  BY <1>1, <1>4, <1>5, <1>9, <1>10, <1>11, <1>12 DEF s

(* The stages follow each other as Run calls them. *)
LEMMA AdvanceFacts ==
    ASSUME Advance, pc \in {"upsert", "hubs", "collaborative", "flag", "exclude", "generate"}
    PROVE  /\ pc = "upsert" => pc' = "hubs" /\ todo' = Addresses(Batch)
           /\ pc = "hubs" => pc' = "collaborative" /\ todo' = <<>>
           /\ pc = "collaborative" => pc' = "flag" /\ todo' = <<>>
           /\ pc = "flag" => pc' = "exclude" /\ todo' = <<>>
           /\ pc = "exclude" => pc' = "generate" /\ todo' = <<>>
           /\ pc = "generate" => pc' = "record" /\ todo' = <<>>
<1> DEFINE n == CHOOSE i \in DOMAIN Order : Order[i] = pc
<1>1. pc' = Order[1 + n] /\ todo' = IF Order[1 + n] = "hubs" THEN Addresses(Batch) ELSE <<>>
  BY DEF Advance
<1>2. DOMAIN Order = 1..8
  BY DEF Order
<1>3. /\ Order[2] = "upsert" /\ Order[3] = "hubs" /\ Order[4] = "collaborative"
      /\ Order[5] = "flag" /\ Order[6] = "exclude" /\ Order[7] = "generate" /\ Order[8] = "record"
      /\ Order[1] = "insert"
  BY DEF Order
<1>4. \E i \in DOMAIN Order : Order[i] = pc
  BY <1>2, <1>3
<1>5. n \in 1..8 /\ Order[n] = pc
  BY <1>2, <1>4
<1> HIDE DEF n
<1>6. n \in {1, 2, 3, 4, 5, 6, 7, 8}
  BY <1>5
<1>7. /\ pc = "upsert" => n = 2
      /\ pc = "hubs" => n = 3
      /\ pc = "collaborative" => n = 4
      /\ pc = "flag" => n = 5
      /\ pc = "exclude" => n = 6
      /\ pc = "generate" => n = 7
  BY <1>3, <1>5, <1>6
<1> QED
  BY <1>1, <1>3, <1>7

(* Nothing but the stored rows makes an address popular. *)
LEMMA PopularKept ==
    ASSUME rows' = rows
    PROVE  \A a : Popular(a)' <=> Popular(a)
  BY DEF Popular, Degree

(* Everything that Sound and the invariant read of the database, but not   *)
(* the evidence.                                                           *)
Kept == rows' = rows /\ seen' = seen /\ last' = last /\ hub' = hub /\ dust' = dust /\ excluded' = excluded

(* A batch begins after what is committed of its block. *)
LEMMA StartFacts ==
    ASSUME TypeInv, NextBlock \/ NextBatch
    PROVE  /\ Kept /\ evidence' = evidence /\ dropped' = dropped /\ todo' = todo
           /\ pc = "idle" /\ pc' = "insert" /\ eng' = 0 /\ cands' = <<>>
           /\ op' \in Block /\ pos' \in Nat /\ to' \in Nat /\ pos' < to' /\ to' <= Len(Deltas[op'])
           /\ (op = None /\ pos' = 0) \/ (op # None /\ op' = op /\ pos' = pos)
<1>1. PICK b \in Block, from \in Nat :
          /\ StartBatch(b, from)
          /\ (op = None /\ from = 0) \/ (op # None /\ b = op /\ from = pos)
          /\ pc = "idle"
  <2>1. CASE NextBlock
    BY <2>1 DEF NextBlock
  <2>2. CASE NextBatch
    BY <2>2 DEF NextBatch, TypeInv
  <2> QED
    BY <2>1, <2>2
<1>2. /\ op' = b /\ pos' = from /\ to' \in {e \in CutAt[b] \cup {Len(Deltas[b])} : e > from}
      /\ pc' = "insert" /\ eng' = 0 /\ cands' = <<>> /\ Kept
      /\ evidence' = evidence /\ dropped' = dropped /\ todo' = todo
  BY <1>1 DEF StartBatch, store, Kept
<1>3. Len(Deltas[b]) \in Nat /\ CutAt[b] \subseteq 1..Len(Deltas[b])
  BY BlockFacts
<1>4. to' \in Nat /\ from < to' /\ to' <= Len(Deltas[b])
  BY <1>2, <1>3
<1> QED
  BY <1>1, <1>2, <1>4

(* A batch left behind leaves the rest of its block, if there is any. *)
LEMMA LeaveFacts ==
    ASSUME TypeInv, CommitMessages \/ PeriodicFlushFails
    PROVE  /\ Kept /\ evidence' = evidence
           /\ pc # "idle" /\ pc' = "idle" /\ todo' = <<>> /\ eng' = 0 /\ cands' = <<>> /\ to' = 0
           /\ op \in Block
           /\ \/ op' = None /\ pos' = 0 /\ to = Len(Deltas[op])
              \/ op' = op /\ pos' = to /\ to < Len(Deltas[op])
           /\ \/ dropped' = dropped /\ pc = "record"
              \/ dropped' = dropped \cup {op}
<1>1. LeaveBatch /\ pc # "idle"
  BY DEF CommitMessages, PeriodicFlushFails
<1>2. op \in Block /\ to \in Nat /\ to <= Len(Deltas[op])
  BY <1>1 DEF TypeInv
<1>3. Len(Deltas[op]) \in Nat
  BY <1>2, BlockFacts
<1>4. Kept /\ evidence' = evidence
  BY <1>1 DEF LeaveBatch, store, Kept
<1>5. pc' = "idle" /\ todo' = <<>> /\ eng' = 0 /\ cands' = <<>> /\ to' = 0
  BY <1>1 DEF LeaveBatch
<1>6. \/ op' = None /\ pos' = 0 /\ to = Len(Deltas[op])
      \/ op' = op /\ pos' = to /\ to < Len(Deltas[op])
  BY <1>1, <1>2, <1>3 DEF LeaveBatch
<1>7. \/ dropped' = dropped /\ pc = "record"
      \/ dropped' = dropped \cup {op}
  BY DEF CommitMessages, PeriodicFlushFails
<1> QED
  BY <1>1, <1>2, <1>4, <1>5, <1>6, <1>7

(* The batch in hand does not change while it is run. *)
LEMMA SameBatch ==
    ASSUME inHand' = inHand
    PROVE  op' = op /\ pos' = pos /\ to' = to /\ Batch' = Batch
  BY DEF inHand, Batch

(* The steps within a batch that change no more of the state than their    *)
(* stage.                                                                  *)
Within == Ingest \/ Upsert \/ MarkHub \/ LoopDone \/ MarkCollaborativeTx \/ FlagDust
          \/ ExcludeDust \/ RunEngine \/ EnginesDone \/ RecordAndMerge \/ ExcludeOne \/ FlagOne

LEMMA WithinFacts ==
    ASSUME TypeInv, Within
    PROVE  /\ inHand' = inHand /\ dropped' = dropped /\ pc # "idle" /\ pc' # "idle"
           /\ ~Ingest => rows' = rows
           /\ ~Upsert => seen' = seen /\ last' = last
           /\ ~RecordAndMerge => evidence' = evidence
           /\ ~MarkHub => hub' = hub
<1>1. CASE Ingest
  BY <1>1 DEF Ingest, world
<1>2. CASE Upsert
  BY <1>2 DEF Upsert, world
<1>3. CASE MarkHub
  BY <1>3 DEF MarkHub, world
<1>4. CASE LoopDone
  BY <1>4, AdvanceFacts DEF LoopDone, world, store
<1>5. CASE MarkCollaborativeTx
  BY <1>5, AdvanceFacts DEF MarkCollaborativeTx, world
<1>6. CASE FlagDust
  BY <1>6, AdvanceFacts DEF FlagDust, world
<1>7. CASE ExcludeDust
  BY <1>7, AdvanceFacts DEF ExcludeDust, world
<1>8. CASE RunEngine
  BY <1>8 DEF RunEngine, world, store
<1>9. CASE EnginesDone
  BY <1>9, AdvanceFacts DEF EnginesDone, world, store
<1>10. CASE RecordAndMerge
  BY <1>10 DEF RecordAndMerge, world, store
<1>11. CASE ExcludeOne \/ FlagOne
  BY <1>11 DEF ExcludeOne, FlagOne, world, run
<1> QED
  BY <1>1, <1>2, <1>3, <1>4, <1>5, <1>6, <1>7, <1>8, <1>9, <1>10, <1>11 DEF Within

LEMMA EmptyIsSeq ==
    ASSUME NEW t, t = <<>>
    PROVE  IsSeq(t) /\ ToSet(t) = {}
<1>1. IsSeq(t)
  BY DEF IsSeq
<1>2. DOMAIN t = {}
  OBVIOUS
<1>3. ToSet(t) = {}
  BY <1>2 DEF ToSet
<1> QED
  BY <1>1, <1>3

LEMMA AppendFacts ==
    ASSUME NEW s, IsSeq(s), NEW x
    PROVE  /\ IsSeq(Append(s, x)) /\ DOMAIN Append(s, x) = DOMAIN s \cup {Len(s) + 1}
           /\ Append(s, x)[Len(s) + 1] = x /\ Len(s) + 1 \notin DOMAIN s
           /\ \A i \in DOMAIN s : Append(s, x)[i] = s[i]
<1> DEFINE S == ToSet(s) \cup {x}
<1>1. s \in Seq(S) /\ x \in S
  BY DEF IsSeq
<1> HIDE DEF S
<1>2. Append(s, x) \in Seq(S)
  BY <1>1
<1>3. IsSeq(Append(s, x))
  BY <1>2, SeqOver
<1> QED
  BY <1>1, <1>3

(* An engine's candidates are sound. *)
LEMMA EngineFacts ==
    ASSUME TypeInv, CandInv, RunEngine
    PROVE  /\ pc = "generate" /\ pc' = pc /\ Yields(cands', Batch)
           /\ eng' \in 0..Len(Engines)
<1>1. /\ pc = "generate" /\ pc' = pc /\ eng < Len(Engines) /\ eng' = eng + 1
      /\ cands' = cands \o Generate(Engines[eng'], Batch)
  BY DEF RunEngine
<1>2. Len(Engines) = 6 /\ DOMAIN Engines = 1..6
  BY DEF Engines
<1>3. eng \in 0..6
  BY <1>2 DEF TypeInv
<1>4. eng' \in 1..6 /\ eng' \in 0..6
  BY <1>1, <1>2, <1>3
<1>5. Engines[eng'] \in ToSet(Engines)
  BY <1>2, <1>4 DEF ToSet
<1>6. IsSeq(Batch) /\ Own(Batch) \subseteq Nat
  BY <1>1, BatchFacts, ChainAssumption
<1>7. Yields(Generate(Engines[eng'], Batch), Batch)
  BY <1>5, <1>6, GenerateYields
<1>8. Yields(cands, Batch)
  BY <1>1 DEF CandInv
<1>9. Yields(cands', Batch)
  BY <1>1, <1>7, <1>8, ConcatYields
<1> QED
  BY <1>1, <1>2, <1>4, <1>9

(* One upsert registers one address of the list, and takes nobody's        *)
(* registration away.                                                      *)
LEMMA UpsertFacts ==
    ASSUME TypeInv, Upsert
    PROVE  \E i \in DOMAIN todo :
              /\ todo[i] \in Address /\ todo' = RemoveAt(todo, i)
              /\ seen' \in [Address -> Nat \cup {None}] /\ last' \in [Address -> Nat]
              /\ seen'[todo[i]] # None /\ last'[todo[i]] >= Height[op]
              /\ \A a \in Address : seen[a] # None => seen'[a] = seen[a]
              /\ \A a \in Address : last'[a] >= last[a]
<1>1. PICK i \in DOMAIN todo :
          /\ seen' = [seen EXCEPT ![todo[i]] = IF seen[todo[i]] = None THEN Height[op] ELSE seen[todo[i]]]
          /\ last' = [last EXCEPT ![todo[i]] = Max({last[todo[i]], Height[op]})]
          /\ todo' = RemoveAt(todo, i)
  BY DEF Upsert
<1>2. pc = "upsert" /\ op' = op
  BY DEF Upsert, inHand
<1>3. op \in Block /\ seen \in [Address -> Nat \cup {None}] /\ last \in [Address -> Nat]
  BY <1>2 DEF TypeInv
<1>4. todo[i] \in Address
  BY DEF TypeInv, ToSet
<1>5. Height[op] \in Nat /\ None \notin Nat
  BY <1>3, BlockFacts, ChainAssumption
<1>6. PICK h \in Nat : h = Height[op]
  BY <1>5
<1>7. PICK m \in Nat : m = Max({last[todo[i]], Height[op]}) /\ m >= last[todo[i]] /\ m >= h
  <2>1. last[todo[i]] \in Nat
    BY <1>3, <1>4
  <2> QED
    BY <1>6, <2>1, MinMaxFacts
<1>8. seen' \in [Address -> Nat \cup {None}] /\ seen'[todo[i]] # None
  BY <1>1, <1>3, <1>4, <1>5
<1>9. last' = [last EXCEPT ![todo[i]] = m]
  BY <1>1, <1>7
<1>10. last' \in [Address -> Nat] /\ last'[todo[i]] >= h
  BY <1>3, <1>4, <1>7, <1>9
<1>11. \A a \in Address : seen[a] # None => seen'[a] = seen[a]
  BY <1>1, <1>3, <1>4
<1>12. \A a \in Address : last'[a] >= last[a]
  BY <1>3, <1>4, <1>7, <1>9
<1> QED
  BY <1>1, <1>2, <1>4, <1>6, <1>8, <1>10, <1>11, <1>12
-----------------------------------------------------------------------------
(* Every step preserves every part of the invariant.                       *)

(* What the rest of the state is after a step that is not within a batch. *)
LEMMA BetweenFacts ==
    ASSUME TypeInv, Crash \/ OnReorg \/ AddLabel
    PROVE  /\ Kept /\ op' = op /\ pos' = pos /\ dropped' = dropped
           /\ Crash => /\ pc # "idle" /\ pc' = "idle" /\ todo' = <<>> /\ eng' = 0 /\ cands' = <<>>
                       /\ to' = 0 /\ evidence' = evidence
           /\ OnReorg \/ AddLabel => /\ to' = to /\ pc' = pc /\ todo' = todo /\ eng' = eng
                                     /\ cands' = cands
           /\ AddLabel => evidence' = evidence
<1>1. CASE Crash
  BY <1>1 DEF Crash, OnReorg, AddLabel, store, Kept
<1>2. CASE OnReorg
  <2>1. pc = "idle"
    BY <1>2 DEF OnReorg
  <2>2. ~Crash
    BY <2>1 DEF Crash
  <2>3. AddLabel => evidence' = evidence
    BY DEF AddLabel
  <2> QED
    BY <1>2, <2>2, <2>3 DEF OnReorg, store, Kept, inHand, run
<1>3. CASE AddLabel
  <2>1. /\ Kept /\ op' = op /\ pos' = pos /\ dropped' = dropped
        /\ to' = to /\ pc' = pc /\ todo' = todo /\ eng' = eng /\ cands' = cands /\ evidence' = evidence
    BY <1>3 DEF AddLabel, store, Kept, inHand, run
  <2>2. Crash => pc # "idle" /\ pc' = "idle"
    BY DEF Crash
  <2> QED
    BY <2>1, <2>2
<1> QED
  BY <1>1, <1>2, <1>3

(* A notice only changes the status of evidence. *)
LEMMA ReorgFacts ==
    ASSUME OnReorg, TypeInv
    PROVE  /\ IsSeq(evidence') /\ DOMAIN evidence' = DOMAIN evidence
           /\ \A i \in DOMAIN evidence : IsRow(evidence'[i]) /\ evidence'[i].cand = evidence[i].cand
<1>1. PICK k \in 0..(Len(chain) - 1) :
          evidence' = [i \in DOMAIN evidence |->
                IF evidence[i].cand.block \in ToSet(SubSeq(chain, k + 1, Len(chain)))
                THEN Invalidate(evidence[i]) ELSE evidence[i]]
  BY DEF OnReorg
<1>2. Len(evidence) \in Nat /\ DOMAIN evidence = 1..Len(evidence)
  BY SeqFacts DEF TypeInv
<1>3. DOMAIN evidence' = DOMAIN evidence /\ evidence' = [i \in 1..Len(evidence) |-> evidence'[i]]
  BY <1>1, <1>2
<1>4. IsSeq(evidence')
  BY <1>2, <1>3, MappedSeq
<1>5. ASSUME NEW i \in DOMAIN evidence
      PROVE  IsRow(evidence'[i]) /\ evidence'[i].cand = evidence[i].cand
  <2>1. PICK c, st : evidence[i] = [cand |-> c, status |-> st]
    BY DEF TypeInv, IsRow
  <2>2. evidence'[i] = evidence[i] \/ evidence'[i] = [evidence[i] EXCEPT !.status = "invalidated"]
    BY <1>1 DEF Invalidate
  <2>3. evidence'[i] = evidence[i] \/ evidence'[i] = [cand |-> c, status |-> "invalidated"]
    BY <2>1, <2>2
  <2> QED
    BY <2>1, <2>3 DEF IsRow
<1> QED
  BY <1>3, <1>4, <1>5

(* What a step of Run does to the list and the stage. *)
LEMMA LoopFacts ==
    ASSUME TypeInv, Within
    PROVE  /\ pc' \in Stage /\ IsSeq(todo') /\ ToSet(todo') \subseteq Address
<1>1. IsSeq(todo) /\ ToSet(todo) \subseteq Address /\ pc \in Stage
  BY DEF TypeInv
<1>2. pc # "idle"
  BY WithinFacts
<1>3. IsSeq(Addresses(Batch)) /\ ToSet(Addresses(Batch)) \subseteq Address
  BY <1>2, BatchFacts, AddressesFacts
<1>4. ASSUME NEW t, t = <<>> PROVE IsSeq(t) /\ ToSet(t) \subseteq Address
  BY <1>4, EmptyIsSeq
<1>5. CASE Ingest
  BY <1>3, <1>5 DEF Ingest, Stage
<1>6. CASE Upsert
  <2>1. pc' = pc
    BY <1>6 DEF Upsert
  <2>2. PICK i \in DOMAIN todo : todo' = RemoveAt(todo, i)
    BY <1>6, UpsertFacts
  <2> QED
    BY <1>1, <2>1, <2>2, RemoveAtFacts
<1>7. CASE MarkHub
  <2>1. pc' = pc /\ todo # <<>> /\ todo' = Tail(todo)
    BY <1>7 DEF MarkHub
  <2> QED
    BY <1>1, <2>1, TailFacts
<1>8. CASE LoopDone \/ MarkCollaborativeTx \/ FlagDust \/ ExcludeDust \/ EnginesDone
  <2>1. /\ Advance /\ pc \in {"upsert", "hubs", "collaborative", "flag", "exclude", "generate"}
    BY <1>8 DEF LoopDone, MarkCollaborativeTx, FlagDust, ExcludeDust, EnginesDone
  <2>2. pc' \in Stage /\ todo' \in {<<>>, Addresses(Batch)}
    BY <2>1, AdvanceFacts DEF Stage, Upserted, Marked
  <2> QED
    BY <1>3, <1>4, <2>2
<1>9. CASE RunEngine \/ RecordAndMerge
  BY <1>1, <1>9 DEF RunEngine, RecordAndMerge
<1>10. CASE ExcludeOne \/ FlagOne
  BY <1>1, <1>10 DEF ExcludeOne, FlagOne, run
<1> QED
  BY <1>5, <1>6, <1>7, <1>8, <1>9, <1>10 DEF Within

(* Recording adds a row for the first candidate, or rejects it. *)
LEMMA RecordFacts ==
    ASSUME TypeInv, RecordAndMerge
    PROVE  /\ pc = "record" /\ pc' = pc /\ cands # <<>> /\ cands' = Tail(cands) /\ eng' = eng
           /\ Kept
           /\ IsSeq(evidence') /\ \A i \in DOMAIN evidence' : IsRow(evidence'[i])
           /\ DOMAIN evidence \subseteq DOMAIN evidence'
           /\ \A i \in DOMAIN evidence : evidence'[i] = evidence[i]
           /\ \A i \in DOMAIN evidence' \ DOMAIN evidence :
                 /\ evidence'[i].cand = Head(cands)
                 /\ {Head(cands).a, Head(cands).b} \cap hub = {}
<1>1. /\ pc = "record" /\ pc' = pc /\ cands # <<>> /\ cands' = Tail(cands) /\ eng' = eng /\ Kept
  BY DEF RecordAndMerge, store, Kept
<1>2. IsSeq(evidence) /\ \A i \in DOMAIN evidence : IsRow(evidence[i])
  BY DEF TypeInv
<1>3. \/ evidence' = evidence
      \/ /\ {Head(cands).a, Head(cands).b} \cap hub = {}
         /\ evidence' = Append(evidence, [cand |-> Head(cands), status |-> "active"])
  BY DEF RecordAndMerge
<1>4. CASE evidence' = evidence
  BY <1>1, <1>2, <1>4
<1>5. CASE /\ {Head(cands).a, Head(cands).b} \cap hub = {}
           /\ evidence' = Append(evidence, [cand |-> Head(cands), status |-> "active"])
  <2>1. PICK x : x = [cand |-> Head(cands), status |-> "active"]
    OBVIOUS
  <2>2. IsRow(x) /\ x.cand = Head(cands)
    BY <2>1 DEF IsRow
  <2>3. evidence' = Append(evidence, x)
    BY <1>5, <2>1
  <2>4. /\ IsSeq(evidence') /\ DOMAIN evidence' = DOMAIN evidence \cup {Len(evidence) + 1}
        /\ evidence'[Len(evidence) + 1] = x /\ \A i \in DOMAIN evidence : evidence'[i] = evidence[i]
    BY <1>2, <2>3, AppendFacts
  <2> QED
    BY <1>1, <1>2, <1>5, <2>2, <2>4
<1> QED
  BY <1>3, <1>4, <1>5

LEMMA TypeStep ==
    ASSUME IInv, [Next]_vars
    PROVE  TypeInv'
<1> USE DEF IInv
<1>1. ASSUME NEW t, t = <<>> PROVE IsSeq(t) /\ ToSet(t) \subseteq Address
  BY <1>1, EmptyIsSeq
<1>2. CASE NextBlock \/ NextBatch
  <2>1. /\ op' \in Block \cup {None} /\ pos' \in Nat /\ to' \in Nat /\ pc' \in Stage
        /\ op' # None => pos' < Len(Deltas[op'])
        /\ pc' # "idle" => op' # None /\ pos' < to' /\ to' <= Len(Deltas[op'])
    <3>1. op' \in Block /\ pos' \in Nat /\ to' \in Nat /\ pos' < to' /\ to' <= Len(Deltas[op']) /\ pc' = "insert"
      BY <1>2, StartFacts
    <3>2. Len(Deltas[op']) \in Nat /\ op' # None
      BY <3>1, BlockFacts
    <3> QED
      BY <3>1, <3>2 DEF Stage
  <2>2. Kept /\ evidence' = evidence /\ todo' = todo /\ eng' = 0 /\ cands' = <<>>
    BY <1>2, StartFacts
  <2>3. 0 \in 0..Len(Engines)
    BY DEF Engines
  <2> QED
    BY <1>1, <2>1, <2>2, <2>3 DEF TypeInv, Kept
<1>3. CASE CommitMessages \/ PeriodicFlushFails
  <2>1. /\ Kept /\ evidence' = evidence /\ pc' = "idle" /\ todo' = <<>> /\ eng' = 0 /\ cands' = <<>> /\ to' = 0
    BY <1>3, LeaveFacts
  <2>2. /\ op' \in Block \cup {None} /\ pos' \in Nat
        /\ op' # None => pos' < Len(Deltas[op'])
    <3>1. /\ op \in Block
          /\ \/ op' = None /\ pos' = 0 /\ to = Len(Deltas[op])
             \/ op' = op /\ pos' = to /\ to < Len(Deltas[op])
      BY <1>3, LeaveFacts
    <3>2. to \in Nat
      BY DEF TypeInv
    <3> QED
      BY <3>1, <3>2
  <2>3. 0 \in 0..Len(Engines)
    BY DEF Engines
  <2> QED
    BY <1>1, <2>1, <2>2, <2>3 DEF TypeInv, Kept, Stage
<1>4. CASE Within
  <2>1. op' = op /\ pos' = pos /\ to' = to /\ pc # "idle" /\ pc' # "idle"
    BY <1>4, WithinFacts, SameBatch
  <2>2. pc' \in Stage /\ IsSeq(todo') /\ ToSet(todo') \subseteq Address
    BY <1>4, LoopFacts
  <2>3. seen' \in [Address -> Nat \cup {None}] /\ last' \in [Address -> Nat]
    <3>1. CASE Upsert
      BY <3>1, UpsertFacts
    <3>2. CASE ~Upsert
      BY <1>4, <3>2, WithinFacts DEF TypeInv
    <3> QED
      BY <3>1, <3>2
  <2>4. IsSeq(evidence') /\ \A i \in DOMAIN evidence' : IsRow(evidence'[i])
    <3>1. CASE RecordAndMerge
      BY <3>1, RecordFacts
    <3>2. CASE ~RecordAndMerge
      BY <1>4, <3>2, WithinFacts DEF TypeInv
    <3> QED
      BY <3>1, <3>2
  <2>5. eng' \in 0..Len(Engines) /\ IsSeq(cands')
    <3>1. CASE RunEngine
      BY <3>1, EngineFacts DEF Yields
    <3>2. CASE RecordAndMerge
      <4>1. cands # <<>> /\ cands' = Tail(cands) /\ eng' = eng
        BY <3>2, RecordFacts
      <4>2. IsSeq(cands) /\ eng \in 0..Len(Engines)
        BY DEF TypeInv
      <4> QED
        BY <4>1, <4>2, TailFacts
    <3>3. CASE ~RunEngine /\ ~RecordAndMerge
      <4>1. eng' = eng /\ cands' = cands
        BY <1>4, <3>3 DEF Within, Ingest, Upsert, MarkHub, LoopDone, MarkCollaborativeTx, FlagDust,
                          ExcludeDust, EnginesDone, ExcludeOne, FlagOne, run
      <4> QED
        BY <4>1 DEF TypeInv
    <3> QED
      BY <3>1, <3>2, <3>3
  <2> QED
    BY <2>1, <2>2, <2>3, <2>4, <2>5 DEF TypeInv
<1>5. CASE Crash
  <2>1. /\ Kept /\ op' = op /\ pos' = pos /\ evidence' = evidence
        /\ pc' = "idle" /\ todo' = <<>> /\ eng' = 0 /\ cands' = <<>> /\ to' = 0
    BY <1>5, BetweenFacts
  <2>2. 0 \in 0..Len(Engines)
    BY DEF Engines
  <2> QED
    BY <1>1, <2>1, <2>2 DEF TypeInv, Kept, Stage
<1>6. CASE OnReorg \/ AddLabel
  <2>1. Kept /\ op' = op /\ pos' = pos /\ to' = to /\ pc' = pc /\ todo' = todo /\ eng' = eng /\ cands' = cands
    BY <1>6, BetweenFacts
  <2>2. IsSeq(evidence') /\ \A i \in DOMAIN evidence' : IsRow(evidence'[i])
    <3>1. CASE OnReorg
      BY <3>1, ReorgFacts
    <3>2. CASE AddLabel
      BY <3>2, BetweenFacts DEF TypeInv
    <3> QED
      BY <1>6, <3>1, <3>2
  <2> QED
    BY <2>1, <2>2 DEF TypeInv, Kept
<1>7. CASE UNCHANGED vars
  BY <1>7 DEF vars, TypeInv
<1> QED
  BY <1>2, <1>3, <1>4, <1>5, <1>6, <1>7 DEF Next, Within
(* Whoever is registered stays registered, with no lower last height. *)
LEMMA RegisteredKept ==
    ASSUME TypeInv, [Next]_vars, NEW a \in Address, NEW h \in Nat, Registered(a, h)
    PROVE  seen'[a] = seen[a] /\ seen'[a] # None /\ last'[a] >= h
<1>1. seen[a] # None /\ last[a] >= h /\ last[a] \in Nat
  BY DEF Registered, TypeInv
<1>2. CASE Upsert
  <2>1. last' \in [Address -> Nat] /\ seen'[a] = seen[a] /\ last'[a] >= last[a]
    BY <1>1, <1>2, UpsertFacts
  <2>2. last'[a] \in Nat
    BY <2>1
  <2> QED
    BY <1>1, <2>1, <2>2
<1>3. CASE ~Upsert
  <2>1. seen' = seen /\ last' = last
    <3>1. CASE NextBlock \/ NextBatch
      BY <3>1, StartFacts DEF Kept
    <3>2. CASE CommitMessages \/ PeriodicFlushFails
      BY <3>2, LeaveFacts DEF Kept
    <3>3. CASE Within
      BY <1>3, <3>3, WithinFacts
    <3>4. CASE Crash \/ OnReorg \/ AddLabel
      BY <3>4, BetweenFacts DEF Kept
    <3>5. CASE UNCHANGED vars
      BY <3>5 DEF vars
    <3> QED
      BY <3>1, <3>2, <3>3, <3>4, <3>5 DEF Next, Within
  <2> QED
    BY <1>1, <2>1
<1> QED
  BY <1>2, <1>3

(* What is committed of a block stays registered. *)
LEMMA CommittedStep ==
    ASSUME IInv, [Next]_vars
    PROVE  CommittedInv'
<1> USE DEF IInv
<1>1. SUFFICES ASSUME op' # None, NEW i \in 1..pos', op' \notin dropped'
      PROVE  seen'[Deltas[op'][i].addr] # None /\ last'[Deltas[op'][i].addr] >= Height[op']
  BY DEF Registered, CommittedInv
<1>2. pos' \in Nat /\ op' \in Block /\ pos' < Len(Deltas[op'])
  BY <1>1, TypeStep DEF TypeInv
<1>3. i \in DOMAIN Deltas[op']
  BY <1>2, BlockFacts
<1>4. Deltas[op'][i].addr \in Address /\ Height[op'] \in Nat
  BY <1>2, <1>3, BlockFacts DEF Own
<1>5. SUFFICES Registered(Deltas[op'][i].addr, Height[op'])
  BY <1>4, RegisteredKept
<1>6. ASSUME op' = op, pos' = pos, dropped' = dropped
      PROVE  Registered(Deltas[op'][i].addr, Height[op'])
  <2>1. op # None /\ i \in 1..pos /\ op \notin dropped
    BY <1>1, <1>2, <1>6, BlockFacts
  <2>2. Registered(Deltas[op][i].addr, Height[op])
    BY <2>1 DEF RegisterInv, CommittedInv
  <2> QED
    BY <1>6, <2>2
<1>7. CASE NextBlock \/ NextBatch
  <2>1. dropped' = dropped /\ ((op = None /\ pos' = 0) \/ (op' = op /\ pos' = pos))
    BY <1>7, StartFacts
  <2>2. pos' # 0
    BY <1>1
  <2> QED
    BY <1>6, <2>1, <2>2
<1>8. CASE CommitMessages \/ PeriodicFlushFails
  <2>1. /\ op' = op /\ pos' = to /\ pc # "idle"
        /\ (dropped' = dropped /\ pc = "record") \/ dropped' = dropped \cup {op}
    BY <1>8, LeaveFacts
  <2>2. op' \notin dropped /\ pc = "record"
    BY <1>1, <2>1
  <2>3. pos \in Nat /\ to \in Nat /\ op \in Block
    BY <1>2, <2>1 DEF TypeInv
  <2>4. CASE i <= pos
    <3>1. i \in 1..pos /\ op # None /\ op \notin dropped
      BY <1>2, <2>1, <2>2, <2>3, <2>4, BlockFacts
    <3>2. Registered(Deltas[op][i].addr, Height[op])
      BY <3>1 DEF RegisterInv, CommittedInv
    <3> QED
      BY <2>1, <3>2
  <2>5. CASE i > pos
    <3>1. i \in (pos + 1)..to
      BY <2>1, <2>3, <2>5
    <3>2. PICK j \in DOMAIN Batch : Batch[j] = Deltas[op][i]
      BY <2>1, <3>1, BatchFacts
    <3>3. Registered(Batch[j].addr, Height[op])
      BY <2>2 DEF RegisterInv, Own, Upserted, Marked
    <3> QED
      BY <2>1, <3>2, <3>3
  <2> QED
    BY <2>3, <2>4, <2>5
<1>9. CASE Within
  BY <1>6, <1>9, WithinFacts, SameBatch
<1>10. CASE Crash \/ OnReorg \/ AddLabel
  BY <1>6, <1>10, BetweenFacts
<1>11. CASE UNCHANGED vars
  BY <1>6, <1>11 DEF vars
<1> QED
  BY <1>7, <1>8, <1>9, <1>10, <1>11 DEF Next, Within

(* Whoever is in the batch: registered, or still in the list. *)
LEMMA RegisterStep ==
    ASSUME IInv, [Next]_vars
    PROVE  RegisterInv'
<1> USE DEF IInv
<1> DEFINE B1 == pc = "upsert" => \A a \in Own(Batch) : a \in ToSet(todo) \/ Registered(a, Height[op])
           B2 == pc \in Upserted => \A a \in Own(Batch) : Registered(a, Height[op])
<1>1. B1 /\ B2
  BY DEF RegisterInv
<1>2. CommittedInv'
  BY CommittedStep
<1>3. SUFFICES B1' /\ B2'
  BY <1>2 DEF RegisterInv
<1>4. pc' \in Stage
  BY TypeStep DEF TypeInv
<1>5. ASSUME pc' \notin {"upsert"} \cup Upserted PROVE B1' /\ B2'
  BY <1>5 DEF Upserted, Marked
<1>6. ASSUME pc # "idle", op' = op, Batch' = Batch
      PROVE  \A a \in Own(Batch) : Registered(a, Height[op]) => Registered(a, Height[op])'
  <2>1. ASSUME NEW a \in Own(Batch), Registered(a, Height[op])
        PROVE  seen'[a] # None /\ last'[a] >= Height[op]
    <3>1. a \in Address /\ op \in Block
      BY <1>6, BatchFacts
    <3> QED
      BY <2>1, <3>1, RegisteredKept, BlockFacts
  <2> QED
    BY <1>6, <2>1 DEF Registered
<1>7. ASSUME Batch' = Batch PROVE Own(Batch)' = Own(Batch)
  BY <1>7 DEF Own
<1>8. CASE Within
  <2>1. op' = op /\ Batch' = Batch /\ pc # "idle"
    BY <1>8, WithinFacts, SameBatch
  <2>2. CASE Ingest
    <3>1. pc' = "upsert" /\ todo' = Addresses(Batch)
      BY <2>2 DEF Ingest
    <3>2. ToSet(todo') = Own(Batch)
      BY <2>1, <3>1, BatchFacts, AddressesFacts
    <3> QED
      BY <1>7, <2>1, <3>1, <3>2 DEF Upserted, Marked
  <2>3. CASE Upsert
    <3>1. pc = "upsert" /\ pc' = pc
      BY <2>3 DEF Upsert
    <3>2. PICK i \in DOMAIN todo : /\ todo' = RemoveAt(todo, i)
                                   /\ seen'[todo[i]] # None /\ last'[todo[i]] >= Height[op]
      BY <2>3, UpsertFacts
    <3>3. \A a \in ToSet(todo) : a \in ToSet(todo') \/ a = todo[i]
      BY <3>2, RemoveAtFacts DEF TypeInv
    <3>4. ASSUME NEW a \in Own(Batch)
          PROVE  a \in ToSet(todo') \/ Registered(a, Height[op])'
      <4>1. CASE a \in ToSet(todo)
        <5>1. a = todo[i] => Registered(a, Height[op])'
          BY <2>1, <3>2 DEF Registered
        <5> QED
          BY <3>3, <4>1, <5>1
      <4>2. CASE Registered(a, Height[op])
        BY <1>6, <2>1, <4>2
      <4> QED
        BY <1>1, <3>1, <4>1, <4>2
    <3> QED
      BY <1>7, <2>1, <3>1, <3>4 DEF Upserted, Marked
  <2>4. CASE ~Ingest /\ ~Upsert
    <3>1. pc' # "upsert" /\ (pc \in Upserted \/ (pc = "upsert" /\ todo = <<>>))
      <4>1. CASE LoopDone
        BY <4>1, AdvanceFacts DEF LoopDone, Upserted
      <4>2. CASE MarkCollaborativeTx \/ FlagDust \/ ExcludeDust \/ EnginesDone
        BY <4>2, AdvanceFacts DEF MarkCollaborativeTx, FlagDust, ExcludeDust, EnginesDone, Upserted, Marked
      <4>3. CASE MarkHub \/ RunEngine \/ RecordAndMerge
        BY <4>3 DEF MarkHub, RunEngine, RecordAndMerge, Upserted, Marked
      <4>4. CASE ExcludeOne \/ FlagOne
        BY <4>4 DEF ExcludeOne, FlagOne, run, Upserted, Marked
      <4> QED
        BY <1>8, <2>4, <4>1, <4>2, <4>3, <4>4 DEF Within
    <3>2. \A a \in Own(Batch) : Registered(a, Height[op])
      <4>1. CASE pc = "upsert" /\ todo = <<>>
        BY <1>1, <4>1, EmptyIsSeq
      <4> QED
        BY <1>1, <3>1, <4>1
    <3>3. \A a \in Own(Batch)' : Registered(a, Height[op])'
      BY <1>6, <1>7, <2>1, <3>2
    <3> QED
      BY <3>1, <3>3
  <2> QED
    BY <2>2, <2>3, <2>4
<1>9. CASE NextBlock \/ NextBatch
  BY <1>5, <1>9, StartFacts DEF Upserted, Marked
<1>10. CASE CommitMessages \/ PeriodicFlushFails
  BY <1>5, <1>10, LeaveFacts DEF Upserted, Marked
<1>11. CASE Crash
  BY <1>5, <1>11, BetweenFacts DEF Upserted, Marked
<1>12. CASE OnReorg \/ AddLabel \/ UNCHANGED vars
  <2>1. op' = op /\ pos' = pos /\ to' = to /\ pc' = pc /\ todo' = todo /\ seen' = seen /\ last' = last
    BY <1>12, BetweenFacts DEF Kept, vars
  <2>2. Own(Batch)' = Own(Batch)
    BY <1>7, <2>1 DEF Batch
  <2>3. \A a : Registered(a, Height[op])' <=> Registered(a, Height[op])
    BY <2>1 DEF Registered
  <2> QED
    BY <1>1, <2>1, <2>2, <2>3
<1> QED
  BY <1>8, <1>9, <1>10, <1>11, <1>12 DEF Next, Within

(* Ingest adds rows of deltas of the batch in hand. *)
LEMMA IngestFacts ==
    ASSUME TypeInv, Ingest, NEW r \in rows'
    PROVE  \/ r \in rows
           \/ r.block = op /\ r.height = Height[op] /\ r.addr \in Own(Batch)
<1>1. rows' = rows \cup {Row(Batch[i]) : i \in NoConflict(Batch)}
  BY DEF Ingest
<1>2. CASE r \in rows
  BY <1>2
<1>3. CASE r \in {Row(Batch[i]) : i \in NoConflict(Batch)}
  <2>1. PICK i \in DOMAIN Batch : r = Row(Batch[i])
    BY <1>3 DEF NoConflict
  <2>2. r.block = op /\ r.height = Height[op] /\ r.addr = Batch[i].addr
    BY <2>1 DEF Row
  <2> QED
    BY <2>2 DEF Own
<1> QED
  BY <1>1, <1>2, <1>3

LEMMA RowStep ==
    ASSUME IInv, [Next]_vars
    PROVE  RowInv'
<1> USE DEF IInv
<1>1. CASE Ingest
  <2>1. pc # "idle"
    BY <1>1 DEF Ingest
  <2>2. op \in Block /\ \A i \in DOMAIN Batch : \E j \in DOMAIN Deltas[op] : Batch[i] = Deltas[op][j]
    BY <2>1, BatchFacts
  <2>3. Own(Batch) \subseteq Own(Deltas[op])
    BY <2>2 DEF Own
  <2>4. ASSUME NEW r \in rows'
        PROVE  r.block \in Block /\ r.height = Height[r.block] /\ r.addr \in Own(Deltas[r.block])
    <3>1. CASE r \in rows
      BY <3>1 DEF RowInv
    <3>2. CASE r.block = op /\ r.height = Height[op] /\ r.addr \in Own(Batch)
      BY <2>2, <2>3, <3>2
    <3> QED
      BY <1>1, <3>1, <3>2, IngestFacts
  <2>5. \A r : Own(Deltas[r.block])' = Own(Deltas[r.block])
    BY DEF Own
  <2> QED
    BY <2>4, <2>5 DEF RowInv
<1>2. CASE ~Ingest
  <2>1. rows' = rows
    <3>1. CASE NextBlock \/ NextBatch
      BY <3>1, StartFacts DEF Kept
    <3>2. CASE CommitMessages \/ PeriodicFlushFails
      BY <3>2, LeaveFacts DEF Kept
    <3>3. CASE Within
      BY <1>2, <3>3, WithinFacts
    <3>4. CASE Crash \/ OnReorg \/ AddLabel
      BY <3>4, BetweenFacts DEF Kept
    <3>5. CASE UNCHANGED vars
      BY <3>5 DEF vars
    <3> QED
      BY <3>1, <3>2, <3>3, <3>4, <3>5 DEF Next, Within
  <2> QED
    BY <2>1 DEF RowInv, Own
<1> QED
  BY <1>1, <1>2

(* A row's address is registered once the row's block is no longer in      *)
(* hand.                                                                   *)
LEMMA CoverStep ==
    ASSUME IInv, [Next]_vars
    PROVE  RegistryCoversRows'
<1> USE DEF IInv
<1>1. SUFFICES ASSUME NEW r \in rows', r.block # op', r.block \notin dropped'
      PROVE  seen'[r.addr] # None /\ last'[r.addr] >= r.height
  BY DEF RegistryCoversRows
<1>2. r.block \in Block /\ r.height = Height[r.block] /\ r.addr \in Own(Deltas[r.block])
  BY RowStep DEF RowInv, Own
<1>3. r.addr \in Address /\ r.height \in Nat
  BY <1>2, BlockFacts
<1>4. SUFFICES Registered(r.addr, r.height)
  BY <1>3, RegisteredKept
<1>5. ASSUME r \in rows, r.block # op, r.block \notin dropped PROVE Registered(r.addr, r.height)
  BY <1>5 DEF RegistryCoversRows, Registered
<1>6. CASE NextBlock \/ NextBatch
  <2>1. rows' = rows /\ dropped' = dropped /\ (op = None \/ op' = op)
    BY <1>6, StartFacts DEF Kept
  <2>2. r.block # None
    BY <1>2, BlockFacts
  <2> QED
    BY <1>1, <1>5, <2>1, <2>2
<1>7. CASE CommitMessages \/ PeriodicFlushFails
  <2>1. /\ rows' = rows /\ op \in Block /\ pc # "idle"
        /\ (op' = None /\ to = Len(Deltas[op])) \/ op' = op
        /\ (dropped' = dropped /\ pc = "record") \/ dropped' = dropped \cup {op}
    BY <1>7, LeaveFacts DEF Kept
  <2>2. r.block \notin dropped
    BY <1>1, <2>1
  <2>3. CASE r.block # op
    BY <1>5, <2>1, <2>2, <2>3
  <2>4. CASE r.block = op
    <3>1. op' # op /\ op \notin dropped' /\ pc = "record" /\ to = Len(Deltas[op])
      BY <1>1, <2>1, <2>4
    <3>2. PICK i \in DOMAIN Deltas[op] : Deltas[op][i].addr = r.addr
      BY <1>2, <2>4 DEF Own
    <3>3. i \in 1..to /\ pos \in Nat /\ to \in Nat
      BY <2>1, <3>1, BlockFacts DEF TypeInv
    <3>4. CASE i <= pos
      <4>1. i \in 1..pos /\ op # None
        BY <2>1, <3>3, <3>4, BlockFacts
      <4>2. Registered(Deltas[op][i].addr, Height[op])
        BY <2>2, <2>4, <4>1 DEF RegisterInv, CommittedInv
      <4> QED
        BY <1>2, <2>4, <3>2, <4>2
    <3>5. CASE i > pos
      <4>1. i \in (pos + 1)..to
        BY <3>3, <3>5
      <4>2. PICK j \in DOMAIN Batch : Batch[j] = Deltas[op][i]
        BY <2>1, <4>1, BatchFacts
      <4>3. Registered(Batch[j].addr, Height[op])
        BY <3>1 DEF RegisterInv, Own, Upserted, Marked
      <4> QED
        BY <1>2, <2>4, <3>2, <4>2, <4>3
    <3> QED
      BY <3>3, <3>4, <3>5
  <2> QED
    BY <2>3, <2>4
<1>8. CASE Within
  <2>1. op' = op /\ dropped' = dropped
    BY <1>8, WithinFacts, SameBatch
  <2>2. CASE Ingest
    BY <1>1, <1>5, <2>1, <2>2, IngestFacts
  <2>3. CASE ~Ingest
    BY <1>1, <1>5, <1>8, <2>1, <2>3, WithinFacts
  <2> QED
    BY <2>2, <2>3
<1>9. CASE Crash \/ OnReorg \/ AddLabel
  BY <1>1, <1>5, <1>9, BetweenFacts DEF Kept
<1>10. CASE UNCHANGED vars
  BY <1>1, <1>5, <1>10 DEF vars
<1> QED
  BY <1>6, <1>7, <1>8, <1>9, <1>10 DEF Next, Within
(* Whoever in the batch has too many counterparties is marked before its   *)
(* transactions are looked at.                                             *)
LEMMA HubStep ==
    ASSUME IInv, [Next]_vars
    PROVE  HubInv'
<1> USE DEF IInv
<1>1. ASSUME pc' \notin Upserted PROVE HubInv'
  BY <1>1 DEF HubInv, Upserted, Marked
<1>2. ASSUME Batch' = Batch PROVE Own(Batch)' = Own(Batch)
  BY <1>2 DEF Own
<1>3. CASE Within
  <2>1. op' = op /\ Batch' = Batch /\ pc # "idle"
    BY <1>3, WithinFacts, SameBatch
  <2>2. Own(Batch)' = Own(Batch)
    BY <1>2, <2>1
  <2>3. CASE Ingest \/ Upsert
    BY <1>1, <2>3 DEF Ingest, Upsert, Upserted, Marked
  <2>4. CASE ~Ingest /\ ~Upsert
    <3>1. rows' = rows
      BY <1>3, <2>4, WithinFacts
    <3>2. \A a : Popular(a)' <=> Popular(a)
      BY <3>1, PopularKept
    <3>3. CASE MarkHub
      <4>1. pc = "hubs" /\ pc' = pc /\ todo # <<>> /\ todo' = Tail(todo)
        BY <3>3 DEF MarkHub
      <4>2. hub' = IF LooksLikeHub(Head(todo)) /\ seen[Head(todo)] # None
                   THEN hub \cup {Head(todo)} ELSE hub
        BY <3>3 DEF MarkHub
      <4>3. \A a \in ToSet(todo) : a \in ToSet(todo') \/ a = Head(todo)
        BY <4>1, TailFacts DEF TypeInv
      <4>4. ASSUME NEW a \in Own(Batch), Popular(a) PROVE a \in hub' \/ a \in ToSet(todo')
        <5>1. a \in hub \/ a \in ToSet(todo)
          BY <4>1, <4>4 DEF HubInv
        <5>2. seen[a] # None
          BY <4>1 DEF RegisterInv, Registered, Upserted
        <5>3. LooksLikeHub(a)
          BY <4>4 DEF LooksLikeHub
        <5> QED
          BY <4>2, <4>3, <5>1, <5>2, <5>3
      <4>5. pc' = "hubs"
        BY <4>1
      <4> QED
        BY <2>2, <3>2, <4>4, <4>5 DEF HubInv, Marked
    <3>4. CASE LoopDone /\ pc = "upsert"
      <4>1. pc' = "hubs" /\ todo' = Addresses(Batch)
        BY <3>4, AdvanceFacts DEF LoopDone
      <4>2. ToSet(todo') = Own(Batch)
        BY <2>1, <4>1, BatchFacts, AddressesFacts
      <4> QED
        BY <2>2, <4>1, <4>2 DEF HubInv, Marked
    <3>5. CASE ~MarkHub /\ ~(LoopDone /\ pc = "upsert")
      <4>1. hub' = hub
        BY <1>3, <3>5, WithinFacts
      <4>2. pc' \in Marked /\ (pc \in Marked \/ (pc = "hubs" /\ todo = <<>>))
        <5>1. CASE LoopDone
          BY <3>5, <5>1, AdvanceFacts DEF LoopDone, Marked
        <5>2. CASE MarkCollaborativeTx \/ FlagDust \/ ExcludeDust \/ EnginesDone
          BY <5>2, AdvanceFacts DEF MarkCollaborativeTx, FlagDust, ExcludeDust, EnginesDone, Marked
        <5>3. CASE RunEngine \/ RecordAndMerge
          BY <5>3 DEF RunEngine, RecordAndMerge, Marked
        <5>4. CASE ExcludeOne \/ FlagOne
          BY <5>4 DEF ExcludeOne, FlagOne, run, Marked
        <5> QED
          BY <1>3, <2>4, <3>5, <5>1, <5>2, <5>3, <5>4 DEF Within
      <4>3. \A a \in Own(Batch) : Popular(a) => a \in hub
        <5>1. CASE pc = "hubs" /\ todo = <<>>
          BY <5>1, EmptyIsSeq DEF HubInv
        <5>2. CASE pc \in Marked
          BY <5>2 DEF HubInv
        <5> QED
          BY <4>2, <5>1, <5>2
      <4>4. pc' # "hubs"
        BY <4>2 DEF Marked
      <4> QED
        BY <2>2, <3>2, <4>1, <4>3, <4>4 DEF HubInv
    <3> QED
      BY <3>3, <3>4, <3>5
  <2> QED
    BY <2>3, <2>4
<1>4. CASE NextBlock \/ NextBatch
  BY <1>1, <1>4, StartFacts DEF Upserted, Marked
<1>5. CASE CommitMessages \/ PeriodicFlushFails
  BY <1>1, <1>5, LeaveFacts DEF Upserted, Marked
<1>6. CASE Crash
  BY <1>1, <1>6, BetweenFacts DEF Upserted, Marked
<1>7. CASE OnReorg \/ AddLabel \/ UNCHANGED vars
  <2>1. op' = op /\ pos' = pos /\ to' = to /\ pc' = pc /\ todo' = todo /\ hub' = hub /\ rows' = rows
    BY <1>7, BetweenFacts DEF Kept, vars
  <2>2. Own(Batch)' = Own(Batch)
    BY <1>2, <2>1 DEF Batch
  <2>3. \A a : Popular(a)' <=> Popular(a)
    BY <2>1, PopularKept
  <2> QED
    BY <2>1, <2>2, <2>3 DEF HubInv
<1> QED
  BY <1>3, <1>4, <1>5, <1>6, <1>7 DEF Next, Within

(* A sound candidate stays sound while what was read for it is kept. *)
LEMMA YieldsKept ==
    ASSUME op' = op, Batch' = Batch, seen' = seen, excluded' = excluded, Yields(cands', Batch)
    PROVE  Yields(cands, Batch)'
<1>1. \A c : Sound(c, Batch)' <=> Sound(c, Batch)
  BY DEF Sound, Own
<1> QED
  BY <1>1 DEF Yields, IsSeq

LEMMA CandStep ==
    ASSUME IInv, [Next]_vars
    PROVE  CandInv'
<1> USE DEF IInv
<1>1. ASSUME pc' \notin {"generate", "record"}, cands' = <<>> PROVE CandInv'
  BY <1>1 DEF CandInv
<1>2. CASE Within
  <2>1. op' = op /\ Batch' = Batch
    BY <1>2, WithinFacts, SameBatch
  <2>2. CASE RunEngine
    <3>1. Yields(cands', Batch) /\ pc' = "generate"
      BY <2>2, EngineFacts
    <3>2. seen' = seen /\ excluded' = excluded
      BY <2>2 DEF RunEngine, store
    <3> QED
      BY <2>1, <3>1, <3>2, YieldsKept DEF CandInv
  <2>3. CASE RecordAndMerge
    <3>1. pc = "record" /\ pc' = pc /\ cands # <<>> /\ cands' = Tail(cands) /\ Kept
      BY <2>3, RecordFacts
    <3>2. Yields(cands', Batch)
      BY <3>1, TailYields DEF CandInv
    <3> QED
      BY <2>1, <3>1, <3>2, YieldsKept DEF CandInv, Kept
  <2>4. CASE EnginesDone
    <3>1. pc = "generate" /\ pc' = "record"
      BY <2>4, AdvanceFacts DEF EnginesDone
    <3>2. seen' = seen /\ excluded' = excluded /\ cands' = cands
      BY <2>4 DEF EnginesDone, store
    <3>3. Yields(cands', Batch)
      BY <3>1, <3>2 DEF CandInv
    <3> QED
      BY <2>1, <3>1, <3>2, <3>3, YieldsKept DEF CandInv
  <2>5. CASE ~RunEngine /\ ~RecordAndMerge /\ ~EnginesDone
    <3>1. cands' = cands /\ pc \notin {"generate", "record"} /\ pc' # "record"
      <4>1. CASE LoopDone
        BY <4>1, AdvanceFacts DEF LoopDone
      <4>2. CASE MarkCollaborativeTx \/ FlagDust \/ ExcludeDust
        BY <4>2, AdvanceFacts DEF MarkCollaborativeTx, FlagDust, ExcludeDust
      <4>3. CASE Ingest \/ Upsert \/ MarkHub
        BY <4>3 DEF Ingest, Upsert, MarkHub
      <4>4. CASE ExcludeOne \/ FlagOne
        BY <4>4 DEF ExcludeOne, FlagOne, run
      <4> QED
        BY <1>2, <2>5, <4>1, <4>2, <4>3, <4>4 DEF Within
    <3>2. cands' = <<>>
      BY <3>1 DEF CandInv
    <3>3. Yields(cands, Batch)'
      BY <3>2, NothingYields DEF Yields, IsSeq
    <3> QED
      BY <3>2, <3>3 DEF CandInv
  <2> QED
    BY <2>2, <2>3, <2>4, <2>5
<1>3. CASE NextBlock \/ NextBatch
  BY <1>1, <1>3, StartFacts
<1>4. CASE CommitMessages \/ PeriodicFlushFails
  BY <1>1, <1>4, LeaveFacts
<1>5. CASE Crash
  BY <1>1, <1>5, BetweenFacts
<1>6. CASE OnReorg \/ AddLabel \/ UNCHANGED vars
  <2>1. /\ op' = op /\ pos' = pos /\ to' = to /\ pc' = pc /\ cands' = cands
        /\ seen' = seen /\ excluded' = excluded
    BY <1>6, BetweenFacts DEF Kept, vars
  <2>2. Batch' = Batch
    BY <2>1 DEF Batch
  <2>3. CASE pc \in {"generate", "record"}
    <3>1. Yields(cands', Batch)
      BY <2>1, <2>3 DEF CandInv
    <3> QED
      BY <2>1, <2>2, <2>3, <3>1, YieldsKept DEF CandInv
  <2>4. CASE pc \notin {"generate", "record"}
    BY <1>1, <2>1, <2>4 DEF CandInv
  <2> QED
    BY <2>3, <2>4
<1> QED
  BY <1>2, <1>3, <1>4, <1>5, <1>6 DEF Next, Within

LEMMA FundingStep ==
    ASSUME IInv, [Next]_vars
    PROVE  FundingInv'
<1> USE DEF IInv
<1> DEFINE F(e) == e.cand.key = "funding" => /\ e.cand.b \in Address /\ seen[e.cand.b] \in Nat
                                             /\ e.cand.height = seen[e.cand.b]
<1>1. \A i \in DOMAIN evidence : F(evidence[i])
  BY DEF FundingInv
<1>2. ASSUME NEW i \in DOMAIN evidence,
             evidence'[i].cand = evidence[i].cand
      PROVE  F(evidence[i])'
  <2>1. SUFFICES ASSUME evidence'[i].cand.key = "funding"
        PROVE  LET c == evidence'[i].cand IN c.b \in Address /\ seen'[c.b] \in Nat /\ c.height = seen'[c.b]
    OBVIOUS
  <2>2. PICK c : c = evidence[i].cand
    OBVIOUS
  <2>3. c.b \in Address /\ seen[c.b] \in Nat /\ c.height = seen[c.b]
    BY <1>1, <1>2, <2>1, <2>2
  <2>4. last[c.b] \in Nat /\ seen[c.b] # None
    BY <2>3, ChainAssumption DEF TypeInv
  <2>5. Registered(c.b, 0)
    BY <2>4 DEF Registered
  <2>6. seen'[c.b] = seen[c.b]
    BY <2>3, <2>5, RegisteredKept
  <2> QED
    BY <1>2, <2>2, <2>3, <2>6
<1>3. ASSUME evidence' = evidence PROVE \A i \in DOMAIN evidence' : F(evidence[i])'
  BY <1>2, <1>3
<1>4. SUFFICES \A i \in DOMAIN evidence' : F(evidence[i])'
  BY DEF FundingInv
<1> HIDE DEF F
<1>5. CASE RecordAndMerge
  <2>1. /\ pc = "record" /\ cands # <<>> /\ Kept
        /\ \A i \in DOMAIN evidence : evidence'[i] = evidence[i]
        /\ \A i \in DOMAIN evidence' \ DOMAIN evidence : evidence'[i].cand = Head(cands)
    BY <1>5, RecordFacts
  <2>2. Sound(Head(cands), Batch)
    BY <2>1, TailYields DEF CandInv
  <2>3. Own(Batch) \subseteq Address /\ Height[op] \in Nat
    BY <2>1, BatchFacts, BlockFacts
  <2>4. ASSUME NEW i \in DOMAIN evidence' \ DOMAIN evidence PROVE F(evidence[i])'
    <3>1. PICK c : c = evidence'[i].cand /\ Sound(c, Batch)
      BY <2>1, <2>2
    <3>2. c.b \in Address /\ c.height = Height[op] /\ (c.key = "funding" => seen[c.b] = Height[op])
      BY <2>3, <3>1 DEF Sound
    <3> QED
      BY <2>1, <2>3, <3>1, <3>2 DEF F, Kept
  <2> QED
    BY <1>2, <2>1, <2>4
<1>6. CASE OnReorg
  BY <1>2, <1>6, ReorgFacts
<1>7. CASE ~RecordAndMerge /\ ~OnReorg
  <2>1. evidence' = evidence
    <3>1. CASE NextBlock \/ NextBatch
      BY <3>1, StartFacts
    <3>2. CASE CommitMessages \/ PeriodicFlushFails
      BY <3>2, LeaveFacts
    <3>3. CASE Within
      BY <1>7, <3>3, WithinFacts
    <3>4. CASE Crash \/ AddLabel
      BY <3>4, BetweenFacts
    <3>5. CASE UNCHANGED vars
      BY <3>5 DEF vars
    <3> QED
      BY <1>7, <3>1, <3>2, <3>3, <3>4, <3>5 DEF Next, Within
  <2> QED
    BY <1>3, <2>1
<1> QED
  BY <1>5, <1>6, <1>7
(* New evidence is only recorded by RecordAndMerge. *)
LEMMA NewEvidence ==
    ASSUME IInv, [Next]_vars, NEW i \in DOMAIN evidence' \ DOMAIN evidence
    PROVE  RecordAndMerge
<1> USE DEF IInv
<1>1. CASE NextBlock \/ NextBatch
  BY <1>1, StartFacts
<1>2. CASE CommitMessages \/ PeriodicFlushFails
  BY <1>2, LeaveFacts
<1>3. CASE Within
  BY <1>3, WithinFacts
<1>4. CASE Crash \/ AddLabel
  BY <1>4, BetweenFacts
<1>5. CASE OnReorg
  BY <1>5, ReorgFacts
<1>6. CASE UNCHANGED vars
  BY <1>6 DEF vars
<1> QED
  BY <1>1, <1>2, <1>3, <1>4, <1>5, <1>6 DEF Next, Within

LEMMA InitIInv == Init => IInv
<1> SUFFICES ASSUME Init PROVE IInv
  OBVIOUS
<1> USE DEF Init
<1>1. IsSeq(todo) /\ ToSet(todo) = {} /\ IsSeq(cands) /\ IsSeq(evidence) /\ DOMAIN evidence = {}
  BY EmptyIsSeq
<1>2. 0 \in 0..Len(Engines)
  BY DEF Engines
<1>3. TypeInv
  BY <1>1, <1>2 DEF TypeInv, Stage
<1>4. RegisterInv /\ HubInv /\ CandInv
  BY DEF RegisterInv, CommittedInv, HubInv, CandInv, Upserted, Marked
<1>5. RowInv /\ RegistryCoversRows
  BY DEF RowInv, RegistryCoversRows
<1>6. FundingInv
  BY <1>1 DEF FundingInv
<1> QED
  BY <1>3, <1>4, <1>5, <1>6 DEF IInv

-----------------------------------------------------------------------------
(* The theorems.                                                           *)

(* The stages of Run, in their order and with every fault between them,    *)
(* keep the registry, the rows, the hubs, the candidates and the evidence  *)
(* consistent with each other.                                             *)
THEOREM Invariance == Spec => []IInv
<1>1. Init => IInv
  BY InitIInv
<1>2. IInv /\ [Next]_vars => IInv'
  BY TypeStep, RegisterStep, RowStep, CoverStep, HubStep, CandStep, FundingStep DEF IInv
<1> QED
  BY <1>1, <1>2, PTL DEF Spec

(* Whoever has a row in balance_delta is registered, and not as last seen  *)
(* before it, once its block is behind the consumer and unless a batch of  *)
(* the block was given up: for every chain, however its blocks are cut and *)
(* however often the process dies between the inserts and the upserts.     *)
THEOREM RegistryIsComplete == Spec => []RegistryCoversRows
<1>1. IInv => RegistryCoversRows
  BY DEF IInv
<1> QED
  BY <1>1, Invariance, PTL

(* All funding evidence of a recipient is of the one height at which it    *)
(* was first registered, whatever reorganizations come after it.           *)
THEOREM FundingHasOneHeight == Spec => []FundingAtOneHeight
<1>1. IInv => FundingAtOneHeight
  BY DEF IInv, FundingInv, FundingAtOneHeight
<1> QED
  BY <1>1, Invariance, PTL

(* RecordAndMerge never adds evidence about an address whose               *)
(* counterparties in everything stored make it a hub: MarkHubs has seen    *)
(* every address of the batch, after the batch's own rows were stored, and *)
(* no engine emits an address from outside the batch.                      *)
THEOREM PopularIsNeverMerged == Spec => PopularNeverMerged
<1>1. ASSUME IInv, [Next]_vars, NEW i \in DOMAIN evidence' \ DOMAIN evidence
      PROVE  ~Popular(evidence'[i].cand.a) /\ ~Popular(evidence'[i].cand.b)
  <2> USE <1>1 DEF IInv
  <2>1. RecordAndMerge
    BY NewEvidence
  <2>2. /\ pc = "record" /\ cands # <<>> /\ evidence'[i].cand = Head(cands)
        /\ {Head(cands).a, Head(cands).b} \cap hub = {}
    BY <2>1, RecordFacts
  <2>3. Sound(Head(cands), Batch)
    BY <2>2, TailYields DEF CandInv
  <2>4. Head(cands).a \in Own(Batch) /\ Head(cands).b \in Own(Batch)
    BY <2>3 DEF Sound
  <2>5. \A a \in Own(Batch) : Popular(a) => a \in hub
    BY <2>2 DEF HubInv, Marked
  <2> QED
    BY <2>2, <2>4, <2>5
<1>2. IInv /\ [Next]_vars =>
          [\A i \in DOMAIN evidence' \ DOMAIN evidence :
             ~Popular(evidence'[i].cand.a) /\ ~Popular(evidence'[i].cand.b)]_vars
  BY <1>1
<1> QED
  BY <1>2, Invariance, PTL DEF Spec, PopularNeverMerged

-----------------------------------------------------------------------------
(* What excluded_tx guarantees: the transactions that MarkCollaborativeTx  *)
(* and MarkDust exclude are not the source of common-input or change       *)
(* evidence, unless a batch ended within them or was run again with        *)
(* another end.  And what running a batch again yields: the candidates of  *)
(* its first attempt.                                                      *)

Txs(ds) == {ds[i].tx : i \in DOMAIN ds}

(* s is a branch, from the first block on. *)
IsBranch(s) == \A i \in DOMAIN s : Parent[s[i]] = IF i = 1 THEN None ELSE s[i - 1]

(* No transaction is mined twice on a branch. *)
OncePerBranch ==
    \A s \in Seq(Block) : IsBranch(s) =>
        \A i, j \in DOMAIN s : i # j => Txs(Deltas[s[i]]) \cap Txs(Deltas[s[j]]) = {}

-----------------------------------------------------------------------------
(* The inductive invariant.                                                *)

CollaborativeTxs(ds) == {td[1].tx : td \in {x \in ToSet(GroupByTx(ds)) : Collaborative(x)}}
TaintedTxs(ds) == {td[1].tx : td \in {x \in ToSet(GroupByTx(ds)) : AllTainted(x)}}
Flagged(ds) == {a \in DustInflows(ds) : seen[a] # None}

(* What the stages behind have excluded and flagged of the batch. *)
StageInv ==
    /\ pc \in {"flag", "exclude", "generate", "record"} => CollaborativeTxs(Batch) \subseteq excluded
    /\ pc \in {"exclude", "generate", "record"} => Flagged(Batch) \subseteq dust
    /\ pc \in {"generate", "record"} => TaintedTxs(Batch) \subseteq excluded
    /\ pc = "record" => first.to > 0

(* Within which transactions the batch begins and ends is known, and the   *)
(* blocks are a branch.                                                    *)
CutInv ==
    /\ op # None => \A t \in Straddling(op, pos) : <<op, t>> \in split
    /\ pc # "idle" => \A t \in Straddling(op, to) : <<op, t>> \in split
    /\ chain \in Seq(Block) /\ IsBranch(chain)
    /\ op # None => IsBranch(Append(chain, op))

(* Nothing is left to exclude or to flag in ds. *)
Settled(ds) ==
    /\ CollaborativeTxs(ds) \subseteq excluded /\ TaintedTxs(ds) \subseteq excluded
    /\ Flagged(ds) \subseteq dust
    /\ \A a \in Own(ds) : seen[a] # None

(* Once an attempt at the batch has generated its candidates, another      *)
(* attempt with the same end excludes and flags nothing more.              *)
RetryInv ==
    /\ first.to \in Nat
    /\ first.to > 0 =>
        /\ op # None /\ pos < first.to
        /\ op \notin recut => /\ pc # "idle" => to = first.to
                              /\ Settled(SubSeq(Deltas[op], pos + 1, first.to))

(* How far evidence of the block in hand may reach. *)
Reached == IF first.to = 0 THEN pos ELSE first.to

Asked == {"common-input", "change"}

(* Active evidence is of a block of the branch, or of what was run of the  *)
(* block in hand.                                                          *)
PlaceInv ==
    \A c \in Active : c.key \in Asked =>
        /\ c.block \in Block /\ c.tx \in Txs(Deltas[c.block])
        /\ \/ c.block \in ToSet(chain)
           \/ c.block = op /\ (op \in recut \/ \E i \in 1..Reached : Deltas[op][i].tx = c.tx)

(* No evidence, active or not, is of a collaborative transaction that was  *)
(* not split.                                                              *)
CollaborativeInv ==
    \A i \in DOMAIN evidence : LET c == evidence[i].cand IN
        c.key \in Asked => ~Collaborative(TxOf(c.block, c.tx)) \/ <<c.block, c.tx>> \in split

XInv ==
    StageInv /\ CutInv /\ RetryInv /\ PlaceInv

-----------------------------------------------------------------------------
(* A transaction that a batch holds as a whole is the same sequence of     *)
(* deltas in the batch and in the block.                                   *)

(* t is the part of s between p and e, J the places in t that are those of *)
(* I in s.                                                                 *)
Shifted(s, I, t, J, p, e) ==
    /\ IsSeq(s) /\ p \in Nat /\ e \in Nat /\ p <= e /\ e <= Len(s)
    /\ I \subseteq (p + 1)..e
    /\ t = SubSeq(s, p + 1, e)
    /\ \A j : j \in J <=> j \in DOMAIN t /\ p + j \in I

LEMMA PickShift ==
    ASSUME NEW s, NEW I, NEW t, NEW J, NEW p, NEW e, Shifted(s, I, t, J, p, e)
    PROVE  Pick(s, I) = Pick(t, J)
<1>0. /\ IsSeq(s) /\ p \in Nat /\ e \in Nat /\ p <= e /\ e <= Len(s)
      /\ I \subseteq (p + 1)..e /\ t = SubSeq(s, p + 1, e)
      /\ \A j : j \in J <=> j \in DOMAIN t /\ p + j \in I
  BY DEF Shifted
<1> USE <1>0
<1>1. PICK l \in Nat : l = Len(s) /\ DOMAIN s = 1..l
  BY SeqFacts
<1>2. PICK m \in Nat : m = e - p
  OBVIOUS
<1>3. IsSeq(t) /\ Len(t) = m /\ DOMAIN t = 1..m /\ \A j \in 1..m : t[j] = s[p + j]
  <2>1. PICK S : s \in Seq(S)
    BY DEF IsSeq
  <2>2. t \in Seq(S) /\ Len(t) = m
    BY <1>1, <1>2, <2>1
  <2>3. \A j \in 1..m : t[j] = s[p + j]
    BY <1>1, <1>2, <2>1
  <2>4. DOMAIN t = 1..m
    BY <2>2
  <2>5. IsSeq(t)
    BY <2>2, SeqOver
  <2> QED
    BY <2>2, <2>3, <2>4, <2>5
<1>4. PICK F : F = (CHOOSE f : f = PickBody(s, I, l, f))
  OBVIOUS
<1>5. PICK G : G = (CHOOSE f : f = PickBody(t, J, m, f))
  OBVIOUS
<1>6. F = PickBody(s, I, l, F) /\ Pick(s, I) = F[l]
  <2>1. \E f : f = PickBody(s, I, l, f)
    BY PickExists
  <2> QED
    BY <1>1, <1>4, <2>1 DEF Pick, PickBody
<1>7. G = PickBody(t, J, m, G) /\ Pick(t, J) = G[m]
  <2>1. \E f : f = PickBody(t, J, m, f)
    BY PickExists
  <2> QED
    BY <1>3, <1>5, <2>1 DEF Pick, PickBody
<1>8. \A n \in 0..l : F[n] = IF n = 0 THEN <<>>
                             ELSE IF n \in I THEN Append(F[n - 1], s[n]) ELSE F[n - 1]
  BY <1>6 DEF PickBody
<1>9. \A n \in 0..m : G[n] = IF n = 0 THEN <<>>
                             ELSE IF n \in J THEN Append(G[n - 1], t[n]) ELSE G[n - 1]
  BY <1>7 DEF PickBody
<1> DEFINE K(n) == IF n <= p THEN 0 ELSE IF n <= e THEN n - p ELSE m
           Bad == {n \in Nat : n <= l /\ F[n] # G[K(n)]}
<1>10. Bad = {}
  <2> SUFFICES ASSUME Bad # {} PROVE FALSE
    OBVIOUS
  <2>1. PICK n \in Bad : \A x \in Bad : n <= x
    <3>1. Bad \subseteq Nat
      OBVIOUS
    <3> HIDE DEF Bad
    <3> QED
      BY <3>1, LeastNatural
  <2>2. n \in Nat /\ n <= l /\ n \in 0..l /\ F[n] # G[K(n)]
    BY <1>1, <2>1
  <2>3. G[0] = <<>> /\ F[0] = <<>>
    BY <1>1, <1>2, <1>8, <1>9
  <2>4. n # 0
    <3>1. K(0) = 0
      OBVIOUS
    <3> QED
      BY <2>2, <2>3, <3>1
  <2>5. F[n - 1] = G[K(n - 1)]
    <3>1. n - 1 \in Nat /\ n - 1 <= l /\ ~(n <= n - 1)
      BY <1>1, <2>2, <2>4
    <3> QED
      BY <2>1, <3>1
  <2>6. F[n] = IF n \in I THEN Append(F[n - 1], s[n]) ELSE F[n - 1]
    BY <1>8, <2>2, <2>4
  <2>7. CASE n <= p \/ n > e
    <3>1. n \notin I /\ K(n) = K(n - 1)
      BY <1>2, <2>2, <2>4, <2>7
    <3> QED
      BY <2>2, <2>5, <2>6, <3>1
  <2>8. CASE n > p /\ n <= e
    <3>1. PICK k \in Nat : k = n - p
      BY <2>2, <2>8
    <3>2. k \in 1..m /\ k \in 0..m /\ k # 0 /\ p + k = n
      BY <1>2, <2>2, <2>8, <3>1
    <3>3. K(n) = k /\ K(n - 1) = k - 1
      BY <1>2, <2>2, <2>8, <3>1, <3>2
    <3>4. k \in J <=> n \in I
      BY <1>3, <3>2
    <3>5. t[k] = s[n]
      BY <1>3, <3>2
    <3>6. G[k] = IF k \in J THEN Append(G[k - 1], t[k]) ELSE G[k - 1]
      BY <1>9, <3>2
    <3> QED
      BY <2>2, <2>5, <2>6, <3>3, <3>4, <3>5, <3>6
  <2> QED
    BY <2>2, <2>7, <2>8
<1>11. F[l] = G[K(l)]
  BY <1>1, <1>10
<1>12. K(l) = m
  BY <1>1, <1>2
<1> QED
  BY <1>6, <1>7, <1>11, <1>12

(* Every transaction of the deltas is a group of its own, and every group  *)
(* one of their transactions.                                              *)
LEMMA GroupOfTx ==
    ASSUME NEW ds, IsSeq(ds)
    PROVE  /\ \A t \in Txs(ds) : \E td \in ToSet(GroupByTx(ds)) :
                 td = Pick(ds, {i \in DOMAIN ds : ds[i].tx = t}) /\ td[1].tx = t
           /\ \A td \in ToSet(GroupByTx(ds)) : td[1].tx \in Txs(ds)
<1> DEFINE ids == [i \in DOMAIN ds |-> ds[i].tx]
           txs == FirstOccurrences(ids)
           g == [k \in DOMAIN txs |-> Pick(ds, {i \in DOMAIN ds : ds[i].tx = txs[k]})]
<1>1. IsSeq(ids) /\ ToSet(ids) = Txs(ds)
  <2>1. Len(ds) \in Nat /\ DOMAIN ds = 1..Len(ds)
    BY SeqFacts
  <2>2. DOMAIN ids = 1..Len(ds) /\ ids = [i \in 1..Len(ds) |-> ids[i]]
    BY <2>1
  <2>3. ToSet(ids) = Txs(ds)
    BY DEF ToSet, Txs
  <2> HIDE DEF ids
  <2> QED
    BY <2>1, <2>2, <2>3, MappedSeq
<1>2. ToSet(txs) = Txs(ds)
  <2> HIDE DEF ids
  <2> QED
    BY <1>1, FirstOccurrencesFacts
<1>3. GroupByTx(ds) = g
  BY DEF GroupByTx
<1> HIDE DEF txs
<1>4. \A k \in DOMAIN g : Part(g[k], ds)
  BY <1>3, GroupFacts
<1>5. ASSUME NEW td \in ToSet(g) PROVE td[1].tx \in Txs(ds)
  <2>1. Part(td, ds)
    BY <1>4, <1>5 DEF ToSet
  <2>2. td[1] \in ToSet(ds)
    BY <2>1 DEF Part, ToSet
  <2> QED
    BY <2>2 DEF ToSet, Txs
<1>6. ASSUME NEW t \in Txs(ds)
      PROVE  \E td \in ToSet(g) : td = Pick(ds, {i \in DOMAIN ds : ds[i].tx = t}) /\ td[1].tx = t
  <2>1. PICK k \in DOMAIN txs : txs[k] = t
    BY <1>2 DEF ToSet
  <2>2. PICK td : td = g[k]
    OBVIOUS
  <2>3. td = Pick(ds, {i \in DOMAIN ds : ds[i].tx = t}) /\ td \in ToSet(g) /\ Part(td, ds)
    BY <1>4, <2>1, <2>2 DEF ToSet
  <2>4. ToSet(td) = {ds[i] : i \in {j \in DOMAIN ds : ds[j].tx = t}}
    BY <2>3, PickFacts
  <2>5. td[1] \in ToSet(td)
    BY <2>3 DEF Part, ToSet
  <2>6. td[1].tx = t
    BY <2>4, <2>5
  <2> QED
    BY <2>3, <2>6
<1> QED
  BY <1>3, <1>5, <1>6

-----------------------------------------------------------------------------
(* Batches and branches.                                                   *)

(* Where the deltas of the batch are in the block. *)
LEMMA BatchPlace ==
    ASSUME TypeInv, pc # "idle", NEW k \in DOMAIN Batch
    PROVE  /\ pos + k \in (pos + 1)..to /\ pos + k \in DOMAIN Deltas[op]
           /\ Batch[k] = Deltas[op][pos + k]
<1> DEFINE s == Deltas[op]
<1>1. op \in Block /\ pos \in Nat /\ to \in Nat /\ pos < to /\ to <= Len(s)
  BY DEF TypeInv
<1>2. Len(s) \in Nat /\ DOMAIN s = 1..Len(s) /\ IsSeq(s)
  BY <1>1, BlockFacts
<1>3. PICK S : s \in Seq(S)
  BY <1>2 DEF IsSeq
<1>4. Batch = SubSeq(s, pos + 1, to)
  BY DEF Batch
<1> HIDE DEF s
<1>5. PICK t : t = SubSeq(s, pos + 1, to)
  OBVIOUS
<1>6. t \in Seq(S) /\ Len(t) = to - pos
  BY <1>1, <1>2, <1>3, <1>5
<1>7. \A i \in 1..(to - pos) : t[i] = s[pos + i]
  BY <1>1, <1>2, <1>3, <1>5
<1>8. DOMAIN t = 1..(to - pos)
  BY <1>1, <1>6
<1>9. k \in 1..(to - pos)
  BY <1>4, <1>5, <1>8
<1>10. pos + k \in (pos + 1)..to /\ pos + k \in 1..Len(s)
  BY <1>1, <1>2, <1>9
<1> QED
  BY <1>2, <1>4, <1>5, <1>7, <1>9, <1>10 DEF s

(* A transaction of the batch that was not split is not before it in the   *)
(* block, ...                                                              *)
LEMMA NotBefore ==
    ASSUME TypeInv, CutInv, pc # "idle", NEW t \in Txs(Batch), <<op, t>> \notin split,
           NEW i \in 1..pos
    PROVE  Deltas[op][i].tx # t
<1> SUFFICES ASSUME Deltas[op][i].tx = t PROVE FALSE
  OBVIOUS
<1>0. PICK k \in DOMAIN Batch : Batch[k].tx = t
  BY DEF Txs
<1>1. op \in Block /\ op # None /\ pos \in Nat /\ to \in Nat /\ pos < to /\ to <= Len(Deltas[op])
  BY BlockFacts DEF TypeInv
<1>2. PICK j \in (pos + 1)..to : Batch[k] = Deltas[op][j]
  BY BatchPlace
<1>3. j \in (pos + 1)..Len(Deltas[op])
  BY <1>1, <1>2, BlockFacts
<1>4. t \in Straddling(op, pos)
  BY <1>0, <1>2, <1>3 DEF Straddling
<1> QED
  BY <1>1, <1>4 DEF CutInv

(* ... and all of it is in the batch. *)
LEMMA WholeInBatch ==
    ASSUME TypeInv, CutInv, pc # "idle", NEW t \in Txs(Batch), <<op, t>> \notin split
    PROVE  TxOf(op, t) = Pick(Batch, {i \in DOMAIN Batch : Batch[i].tx = t})
<1> DEFINE s == Deltas[op]
           I == {i \in DOMAIN s : s[i].tx = t}
           J == {i \in DOMAIN Batch : Batch[i].tx = t}
<1>1. op \in Block /\ op # None /\ pos \in Nat /\ to \in Nat /\ pos < to /\ to <= Len(s)
  BY BlockFacts DEF TypeInv
<1>2. IsSeq(s) /\ Len(s) \in Nat /\ DOMAIN s = 1..Len(s)
  BY <1>1, BlockFacts
<1>3. PICK k \in DOMAIN Batch : Batch[k].tx = t
  BY DEF Txs
<1>4. PICK j \in (pos + 1)..to : Batch[k] = s[j]
  BY BatchPlace
<1>5. ASSUME NEW i \in I PROVE i \in (pos + 1)..to
  <2>1. i \in 1..Len(s) /\ s[i].tx = t
    BY <1>2
  <2>2. ~(i <= pos)
    <3> SUFFICES ASSUME i <= pos PROVE FALSE
      OBVIOUS
    <3>1. i \in 1..pos
      BY <1>1, <2>1
    <3> QED
      BY <2>1, <3>1, NotBefore
  <2>3. ~(i > to)
    <3> SUFFICES ASSUME i > to PROVE FALSE
      OBVIOUS
    <3>1. i \in (to + 1)..Len(s) /\ j \in 1..to
      BY <1>1, <1>2, <2>1
    <3>2. t \in Straddling(op, to)
      BY <1>3, <1>4, <2>1, <3>1 DEF Straddling
    <3> QED
      BY <3>2 DEF CutInv
  <2> QED
    BY <1>1, <2>1, <2>2, <2>3
<1>6. J = {j2 \in DOMAIN Batch : pos + j2 \in I}
  <2>1. ASSUME NEW x \in DOMAIN Batch PROVE pos + x \in DOMAIN s /\ Batch[x] = s[pos + x]
    BY BatchPlace
  <2> QED
    BY <2>1
<1>7. TxOf(op, t) = Pick(s, I)
  BY DEF TxOf
<1>8. Batch = SubSeq(s, pos + 1, to)
  BY DEF Batch
<1> HIDE DEF I, J
<1>9. I \subseteq (pos + 1)..to
  BY <1>5
<1>10. pos <= to
  BY <1>1
<1>11. Shifted(s, I, Batch, J, pos, to)
  BY <1>1, <1>2, <1>6, <1>8, <1>9, <1>10 DEF Shifted
<1>12. Pick(s, I) = Pick(Batch, J)
  BY <1>11, PickShift
<1> QED
  BY <1>7, <1>12 DEF J

LEMMA BranchAppend ==
    ASSUME NEW s \in Seq(Block), IsBranch(s), NEW b \in Block,
           Parent[b] = IF s = <<>> THEN None ELSE Last(s)
    PROVE  IsBranch(Append(s, b))
<1>1. PICK l \in Nat : l = Len(s) /\ DOMAIN s = 1..l
  OBVIOUS
<1>2. DOMAIN Append(s, b) = 1..(l + 1) /\ Append(s, b)[l + 1] = b /\ \A i \in 1..l : Append(s, b)[i] = s[i]
  BY <1>1
<1>3. PICK t : t = Append(s, b)
  OBVIOUS
<1>4. ASSUME NEW i \in 1..(l + 1) PROVE Parent[t[i]] = IF i = 1 THEN None ELSE t[i - 1]
  <2>1. CASE i = l + 1
    <3>1. CASE l = 0
      <4>1. s = <<>>
        BY <1>1, <3>1
      <4> QED
        BY <1>2, <1>3, <2>1, <3>1, <4>1
    <3>2. CASE l # 0
      <4>1. s # <<>> /\ Last(s) = s[l]
        BY <1>1, <3>2 DEF Last
      <4>2. i # 1 /\ i - 1 = l /\ l \in 1..l
        BY <2>1, <3>2
      <4> QED
        BY <1>2, <1>3, <2>1, <4>1, <4>2
    <3> QED
      BY <3>1, <3>2
  <2>2. CASE i # l + 1
    <3>1. i \in 1..l /\ (i # 1 => i - 1 \in 1..l)
      BY <2>2
    <3>2. Parent[s[i]] = IF i = 1 THEN None ELSE s[i - 1]
      BY <1>1, <3>1 DEF IsBranch
    <3> QED
      BY <1>2, <1>3, <3>1, <3>2
  <2> QED
    BY <2>1, <2>2
<1> QED
  BY <1>2, <1>3, <1>4 DEF IsBranch

LEMMA BranchPrefix ==
    ASSUME NEW s \in Seq(Block), IsBranch(s), NEW k \in 0..(Len(s) - 1)
    PROVE  /\ SubSeq(s, 1, k) \in Seq(Block) /\ IsBranch(SubSeq(s, 1, k))
           /\ \A x \in ToSet(s) : x \in ToSet(SubSeq(s, 1, k)) \/ x \in ToSet(SubSeq(s, k + 1, Len(s)))
<1>1. PICK l \in Nat : l = Len(s) /\ DOMAIN s = 1..l
  OBVIOUS
<1>2. k \in Nat /\ k < l
  BY <1>1
<1>3. PICK t : t = SubSeq(s, 1, k)
  OBVIOUS
<1>4. PICK u : u = SubSeq(s, k + 1, Len(s))
  OBVIOUS
<1>5. t \in Seq(Block) /\ Len(t) = k
  BY <1>1, <1>2, <1>3
<1>6. DOMAIN t = 1..k /\ \A i \in 1..k : t[i] = s[i]
  BY <1>1, <1>2, <1>3
<1>7. u \in Seq(Block) /\ Len(u) = l - k
  BY <1>1, <1>2, <1>4
<1>8. DOMAIN u = 1..(l - k) /\ \A i \in 1..(l - k) : u[i] = s[k + i]
  BY <1>1, <1>2, <1>4
<1>9. IsBranch(t)
  <2>1. ASSUME NEW i \in 1..k PROVE Parent[t[i]] = IF i = 1 THEN None ELSE t[i - 1]
    <3>1. i \in 1..l /\ (i # 1 => i - 1 \in 1..k)
      BY <1>2
    <3>2. Parent[s[i]] = IF i = 1 THEN None ELSE s[i - 1]
      BY <1>1, <3>1 DEF IsBranch
    <3> QED
      BY <1>6, <3>1, <3>2
  <2> QED
    BY <1>6, <2>1 DEF IsBranch
<1>10. ASSUME NEW x \in ToSet(s) PROVE x \in ToSet(t) \/ x \in ToSet(u)
  <2>1. PICK i \in 1..l : s[i] = x
    BY <1>1 DEF ToSet
  <2>2. CASE i <= k
    <3>1. i \in 1..k
      BY <1>2, <2>2
    <3> QED
      BY <1>6, <2>1, <3>1 DEF ToSet
  <2>3. CASE i > k
    <3>1. i - k \in 1..(l - k) /\ k + (i - k) = i
      BY <1>2, <2>3
    <3> QED
      BY <1>8, <2>1, <3>1 DEF ToSet
  <2> QED
    BY <1>2, <2>2, <2>3
<1> QED
  BY <1>3, <1>4, <1>5, <1>9, <1>10

-----------------------------------------------------------------------------
(* What the steps do to the history, the branch and the exclusions.        *)

LEMMA StartHistory ==
    ASSUME TypeInv, NextBlock \/ NextBatch
    PROVE  /\ first' = first /\ chain' = chain
           /\ split \subseteq split' /\ \A t \in Straddling(op', to') : <<op', t>> \in split'
           /\ op = None => Parent[op'] = (IF chain = <<>> THEN None ELSE Last(chain))
           /\ recut \subseteq recut' /\ recut' \subseteq recut \cup {op'}
           /\ op # None /\ op \notin recut' => first.to \in {0, to'}
<1>1. CASE NextBlock
  <2>1. PICK b \in Block : Parent[b] = Tip /\ StartBatch(b, 0)
    BY <1>1 DEF NextBlock
  <2>2. op' = b /\ first' = first /\ chain' = chain /\ split' = split \cup ({b} \X Straddling(b, to'))
    BY <2>1 DEF StartBatch
  <2>3. split \subseteq split' /\ \A t \in Straddling(op', to') : <<op', t>> \in split'
    BY <2>2
  <2> QED
    BY <1>1, <2>1, <2>2, <2>3 DEF NextBlock, Tip
<1>2. CASE NextBatch
  <2>1. op' = op /\ first' = first /\ chain' = chain /\ split' = split \cup ({op} \X Straddling(op, to'))
    BY <1>2 DEF NextBatch, StartBatch
  <2>2. split \subseteq split' /\ \A t \in Straddling(op', to') : <<op', t>> \in split'
    BY <2>1
  <2> QED
    BY <1>2, <2>1, <2>2 DEF NextBatch
<1> QED
  BY <1>1, <1>2

LEMMA LeaveHistory ==
    ASSUME TypeInv, CommitMessages \/ PeriodicFlushFails
    PROVE  /\ first'.to = 0 /\ recut' = recut /\ split' = split
           /\ op' = op => chain' = chain
           /\ op' # op => chain' = Append(chain, op)
           /\ op' = None \/ op' = op
<1>1. LeaveBatch /\ pc # "idle"
  BY DEF CommitMessages, PeriodicFlushFails
<1>2. first' = NoAttempt /\ recut' = recut /\ split' = split
  BY <1>1 DEF LeaveBatch
<1>3. op # None
  BY <1>1 DEF TypeInv
<1> QED
  BY <1>1, <1>2, <1>3 DEF LeaveBatch, NoAttempt

(* Which stage a step belongs to, and which one it leads to. *)
LEMMA StageOf ==
    /\ Ingest => pc = "insert" /\ pc' = "upsert"
    /\ Upsert => pc = "upsert" /\ pc' = pc
    /\ MarkHub => pc = "hubs" /\ pc' = pc
    /\ LoopDone => pc \in {"upsert", "hubs"} /\ pc' \in {"hubs", "collaborative"}
    /\ MarkCollaborativeTx => pc = "collaborative" /\ pc' = "flag"
    /\ FlagDust => pc = "flag" /\ pc' = "exclude"
    /\ ExcludeDust => pc = "exclude" /\ pc' = "generate"
    /\ ExcludeOne => pc \in {"collaborative", "exclude"} /\ pc' = pc
    /\ FlagOne => pc = "flag" /\ pc' = pc
    /\ RunEngine => pc = "generate" /\ pc' = pc
    /\ EnginesDone => pc = "generate" /\ pc' = "record"
    /\ RecordAndMerge => pc = "record" /\ pc' = pc
<1>1. /\ Ingest => pc = "insert" /\ pc' = "upsert"
      /\ Upsert => pc = "upsert" /\ pc' = pc
      /\ MarkHub => pc = "hubs" /\ pc' = pc
  BY DEF Ingest, Upsert, MarkHub
<1>2. LoopDone => pc \in {"upsert", "hubs"} /\ pc' \in {"hubs", "collaborative"}
  BY AdvanceFacts DEF LoopDone
<1>3. MarkCollaborativeTx => pc = "collaborative" /\ pc' = "flag"
  BY AdvanceFacts DEF MarkCollaborativeTx
<1>4. FlagDust => pc = "flag" /\ pc' = "exclude"
  BY AdvanceFacts DEF FlagDust
<1>5. ExcludeDust => pc = "exclude" /\ pc' = "generate"
  BY AdvanceFacts DEF ExcludeDust
<1>6. EnginesDone => pc = "generate" /\ pc' = "record"
  BY AdvanceFacts DEF EnginesDone
<1>7. ExcludeOne => pc \in {"collaborative", "exclude"} /\ pc' = pc
  BY DEF ExcludeOne, run
<1>8. FlagOne => pc = "flag" /\ pc' = pc
  BY DEF FlagOne, run
<1>9. /\ RunEngine => pc = "generate" /\ pc' = pc
      /\ RecordAndMerge => pc = "record" /\ pc' = pc
  BY DEF RunEngine, RecordAndMerge
<1> QED
  BY <1>1, <1>2, <1>3, <1>4, <1>5, <1>6, <1>7, <1>8, <1>9

LEMMA WithinHistory ==
    ASSUME TypeInv, Within
    PROVE  /\ chain' = chain /\ recut' = recut /\ split' = split
           /\ ~EnginesDone => first' = first
           /\ ~FlagDust /\ ~FlagOne => dust' = dust
           /\ ~MarkCollaborativeTx /\ ~ExcludeDust /\ ~ExcludeOne => excluded' = excluded
           /\ ExcludeOne => /\ pc \in {"collaborative", "exclude"} /\ pc' = pc
                            /\ excluded \subseteq excluded'
                            /\ \/ excluded' \subseteq excluded \cup CollaborativeTxs(Batch)
                               \/ excluded' \subseteq excluded \cup TaintedTxs(Batch) /\ pc = "exclude"
           /\ FlagOne => /\ pc = "flag" /\ pc' = pc
                         /\ dust \subseteq dust' /\ dust' \subseteq dust \cup Flagged(Batch)
           /\ MarkCollaborativeTx => /\ pc = "collaborative" /\ pc' = "flag"
                                     /\ excluded' = excluded \cup CollaborativeTxs(Batch)
           /\ FlagDust => pc = "flag" /\ pc' = "exclude" /\ dust' = dust \cup Flagged(Batch)
           /\ ExcludeDust => /\ pc = "exclude" /\ pc' = "generate"
                             /\ excluded' = excluded \cup TaintedTxs(Batch)
           /\ EnginesDone => /\ pc = "generate" /\ pc' = "record"
                             /\ first.to = 0 => first'.to = to
                             /\ first.to # 0 => first' = first
           /\ RunEngine \/ RecordAndMerge => pc' = pc
           /\ Ingest \/ Upsert \/ MarkHub \/ LoopDone => pc' \in {"upsert", "hubs", "collaborative"}
<1>1. CASE Ingest
  <2>1. pc = "insert" /\ pc' = "upsert"
    BY <1>1 DEF Ingest
  <2>2. chain' = chain /\ recut' = recut /\ split' = split /\ first' = first /\ dust' = dust /\ excluded' = excluded
    BY <1>1 DEF Ingest, world
  <2> QED
    BY <2>1, <2>2, StageOf
<1>2. CASE Upsert
  <2>1. pc = "upsert" /\ pc' = "upsert"
    BY <1>2 DEF Upsert
  <2>2. chain' = chain /\ recut' = recut /\ split' = split /\ first' = first /\ dust' = dust /\ excluded' = excluded
    BY <1>2 DEF Upsert, world
  <2> QED
    BY <2>1, <2>2, StageOf
<1>3. CASE MarkHub
  <2>1. pc = "hubs" /\ pc' = "hubs"
    BY <1>3 DEF MarkHub
  <2>2. chain' = chain /\ recut' = recut /\ split' = split /\ first' = first /\ dust' = dust /\ excluded' = excluded
    BY <1>3 DEF MarkHub, world
  <2> QED
    BY <2>1, <2>2, StageOf
<1>4. CASE LoopDone
  <2>1. pc \in {"upsert", "hubs"} /\ pc' \in {"hubs", "collaborative"}
    BY <1>4, StageOf
  <2>2. chain' = chain /\ recut' = recut /\ split' = split /\ first' = first /\ dust' = dust /\ excluded' = excluded
    BY <1>4 DEF LoopDone, world, store
  <2> QED
    BY <2>1, <2>2, StageOf
<1>5. CASE MarkCollaborativeTx
  <2>1. pc = "collaborative" /\ pc' = "flag"
    BY <1>5, StageOf
  <2>2. /\ chain' = chain /\ recut' = recut /\ split' = split /\ first' = first /\ dust' = dust
        /\ excluded' = excluded \cup CollaborativeTxs(Batch)
    BY <1>5 DEF MarkCollaborativeTx, world, CollaborativeTxs
  <2> QED
    BY <1>5, <2>1, <2>2, StageOf
<1>6. CASE FlagDust
  <2>1. pc = "flag" /\ pc' = "exclude"
    BY <1>6, StageOf
  <2>2. /\ chain' = chain /\ recut' = recut /\ split' = split /\ first' = first /\ excluded' = excluded
        /\ dust' = dust \cup Flagged(Batch)
    BY <1>6 DEF FlagDust, world, Flagged
  <2> QED
    BY <1>6, <2>1, <2>2, StageOf
<1>7. CASE ExcludeDust
  <2>1. pc = "exclude" /\ pc' = "generate"
    BY <1>7, StageOf
  <2>2. /\ chain' = chain /\ recut' = recut /\ split' = split /\ first' = first /\ dust' = dust
        /\ excluded' = excluded \cup TaintedTxs(Batch)
    BY <1>7 DEF ExcludeDust, world, TaintedTxs
  <2> QED
    BY <1>7, <2>1, <2>2, StageOf
<1>8. CASE RunEngine \/ RecordAndMerge
  <2>1. pc \in {"generate", "record"} /\ pc' = pc
    BY <1>8, StageOf
  <2>2. chain' = chain /\ recut' = recut /\ split' = split /\ first' = first /\ dust' = dust /\ excluded' = excluded
    BY <1>8 DEF RunEngine, RecordAndMerge, world, store
  <2>3. ~EnginesDone
    BY <2>1, StageOf
  <2> QED
    BY <2>1, <2>2, <2>3, StageOf
<1>9. CASE EnginesDone
  <2>1. pc = "generate" /\ pc' = "record"
    BY <1>9, StageOf
  <2>2. /\ chain' = chain /\ recut' = recut /\ split' = split /\ dust' = dust /\ excluded' = excluded
        /\ first' = IF first.to = 0 THEN [to |-> to, cands |-> cands] ELSE first
    BY <1>9 DEF EnginesDone, world, store
  <2>3. ~RunEngine /\ ~RecordAndMerge
    BY <2>1, StageOf
  <2> QED
    BY <1>9, <2>1, <2>2, <2>3, StageOf
<1>10. CASE ExcludeOne
  <2>1. /\ pc \in {"collaborative", "exclude"} /\ pc' = pc /\ chain' = chain /\ recut' = recut
        /\ split' = split /\ first' = first /\ dust' = dust
    BY <1>10 DEF ExcludeOne, run, world
  <2>2. /\ excluded \subseteq excluded'
        /\ \/ excluded' \subseteq excluded \cup CollaborativeTxs(Batch)
           \/ excluded' \subseteq excluded \cup TaintedTxs(Batch) /\ pc = "exclude"
    <3>1. CASE pc = "collaborative"
      <4>1. PICK i \in DOMAIN GroupByTx(Batch) :
                /\ Collaborative(GroupByTx(Batch)[i])
                /\ excluded' = excluded \cup {GroupByTx(Batch)[i][1].tx}
        BY <1>10, <3>1 DEF ExcludeOne, Exclude
      <4> QED
        BY <4>1 DEF CollaborativeTxs, ToSet
    <3>2. CASE pc = "exclude"
      <4>1. PICK i \in DOMAIN GroupByTx(Batch) :
                /\ AllTainted(GroupByTx(Batch)[i])
                /\ excluded' = excluded \cup {GroupByTx(Batch)[i][1].tx}
        BY <1>10, <3>2 DEF ExcludeOne, Exclude
      <4> QED
        BY <3>2, <4>1 DEF TaintedTxs, ToSet
    <3> QED
      BY <2>1, <3>1, <3>2
  <2>3. ~EnginesDone /\ ~MarkCollaborativeTx /\ ~ExcludeDust
    BY <2>1, StageOf
  <2> QED
    BY <1>10, <2>1, <2>2, <2>3, StageOf
<1>11. CASE FlagOne
  <2>1. /\ pc = "flag" /\ pc' = pc /\ chain' = chain /\ recut' = recut
        /\ split' = split /\ first' = first /\ excluded' = excluded
    BY <1>11 DEF FlagOne, run, world
  <2>2. dust \subseteq dust' /\ dust' \subseteq dust \cup Flagged(Batch)
    BY <1>11 DEF FlagOne, Flagged
  <2>3. ~FlagDust
    BY <2>1, StageOf
  <2> QED
    BY <1>11, <2>1, <2>2, <2>3, StageOf
<1> QED
  BY <1>1, <1>2, <1>3, <1>4, <1>5, <1>6, <1>7, <1>8, <1>9, <1>10, <1>11 DEF Within

LEMMA BetweenHistory ==
    ASSUME TypeInv, Crash \/ OnReorg \/ AddLabel
    PROVE  first' = first /\ recut' = recut /\ split' = split /\ (~OnReorg => chain' = chain)
<1>1. CASE Crash
  BY <1>1 DEF Crash
<1>2. CASE OnReorg
  BY <1>2 DEF OnReorg, run
<1>3. CASE AddLabel
  BY <1>3 DEF AddLabel, run
<1> QED
  BY <1>1, <1>2, <1>3

-----------------------------------------------------------------------------
(* Every step preserves every part of the invariant.                       *)

LEMMA StageStep ==
    ASSUME IInv, XInv, [Next]_vars
    PROVE  StageInv'
<1> USE DEF IInv, XInv
<1>1. ASSUME pc' \in {"idle", "insert", "upsert", "hubs", "collaborative"} PROVE StageInv'
  BY <1>1 DEF StageInv
<1>2. ASSUME Batch' = Batch
      PROVE  /\ CollaborativeTxs(Batch)' = CollaborativeTxs(Batch)
             /\ dust' = dust => TaintedTxs(Batch)' = TaintedTxs(Batch)
             /\ seen' = seen => Flagged(Batch)' = Flagged(Batch)
  <2>1. CollaborativeTxs(Batch)' = CollaborativeTxs(Batch)
    BY <1>2 DEF CollaborativeTxs, Collaborative
  <2>2. dust' = dust => TaintedTxs(Batch)' = TaintedTxs(Batch)
    BY <1>2 DEF TaintedTxs, AllTainted
  <2>3. seen' = seen => Flagged(Batch)' = Flagged(Batch)
    BY <1>2 DEF Flagged, DustInflows
  <2> QED
    BY <2>1, <2>2, <2>3
<1>3. CASE Within
  <2>1. Batch' = Batch
    BY <1>3, WithinFacts, SameBatch
  <2>2. CASE Ingest \/ Upsert \/ MarkHub \/ LoopDone
    BY <1>1, <1>3, <2>2, WithinHistory
  <2>3. CASE MarkCollaborativeTx
    <3>1. pc' = "flag" /\ excluded' = excluded \cup CollaborativeTxs(Batch)
      BY <1>3, <2>3, WithinHistory
    <3> QED
      BY <1>2, <2>1, <3>1 DEF StageInv
  <2>4. CASE FlagDust
    <3>1. /\ pc = "flag" /\ pc' = "exclude" /\ dust' = dust \cup Flagged(Batch)
      BY <1>3, <2>4, WithinHistory
    <3>2. excluded' = excluded /\ seen' = seen
      BY <2>4 DEF FlagDust
    <3> QED
      BY <1>2, <2>1, <3>1, <3>2 DEF StageInv
  <2>5. CASE ExcludeDust
    <3>1. /\ pc = "exclude" /\ pc' = "generate" /\ excluded' = excluded \cup TaintedTxs(Batch)
      BY <1>3, <2>5, WithinHistory
    <3>2. dust' = dust /\ seen' = seen
      BY <2>5 DEF ExcludeDust
    <3> QED
      BY <1>2, <2>1, <3>1, <3>2 DEF StageInv
  <2>6. CASE RunEngine \/ RecordAndMerge \/ EnginesDone
    <3>1. dust' = dust /\ seen' = seen /\ excluded' = excluded
      BY <2>6 DEF RunEngine, RecordAndMerge, EnginesDone, store
    <3>2. \/ pc' = pc /\ first' = first
          \/ pc = "generate" /\ pc' = "record" /\ first'.to > 0
      <4>1. CASE RunEngine \/ RecordAndMerge
        BY <4>1 DEF RunEngine, RecordAndMerge
      <4>2. CASE EnginesDone
        <5>1. /\ pc = "generate" /\ pc' = "record"
              /\ first.to = 0 => first'.to = to
              /\ first.to # 0 => first' = first
          BY <1>3, <4>2, WithinHistory
        <5>2. to \in Nat /\ to > 0 /\ first.to \in Nat
          BY <5>1 DEF TypeInv, RetryInv
        <5> QED
          BY <5>1, <5>2
      <4> QED
        BY <2>6, <4>1, <4>2
    <3>3. pc \in {"generate", "record"}
      BY <2>6 DEF RunEngine, RecordAndMerge, EnginesDone
    <3> QED
      BY <1>2, <2>1, <3>1, <3>2, <3>3 DEF StageInv
  <2>7. CASE ExcludeOne \/ FlagOne
    <3>1. /\ pc \in {"collaborative", "flag", "exclude"} /\ pc' = pc
          /\ excluded \subseteq excluded' /\ dust \subseteq dust'
      BY <1>3, <2>7, WithinHistory DEF ExcludeOne, FlagOne
    <3>2. seen' = seen
      BY <2>7 DEF ExcludeOne, FlagOne
    <3> QED
      BY <1>2, <2>1, <3>1, <3>2 DEF StageInv
  <2> QED
    BY <1>3, <2>2, <2>3, <2>4, <2>5, <2>6, <2>7 DEF Within
<1>4. CASE NextBlock \/ NextBatch
  BY <1>1, <1>4, StartFacts
<1>5. CASE CommitMessages \/ PeriodicFlushFails
  BY <1>1, <1>5, LeaveFacts
<1>6. CASE Crash
  BY <1>1, <1>6, BetweenFacts
<1>7. CASE OnReorg \/ AddLabel \/ UNCHANGED vars
  <2>1. /\ op' = op /\ pos' = pos /\ to' = to /\ pc' = pc /\ first' = first
        /\ seen' = seen /\ dust' = dust /\ excluded' = excluded
    BY <1>7, BetweenFacts, BetweenHistory DEF Kept, vars
  <2>2. Batch' = Batch
    BY <2>1 DEF Batch
  <2> QED
    BY <1>2, <2>1, <2>2 DEF StageInv
<1> QED
  BY <1>3, <1>4, <1>5, <1>6, <1>7 DEF Next, Within

LEMMA CutStep ==
    ASSUME IInv, XInv, [Next]_vars
    PROVE  CutInv'
<1> USE DEF IInv, XInv
<1>1. chain \in Seq(Block) /\ IsBranch(chain)
  BY DEF CutInv
<1>7. ASSUME op' = op, pos' = pos, chain' = chain, split' = split, pc' # "idle" => pc # "idle" /\ to' = to
      PROVE  CutInv'
  <2>1. op' # None => \A t \in Straddling(op', pos') : <<op', t>> \in split'
    BY <1>7 DEF CutInv
  <2>2. pc' # "idle" => \A t \in Straddling(op', to') : <<op', t>> \in split'
    BY <1>7 DEF CutInv
  <2>3. op' # None => IsBranch(Append(chain', op'))
    BY <1>7 DEF CutInv
  <2> QED
    BY <1>1, <1>7, <2>1, <2>2, <2>3 DEF CutInv, IsBranch, Straddling
<1>2. CASE NextBlock \/ NextBatch
  <2>1. /\ first' = first /\ chain' = chain /\ split \subseteq split'
        /\ \A t \in Straddling(op', to') : <<op', t>> \in split'
        /\ op = None => Parent[op'] = (IF chain = <<>> THEN None ELSE Last(chain))
    BY <1>2, StartHistory
  <2>2. /\ op' \in Block
        /\ (op = None /\ pos' = 0) \/ (op # None /\ op' = op /\ pos' = pos)
    BY <1>2, StartFacts
  <2>3. IsBranch(Append(chain, op'))
    <3>1. CASE op = None
      BY <1>1, <2>1, <2>2, <3>1, BranchAppend
    <3>2. CASE op # None
      BY <2>2, <3>2 DEF CutInv
    <3> QED
      BY <3>1, <3>2
  <2>4. \A t \in Straddling(op', pos') : <<op', t>> \in split'
    <3>1. CASE op = None
      BY <2>2, <3>1, BlockFacts DEF Straddling
    <3>2. CASE op # None
      BY <2>1, <2>2, <3>2 DEF CutInv
    <3> QED
      BY <3>1, <3>2
  <2>5. IsBranch(chain')
    BY <1>1, <2>1
  <2>6. IsBranch(Append(chain', op'))
    BY <2>1, <2>3
  <2> QED
    BY <1>1, <2>1, <2>4, <2>5, <2>6 DEF CutInv, IsBranch, Straddling
<1>3. CASE CommitMessages \/ PeriodicFlushFails
  <2>1. /\ pc # "idle" /\ pc' = "idle" /\ op \in Block
        /\ \/ op' = None /\ pos' = 0 /\ to = Len(Deltas[op])
           \/ op' = op /\ pos' = to /\ to < Len(Deltas[op])
    BY <1>3, LeaveFacts
  <2>2. /\ op' = op => chain' = chain
        /\ op' # op => chain' = Append(chain, op)
        /\ split' = split
    BY <1>3, LeaveHistory
  <2>3. IsBranch(Append(chain, op)) /\ (\A t \in Straddling(op, to) : <<op, t>> \in split) /\ op # None
    BY <2>1, BlockFacts DEF CutInv
  <2>4. CASE op' = None
    <3>1. chain' = Append(chain, op)
      BY <2>2, <2>3, <2>4
    <3>2. chain' \in Seq(Block)
      BY <1>1, <2>1, <3>1
    <3>3. IsBranch(chain')
      BY <2>3, <3>1
    <3> QED
      BY <2>1, <2>4, <3>2, <3>3 DEF CutInv, IsBranch
  <2>5. CASE op' = op
    <3>1. chain' = chain /\ pos' = to /\ to < Len(Deltas[op])
      BY <2>1, <2>2, <2>3, <2>5
    <3>3. \A t \in Straddling(op', pos') : <<op', t>> \in split'
      BY <2>2, <2>3, <2>5, <3>1
    <3>4. IsBranch(chain') /\ IsBranch(Append(chain', op'))
      BY <1>1, <2>3, <2>5, <3>1
    <3> QED
      BY <1>1, <2>1, <3>1, <3>3, <3>4 DEF CutInv, IsBranch, Straddling
  <2> QED
    BY <2>1, <2>4, <2>5
<1>4. CASE Within
  <2>1. op' = op /\ pos' = pos /\ to' = to /\ pc # "idle" /\ chain' = chain /\ split' = split
    BY <1>4, WithinFacts, SameBatch, WithinHistory
  <2> QED
    BY <1>7, <2>1
<1>5. CASE Crash \/ AddLabel \/ UNCHANGED vars
  <2>1. /\ op' = op /\ pos' = pos /\ chain' = chain /\ split' = split
        /\ pc' # "idle" => pc # "idle" /\ to' = to
    <3>1. CASE Crash
      BY <3>1, BetweenFacts DEF Crash
    <3>2. CASE AddLabel
      BY <3>2 DEF AddLabel, inHand, run
    <3>3. CASE UNCHANGED vars
      BY <3>3 DEF vars
    <3> QED
      BY <1>5, <3>1, <3>2, <3>3
  <2> QED
    BY <1>7, <2>1
<1>6. CASE OnReorg
  <2>1. op' = op /\ op = None /\ pc' = pc /\ pc = "idle"
    BY <1>6 DEF OnReorg, inHand, run
  <2>2. PICK k \in 0..(Len(chain) - 1) : chain' = SubSeq(chain, 1, k)
    BY <1>6 DEF OnReorg
  <2>3. chain' \in Seq(Block) /\ IsBranch(chain')
    BY <1>1, <2>2, BranchPrefix
  <2> QED
    BY <2>1, <2>3 DEF CutInv, IsBranch
<1> QED
  BY <1>2, <1>3, <1>4, <1>5, <1>6 DEF Next, Within

(* What is settled stays so while no more is flagged. *)
LEMMA SettledKept ==
    ASSUME NEW ds, Settled(ds), dust' = dust, excluded \subseteq excluded',
           \A a \in Own(ds) : seen'[a] # None
    PROVE  Settled(ds)'
<1>1. CollaborativeTxs(ds)' = CollaborativeTxs(ds)
  BY DEF CollaborativeTxs, Collaborative
<1>2. TaintedTxs(ds)' = TaintedTxs(ds)
  BY DEF TaintedTxs, AllTainted
<1>3. DustInflows(ds) \subseteq Own(ds)
  BY DEF DustInflows, Own
<1>4. Flagged(ds)' \subseteq Flagged(ds)
  BY <1>3 DEF Flagged, Settled
<1>5. \A a \in Own(ds)' : seen'[a] # None
  BY DEF Own
<1> QED
  BY <1>1, <1>2, <1>4, <1>5 DEF Settled

LEMMA RetryStep ==
    ASSUME IInv, XInv, [Next]_vars
    PROVE  RetryInv'
<1> USE DEF IInv, XInv
<1>1. /\ first.to \in Nat
      /\ first.to > 0 => op # None /\ pos < first.to
      /\ first.to > 0 /\ op \notin recut =>
            /\ pc # "idle" => to = first.to
            /\ Settled(SubSeq(Deltas[op], pos + 1, first.to))
  BY DEF RetryInv
<1>2. ASSUME first'.to \in Nat,
             first'.to > 0 => op' # None /\ pos' < first'.to,
             first'.to > 0 /\ op' \notin recut' =>
                /\ pc' # "idle" => to' = first'.to
                /\ \E ds : ds = SubSeq(Deltas[op'], pos' + 1, first'.to) /\ Settled(ds)'
      PROVE  RetryInv'
  <2>1. (\E ds : ds = SubSeq(Deltas[op'], pos' + 1, first'.to) /\ Settled(ds)')
           => Settled(SubSeq(Deltas[op], pos + 1, first.to))'
    BY DEF Settled, CollaborativeTxs, Collaborative, TaintedTxs, AllTainted, Flagged, DustInflows, Own
  <2> QED
    BY <1>2, <2>1 DEF RetryInv
<1>3. ASSUME first' = first, op' = op, pos' = pos, recut \subseteq recut',
             op \notin recut' /\ first.to > 0 =>
                /\ pc' # "idle" => to' = first.to
                /\ dust' = dust /\ excluded \subseteq excluded'
                /\ \A a \in Own(SubSeq(Deltas[op], pos + 1, first.to)) : seen'[a] # None
      PROVE  RetryInv'
  <2>1. PICK ds : ds = SubSeq(Deltas[op], pos + 1, first.to)
    OBVIOUS
  <2>2. first.to > 0 /\ op \notin recut' => Settled(ds)'
    <3> SUFFICES ASSUME first.to > 0, op \notin recut' PROVE Settled(ds)'
      OBVIOUS
    <3>1. Settled(ds) /\ dust' = dust /\ excluded \subseteq excluded' /\ \A a \in Own(ds) : seen'[a] # None
      BY <1>1, <1>3, <2>1
    <3> QED
      BY <3>1, SettledKept
  <2>3. ds = SubSeq(Deltas[op'], pos' + 1, first'.to)
    BY <1>3, <2>1
  <2> QED
    BY <1>1, <1>2, <1>3, <2>2, <2>3
<1>4. ASSUME first' = first, first.to = 0 PROVE RetryInv'
  BY <1>1, <1>2, <1>4
<1>5. first.to > 0 /\ op \notin recut =>
          \A a \in Own(SubSeq(Deltas[op], pos + 1, first.to)) : seen[a] # None
  BY <1>1 DEF Settled
<1>6. CASE NextBlock \/ NextBatch
  <2>1. /\ Kept /\ pc' = "insert"
        /\ op = None \/ (op # None /\ op' = op /\ pos' = pos)
    BY <1>6, StartFacts
  <2>2. /\ first' = first /\ recut \subseteq recut'
        /\ op # None /\ op \notin recut' => first.to \in {0, to'}
    BY <1>6, StartHistory
  <2>3. CASE op = None
    <3>1. first.to = 0
      BY <1>1, <2>3
    <3> QED
      BY <1>4, <2>2, <3>1
  <2>4. CASE op # None
    <3>1. first' = first /\ op' = op /\ pos' = pos /\ recut \subseteq recut'
      BY <2>1, <2>2, <2>4
    <3>2. ASSUME op \notin recut', first.to > 0
          PROVE  /\ pc' # "idle" => to' = first.to
                 /\ dust' = dust /\ excluded \subseteq excluded'
                 /\ \A a \in Own(SubSeq(Deltas[op], pos + 1, first.to)) : seen'[a] # None
      <4>1. to' = first.to
        BY <1>1, <2>2, <2>4, <3>2
      <4>2. dust' = dust /\ excluded' = excluded /\ seen' = seen
        BY <2>1 DEF Kept
      <4>3. op \notin recut
        BY <3>1, <3>2
      <4> QED
        BY <1>5, <3>2, <4>1, <4>2, <4>3
    <3> QED
      BY <1>3, <3>1, <3>2
  <2> QED
    BY <2>3, <2>4
<1>7. CASE CommitMessages \/ PeriodicFlushFails
  <2>1. first'.to = 0
    BY <1>7, LeaveHistory
  <2> QED
    BY <1>2, <2>1
<1>8. CASE Within
  <2>1. op' = op /\ pos' = pos /\ to' = to /\ pc # "idle" /\ recut' = recut
    BY <1>8, WithinFacts, SameBatch, WithinHistory
  <2>2. op \in Block /\ pos \in Nat /\ to \in Nat /\ pos < to
    BY <2>1 DEF TypeInv
  <2>3. CASE EnginesDone /\ first.to = 0
    <3>1. pc = "generate" /\ first'.to = to
      BY <1>8, <2>3, WithinHistory
    <3>2. PICK ds : ds = Batch
      OBVIOUS
    <3>3. Settled(ds)
      <4>1. \A a \in Own(Batch) : seen[a] # None
        BY <3>1 DEF RegisterInv, Registered, Upserted, Marked
      <4> QED
        BY <3>1, <3>2, <4>1 DEF StageInv, Settled
    <3>4. dust' = dust /\ excluded' = excluded /\ seen' = seen
      BY <2>3 DEF EnginesDone, store
    <3>5. \A a \in Own(ds) : seen'[a] # None
      BY <3>3, <3>4 DEF Settled
    <3>6. Settled(ds)'
      BY <3>3, <3>4, <3>5, SettledKept
    <3>7. ds = SubSeq(Deltas[op'], pos' + 1, first'.to)
      BY <2>1, <3>1, <3>2 DEF Batch
    <3>8. op' # None /\ first'.to \in Nat /\ pos' < first'.to /\ to' = first'.to
      BY <2>1, <2>2, <3>1, BlockFacts
    <3> QED
      BY <1>2, <3>6, <3>7, <3>8
  <2>4. CASE ~(EnginesDone /\ first.to = 0)
    <3>1. first' = first
      BY <1>8, <2>4, WithinHistory
    <3>2. ASSUME op \notin recut', first.to > 0
          PROVE  /\ pc' # "idle" => to' = first.to
                 /\ dust' = dust /\ excluded \subseteq excluded'
                 /\ \A a \in Own(SubSeq(Deltas[op], pos + 1, first.to)) : seen'[a] # None
      <4>1. to = first.to
        BY <1>1, <2>1, <3>2
      <4>2. Batch = SubSeq(Deltas[op], pos + 1, first.to)
        BY <4>1 DEF Batch
      <4>3. dust' = dust
        <5>1. CASE FlagDust
          <6>1. dust' = dust \cup Flagged(Batch)
            BY <1>8, <5>1, WithinHistory
          <6>2. Flagged(Batch) \subseteq dust
            BY <1>1, <2>1, <3>2, <4>2 DEF Settled
          <6> QED
            BY <6>1, <6>2
        <5>2. CASE FlagOne
          <6>1. dust \subseteq dust' /\ dust' \subseteq dust \cup Flagged(Batch)
            BY <1>8, <5>2, WithinHistory
          <6>2. Flagged(Batch) \subseteq dust
            BY <1>1, <2>1, <3>2, <4>2 DEF Settled
          <6> QED
            BY <6>1, <6>2
        <5>3. CASE ~FlagDust /\ ~FlagOne
          BY <1>8, <5>3, WithinHistory
        <5> QED
          BY <5>1, <5>2, <5>3
      <4>4. excluded \subseteq excluded'
        <5>1. CASE MarkCollaborativeTx
          BY <1>8, <5>1, WithinHistory
        <5>2. CASE ExcludeDust
          BY <1>8, <5>2, WithinHistory
        <5>3. CASE ~MarkCollaborativeTx /\ ~ExcludeDust
          BY <1>8, <5>3, WithinHistory
        <5> QED
          BY <5>1, <5>2, <5>3
      <4>5. ASSUME NEW a \in Own(Batch) PROVE seen'[a] # None
        <5>1. seen[a] # None
          BY <1>5, <2>1, <3>2, <4>2
        <5>2. CASE Upsert
          <6>1. a \in Address
            BY <2>1, BatchFacts
          <6>2. seen'[a] = seen[a]
            BY <5>1, <5>2, <6>1, UpsertFacts
          <6> QED
            BY <5>1, <6>2
        <5>3. CASE ~Upsert
          BY <1>8, <5>1, <5>3, WithinFacts
        <5> QED
          BY <5>2, <5>3
      <4> QED
        BY <2>1, <4>1, <4>2, <4>3, <4>4, <4>5
    <3> QED
      BY <1>3, <2>1, <3>1, <3>2
  <2> QED
    BY <2>3, <2>4
<1>9. CASE Crash \/ AddLabel \/ UNCHANGED vars
  <2>1. /\ first' = first /\ op' = op /\ pos' = pos /\ recut' = recut
        /\ dust' = dust /\ excluded' = excluded /\ seen' = seen
    BY <1>9, BetweenFacts, BetweenHistory DEF Kept, vars
  <2>2. pc' # "idle" => pc # "idle" /\ to' = to
    <3>1. CASE Crash
      BY <3>1, BetweenFacts DEF Crash
    <3>2. CASE AddLabel
      BY <3>2 DEF AddLabel, inHand, run
    <3>3. CASE UNCHANGED vars
      BY <3>3 DEF vars
    <3> QED
      BY <1>9, <3>1, <3>2, <3>3
  <2>3. ASSUME op \notin recut', first.to > 0
        PROVE  /\ pc' # "idle" => to' = first.to
               /\ dust' = dust /\ excluded \subseteq excluded'
               /\ \A a \in Own(SubSeq(Deltas[op], pos + 1, first.to)) : seen'[a] # None
    <3>1. op \notin recut
      BY <2>1, <2>3
    <3>2. pc' # "idle" => to' = first.to
      BY <1>1, <2>2, <2>3, <3>1
    <3>3. dust' = dust /\ excluded \subseteq excluded'
      BY <2>1
    <3> QED
      BY <1>5, <2>1, <2>3, <3>1, <3>2, <3>3
  <2> QED
    BY <1>3, <2>1, <2>3
<1>10. CASE OnReorg
  <2>1. op = None
    BY <1>10 DEF OnReorg
  <2>2. first' = first /\ first.to = 0
    BY <1>1, <1>10, <2>1, BetweenHistory
  <2> QED
    BY <1>4, <2>2
<1> QED
  BY <1>6, <1>7, <1>8, <1>9, <1>10 DEF Next, Within

(* Nothing but recording and notices touches evidence. *)
LEMMA SameEvidence ==
    ASSUME IInv, [Next]_vars, ~OnReorg, ~RecordAndMerge
    PROVE  evidence' = evidence
<1> USE DEF IInv
<1>1. CASE NextBlock \/ NextBatch
  BY <1>1, StartFacts
<1>2. CASE CommitMessages \/ PeriodicFlushFails
  BY <1>2, LeaveFacts
<1>3. CASE Within
  BY <1>3, WithinFacts
<1>4. CASE Crash \/ AddLabel
  BY <1>4, BetweenFacts
<1>5. CASE UNCHANGED vars
  BY <1>5 DEF vars
<1> QED
  BY <1>1, <1>2, <1>3, <1>4, <1>5 DEF Next, Within

(* Evidence becomes active only when it is recorded, and a notice leaves   *)
(* none of an orphaned block.                                              *)
LEMMA ActiveStep ==
    ASSUME IInv, XInv, [Next]_vars, NEW c \in Active'
    PROVE  /\ c \in Active \/ (RecordAndMerge /\ c = Head(cands))
           /\ OnReorg => (c.block \in ToSet(chain) => c.block \in ToSet(chain'))
<1> USE DEF IInv, XInv
<1>1. PICK i \in DOMAIN evidence' : c = evidence'[i].cand /\ evidence'[i].status = "active"
  BY DEF Active
<1>2. ASSUME i \in DOMAIN evidence, evidence'[i] = evidence[i] PROVE c \in Active
  BY <1>1, <1>2 DEF Active
<1>3. CASE OnReorg
  <2>1. PICK k \in 0..(Len(chain) - 1) :
          /\ evidence' = [j \in DOMAIN evidence |->
                IF evidence[j].cand.block \in ToSet(SubSeq(chain, k + 1, Len(chain)))
                THEN Invalidate(evidence[j]) ELSE evidence[j]]
          /\ chain' = SubSeq(chain, 1, k)
    BY <1>3 DEF OnReorg
  <2>2. i \in DOMAIN evidence
    BY <1>1, <2>1
  <2>3. PICK b, st : evidence[i] = [cand |-> b, status |-> st]
    BY <2>2 DEF TypeInv, IsRow
  <2>4. Invalidate(evidence[i]) = [cand |-> b, status |-> "invalidated"]
    BY <2>3 DEF Invalidate
  <2>5. Invalidate(evidence[i]).status = "invalidated"
    BY <2>4
  <2>6. evidence[i].cand.block \notin ToSet(SubSeq(chain, k + 1, Len(chain))) /\ evidence'[i] = evidence[i]
    BY <1>1, <2>1, <2>2, <2>5
  <2>7. chain \in Seq(Block) /\ IsBranch(chain)
    BY DEF CutInv
  <2>8. c.block \in ToSet(chain) => c.block \in ToSet(chain')
    BY <1>1, <2>1, <2>6, <2>7, BranchPrefix
  <2> QED
    BY <1>2, <2>2, <2>6, <2>8
<1>4. CASE RecordAndMerge
  <2>1. ~OnReorg
    BY <1>4 DEF RecordAndMerge, OnReorg
  <2>2. /\ \A j \in DOMAIN evidence : evidence'[j] = evidence[j]
        /\ \A j \in DOMAIN evidence' \ DOMAIN evidence : evidence'[j].cand = Head(cands)
    BY <1>4, RecordFacts
  <2> QED
    BY <1>1, <1>2, <1>4, <2>1, <2>2
<1>5. CASE ~OnReorg /\ ~RecordAndMerge
  <2>1. evidence' = evidence
    BY <1>5, SameEvidence
  <2> QED
    BY <1>1, <1>2, <1>5, <2>1
<1> QED
  BY <1>3, <1>4, <1>5

(* A transaction of the batch is one of the block. *)
LEMMA BatchTxs ==
    ASSUME TypeInv, pc # "idle"
    PROVE  /\ Txs(Batch) \subseteq Txs(Deltas[op])
           /\ \A t \in Txs(Batch) : \E i \in 1..to : Deltas[op][i].tx = t
<1>1. ASSUME NEW t \in Txs(Batch)
      PROVE  t \in Txs(Deltas[op]) /\ \E i \in 1..to : Deltas[op][i].tx = t
  <2>1. PICK k \in DOMAIN Batch : Batch[k].tx = t
    BY DEF Txs
  <2>2. pos + k \in (pos + 1)..to /\ pos + k \in DOMAIN Deltas[op] /\ Batch[k] = Deltas[op][pos + k]
    BY BatchPlace
  <2>3. pos \in Nat /\ to \in Nat
    BY DEF TypeInv
  <2>4. pos + k \in 1..to
    BY <2>2, <2>3
  <2> QED
    BY <2>1, <2>2, <2>4 DEF Txs
<1> QED
  BY <1>1

LEMMA PlaceStep ==
    ASSUME IInv, XInv, [Next]_vars
    PROVE  PlaceInv'
<1> USE DEF IInv, XInv
<1>1. SUFFICES ASSUME NEW c \in Active', c.key \in Asked
      PROVE  /\ c.block \in Block /\ c.tx \in Txs(Deltas[c.block])
             /\ \/ c.block \in ToSet(chain')
                \/ c.block = op' /\ (op' \in recut' \/ \E i \in 1..Reached' : Deltas[op'][i].tx = c.tx)
  BY DEF PlaceInv, Asked, Txs
<1>2. first.to \in Nat /\ pos \in Nat /\ to \in Nat
  BY DEF RetryInv, TypeInv
<1>3. CASE RecordAndMerge /\ c = Head(cands)
  <2>1. pc = "record" /\ cands # <<>>
    BY <1>3, RecordFacts
  <2>2. Sound(c, Batch)
    BY <1>3, <2>1, TailYields DEF CandInv
  <2>3. op \in Block
    BY <2>1 DEF TypeInv
  <2>4. c.block = op /\ c.tx \in Txs(Batch)
    BY <2>2 DEF Sound, Txs
  <2>5. c.tx \in Txs(Deltas[op]) /\ \E i \in 1..to : Deltas[op][i].tx = c.tx
    BY <2>1, <2>4, BatchTxs
  <2>6. op' = op /\ first' = first /\ recut' = recut
    BY <1>3 DEF RecordAndMerge, inHand, world
  <2>7. first.to > 0
    BY <2>1 DEF StageInv
  <2>8. Reached' = first.to
    BY <1>2, <2>6, <2>7 DEF Reached
  <2>9. op \in recut \/ to = first.to
    BY <2>1, <2>7 DEF RetryInv
  <2> QED
    BY <2>3, <2>4, <2>5, <2>6, <2>8, <2>9
<1>4. CASE c \in Active
  <2>1. /\ c.block \in Block /\ c.tx \in Txs(Deltas[c.block])
        /\ \/ c.block \in ToSet(chain)
           \/ c.block = op /\ (op \in recut \/ \E i \in 1..Reached : Deltas[op][i].tx = c.tx)
    BY <1>1, <1>4 DEF PlaceInv
  <2>2. c.block # None
    BY <2>1, BlockFacts
  <2>3. ASSUME NEW n \in Nat, Reached <= n, Reached' = n, op' = op, chain' = chain, recut \subseteq recut'
        PROVE  \/ c.block \in ToSet(chain')
               \/ c.block = op' /\ (op' \in recut' \/ \E i \in 1..Reached' : Deltas[op'][i].tx = c.tx)
    <3>1. Reached \in Nat
      BY <1>2 DEF Reached
    <3>2. \A i \in 1..Reached : i \in 1..n
      BY <2>3, <3>1
    <3> QED
      BY <2>1, <2>3, <3>2
  <2>4. CASE NextBlock \/ NextBatch
    <3>1. /\ first' = first /\ chain' = chain /\ recut \subseteq recut'
      BY <2>4, StartHistory
    <3>2. op = None \/ (op' = op /\ pos' = pos)
      BY <2>4, StartFacts
    <3>3. CASE op = None
      BY <2>1, <2>2, <3>1, <3>3
    <3>4. CASE op' = op /\ pos' = pos
      <4>1. Reached' = Reached /\ Reached \in Nat
        BY <1>2, <3>1, <3>4 DEF Reached
      <4> QED
        BY <2>1, <2>3, <3>1, <3>4, <4>1
    <3> QED
      BY <3>2, <3>3, <3>4
  <2>5. CASE CommitMessages \/ PeriodicFlushFails
    <3>1. /\ op \in Block /\ pc # "idle"
          /\ op' = None \/ (op' = op /\ pos' = to)
      BY <2>5, LeaveFacts
    <3>2. /\ first'.to = 0 /\ recut' = recut
          /\ op' = op => chain' = chain
          /\ op' # op => chain' = Append(chain, op)
      BY <2>5, LeaveHistory
    <3>3. CASE op' = None
      <4>1. chain' = Append(chain, op) /\ chain \in Seq(Block)
        BY <3>1, <3>2, <3>3, BlockFacts DEF CutInv
      <4>2. \A x \in ToSet(chain) : x \in ToSet(chain')
        BY <3>1, <4>1 DEF ToSet
      <4>3. op \in ToSet(chain')
        <5>1. Len(chain) + 1 \in DOMAIN chain' /\ chain'[Len(chain) + 1] = op
          BY <3>1, <4>1
        <5> QED
          BY <5>1 DEF ToSet
      <4> QED
        BY <2>1, <4>2, <4>3
    <3>4. CASE op' = op /\ pos' = to
      <4>1. Reached' = to
        BY <3>2, <3>4 DEF Reached
      <4>2. CASE op \in recut
        BY <2>1, <3>2, <3>4, <4>2
      <4>3. CASE op \notin recut
        <5>1. Reached <= to
          BY <1>2, <3>1, <4>3 DEF Reached, RetryInv, TypeInv
        <5> QED
          BY <1>2, <2>1, <2>3, <3>2, <3>4, <4>1, <5>1
      <4> QED
        BY <4>2, <4>3
    <3> QED
      BY <3>1, <3>3, <3>4
  <2>6. CASE Within
    <3>1. op' = op /\ pos' = pos /\ chain' = chain /\ recut' = recut /\ pc # "idle"
      BY <2>6, WithinFacts, SameBatch, WithinHistory
    <3>2. first' = first \/ (first.to = 0 /\ first'.to = to)
      BY <2>6, WithinHistory
    <3>3. pos < to
      BY <3>1 DEF TypeInv
    <3>4. Reached' \in Nat /\ Reached <= Reached'
      BY <1>2, <3>1, <3>2, <3>3 DEF Reached
    <3> QED
      BY <2>1, <2>3, <3>1, <3>4
  <2>7. CASE Crash \/ AddLabel \/ UNCHANGED vars
    <3>1. op' = op /\ pos' = pos /\ first' = first /\ recut' = recut /\ chain' = chain
      <4>1. CASE Crash
        BY <4>1 DEF Crash
      <4>2. CASE AddLabel
        BY <4>2 DEF AddLabel, inHand, run
      <4>3. CASE UNCHANGED vars
        BY <4>3 DEF vars
      <4> QED
        BY <2>7, <4>1, <4>2, <4>3
    <3>2. Reached' = Reached /\ Reached \in Nat
      BY <1>2, <3>1 DEF Reached
    <3> QED
      BY <2>1, <2>3, <3>1, <3>2
  <2>8. CASE OnReorg
    <3>1. op = None
      BY <2>8 DEF OnReorg
    <3>2. c.block \in ToSet(chain')
      BY <2>1, <2>2, <2>8, <3>1, ActiveStep
    <3> QED
      BY <2>1, <3>2
  <2> QED
    BY <2>4, <2>5, <2>6, <2>7, <2>8 DEF Next, Within
<1> QED
  BY <1>3, <1>4, ActiveStep

(* What was split stays so. *)
LEMMA SplitGrows ==
    ASSUME TypeInv, [Next]_vars
    PROVE  split \subseteq split'
<1>1. CASE NextBlock \/ NextBatch
  BY <1>1, StartHistory
<1>2. CASE CommitMessages \/ PeriodicFlushFails
  BY <1>2, LeaveHistory
<1>3. CASE Within
  BY <1>3, WithinHistory
<1>4. CASE Crash \/ OnReorg \/ AddLabel
  BY <1>4, BetweenHistory
<1>5. CASE UNCHANGED vars
  BY <1>5 DEF vars
<1> QED
  BY <1>1, <1>2, <1>3, <1>4, <1>5 DEF Next, Within

LEMMA CollaborativeStep ==
    ASSUME IInv, XInv, CollaborativeInv, [Next]_vars
    PROVE  CollaborativeInv'
<1> USE DEF IInv, XInv
<1>1. SUFFICES ASSUME NEW i \in DOMAIN evidence', evidence'[i].cand.key \in Asked,
                      <<evidence'[i].cand.block, evidence'[i].cand.tx>> \notin split'
      PROVE  ~Collaborative(TxOf(evidence'[i].cand.block, evidence'[i].cand.tx))
  BY DEF CollaborativeInv, Asked, Collaborative, TxOf
<1>0. <<evidence'[i].cand.block, evidence'[i].cand.tx>> \notin split
  BY <1>1, SplitGrows
<1>2. ASSUME i \in DOMAIN evidence, evidence'[i].cand = evidence[i].cand
      PROVE  ~Collaborative(TxOf(evidence'[i].cand.block, evidence'[i].cand.tx))
  BY <1>0, <1>1, <1>2 DEF CollaborativeInv
<1>3. CASE OnReorg
  BY <1>2, <1>3, ReorgFacts
<1>4. CASE RecordAndMerge
  <2>1. CASE i \in DOMAIN evidence
    BY <1>2, <1>4, <2>1, RecordFacts
  <2>2. CASE i \notin DOMAIN evidence
    <3>1. pc = "record" /\ cands # <<>> /\ evidence'[i].cand = Head(cands)
      BY <1>4, <2>2, RecordFacts
    <3>2. PICK c : c = Head(cands)
      OBVIOUS
    <3>3. Sound(c, Batch)
      BY <3>1, <3>2, TailYields DEF CandInv
    <3>4. c.block = op /\ c.tx \in Txs(Batch) /\ c.tx \notin excluded
      BY <1>1, <3>1, <3>2, <3>3 DEF Sound, Txs, Asked
    <3>5. IsSeq(Batch)
      BY <3>1, BatchFacts
    <3>6. PICK td \in ToSet(GroupByTx(Batch)) :
              td = Pick(Batch, {j \in DOMAIN Batch : Batch[j].tx = c.tx}) /\ td[1].tx = c.tx
      BY <3>4, <3>5, GroupOfTx
    <3>7. TxOf(op, c.tx) = td
      BY <1>0, <3>1, <3>2, <3>4, <3>6, WholeInBatch
    <3>8. CollaborativeTxs(Batch) \subseteq excluded
      BY <3>1 DEF StageInv
    <3>9. ~Collaborative(td)
      BY <3>4, <3>6, <3>8 DEF CollaborativeTxs
    <3> QED
      BY <3>1, <3>2, <3>4, <3>7, <3>9
  <2> QED
    BY <2>1, <2>2
<1>5. CASE ~OnReorg /\ ~RecordAndMerge
  BY <1>2, <1>5, SameEvidence
<1> QED
  BY <1>3, <1>4, <1>5
(* What the stages exclude of the batch is not the source of active        *)
(* evidence, unless the block is in recut or the transaction was split.    *)
LEMMA NothingOfBatch ==
    ASSUME OncePerBranch, IInv, XInv, pc # "idle",
           NEW c \in Active, c.key \in Asked, c.block \notin recut, <<c.block, c.tx>> \notin split,
           c.tx \in Txs(Batch),
           c.tx \in CollaborativeTxs(Batch) \/ c.tx \in TaintedTxs(Batch)
    PROVE  c.tx \in excluded
<1> USE DEF IInv, XInv
<1>1. /\ c.block \in Block /\ c.tx \in Txs(Deltas[c.block])
      /\ \/ c.block \in ToSet(chain)
         \/ c.block = op /\ (op \in recut \/ \E i \in 1..Reached : Deltas[op][i].tx = c.tx)
  BY DEF PlaceInv
<1>2. op \in Block /\ op # None /\ pos \in Nat /\ to \in Nat /\ first.to \in Nat
  BY BlockFacts DEF TypeInv, RetryInv
<1>3. CASE c.block \in ToSet(chain)
  <2>1. chain \in Seq(Block) /\ IsBranch(Append(chain, op))
    BY <1>2 DEF CutInv
  <2>2. PICK s \in Seq(Block) : s = Append(chain, op)
    <3>1. Append(chain, op) \in Seq(Block)
      BY <1>2, <2>1
    <3> QED
      BY <3>1
  <2>3. PICK i \in DOMAIN chain : chain[i] = c.block
    BY <1>3 DEF ToSet
  <2>4. /\ i \in DOMAIN s /\ Len(chain) + 1 \in DOMAIN s /\ i # Len(chain) + 1
        /\ s[i] = c.block /\ s[Len(chain) + 1] = op
    BY <1>2, <2>1, <2>2, <2>3
  <2>5. Txs(Deltas[c.block]) \cap Txs(Deltas[op]) = {}
    BY <2>1, <2>2, <2>4 DEF OncePerBranch
  <2>6. c.tx \in Txs(Deltas[op])
    BY BatchTxs
  <2> QED
    BY <1>1, <2>5, <2>6
<1>4. CASE c.block = op
  <2>1. op \notin recut
    BY <1>4
  <2>2. CASE \E i \in 1..pos : Deltas[op][i].tx = c.tx
    BY <1>4, <2>2, NotBefore
  <2>3. CASE ~\E i \in 1..pos : Deltas[op][i].tx = c.tx
    <3>1. c.block \in ToSet(chain) \/ Reached # pos
      BY <1>1, <2>1, <2>3
    <3>2. CASE Reached # pos
      <4>1. first.to > 0
        BY <1>2, <3>2 DEF Reached
      <4>2. to = first.to /\ Settled(SubSeq(Deltas[op], pos + 1, first.to))
        BY <2>1, <4>1 DEF RetryInv
      <4>3. Settled(Batch)
        BY <4>2 DEF Batch
      <4> QED
        BY <4>3 DEF Settled
    <3> QED
      BY <1>3, <3>1, <3>2
  <2> QED
    BY <2>2, <2>3
<1> QED
  BY <1>1, <1>3, <1>4

LEMMA ExcludedStep ==
    ASSUME OncePerBranch, IInv, XInv, ExcludedOnlyByCut, [Next]_vars
    PROVE  ExcludedOnlyByCut'
<1> USE DEF IInv, XInv
<1>1. SUFFICES ASSUME NEW c \in Active', c.key \in Asked, c.block \notin recut',
                      <<c.block, c.tx>> \notin split'
      PROVE  c.tx \notin excluded'
  BY DEF ExcludedOnlyByCut, Asked
<1>0. <<c.block, c.tx>> \notin split
  BY <1>1, SplitGrows
<1>2. CASE RecordAndMerge
  <2>1. excluded' = excluded /\ recut' = recut
    BY <1>2 DEF RecordAndMerge, store, world
  <2>2. CASE c = Head(cands)
    <3>1. pc = "record" /\ cands # <<>>
      BY <1>2, RecordFacts
    <3>2. Sound(c, Batch)
      BY <2>2, <3>1, TailYields DEF CandInv
    <3> QED
      BY <1>1, <2>1, <3>2 DEF Sound, Asked
  <2>3. CASE c \in Active
    BY <1>0, <1>1, <2>1, <2>3 DEF ExcludedOnlyByCut, Asked
  <2> QED
    BY <2>2, <2>3, ActiveStep
<1>3. CASE MarkCollaborativeTx \/ ExcludeDust \/ ExcludeOne
  <2>1. Within
    BY <1>3 DEF Within
  <2>2. pc # "idle" /\ pc # "record"
    BY <1>3 DEF MarkCollaborativeTx, ExcludeDust, ExcludeOne
  <2>3. c \in Active
    BY <2>2, ActiveStep, RecordFacts
  <2>4. c.block \notin recut
    BY <1>1, <2>1, WithinHistory
  <2>5. c.tx \notin excluded
    BY <1>0, <1>1, <2>3, <2>4 DEF ExcludedOnlyByCut, Asked
  <2>6. \A t \in excluded' : t \in excluded \/ t \in CollaborativeTxs(Batch) \/ t \in TaintedTxs(Batch)
    BY <1>3, <2>1, WithinHistory
  <2>7. CollaborativeTxs(Batch) \subseteq Txs(Batch) /\ TaintedTxs(Batch) \subseteq Txs(Batch)
    <3>1. IsSeq(Batch)
      BY <2>2, BatchFacts
    <3>2. \A td \in ToSet(GroupByTx(Batch)) : td[1].tx \in Txs(Batch)
      BY <3>1, GroupOfTx
    <3> QED
      BY <3>2 DEF CollaborativeTxs, TaintedTxs
  <2> QED
    BY <1>0, <1>1, <2>2, <2>3, <2>4, <2>5, <2>6, <2>7, NothingOfBatch
<1>4. CASE ~RecordAndMerge /\ ~MarkCollaborativeTx /\ ~ExcludeDust /\ ~ExcludeOne
  <2>1. excluded' = excluded /\ recut \subseteq recut'
    <3>1. CASE NextBlock \/ NextBatch
      BY <3>1, StartFacts, StartHistory DEF Kept
    <3>2. CASE CommitMessages \/ PeriodicFlushFails
      BY <3>2, LeaveFacts, LeaveHistory DEF Kept
    <3>3. CASE Within
      BY <1>4, <3>3, WithinHistory
    <3>4. CASE Crash \/ OnReorg \/ AddLabel
      BY <3>4, BetweenFacts, BetweenHistory DEF Kept
    <3>5. CASE UNCHANGED vars
      BY <3>5 DEF vars
    <3> QED
      BY <3>1, <3>2, <3>3, <3>4, <3>5 DEF Next, Within
  <2>2. c \in Active
    BY <1>4, ActiveStep
  <2> QED
    BY <1>0, <1>1, <2>1, <2>2 DEF ExcludedOnlyByCut, Asked
<1> QED
  BY <1>2, <1>3, <1>4

LEMMA InitXInv == Init => XInv
<1> SUFFICES ASSUME Init PROVE XInv
  OBVIOUS
<1> USE DEF Init
<1>1. DOMAIN evidence = {} /\ DOMAIN chain = {} /\ chain \in Seq(Block)
  OBVIOUS
<1>2. Active = {}
  BY <1>1 DEF Active
<1>3. StageInv /\ CutInv
  BY <1>1 DEF StageInv, CutInv, IsBranch
<1>4. first.to = 0
  BY DEF NoAttempt
<1>5. RetryInv
  BY <1>4 DEF RetryInv
<1>6. PlaceInv
  BY <1>2 DEF PlaceInv
<1> QED
  BY <1>3, <1>5, <1>6 DEF XInv

-----------------------------------------------------------------------------
(* A batch run again.                                                      *)

(* Every delta of ds has a row, of whatever block. *)
Stored(ds) == \A k \in DOMAIN ds : \E r \in rows : SameKey(r, ds[k])

(* f lists what the first n engines together yield of ds. *)
Gathers(f, n, ds) ==
    f[0] = <<>> /\ \A m \in 1..n : f[m] = f[m - 1] \o Generate(Engines[m], ds)

Gathered(cs, n, ds) == \E f : Gathers(f, n, ds) /\ cs = f[n]

(* What the stages behind have stored of the batch, and the engines        *)
(* yielded of it.                                                          *)
ProgressInv ==
    /\ pc \in {"upsert"} \cup Upserted => Stored(Batch)
    /\ pc \in {"upsert", "hubs"} => ToSet(todo) \subseteq Own(Batch)
    /\ pc \notin {"generate", "record"} => eng = 0
    /\ pc = "generate" => Gathered(cands, eng, Batch)

(* Another attempt at ds has nothing to store or to mark, and its engines  *)
(* yield what the first attempt's did.                                     *)
Repeatable(ds) ==
    /\ Stored(ds)
    /\ \A a \in Own(ds) : Popular(a) => a \in hub
    /\ Gathered(first.cands, Len(Engines), ds)

(* The block in hand is at its second attempt, which ends as the first did, *)
(* and no label decides.                                                   *)
Again == first.to > 0 /\ op \notin recut /\ label = {}

AgainInv == Again => Repeatable(SubSeq(Deltas[op], pos + 1, first.to))

(* What the engines read of the database and of the batch in hand. *)
Same == rows' = rows /\ seen' = seen /\ hub' = hub /\ excluded' = excluded /\ op' = op

(* An engine yields the same of the same deltas as long as that lasts. *)
LEMMA EnginesRepeat ==
    ASSUME NEW td, Same
    PROVE  /\ CommonInput(td)' = CommonInput(td) /\ Sweep(td)' = Sweep(td)
           /\ Change(td)' = Change(td) /\ Funding(td)' = Funding(td)
           /\ Deployer(td)' = Deployer(td) /\ PairsOf(td)' = PairsOf(td)
<1>1. CommonInput(td)' = CommonInput(td)
  BY DEF Same, CommonInput, Plain, Candidate
<1>2. Sweep(td)' = Sweep(td)
  <2>1. \A src, dst : looksLikeSweep(td, src, dst)' <=> looksLikeSweep(td, src, dst)
    BY DEF Same, looksLikeSweep, distinctSourcesToTarget,
           cumulativeReceived, MapThenSumSet, MapThenFoldSet
  <2> QED
    BY <2>1 DEF Same, Sweep, Each, Candidate
<1>3. Change(td)' = Change(td)
  BY DEF Same, Change, touchesHub, scoreChangeCandidate, Clues, isNewAddress, wasRespentAfter, Candidate
<1>4. Funding(td)' = Funding(td)
  BY DEF Same, Funding, FirstSpenderTo, isNewAddress, Candidate
<1>5. Deployer(td)' = Deployer(td)
  BY DEF Same, Deployer, FirstSpenderTo, Candidate
<1>6. PairsOf(td)' = PairsOf(td)
  BY DEF Same, PairsOf, Candidate
<1> QED
  BY <1>1, <1>2, <1>3, <1>4, <1>5, <1>6

LEMMA GenerateRepeats ==
    ASSUME NEW key, NEW ds, Same
    PROVE  Generate(key, ds)' = Generate(key, ds)
<1>1. Each(GroupByTx(ds), CommonInput)' = Each(GroupByTx(ds), CommonInput)
  BY EnginesRepeat DEF Each
<1>2. Each(GroupByTx(ds), Sweep)' = Each(GroupByTx(ds), Sweep)
  BY EnginesRepeat DEF Each
<1>3. Each(GroupByTx(ds), Change)' = Each(GroupByTx(ds), Change)
  BY EnginesRepeat DEF Each
<1>4. Each(GroupByTx(ds), Funding)' = Each(GroupByTx(ds), Funding)
  BY EnginesRepeat DEF Each
<1>5. Each(GroupByTx(ds), Deployer)' = Each(GroupByTx(ds), Deployer)
  BY EnginesRepeat DEF Each
<1>6. Behavioral(ds)' = Behavioral(ds)
  <2>1. Each(GroupByTx(ds), PairsOf)' = Each(GroupByTx(ds), PairsOf)
    BY EnginesRepeat DEF Each
  <2>2. \A a, b : SharedTransactionCount(a, b)' = SharedTransactionCount(a, b)
    BY DEF Same, SharedTransactionCount
  <2> QED
    BY <2>1, <2>2 DEF Same, Behavioral
<1> QED
  BY <1>1, <1>2, <1>3, <1>4, <1>5, <1>6 DEF Generate

LEMMA GatheredRepeats ==
    ASSUME NEW cs, NEW n, NEW ds, Same
    PROVE  Gathered(cs, n, ds)' <=> Gathered(cs, n, ds)
<1>1. \A key : Generate(key, ds)' = Generate(key, ds)
  BY GenerateRepeats
<1>2. ASSUME NEW f PROVE Gathers(f, n, ds)' <=> Gathers(f, n, ds)
  BY <1>1 DEF Gathers
<1> QED
  BY <1>2 DEF Gathered

(* An engine adds what it yields. *)
LEMMA GatheredNext ==
    ASSUME NEW cs, NEW n \in Nat, NEW ds, Gathered(cs, n, ds)
    PROVE  Gathered(cs \o Generate(Engines[n + 1], ds), n + 1, ds)
<1>1. PICK f : Gathers(f, n, ds) /\ cs = f[n]
  BY DEF Gathered
<1> DEFINE g == [m \in 0..(n + 1) |-> IF m = n + 1 THEN cs \o Generate(Engines[n + 1], ds) ELSE f[m]]
<1>2. g[0] = <<>> /\ g[n + 1] = cs \o Generate(Engines[n + 1], ds)
  BY <1>1 DEF Gathers
<1>3. ASSUME NEW m \in 1..(n + 1) PROVE g[m] = g[m - 1] \o Generate(Engines[m], ds)
  <2>1. m - 1 \in 0..(n + 1) /\ m - 1 # n + 1 /\ m \in 0..(n + 1)
    OBVIOUS
  <2>2. g[m - 1] = f[m - 1]
    BY <2>1
  <2>3. CASE m = n + 1
    <3>1. m - 1 = n
      BY <2>3
    <3> QED
      BY <1>1, <1>2, <2>2, <2>3, <3>1
  <2>4. CASE m # n + 1
    <3>1. m \in 1..n /\ g[m] = f[m]
      BY <2>1, <2>4
    <3> QED
      BY <1>1, <2>2, <3>1 DEF Gathers
  <2> QED
    BY <2>3, <2>4
<1> HIDE DEF g
<1>4. Gathers(g, n + 1, ds)
  BY <1>2, <1>3 DEF Gathers
<1> QED
  BY <1>2, <1>4 DEF Gathered

(* There is one way to gather. *)
LEMMA GatheredOnce ==
    ASSUME NEW cs, NEW dt, NEW n \in Nat, NEW ds, Gathered(cs, n, ds), Gathered(dt, n, ds)
    PROVE  cs = dt
<1>1. PICK f, g : Gathers(f, n, ds) /\ Gathers(g, n, ds) /\ cs = f[n] /\ dt = g[n]
  BY DEF Gathered
<1> DEFINE Bad == {m \in Nat : m <= n /\ f[m] # g[m]}
<1> SUFFICES ASSUME Bad # {} PROVE FALSE
  BY <1>1
<1>2. PICK m \in Bad : \A x \in Bad : m <= x
  <2>1. Bad \subseteq Nat
    OBVIOUS
  <2> HIDE DEF Bad
  <2> QED
    BY <2>1, LeastNatural
<1>3. m \in Nat /\ m <= n /\ f[m] # g[m]
  BY <1>2
<1>4. m # 0
  BY <1>1, <1>3 DEF Gathers
<1>5. m - 1 \in Nat /\ m - 1 <= n /\ m \in 1..n /\ ~(m <= m - 1)
  BY <1>3, <1>4
<1>6. f[m - 1] = g[m - 1]
  BY <1>2, <1>5
<1> QED
  BY <1>1, <1>3, <1>5, <1>6 DEF Gathers

(* Ingest stores every delta of the batch, or finds it stored. *)
LEMMA IngestStores ==
    ASSUME TypeInv, Ingest
    PROVE  Stored(Batch)' /\ rows \subseteq rows'
<1>1. rows' = rows \cup {Row(Batch[i]) : i \in NoConflict(Batch)}
  BY DEF Ingest
<1>2. Batch' = Batch /\ pc # "idle"
  BY WithinFacts, SameBatch DEF Within
<1>3. PICK ds : ds = Batch
  OBVIOUS
<1>4. IsSeq(ds)
  BY <1>2, <1>3, BatchFacts
<1>5. Len(ds) \in Nat /\ DOMAIN ds = 1..Len(ds)
  BY <1>4, SeqFacts
<1>6. ASSUME NEW k \in DOMAIN ds PROVE \E r \in rows' : SameKey(r, ds[k])
  <2> DEFINE Twins == {j \in Nat : j \in 1..k /\ SameKey(ds[j], ds[k])}
  <2>1. k \in Nat /\ k \in Twins
    BY <1>5 DEF SameKey
  <2>2. PICK j \in Twins : \A x \in Twins : j <= x
    <3>1. Twins \subseteq Nat
      OBVIOUS
    <3> HIDE DEF Twins
    <3> QED
      BY <2>1, <3>1, LeastNatural
  <2>3. j \in 1..k /\ SameKey(ds[j], ds[k]) /\ j \in DOMAIN ds
    BY <1>5, <2>1, <2>2
  <2>4. \A i \in 1..(j - 1) : ~SameKey(ds[i], ds[j])
    <3> SUFFICES ASSUME NEW i \in 1..(j - 1), SameKey(ds[i], ds[j]) PROVE FALSE
      OBVIOUS
    <3>1. SameKey(ds[i], ds[k])
      BY <2>3 DEF SameKey
    <3>2. i \in Nat /\ i \in 1..k /\ ~(j <= i)
      BY <2>1, <2>3
    <3> QED
      BY <2>2, <3>1, <3>2
  <2>5. CASE j \in NoConflict(ds)
    <3>1. Row(ds[j]) \in rows'
      BY <1>1, <1>3, <2>5
    <3>2. SameKey(Row(ds[j]), ds[k])
      BY <2>3 DEF SameKey, Row
    <3> QED
      BY <3>1, <3>2
  <2>6. CASE j \notin NoConflict(ds)
    <3>1. PICK r \in rows : SameKey(r, ds[j])
      BY <2>3, <2>4, <2>6 DEF NoConflict
    <3>2. SameKey(r, ds[k])
      BY <2>3, <3>1 DEF SameKey
    <3> QED
      BY <1>1, <3>1, <3>2
  <2> QED
    BY <2>5, <2>6
<1>7. Stored(ds)'
  BY <1>6 DEF Stored, SameKey
<1> QED
  BY <1>1, <1>2, <1>3, <1>7 DEF Stored, SameKey

LEMMA ProgressStep ==
    ASSUME IInv, ProgressInv, [Next]_vars
    PROVE  ProgressInv'
<1> USE DEF IInv
<1>1. ASSUME pc' \in {"idle", "insert"}, eng' = 0 PROVE ProgressInv'
  BY <1>1 DEF ProgressInv, Upserted, Marked
<1>2. ASSUME Batch' = Batch, rows' = rows
      PROVE  Own(Batch)' = Own(Batch) /\ (Stored(Batch)' <=> Stored(Batch))
  BY <1>2 DEF Own, Stored, SameKey
<1>3. CASE NextBlock \/ NextBatch
  BY <1>1, <1>3, StartFacts
<1>4. CASE CommitMessages \/ PeriodicFlushFails
  BY <1>1, <1>4, LeaveFacts
<1>5. CASE Crash
  BY <1>1, <1>5, BetweenFacts
<1>6. CASE OnReorg \/ AddLabel \/ UNCHANGED vars
  <2>1. /\ op' = op /\ pos' = pos /\ to' = to /\ pc' = pc /\ todo' = todo /\ eng' = eng
        /\ cands' = cands /\ Kept
    BY <1>6, BetweenFacts DEF Kept, vars
  <2>2. PICK ds, cs, n : ds = Batch /\ cs = cands /\ n = eng
    OBVIOUS
  <2>3. Batch' = Batch /\ ds = Batch' /\ cs = cands' /\ n = eng'
    BY <2>1, <2>2 DEF Batch
  <2>4. Gathered(cs, n, ds)' <=> Gathered(cs, n, ds)
    BY <2>1, GatheredRepeats DEF Same, Kept
  <2>5. Gathered(cands, eng, Batch)' <=> Gathered(cands, eng, Batch)
    BY <2>2, <2>3, <2>4
  <2> QED
    BY <1>2, <2>1, <2>3, <2>5 DEF ProgressInv, Kept
<1>7. CASE Within
  <2>1. op' = op /\ Batch' = Batch /\ pc # "idle"
    BY <1>7, WithinFacts, SameBatch
  <2>2. IsSeq(Batch) /\ IsSeq(todo)
    BY <2>1, BatchFacts DEF TypeInv
  <2>3. Own(Batch)' = Own(Batch)
    BY <2>1 DEF Own
  <2>4. ToSet(Addresses(Batch)) = Own(Batch)
    BY <2>2, AddressesFacts
  <2>5. CASE Ingest
    <3>1. pc = "insert" /\ pc' = "upsert" /\ todo' = Addresses(Batch) /\ eng' = eng
      BY <2>5 DEF Ingest
    <3>2. Stored(Batch)'
      BY <2>5, IngestStores
    <3>3. eng' = 0
      BY <3>1 DEF ProgressInv
    <3>4. ToSet(todo)' \subseteq Own(Batch)'
      BY <2>3, <2>4, <3>1 DEF ToSet
    <3> QED
      BY <3>1, <3>2, <3>3, <3>4 DEF ProgressInv
  <2>6. CASE Upsert
    <3>1. pc = "upsert" /\ pc' = pc /\ eng' = eng /\ rows' = rows
      BY <2>6 DEF Upsert
    <3>2. PICK i \in DOMAIN todo : todo' = RemoveAt(todo, i)
      BY <2>6 DEF Upsert
    <3>3. ToSet(todo') \subseteq ToSet(todo)
      BY <2>2, <3>2, RemoveAtFacts
    <3> QED
      BY <1>2, <2>1, <3>1, <3>3 DEF ProgressInv
  <2>7. CASE MarkHub
    <3>1. pc = "hubs" /\ pc' = pc /\ eng' = eng /\ rows' = rows /\ todo # <<>> /\ todo' = Tail(todo)
      BY <2>7 DEF MarkHub
    <3>2. ToSet(todo') \subseteq ToSet(todo)
      BY <2>2, <3>1, TailFacts
    <3> QED
      BY <1>2, <2>1, <3>1, <3>2 DEF ProgressInv, Upserted
  <2>8. CASE LoopDone \/ MarkCollaborativeTx \/ FlagDust \/ ExcludeDust
    <3>1. /\ Advance /\ pc \in {"upsert", "hubs", "collaborative", "flag", "exclude"}
          /\ eng' = eng /\ cands' = cands /\ rows' = rows
      BY <2>8 DEF LoopDone, MarkCollaborativeTx, FlagDust, ExcludeDust, store
    <3>2. /\ pc' \in Upserted /\ pc' # "record"
          /\ pc' = "hubs" => todo' = Addresses(Batch)
          /\ pc \in {"upsert"} \cup Upserted /\ pc' # "upsert"
      BY <3>1, AdvanceFacts DEF Upserted, Marked
    <3>3. Stored(Batch)'
      BY <1>2, <2>1, <3>1, <3>2 DEF ProgressInv
    <3>4. eng' = 0 /\ cands' = <<>>
      BY <3>1 DEF ProgressInv, CandInv
    <3>5. PICK ds, cs, n : ds = Batch' /\ cs = cands' /\ n = eng'
      OBVIOUS
    <3>6. Gathered(cs, n, ds)'
      <4> DEFINE f == [m \in {0} |-> <<>>]
      <4>1. Gathers(f, 0, ds)' /\ f[0] = <<>>
        BY DEF Gathers
      <4> QED
        BY <3>4, <3>5, <4>1 DEF Gathered
    <3>7. Gathered(cands, eng, Batch)'
      BY <3>5, <3>6
    <3>8. pc' = "hubs" => ToSet(todo)' \subseteq Own(Batch)'
      BY <2>3, <2>4, <3>2 DEF ToSet
    <3> QED
      BY <3>2, <3>3, <3>4, <3>7, <3>8 DEF ProgressInv
  <2>9. CASE RunEngine
    <3>1. /\ pc = "generate" /\ pc' = pc /\ eng' = eng + 1
          /\ cands' = cands \o Generate(Engines[eng'], Batch) /\ Kept
      BY <2>9 DEF RunEngine, Kept, store
    <3>2. eng \in Nat
      BY DEF TypeInv
    <3>3. PICK ds, cs, n : ds = Batch /\ cs = cands /\ n = eng
      OBVIOUS
    <3>4. Gathered(cs, n, ds)
      BY <3>1, <3>3 DEF ProgressInv
    <3>5. PICK ct : ct = cs \o Generate(Engines[n + 1], ds)
      OBVIOUS
    <3>6. Gathered(ct, n + 1, ds)
      BY <3>2, <3>3, <3>4, <3>5, GatheredNext
    <3>7. Gathered(ct, n + 1, ds)'
      BY <2>1, <3>1, <3>6, GatheredRepeats DEF Same, Kept
    <3>8. ct = cands' /\ n + 1 = eng' /\ ds = Batch'
      BY <2>1, <3>1, <3>3, <3>5
    <3>9. Gathered(cands, eng, Batch)'
      BY <3>7, <3>8
    <3>10. Stored(Batch)'
      BY <1>2, <2>1, <3>1 DEF ProgressInv, Upserted, Marked, Kept
    <3> QED
      BY <3>1, <3>9, <3>10 DEF ProgressInv
  <2>10. CASE EnginesDone \/ RecordAndMerge
    <3>1. pc \in {"generate", "record"} /\ pc' = "record" /\ rows' = rows
      BY <2>10, AdvanceFacts DEF EnginesDone, RecordAndMerge, store
    <3>2. Stored(Batch)'
      BY <1>2, <2>1, <3>1 DEF ProgressInv, Upserted, Marked
    <3> QED
      BY <3>1, <3>2 DEF ProgressInv
  <2>11. CASE ExcludeOne \/ FlagOne
    <3>1. /\ pc \in {"collaborative", "flag", "exclude"} /\ pc' = pc /\ eng' = eng /\ rows' = rows
      BY <2>11 DEF ExcludeOne, FlagOne, run
    <3> QED
      BY <1>2, <2>1, <3>1 DEF ProgressInv, Upserted, Marked
  <2> QED
    BY <1>7, <2>5, <2>6, <2>7, <2>8, <2>9, <2>10, <2>11 DEF Within
<1> QED
  BY <1>3, <1>4, <1>5, <1>6, <1>7 DEF Next, Within

(* At the second attempt nothing that the engines read changes: the rows   *)
(* are conflicts, the addresses registered, the hubs marked and the        *)
(* transactions excluded.                                                  *)
LEMMA NothingNew ==
    ASSUME IInv, XInv, ProgressInv, AgainInv, Again, [Next]_vars,
           ~(CommitMessages \/ PeriodicFlushFails)
    PROVE  Same
<1> USE DEF IInv, XInv
<1>1. op # None
  BY DEF Again, RetryInv
<1>2. CASE NextBlock \/ NextBatch
  BY <1>1, <1>2, StartFacts DEF Same, Kept
<1>3. CASE Crash \/ OnReorg \/ AddLabel
  BY <1>3, BetweenFacts DEF Same, Kept
<1>4. CASE UNCHANGED vars
  BY <1>4 DEF Same, vars
<1>5. CASE Within
  <2>1. op' = op /\ pc # "idle"
    BY <1>5, WithinFacts, SameBatch
  <2>2. PICK ds : ds = Batch
    OBVIOUS
  <2>3. ds = SubSeq(Deltas[op], pos + 1, first.to)
    BY <2>1, <2>2 DEF Again, RetryInv, Batch
  <2>4. Settled(ds) /\ Repeatable(ds)
    BY <2>3 DEF Again, RetryInv, AgainInv
  <2>5. Own(ds) \subseteq Address
    BY <2>1, <2>2, BatchFacts
  <2>6. rows' = rows
    <3>1. CASE Ingest
      <4>1. NoConflict(ds) = {}
        BY <2>4 DEF Repeatable, Stored, NoConflict
      <4>2. rows' = rows \cup {Row(ds[i]) : i \in NoConflict(ds)}
        BY <2>2, <3>1 DEF Ingest
      <4> QED
        BY <4>1, <4>2
    <3> QED
      BY <1>5, <3>1, WithinFacts
  <2>7. seen' = seen
    <3>1. CASE Upsert
      <4>1. PICK i \in DOMAIN todo :
                seen' = [seen EXCEPT ![todo[i]] = IF seen[todo[i]] = None THEN Height[op] ELSE seen[todo[i]]]
        BY <3>1 DEF Upsert
      <4>2. todo[i] \in Own(ds)
        BY <2>2, <3>1 DEF Upsert, ProgressInv, ToSet
      <4>3. seen[todo[i]] # None
        BY <2>4, <4>2 DEF Settled
      <4>4. seen \in [Address -> Nat \cup {None}] /\ todo[i] \in Address
        BY <2>5, <4>2 DEF TypeInv
      <4> QED
        BY <4>1, <4>3, <4>4
    <3> QED
      BY <1>5, <3>1, WithinFacts
  <2>8. hub' = hub
    <3>1. CASE MarkHub
      <4>1. /\ pc = "hubs" /\ todo # <<>>
            /\ hub' = IF LooksLikeHub(Head(todo)) /\ seen[Head(todo)] # None
                      THEN hub \cup {Head(todo)} ELSE hub
        BY <3>1 DEF MarkHub
      <4>2. Head(todo) \in Own(ds)
        BY <2>2, <4>1, TailFacts DEF TypeInv, ProgressInv
      <4>3. LooksLikeHub(Head(todo)) => Head(todo) \in hub
        BY <2>4, <4>2 DEF LooksLikeHub, Again, Repeatable
      <4> QED
        BY <4>1, <4>3
    <3> QED
      BY <1>5, <3>1, WithinFacts
  <2>9. excluded' = excluded
    <3>1. CASE MarkCollaborativeTx
      BY <1>5, <2>2, <2>4, <3>1, WithinHistory DEF Settled
    <3>2. CASE ExcludeDust
      BY <1>5, <2>2, <2>4, <3>2, WithinHistory DEF Settled
    <3>3. CASE ExcludeOne
      <4>1. /\ excluded \subseteq excluded'
            /\ excluded' \subseteq excluded \cup CollaborativeTxs(Batch) \cup TaintedTxs(Batch)
        BY <1>5, <3>3, WithinHistory
      <4> QED
        BY <2>2, <2>4, <4>1 DEF Settled
    <3> QED
      BY <1>5, <3>1, <3>2, <3>3, WithinHistory
  <2> QED
    BY <2>1, <2>6, <2>7, <2>8, <2>9 DEF Same
<1> QED
  BY <1>2, <1>3, <1>4, <1>5 DEF Next, Within

LEMMA RepeatableKept ==
    ASSUME NEW ds, Same, first' = first, Repeatable(ds)
    PROVE  Repeatable(ds)'
<1>1. PICK cs : cs = first.cands
  OBVIOUS
<1>2. Stored(ds)'
  BY DEF Same, Repeatable, Stored, SameKey
<1>3. \A a \in Own(ds) : Popular(a)' => a \in hub'
  BY PopularKept DEF Same, Repeatable
<1>4. Gathered(cs, Len(Engines), ds)'
  BY <1>1, GatheredRepeats DEF Repeatable
<1>5. Gathered(first.cands, Len(Engines), ds)'
  BY <1>1, <1>4
<1>6. \A a \in Own(ds)' : Popular(a)' => a \in hub'
  BY <1>3 DEF Own
<1> QED
  BY <1>2, <1>5, <1>6 DEF Repeatable

LEMMA AgainStep ==
    ASSUME IInv, XInv, ProgressInv, AgainInv, [Next]_vars
    PROVE  AgainInv'
<1> USE DEF IInv, XInv
<1> SUFFICES ASSUME Again' PROVE Repeatable(SubSeq(Deltas[op], pos + 1, first.to))'
  BY DEF AgainInv
<1>1. ASSUME NEW ds, ds = SubSeq(Deltas[op'], pos' + 1, first'.to), Repeatable(ds)'
      PROVE  Repeatable(SubSeq(Deltas[op], pos + 1, first.to))'
  BY <1>1
<1>2. first'.to > 0 /\ op' \notin recut' /\ label' = {}
  BY DEF Again
<1>3. ~(CommitMessages \/ PeriodicFlushFails)
  BY <1>2, LeaveHistory
<1>4. label = {}
  <2>1. CASE AddLabel
    BY <1>2, <2>1 DEF AddLabel
  <2>2. CASE Within
    BY <1>2, <2>2 DEF Within, Ingest, Upsert, MarkHub, LoopDone, MarkCollaborativeTx, FlagDust,
                      ExcludeDust, RunEngine, EnginesDone, RecordAndMerge, ExcludeOne, FlagOne, world
  <2>3. CASE NextBlock \/ NextBatch
    BY <1>2, <2>3 DEF NextBlock, NextBatch, StartBatch
  <2>4. CASE Crash \/ OnReorg \/ UNCHANGED vars
    BY <1>2, <2>4 DEF Crash, OnReorg, vars
  <2> QED
    BY <1>3, <2>1, <2>2, <2>3, <2>4 DEF Next, Within
<1>5. CASE EnginesDone /\ first.to = 0
  <2>1. /\ pc = "generate" /\ eng = Len(Engines) /\ Kept
        /\ first' = [to |-> to, cands |-> cands]
    BY <1>5 DEF EnginesDone, Kept, store
  <2>2. op' = op /\ pos' = pos /\ to' = to
    BY <1>5, WithinFacts, SameBatch DEF Within
  <2>3. PICK ds, cs, n : ds = Batch /\ cs = cands /\ n = eng
    OBVIOUS
  <2>4. Gathered(cs, n, ds)'
    <3>1. Gathered(cs, n, ds)
      BY <2>1, <2>3 DEF ProgressInv
    <3> QED
      BY <2>1, <2>2, <3>1, GatheredRepeats DEF Same, Kept
  <2>5. first'.cands = cs /\ n = Len(Engines)
    BY <2>1, <2>3
  <2>6. Gathered(first.cands, Len(Engines), ds)'
    BY <2>4, <2>5
  <2>7. Stored(ds)'
    BY <2>1, <2>3 DEF ProgressInv, Upserted, Marked, Stored, SameKey, Kept
  <2>8. \A a \in Own(ds) : Popular(a)' => a \in hub'
    BY <2>1, <2>3, PopularKept DEF HubInv, Marked, Kept
  <2>9. \A a \in Own(ds)' : Popular(a)' => a \in hub'
    BY <2>8 DEF Own
  <2>10. Repeatable(ds)'
    BY <2>6, <2>7, <2>9 DEF Repeatable
  <2>11. ds = SubSeq(Deltas[op'], pos' + 1, first'.to)
    BY <2>1, <2>2, <2>3 DEF Batch
  <2> QED
    BY <1>1, <2>10, <2>11
<1>6. CASE ~(EnginesDone /\ first.to = 0)
  <2>1. first' = first
    <3>1. CASE NextBlock \/ NextBatch
      BY <3>1, StartHistory
    <3>2. CASE Within
      BY <1>6, <3>2, WithinHistory
    <3>3. CASE Crash \/ OnReorg \/ AddLabel
      BY <3>3, BetweenHistory
    <3>4. CASE UNCHANGED vars
      BY <3>4 DEF vars
    <3> QED
      BY <1>3, <3>1, <3>2, <3>3, <3>4 DEF Next, Within
  <2>2. op # None
    BY <1>2, <2>1 DEF RetryInv
  <2>3. op' = op /\ pos' = pos /\ recut \subseteq recut'
    <3>1. CASE NextBlock \/ NextBatch
      BY <2>2, <3>1, StartHistory, StartFacts
    <3>2. CASE Within
      BY <3>2, WithinHistory, WithinFacts, SameBatch
    <3>3. CASE Crash \/ OnReorg \/ AddLabel
      BY <3>3, BetweenHistory, BetweenFacts
    <3>4. CASE UNCHANGED vars
      BY <3>4 DEF vars
    <3> QED
      BY <1>3, <3>1, <3>2, <3>3, <3>4 DEF Next, Within
  <2>4. Again
    BY <1>2, <1>4, <2>1, <2>3 DEF Again
  <2>5. PICK ds : ds = SubSeq(Deltas[op], pos + 1, first.to)
    OBVIOUS
  <2>6. Repeatable(ds)
    BY <2>4, <2>5 DEF AgainInv
  <2>7. Same
    BY <1>3, <2>4, NothingNew
  <2>8. Repeatable(ds)'
    BY <2>1, <2>6, <2>7, RepeatableKept
  <2>9. ds = SubSeq(Deltas[op'], pos' + 1, first'.to)
    BY <2>1, <2>3, <2>5
  <2> QED
    BY <1>1, <2>8, <2>9
<1> QED
  BY <1>5, <1>6

-----------------------------------------------------------------------------
(* The theorems.                                                           *)

(* The exclusions, the branch and the evidence stay consistent through     *)
(* retries, cuts, dropped batches and reorganizations.                     *)
THEOREM ExclusionInvariance == Spec => [](IInv /\ XInv)
<1>1. Init => XInv
  BY InitXInv
<1>2. IInv /\ XInv /\ [Next]_vars => XInv'
  BY StageStep, CutStep, RetryStep, PlaceStep DEF XInv
<1> QED
  BY <1>1, <1>2, Invariance, PTL DEF Spec

(* MarkCollaborativeTx before the engines (AC-3): no evidence, and so no   *)
(* active evidence, comes of a transaction that is collaborative as it     *)
(* stands in its block, unless a batch ended within it.  This holds for    *)
(* every chain and wherever the periodic flush cuts it.                    *)
THEOREM CollaborativeMergesOnlyBySplit == Spec => []CollaborativeOnlyBySplit
<1>1. Init => CollaborativeInv
  <2> SUFFICES ASSUME Init PROVE CollaborativeInv
    OBVIOUS
  <2>1. DOMAIN evidence = {}
    BY DEF Init
  <2> QED
    BY <2>1 DEF CollaborativeInv
<1>2. IInv /\ XInv /\ CollaborativeInv /\ [Next]_vars => CollaborativeInv'
  BY CollaborativeStep
<1>3. CollaborativeInv => CollaborativeOnlyBySplit
  <2> SUFFICES ASSUME CollaborativeInv, NEW c \in Active, c.key \in {"common-input", "change"}
               PROVE  ~Collaborative(TxOf(c.block, c.tx)) \/ <<c.block, c.tx>> \in split
    BY DEF CollaborativeOnlyBySplit
  <2>1. PICK i \in DOMAIN evidence : c = evidence[i].cand
    BY DEF Active
  <2> QED
    BY <2>1 DEF CollaborativeInv, Asked
<1> QED
  BY <1>1, <1>2, <1>3, ExclusionInvariance, PTL DEF Spec

(* IsExcluded: no active common-input or change evidence is of a           *)
(* transaction in excluded_tx, unless its batch was run again after a      *)
(* crash with another end or a batch ended within it: however often it is  *)
(* run, whatever dust is flagged later and on whatever branch its          *)
(* transaction comes again.                                                *)
THEOREM ExcludedHoldsNothing ==
    ASSUME OncePerBranch
    PROVE  Spec => []ExcludedOnlyByCut
<1>1. Init => ExcludedOnlyByCut
  <2> SUFFICES ASSUME Init PROVE ExcludedOnlyByCut
    OBVIOUS
  <2>1. DOMAIN evidence = {}
    BY DEF Init
  <2> QED
    BY <2>1 DEF ExcludedOnlyByCut, Active
<1>2. IInv /\ XInv /\ ExcludedOnlyByCut /\ [Next]_vars => ExcludedOnlyByCut'
  BY ExcludedStep
<1> QED
  BY <1>1, <1>2, ExclusionInvariance, PTL DEF Spec

(* A batch run again after a crash, with the end it had, yields exactly    *)
(* the candidates of its first attempt, in their order: the rows, hubs,    *)
(* flags and exclusions the first attempt wrote change nothing that an     *)
(* engine reads.  This holds for every chain, cut and number of crashes.   *)
THEOREM RetryRepeats == Spec => RetryGeneratesTheSame
<1>1. Init => ProgressInv /\ AgainInv
  BY DEF Init, ProgressInv, AgainInv, Again, NoAttempt, Upserted, Marked
<1>2. IInv /\ XInv /\ ProgressInv /\ AgainInv /\ [Next]_vars => ProgressInv' /\ AgainInv'
  BY ProgressStep, AgainStep
<1>3. IInv /\ XInv /\ ProgressInv /\ AgainInv /\ [Next]_vars =>
          [(pc = "generate" /\ pc' = "record" /\ first.to = to /\ label = {} /\ op \notin recut)
              => cands = first.cands]_vars
  <2> SUFFICES ASSUME IInv, XInv, ProgressInv, AgainInv, [Next]_vars,
                      pc = "generate", pc' = "record", first.to = to, label = {}, op \notin recut
               PROVE  cands = first.cands
    OBVIOUS
  <2> USE DEF IInv, XInv
  <2>1. to > 0
    BY DEF TypeInv
  <2>2. Again
    BY <2>1 DEF Again
  <2>3. PICK ds : ds = Batch
    OBVIOUS
  <2>4. Gathered(first.cands, Len(Engines), ds)
    BY <2>2, <2>3 DEF AgainInv, Repeatable, Batch
  <2>5. EnginesDone
    <3>1. ~Within => pc' \in {"idle", "insert", pc}
      BY StartFacts, LeaveFacts, BetweenFacts DEF Next, Within, vars
    <3>2. Within
      BY <3>1
    <3>3. ~RunEngine /\ ~(Ingest \/ Upsert \/ MarkHub \/ LoopDone) /\ ~MarkCollaborativeTx
          /\ ~FlagDust /\ ~ExcludeDust /\ ~ExcludeOne /\ ~FlagOne /\ ~RecordAndMerge
      BY StageOf
    <3> QED
      BY <3>2, <3>3 DEF Within
  <2>6. eng = Len(Engines) /\ Len(Engines) \in Nat
    BY <2>5 DEF EnginesDone, Engines
  <2>7. Gathered(cands, Len(Engines), ds)
    BY <2>3, <2>6 DEF ProgressInv
  <2> QED
    BY <2>4, <2>6, <2>7, GatheredOnce
<1> QED
  BY <1>1, <1>2, <1>3, ExclusionInvariance, PTL DEF Spec, RetryGeneratesTheSame
=============================================================================
