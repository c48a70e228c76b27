-------------------------------- MODULE Replay --------------------------------
(***************************************************************************)
(* cluster.Replay with the disjoint sets of internal/unionfind, and the    *)
(* threshold view of cluster.Store: how clusters, ids and membership       *)
(* confidences are computed from merge_evidence.  The table changes by one *)
(* row at a time and is replayed after every change, one union and one     *)
(* level of the walk per step; a query at a threshold replays it too.      *)
(*                                                                         *)
(* A confidence c is represented by -log2(1 - c), in units: certainty is   *)
(* infinite, noisy-OR is addition and the order is kept.  noisyOR's        *)
(* float64 1 - (1 - c) may come out below or above c, and the column       *)
(* membership_confidence rounds to thousandths: Float and Numeric say how. *)
(* A cluster id, a hash of the anchor, is represented by the anchor.       *)
(***************************************************************************)
EXTENDS Integers, Sequences, FiniteSetsExt, Functions

CONSTANTS
    Address,    \* addresses, numbered in the order of their strings
    Row,        \* rows that may be appended: [a, b, source, conf]
    Certain,    \* confidence 1.0: more than all others together
    Float,      \* what float64 makes of 1 - (1 - c)
    Numeric,    \* what a NUMERIC(4,3) column makes of a float64
    Threshold,  \* values of min_confidence that are asked for
    MaxRows     \* bound: rows of the table

(* The source of a row is its transaction, or Manual if it has none.       *)
Manual == "manual"

ASSUME RowAssumption ==
    /\ Address \subseteq Nat /\ Certain \in Nat
    /\ \A r \in Row : r.a \in Address /\ r.b \in Address /\ r.a # r.b /\ r.conf \in 1..Certain
    /\ Threshold \subseteq 1..Certain
    /\ MaxRows \in Nat

(* Rounding may go either way but keeps the order. *)
ASSUME RoundingAssumption ==
    /\ Float \in [1..Certain -> 1..Certain]
    /\ Numeric \in [1..Certain -> 0..Certain]
    /\ \A c, d \in 1..Certain : c <= d => Float[c] <= Float[d] /\ Numeric[c] <= Numeric[d]

VARIABLES
    evidence,  \* table merge_evidence: rows with status, in op_id order
    change,    \* history: what the last change of the table was
    view,      \* tables cluster and cluster_membership
    before,    \* history: the view before the last change
    min,       \* the threshold replayed for, 0 for the full view
    answer,    \* the last threshold view, and before that nothing
    pc,        \* "idle", or a phase of Replay
    edges,     \* combinedEdges still to be united, by firstOrder
    dsu,       \* unionfind.DSU: parent and rank
    tree,      \* adjacency: the edges whose Union merged
    conf       \* the walk's confidences, from the anchors on

vars == <<evidence, change, view, before, min, answer, pc, edges, dsu, tree, conf>>
tables == <<evidence, change, view, before>>

-----------------------------------------------------------------------------
(* internal/unionfind *)

New == [parent |-> [x \in Address |-> x], rank |-> [x \in Address |-> 0]]

(* Find: the root, and the path it compresses on the way. *)
Find(d, x) ==
    LET root[y \in Address] == IF d.parent[y] = y THEN y ELSE root[d.parent[y]]
    IN  root[x]

Compress(d, x) ==
    LET path[y \in Address] ==
            IF d.parent[y] = y THEN {y} ELSE {y} \cup path[d.parent[y]]
    IN  [d EXCEPT !.parent = [y \in Address |-> IF y \in path[x] THEN Find(d, x) ELSE d.parent[y]]]

(* Mutant of Link: the wrong root is hung up. *)
LinkSelf(d, ra, rb) ==
    [d EXCEPT !.parent[ra] = IF d.rank[ra] < d.rank[rb] THEN rb ELSE ra, !.rank[ra] = @ + 1]

(* The lower-ranked root is hung under the other. *)
Link(d, ra, rb) ==
    LET up == IF d.rank[ra] < d.rank[rb] THEN rb ELSE ra
        down == IF up = ra THEN rb ELSE ra
    IN  [d EXCEPT !.parent[down] = up,
                  !.rank[up] = IF d.rank[ra] = d.rank[rb] THEN @ + 1 ELSE @]

-----------------------------------------------------------------------------
(* What Replay computes from its rows before the unions.  They are kept by *)
(* their op_id, which is the order in which they are read.                 *)

Pair(r) == {r.a, r.b}

Seen(rows) == UNION {Pair(rows[i]) : i \in DOMAIN rows}

(* firstSeenOrder, address_a before address_b. *)
FirstSeenOrder(rows, x) ==
    Min({2 * i : i \in {j \in DOMAIN rows : rows[j].a = x}}
        \cup {2 * i + 1 : i \in {j \in DOMAIN rows : rows[j].b = x}})

(* sourceKey: rows of one transaction are one observation, a row without   *)
(* one stands for itself.                                                  *)
SourceKey(rows, i) == IF rows[i].source = Manual THEN <<Manual, i>> ELSE <<rows[i].source, 0>>

(* Mutant of Combined: every row counts as independent. *)
CombinedByRow(rows, p) ==
    Float[Min({Certain, MapThenSumSet(LAMBDA i : rows[i].conf,
                                      {i \in DOMAIN rows : Pair(rows[i]) = p})})]

(* bySource: the highest confidence of each source of a pair.              *)
BySource(rows, p) ==
    LET of == {i \in DOMAIN rows : Pair(rows[i]) = p}
    IN  [k \in {SourceKey(rows, i) : i \in of} |->
            Max({rows[i].conf : i \in {j \in of : SourceKey(rows, j) = k}})]

(* The confidence of a pair: its sources are independent, by noisy-OR, as  *)
(* float64 computes it, which rounds with a single source too.             *)
Combined(rows, p) == Float[Min({Certain, SumFunction(BySource(rows, p))})]

(* combinedEdges, each under its firstOrder, the first row of its pair.    *)
CombinedEdges(rows) ==
    [n \in {i \in DOMAIN rows : \A j \in DOMAIN rows : j < i => Pair(rows[j]) # Pair(rows[i])} |->
        LET p == Pair(rows[n])
        IN  [a |-> Min(p), b |-> Max(p), conf |-> Combined(rows, p)]]

(* Mutant of AtLeast: any evidence at all will do. *)
AtLeastOne(r, t) == r.conf >= 1

AtLeast(r, t) == r.conf >= t

(* The rows replayed: the active ones, at a threshold those that reach it. *)
Rows == Restrict(evidence, {i \in DOMAIN evidence : evidence[i].active /\ AtLeast(evidence[i], min)})

-----------------------------------------------------------------------------
Idle ==
    /\ pc' = "idle"
    /\ edges' = <<>>
    /\ dsu' = New
    /\ tree' = {}
    /\ conf' = <<>>

Init ==
    /\ evidence = <<>>
    /\ change = [kind |-> "none"]
    /\ view = <<>>
    /\ before = <<>>
    /\ min = 0
    /\ answer = <<>>
    /\ pc = "idle"
    /\ edges = <<>>
    /\ dsu = New
    /\ tree = {}
    /\ conf = <<>>

(* The table has changed: the view is to be materialised anew. *)
Changed(how) ==
    /\ pc = "idle"
    /\ change' = how
    /\ before' = view
    /\ min' = 0
    /\ answer' = <<>>
    /\ pc' = "collect"
    /\ UNCHANGED <<view, edges, dsu, tree, conf>>

(* evidence.Append, of new evidence ... *)
AppendRow ==
    /\ Len(evidence) < MaxRows
    /\ \E r \in Row : evidence' = Append(evidence, [a |-> r.a, b |-> r.b,
          source |-> r.source, conf |-> r.conf, active |-> TRUE])
    /\ Changed([kind |-> "append"])

(* ... or of what an active row says already, in either direction, when a  *)
(* batch is processed again.                                               *)
AppendAgain ==
    /\ Len(evidence) < MaxRows
    /\ \E i \in DOMAIN evidence :
          /\ evidence[i].active
          /\ \/ evidence' = Append(evidence, evidence[i])
             \/ evidence' = Append(evidence, [evidence[i] EXCEPT !.a = evidence[i].b,
                                                                 !.b = evidence[i].a])
          /\ Changed([kind |-> "again", row |-> evidence[i]])

(* Mutant of Invalidated: with the row go all that came after it. *)
InvalidatedFrom(i) ==
    [j \in DOMAIN evidence |->
        IF j >= i THEN [evidence[j] EXCEPT !.active = FALSE] ELSE evidence[j]]

Invalidated(i) == [evidence EXCEPT ![i].active = FALSE]

Invalidate ==
    \E i \in DOMAIN evidence :
        /\ evidence[i].active
        /\ evidence' = Invalidated(i)
        /\ Changed([kind |-> "invalidate", row |-> evidence[i]])

(* thresholdView *)
Query ==
    /\ pc = "idle" /\ min = 0
    /\ min' \in Threshold
    /\ pc' = "collect"
    /\ UNCHANGED <<tables, answer, edges, dsu, tree, conf>>

Collect ==
    /\ pc = "collect"
    /\ edges' = CombinedEdges(Rows)
    /\ pc' = "union"
    /\ UNCHANGED <<tables, min, answer, dsu, tree, conf>>

(* dsu.Union of the next edge, which joins the tree if it merged. *)
Union ==
    /\ pc = "union" /\ DOMAIN edges # {}
    /\ LET e == edges[Min(DOMAIN edges)]
           found == Compress(Compress(dsu, e.a), e.b)
           ra == Find(dsu, e.a)
           rb == Find(dsu, e.b)
       IN  IF ra = rb THEN dsu' = found /\ UNCHANGED tree
           ELSE dsu' = Link(found, ra, rb) /\ tree' = tree \cup {e}
    /\ edges' = Restrict(edges, DOMAIN edges \ {Min(DOMAIN edges)})
    /\ UNCHANGED <<tables, min, answer, pc, conf>>

Members(x) == {y \in Seen(Rows) : Find(dsu, y) = Find(dsu, x)}

Anchor(x) ==
    CHOOSE y \in Members(x) :
        \A z \in Members(x) : FirstSeenOrder(Rows, y) <= FirstSeenOrder(Rows, z)

(* The walk starts at the anchors ... *)
StartWalk ==
    /\ pc = "union" /\ DOMAIN edges = {}
    /\ conf' = [x \in {Anchor(y) : y \in Seen(Rows)} |-> Certain]
    /\ pc' = "walk"
    /\ UNCHANGED <<tables, min, answer, edges, dsu, tree>>

(* Mutant of Along: only the last edge counts. *)
AlongLast(c, e) == e.conf

Along(c, e) == Min({c, e.conf})

Frontier == {e \in tree : Cardinality(Pair(e) \cap DOMAIN conf) = 1}

(* ... goes along the tree's edges, level by level, ... *)
Walk ==
    /\ pc = "walk" /\ Frontier # {}
    /\ conf' = [x \in DOMAIN conf \cup UNION {Pair(e) : e \in Frontier} |->
          IF x \in DOMAIN conf THEN conf[x]
          ELSE LET e == CHOOSE f \in Frontier : x \in Pair(f)
               IN  Along(conf[CHOOSE y \in Pair(e) : y # x], e)]
    /\ UNCHANGED <<tables, min, answer, pc, edges, dsu, tree>>

(* cluster_membership after CopyFrom. *)
Materialised(result) ==
    [x \in DOMAIN result |-> [id |-> result[x].id, conf |-> Numeric[result[x].conf]]]

(* ... and its result is materialised, or given to whoever asked.          *)
Finish ==
    /\ pc = "walk" /\ Frontier = {}
    /\ LET result == [x \in Seen(Rows) |-> [id |-> Anchor(x), conf |-> conf[x]]]
       IN  IF min = 0 THEN view' = Materialised(result) /\ UNCHANGED answer
           ELSE answer' = result /\ UNCHANGED view
    /\ Idle
    /\ UNCHANGED <<evidence, change, before, min>>

Next ==
    \/ AppendRow \/ AppendAgain \/ Invalidate \/ Query
    \/ Collect \/ Union \/ StartWalk \/ Walk \/ Finish

Spec == Init /\ [][Next]_vars
-----------------------------------------------------------------------------
(* y is reached from x over pairs of S: every closed set with x has y.     *)
Linked(S, x, y) ==
    \A T \in SUBSET Address :
        (x \in T /\ \A r \in S : r.a \in T <=> r.b \in T) => y \in T

ActiveRows == {evidence[i] : i \in {j \in DOMAIN evidence : evidence[j].active}}

(* Two addresses have the same cluster id exactly when active evidence     *)
(* links them, whatever the order of the rows and of the unions, and every *)
(* address of active evidence has one (docs/02 section 5).                 *)
SameIdIffLinked ==
    pc = "idle" =>
        /\ DOMAIN view = UNION {Pair(r) : r \in ActiveRows}
        /\ \A x, y \in DOMAIN view : view[x].id = view[y].id <=> Linked(ActiveRows, x, y)

(* A stored membership confidence is conservative: to the thousandth the   *)
(* column keeps, it is no higher than that of the best path of combined    *)
(* evidence from the anchor, and no lower than that of the weakest pair in *)
(* the cluster (replay.go:54-57).                                          *)
NeverOverstated ==
    pc = "idle" /\ min = 0 =>
        LET pairs == Range(CombinedEdges(Rows))
        IN  \A x \in DOMAIN view :
                /\ Linked({e \in pairs : Numeric[e.conf] >= view[x].conf}, view[x].id, x)
                /\ \E e \in pairs : view[e.a].id = view[x].id /\ Numeric[e.conf] <= view[x].conf

(* At min_confidence every address found has at least the membership       *)
(* confidence that one row of exactly min_confidence gives, which float64  *)
(* may put below min_confidence, and what is one cluster there is within   *)
(* one cluster of the full view (store.go:84-99).                          *)
ThresholdHolds ==
    \A x, y \in DOMAIN answer : pc = "idle" =>
        /\ answer[x].conf >= Float[min]
        /\ answer[x].id = answer[y].id => view[x].id = view[y].id

(* A cluster is answered "if its membership confidence meets               *)
(* minConfidence" (store.go:84-85).                                        *)
ThresholdIsMet == \A x \in DOMAIN answer : pc = "idle" => answer[x].conf >= min

(* Evidence of a transaction that is recorded again changes no cluster, id *)
(* or confidence: at-least-once delivery does not inflate confidences      *)
(* (replay.go:50-53).                                                      *)
RecordedAgainChangesNothing ==
    pc = "idle" /\ change.kind = "again" /\ change.row.source # Manual => view = before

(* Invalidating a row leaves every cluster but the row's own as it is, id  *)
(* and confidences included, and within that one it only splits            *)
(* (docs/02 section 3, T-9 and T-10).                                      *)
RollbackStaysInItsCluster ==
    pc = "idle" /\ change.kind = "invalidate" =>
        /\ \A x \in DOMAIN before : before[x].id # before[change.row.a].id =>
              x \in DOMAIN view /\ view[x] = before[x]
        /\ \A x, y \in DOMAIN view : view[x].id = view[y].id => before[x].id = before[y].id
=============================================================================
