----------------------------- MODULE LabelProofs -----------------------------
(***************************************************************************)
(* Theorems about label maintenance, for every set of labels, chains and   *)
(* targets, and any number of passes, faults and writes by others at every *)
(* point of a pass.                                                        *)
(***************************************************************************)
EXTENDS Label, FiniteSetTheorems, TLAPS

Status == {"none", "active", "stale", "conflicted", "retired"}

LabelRow == [status : Status, decays : Nat, overdue : BOOLEAN]

(* Types, and what a pass holds: nothing between two chains. *)
PassInv ==
    /\ table \in [Labels -> LabelRow]
    /\ decay \subseteq Labels
    /\ mark \subseteq Labels
    /\ pc \in {"wait", "chain"} => decay = {} /\ mark = {}

(* What a pass has still to write belongs to the chain in hand, was live   *)
(* when it was read, and is so still unless somebody wrote it since; what  *)
(* it has still to decay had not been decayed.                             *)
WorkInv ==
    /\ \A l \in decay \cup mark :
          ChainOf[l] = cur /\ (l \in raced \/ table[l].status \notin {"none", "retired"})
    /\ \A l \in decay :
          read[l].decays = 0 /\ (l \in raced \/ table[l].overdue)

IInv == PassInv /\ WorkInv /\ DecayedOnce
-----------------------------------------------------------------------------
(* The rows of a table, and what overwriting one of them leaves. *)
LEMMA RowFacts ==
    ASSUME NEW s \in Status, NEW n \in Nat, NEW o \in BOOLEAN
    PROVE  /\ Row(s, n, o) \in LabelRow
           /\ Row(s, n, o).status = s /\ Row(s, n, o).decays = n /\ Row(s, n, o).overdue = o
BY DEF Row, LabelRow

LEMMA TableFacts ==
    ASSUME table \in [Labels -> LabelRow]
    PROVE  \A l \in Labels : /\ table[l].status \in Status
                             /\ table[l].decays \in Nat
                             /\ table[l].overdue \in BOOLEAN
BY DEF LabelRow

(* Row l becomes r, the other rows stay. *)
Written(l, r) ==
    /\ table' \in [Labels -> LabelRow]
    /\ table'[l] = r
    /\ \A k \in Labels : k # l => table'[k] = table[k]

LEMMA WriteFacts ==
    ASSUME table \in [Labels -> LabelRow], NEW l \in Labels, NEW r \in LabelRow,
           table' = [table EXCEPT ![l] = r]
    PROVE  Written(l, r)
BY DEF Written

(* A pass works on live labels of its chain only. *)
LEMMA ReadFacts ==
    ASSUME NEW c \in Chain, NEW rows, rows = [l \in LiveRows(c) |-> table[l]]
    PROVE  /\ ToDecay(rows) \subseteq LiveRows(c) /\ DetectConflicts(rows) \subseteq LiveRows(c)
           /\ \A l \in ToDecay(rows) : table[l].status = "active" /\ table[l].overdue
           /\ \A l \in LiveRows(c) : rows[l] = table[l] /\ l \in Labels /\ ChainOf[l] = c /\ Live(l)
<1>1. DOMAIN rows = LiveRows(c) /\ \A l \in LiveRows(c) : rows[l] = table[l]
  OBVIOUS
<1>2. DetectConflicts(rows) \subseteq DOMAIN rows
  BY DEF DetectConflicts
<1> QED
  BY <1>1, <1>2 DEF ToDecay, LiveRows

(* IInv is inductive. *)
LEMMA Inductive ==
    /\ Init => IInv
    /\ IInv /\ [Next]_vars => IInv'
<1>1. Init => IInv
  <2>1. ASSUME Init PROVE table \in [Labels -> LabelRow]
    BY <2>1, RowFacts DEF Init, Status
  <2>2. ASSUME Init, NEW l \in Labels PROVE table[l].status = "none" /\ table[l].decays = 0
    BY <2>2 DEF Init, Row
  <2>3. ASSUME Init PROVE DecayedOnce
    BY <2>2, <2>3 DEF DecayedOnce
  <2> QED
    BY <2>1, <2>3 DEF Init, IInv, PassInv, WorkInv
<1> SUFFICES ASSUME IInv, [Next]_vars PROVE IInv'
  BY <1>1
<1>0. table \in [Labels -> LabelRow] /\ decay \subseteq Labels /\ mark \subseteq Labels
  BY DEF IInv, PassInv
<1> USE <1>0, TableFacts
<1>2. ASSUME NEW l \in Labels, NEW r \in LabelRow, table' = [table EXCEPT ![l] = r],
             UNCHANGED pass,
             \/ /\ Touch(l)
                /\ \/ r.decays = 0
                   \/ r.status = "retired" /\ r.decays = table[l].decays
             \/ /\ UNCHANGED raced /\ r.overdue
                /\ r.status = table[l].status /\ r.decays = table[l].decays
      PROVE  IInv'
  <2>1. Written(l, r)
    BY <1>2, WriteFacts
  <2>2. PassInv'
    BY <1>2, <2>1 DEF Written, IInv, PassInv, pass
  <2>3. UNCHANGED <<decay, mark, read, cur>>
    BY <1>2 DEF pass
  <2>4. \A k \in decay \cup mark : k \in raced => k \in raced'
    BY <1>2 DEF Touch, IInv, WorkInv
  <2>5. l \in decay \cup mark => l \in raced' \/ (r.status = table[l].status /\ r.overdue)
    BY <1>2 DEF Touch, IInv, WorkInv
  <2>6. WorkInv'
    BY <2>1, <2>3, <2>4, <2>5 DEF Written, IInv, WorkInv
  <2>7. \A k \in Labels : k # l /\ k \in raced => k \in raced'
    BY <1>2 DEF Touch
  <2>8. DecayedOnce'
    <3>1. r.decays <= (IF r.status = "active" THEN 0 ELSE 1)
      BY <1>2 DEF IInv, DecayedOnce
    <3>2. r.status = "stale" /\ r.decays > 0 => r.overdue \/ l \in raced'
      BY <1>2 DEF Touch, IInv, DecayedOnce
    <3> QED
      BY <2>1, <2>7, <3>1, <3>2 DEF Written, IInv, DecayedOnce
  <2> QED
    BY <2>2, <2>6, <2>8 DEF IInv
<1>3. ASSUME NEW l \in Labels, AddLabel(l) \/ Reverify(l) PROVE IInv'
  <2>1. PICK s \in Status : table' = [table EXCEPT ![l] = Row(s, 0, FALSE)]
    <3>1. \A given \in Given[l] : (IF given = "" THEN "active" ELSE given) \in Status
      BY LabelAssumption DEF Status
    <3>2. "active" \in Status
      BY DEF Status
    <3>3. CASE AddLabel(l)
      BY <3>1, <3>3 DEF AddLabel
    <3>4. CASE Reverify(l)
      BY <3>2, <3>4 DEF Reverify
    <3> QED
      BY <1>3, <3>3, <3>4
  <2> DEFINE r == Row(s, 0, FALSE)
  <2>2. r \in LabelRow /\ r.decays = 0
    BY RowFacts
  <2>3. UNCHANGED pass /\ Touch(l)
    BY <1>3 DEF AddLabel, Reverify
  <2> HIDE DEF r
  <2>4. table' = [table EXCEPT ![l] = r]
    BY <2>1 DEF r
  <2> QED
    BY <1>2, <2>2, <2>3, <2>4
<1>4. ASSUME NEW l \in Labels, TimePasses(l) PROVE IInv'
  <2> DEFINE r == [table[l] EXCEPT !.overdue = TRUE]
  <2>1. /\ r \in LabelRow /\ r.status = table[l].status /\ r.decays = table[l].decays
        /\ r.overdue = TRUE
    BY DEF LabelRow
  <2>2. table' = [table EXCEPT ![l] = r]
    BY <1>4 DEF TimePasses
  <2> QED
    BY <1>2, <1>4, <2>1, <2>2 DEF TimePasses
<1>5. ASSUME NEW l \in Labels, Retire(l) PROVE IInv'
  <2> DEFINE r == [table[l] EXCEPT !.status = "retired"]
  <2>1. r \in LabelRow /\ r.status = "retired" /\ r.decays = table[l].decays
    BY DEF LabelRow, Status
  <2>2. table' = [table EXCEPT ![l] = r]
    BY <1>5 DEF Retire
  <2> QED
    BY <1>2, <1>5, <2>1, <2>2 DEF Retire
<1>6. ASSUME NEW c \in Chain, Maintain(c) PROVE IInv'
  <2> DEFINE rows == [l \in LiveRows(c) |-> table[l]]
  <2>1. /\ read' = rows /\ decay' = ToDecay(rows) /\ mark' = DetectConflicts(rows)
        /\ cur' = c /\ pc' = "decay" /\ UNCHANGED <<table, raced>>
    BY <1>6 DEF Maintain
  <2>2. /\ decay' \cup mark' \subseteq LiveRows(c)
        /\ \A l \in decay' : table[l].status = "active" /\ table[l].overdue /\ read'[l] = table[l]
        /\ \A l \in LiveRows(c) : l \in Labels /\ ChainOf[l] = c /\ Live(l)
    BY <2>1, ReadFacts
  <2>3. \A l \in Labels : table[l].status = "active" => table[l].decays = 0
    BY DEF IInv, DecayedOnce
  <2>4. PassInv' /\ DecayedOnce'
    BY <2>1, <2>2 DEF IInv, PassInv, DecayedOnce
  <2>5. WorkInv'
    BY <2>1, <2>2, <2>3 DEF WorkInv, Live, IsLive
  <2> QED
    BY <2>4, <2>5 DEF IInv
<1>7. CASE Decay
  <2>1. PICK l \in decay : /\ table' = [table EXCEPT ![l].status = "stale",
                                                     ![l].decays = read[l].decays + 1]
                           /\ decay' = decay \ {l}
    BY <1>7 DEF Decay
  <2> DEFINE r == [[table[l] EXCEPT !.status = "stale"] EXCEPT !.decays = read[l].decays + 1]
  <2>2. read[l].decays = 0 /\ l \in Labels /\ (l \in raced \/ table[l].overdue)
    BY <2>1 DEF IInv, WorkInv
  <2>3. table' = [table EXCEPT ![l] = r]
    BY <2>1, <2>2
  <2>4. /\ r \in LabelRow /\ r.status = "stale" /\ r.decays = 1 /\ r.overdue = table[l].overdue
    <3>1. table[l] \in LabelRow /\ read[l].decays + 1 = 1
      BY <2>2
    <3> DEFINE q == [table[l] EXCEPT !.status = "stale"]
    <3>2. q \in LabelRow /\ q.status = "stale" /\ q.overdue = table[l].overdue
      BY <3>1 DEF LabelRow, Status
    <3>3. r = [q EXCEPT !.decays = 1]
      BY <3>1
    <3> HIDE DEF q, r
    <3> QED
      BY <3>2, <3>3 DEF LabelRow
  <2>5. Written(l, r)
    BY <2>2, <2>3, <2>4, WriteFacts
  <2>6. UNCHANGED <<mark, read, cur, raced, pc>>
    BY <1>7 DEF Decay
  <2>7. PassInv'
    BY <1>7, <2>1, <2>5, <2>6 DEF Written, IInv, PassInv, Decay
  <2>8. WorkInv'
    BY <2>1, <2>4, <2>5, <2>6 DEF Written, IInv, WorkInv
  <2>9. DecayedOnce'
    <3> HIDE DEF r
    <3>1. r.decays <= (IF r.status = "active" THEN 0 ELSE 1)
      BY <2>4
    <3> QED
      BY <2>2, <2>4, <2>5, <2>6, <3>1 DEF Written, IInv, DecayedOnce
  <2> QED
    BY <2>7, <2>8, <2>9 DEF IInv
<1>8. CASE Mark
  <2>1. PICK l \in mark : /\ table' = [table EXCEPT ![l].status = "conflicted"]
                          /\ mark' = mark \ {l}
    BY <1>8 DEF Mark
  <2> DEFINE r == [table[l] EXCEPT !.status = "conflicted"]
  <2>2. l \in Labels /\ table' = [table EXCEPT ![l] = r]
    BY <2>1
  <2>3. /\ r \in LabelRow /\ r.status = "conflicted" /\ r.decays = table[l].decays
        /\ r.overdue = table[l].overdue
    BY <2>2 DEF LabelRow, Status
  <2>4. Written(l, r)
    BY <2>2, <2>3, WriteFacts
  <2>5. UNCHANGED <<decay, read, cur, raced, pc>>
    BY <1>8 DEF Mark
  <2>6. PassInv'
    BY <1>8, <2>1, <2>4, <2>5 DEF Written, IInv, PassInv, Mark
  <2>7. WorkInv'
    BY <2>1, <2>3, <2>4, <2>5 DEF Written, IInv, WorkInv
  <2>8. DecayedOnce'
    BY <2>2, <2>3, <2>4, <2>5 DEF Written, IInv, DecayedOnce
  <2> QED
    BY <2>6, <2>7, <2>8 DEF IInv
<1>9. CASE Tick \/ DecayDone \/ TickDone \/ UNCHANGED vars
  BY <1>9 DEF Tick, DecayDone, TickDone, vars, IInv, PassInv, WorkInv, DecayedOnce
<1>10. CASE MarkDone \/ Fault
  <2>1. UNCHANGED table /\ raced \subseteq raced' /\ decay' = {} /\ mark' = {}
    BY <1>10 DEF MarkDone, Fault, Return
  <2> QED
    BY <2>1 DEF IInv, PassInv, WorkInv, DecayedOnce
<1> QED
  BY <1>3, <1>4, <1>5, <1>6, <1>7, <1>8, <1>9, <1>10 DEF Next, Pass, Others

(* The invariant holds of every behaviour of the table. *)
THEOREM Invariance == Spec => []IInv
BY Inductive, PTL DEF Spec

(* A label is decayed at most once between two verifications, an active    *)
(* one not at all, and one a pass made stale is overdue unless it was raced.*)
THEOREM DecayIsNotRepeated == Spec => []DecayedOnce
<1>1. IInv => DecayedOnce
  BY DEF IInv
<1> QED
  BY <1>1, Invariance, PTL

(* A withdrawn label stays withdrawn unless it was withdrawn while a pass  *)
(* held its row.                                                           *)
THEOREM WithdrawnStays == Spec => RevivedOnlyByRace
<1>1. IInv /\ [Next]_vars =>
        [\A l \in Labels \ raced :
            table[l].status = "retired" => table'[l].status = "retired"]_vars
  <2> SUFFICES ASSUME IInv, [Next]_vars, NEW l \in Labels \ raced, table[l].status = "retired"
               PROVE  table'[l].status = "retired"
    OBVIOUS
  <2>0. table \in [Labels -> LabelRow] /\ l \notin decay \cup mark
    BY DEF IInv, PassInv, WorkInv
  <2>1. ASSUME NEW k \in Labels, AddLabel(k) \/ TimePasses(k) \/ Reverify(k) \/ Retire(k)
        PROVE  table'[l].status = "retired"
    <3>1. CASE AddLabel(k) \/ Reverify(k)
      BY <2>0, <3>1 DEF AddLabel, Reverify
    <3>2. CASE TimePasses(k) \/ Retire(k)
      BY <2>0, <3>2 DEF TimePasses, Retire, LabelRow
    <3> QED
      BY <2>1, <3>1, <3>2
  <2>2. CASE Decay \/ Mark
    BY <2>0, <2>2 DEF Decay, Mark
  <2>3. CASE UNCHANGED table
    BY <2>3
  <2> QED
    BY <2>1, <2>2, <2>3 DEF Next, Pass, Others, vars, Tick, Maintain, DecayDone, MarkDone,
       TickDone, Fault
<1> QED
  BY <1>1, Inductive, PTL DEF Spec, RevivedOnlyByRace
-----------------------------------------------------------------------------
(* Two elements are what a count above one means. *)
LEMMA MoreThanOne ==
    ASSUME NEW S, IsFiniteSet(S)
    PROVE  Cardinality(S) > 1 <=> \E x, y \in S : x # y
<1>1. Cardinality(S) \in Nat
  BY FS_CardinalityType
<1>2. Cardinality(S) = 0 <=> S = {}
  BY FS_EmptySet
<1>3. Cardinality(S) = 1 <=> \E x : S = {x}
  BY FS_Singleton
<1>4. (\E x, y \in S : x # y) <=> S # {} /\ ~\E x : S = {x}
  OBVIOUS
<1> QED
  BY <1>1, <1>2, <1>3, <1>4

(* DetectConflicts marks a label exactly when another live label of its    *)
(* target contradicts it: of a conflict all labels or none, on either side *)
(* of it (maintain.go, "must not auto-resolve").                           *)
THEOREM ConflictsAreMarkedWhole ==
    ASSUME NEW rows, IsFiniteSet(DOMAIN rows), NEW l \in DOMAIN rows
    PROVE  l \in DetectConflicts(rows) <=>
               /\ IsLive(rows[l])
               /\ \E m \in DOMAIN rows : IsLive(rows[m]) /\ Contradict(l, m)
<1> DEFINE live == {k \in DOMAIN rows : IsLive(rows[k])}
           On(t) == {k \in live : TargetOf[k] = t}
           Named(t) == {CategoryOf[m] : m \in On(t)}
<1>1. ASSUME NEW t PROVE IsFiniteSet(Named(t))
  <2>1. IsFiniteSet(On(t))
    BY FS_Subset
  <2> DEFINE f == [m \in On(t) |-> CategoryOf[m]]
  <2>2. f \in Surjection(On(t), Named(t))
    BY DEF Surjection
  <2> HIDE DEF On, Named, f
  <2> QED
    BY <2>1, <2>2, FS_Surjection
<1>2. ASSUME NEW t PROVE Cardinality(Named(t)) > 1 <=> \E k, m \in On(t) : CategoryOf[k] # CategoryOf[m]
  <2>1. Cardinality(Named(t)) > 1 <=> \E x, y \in Named(t) : x # y
    <3> HIDE DEF Named
    <3> QED
      BY <1>1, MoreThanOne
  <2> QED
    BY <2>1
<1>3. l \in DetectConflicts(rows) <=> l \in live /\ Cardinality(Named(TargetOf[l])) > 1
  <2>1. DetectConflicts(rows) =
          UNION {On(t) : t \in {TargetOf[j] : j \in {k \in live : Cardinality(Named(TargetOf[k])) > 1}}}
    BY DEF DetectConflicts
  <2> HIDE DEF Named
  <2> QED
    BY <2>1
<1>4. l \in live =>
        ((\E k, m \in On(TargetOf[l]) : CategoryOf[k] # CategoryOf[m])
            <=> \E m \in live : Contradict(l, m))
  BY DEF Contradict
<1> QED
  BY <1>2, <1>3, <1>4
=============================================================================
