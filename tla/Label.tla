-------------------------------- MODULE Label --------------------------------
(***************************************************************************)
(* The label table of blockchain_cluster and its maintenance: AddLabel,    *)
(* DetectConflicts and Maintain of internal/label, called for every chain  *)
(* by the ticker of cmd/server/main.go.  A pass reads the live labels of a *)
(* chain in one statement and then updates them one statement each, with   *)
(* no transaction around them; sources and operators write the same rows   *)
(* meanwhile.                                                              *)
(*                                                                         *)
(* source_confidence is represented by how often it has been multiplied by *)
(* decayFactor since a source or an operator set it, and last_verified_at  *)
(* by whether it is more than staleTTL ago.                                *)
(***************************************************************************)
EXTENDS Integers, FiniteSets

CONSTANTS
    Labels,      \* the labels that may be added
    Chain,       \* the registered chains
    NoChain,     \* no chain in hand
    ChainOf,     \* [Labels -> Chain]
    TargetOf,    \* [Labels -> what keyOf makes of the target]
    CategoryOf,  \* [Labels -> category]
    Given,       \* [Labels -> statuses a caller of AddLabel may give, "" for none]
    MaxFaults,   \* bound: failed statements, expired contexts, crashes
    MaxEdits     \* bound: changes by an operator

ASSUME LabelAssumption ==
    /\ ChainOf \in [Labels -> Chain]
    /\ NoChain \notin Chain
    /\ DOMAIN TargetOf = Labels /\ DOMAIN CategoryOf = Labels
    /\ Given \in [Labels -> SUBSET {"", "active", "stale", "conflicted", "retired"}]
    /\ \A l, m \in Labels : TargetOf[l] = TargetOf[m] => ChainOf[l] = ChainOf[m]
    /\ MaxFaults \in Nat /\ MaxEdits \in Nat

VARIABLES
    table,   \* [Labels -> row]: table label, status "none" for no row
    left,    \* chains this tick has still to maintain
    cur,     \* the chain whose Maintain is under way
    read,    \* the rows it read, as a function on their labels
    decay,   \* labels it has still to decay
    mark,    \* labels it has still to mark as conflicted
    pc,      \* "wait", "chain", "decay" or "mark"
    faults,  \* faults so far
    edits,   \* operator's changes so far
    raced    \* history: labels written by others while a pass over them ran

pass == <<left, cur, read, decay, mark, pc>>
vars == <<table, left, cur, read, decay, mark, pc, faults, edits, raced>>

Row(status, decays, overdue) == [status |-> status, decays |-> decays, overdue |-> overdue]

(* Mutant of IsLive: withdrawn labels take part. *)
IsLiveOrRetired(row) == row.status \in {"active", "stale", "retired"}

IsLive(row) == row.status \in {"active", "stale"}

Live(l) == IsLive(table[l])

Init ==
    /\ table = [l \in Labels |-> Row("none", 0, FALSE)]
    /\ left = {}
    /\ cur = NoChain
    /\ read = [l \in {} |-> Row("none", 0, FALSE)]
    /\ decay = {}
    /\ mark = {}
    /\ pc = "wait"
    /\ faults = 0
    /\ edits = 0
    /\ raced = {}

-----------------------------------------------------------------------------
(* The writers other than the pass. *)

(* History: whoever writes a label whose chain is being maintained races   *)
(* the pass; a write between passes settles the row.                       *)
Touch(l) == raced' = IF ChainOf[l] = cur THEN raced \cup {l} ELSE raced \ {l}

(* AddLabel: a claim is inserted with the status the caller gives it,      *)
(* active by default, whatever the others on its target say.               *)
AddLabel(l) ==
    /\ table[l].status = "none"
    /\ \E status \in Given[l] :
          table' = [table EXCEPT ![l] =
                       Row(IF status = "" THEN "active" ELSE status, 0, FALSE)]
    /\ Touch(l)
    /\ UNCHANGED <<pass, faults, edits>>

(* staleTTL passes without a verification. *)
TimePasses(l) ==
    /\ table[l].status # "none" /\ ~table[l].overdue
    /\ table' = [table EXCEPT ![l].overdue = TRUE]
    /\ UNCHANGED <<pass, faults, edits, raced>>

(* An operator verifies a label anew, or withdraws it. *)
Reverify(l) ==
    /\ table[l].status \in {"active", "stale", "conflicted"}
    /\ edits < MaxEdits /\ edits' = edits + 1
    /\ table' = [table EXCEPT ![l] = Row("active", 0, FALSE)]
    /\ Touch(l)
    /\ UNCHANGED <<pass, faults>>

Retire(l) ==
    /\ table[l].status \in {"active", "stale", "conflicted"}
    /\ edits < MaxEdits /\ edits' = edits + 1
    /\ table' = [table EXCEPT ![l].status = "retired"]
    /\ Touch(l)
    /\ UNCHANGED <<pass, faults>>

-----------------------------------------------------------------------------
(* DetectConflicts: of the live labels of a target, all or none, according *)
(* to whether they name more than one category.                            *)
Contradict(l, m) == TargetOf[l] = TargetOf[m] /\ CategoryOf[l] # CategoryOf[m]

(* Mutant of DetectConflicts: the first label of a target is spared. *)
DetectLaterConflicts(rows) ==
    LET live == {l \in DOMAIN rows : IsLive(rows[l])}
    IN  {l \in live : l # (CHOOSE k \in live : TRUE) /\ \E m \in live : Contradict(l, m)}

DetectConflicts(rows) ==
    LET live == {l \in DOMAIN rows : IsLive(rows[l])}
        On(t) == {l \in live : TargetOf[l] = t}
    IN  UNION {On(t) : t \in {TargetOf[l] : l \in {k \in live :
                  Cardinality({CategoryOf[m] : m \in On(TargetOf[k])}) > 1}}}

(* Mutant of ToDecay: rows already stale are decayed again. *)
ToDecayAgain(rows) == {l \in DOMAIN rows : rows[l].overdue}

(* The rows Maintain decays: active and not verified within staleTTL. *)
ToDecay(rows) == {l \in DOMAIN rows : rows[l].status = "active" /\ rows[l].overdue}

(* The ticker fires: ListChains. *)
Tick ==
    /\ pc = "wait"
    /\ left' = Chain
    /\ pc' = "chain"
    /\ UNCHANGED <<table, cur, read, decay, mark, faults, edits, raced>>

(* The rows of the pass's SELECT. *)
LiveRows(c) == {l \in Labels : ChainOf[l] = c /\ Live(l)}

(* Maintain: the live labels of the chain are read.  Everything below      *)
(* works on what was read here.                                            *)
Maintain(c) ==
    /\ pc = "chain" /\ c \in left
    /\ LET rows == [l \in LiveRows(c) |-> table[l]] IN
          /\ read' = rows
          /\ decay' = ToDecay(rows)
          /\ mark' = DetectConflicts(rows)
    /\ cur' = c
    /\ left' = left \ {c}
    /\ pc' = "decay"
    /\ UNCHANGED <<table, faults, edits, raced>>

(* One decay: status and confidence are overwritten, from the row read.    *)
Decay ==
    /\ pc = "decay"
    /\ \E l \in decay :
          /\ table' = [table EXCEPT ![l].status = "stale",
                                    ![l].decays = read[l].decays + 1]
          /\ decay' = decay \ {l}
    /\ UNCHANGED <<left, cur, read, mark, pc, faults, edits, raced>>

DecayDone ==
    /\ pc = "decay" /\ decay = {}
    /\ pc' = "mark"
    /\ UNCHANGED <<table, left, cur, read, decay, mark, faults, edits, raced>>

(* One conflict: whatever the status has become meanwhile. *)
Mark ==
    /\ pc = "mark"
    /\ \E l \in mark :
          /\ table' = [table EXCEPT ![l].status = "conflicted"]
          /\ mark' = mark \ {l}
    /\ UNCHANGED <<left, cur, read, decay, pc, faults, edits, raced>>

(* Maintain returns. *)
Return ==
    /\ cur' = NoChain
    /\ read' = [l \in {} |-> Row("none", 0, FALSE)]
    /\ decay' = {}
    /\ mark' = {}

(* Mutant of MarkDone: the other chains are left for the next tick. *)
MarkDoneStops ==
    /\ pc = "mark" /\ mark = {}
    /\ Return
    /\ left' = {}
    /\ pc' = "chain"
    /\ UNCHANGED <<table, faults, edits, raced>>

MarkDone ==
    /\ pc = "mark" /\ mark = {}
    /\ Return
    /\ pc' = "chain"
    /\ UNCHANGED <<table, left, faults, edits, raced>>

(* The chains are through, or ListChains had failed. *)
TickDone ==
    /\ pc = "chain" /\ left = {}
    /\ pc' = "wait"
    /\ UNCHANGED <<table, left, cur, read, decay, mark, faults, edits, raced>>

(* A statement fails: Maintain gives up and the next chain is tried.  When *)
(* it failed because the tick's context expired, or the server stopped, so *)
(* does the rest of the tick.  History: a conflict is left half marked.    *)
Fault ==
    /\ pc # "wait"
    /\ faults < MaxFaults /\ faults' = faults + 1
    /\ left' \in {left, {}}
    /\ raced' = raced \cup {l \in mark : \E m \in DetectConflicts(read) \ mark :
                                 TargetOf[l] = TargetOf[m]}
    /\ Return
    /\ pc' = "chain"
    /\ UNCHANGED <<table, edits>>

Pass == Tick \/ (\E c \in Chain : Maintain(c)) \/ Decay \/ DecayDone \/ Mark \/ MarkDone \/ TickDone

Others == \E l \in Labels : AddLabel(l) \/ TimePasses(l) \/ Reverify(l) \/ Retire(l)

Next == Pass \/ Others \/ Fault

Spec == Init /\ [][Next]_vars

(* The ticker goes on firing and a pass begun goes on; nobody has to add,  *)
(* verify or withdraw a label.                                             *)
FairSpec == Spec /\ WF_vars(Pass)
-----------------------------------------------------------------------------
(* A label's confidence is decayed once between two verifications and an   *)
(* active label has the confidence its source gave it, however often a     *)
(* pass fails half-way and is repeated (FR-20); and a label that a pass    *)
(* made stale has a verification that is overdue, unless it was verified   *)
(* while the pass held its old row.                                        *)
DecayedOnce ==
    \A l \in Labels :
        /\ table[l].decays <= IF table[l].status = "active" THEN 0 ELSE 1
        /\ table[l].status = "stale" /\ table[l].decays > 0 =>
              table[l].overdue \/ l \in raced

(* What an operator withdrew stays withdrawn (maintain.go:43, "a 'retired' *)
(* label is dead").                                                        *)
RetiredIsDead ==
    [][\A l \in Labels : table[l].status = "retired" => table'[l].status = "retired"]_vars

(* ... unless it was withdrawn while a pass held its row.                  *)
RevivedOnlyByRace ==
    [][\A l \in Labels \ raced :
          table[l].status = "retired" => table'[l].status = "retired"]_vars

Contradictions == {p \in Labels \X Labels : Contradict(p[1], p[2])}

(* Two labels that contradict each other and are both live end up neither  *)
(* of them live, or one is withdrawn: the pass marks all of a conflict or  *)
(* none of it, so that none of its labels is left to stand as confirmed    *)
(* (FR-21).  Excepted are conflicts a pass left half marked and targets    *)
(* with a label written during a pass.                                     *)
ContradictionsSettle ==
    \A p \in Contradictions :
        [](raced \cap {k \in Labels : TargetOf[k] = TargetOf[p[1]]} = {}) =>
            (Live(p[1]) /\ Live(p[2]) ~>
                \/ ~Live(p[1]) /\ ~Live(p[2])
                \/ \E l \in {p[1], p[2]} : table[l].status = "retired")

(* An overdue label does not stay active: whatever faults happen, some     *)
(* pass gets to it.                                                        *)
OverdueIsDecayed ==
    \A l \in Labels :
        table[l].status = "active" /\ table[l].overdue ~>
            table[l].status # "active" \/ ~table[l].overdue

(* A label contradicted by another that has not been withdrawn does not    *)
(* stay confirmed (maintain.go:42, "must not auto-resolve").            *)
ConflictIsNeverConfirmed ==
    \A p \in Contradictions :
        Live(p[1]) /\ table[p[2]].status \in {"active", "stale", "conflicted"} ~> ~Live(p[1])
=============================================================================
