--------------------------- MODULE MergeStoreProofs --------------------------
(***************************************************************************)
(* Theorems about the evidence store, the merge engine and the reorg       *)
(* handler, for every set of addresses and candidates, every log of        *)
(* batches and notices, and any number of crashes, failed periodic flushes *)
(* and corrections, taking turns with the consumer at every statement.     *)
(* They rest on an inductive invariant, IInv, in which what a replay       *)
(* yields is left open; that redelivery does not show needs a second one,  *)
(* PassInv, and what a replay depends on.                                  *)
(***************************************************************************)
EXTENDS MergeStore, NaturalLemmas, TLAPS

USE DEF log, hand

Evidence == [cand : Cand, status : Status]

(* The operation in hand, or next in the log. *)
Op == Ops[done + 1]
Batch == done < Len(Ops) /\ IsRun(Op)
Notice == done < Len(Ops) /\ IsReorg(Op)

(* The tables and locals the argument is about keep their types. *)
TableInv ==
    /\ evidence \in Seq(Evidence)
    /\ done \in 0..Len(Ops)
    /\ committed \in 0..done
    /\ tries \in [1..Len(Ops) -> Nat]
    /\ pc \in [Actor -> Step]
    /\ pc["operator"] \in {"idle", "scan", "write"}
    /\ next \in Nat \ {0}
    /\ list \subseteq DOMAIN evidence
    /\ changed \in BOOLEAN
    /\ DOMAIN scan = Actor
    /\ faults \in Nat

(* Where the consumer is tells what kind of operation it has in hand, only *)
(* a notice that invalidated something leads to a rebuild, and what was    *)
(* passed and not committed are batches that were begun.                   *)
HandInv ==
    /\ pc["consumer"] # "idle" => done < Len(Ops) /\ tries[done + 1] > 0
    /\ pc["consumer"] \in {"mark", "record"} => Batch
    /\ pc["consumer"] = "mark" => next = 1
    /\ pc["consumer"] = "invalidate" => Notice
    /\ pc["consumer"] \in {"scan", "write"} => Batch \/ changed
    /\ \A m \in (committed + 1)..done : IsRun(Ops[m]) /\ tries[m] > 0

(* The rebuild of x that will read the evidence as it is now. *)
Due(x) ==
    \/ pc[x] \in {"record", "scan"}
    \/ x = "consumer" /\ pc[x] = "invalidate" /\ changed
    \/ x = "consumer" /\ pc[x] = "mark" /\ tries[done + 1] > 1
    \/ x = "consumer" /\ pc[x] = "idle" /\ Batch /\ tries[done + 1] > 0

Pending(x) == Due(x) \/ pc[x] = "write"

(* The cache is what a replay yields or a rebuild is still to come; what a *)
(* rebuild has read is current or the other actor's is still to come.      *)
FreshInv ==
    hit \subseteq {"dropped"} =>
        /\ \A x \in Actor : pc[x] = "write" =>
              \/ scan[x] = ActiveCands
              \/ \E y \in Actor \ {x} : Pending(y)
        /\ \/ cache = Replay(ActiveCands)
           \/ \E y \in Actor : Pending(y)

(* The rows a notice is about are listed until they are invalidated.       *)
PurgeInv ==
    /\ \A i \in list : Notice /\ BlockOf[evidence[i].cand] \in Op.hashes
    /\ Notice /\ pc["consumer"] \in {"invalidate", "scan", "write", "commit"} =>
          \A i \in Active : BlockOf[evidence[i].cand] \in Op.hashes => i \in list
    /\ pc["consumer"] # "invalidate" => list = {}

(* Candidate c was rejected, or has a row that no notice took back. *)
Kept(c) ==
    \/ Rejected(c)
    \/ \E i \in DOMAIN evidence :
          evidence[i].cand = c /\ evidence[i].status \in {"active", "manual-correction"}

(* The candidates of the batch in hand have been recorded so far. *)
RecordInv ==
    Batch =>
        /\ pc["consumer"] \in {"mark", "record"} =>
              \A n \in DOMAIN Op.cands : n < next => Kept(Op.cands[n])
        /\ pc["consumer"] \in {"scan", "write", "commit"} =>
              \A n \in DOMAIN Op.cands : Kept(Op.cands[n])

(* Every row comes from an offer of its candidate that the consumer is     *)
(* past, and two rows of a candidate from two offers.                      *)
Past(k, n, t) ==
    pc["consumer"] \in {"mark", "record"} /\ k = done + 1 /\ t = tries[k] => n < next

Recorded(c) ==
    \E k \in 1..Len(Ops) :
        /\ IsRun(Ops[k])
        /\ \E n \in DOMAIN Ops[k].cands : \E t \in 1..tries[k] :
              Ops[k].cands[n] = c /\ Past(k, n, t)

OfferedTwice(c) == \E p, q \in Offers(c) : p # q

OriginInv ==
    /\ \A i \in DOMAIN evidence : Recorded(evidence[i].cand)
    /\ \A i, j \in DOMAIN evidence :
          i # j /\ evidence[i].cand = evidence[j].cand => OfferedTwice(evidence[i].cand)

IInv ==
    /\ TableInv
    /\ HandInv
    /\ FreshInv
    /\ PurgeInv
    /\ RolledBackHasNoEvidence
    /\ RecordInv
    /\ ProcessedHasEvidence
    /\ OriginInv
-----------------------------------------------------------------------------
(* A table with the same rows, one of them changed, is a table. *)
LEMMA SeqFromFunction ==
    ASSUME NEW S, NEW n \in Nat, NEW f \in [1..n -> S]
    PROVE  f \in Seq(S) /\ Len(f) = n
OBVIOUS

(* Invalidate leaves every row but i as it is, and i too if it was not     *)
(* active.                                                                 *)
Invalidated(i, reason) ==
    /\ evidence' \in Seq(Evidence)
    /\ DOMAIN evidence' = DOMAIN evidence
    /\ \A j \in DOMAIN evidence : evidence'[j].cand = evidence[j].cand
    /\ \A j \in DOMAIN evidence : j # i => evidence'[j] = evidence[j]
    /\ evidence[i].status # "active" => evidence' = evidence
    /\ evidence[i].status = "active" => evidence'[i].status = reason
    /\ Active' = Active \ {i}

LEMMA InvalidateFacts ==
    ASSUME evidence \in Seq(Evidence), NEW i \in DOMAIN evidence,
           NEW reason \in {"reorg", "manual-correction"}, Invalidate(i, reason)
    PROVE  Invalidated(i, reason)
<1>1. CASE evidence[i].status # "active"
  <2>1. evidence' = evidence
    BY <1>1 DEF Invalidate
  <2> QED
    BY <1>1, <2>1 DEF Invalidated, Active
<1>2. CASE evidence[i].status = "active"
  <2>1. evidence' = [evidence EXCEPT ![i].status = reason]
    BY <1>2 DEF Invalidate
  <2>2. /\ evidence \in [1..Len(evidence) -> Evidence] /\ Len(evidence) \in Nat
        /\ DOMAIN evidence = 1..Len(evidence)
    OBVIOUS
  <2>3. DOMAIN evidence' = DOMAIN evidence
    BY <2>1
  <2>4. ASSUME NEW j \in DOMAIN evidence, j # i PROVE evidence'[j] = evidence[j]
    BY <2>1, <2>4
  <2>5. evidence'[i] = [evidence[i] EXCEPT !.status = reason]
    BY <2>1
  <2>6. evidence[i] \in Evidence
    BY <2>2
  <2>7. evidence'[i].status = reason /\ evidence'[i].cand = evidence[i].cand
    BY <2>5, <2>6 DEF Evidence
  <2>8. evidence'[i] \in Evidence
    BY <2>5, <2>6 DEF Evidence, Status
  <2>9. evidence' \in [1..Len(evidence) -> Evidence]
    BY <2>1, <2>2, <2>4, <2>8
  <2>10. evidence' \in Seq(Evidence)
    BY <2>2, <2>9, SeqFromFunction
  <2> QED
    BY <1>2, <2>3, <2>4, <2>7, <2>10 DEF Invalidated, Active
<1> QED
  BY <1>1, <1>2

(* The row of a candidate is appended. *)
Appended(c) ==
    /\ evidence' \in Seq(Evidence)
    /\ Len(evidence') = Len(evidence) + 1
    /\ DOMAIN evidence' = DOMAIN evidence \cup {Len(evidence')}
    /\ Len(evidence') \notin DOMAIN evidence
    /\ \A j \in DOMAIN evidence : evidence'[j] = evidence[j]
    /\ evidence'[Len(evidence')] = [cand |-> c, status |-> "active"]
    /\ Active' = Active \cup {Len(evidence')}

LEMMA AppendFacts ==
    ASSUME evidence \in Seq(Evidence), NEW c \in Cand,
           evidence' = Append(evidence, [cand |-> c, status |-> "active"])
    PROVE  Appended(c)
<1>1. [cand |-> c, status |-> "active"] \in Evidence
  BY DEF Evidence, Status
<1>2. evidence' \in Seq(Evidence)
  BY <1>1
<1>3. /\ Len(evidence) \in Nat /\ DOMAIN evidence = 1..Len(evidence)
      /\ Len(evidence') = Len(evidence) + 1 /\ DOMAIN evidence' = 1..Len(evidence')
      /\ evidence'[Len(evidence')] = [cand |-> c, status |-> "active"]
      /\ \A j \in 1..Len(evidence) : evidence'[j] = evidence[j]
  BY <1>1
<1>4. DOMAIN evidence' = DOMAIN evidence \cup {Len(evidence')} /\ Len(evidence') \notin DOMAIN evidence
  BY <1>3
<1>5. Active' = Active \cup {Len(evidence')}
  BY <1>3, <1>4 DEF Active
<1> QED
  BY <1>2, <1>3, <1>4, <1>5 DEF Appended

(* What RecordAndMerge does: the next candidate is rejected or appended. *)
Recording ==
    /\ pc["consumer"] = "record" /\ next <= Len(Op.cands) /\ next' = next + 1
    /\ Batch /\ Op.cands \in Seq(Cand) /\ next \in DOMAIN Op.cands
    /\ Op.cands[next] \in Cand
    /\ \/ evidence' = evidence /\ Rejected(Op.cands[next])
       \/ Appended(Op.cands[next])

LEMMA BatchFacts ==
    ASSUME TableInv, Batch
    PROVE  /\ done + 1 \in 1..Len(Ops) /\ Op.cands \in Seq(Cand) /\ Op.hubs \subseteq Address
           /\ Op.cands \in [DOMAIN Op.cands -> Cand]
           /\ DOMAIN Op.cands = 1..Len(Op.cands) /\ Len(Op.cands) \in Nat
<1>1. done + 1 \in 1..Len(Ops)
  BY OpsAssumption DEF TableInv, Batch
<1>2. Op.cands \in Seq(Cand) /\ Op.hubs \subseteq Address
  BY <1>1, OpsAssumption DEF Batch, Op, IsRun, IsReorg
<1> QED
  BY <1>1, <1>2

LEMMA RecordFacts ==
    ASSUME TableInv, HandInv, RecordAndMerge
    PROVE  Recording
<1>1. Batch /\ pc["consumer"] = "record" /\ next <= Len(Op.cands) /\ next' = next + 1
  BY DEF RecordAndMerge, HandInv, Op
<1>2. Op.cands \in Seq(Cand) /\ next \in 1..Len(Op.cands) /\ next \in DOMAIN Op.cands
  BY <1>1, BatchFacts DEF TableInv
<1>3. Op.cands[next] \in Cand
  BY <1>1, <1>2, BatchFacts
<1>4. evidence' = IF Rejected(Op.cands[next]) THEN evidence
                  ELSE Append(evidence, [cand |-> Op.cands[next], status |-> "active"])
  BY DEF RecordAndMerge, Op
<1>5. CASE Rejected(Op.cands[next])
  BY <1>1, <1>2, <1>3, <1>4, <1>5 DEF Recording
<1>6. CASE ~Rejected(Op.cands[next])
  BY <1>1, <1>2, <1>3, <1>4, <1>6, AppendFacts DEF Recording, TableInv
<1> QED
  BY <1>5, <1>6

(* What InvalidateRow and CorrectRow do. *)
LEMMA InvalidateRowFacts ==
    ASSUME TableInv, InvalidateRow
    PROVE  \E i \in list : /\ i \in DOMAIN evidence /\ Invalidated(i, "reorg")
                           /\ changed' = (changed \/ evidence[i].status = "active")
                           /\ list' = list \ {i}
<1>1. PICK i \in list : /\ Invalidate(i, "reorg") /\ list' = list \ {i}
                        /\ changed' = (changed \/ evidence[i].status = "active")
  BY DEF InvalidateRow
<1>2. i \in DOMAIN evidence
  BY DEF TableInv
<1>3. Invalidated(i, "reorg")
  BY <1>1, <1>2, InvalidateFacts DEF TableInv
<1> QED
  BY <1>1, <1>2, <1>3

LEMMA CorrectRowFacts ==
    ASSUME TableInv, CorrectRow
    PROVE  \E i \in DOMAIN evidence :
              /\ Invalidated(i, "manual-correction")
              /\ Goto("operator", IF evidence[i].status = "active" THEN "scan" ELSE "idle")
<1>1. PICK i \in DOMAIN evidence :
              /\ Invalidate(i, "manual-correction")
              /\ Goto("operator", IF evidence[i].status = "active" THEN "scan" ELSE "idle")
  BY DEF CorrectRow
<1>2. Invalidated(i, "manual-correction")
  BY <1>1, InvalidateFacts DEF TableInv
<1> QED
  BY <1>1, <1>2
-----------------------------------------------------------------------------
(* An actor's step leaves the other actor's position alone. *)
LEMMA GotoFacts ==
    ASSUME pc \in [Actor -> Step], NEW x \in Actor, NEW s \in Step, Goto(x, s)
    PROVE  /\ pc' \in [Actor -> Step]
           /\ pc'[x] = s
           /\ \A y \in Actor : y # x => pc'[y] = pc[y]
BY DEF Goto

LEMMA Actors == "consumer" \in Actor /\ "operator" \in Actor /\ Actor = {"consumer", "operator"}
BY DEF Actor

(* Every step preserves the types. *)
LEMMA TableStep == TableInv /\ HandInv /\ [Next]_vars => TableInv'
<1> SUFFICES ASSUME TableInv, HandInv, [Next]_vars PROVE TableInv'
  OBVIOUS
<1> USE Actors, GotoFacts, OpsAssumption DEF TableInv, Step
<1>1. CASE StartRun
  BY <1>1 DEF StartRun, Begin
<1>14. CASE MarkHub \/ MarkDone
  BY <1>14 DEF MarkHub, MarkDone
<1>2. CASE RecordAndMerge
  <2>1. Recording
    BY <1>2, RecordFacts
  <2>2. evidence' \in Seq(Evidence) /\ DOMAIN evidence \subseteq DOMAIN evidence'
    BY <2>1 DEF Recording, Appended
  <2>3. next' \in Nat \ {0}
    BY <2>1 DEF Recording
  <2> QED
    BY <1>2, <2>2, <2>3 DEF RecordAndMerge
<1>3. CASE RecordDone
  BY <1>3 DEF RecordDone
<1>4. CASE StartReorg
  <2>1. list' \subseteq DOMAIN evidence
    BY <1>4 DEF StartReorg, Active
  <2>2. tries' \in [1..Len(Ops) -> Nat]
    BY <1>4 DEF StartReorg, Begin
  <2>3. pc' \in [Actor -> Step] /\ pc'["operator"] = pc["operator"] /\ changed' = FALSE
    BY <1>4 DEF StartReorg
  <2> QED
    BY <1>4, <2>1, <2>2, <2>3 DEF StartReorg
<1>5. CASE InvalidateRow
  <2>1. /\ evidence' \in Seq(Evidence) /\ DOMAIN evidence' = DOMAIN evidence
        /\ list' \subseteq list /\ changed' \in BOOLEAN
    BY <1>5, InvalidateRowFacts DEF Invalidated
  <2> QED
    BY <1>5, <2>1 DEF InvalidateRow
<1>6. CASE InvalidateDone
  BY <1>6 DEF InvalidateDone, AfterInvalidation
<1>7. CASE Commit
  <2>1. done' \in 0..Len(Ops) /\ committed' \in 0..done'
    BY <1>7 DEF Commit, HandInv
  <2>2. pc' \in [Actor -> Step] /\ pc'["operator"] = pc["operator"] /\ changed' = FALSE
    BY <1>7 DEF Commit
  <2> QED
    BY <1>7, <2>1, <2>2 DEF Commit
<1>8. CASE CorrectRow
  <2>1. evidence' \in Seq(Evidence) /\ DOMAIN evidence' = DOMAIN evidence
    BY <1>8, CorrectRowFacts DEF Invalidated
  <2>2. pc' \in [Actor -> Step] /\ pc'["operator"] \in {"idle", "scan"}
    BY <1>8 DEF CorrectRow
  <2> QED
    BY <1>8, <2>1, <2>2 DEF CorrectRow
<1>9. ASSUME NEW x \in Actor, ScanActive(x) PROVE TableInv'
  BY <1>9 DEF ScanActive
<1>10. ASSUME NEW x \in Actor, ReplaceCache(x) PROVE TableInv'
  BY <1>10 DEF ReplaceCache
<1>11. CASE Crash \/ PeriodicFlushFails
  <2>1. GivesUp /\ done' \in 0..Len(Ops) /\ committed' \in 0..done'
    BY <1>11 DEF Crash, PeriodicFlushFails, HandInv
  <2>2. pc' \in [Actor -> Step] /\ pc'["operator"] = pc["operator"]
    BY <2>1 DEF GivesUp
  <2>3. UNCHANGED <<evidence, tries>> /\ next' = 1 /\ list' = {} /\ changed' = FALSE
    BY <2>1 DEF GivesUp
  <2>4. faults' \in Nat
    BY <2>1 DEF GivesUp
  <2>5. next' \in Nat \ {0} /\ list' \subseteq DOMAIN evidence' /\ DOMAIN scan' = Actor
    BY <2>1, <2>3 DEF GivesUp
  <2> QED
    BY <2>1, <2>2, <2>3, <2>4, <2>5
<1>12. CASE CorrectionFails
  BY <1>12 DEF CorrectionFails
<1>13. CASE Wait \/ UNCHANGED vars
  BY <1>13 DEF Wait, vars
<1> QED
  BY <1>1, <1>2, <1>3, <1>4, <1>5, <1>6, <1>7, <1>8, <1>9, <1>10, <1>11, <1>12, <1>13, <1>14
  DEF Next, Consume

(* The position tells the kind of the operation in hand. *)
LEMMA HandStep == TableInv /\ HandInv /\ [Next]_vars => HandInv'
<1> SUFFICES ASSUME TableInv, HandInv, [Next]_vars PROVE HandInv'
  OBVIOUS
<1>0. /\ pc \in [Actor -> Step] /\ done \in 0..Len(Ops) /\ Len(Ops) \in Nat
      /\ committed \in 0..done /\ tries \in [1..Len(Ops) -> Nat]
  BY OpsAssumption DEF TableInv
<1> USE <1>0, Actors, GotoFacts DEF HandInv, Step, Batch, Notice, Op
<1>1. CASE StartRun
  BY <1>1 DEF StartRun, Begin
<1>14. CASE MarkHub \/ MarkDone
  BY <1>14 DEF MarkHub, MarkDone
<1>2. CASE RecordAndMerge
  BY <1>2 DEF RecordAndMerge
<1>3. CASE RecordDone
  BY <1>3 DEF RecordDone
<1>4. CASE StartReorg
  BY <1>4 DEF StartReorg, Begin
<1>5. CASE InvalidateRow
  BY <1>5 DEF InvalidateRow
<1>6. CASE InvalidateDone
  BY <1>6 DEF InvalidateDone, AfterInvalidation
<1>7. CASE Commit
  BY <1>7 DEF Commit
<1>8. CASE CorrectRow
  BY <1>8 DEF CorrectRow
<1>9. ASSUME NEW x \in Actor, ScanActive(x) PROVE HandInv'
  BY <1>9 DEF ScanActive
<1>10. ASSUME NEW x \in Actor, ReplaceCache(x) PROVE HandInv'
  BY <1>10 DEF ReplaceCache
<1>11. CASE Crash \/ PeriodicFlushFails
  BY <1>11 DEF Crash, PeriodicFlushFails, GivesUp
<1>12. CASE CorrectionFails
  BY <1>12 DEF CorrectionFails
<1>13. CASE Wait \/ UNCHANGED vars
  BY <1>13 DEF Wait, vars
<1> QED
  BY <1>1, <1>2, <1>3, <1>4, <1>5, <1>6, <1>7, <1>8, <1>9, <1>10, <1>11, <1>12, <1>13, <1>14
  DEF Next, Consume

(* The history grows. *)
LEMMA HitGrows == [Next]_vars => hit \subseteq hit'
BY DEF Next, Consume, vars, StartRun, MarkHub, MarkDone, RecordAndMerge, RecordDone, StartReorg,
   InvalidateRow, InvalidateDone, Commit, Wait, CorrectRow, ScanActive, ReplaceCache, Crash,
   PeriodicFlushFails, GivesUp, CorrectionFails

(* Evidence, cache and reads unchanged, and nobody's rebuild forgotten. *)
LEMMA FreshKept ==
    ASSUME FreshInv, hit \subseteq {"dropped"}, UNCHANGED <<evidence, cache>>,
           \A x \in Actor : Pending(x) => Pending(x)',
           \A x \in Actor : pc'[x] = "write" => pc[x] = "write" /\ scan'[x] = scan[x]
    PROVE  FreshInv'
<1>1. ActiveCands' = ActiveCands
  BY DEF ActiveCands
<1>2. Replay(ActiveCands)' = Replay(ActiveCands)
  BY <1>1
<1> QED
  BY <1>1, <1>2 DEF FreshInv

(* Whoever changes the evidence rebuilds after the change. *)
LEMMA FreshStep == TableInv /\ HandInv /\ FreshInv /\ [Next]_vars => FreshInv'
<1> SUFFICES ASSUME TableInv, HandInv, FreshInv, [Next]_vars,
                    hit' \subseteq {"dropped"}
             PROVE  FreshInv'
  BY DEF FreshInv
<1>0. /\ pc \in [Actor -> Step] /\ hit \subseteq {"dropped"}
      /\ pc["operator"] \in {"idle", "scan", "write"}
      /\ pc["consumer"] = "record" => Batch
      /\ pc["consumer"] \in {"scan", "write"} => Batch \/ changed
  BY HitGrows DEF TableInv, HandInv
<1> USE <1>0, Actors, GotoFacts, FreshKept DEF Step
<1>1. CASE StartRun
  <2>1. done + 1 \in 1..Len(Ops) /\ tries[done + 1] \in Nat
    BY <1>1, OpsAssumption DEF StartRun, TableInv
  <2>2. tries'[done + 1] = tries[done + 1] + 1
    BY <1>1, <2>1 DEF StartRun, Begin, TableInv
  <2>3. tries[done + 1] > 0 => tries'[done + 1] > 1
    BY <2>1, <2>2
  <2> QED
    BY <1>1, <2>3 DEF StartRun, Pending, Due, Batch, Op
<1>14. CASE MarkHub \/ MarkDone
  BY <1>14 DEF MarkHub, MarkDone, Pending, Due, Batch, Op
<1>2. CASE RecordAndMerge
  <2>1. pc["consumer"] = "record" /\ pc' = pc /\ Due("consumer")'
    BY <1>2 DEF RecordAndMerge, Due
  <2> QED
    BY <2>1 DEF FreshInv, Pending
<1>3. CASE RecordDone
  BY <1>3 DEF RecordDone, Pending, Due, Batch, Op
<1>4. CASE StartReorg
  BY <1>4 DEF StartReorg, Pending, Due, Batch, Op, IsRun, IsReorg
<1>5. CASE InvalidateRow
  <2>1. PICK i \in list : /\ i \in DOMAIN evidence /\ Invalidated(i, "reorg")
                          /\ changed' = (changed \/ evidence[i].status = "active")
    BY <1>5, InvalidateRowFacts
  <2>2. pc' = pc /\ pc["consumer"] = "invalidate" /\ UNCHANGED <<cache, done, scan, tries>>
    BY <1>5 DEF InvalidateRow
  <2>3. CASE changed'
    <3>1. Due("consumer")'
      BY <2>2, <2>3 DEF Due
    <3> QED
      BY <2>2, <3>1 DEF FreshInv, Pending
  <2>4. CASE ~changed'
    <3>1. evidence' = evidence /\ ~changed
      BY <2>1, <2>4 DEF Invalidated
    <3>2. \A x \in Actor : Pending(x) => Pending(x)'
      BY <2>2, <3>1 DEF Pending, Due, Batch, Op
    <3> QED
      BY <2>2, <3>1, <3>2
  <2> QED
    BY <2>3, <2>4
<1>6. CASE InvalidateDone
  BY <1>6 DEF InvalidateDone, AfterInvalidation, Pending, Due, Batch, Op
<1>7. CASE Commit
  BY <1>7 DEF Commit, Pending, Due, Batch, Op
<1>8. CASE CorrectRow
  <2>1. PICK i \in DOMAIN evidence :
              /\ Invalidated(i, "manual-correction")
              /\ Goto("operator", IF evidence[i].status = "active" THEN "scan" ELSE "idle")
    BY <1>8, CorrectRowFacts
  <2>2. pc["operator"] = "idle" /\ UNCHANGED <<cache, done, scan, tries, changed>>
    BY <1>8 DEF CorrectRow
  <2>3. CASE evidence[i].status = "active"
    <3>1. Due("operator")' /\ pc'["operator"] # "write"
      BY <2>1, <2>2, <2>3 DEF Due
    <3> QED
      BY <2>2, <3>1 DEF FreshInv, Pending
  <2>4. CASE evidence[i].status # "active"
    <3>1. evidence' = evidence
      BY <2>1, <2>4 DEF Invalidated
    <3>2. pc'["operator"] = "idle" /\ pc'["consumer"] = pc["consumer"]
      BY <2>1, <2>4
    <3>3. \A x \in Actor : Pending(x) => Pending(x)'
      BY <2>2, <3>1, <3>2 DEF Pending, Due, Batch, Op
    <3> QED
      BY <2>2, <3>1, <3>2, <3>3
  <2> QED
    BY <2>3, <2>4
<1>9. ASSUME NEW x \in Actor, ScanActive(x) PROVE FreshInv'
  <2>1. /\ pc[x] = "scan" /\ pc'[x] = "write" /\ \A y \in Actor : y # x => pc'[y] = pc[y]
        /\ UNCHANGED <<evidence, cache, done, tries, changed>>
        /\ scan' = [scan EXCEPT ![x] = ActiveCands]
    BY <1>9 DEF ScanActive
  <2>2. ActiveCands' = ActiveCands /\ scan'[x] = ActiveCands
    BY <2>1 DEF ActiveCands, TableInv
  <2>3. Pending(x)'
    BY <2>1 DEF Pending
  <2> QED
    BY <2>1, <2>2, <2>3 DEF FreshInv
<1>10. ASSUME NEW x \in Actor, ReplaceCache(x) PROVE FreshInv'
  <2>1. /\ pc[x] = "write" /\ pc'[x] \in {"commit", "idle"} /\ cache' = Replay(scan[x])
        /\ \A y \in Actor : y # x => pc'[y] = pc[y]
        /\ UNCHANGED <<evidence, done, tries, changed>>
    BY <1>10 DEF ReplaceCache
  <2>2. \A y \in Actor \ {x} : pc[y] # "write"
    BY <1>10 DEF ReplaceCache
  <2>3. \A y \in Actor : pc'[y] # "write"
    BY <2>1, <2>2
  <2>4. CASE scan[x] = ActiveCands
    <3>1. cache' = Replay(ActiveCands)'
      BY <2>1, <2>4 DEF ActiveCands
    <3> QED
      BY <2>3, <3>1 DEF FreshInv
  <2>5. CASE scan[x] # ActiveCands
    <3>1. PICK y \in Actor \ {x} : Pending(y)
      BY <2>1, <2>5 DEF FreshInv
    <3>2. Pending(y)'
      BY <2>1, <3>1 DEF Pending, Due, Batch, Op
    <3> QED
      BY <2>3, <3>2 DEF FreshInv
  <2> QED
    BY <2>4, <2>5
<1>11. CASE Crash \/ PeriodicFlushFails
  <2>1. /\ pc'["consumer"] = "idle" /\ pc'["operator"] = pc["operator"]
        /\ UNCHANGED <<evidence, cache, tries>> /\ scan'["operator"] = scan["operator"]
    <3>1. GivesUp
      BY <1>11 DEF Crash, PeriodicFlushFails
    <3>2. pc'["consumer"] = "idle" /\ pc'["operator"] = pc["operator"]
      BY <3>1 DEF GivesUp
    <3>3. scan'["operator"] = scan["operator"]
      BY <3>1 DEF GivesUp
    <3> QED
      BY <3>1, <3>2, <3>3 DEF GivesUp
  <2>2. Pending("consumer") => Pending("consumer")'
    <3>1. CASE Crash
      <4>1. ~(changed /\ pc["consumer"] # "commit") /\ done' = committed
        BY <3>1 DEF Crash
      <4>2. CASE committed = done
        BY <2>1, <4>1, <4>2 DEF Pending, Due, HandInv, Batch, Op
      <4>3. CASE committed # done
        <5>1. committed + 1 \in (committed + 1)..done /\ committed < Len(Ops)
          BY <4>3, OpsAssumption DEF TableInv
        <5> QED
          BY <2>1, <4>1, <5>1 DEF Pending, Due, HandInv, Batch, Op
      <4> QED
        BY <4>2, <4>3
    <3>2. CASE PeriodicFlushFails
      <4>1. /\ pc["consumer"] \notin {"record", "scan", "write"}
            /\ ~(pc["consumer"] = "mark" /\ tries[done + 1] > 1)
        BY <3>2 DEF PeriodicFlushFails
      <4>2. pc["consumer"] # "idle" /\ IsRun(Ops[done + 1])
        BY <3>2 DEF PeriodicFlushFails
      <4> QED
        BY <4>1, <4>2 DEF Pending, Due, HandInv, Notice, Op, IsRun, IsReorg
    <3> QED
      BY <1>11, <3>1, <3>2
  <2>3. Pending("operator") => Pending("operator")'
    BY <2>1 DEF Pending, Due
  <2> QED
    BY <2>1, <2>2, <2>3
<1>12. CASE CorrectionFails
  BY <1>12 DEF CorrectionFails
<1>13. CASE Wait \/ UNCHANGED vars
  BY <1>13 DEF Wait, vars, FreshInv, Pending, Due, ActiveCands, Batch, Op
<1> QED
  BY <1>1, <1>2, <1>3, <1>4, <1>5, <1>6, <1>7, <1>8, <1>9, <1>10, <1>11, <1>12, <1>13, <1>14
  DEF Next, Consume
-----------------------------------------------------------------------------
LEMMA KindsDiffer == ~(Batch /\ Notice)
BY DEF Batch, Notice, IsRun, IsReorg

(* A notice is done with only when none of its blocks' rows is active. *)
LEMMA PurgeStep == TableInv /\ HandInv /\ PurgeInv /\ [Next]_vars => PurgeInv'
<1> SUFFICES ASSUME TableInv, HandInv, PurgeInv, [Next]_vars PROVE PurgeInv'
  OBVIOUS
<1>0. /\ pc \in [Actor -> Step] /\ list \subseteq DOMAIN evidence
      /\ pc["consumer"] \in {"mark", "record"} => Batch
      /\ pc["consumer"] = "invalidate" => Notice
  BY DEF TableInv, HandInv
<1> USE <1>0, Actors, GotoFacts, KindsDiffer DEF Step, PurgeInv
<1>1. CASE StartRun
  BY <1>1 DEF StartRun, Batch, Notice, Op, IsRun, IsReorg
<1>14. CASE MarkHub \/ MarkDone
  BY <1>14 DEF MarkHub, MarkDone, Batch, Notice, Op, Active
<1>2. CASE RecordAndMerge
  BY <1>2 DEF RecordAndMerge, Batch, Notice, Op
<1>3. CASE RecordDone
  BY <1>3 DEF RecordDone, Batch, Notice, Op, Active
<1>4. CASE StartReorg
  BY <1>4 DEF StartReorg, Notice, Op, Active
<1>5. CASE InvalidateRow
  <2>1. PICK i \in list : Invalidated(i, "reorg") /\ list' = list \ {i}
    BY <1>5, InvalidateRowFacts
  <2>2. \A j \in DOMAIN evidence : evidence'[j].cand = evidence[j].cand
    BY <2>1 DEF Invalidated
  <2>3. Active' = Active \ {i} /\ Active \subseteq DOMAIN evidence
    BY <2>1 DEF Invalidated, Active
  <2>4. UNCHANGED <<done, pc>>
    BY <1>5 DEF InvalidateRow
  <2> QED
    BY <1>5, <2>1, <2>2, <2>3, <2>4 DEF Notice, Op, InvalidateRow
<1>6. CASE InvalidateDone
  BY <1>6 DEF InvalidateDone, AfterInvalidation, Notice, Op, Active
<1>7. CASE Commit
  BY <1>7 DEF Commit
<1>8. CASE CorrectRow
  <2>1. PICK i \in DOMAIN evidence : Invalidated(i, "manual-correction")
    BY <1>8, CorrectRowFacts
  <2>2. \A j \in DOMAIN evidence : evidence'[j].cand = evidence[j].cand
    BY <2>1 DEF Invalidated
  <2>3. Active' = Active \ {i} /\ Active \subseteq DOMAIN evidence
    BY <2>1 DEF Invalidated, Active
  <2>4. UNCHANGED <<done, list>> /\ pc'["consumer"] = pc["consumer"]
    BY <1>8 DEF CorrectRow
  <2> QED
    BY <2>2, <2>3, <2>4 DEF Notice, Op
<1>9. ASSUME NEW x \in Actor, ScanActive(x) PROVE PurgeInv'
  BY <1>9 DEF ScanActive, Notice, Op, Active
<1>10. ASSUME NEW x \in Actor, ReplaceCache(x) PROVE PurgeInv'
  BY <1>10 DEF ReplaceCache, Notice, Op, Active
<1>11. CASE Crash \/ PeriodicFlushFails
  BY <1>11 DEF Crash, PeriodicFlushFails, GivesUp
<1>12. CASE CorrectionFails
  BY <1>12 DEF CorrectionFails, Notice, Op, Active
<1>13. CASE Wait \/ UNCHANGED vars
  BY <1>13 DEF Wait, vars, Notice, Op, Active
<1> QED
  BY <1>1, <1>2, <1>3, <1>4, <1>5, <1>6, <1>7, <1>8, <1>9, <1>10, <1>11, <1>12, <1>13, <1>14
  DEF Next, Consume

(* A step that does not record only invalidates rows. *)
Shrinks ==
    /\ evidence' \in Seq(Evidence)
    /\ DOMAIN evidence' = DOMAIN evidence
    /\ \A j \in DOMAIN evidence : evidence'[j].cand = evidence[j].cand
    /\ Active' \subseteq Active

LEMMA ShrinkFacts ==
    ASSUME TableInv, HandInv, [Next]_vars, ~RecordAndMerge
    PROVE  Shrinks
<1>0. evidence \in Seq(Evidence)
  BY DEF TableInv
<1> USE <1>0 DEF Shrinks
<1>1. CASE InvalidateRow
  BY <1>1, InvalidateRowFacts DEF Invalidated
<1>2. CASE CorrectRow
  <2>1. PICK i \in DOMAIN evidence : Invalidated(i, "manual-correction")
    BY <1>2, CorrectRowFacts
  <2> QED
    BY <2>1 DEF Invalidated
<1>3. CASE ~InvalidateRow /\ ~CorrectRow
  <2>1. evidence' = evidence
    BY <1>3 DEF Next, Consume, vars, StartRun, MarkHub, MarkDone, RecordDone, StartReorg,
       InvalidateDone, Commit, Wait, ScanActive, ReplaceCache, Crash, PeriodicFlushFails, GivesUp,
       CorrectionFails
  <2> QED
    BY <2>1 DEF Active
<1> QED
  BY <1>1, <1>2, <1>3

(* The consumer stays where it is in the log, goes on by one operation, or *)
(* goes back to the committed offset; what was begun stays begun.          *)
LEMMA LogFacts ==
    ASSUME TableInv, HandInv, [Next]_vars
    PROVE  /\ \/ done' = done
              \/ done' = done + 1 /\ (Commit \/ PeriodicFlushFails)
              \/ done' = committed /\ Crash
           /\ \A k \in 1..Len(Ops) : tries'[k] \in Nat /\ tries[k] \in Nat /\ tries[k] <= tries'[k]
<1>1. \/ done' = done
      \/ done' = done + 1 /\ (Commit \/ PeriodicFlushFails)
      \/ done' = committed /\ Crash
  BY DEF Next, Consume, vars, StartRun, MarkHub, MarkDone, RecordAndMerge, RecordDone, StartReorg,
     InvalidateRow, InvalidateDone, Commit, Wait, CorrectRow, ScanActive, ReplaceCache, Crash,
     PeriodicFlushFails, GivesUp, CorrectionFails
<1>2. CASE StartRun \/ StartReorg
  <2>1. Begin /\ done + 1 \in 1..Len(Ops)
    BY <1>2, OpsAssumption DEF StartRun, StartReorg, TableInv
  <2>2. \A k \in 1..Len(Ops) : tries'[k] = IF k = done + 1 THEN tries[k] + 1 ELSE tries[k]
    BY <2>1 DEF Begin, TableInv
  <2> QED
    BY <1>1, <2>2 DEF TableInv
<1>3. CASE ~StartRun /\ ~StartReorg
  <2>1. tries' = tries
    BY <1>3 DEF Next, Consume, vars, MarkHub, MarkDone, RecordAndMerge, RecordDone,
       InvalidateRow, InvalidateDone, Commit, Wait, CorrectRow, ScanActive, ReplaceCache, Crash,
       PeriodicFlushFails, GivesUp, CorrectionFails
  <2> QED
    BY <1>1, <2>1 DEF TableInv
<1> QED
  BY <1>2, <1>3

(* Only a batch begun anew can bring back evidence of a block rolled back. *)
LEMMA RollbackStep ==
    TableInv /\ HandInv /\ PurgeInv /\ RolledBackHasNoEvidence /\ [Next]_vars =>
        RolledBackHasNoEvidence'
<1> SUFFICES ASSUME TableInv, HandInv, PurgeInv, RolledBackHasNoEvidence, [Next]_vars,
                    NEW k \in (1..done)', NEW i \in Active',
                    LastMention(k, BlockOf[evidence[i].cand])', IsReorg(Ops[k])
             PROVE  \E m \in Again' : IsRun(Ops[m]) /\ Mentions(m, BlockOf[evidence'[i].cand])
  BY DEF RolledBackHasNoEvidence
<1> DEFINE b == BlockOf[evidence'[i].cand]
<1>0. /\ done \in Nat /\ done <= Len(Ops) /\ Len(Ops) \in Nat
      /\ committed \in Nat /\ committed <= done
  BY OpsAssumption DEF TableInv
<1>1. \A m \in 1..Len(Ops) : tries[m] > 0 => tries'[m] > 0
  BY LogFacts
<1>2. \A m \in 1..Len(Ops) : tries[m] > 0 /\ m > done' => m \in Again'
  BY <1>0, <1>1, LogFacts DEF Again
<1>3. Mentions(k, b) /\ \A m \in (k + 1)..done' : ~Mentions(m, b)
  BY DEF LastMention
<1>4. CASE RecordAndMerge /\ ~(i \in Active /\ i \in DOMAIN evidence /\ evidence'[i] = evidence[i])
  <2>1. Recording /\ done' = done /\ evidence'[i].cand = Op.cands[next]
    BY <1>4, RecordFacts DEF RecordAndMerge, Recording, Appended, Active
  <2>2. tries[done + 1] > 0 /\ done + 1 \in 1..Len(Ops) /\ done + 1 > done'
    BY <1>0, <2>1 DEF HandInv, Recording
  <2>3. IsRun(Ops[done + 1]) /\ Mentions(done + 1, b)
    BY <2>1 DEF Recording, Batch, Op, Mentions
  <2> QED
    BY <1>2, <2>2, <2>3
<1>5. CASE i \in Active /\ evidence'[i].cand = evidence[i].cand
  <2>1. ASSUME k \in 1..done, LastMention(k, b)
        PROVE  \E m \in Again : IsRun(Ops[m]) /\ Mentions(m, b)
    BY <1>5, <2>1 DEF RolledBackHasNoEvidence
  <2>2. \A m \in Again : m \in 1..Len(Ops) /\ tries[m] > 0 /\ m > done /\ m >= done + 1
    BY <1>0 DEF Again
  <2>3. CASE done' = done
    <3>1. PICK m \in Again : IsRun(Ops[m]) /\ Mentions(m, b)
      BY <1>3, <2>1, <2>3 DEF LastMention
    <3> QED
      BY <1>2, <2>2, <2>3, <3>1
  <2>4. CASE done' = done + 1 /\ (Commit \/ PeriodicFlushFails)
    <3>1. CASE k = done + 1
      <4>1. Commit /\ pc["consumer"] = "commit" /\ done < Len(Ops)
        BY <2>4, <3>1 DEF Commit, PeriodicFlushFails, IsRun, IsReorg, HandInv
      <4>2. Notice /\ b \in Op.hashes
        BY <1>3, <3>1, <4>1 DEF Notice, Op, Mentions, IsRun, IsReorg
      <4>3. list = {}
        BY <4>1 DEF PurgeInv
      <4> QED
        BY <1>5, <4>1, <4>2, <4>3 DEF PurgeInv
    <3>2. CASE k \in 1..done
      <4>1. LastMention(k, b) /\ ~Mentions(done + 1, b)
        BY <1>0, <1>3, <2>4, <3>2 DEF LastMention
      <4>2. PICK m \in Again : IsRun(Ops[m]) /\ Mentions(m, b)
        BY <2>1, <3>2, <4>1
      <4>3. m > done'
        BY <1>0, <2>2, <2>4, <4>1, <4>2
      <4> QED
        BY <1>2, <2>2, <4>2, <4>3
    <3> QED
      BY <1>0, <2>4, <3>1, <3>2
  <2>5. CASE done' = committed
    <3>1. CASE \E m \in (committed + 1)..done : Mentions(m, b)
      <4>1. PICK m \in (committed + 1)..done : Mentions(m, b)
        BY <3>1
      <4>2. IsRun(Ops[m]) /\ tries[m] > 0 /\ m \in 1..Len(Ops) /\ m > done'
        BY <1>0, <2>5, <4>1 DEF HandInv
      <4> QED
        BY <1>2, <4>1, <4>2
    <3>2. CASE ~\E m \in (committed + 1)..done : Mentions(m, b)
      <4>1. k \in 1..done /\ LastMention(k, b)
        BY <1>0, <1>3, <2>5, <3>2 DEF LastMention
      <4>2. PICK m \in Again : IsRun(Ops[m]) /\ Mentions(m, b)
        BY <2>1, <4>1
      <4>3. m > done'
        BY <1>0, <2>2, <2>5, <4>2
      <4> QED
        BY <1>2, <2>2, <4>2, <4>3
    <3> QED
      BY <3>1, <3>2
  <2> QED
    BY <2>3, <2>4, <2>5, LogFacts
<1>6. CASE ~RecordAndMerge
  BY <1>5, <1>6, ShrinkFacts DEF Shrinks, Active
<1> QED
  BY <1>4, <1>5, <1>6
-----------------------------------------------------------------------------
(* A candidate stays rejected, and its row stays unless a notice of its    *)
(* block is being carried out.                                             *)
LEMMA KeptStays ==
    ASSUME TableInv, HandInv, PurgeInv, [Next]_vars, NEW c \in Cand, Kept(c),
           pc["consumer"] = "invalidate" => BlockOf[c] \notin Op.hashes
    PROVE  Kept(c)'
<1>1. hub \subseteq hub'
  BY DEF Next, Consume, vars, StartRun, MarkHub, MarkDone, RecordAndMerge, RecordDone, StartReorg,
     InvalidateRow, InvalidateDone, Commit, Wait, CorrectRow, ScanActive, ReplaceCache, Crash,
     PeriodicFlushFails, GivesUp, CorrectionFails
<1>2. CASE Rejected(c)
  BY <1>1, <1>2 DEF Kept, Rejected
<1>3. CASE ~Rejected(c)
  <2>1. PICK i \in DOMAIN evidence :
          evidence[i].cand = c /\ evidence[i].status \in {"active", "manual-correction"}
    BY <1>3 DEF Kept
  <2>2. CASE InvalidateRow
    <3>1. PICK j \in list : Invalidated(j, "reorg")
      BY <2>2, InvalidateRowFacts
    <3>2. j # i
      BY <2>1, <2>2 DEF InvalidateRow, PurgeInv
    <3> QED
      BY <2>1, <3>1, <3>2 DEF Invalidated, Kept
  <2>3. CASE CorrectRow
    <3>1. PICK j \in DOMAIN evidence : Invalidated(j, "manual-correction")
      BY <2>3, CorrectRowFacts
    <3>2. i \in DOMAIN evidence' /\ evidence'[i].cand = c
      BY <2>1, <3>1 DEF Invalidated
    <3>3. evidence'[i].status \in {"active", "manual-correction"}
      BY <2>1, <3>1 DEF Invalidated
    <3> QED
      BY <3>2, <3>3 DEF Kept
  <2>4. CASE RecordAndMerge
    <3>1. Recording
      BY <2>4, RecordFacts
    <3>2. i \in DOMAIN evidence' /\ evidence'[i] = evidence[i]
      BY <3>1 DEF Recording, Appended
    <3> QED
      BY <2>1, <3>2 DEF Kept
  <2>5. CASE evidence' = evidence
    BY <2>1, <2>5 DEF Kept
  <2> QED
    BY <2>2, <2>3, <2>4, <2>5 DEF Next, Consume, vars, StartRun, MarkHub, MarkDone, RecordDone,
       StartReorg, InvalidateDone, Commit, Wait, ScanActive, ReplaceCache, Crash,
       PeriodicFlushFails, GivesUp, CorrectionFails
<1> QED
  BY <1>2, <1>3

(* A candidate passed over by RecordAndMerge is rejected or has its row. *)
LEMMA RecordedIsKept ==
    ASSUME TableInv, Recording, UNCHANGED hub, NEW c \in Cand, c = Op.cands[next]
    PROVE  Kept(c)'
<1>1. CASE Rejected(c)
  BY <1>1 DEF Kept, Rejected
<1>2. CASE Appended(c)
  <2>1. /\ Len(evidence') \in DOMAIN evidence' /\ evidence'[Len(evidence')].cand = c
        /\ evidence'[Len(evidence')].status = "active"
    BY <1>2 DEF Appended
  <2> QED
    BY <2>1 DEF Kept
<1> QED
  BY <1>1, <1>2 DEF Recording

(* RecordAndMerge misses no candidate of the batch. *)
LEMMA RecordStep == TableInv /\ HandInv /\ PurgeInv /\ RecordInv /\ [Next]_vars => RecordInv'
<1> SUFFICES ASSUME TableInv, HandInv, PurgeInv, RecordInv, [Next]_vars, Batch',
                    NEW n \in DOMAIN Op'.cands,
                    \/ pc'["consumer"] \in {"mark", "record"} /\ n < next'
                    \/ pc'["consumer"] \in {"scan", "write", "commit"}
             PROVE  Kept(Op.cands[n])'
  BY DEF RecordInv
<1>0. pc \in [Actor -> Step] /\ next \in Nat \ {0} /\ done \in Nat
  BY OpsAssumption DEF TableInv
<1> USE <1>0, Actors, GotoFacts DEF Step
<1>1. UNCHANGED done
  <2>1. ~Commit /\ ~Crash /\ ~PeriodicFlushFails
    BY DEF Commit, Crash, PeriodicFlushFails, GivesUp
  <2> QED
    BY <2>1, LogFacts
<1>2. Op' = Op /\ Batch /\ n \in DOMAIN Op.cands
  BY <1>1 DEF Op, Batch
<1>3. Op.cands[n] \in Cand /\ DOMAIN Op.cands = 1..Len(Op.cands) /\ Len(Op.cands) \in Nat
  BY <1>2, BatchFacts
<1> DEFINE c == Op.cands[n]
<1>4. pc["consumer"] # "invalidate"
  BY <1>2, KindsDiffer DEF HandInv
<1>5. SUFFICES Kept(c) \/ (RecordAndMerge /\ n = next)
  <2>1. CASE Kept(c)
    BY <1>2, <1>3, <1>4, <2>1, KeptStays
  <2>2. CASE RecordAndMerge /\ n = next
    <3>1. Recording /\ UNCHANGED hub
      BY <2>2, RecordFacts DEF RecordAndMerge
    <3> QED
      BY <1>2, <1>3, <2>2, <3>1, RecordedIsKept
  <2> QED
    BY <2>1, <2>2
<1>6. CASE StartRun
  BY <1>2, <1>3, <1>6 DEF StartRun
<1>12. CASE MarkHub \/ MarkDone
  BY <1>2, <1>3, <1>12 DEF MarkHub, MarkDone, RecordInv
<1>7. CASE RecordAndMerge
  BY <1>2, <1>3, <1>7 DEF RecordAndMerge, RecordInv
<1>8. CASE RecordDone
  BY <1>2, <1>3, <1>8 DEF RecordDone, RecordInv, Op
<1>9. ASSUME NEW x \in Actor, ScanActive(x) \/ ReplaceCache(x) PROVE Kept(c)
  <2>1. UNCHANGED next
    BY <1>9 DEF ScanActive, ReplaceCache
  <2>2. pc["consumer"] \in {"scan", "write", "commit"} 
        \/ (pc["consumer"] \in {"mark", "record"} /\ n < next)
    BY <1>9, <2>1 DEF ScanActive, ReplaceCache
  <2> QED
    BY <1>2, <2>2 DEF RecordInv
<1>10. CASE \/ StartReorg \/ InvalidateRow \/ InvalidateDone \/ Commit
            \/ Crash \/ PeriodicFlushFails
  BY <1>4, <1>10 DEF StartReorg, InvalidateRow, InvalidateDone, Commit, Crash, PeriodicFlushFails,
     GivesUp
<1>11. CASE CorrectRow \/ CorrectionFails \/ Wait \/ UNCHANGED vars
  BY <1>2, <1>11 DEF CorrectRow, CorrectionFails, Wait, vars, RecordInv
<1> QED
  BY <1>6, <1>7, <1>8, <1>9, <1>10, <1>11, <1>12 DEF Next, Consume

(* ProcessedHasEvidence, said with Kept. *)
LastBatch(k, c) == \A m \in (k + 1)..Len(Ops) : ~Mentions(m, BlockOf[c])

LEMMA ProcessedIsKept ==
    ProcessedHasEvidence <=>
        \A k \in 1..done \ dropped : IsRun(Ops[k]) =>
            \A n \in DOMAIN Ops[k].cands :
                LastBatch(k, Ops[k].cands[n]) => Kept(Ops[k].cands[n])
BY DEF ProcessedHasEvidence, LastBatch, Kept, Active

(* What is processed last keeps its evidence. *)
LEMMA ProcessedStep ==
    TableInv /\ HandInv /\ PurgeInv /\ RecordInv /\ ProcessedHasEvidence /\ [Next]_vars =>
        ProcessedHasEvidence'
<1> SUFFICES ASSUME TableInv, HandInv, PurgeInv, RecordInv, ProcessedHasEvidence, [Next]_vars,
                    NEW k \in 1..done' \ dropped', IsRun(Ops[k]), NEW n \in DOMAIN Ops[k].cands,
                    LastBatch(k, Ops[k].cands[n])
             PROVE  Kept(Ops[k].cands[n])'
  BY DEF ProcessedHasEvidence, LastBatch, Kept, Active
<1> DEFINE c == Ops[k].cands[n]
<1>0. done \in Nat /\ done <= Len(Ops) /\ Len(Ops) \in Nat /\ done' \in Nat /\ done' <= Len(Ops)
  BY TableStep, OpsAssumption DEF TableInv
<1>1. k \in 1..Len(Ops)
  BY <1>0
<1>2. c \in Cand
  BY <1>1, OpsAssumption DEF IsRun, IsReorg
<1>3. CASE k \in 1..done \ dropped
  <2>1. Kept(c)
    BY <1>3, ProcessedIsKept
  <2>2. pc["consumer"] = "invalidate" => BlockOf[c] \notin Op.hashes
    <3>1. done < Len(Ops) => done + 1 \in (k + 1)..Len(Ops)
      BY <1>0, <1>3
    <3> QED
      BY <3>1 DEF HandInv, Notice, LastBatch, Mentions, Op
  <2> QED
    BY <1>2, <2>1, <2>2, KeptStays
<1>4. CASE k \notin 1..done \ dropped
  <2>1. Commit \/ PeriodicFlushFails
    <3>1. CASE done' = done \/ done' = committed
      <4>1. k \in 1..done
        BY <1>0, <3>1 DEF TableInv
      <4>2. dropped' # dropped
        BY <1>4, <4>1
      <4> QED
        BY <4>2 DEF Next, Consume, vars, StartRun, MarkHub, MarkDone, RecordAndMerge, RecordDone,
           StartReorg, InvalidateRow, InvalidateDone, Wait, CorrectRow, ScanActive, ReplaceCache,
           Crash, GivesUp, CorrectionFails
    <3> QED
      BY <3>1, LogFacts
  <2>2. /\ evidence' = evidence /\ hub' = hub /\ done' = done + 1
        /\ dropped' \in {dropped \ {done + 1}, dropped \cup {done + 1}}
        /\ k = done + 1 => pc["consumer"] = "commit"
    BY <2>1 DEF Commit, PeriodicFlushFails, GivesUp
  <2>3. k = done + 1
    BY <1>0, <1>4, <2>2
  <2>4. Kept(c)
    BY <1>0, <1>1, <2>2, <2>3 DEF RecordInv, Batch, Op
  <2> QED
    BY <1>2, <2>2, <2>3, <2>4, KeptStays
<1> QED
  BY <1>3, <1>4
-----------------------------------------------------------------------------
(* What has been recorded stays accounted for. *)
LEMMA RecordedStays ==
    ASSUME TableInv, HandInv, [Next]_vars, NEW c \in Cand, Recorded(c)
    PROVE  Recorded(c)'
<1>0. /\ pc \in [Actor -> Step] /\ next \in Nat \ {0} /\ done \in Nat /\ Len(Ops) \in Nat
      /\ tries \in [1..Len(Ops) -> Nat]
  BY OpsAssumption DEF TableInv
<1>1. PICK k \in 1..Len(Ops) : /\ IsRun(Ops[k])
                               /\ \E n \in DOMAIN Ops[k].cands : \E t \in 1..tries[k] :
                                     Ops[k].cands[n] = c /\ Past(k, n, t)
  BY DEF Recorded
<1>2. PICK n \in DOMAIN Ops[k].cands : \E t \in 1..tries[k] : Ops[k].cands[n] = c /\ Past(k, n, t)
  BY <1>1
<1>3. PICK t \in 1..tries[k] : Ops[k].cands[n] = c /\ Past(k, n, t)
  BY <1>2
<1>4. t \in 1..tries'[k] /\ tries[k] \in Nat /\ t <= tries[k]
  BY LogFacts
<1>5. n \in Nat
  BY <1>1, OpsAssumption DEF IsRun, IsReorg
<1>6. Past(k, n, t)'
  <2> USE <1>0, Actors, GotoFacts DEF Step
  <2>1. CASE pc'["consumer"] \notin {"mark", "record"}
    BY <2>1 DEF Past
  <2>2. CASE StartRun
    <3>1. done' = done /\ Begin /\ (k = done + 1 => tries'[k] = tries[k] + 1)
      BY <2>2 DEF StartRun, Begin
    <3> QED
      BY <1>4, <3>1 DEF Past
  <2>3. CASE ~StartRun /\ pc'["consumer"] \in {"mark", "record"}
    <3>1. /\ pc["consumer"] \in {"mark", "record"} /\ UNCHANGED <<done, tries>>
          /\ next' \in {next, next + 1}
      <4>1. CASE MarkHub \/ MarkDone \/ RecordAndMerge
        BY <4>1 DEF MarkHub, MarkDone, RecordAndMerge
      <4>2. CASE CorrectRow
        BY <2>3, <4>2 DEF CorrectRow
      <4>3. ASSUME NEW x \in Actor, ScanActive(x) \/ ReplaceCache(x)
            PROVE  /\ pc["consumer"] \in {"mark", "record"} /\ UNCHANGED <<done, tries>>
                   /\ next' = next
        BY <2>3, <4>3 DEF ScanActive, ReplaceCache
      <4>4. CASE CorrectionFails \/ Wait \/ UNCHANGED vars
        BY <2>3, <4>4 DEF CorrectionFails, Wait, vars
      <4>5. ASSUME \/ RecordDone \/ StartReorg \/ InvalidateRow \/ InvalidateDone \/ Commit
                   \/ Crash \/ PeriodicFlushFails
            PROVE  FALSE
        BY <2>3, <4>5 DEF RecordDone, StartReorg, InvalidateRow, InvalidateDone,
           AfterInvalidation, Commit, Crash, PeriodicFlushFails, GivesUp
      <4> QED
        BY <2>3, <4>1, <4>2, <4>3, <4>4, <4>5 DEF Next, Consume
    <3>2. n < next => n < next'
      BY <1>5, <3>1
    <3> QED
      BY <1>3, <3>1, <3>2 DEF Past
  <2> QED
    BY <2>1, <2>2, <2>3
<1> QED
  BY <1>1, <1>3, <1>4, <1>6 DEF Recorded

(* An offer is a place of the log and a delivery of its batch. *)
LEMMA OfferFacts ==
    ASSUME NEW c, NEW k \in 1..Len(Ops), IsRun(Ops[k]), NEW n \in DOMAIN Ops[k].cands,
           Ops[k].cands[n] = c, NEW t \in 1..tries[k]
    PROVE  <<k, n, t>> \in Offers(c)
BY DEF Offers

LEMMA OffersGrow ==
    ASSUME TableInv, HandInv, [Next]_vars, NEW c PROVE Offers(c) \subseteq Offers(c)'
<1>1. \A k \in 1..Len(Ops) : 1..tries[k] \subseteq 1..tries'[k]
  BY LogFacts
<1> QED
  BY <1>1 DEF Offers

(* Two rows of one candidate come from two offers. *)
LEMMA OriginStep == TableInv /\ HandInv /\ OriginInv /\ [Next]_vars => OriginInv'
<1> SUFFICES ASSUME TableInv, HandInv, OriginInv, [Next]_vars
             PROVE  /\ \A i \in DOMAIN evidence' : Recorded(evidence[i].cand)'
                    /\ \A i, j \in DOMAIN evidence' :
                          i # j /\ evidence'[i].cand = evidence'[j].cand
                              => OfferedTwice(evidence[i].cand)'
  BY DEF OriginInv
<1>0. evidence \in Seq(Evidence) /\ Len(Ops) \in Nat /\ done \in Nat
  BY OpsAssumption DEF TableInv
<1>1. \A i \in DOMAIN evidence : evidence[i].cand \in Cand
  <2>1. evidence \in [DOMAIN evidence -> Evidence]
    BY <1>0
  <2> QED
    BY <2>1 DEF Evidence
<1>2. \A c \in Cand : Recorded(c) => Recorded(c)'
  BY RecordedStays
<1>3. \A c \in Cand : OfferedTwice(c) => OfferedTwice(c)'
  BY OffersGrow DEF OfferedTwice
<1>4. CASE RecordAndMerge /\ Appended(Op.cands[next])
  <2>1. Recording
    BY <1>4, RecordFacts
  <2>0. PICK c \in Cand : c = Op.cands[next]
    BY <2>1 DEF Recording
  <2> DEFINE k == done + 1
             t == tries[k]
  <2>2. /\ UNCHANGED <<done, pc, tries>> /\ next' = next + 1
        /\ pc["consumer"] = "record" /\ next \in DOMAIN Op.cands /\ next \in Nat
    BY <1>4, <2>1 DEF Recording, RecordAndMerge, TableInv
  <2>3. /\ k \in 1..Len(Ops) /\ IsRun(Ops[k]) /\ t \in 1..tries[k] /\ t \in Nat
        /\ next \in DOMAIN Ops[k].cands /\ Ops[k].cands[next] = c
    <3>1. k \in 1..Len(Ops) /\ IsRun(Ops[k])
      BY <2>1, BatchFacts DEF Recording, Batch, Op
    <3>2. t \in Nat /\ t > 0
      BY <2>2, <3>1 DEF HandInv, TableInv
    <3> QED
      BY <2>0, <2>2, <3>1, <3>2 DEF Op
  <2>4. Recorded(c)'
    <3>1. PICK m, n, u : m = k /\ n = next /\ u = t
      OBVIOUS
    <3>2. n < next'
      BY <2>2, <3>1
    <3>3. Past(m, n, u)'
      BY <3>2 DEF Past
    <3>4. /\ m \in 1..Len(Ops) /\ IsRun(Ops[m]) /\ n \in DOMAIN Ops[m].cands /\ u \in 1..tries'[m]
          /\ Ops[m].cands[n] = c
      BY <2>2, <2>3, <3>1
    <3> QED
      BY <3>3, <3>4 DEF Recorded
  <2>5. ASSUME NEW j \in DOMAIN evidence, evidence[j].cand = c PROVE OfferedTwice(c)'
    <3>1. Recorded(c)
      BY <2>5 DEF OriginInv
    <3>2. PICK m \in 1..Len(Ops) : /\ IsRun(Ops[m])
                                   /\ \E n \in DOMAIN Ops[m].cands : \E u \in 1..tries[m] :
                                         Ops[m].cands[n] = c /\ Past(m, n, u)
      BY <3>1 DEF Recorded
    <3>3. PICK n \in DOMAIN Ops[m].cands :
            \E u \in 1..tries[m] : Ops[m].cands[n] = c /\ Past(m, n, u)
      BY <3>2
    <3>4. PICK u \in 1..tries[m] : Ops[m].cands[n] = c /\ Past(m, n, u)
      BY <3>3
    <3>5. <<m, n, u>> \in Offers(c)
      BY <3>2, <3>4, OfferFacts
    <3>6. <<k, next, t>> \in Offers(c)
      BY <2>3, OfferFacts
    <3>7. <<m, n, u>> # <<k, next, t>>
      BY <2>2, <3>4 DEF Past
    <3> QED
      BY <1>3, <3>5, <3>6, <3>7 DEF OfferedTwice
  <2>6. /\ DOMAIN evidence' = DOMAIN evidence \cup {Len(evidence')}
        /\ evidence'[Len(evidence')].cand = c
        /\ \A i \in DOMAIN evidence : evidence'[i].cand = evidence[i].cand
    BY <1>4, <2>0 DEF Appended
  <2>7. ASSUME NEW i \in DOMAIN evidence' PROVE Recorded(evidence[i].cand)'
    BY <1>0, <1>1, <1>2, <2>4, <2>6 DEF OriginInv
  <2>8. ASSUME NEW i \in DOMAIN evidence', NEW j \in DOMAIN evidence', i # j,
               evidence'[i].cand = evidence'[j].cand
        PROVE  OfferedTwice(evidence[i].cand)'
    <3>1. CASE i \in DOMAIN evidence /\ j \in DOMAIN evidence
      BY <1>0, <1>1, <1>3, <2>6, <2>8, <3>1 DEF OriginInv
    <3>2. CASE evidence'[i].cand = c
      BY <2>5, <2>6, <2>8, <3>2
    <3>3. CASE evidence'[j].cand = c
      BY <2>5, <2>6, <2>8, <3>3
    <3> QED
      BY <2>6, <3>1, <3>2, <3>3
  <2> QED
    BY <2>7, <2>8
<1>5. CASE /\ DOMAIN evidence' = DOMAIN evidence
           /\ \A i \in DOMAIN evidence : evidence'[i].cand = evidence[i].cand
  BY <1>0, <1>1, <1>2, <1>3, <1>5 DEF OriginInv
<1>6. CASE RecordAndMerge /\ ~Appended(Op.cands[next])
  <2>1. evidence' = evidence
    BY <1>6, RecordFacts DEF Recording
  <2> QED
    BY <1>5, <2>1
<1>7. CASE ~RecordAndMerge
  BY <1>5, <1>7, ShrinkFacts DEF Shrinks
<1> QED
  BY <1>4, <1>6, <1>7
-----------------------------------------------------------------------------
(* Nothing is active in an empty table. *)
LEMMA EmptyTable == ActiveOf(<<>>, Cand) = <<>>
BY DEF ActiveOf

(* IInv is inductive. *)
LEMMA Inductive ==
    /\ Init => IInv
    /\ IInv /\ [Next]_vars => IInv'
<1>1. Init => IInv
  <2> SUFFICES ASSUME Init PROVE IInv
    OBVIOUS
  <2>1. TableInv /\ HandInv
    <3>1. evidence \in Seq(Evidence) /\ list \subseteq DOMAIN evidence /\ next \in Nat \ {0}
      BY DEF Init
    <3>2. pc \in [Actor -> Step] /\ pc["operator"] = "idle" /\ pc["consumer"] = "idle"
      BY Actors DEF Init, Step
    <3>3. /\ done \in 0..Len(Ops) /\ committed \in 0..done /\ (committed + 1)..done = {}
          /\ tries \in [1..Len(Ops) -> Nat] /\ faults \in Nat /\ DOMAIN scan = Actor
      BY OpsAssumption DEF Init
    <3>4. changed = FALSE
      BY DEF Init
    <3> QED
      BY <3>1, <3>2, <3>3, <3>4 DEF TableInv, HandInv
  <2>2. Active = {} /\ DOMAIN evidence = {}
    BY DEF Init, Active
  <2>3. ActiveCands = <<>>
    BY EmptyTable DEF Init, ActiveCands
  <2>4. cache = Replay(<<>>)
    BY DEF Init, Replay, Touched
  <2>5. FreshInv
    BY <2>3, <2>4 DEF Init, FreshInv
  <2>6. PurgeInv /\ RolledBackHasNoEvidence /\ RecordInv /\ ProcessedHasEvidence /\ OriginInv
    BY <2>2, Actors DEF Init, PurgeInv, RolledBackHasNoEvidence, RecordInv, ProcessedHasEvidence,
       OriginInv
  <2> QED
    BY <2>1, <2>5, <2>6 DEF IInv
<1>2. IInv /\ [Next]_vars => IInv'
  BY TableStep, HandStep, FreshStep, PurgeStep, RollbackStep, RecordStep, ProcessedStep, OriginStep
  DEF IInv
<1> QED
  BY <1>1, <1>2

(* The invariant holds of every behaviour of the store. *)
THEOREM Invariance == Spec => []IInv
BY Inductive, PTL DEF Spec

(* Nothing that was begun is to be redelivered in a quiet state. *)
LEMMA QuietFacts ==
    ASSUME TableInv, Quiet
    PROVE  Batch => ~(tries[done + 1] > 0)
<1>1. Batch => done + 1 \in (done + 1)..Len(Ops)
  BY OpsAssumption DEF TableInv, Batch
<1> QED
  BY <1>1 DEF Quiet, Again

(* Between operations the clusters are a replay of the active evidence,    *)
(* whatever the interleaving of consumer and operator, unless an operation *)
(* stopped between an invalidation and its rebuild, a periodic flush       *)
(* failed between its evidence and its rebuild, or rebuilds overlapped.    *)
THEOREM CacheFollowsEvidence == Spec => []StaleOnlyBySkipOrOverlap
<1>1. IInv => StaleOnlyBySkipOrOverlap
  <2> SUFFICES ASSUME IInv, hit \subseteq {"dropped"}, Quiet PROVE cache = Replay(ActiveCands)
    BY DEF StaleOnlyBySkipOrOverlap, CacheIsReplay
  <2>1. ~Pending("consumer") /\ ~Pending("operator")
    BY QuietFacts, Actors DEF IInv, Pending, Due, Quiet
  <2> QED
    BY <2>1, Actors DEF IInv, FreshInv
<1> QED
  BY <1>1, Invariance, PTL

(* A block rolled back by a committed notice has no active evidence until  *)
(* a batch that mentions it is begun anew, however often operations are    *)
(* redelivered and whichever batches are given up.                         *)
THEOREM RollbackLasts == Spec => []RolledBackHasNoEvidence
<1>1. IInv => RolledBackHasNoEvidence
  BY DEF IInv
<1> QED
  BY <1>1, Invariance, PTL

(* A processed block that no later operation mentions has evidence for     *)
(* each of its candidates, unless a hub blocks it or an operator corrected *)
(* it or its batch was given up by a failed periodic flush: no crash,      *)
(* redelivery or other block's rollback loses any.                         *)
THEOREM EvidenceIsKept == Spec => []ProcessedHasEvidence
<1>1. IInv => ProcessedHasEvidence
  BY DEF IInv
<1> QED
  BY <1>1, Invariance, PTL

(* What an operator corrected stays corrected unless the log offers it     *)
(* twice, at two places or because its batch is begun again.               *)
THEOREM CorrectionLasts == Spec => []CorrectedUnlessBroughtAgain
<1>1. IInv => CorrectedUnlessBroughtAgain
  <2> SUFFICES ASSUME IInv, NEW i \in DOMAIN evidence, NEW j \in Active,
                      evidence[i].status = "manual-correction",
                      evidence[j].cand = evidence[i].cand
               PROVE  OfferedTwice(evidence[i].cand)
    BY DEF CorrectedUnlessBroughtAgain, OfferedTwice
  <2>1. j \in DOMAIN evidence /\ i # j
    BY DEF Active
  <2> QED
    BY <2>1 DEF IInv, OriginInv
<1> QED
  BY <1>1, Invariance, PTL

(* merge_evidence only grows, a row keeps its candidate, and leaves        *)
(* "active" once and for good, with the reason it left for.                *)
THEOREM EvidenceIsAppendOnly == Spec => AppendOnly
<1>1. IInv /\ [Next]_vars =>
        [\A i \in DOMAIN evidence :
            /\ i \in DOMAIN evidence'
            /\ evidence'[i].cand = evidence[i].cand
            /\ evidence[i].status # "active" => evidence'[i] = evidence[i]]_vars
  <2> SUFFICES ASSUME IInv, [Next]_vars, NEW i \in DOMAIN evidence
               PROVE  /\ i \in DOMAIN evidence'
                      /\ evidence'[i].cand = evidence[i].cand
                      /\ evidence[i].status # "active" => evidence'[i] = evidence[i]
    OBVIOUS
  <2>1. CASE RecordAndMerge
    <3>1. Recording
      BY <2>1, RecordFacts DEF IInv
    <3> QED
      BY <3>1 DEF Recording, Appended
  <2>2. CASE InvalidateRow
    BY <2>2, InvalidateRowFacts DEF IInv, Invalidated
  <2>3. CASE CorrectRow
    BY <2>3, CorrectRowFacts DEF IInv, Invalidated
  <2>4. CASE evidence' = evidence
    BY <2>4
  <2> QED
    BY <2>1, <2>2, <2>3, <2>4 DEF Next, Consume, vars, StartRun, MarkHub, MarkDone, RecordDone,
       StartReorg, InvalidateDone, Commit, Wait, ScanActive, ReplaceCache, Crash,
       PeriodicFlushFails, GivesUp, CorrectionFails
<1> QED
  BY <1>1, Inductive, PTL DEF Spec, AppendOnly
-----------------------------------------------------------------------------
(* Redelivery.  The rows of a table come from places of the log, the n-th  *)
(* candidate of the k-th operation, and a table that goes through them in  *)
(* order, however often it starts a batch over, is replayed to the same    *)
(* clusters with the same ids.                                             *)

(* The n-th candidate of the k-th operation stands after the committed     *)
(* operations.                                                             *)
Stood(k, n) ==
    /\ k \in 1..done /\ k \in 1..Len(Ops) /\ IsRun(Ops[k])
    /\ n \in 1..Len(Ops[k].cands) /\ Stands(k, Ops[k].cands[n])

(* Row i of t comes from the N[i]-th candidate of operation K[i]; all that *)
(* stand have a row, and none is there before those that precede it in its *)
(* batch.                                                                  *)
Tracks(t, K, N) ==
    /\ DOMAIN t \subseteq Nat
    /\ \A i \in DOMAIN t : Stood(K[i], N[i]) /\ t[i] = Ops[K[i]].cands[N[i]]
    /\ \A i, j \in DOMAIN t : i < j => K[i] <= K[j]
    /\ \A i \in DOMAIN t : \A n \in Nat : n < N[i] /\ Stood(K[i], n) =>
          \E j \in DOMAIN t : j < i /\ K[j] = K[i] /\ N[j] = n
    /\ \A k, n \in Nat : Stood(k, n) => \E i \in DOMAIN t : K[i] = k /\ N[i] = n

LEMMA StoodFacts ==
    ASSUME NEW k, NEW n, Stood(k, n), done \in Nat
    PROVE  k \in Nat /\ n \in Nat
<1>1. k \in Nat /\ Ops[k].cands \in Seq(Cand)
  BY OpsAssumption DEF Stood, IsRun, IsReorg
<1> QED
  BY <1>1 DEF Stood

(* Every candidate of one table is in the other. *)
LEMMA TrackedRow ==
    ASSUME done \in Nat, NEW t, NEW K, NEW N, Tracks(t, K, N), NEW u, NEW L, NEW M, Tracks(u, L, M),
           NEW i \in DOMAIN t
    PROVE  \E j \in DOMAIN u : u[j] = t[i] /\ L[j] = K[i] /\ M[j] = N[i]
<1>1. Stood(K[i], N[i]) /\ t[i] = Ops[K[i]].cands[N[i]]
  BY DEF Tracks
<1>2. K[i] \in Nat /\ N[i] \in Nat
  BY <1>1, StoodFacts
<1>3. PICK j \in DOMAIN u : L[j] = K[i] /\ M[j] = N[i]
  BY <1>1, <1>2 DEF Tracks
<1>4. u[j] = t[i]
  BY <1>1, <1>3 DEF Tracks
<1> QED
  BY <1>3, <1>4

(* The tables see the addresses in the same order. *)
LEMMA TrackedOrder ==
    ASSUME done \in Nat, NEW t, NEW K, NEW N, Tracks(t, K, N), NEW u, NEW L, NEW M, Tracks(u, L, M),
           NEW a, NEW b, SeenBefore(t, a, b)
    PROVE  SeenBefore(u, a, b)
<1>1. PICK i \in DOMAIN t :
        /\ a \in Ends(t[i])
        /\ \A j \in DOMAIN t : b \in Ends(t[j]) => i < j \/ (i = j /\ AddressA[t[i]] = a)
  BY DEF SeenBefore
<1> DEFINE S == {j \in DOMAIN u : L[j] = K[i] /\ M[j] = N[i]}
<1>2. PICK x \in S : \A y \in S : x <= y
  <2>1. S \subseteq Nat
    BY DEF Tracks
  <2>2. S # {}
    BY TrackedRow
  <2> HIDE DEF S
  <2> QED
    BY <2>1, <2>2, LeastNatural
<1>3. x \in DOMAIN u /\ x \in Nat /\ L[x] = K[i] /\ M[x] = N[i]
  BY <1>2 DEF Tracks
<1>4. u[x] = t[i]
  BY <1>3 DEF Tracks
<1>5. ASSUME NEW y \in DOMAIN u, b \in Ends(u[y])
      PROVE  x < y \/ (x = y /\ AddressA[u[x]] = a)
  <2>1. PICK j \in DOMAIN t : t[j] = u[y] /\ K[j] = L[y] /\ N[j] = M[y]
    BY TrackedRow
  <2>2. i < j \/ (i = j /\ AddressA[t[i]] = a)
    BY <1>1, <1>5, <2>1
  <2>3. i \in Nat /\ j \in Nat /\ y \in Nat
    BY DEF Tracks
  <2>4. K[i] \in Nat /\ K[j] \in Nat /\ N[i] \in Nat /\ N[j] \in Nat
    BY StoodFacts DEF Tracks
  <2>5. K[i] <= K[j]
    BY <2>2, <2>3, <2>4 DEF Tracks
  <2>6. CASE K[i] < K[j]
    <3>1. ~(y < x)
      BY <1>3, <2>1, <2>4, <2>6 DEF Tracks
    <3>2. y # x
      BY <1>3, <2>1, <2>4, <2>6
    <3> QED
      BY <1>3, <2>3, <3>1, <3>2
  <2>7. CASE K[i] = K[j] /\ N[j] < N[i]
    <3>1. Stood(K[i], N[j])
      BY <2>7 DEF Tracks
    <3>2. PICK z \in DOMAIN t : z < i /\ K[z] = K[i] /\ N[z] = N[j]
      BY <2>4, <2>7, <3>1 DEF Tracks
    <3>3. t[z] = t[j]
      BY <2>7, <3>2 DEF Tracks
    <3>4. i < z \/ i = z
      BY <1>1, <1>5, <2>1, <3>3
    <3>5. z \in Nat
      BY DEF Tracks
    <3> QED
      BY <2>3, <3>2, <3>4, <3>5
  <2>8. CASE K[i] = K[j] /\ N[j] = N[i]
    <3>1. t[i] = t[j]
      BY <2>8 DEF Tracks
    <3>2. AddressA[t[i]] = a
      BY <1>1, <1>5, <2>1, <2>3, <3>1
    <3>3. x <= y
      BY <1>2, <2>1, <2>8
    <3> QED
      BY <1>3, <1>4, <2>3, <3>2, <3>3
  <2>9. CASE K[i] = K[j] /\ N[i] < N[j]
    <3>1. Stood(L[y], N[i])
      BY <2>1, <2>9 DEF Tracks
    <3>2. PICK z \in DOMAIN u : z < y /\ L[z] = L[y] /\ M[z] = N[i]
      BY <2>1, <2>4, <2>9, <3>1 DEF Tracks
    <3>3. x <= z /\ z \in Nat
      BY <1>2, <2>1, <2>9, <3>2 DEF Tracks
    <3> QED
      BY <1>3, <2>3, <3>2, <3>3
  <2> QED
    BY <2>4, <2>5, <2>6, <2>7, <2>8, <2>9
<1> QED
  BY <1>1, <1>3, <1>4, <1>5 DEF SeenBefore

(* Two tables that track the log are replayed to the same clusters. *)
LEMMA TrackedReplay ==
    ASSUME done \in Nat, NEW t, NEW K, NEW N, Tracks(t, K, N), NEW u, NEW L, NEW M, Tracks(u, L, M)
    PROVE  Replay(t) = Replay(u)
<1>1. \A i \in DOMAIN t : \E j \in DOMAIN u : u[j] = t[i]
  BY TrackedRow
<1>2. \A j \in DOMAIN u : \E i \in DOMAIN t : t[i] = u[j]
  BY TrackedRow
<1>3. Touched(t) = Touched(u)
  BY <1>1, <1>2 DEF Touched
<1>4. ASSUME NEW T
      PROVE  (\A i \in DOMAIN t : Ends(t[i]) \subseteq T \/ Ends(t[i]) \cap T = {})
               <=> (\A i \in DOMAIN u : Ends(u[i]) \subseteq T \/ Ends(u[i]) \cap T = {})
  BY <1>1, <1>2
<1>5. ASSUME NEW a PROVE Component(t, a) = Component(u, a)
  BY <1>3, <1>4 DEF Component
<1>6. ASSUME NEW a, NEW b PROVE SeenBefore(t, a, b) <=> SeenBefore(u, a, b)
  BY TrackedOrder
<1>7. ASSUME NEW a PROVE Anchor(t, a) = Anchor(u, a)
  <2> DEFINE C == Component(t, a)
  <2>1. Anchor(t, a) = CHOOSE x \in C : \A y \in C \ {x} : SeenBefore(t, x, y)
    BY DEF Anchor
  <2>2. Anchor(u, a) = CHOOSE x \in C : \A y \in C \ {x} : SeenBefore(u, x, y)
    BY <1>5 DEF Anchor
  <2> HIDE DEF C
  <2> QED
    BY <1>6, <2>1, <2>2
<1> QED
  BY <1>3, <1>7 DEF Replay

(* t lists the places of the first m operations in log order. *)
Comes(p, q) == p[1] < q[1] \/ (p[1] = q[1] /\ p[2] < q[2])

Laid(t, m) ==
    /\ t \in Seq(Nat \X Nat)
    /\ \A i \in DOMAIN t : /\ t[i][1] \in 1..m /\ IsRun(Ops[t[i][1]])
                           /\ t[i][2] \in 1..Len(Ops[t[i][1]].cands)
    /\ \A i, j \in DOMAIN t : i < j => Comes(t[i], t[j])
    /\ \A k \in 1..m : IsRun(Ops[k]) =>
          \A n \in 1..Len(Ops[k].cands) : \E i \in DOMAIN t : t[i] = <<k, n>>

(* The places of operation k. *)
Row(k) == IF IsRun(Ops[k]) THEN [n \in 1..Len(Ops[k].cands) |-> <<k, n>>] ELSE <<>>

LEMMA RowFacts ==
    ASSUME NEW k \in 1..Len(Ops)
    PROVE  /\ Row(k) \in Seq(Nat \X Nat)
           /\ IsRun(Ops[k]) => /\ Len(Ops[k].cands) \in Nat /\ Len(Row(k)) = Len(Ops[k].cands)
                               /\ \A n \in 1..Len(Ops[k].cands) : Row(k)[n] = <<k, n>>
           /\ ~IsRun(Ops[k]) => Row(k) = <<>>
<1>1. CASE IsRun(Ops[k])
  <2> DEFINE l == Len(Ops[k].cands)
             f == [n \in 1..l |-> <<k, n>>]
  <2>1. l \in Nat
    BY <1>1, OpsAssumption DEF IsRun, IsReorg
  <2>2. k \in Nat
    BY OpsAssumption
  <2>3. f \in [1..l -> Nat \X Nat]
    BY <2>2
  <2>4. f \in Seq(Nat \X Nat) /\ Len(f) = l
    <3> HIDE DEF f, l
    <3> QED
      BY <2>1, <2>3, SeqFromFunction
  <2>5. Row(k) = f
    BY <1>1 DEF Row
  <2> QED
    BY <1>1, <2>1, <2>4, <2>5
<1>2. CASE ~IsRun(Ops[k])
  BY <1>2 DEF Row
<1> QED
  BY <1>1, <1>2

(* The places of one more operation follow. *)
LEMMA LaidNext ==
    ASSUME NEW m \in Nat, m + 1 \in 1..Len(Ops), NEW t, Laid(t, m)
    PROVE  Laid(t \o Row(m + 1), m + 1)
<1> DEFINE r == Row(m + 1)
           u == t \o r
           l == Len(t)
           c == Len(Ops[m + 1].cands)
<1>1. t \in Seq(Nat \X Nat) /\ r \in Seq(Nat \X Nat) /\ l \in Nat /\ DOMAIN t = 1..l
  BY RowFacts DEF Laid
<1>2. CASE ~IsRun(Ops[m + 1])
  <2>1. u = t
    <3>1. r = <<>>
      BY <1>2, RowFacts
    <3>2. \A x \in Seq(Nat \X Nat) : x \o <<>> = x
      OBVIOUS
    <3> HIDE DEF r
    <3> QED
      BY <1>1, <3>1, <3>2
  <2>2. \A k \in 1..(m + 1) : IsRun(Ops[k]) => k \in 1..m
    BY <1>2
  <2>3. \A k \in 1..m : k \in 1..(m + 1)
    OBVIOUS
  <2> HIDE DEF u
  <2>4. Laid(u, m + 1)
    BY <2>1, <2>2, <2>3 DEF Laid
  <2> QED
    BY <2>4 DEF u
<1>3. CASE IsRun(Ops[m + 1])
  <2>1. c \in Nat /\ Len(r) = c /\ \A n \in 1..c : r[n] = <<m + 1, n>>
    BY <1>3, RowFacts
  <2> HIDE DEF r, c
  <2>2. /\ u \in Seq(Nat \X Nat) /\ DOMAIN u = 1..(l + c)
        /\ \A i \in 1..l : u[i] = t[i]
        /\ \A i \in (l + 1)..(l + c) : u[i] = r[i - l]
    BY <1>1, <2>1
  <2> HIDE DEF u, l
  <2>3. ASSUME NEW i \in (l + 1)..(l + c) PROVE u[i] = <<m + 1, i - l>> /\ i - l \in 1..c
    <3> DEFINE x == i - l
    <3>1. x \in 1..c
      BY <1>1, <2>1
    <3>2. u[i] = r[x]
      BY <2>2
    <3> HIDE DEF x
    <3>3. u[i] = <<m + 1, x>>
      BY <2>1, <3>1, <3>2
    <3> QED
      BY <3>1, <3>3 DEF x
  <2>4. ASSUME NEW i \in DOMAIN u
        PROVE  i \in 1..l \/ i \in (l + 1)..(l + c)
    BY <1>1, <2>1, <2>2
  <2>5. \A i \in 1..l : u[i][1] \in 1..m /\ IsRun(Ops[u[i][1]]) /\ u[i][2] \in 1..Len(Ops[u[i][1]].cands)
    BY <1>1, <2>2 DEF Laid
  <2>6. ASSUME NEW i \in DOMAIN u
        PROVE  /\ u[i][1] \in 1..(m + 1) /\ IsRun(Ops[u[i][1]])
               /\ u[i][2] \in 1..Len(Ops[u[i][1]].cands)
    <3>1. CASE i \in 1..l
      BY <2>5, <3>1
    <3>2. CASE i \in (l + 1)..(l + c)
      <4>1. u[i][1] = m + 1 /\ u[i][2] \in 1..c
        BY <2>3, <3>2
      <4> QED
        BY <1>3, <4>1 DEF c
    <3> QED
      BY <2>4, <3>1, <3>2
  <2>7. ASSUME NEW i \in DOMAIN u, NEW j \in DOMAIN u, i < j PROVE Comes(u[i], u[j])
    <3>1. CASE i \in 1..l /\ j \in 1..l
      BY <1>1, <2>2, <2>7, <3>1 DEF Laid
    <3>2. CASE i \in 1..l /\ j \in (l + 1)..(l + c)
      <4>1. u[i][1] \in 1..m /\ u[j][1] = m + 1
        BY <2>3, <2>5, <3>2
      <4> QED
        BY <4>1 DEF Comes
    <3>3. CASE i \in (l + 1)..(l + c) /\ j \in (l + 1)..(l + c)
      <4>1. u[i][1] = m + 1 /\ u[i][2] = i - l /\ u[j][1] = m + 1 /\ u[j][2] = j - l
        BY <2>3, <3>3
      <4>2. i - l < j - l
        BY <1>1, <2>1, <2>7, <3>3
      <4> QED
        BY <4>1, <4>2 DEF Comes
    <3>4. ~(i \in (l + 1)..(l + c) /\ j \in 1..l)
      BY <1>1, <2>1, <2>7
    <3> QED
      BY <2>4, <3>1, <3>2, <3>3, <3>4
  <2>8. ASSUME NEW k \in 1..(m + 1), IsRun(Ops[k]), NEW n \in 1..Len(Ops[k].cands)
        PROVE  \E i \in DOMAIN u : u[i] = <<k, n>>
    <3>1. CASE k \in 1..m
      <4>1. PICK i \in DOMAIN t : t[i] = <<k, n>>
        BY <2>8, <3>1 DEF Laid
      <4>2. i \in DOMAIN u /\ u[i] = t[i]
        BY <1>1, <2>1, <2>2
      <4> QED
        BY <4>1, <4>2
    <3>2. CASE k = m + 1
      <4>1. n \in 1..c
        BY <3>2 DEF c
      <4> DEFINE x == l + n
      <4>2. x \in (l + 1)..(l + c) /\ x - l = n /\ x \in DOMAIN u
        BY <1>1, <2>1, <2>2, <4>1
      <4> HIDE DEF x
      <4>3. u[x] = <<m + 1, n>>
        BY <2>3, <4>2
      <4> QED
        BY <3>2, <4>2, <4>3
    <3> QED
      BY <3>1, <3>2
  <2>9. Laid(u, m + 1)
    BY <2>2, <2>6, <2>7, <2>8 DEF Laid
  <2> QED
    BY <2>9 DEF u, r
<1> QED
  BY <1>2, <1>3

LEMMA LaidNothing == Laid(<<>>, 0)
BY DEF Laid

(* Places lists the places of the committed operations. *)
LEMMA PlacesFacts ==
    ASSUME done \in 0..Len(Ops)
    PROVE  Laid(Places, done)
<1> DEFINE q == [k \in 1..done |-> Row(k)]
           F == CHOOSE f : f = FlattenBody(q, done, f)
<1>1. done \in Nat /\ Len(Ops) \in Nat
  BY OpsAssumption
<1>2. q \in Seq(Seq(Nat \X Nat)) /\ Len(q) = done /\ \A k \in 1..done : q[k] = Row(k)
  <2>1. q \in [1..done -> Seq(Nat \X Nat)]
    BY <1>1, RowFacts
  <2>2. q \in Seq(Seq(Nat \X Nat)) /\ Len(q) = done
    <3> HIDE DEF q
    <3> QED
      BY <1>1, <2>1, SeqFromFunction
  <2> QED
    BY <2>2
<1>3. Places = FlattenSeq(q)
  BY DEF Places, Row
<1>4. CASE done = 0
  <2>1. q = <<>>
    BY <1>2, <1>4
  <2>2. Places = <<>>
    BY <1>3, <2>1 DEF FlattenSeq
  <2> QED
    BY <1>4, <2>2, LaidNothing
<1>5. CASE done # 0
  <2>1. F = FlattenBody(q, done, F)
    BY <1>1, FlattenExists
  <2>2. Places = F[done]
    BY <1>2, <1>3, <1>5 DEF FlattenSeq, FlattenBody
  <2> HIDE DEF F, q
  <2> DEFINE Bad == {m \in Nat : 1 <= m /\ m <= done /\ ~Laid(F[m], m)}
  <2>3. Bad = {}
    <3> SUFFICES ASSUME Bad # {} PROVE FALSE
      OBVIOUS
    <3>1. PICK m \in Bad : \A x \in Bad : m <= x
      <4>1. Bad \subseteq Nat
        OBVIOUS
      <4> HIDE DEF Bad
      <4> QED
        BY <4>1, LeastNatural
    <3>2. m \in Nat /\ m \in 1..done /\ ~Laid(F[m], m)
      BY <1>1, <3>1
    <3>3. F[m] = IF m = 1 THEN q[m] ELSE F[m - 1] \o q[m]
      BY <2>1, <3>2 DEF FlattenBody
    <3>4. m - 1 \in Nat /\ m - 1 + 1 = m /\ m \in 1..Len(Ops) /\ q[m] = Row(m)
      BY <1>1, <1>2, <3>2
    <3>5. CASE m = 1
      <4> DEFINE h == 0
      <4>1. Laid(<<>> \o Row(h + 1), h + 1)
        <5>1. h \in Nat /\ h + 1 \in 1..Len(Ops) /\ Laid(<<>>, h)
          BY <3>4, <3>5, LaidNothing
        <5> HIDE DEF h
        <5> QED
          BY <5>1, LaidNext
      <4>2. <<>> \o Row(1) = Row(1)
        BY <3>4, <3>5, RowFacts
      <4> QED
        BY <3>2, <3>3, <3>4, <3>5, <4>1, <4>2
    <3>6. CASE m # 1
      <4>1. m - 1 \in Nat /\ 1 <= m - 1 /\ m - 1 <= done /\ ~(m <= m - 1)
        BY <1>1, <3>2, <3>6
      <4>2. Laid(F[m - 1], m - 1)
        BY <3>1, <4>1
      <4> DEFINE h == m - 1
      <4>3. h \in Nat /\ h + 1 \in 1..Len(Ops) /\ Laid(F[h], h) /\ h + 1 = m
        BY <3>4, <4>2
      <4>4. Laid(F[h] \o Row(h + 1), h + 1)
        <5> HIDE DEF h
        <5> QED
          BY <4>3, LaidNext
      <4> QED
        BY <3>2, <3>3, <3>4, <3>6, <4>3, <4>4
    <3> QED
      BY <3>5, <3>6
  <2> QED
    BY <1>1, <1>5, <2>2, <2>3
<1> QED
  BY <1>4, <1>5

(* One crash-free pass tracks the log. *)
LEMMA PassTracks ==
    ASSUME done \in 0..Len(Ops)
    PROVE  \E K, N : Tracks(OncePassed, K, N)
<1> DEFINE p == Places
           D == {j \in DOMAIN p : Stands(p[j][1], At(p[j]))}
           K == [i \in D |-> p[i][1]]
           N == [i \in D |-> p[i][2]]
<1>1. done \in Nat /\ Len(Ops) \in Nat /\ \A k \in 1..done : k \in 1..Len(Ops)
  BY OpsAssumption
<1>2. Laid(p, done)
  BY PlacesFacts
<1>3. /\ DOMAIN OncePassed = D /\ \A i \in D : OncePassed[i] = At(p[i])
  BY DEF OncePassed
<1> HIDE DEF p
<1>4. /\ DOMAIN p \subseteq Nat
      /\ \A i \in DOMAIN p : p[i] \in Nat \X Nat
  BY <1>2 DEF Laid
<1>5. ASSUME NEW i \in D
      PROVE  /\ i \in DOMAIN p /\ i \in Nat /\ K[i] = p[i][1] /\ N[i] = p[i][2] /\ Stood(K[i], N[i])
             /\ At(p[i]) = Ops[K[i]].cands[N[i]]
             /\ p[i] = <<K[i], N[i]>> /\ K[i] \in Nat /\ N[i] \in Nat
  <2>1. i \in DOMAIN p /\ i \in Nat /\ K[i] = p[i][1] /\ N[i] = p[i][2] /\ Stands(p[i][1], At(p[i]))
    BY <1>4
  <2>2. At(p[i]) = Ops[K[i]].cands[N[i]]
    BY <2>1 DEF At
  <2>3. K[i] \in 1..done /\ IsRun(Ops[K[i]]) /\ N[i] \in 1..Len(Ops[K[i]].cands)
    BY <1>2, <2>1 DEF Laid
  <2>4. p[i] = <<K[i], N[i]>> /\ K[i] \in Nat /\ N[i] \in Nat
    BY <1>4, <2>1
  <2> QED
    BY <1>1, <2>1, <2>2, <2>3, <2>4 DEF Stood
<1>6. ASSUME NEW k \in Nat, NEW n \in Nat, Stood(k, n) PROVE \E i \in D : K[i] = k /\ N[i] = n
  <2>1. PICK i \in DOMAIN p : p[i] = <<k, n>>
    BY <1>2, <1>6 DEF Laid, Stood
  <2>2. i \in D
    BY <1>6, <2>1 DEF Stood, At
  <2> QED
    BY <2>1, <2>2
<1>7. ASSUME NEW i \in D, NEW j \in D, i < j
      PROVE  K[i] < K[j] \/ (K[i] = K[j] /\ N[i] < N[j])
  BY <1>2, <1>5, <1>7 DEF Laid, Comes
<1> HIDE DEF D, K, N
<1>8. ASSUME NEW i \in D, NEW n \in Nat, n < N[i], Stood(K[i], n)
      PROVE  \E j \in D : j < i /\ K[j] = K[i] /\ N[j] = n
  <2>1. PICK j \in D : K[j] = K[i] /\ N[j] = n
    BY <1>5, <1>6, <1>8
  <2>2. i # j /\ ~(i < j)
    BY <1>5, <1>7, <1>8, <2>1
  <2>3. j < i
    BY <1>5, <2>2
  <2> QED
    BY <2>1, <2>3
<1>9. Tracks(OncePassed, K, N)
  BY <1>3, <1>5, <1>6, <1>7, <1>8 DEF Tracks
<1> QED
  BY <1>9

(* A candidate passes the engine in operation k, and the first d           *)
(* operations take it back.                                                *)
Admitted(k, c) ==
    /\ AddressA[c] # AddressB[c]
    /\ \A m \in 1..k : IsRun(Ops[m]) => Ends(c) \cap Ops[m].hubs = {}

Revoked(d, k, c) == \E m \in (k + 1)..d : IsReorg(Ops[m]) /\ BlockOf[c] \in Ops[m].hashes

(* The operation in hand or next in the log has been begun. *)
UnderWay == done < Len(Ops) /\ tries[done + 1] > 0

(* The n-th candidate of operation k has been offered to the engine. *)
Offered(k, n) ==
    \/ k <= done
    \/ /\ k = done + 1
       /\ \/ pc["consumer"] = "record" /\ n < next
          \/ pc["consumer"] \in {"scan", "write", "commit"}

(* Row i was recorded for the N[i]-th candidate of operation K[i], ...     *)
FromPlace(K, N) ==
    \A i \in DOMAIN evidence :
        /\ K[i] \in 1..Len(Ops) /\ IsRun(Ops[K[i]]) /\ N[i] \in 1..Len(Ops[K[i]].cands)
        /\ evidence[i].cand = Ops[K[i]].cands[N[i]] /\ Admitted(K[i], evidence[i].cand)
        /\ K[i] <= done \/ (K[i] = done + 1 /\ UnderWay)

(* ... batch after batch, each from its first candidate on, ...            *)
InOrder(K) == \A i, j \in DOMAIN evidence : i < j => K[i] <= K[j]

FromStart(K, N) ==
    \A i \in DOMAIN evidence : \A n \in Nat \ {0} :
        n < N[i] /\ Admitted(K[i], Ops[K[i]].cands[n]) =>
            \E j \in DOMAIN evidence : j < i /\ K[j] = K[i] /\ N[j] = n

(* ... with nothing left out ...                                           *)
AllThere(K, N) ==
    \A k \in 1..Len(Ops) : IsRun(Ops[k]) => \A n \in 1..Len(Ops[k].cands) :
        Offered(k, n) /\ Admitted(k, Ops[k].cands[n]) =>
            \E i \in DOMAIN evidence : K[i] = k /\ N[i] = n

(* ... and is active unless a notice after it took it back or is about to. *)
TakenBack(K) ==
    \A i \in DOMAIN evidence :
        /\ i \in Active => ~Revoked(done, K[i], evidence[i].cand)
        /\ i \notin Active =>
              \/ Revoked(done, K[i], evidence[i].cand)
              \/ Notice /\ UnderWay /\ BlockOf[evidence[i].cand] \in Op.hashes

Placed(K, N) ==
    FromPlace(K, N) /\ InOrder(K) /\ FromStart(K, N) /\ AllThere(K, N) /\ TakenBack(K)

(* The hubs are those of the batches so far, all of the one in hand once   *)
(* its candidates are recorded.                                            *)
HubInv ==
    \A a :
        /\ a \in hub => \/ \E m \in 1..done : IsRun(Ops[m]) /\ a \in Ops[m].hubs
                        \/ Batch /\ UnderWay /\ a \in Op.hubs
        /\ (\E m \in 1..done : IsRun(Ops[m]) /\ a \in Ops[m].hubs) => a \in hub
        /\ Batch /\ pc["consumer"] \in {"record", "scan", "write", "commit"} /\ a \in Op.hubs
              => a \in hub

(* The consumer is past what is committed only, and ahead of it has begun  *)
(* at most the next operation.                                             *)
SteadyInv ==
    /\ committed = done
    /\ \A m \in (done + 2)..Len(Ops) : tries[m] = 0

(* While no batch is given up, and without corrections, the table is what  *)
(* a pass over the log left, batches begun over and over.                  *)
PassInv ==
    /\ corrections \in Nat
    /\ "dropped" \notin hit =>
          /\ SteadyInv
          /\ HubInv
          /\ corrections = 0 => \E K, N : Placed(K, N)

(* An operation is a batch or a notice. *)
LEMMA KindFacts ==
    ASSUME NEW k \in 1..Len(Ops)
    PROVE  /\ IsRun(Ops[k]) \/ IsReorg(Ops[k])
           /\ ~(IsRun(Ops[k]) /\ IsReorg(Ops[k]))
           /\ IsRun(Ops[k]) => /\ Ops[k].cands \in Seq(Cand) /\ Len(Ops[k].cands) \in Nat
                               /\ DOMAIN Ops[k].cands = 1..Len(Ops[k].cands)
BY OpsAssumption DEF IsRun, IsReorg

LEMMA StandsFacts ==
    ASSUME NEW k, NEW c
    PROVE  Stands(k, c) <=> Admitted(k, c) /\ ~Revoked(done, k, c)
BY DEF Stands, Admitted, Revoked

(* Nothing of what Placed says is disturbed. *)
Undisturbed ==
    /\ DOMAIN evidence' = DOMAIN evidence
    /\ \A j \in DOMAIN evidence : evidence'[j].cand = evidence[j].cand
    /\ done' = done
    /\ UnderWay => UnderWay'
    /\ \A k \in 1..Len(Ops) : IsRun(Ops[k]) =>
          \A n \in 1..Len(Ops[k].cands) :
              Offered(k, n)' /\ Admitted(k, Ops[k].cands[n]) => Offered(k, n)
    /\ Active' \subseteq Active
    /\ \A i \in Active \ Active' : Notice /\ UnderWay' /\ BlockOf[evidence[i].cand] \in Op.hashes

LEMMA PlacedStays ==
    ASSUME Undisturbed, NEW K, NEW N, Placed(K, N)
    PROVE  Placed(K, N)'
<1>1. FromPlace(K, N)'
  BY DEF Undisturbed, Placed, FromPlace, Admitted, Ends
<1>2. InOrder(K)' /\ FromStart(K, N)'
  BY DEF Undisturbed, Placed, InOrder, FromStart, Admitted, Ends
<1>3. AllThere(K, N)'
  <2> SUFFICES ASSUME NEW k \in 1..Len(Ops), IsRun(Ops[k]), NEW n \in 1..Len(Ops[k].cands),
                      Offered(k, n)', Admitted(k, Ops[k].cands[n])
               PROVE  \E i \in DOMAIN evidence : K[i] = k /\ N[i] = n
    BY DEF Undisturbed, AllThere, Admitted, Ends
  <2>1. Offered(k, n)
    BY DEF Undisturbed
  <2> QED
    BY <2>1 DEF Placed, AllThere
<1>4. TakenBack(K)'
  <2> SUFFICES ASSUME NEW i \in DOMAIN evidence
               PROVE  /\ i \in Active' => ~Revoked(done, K[i], evidence[i].cand)
                      /\ i \notin Active' =>
                            \/ Revoked(done, K[i], evidence[i].cand)
                            \/ Notice /\ UnderWay' /\ BlockOf[evidence[i].cand] \in Op.hashes
    BY DEF Undisturbed, TakenBack, Revoked, Notice, Op
  <2>1. CASE i \in Active
    BY <2>1 DEF Undisturbed, Placed, TakenBack
  <2>2. CASE i \notin Active
    BY <2>2 DEF Undisturbed, Placed, TakenBack
  <2> QED
    BY <2>1, <2>2
<1> QED
  BY <1>1, <1>2, <1>3, <1>4 DEF Placed

(* The engine rejects what is not admitted. *)
LEMMA RejectedFacts ==
    ASSUME TableInv, HubInv, Batch, pc["consumer"] = "record", NEW c
    PROVE  Rejected(c) <=> ~Admitted(done + 1, c)
<1>1. done \in Nat
  BY OpsAssumption DEF TableInv
<1>2. ASSUME NEW a PROVE a \in hub <=> \E m \in 1..(done + 1) : IsRun(Ops[m]) /\ a \in Ops[m].hubs
  <2>1. \A m \in 1..(done + 1) : m \in 1..done \/ m = done + 1
    BY <1>1
  <2>2. \A m \in 1..done : m \in 1..(done + 1)
    BY <1>1
  <2>3. done + 1 \in 1..(done + 1) /\ IsRun(Ops[done + 1])
    BY <1>1 DEF Batch, Op
  <2> QED
    BY <2>1, <2>2, <2>3 DEF HubInv, Op
<1>3. Rejected(c) <=> AddressA[c] = AddressB[c] \/ \E a \in Ends(c) : a \in hub
  BY DEF Rejected, Ends
<1> QED
  BY <1>2, <1>3 DEF Admitted

(* A row recorded for the next candidate of the batch is in its place. *)
LEMMA PlacedRecord ==
    ASSUME TableInv, HandInv, HubInv, RecordAndMerge, NEW K, NEW N, Placed(K, N)
    PROVE  \E L, M : Placed(L, M)'
<1> DEFINE c == Op.cands[next]
<1>1. Recording /\ UnderWay /\ UnderWay' /\ done' = done /\ pc' = pc
  BY RecordFacts DEF RecordAndMerge, Recording, UnderWay, HandInv
<1>2. Rejected(c) <=> ~Admitted(done + 1, c)
  BY <1>1, RejectedFacts DEF Recording
<1>3. done \in Nat /\ next \in Nat \ {0} /\ evidence \in Seq(Evidence) /\ done + 1 \in 1..Len(Ops)
  BY <1>1, BatchFacts, OpsAssumption DEF TableInv, Recording
<1>4. ASSUME NEW k \in 1..Len(Ops), NEW n \in Nat, Offered(k, n)', ~Offered(k, n)
      PROVE  k = done + 1 /\ n = next
  BY <1>1, <1>3, <1>4 DEF Offered, Recording
<1>5. CASE Rejected(c)
  <2>1. evidence' = evidence
    BY <1>5 DEF RecordAndMerge, Op
  <2>2. ASSUME NEW k \in 1..Len(Ops), IsRun(Ops[k]), NEW n \in 1..Len(Ops[k].cands),
               Offered(k, n)', Admitted(k, Ops[k].cands[n])
        PROVE  Offered(k, n)
    BY <1>2, <1>4, <1>5, <2>2 DEF Op
  <2>3. Undisturbed
    BY <1>1, <2>1, <2>2 DEF Undisturbed, Active
  <2> QED
    BY <2>3, PlacedStays
<1>6. CASE ~Rejected(c)
  <2> DEFINE l == Len(evidence')
  <2>1. Appended(c) /\ Admitted(done + 1, c)
    BY <1>1, <1>2, <1>6, AppendFacts DEF RecordAndMerge, Recording, TableInv, Op
  <2>2. /\ l \notin DOMAIN evidence /\ DOMAIN evidence' = DOMAIN evidence \cup {l} /\ l \in Nat
        /\ \A i \in DOMAIN evidence : i < l /\ i \in Nat
        /\ Active' = Active \cup {l} /\ l \notin Active
        /\ evidence'[l].cand = c /\ \A i \in DOMAIN evidence : evidence'[i] = evidence[i]
    <3>1. Len(evidence) \in Nat /\ DOMAIN evidence = 1..Len(evidence) /\ l = Len(evidence) + 1
      BY <1>3, <2>1 DEF Appended
    <3>2. evidence'[l].cand = c
      BY <2>1 DEF Appended
    <3> QED
      BY <2>1, <3>1, <3>2 DEF Appended, Active
  <2>3. PICK L, M : /\ L[l] = done + 1 /\ M[l] = next
                    /\ \A i \in DOMAIN evidence : L[i] = K[i] /\ M[i] = N[i]
    <3> DEFINE A == [i \in DOMAIN evidence' |-> IF i = l THEN done + 1 ELSE K[i]]
               B == [i \in DOMAIN evidence' |-> IF i = l THEN next ELSE N[i]]
    <3>1. /\ A[l] = done + 1 /\ B[l] = next
          /\ \A i \in DOMAIN evidence : A[i] = K[i] /\ B[i] = N[i]
      BY <2>2
    <3> HIDE DEF A, B
    <3> QED
      BY <3>1
  <2> HIDE DEF l
  <2>4. \A i \in DOMAIN evidence :
          /\ K[i] \in 1..Len(Ops) /\ IsRun(Ops[K[i]]) /\ N[i] \in 1..Len(Ops[K[i]].cands)
          /\ evidence[i].cand = Ops[K[i]].cands[N[i]] /\ Admitted(K[i], evidence[i].cand)
          /\ K[i] <= done + 1 /\ K[i] \in Nat
    BY <1>3, OpsAssumption DEF Placed, FromPlace
  <2>5. FromPlace(L, M)'
    <3>1. ASSUME NEW i \in DOMAIN evidence'
          PROVE  /\ L[i] \in 1..Len(Ops) /\ IsRun(Ops[L[i]]) /\ M[i] \in 1..Len(Ops[L[i]].cands)
                 /\ evidence'[i].cand = Ops[L[i]].cands[M[i]] /\ Admitted(L[i], evidence'[i].cand)
                 /\ L[i] <= done \/ (L[i] = done + 1 /\ UnderWay')
      <4>1. CASE i = l
        <5>1. IsRun(Ops[done + 1]) /\ next \in 1..Len(Ops[done + 1].cands)
          BY <1>1, <1>3, KindFacts DEF Recording, Batch, Op
        <5> QED
          BY <1>1, <1>3, <2>1, <2>2, <2>3, <4>1, <5>1 DEF Op
      <4>2. CASE i \in DOMAIN evidence
        BY <1>1, <2>2, <2>3, <2>4, <4>2 DEF Placed, FromPlace
      <4> QED
        BY <2>2, <4>1, <4>2
    <3> QED
      BY <1>1, <3>1 DEF FromPlace, Admitted, Ends
  <2>6. InOrder(L)'
    <3>1. ASSUME NEW i \in DOMAIN evidence', NEW j \in DOMAIN evidence', i < j PROVE L[i] <= L[j]
      <4>1. i \in DOMAIN evidence
        BY <2>2, <3>1
      <4>2. CASE j = l
        BY <2>3, <2>4, <4>1, <4>2
      <4>3. CASE j \in DOMAIN evidence
        BY <2>3, <3>1, <4>1, <4>3 DEF Placed, InOrder
      <4> QED
        BY <2>2, <4>2, <4>3
    <3> QED
      BY <3>1 DEF InOrder
  <2>7. FromStart(L, M)'
    <3>1. ASSUME NEW i \in DOMAIN evidence', NEW n \in Nat \ {0}, n < M[i],
                 Admitted(L[i], Ops[L[i]].cands[n])
          PROVE  \E j \in DOMAIN evidence' : j < i /\ L[j] = L[i] /\ M[j] = n
      <4>1. CASE i = l
        <5>1. L[i] = done + 1 /\ n < next
          BY <2>3, <3>1, <4>1
        <5>2. IsRun(Ops[done + 1]) /\ n \in 1..Len(Ops[done + 1].cands)
          <6>1. IsRun(Ops[done + 1]) /\ next \in 1..Len(Ops[done + 1].cands)
            BY <1>1, <1>3, KindFacts DEF Recording, Batch, Op
          <6>2. Len(Ops[done + 1].cands) \in Nat
            BY <1>3, <6>1, KindFacts
          <6> QED
            BY <1>3, <5>1, <6>1, <6>2
        <5>3. Offered(done + 1, n)
          BY <1>1, <5>1 DEF Offered, Recording
        <5>4. PICK j \in DOMAIN evidence : K[j] = done + 1 /\ N[j] = n
          BY <1>3, <3>1, <5>1, <5>2, <5>3 DEF Placed, AllThere
        <5> QED
          BY <2>2, <2>3, <4>1, <5>1, <5>4
      <4>2. CASE i \in DOMAIN evidence
        <5>1. PICK j \in DOMAIN evidence : j < i /\ K[j] = K[i] /\ N[j] = n
          BY <2>3, <3>1, <4>2 DEF Placed, FromStart
        <5> QED
          BY <2>2, <2>3, <4>2, <5>1
      <4> QED
        BY <2>2, <4>1, <4>2
    <3> QED
      BY <3>1 DEF FromStart, Admitted, Ends
  <2>8. AllThere(L, M)'
    <3>1. ASSUME NEW k \in 1..Len(Ops), IsRun(Ops[k]), NEW n \in 1..Len(Ops[k].cands),
                 Offered(k, n)', Admitted(k, Ops[k].cands[n])
          PROVE  \E i \in DOMAIN evidence' : L[i] = k /\ M[i] = n
      <4>1. CASE Offered(k, n)
        <5>1. PICK i \in DOMAIN evidence : K[i] = k /\ N[i] = n
          BY <3>1, <4>1 DEF Placed, AllThere
        <5> QED
          BY <2>2, <2>3, <5>1
      <4>2. CASE ~Offered(k, n)
        <5>1. k = done + 1 /\ n = next
          BY <1>4, <3>1, <4>2
        <5> QED
          BY <2>2, <2>3, <5>1
      <4> QED
        BY <4>1, <4>2
    <3> QED
      BY <3>1 DEF AllThere, Admitted, Ends
  <2>9. TakenBack(L)'
    <3>1. ASSUME NEW i \in DOMAIN evidence'
          PROVE  /\ i \in Active' => ~Revoked(done, L[i], evidence'[i].cand)
                 /\ i \notin Active' =>
                       \/ Revoked(done, L[i], evidence'[i].cand)
                       \/ Notice /\ UnderWay' /\ BlockOf[evidence'[i].cand] \in Op.hashes
      <4>1. CASE i = l
        <5>1. ~Revoked(done, done + 1, c)
          BY <1>3 DEF Revoked
        <5> QED
          BY <2>2, <2>3, <4>1, <5>1
      <4>2. CASE i \in DOMAIN evidence
        <5>1. i \in Active' <=> i \in Active
          BY <2>2, <4>2
        <5> QED
          BY <1>1, <2>2, <2>3, <4>2, <5>1 DEF Placed, TakenBack
      <4> QED
        BY <2>2, <4>1, <4>2
    <3> QED
      BY <1>1, <3>1 DEF TakenBack, Revoked, Notice, Op
  <2> QED
    BY <2>5, <2>6, <2>7, <2>8, <2>9 DEF Placed
<1> QED
  BY <1>5, <1>6

(* A committed operation leaves every row in its place. *)
LEMMA PlacedCommit ==
    ASSUME TableInv, HandInv, PurgeInv, SteadyInv, Commit, NEW K, NEW N, Placed(K, N)
    PROVE  Placed(K, N)'
<1>1. /\ pc["consumer"] = "commit" /\ done' = done + 1 /\ evidence' = evidence
      /\ pc' = [pc EXCEPT !["consumer"] = "idle"] /\ tries' = tries
  BY DEF Commit, Goto
<1>2. pc'["consumer"] = "idle" /\ ~UnderWay' /\ Active' = Active
  <2>1. done \in Nat /\ Len(Ops) \in Nat
    BY OpsAssumption DEF TableInv
  <2>2. done' < Len(Ops) => done' + 1 \in (done + 2)..Len(Ops)
    BY <1>1, <2>1
  <2> QED
    BY <1>1, <2>2, Actors DEF UnderWay, SteadyInv, TableInv, Active
<1>3. done \in Nat /\ done + 1 \in 1..Len(Ops) /\ Len(Ops) \in Nat
  BY <1>1, OpsAssumption DEF HandInv, TableInv
<1>4. \A i \in DOMAIN evidence :
          /\ K[i] \in 1..Len(Ops) /\ K[i] \in Nat /\ IsRun(Ops[K[i]])
          /\ K[i] <= done + 1
  BY <1>3 DEF Placed, FromPlace
<1>5. FromPlace(K, N)'
  BY <1>1, <1>3, <1>4 DEF Placed, FromPlace, Admitted, Ends
<1>6. InOrder(K)' /\ FromStart(K, N)'
  BY <1>1 DEF Placed, InOrder, FromStart, Admitted, Ends
<1>7. AllThere(K, N)'
  <2>1. ASSUME NEW k \in 1..Len(Ops), NEW n, Offered(k, n)' PROVE Offered(k, n)
    BY <1>1, <1>2, <1>3, <2>1 DEF Offered
  <2> QED
    BY <1>1, <2>1 DEF Placed, AllThere, Admitted, Ends
<1>8. TakenBack(K)'
  <2>1. ASSUME NEW i \in DOMAIN evidence
        PROVE  Revoked(done + 1, K[i], evidence[i].cand) <=>
                 \/ Revoked(done, K[i], evidence[i].cand)
                 \/ Notice /\ BlockOf[evidence[i].cand] \in Op.hashes
    <3> DEFINE k == K[i]
               b == BlockOf[evidence[i].cand]
    <3>1. k \in Nat /\ k <= done + 1 /\ IsRun(Ops[k]) /\ k \in 1..Len(Ops)
      BY <1>4
    <3>2. \A m \in (k + 1)..(done + 1) : m \in (k + 1)..done \/ m = done + 1
      BY <1>3, <3>1
    <3>3. \A m \in (k + 1)..done : m \in (k + 1)..(done + 1)
      BY <1>3, <3>1
    <3>4. Notice <=> IsReorg(Ops[done + 1])
      BY <1>3 DEF Notice, Op
    <3>5. Notice => k # done + 1
      BY <3>1, <3>4, KindFacts
    <3>6. Notice => done + 1 \in (k + 1)..(done + 1)
      BY <1>3, <3>1, <3>5
    <3> QED
      BY <3>2, <3>3, <3>4, <3>6 DEF Revoked, Op
  <2>2. ASSUME Notice, NEW i \in Active PROVE BlockOf[evidence[i].cand] \notin Op.hashes
    BY <1>1, <2>2 DEF PurgeInv
  <2>3. ASSUME NEW i \in DOMAIN evidence
        PROVE  /\ i \in Active => ~Revoked(done + 1, K[i], evidence[i].cand)
               /\ i \notin Active => Revoked(done + 1, K[i], evidence[i].cand)
    <3>1. CASE i \in Active
      BY <2>1, <2>2, <3>1 DEF Placed, TakenBack
    <3>2. CASE i \notin Active
      BY <2>1, <3>2 DEF Placed, TakenBack
    <3> QED
      BY <3>1, <3>2
  <2> QED
    BY <1>1, <1>2, <2>3 DEF TakenBack, Revoked
<1> QED
  BY <1>5, <1>6, <1>7, <1>8 DEF Placed

(* No other step moves a row or records one. *)
LEMMA UndisturbedStep ==
    ASSUME TableInv, HandInv, PurgeInv, SteadyInv, [Next]_vars, ~RecordAndMerge, ~Commit,
           ~CorrectRow, ~PeriodicFlushFails
    PROVE  Undisturbed
<1>1. Shrinks /\ done' = done
  BY ShrinkFacts, LogFacts DEF SteadyInv
<1>2. /\ DOMAIN evidence' = DOMAIN evidence
      /\ \A j \in DOMAIN evidence : evidence'[j].cand = evidence[j].cand
      /\ done' = done /\ (UnderWay => UnderWay') /\ Active' \subseteq Active
  <2>1. done < Len(Ops) => done + 1 \in 1..Len(Ops)
    BY OpsAssumption DEF TableInv
  <2>2. UnderWay => UnderWay'
    BY <1>1, <2>1, LogFacts DEF UnderWay
  <2> QED
    BY <1>1, <2>2 DEF Shrinks
<1>3. done \in Nat /\ pc \in [Actor -> Step] /\ next \in Nat
  BY OpsAssumption DEF TableInv
<1>4. ASSUME NEW k \in 1..Len(Ops), IsRun(Ops[k]), NEW n \in 1..Len(Ops[k].cands), Offered(k, n)'
      PROVE  Offered(k, n)
  <2>1. CASE k <= done
    BY <2>1 DEF Offered
  <2>2. CASE ~(k <= done)
    <3>1. k = done + 1 /\ \/ pc'["consumer"] = "record" /\ n < next'
                          \/ pc'["consumer"] \in {"scan", "write", "commit"}
      BY <1>2, <1>4, <2>2 DEF Offered
    <3>2. Len(Ops[k].cands) \in Nat /\ n \in Nat /\ n >= 1
      BY <1>4, KindFacts
    <3>3. ~Notice
      BY <1>4, <3>1, KindFacts DEF Notice, Op
    <3> USE <1>3, Actors, GotoFacts DEF Step
    <3>4. CASE StartRun
      BY <3>1, <3>2, <3>4 DEF StartRun
    <3>13. CASE MarkHub \/ MarkDone
      BY <3>1, <3>2, <3>13 DEF MarkHub, MarkDone, HandInv
    <3>5. CASE RecordDone
      BY <1>4, <3>1, <3>2, <3>5 DEF RecordDone, Offered
    <3>6. CASE InvalidateDone
      BY <3>3, <3>6 DEF InvalidateDone, HandInv
    <3>7. CASE StartReorg
      BY <3>1, <3>7 DEF StartReorg
    <3>8. CASE InvalidateRow
      BY <3>3, <3>8 DEF InvalidateRow, HandInv
    <3>9. ASSUME NEW x \in Actor, ScanActive(x) \/ ReplaceCache(x) PROVE Offered(k, n)
      <4>1. \/ pc'["consumer"] = pc["consumer"] /\ next' = next
            \/ pc["consumer"] \in {"scan", "write"}
        BY <3>9 DEF ScanActive, ReplaceCache, Goto
      <4> QED
        BY <3>1, <4>1 DEF Offered
    <3>10. CASE Crash
      BY <3>1, <3>10 DEF Crash, GivesUp
    <3>11. CASE CorrectionFails
      BY <3>1, <3>11 DEF CorrectionFails, Offered
    <3>12. CASE Wait \/ UNCHANGED vars
      BY <3>1, <3>12 DEF Wait, vars, Offered
    <3> QED
      BY <3>4, <3>5, <3>6, <3>7, <3>8, <3>9, <3>10, <3>11, <3>12, <3>13 DEF Next, Consume
  <2> QED
    BY <2>1, <2>2
<1>5. ASSUME NEW i \in Active \ Active'
      PROVE  Notice /\ UnderWay' /\ BlockOf[evidence[i].cand] \in Op.hashes
  <2>1. CASE InvalidateRow
    <3>1. PICK j \in list : j \in DOMAIN evidence /\ Invalidated(j, "reorg")
      BY <2>1, InvalidateRowFacts
    <3>2. i = j
      BY <3>1 DEF Invalidated
    <3>3. UnderWay'
      BY <1>2, <2>1 DEF InvalidateRow, UnderWay, HandInv
    <3> QED
      BY <3>1, <3>2, <3>3 DEF PurgeInv
  <2>2. CASE ~InvalidateRow
    <3>1. evidence' = evidence
      BY <2>2 DEF Next, Consume, vars, StartRun, MarkHub, MarkDone, RecordDone, StartReorg,
         InvalidateDone, Wait, ScanActive, ReplaceCache, Crash, GivesUp, CorrectionFails
    <3> QED
      BY <3>1 DEF Active
  <2> QED
    BY <2>1, <2>2
<1> QED
  BY <1>2, <1>4, <1>5 DEF Undisturbed

(* Nothing is passed that is not committed, and the operation in hand is   *)
(* the next one.                                                           *)
LEMMA SteadyStep ==
    ASSUME TableInv, HandInv, SteadyInv, [Next]_vars, ~PeriodicFlushFails
    PROVE  SteadyInv'
<1>0. done \in Nat /\ Len(Ops) \in Nat /\ tries \in [1..Len(Ops) -> Nat]
  BY OpsAssumption DEF TableInv
<1>1. CASE Commit
  <2>1. done' = done + 1 /\ committed' = done + 1 /\ tries' = tries
    BY <1>1 DEF Commit
  <2> QED
    BY <1>0, <2>1 DEF SteadyInv
<1>2. CASE StartRun \/ StartReorg
  <2>1. Begin /\ UNCHANGED <<done, committed>>
    BY <1>2 DEF StartRun, StartReorg
  <2>2. \A m \in (done + 2)..Len(Ops) : tries'[m] = tries[m]
    BY <1>0, <2>1 DEF Begin
  <2> QED
    BY <2>1, <2>2 DEF SteadyInv
<1>3. CASE ~Commit /\ ~StartRun /\ ~StartReorg
  <2>1. UNCHANGED <<committed, tries>> /\ done' \in {done, committed}
    BY <1>3 DEF Next, Consume, vars, MarkHub, MarkDone, RecordAndMerge, RecordDone, InvalidateRow,
       InvalidateDone, Wait, CorrectRow, ScanActive, ReplaceCache, Crash, GivesUp, CorrectionFails
  <2> QED
    BY <2>1 DEF SteadyInv
<1> QED
  BY <1>1, <1>2, <1>3

(* Hubs come with the batches. *)
LEMMA HubStep ==
    ASSUME TableInv, HandInv, SteadyInv, HubInv, [Next]_vars, ~PeriodicFlushFails
    PROVE  HubInv'
<1>0. done \in Nat /\ pc \in [Actor -> Step] /\ Len(Ops) \in Nat
  BY OpsAssumption DEF TableInv
<1> USE <1>0, Actors, GotoFacts DEF Step
<1>1. CASE Commit
  <2>1. /\ hub' = hub /\ done' = done + 1 /\ done < Len(Ops) /\ pc["consumer"] = "commit"
        /\ pc'["consumer"] = "idle"
    BY <1>1 DEF Commit, HandInv
  <2>2. \A m \in 1..(done + 1) : m \in 1..done \/ m = done + 1
    OBVIOUS
  <2>3. \A m \in 1..done : m \in 1..(done + 1)
    OBVIOUS
  <2>4. done + 1 \in 1..(done + 1)
    OBVIOUS
  <2>5. Batch <=> IsRun(Ops[done + 1])
    BY <2>1 DEF Batch, Op
  <2> QED
    BY <2>1, <2>2, <2>3, <2>4, <2>5 DEF HubInv, Op
<1>2. CASE ~Commit
  <2>1. done' = done
    BY <1>2, LogFacts DEF SteadyInv
  <2>2. Batch' = Batch /\ Op' = Op
    BY <2>1 DEF Batch, Op
  <2>3. UnderWay => UnderWay'
    <3>1. done < Len(Ops) => done + 1 \in 1..Len(Ops)
      OBVIOUS
    <3> QED
      BY <2>1, <3>1, LogFacts DEF UnderWay
  <2>4. CASE MarkHub
    <3>1. PICK a \in Op.hubs : hub' = hub \cup {a}
      BY <2>4 DEF MarkHub, Op
    <3>2. Batch /\ UnderWay /\ pc' = pc
      BY <2>4 DEF MarkHub, HandInv, UnderWay
    <3> QED
      BY <2>1, <2>2, <2>3, <3>1, <3>2 DEF HubInv
  <2>5. CASE MarkDone
    <3>1. hub' = hub /\ Op.hubs \subseteq hub
      BY <2>5 DEF MarkDone, Op
    <3> QED
      BY <2>1, <2>2, <2>3, <3>1 DEF HubInv
  <2>6. CASE ~MarkHub /\ ~MarkDone
    <3>1. hub' = hub
      BY <1>2, <2>6 DEF Next, Consume, vars, StartRun, RecordAndMerge, RecordDone, StartReorg,
         InvalidateRow, InvalidateDone, Wait, CorrectRow, ScanActive, ReplaceCache, Crash, GivesUp,
         CorrectionFails
    <3>2. Batch /\ pc'["consumer"] \in {"record", "scan", "write", "commit"} =>
            pc["consumer"] \in {"record", "scan", "write", "commit"}
      <4>1. CASE StartRun \/ StartReorg \/ Wait \/ CorrectRow \/ UNCHANGED vars
        BY <4>1 DEF StartRun, StartReorg, Wait, CorrectRow, vars
      <4>2. CASE RecordAndMerge \/ RecordDone
        BY <4>2 DEF RecordAndMerge, RecordDone
      <4>3. CASE InvalidateRow \/ InvalidateDone
        BY <4>3, KindsDiffer DEF InvalidateRow, InvalidateDone, HandInv
      <4>4. ASSUME NEW x \in Actor, ScanActive(x) \/ ReplaceCache(x)
            PROVE  pc'["consumer"] \in {"record", "scan", "write", "commit"} =>
                     pc["consumer"] \in {"record", "scan", "write", "commit"}
        BY <4>4 DEF ScanActive, ReplaceCache
      <4>5. CASE Crash \/ CorrectionFails
        BY <4>5 DEF Crash, GivesUp, CorrectionFails
      <4> QED
        BY <1>2, <2>6, <4>1, <4>2, <4>3, <4>4, <4>5 DEF Next, Consume
    <3> QED
      BY <2>1, <2>2, <2>3, <3>1, <3>2 DEF HubInv
  <2> QED
    BY <2>4, <2>5, <2>6
<1> QED
  BY <1>1, <1>2

LEMMA PassStep == IInv /\ PassInv /\ [Next]_vars => PassInv'
<1> SUFFICES ASSUME IInv, PassInv, [Next]_vars PROVE PassInv'
  OBVIOUS
<1>1. TableInv /\ HandInv /\ PurgeInv /\ RecordInv /\ corrections \in Nat
  BY DEF IInv, PassInv
<1>2. corrections' = corrections \/ (CorrectRow /\ corrections' = corrections + 1)
  BY DEF Next, Consume, vars, StartRun, MarkHub, MarkDone, RecordAndMerge, RecordDone, StartReorg,
     InvalidateRow, InvalidateDone, Commit, Wait, CorrectRow, ScanActive, ReplaceCache, Crash,
     PeriodicFlushFails, GivesUp, CorrectionFails
<1>3. CASE "dropped" \in hit'
  BY <1>1, <1>2, <1>3 DEF PassInv
<1>4. CASE "dropped" \notin hit'
  <2>1. SteadyInv /\ HubInv /\ ~PeriodicFlushFails
    BY <1>4, HitGrows DEF PassInv, PeriodicFlushFails
  <2>2. SteadyInv' /\ HubInv'
    BY <1>1, <2>1, SteadyStep, HubStep
  <2>3. ASSUME corrections' = 0 PROVE \E K, N : Placed(K, N)'
    <3>1. corrections = 0 /\ ~CorrectRow
      BY <1>1, <1>2, <2>3 DEF CorrectRow
    <3>2. PICK K, N : Placed(K, N)
      BY <1>4, <3>1, HitGrows DEF PassInv
    <3>3. CASE RecordAndMerge
      BY <1>1, <2>1, <3>2, <3>3, PlacedRecord
    <3>4. CASE Commit
      BY <1>1, <2>1, <3>2, <3>4, PlacedCommit
    <3>5. CASE ~RecordAndMerge /\ ~Commit
      BY <1>1, <2>1, <3>1, <3>2, <3>5, UndisturbedStep, PlacedStays
    <3> QED
      BY <3>3, <3>4, <3>5
  <2> QED
    BY <1>1, <1>2, <2>2, <2>3 DEF PassInv
<1> QED
  BY <1>3, <1>4

(* Between operations the active rows track the log. *)
LEMMA RowsTrack ==
    ASSUME TableInv, Quiet, NEW K, NEW N, Placed(K, N)
    PROVE  Tracks(ActiveCands, K, N)
<1> DEFINE t == ActiveCands
<1>1. done \in Nat /\ Len(Ops) \in Nat /\ ~UnderWay
  <2>1. done \in Nat /\ Len(Ops) \in Nat
    BY OpsAssumption DEF TableInv
  <2>2. done < Len(Ops) => done + 1 \in (done + 1)..Len(Ops)
    BY <2>1
  <2> QED
    BY <2>1, <2>2 DEF UnderWay, Quiet, Again
<1>2. /\ \A i \in DOMAIN evidence : i \in Nat /\ evidence[i].cand \in Cand
  <2>1. DOMAIN evidence = 1..Len(evidence) /\ \A i \in DOMAIN evidence : evidence[i] \in Evidence
    BY DEF TableInv
  <2>2. Len(evidence) \in Nat
    BY DEF TableInv
  <2> QED
    BY <2>1, <2>2 DEF Evidence
<1>3. DOMAIN t = Active /\ \A i \in Active : t[i] = evidence[i].cand
  BY <1>2 DEF ActiveCands, ActiveOf, Active
<1> HIDE DEF t
<1>4. ASSUME NEW i \in DOMAIN evidence
      PROVE  /\ K[i] \in 1..done /\ K[i] \in 1..Len(Ops) /\ IsRun(Ops[K[i]])
             /\ N[i] \in 1..Len(Ops[K[i]].cands)
             /\ evidence[i].cand = Ops[K[i]].cands[N[i]]
             /\ i \in Active <=> Stands(K[i], evidence[i].cand)
  <2>1. /\ K[i] \in 1..Len(Ops) /\ IsRun(Ops[K[i]]) /\ N[i] \in 1..Len(Ops[K[i]].cands)
        /\ evidence[i].cand = Ops[K[i]].cands[N[i]] /\ Admitted(K[i], evidence[i].cand)
        /\ K[i] <= done
    BY <1>1 DEF Placed, FromPlace
  <2>2. i \in Active <=> ~Revoked(done, K[i], evidence[i].cand)
    BY <1>1 DEF Placed, TakenBack
  <2> QED
    BY <1>1, <2>1, <2>2, StandsFacts
<1>5. \A i \in Active : i \in DOMAIN evidence
  BY DEF Active
<1>6. \A i \in Active : Stood(K[i], N[i]) /\ t[i] = Ops[K[i]].cands[N[i]] /\ i \in Nat
  BY <1>2, <1>3, <1>4, <1>5 DEF Stood
<1>7. \A i, j \in Active : i < j => K[i] <= K[j]
  BY <1>5 DEF Placed, InOrder
<1>8. ASSUME NEW i \in Active, NEW n \in Nat, n < N[i], Stood(K[i], n)
      PROVE  \E j \in Active : j < i /\ K[j] = K[i] /\ N[j] = n
  <2>1. n \in Nat \ {0} /\ Stands(K[i], Ops[K[i]].cands[n])
    BY <1>8 DEF Stood
  <2>2. PICK j \in DOMAIN evidence : j < i /\ K[j] = K[i] /\ N[j] = n
    BY <1>5, <1>8, <2>1, StandsFacts DEF Placed, FromStart
  <2>3. j \in Active
    BY <1>4, <2>1, <2>2
  <2> QED
    BY <2>2, <2>3
<1>9. ASSUME NEW k \in Nat, NEW n \in Nat, Stood(k, n)
      PROVE  \E i \in Active : K[i] = k /\ N[i] = n
  <2>1. /\ k \in 1..Len(Ops) /\ IsRun(Ops[k]) /\ n \in 1..Len(Ops[k].cands)
        /\ Stands(k, Ops[k].cands[n]) /\ Offered(k, n)
    BY <1>1, <1>9 DEF Stood, Offered
  <2>2. PICK i \in DOMAIN evidence : K[i] = k /\ N[i] = n
    BY <2>1, StandsFacts DEF Placed, AllThere
  <2>3. i \in Active
    BY <1>4, <2>1, <2>2
  <2> QED
    BY <2>2, <2>3
<1> QED
  BY <1>3, <1>6, <1>7, <1>8, <1>9 DEF Tracks, t

(* Redelivery is invisible: whatever crashes, however often batches and    *)
(* notices are repeated, the clusters and their ids are those of one       *)
(* crash-free pass over the committed operations, unless a periodic flush  *)
(* failed, a rebuild was skipped or overtaken or an operator corrected     *)
(* something.                                                              *)
THEOREM RedeliveryDoesNotShow == Spec => []RedeliveryIsInvisible
<1>1. Init => PassInv
  <2> SUFFICES ASSUME Init PROVE PassInv
    OBVIOUS
  <2>1. /\ corrections = 0 /\ hub = {} /\ done = 0 /\ committed = 0 /\ evidence = <<>>
        /\ pc["consumer"] = "idle" /\ DOMAIN evidence = {}
        /\ tries = [k \in 1..Len(Ops) |-> 0]
    BY Actors DEF Init
  <2>2. SteadyInv
    BY <2>1, OpsAssumption DEF SteadyInv
  <2>3. HubInv
    BY <2>1, OpsAssumption DEF HubInv
  <2>4. \A k \in 1..Len(Ops) : \A n : ~Offered(k, n)
    BY <2>1, OpsAssumption DEF Offered
  <2>5. Placed(<<>>, <<>>)
    BY <2>1, <2>4 DEF Placed, FromPlace, InOrder, FromStart, AllThere, TakenBack
  <2> QED
    BY <2>1, <2>2, <2>3, <2>5 DEF PassInv
<1>2. IInv /\ PassInv => RedeliveryIsInvisible
  <2> SUFFICES ASSUME IInv, PassInv, Quiet, hit = {}, corrections = 0
               PROVE  cache = Replay(OncePassed)
    BY DEF RedeliveryIsInvisible
  <2>1. cache = Replay(ActiveCands)
    <3>1. ~Pending("consumer") /\ ~Pending("operator")
      BY QuietFacts, Actors DEF IInv, Pending, Due, Quiet
    <3> QED
      BY <3>1, Actors DEF IInv, FreshInv
  <2>2. done \in 0..Len(Ops) /\ done \in Nat /\ TableInv
    BY OpsAssumption DEF IInv, TableInv
  <2>3. PICK K, N : Tracks(ActiveCands, K, N)
    BY <2>2, RowsTrack DEF PassInv
  <2>4. PICK L, M : Tracks(OncePassed, L, M)
    BY <2>2, PassTracks
  <2> QED
    BY <2>1, <2>2, <2>3, <2>4, TrackedReplay
<1> QED
  BY <1>1, <1>2, PassStep, Invariance, PTL DEF Spec
=============================================================================
