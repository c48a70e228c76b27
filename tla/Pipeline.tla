------------------------------- MODULE Pipeline -------------------------------
(***************************************************************************)
(* pipeline.Run, one batch of one chain at a time: the ingestor, the       *)
(* preprocessor, the six heuristic engines and the recording of what they  *)
(* emit (the cluster cache is MergeStore's).  Batches are the blocks of a  *)
(* chain with forks, as the indexer publishes them; a batch is run again   *)
(* after a crash, given up when the periodic flush fails, and its evidence *)
(* invalidated when a notice orphans its block.  No two statements of a    *)
(* run share a transaction, except the inserts of one Ingest.              *)
(***************************************************************************)
EXTENDS Integers, Sequences, FiniteSets, SequencesExt, FiniteSetsExt

CONSTANTS
    Address,              \* addresses, as numbers: their order is that of the strings
    None,                 \* not an address, a height or a block
    Block,                \* block hashes
    Parent,               \* [Block -> Block or None]
    Height,               \* [Block -> Nat]
    Deltas,               \* [Block -> sequence of deltas], in the order published
    CutAt,                \* [Block -> set of Nat]: where the periodic flush may cut a block
    Enabled,              \* the heuristics chain_heuristic enables for the chain
    Confidence,           \* [heuristic -> 0..100]: their confidence, in hundredths
    HubThreshold,         \* chain.config, hub_threshold in hundredths
    HubDegreeSaturation,  \* hub_degree_saturation
    DustThreshold,        \* dust_threshold
    EqualOutputMin, CollabInputMin, CollabOutputMin,
    RecurrenceMin,        \* sweep-seed params
    MinInteractions,      \* behavioral params
    Seeds,                \* [Address -> 0..100 or None]: sweep targets, with their confidence
    LateLabels,           \* addresses an operator may label as hubs meanwhile
    MaxOps,               \* bound: blocks and notices
    MaxFaults             \* bound: crashes and failed flushes

Engines == <<"common-input", "sweep-seed", "change", "funding", "deployer", "behavioral">>

ASSUME ChainAssumption ==
    /\ Address \subseteq Nat /\ None \notin Address \cup Nat \cup Block
    /\ Parent \in [Block -> Block \cup {None}] /\ Height \in [Block -> Nat]
    /\ \A b \in Block : /\ Len(Deltas[b]) > 0
                        /\ Parent[b] # None => Height[b] = Height[Parent[b]] + 1
                        /\ Deltas[b] \in Seq(ToSet(Deltas[b]))
                        /\ CutAt[b] \subseteq 1..Len(Deltas[b])
                        /\ \A i \in DOMAIN Deltas[b] : Deltas[b][i].addr \in Address

ASSUME ParameterAssumption ==
    /\ Enabled \subseteq ToSet(Engines) /\ Confidence \in [ToSet(Engines) -> 0..100]
    /\ HubThreshold \in 1..100 /\ HubDegreeSaturation \in Nat /\ DustThreshold \in Nat
    /\ EqualOutputMin \in Nat \ {0} /\ LateLabels \subseteq Address
    /\ MaxOps \in Nat /\ MaxFaults \in Nat

VARIABLES
    rows,      \* table balance_delta
    seen,      \* table address: first_seen_height, None when there is no row
    last,      \* table address: last_seen_height
    hub,       \* table address: is_hub
    dust,      \* table address: dust_flag
    excluded,  \* table excluded_tx
    label,     \* table label: addresses with an active hub category
    evidence,  \* table merge_evidence, in op_id order
    chain,     \* the published blocks that no notice has orphaned
    dropped,   \* blocks of which a batch was given up
    op,        \* the block in hand
    pos, to,   \* deltas of it that are committed, and the end of the batch
    pc,        \* stage of Run
    todo,      \* addresses left in the stage's loop
    eng,       \* engines that have run
    cands,     \* candidates generated and not recorded
    first,     \* history: where the first attempt at this batch to get that far ended, 0
               \* when there is none, and what it generated
    recut,     \* history: blocks of which a batch was run again with another end
    split,     \* history: the transactions, with their blocks, within which a batch ended
    ops, faults

store == <<rows, seen, last, hub, dust, excluded>>
vars == <<rows, seen, last, hub, dust, excluded, label, evidence, chain, dropped,
          op, pos, to, pc, todo, eng, cands, first, recut, split, ops, faults>>

-----------------------------------------------------------------------------
(* What is derived from deltas: GroupByTx, SpentAddresses, ReceivedEntries *)
(* and the lists without repetitions that Run and the engines build.       *)

(* The elements of s at the places in I, in order. *)
Pick(s, I) ==
    LET pick[n \in 0..Len(s)] ==
            IF n = 0 THEN <<>>
            ELSE IF n \in I THEN Append(pick[n - 1], s[n]) ELSE pick[n - 1]
    IN  pick[Len(s)]

FirstOccurrences(s) == Pick(s, {i \in DOMAIN s : \A j \in 1..(i - 1) : s[j] # s[i]})

Addresses(ds) == FirstOccurrences([i \in DOMAIN ds |-> ds[i].addr])

GroupByTx(ds) ==
    LET txs == FirstOccurrences([i \in DOMAIN ds |-> ds[i].tx])
    IN  [k \in DOMAIN txs |-> Pick(ds, {i \in DOMAIN ds : ds[i].tx = txs[k]})]

SpentAddresses(td) == Addresses(Pick(td, {i \in DOMAIN td : td[i].amt < 0}))

ReceivedEntries(td) == Pick(td, {i \in DOMAIN td : td[i].amt > 0})

(* F of every element of s, in order. *)
Each(s, F(_)) == FlattenSeq([i \in DOMAIN s |-> F(s[i])])

Batch == SubSeq(Deltas[op], pos + 1, to)

-----------------------------------------------------------------------------
(* The queries of the preprocessor.                                        *)

(* For the mutant of LooksLikeHub. *)
DegreeInBatch(a) ==
    Cardinality({Batch[j].addr : j \in {k \in DOMAIN Batch :
        \E i \in DOMAIN Batch : Batch[i].addr = a /\ Batch[i].tx = Batch[k].tx}} \ {a})

(* counterpartyDegree: who shares a transaction with a, in all of history. *)
Degree(a) ==
    LET txs == {r.tx : r \in {x \in rows : x.addr = a}}
    IN  Cardinality({r.addr : r \in {x \in rows : x.tx \in txs}} \ {a})

(* hubScoreFromDegree against the threshold; a score is capped at 1, the   *)
(* largest threshold.                                                      *)
Popular(a) ==
    /\ HubDegreeSaturation > 0
    /\ 100 * Degree(a) >= HubThreshold * HubDegreeSaturation

maxEqualAmountGroup(outs) ==
    Max({0} \cup {Cardinality({i \in DOMAIN outs : outs[i].amt = outs[j].amt}) : j \in DOMAIN outs})

(* DetectCollaborativeTx, for one transaction. *)
Collaborative(td) ==
    /\ maxEqualAmountGroup(ReceivedEntries(td)) >= EqualOutputMin
    /\ Len(SpentAddresses(td)) >= CollabInputMin
    /\ Len(ReceivedEntries(td)) >= CollabOutputMin

DustInflows(ds) == {ds[i].addr : i \in {k \in DOMAIN ds : ds[k].amt \in 1..DustThreshold}}

AllTainted(td) ==
    /\ SpentAddresses(td) # <<>>
    /\ ToSet(SpentAddresses(td)) \subseteq dust

-----------------------------------------------------------------------------
(* The engines.  td is one transaction's deltas, in order.                 *)

Candidate(key, a, b, td, conf) ==
    [key |-> key, a |-> a, b |-> b, tx |-> td[1].tx, block |-> op,
     height |-> Height[op], conf |-> conf]

(* The inputs that are not hubs. *)
Plain(as) == Pick(as, {i \in DOMAIN as : as[i] \notin hub})

(* Mutant of CommonInput: excluded transactions are not skipped. *)
CommonInputUnchecked(td) ==
    LET ins == Plain(SpentAddresses(td))
    IN  IF Len(ins) < 2 THEN <<>>
        ELSE [i \in 1..(Len(ins) - 1) |->
                Candidate("common-input", ins[1], ins[i + 1], td, Confidence["common-input"])]

CommonInput(td) ==
    LET ins == Plain(SpentAddresses(td))
    IN  IF td[1].tx \in excluded \/ Len(ins) < 2 THEN <<>>
        ELSE [i \in 1..(Len(ins) - 1) |->
                Candidate("common-input", ins[1], ins[i + 1], td, Confidence["common-input"])]

SpentInTx(td, src) ==
    FoldLeft(LAMBDA s, d : IF d.addr = src /\ d.amt < 0 THEN s - d.amt ELSE s, 0, td)

cumulativeReceived(a) ==
    MapThenSumSet(LAMBDA r : r.amt, {r \in rows : r.addr = a /\ r.amt > 0})

distinctSourcesToTarget(dst) ==
    LET txs == {r.tx : r \in {x \in rows : x.addr = dst /\ x.amt > 0}}
    IN  Cardinality({s.addr : s \in {x \in rows : x.tx \in txs /\ x.amt < 0}} \ {dst})

(* completeness >= CompletenessMin: the quotient has 64 bits of mantissa,  *)
(* the float64 0.9 it is compared with is a little more than nine tenths,  *)
(* so that exactly nine tenths is less.                                    *)
CompletenessOK(spent, received) == 10 * spent > 9 * received

looksLikeSweep(td, src, dst) ==
    /\ SpentInTx(td, src) > 0
    /\ cumulativeReceived(src) > 0
    /\ CompletenessOK(SpentInTx(td, src), cumulativeReceived(src))
    /\ distinctSourcesToTarget(dst) >= RecurrenceMin

Sweep(td) ==
    LET From(src, dst) ==
            IF src # dst /\ looksLikeSweep(td, src, dst)
            THEN <<Candidate("sweep-seed", dst, src, td,
                             Min({Confidence["sweep-seed"], Seeds[dst]}))>>
            ELSE <<>>
        To(out) ==
            IF Seeds[out.addr] = None THEN <<>>
            ELSE Each(SpentAddresses(td), LAMBDA src : From(src, out.addr))
    IN  Each(ReceivedEntries(td), To)

(* isNewAddress; also a clue of scoreChangeCandidate. *)
isNewAddress(a) == seen[a] = Height[op]

isRoundAmount(amt) == amt % 1000 = 0

wasRespentAfter(a) == \E r \in rows : r.addr = a /\ r.amt < 0 /\ r.height > Height[op]

(* The clues that speak for out, and their weights in hundredths. *)
Clues(out) ==
    {c \in {"new", "not-round", "respent"} :
        CASE c = "new" -> isNewAddress(out.addr)
          [] c = "not-round" -> ~isRoundAmount(out.amt)
          [] c = "respent" -> wasRespentAfter(out.addr)}

Weight == [c \in {"new", "not-round", "respent"} |->
              CASE c = "new" -> 50 [] c = "not-round" -> 20 [] c = "respent" -> 30]

scoreChangeCandidate(out) ==
    LET Score(c) == IF c \in Clues(out) THEN Weight[c] ELSE 0
    IN  Score("new") + Score("not-round") + Score("respent")

ChangeMin == 30

touchesHub(td) ==
    (ToSet(SpentAddresses(td)) \cup {o.addr : o \in ToSet(ReceivedEntries(td))}) \cap hub # {}

Change(td) ==
    LET ins == SpentAddresses(td)
        outs == ReceivedEntries(td)
        best == CHOOSE i \in DOMAIN outs : \A j \in DOMAIN outs :
                    LET si == scoreChangeCandidate(outs[i])
                        sj == scoreChangeCandidate(outs[j])
                    IN  si > sj \/ (si = sj /\ i <= j)
    IN  IF \/ td[1].tx \in excluded \/ ins = <<>> \/ outs = <<>>
           \/ touchesHub(td) \/ scoreChangeCandidate(outs[best]) < ChangeMin
        THEN <<>>
        ELSE <<Candidate("change", ins[1], outs[best].addr, td,
                         Min({Confidence["change"], scoreChangeCandidate(outs[best])}))>>

(* The receiving deltas of which the transaction's first spender is taken  *)
(* for the source.                                                         *)
FirstSpenderTo(td, key, Wanted(_)) ==
    LET ins == SpentAddresses(td)
        all == ReceivedEntries(td)
        outs == Pick(all, {i \in DOMAIN all : all[i].addr # ins[1] /\ Wanted(all[i])})
    IN  IF ins = <<>> \/ ins[1] \in hub THEN <<>>
        ELSE [i \in DOMAIN outs |-> Candidate(key, ins[1], outs[i].addr, td, Confidence[key])]

Funding(td) ==
    FirstSpenderTo(td, "funding", LAMBDA d : ~d.create /\ isNewAddress(d.addr))

Deployer(td) == FirstSpenderTo(td, "deployer", LAMBDA d : d.create)

SharedTransactionCount(a, b) ==
    Cardinality({r.tx : r \in {x \in rows : x.addr = a}} \cap
                {r.tx : r \in {x \in rows : x.addr = b}})

(* Every pair of addresses of a transaction, the smaller first. *)
PairsOf(td) ==
    LET as == Addresses(td)
        With(i) == [j \in 1..(Len(as) - i) |->
                       Candidate("behavioral", Min({as[i], as[i + j]}), Max({as[i], as[i + j]}),
                                 td, Confidence["behavioral"])]
    IN  FlattenSeq([i \in DOMAIN as |-> With(i)])

(* A pair is looked at in the first transaction of the batch that has it. *)
Behavioral(ds) ==
    LET all == Each(GroupByTx(ds), PairsOf)
    IN  Pick(all, {i \in DOMAIN all :
            /\ \A j \in 1..(i - 1) : <<all[j].a, all[j].b>> # <<all[i].a, all[i].b>>
            /\ SharedTransactionCount(all[i].a, all[i].b) >= MinInteractions
            /\ {all[i].a, all[i].b} \cap hub = {}})

Generate(key, ds) ==
    IF key \notin Enabled THEN <<>>
    ELSE CASE key = "common-input" -> Each(GroupByTx(ds), CommonInput)
           [] key = "sweep-seed" -> Each(GroupByTx(ds), Sweep)
           [] key = "change" -> Each(GroupByTx(ds), Change)
           [] key = "funding" -> Each(GroupByTx(ds), Funding)
           [] key = "deployer" -> Each(GroupByTx(ds), Deployer)
           [] key = "behavioral" -> Behavioral(ds)

-----------------------------------------------------------------------------
NoAttempt == [to |-> 0, cands |-> <<>>]

Init ==
    /\ rows = {} /\ excluded = {} /\ hub = {} /\ dust = {} /\ label = {}
    /\ seen = [a \in Address |-> None]
    /\ last = [a \in Address |-> 0]
    /\ evidence = <<>> /\ chain = <<>> /\ dropped = {}
    /\ op = None /\ pos = 0 /\ to = 0
    /\ pc = "idle" /\ todo = <<>> /\ eng = 0 /\ cands = <<>> /\ first = NoAttempt
    /\ recut = {} /\ split = {}
    /\ ops = 0 /\ faults = 0

(* Mutants of Order: heuristics before the preprocessing; transactions     *)
(* excluded before the batch's own dust is flagged.                        *)
OrderHeuristicsFirst ==
    <<"insert", "upsert", "generate", "hubs", "collaborative", "flag", "exclude", "record">>

OrderExcludeFirst ==
    <<"insert", "upsert", "hubs", "collaborative", "exclude", "flag", "generate", "record">>

(* The stages of Run: Ingest ([0]: insert, upsert), preprocessing ([A]:    *)
(* MarkHubs, MarkCollaborativeTx and the two loops of MarkDust), the       *)
(* engines ([B]) and RecordAndMergeBatch ([C]).                            *)
Order ==
    <<"insert", "upsert", "hubs", "collaborative", "flag", "exclude", "generate", "record">>

(* Leave the stage in hand for the next one. *)
Advance ==
    LET next == Order[1 + CHOOSE i \in DOMAIN Order : Order[i] = pc] IN
    /\ pc' = next
    /\ todo' = IF next = "hubs" THEN Addresses(Batch) ELSE <<>>

inHand == <<op, pos, to>>
run == <<pc, todo, eng, cands, first>>
world == <<label, chain, dropped, recut, split, ops, faults>>

(* The transactions of a block that go on after its first e deltas. *)
Straddling(b, e) ==
    {Deltas[b][i].tx : i \in 1..e} \cap {Deltas[b][i].tx : i \in (e + 1)..Len(Deltas[b])}

(* A batch is formed: a new block's deltas, or more of the block in hand,  *)
(* up to the block's end or to where the ticker drains the batcher.        *)
StartBatch(b, from) ==
    /\ op' = b /\ pos' = from
    /\ to' \in {e \in CutAt[b] \cup {Len(Deltas[b])} : e > from}
    /\ split' = split \cup ({b} \X Straddling(b, to'))
    /\ pc' = "insert" /\ eng' = 0 /\ cands' = <<>>
    /\ UNCHANGED <<store, evidence, label, chain, dropped, todo, first, faults>>

Tip == IF chain = <<>> THEN None ELSE Last(chain)

NextBlock ==
    /\ pc = "idle" /\ op = None /\ ops < MaxOps
    /\ \E b \in Block : Parent[b] = Tip /\ StartBatch(b, 0)
    /\ ops' = ops + 1
    /\ UNCHANGED recut

(* The rest of a block, or again what a crash interrupted. *)
NextBatch ==
    /\ pc = "idle" /\ op # None
    /\ StartBatch(op, pos)
    /\ recut' = IF first.to \notin {0, to'} THEN recut \cup {op} ELSE recut
    /\ UNCHANGED ops

Row(d) == [tx |-> d.tx, idx |-> d.idx, addr |-> d.addr, amt |-> d.amt, asset |-> d.asset,
           height |-> Height[op], block |-> op]

SameKey(r, d) == r.tx = d.tx /\ r.idx = d.idx

(* ON CONFLICT (txid, delta_index) DO NOTHING: the deltas of which there   *)
(* is no row yet, an earlier one of the batch included.                    *)
NoConflict(ds) ==
    {i \in DOMAIN ds : /\ \A r \in rows : ~SameKey(r, ds[i])
                      /\ \A j \in 1..(i - 1) : ~SameKey(ds[j], ds[i])}

(* Mutant of Ingest: only addresses of rows that were not there are upserted. *)
IngestNewOnly ==
    /\ pc = "insert"
    /\ rows' = rows \cup {Row(Batch[i]) : i \in NoConflict(Batch)}
    /\ pc' = "upsert" /\ todo' = Addresses(Pick(Batch, NoConflict(Batch)))
    /\ UNCHANGED <<seen, last, hub, dust, excluded, evidence, inHand, eng, cands, first, world>>

(* Ingest: the inserts, in one batch the database commits as a whole; then *)
(* the addresses of every delta, inserted or not.                          *)
Ingest ==
    /\ pc = "insert"
    /\ rows' = rows \cup {Row(Batch[i]) : i \in NoConflict(Batch)}
    /\ pc' = "upsert" /\ todo' = Addresses(Batch)
    /\ UNCHANGED <<seen, last, hub, dust, excluded, evidence, inHand, eng, cands, first, world>>

(* Mutant of Upsert: the conflict clause also sets first_seen_height. *)
UpsertOverwriting ==
    /\ pc = "upsert"
    /\ \E i \in DOMAIN todo :
          /\ seen' = [seen EXCEPT ![todo[i]] = Height[op]]
          /\ last' = [last EXCEPT ![todo[i]] = Max({@, Height[op]})]
          /\ todo' = RemoveAt(todo, i)
    /\ UNCHANGED <<rows, hub, dust, excluded, evidence, inHand, pc, eng, cands, first, world>>

(* Upsert of one address, in the random order of Go's map iteration; the   *)
(* height is that of the batch's only block.                               *)
Upsert ==
    /\ pc = "upsert"
    /\ \E i \in DOMAIN todo :
          /\ seen' = [seen EXCEPT ![todo[i]] = IF @ = None THEN Height[op] ELSE @]
          /\ last' = [last EXCEPT ![todo[i]] = Max({@, Height[op]})]
          /\ todo' = RemoveAt(todo, i)
    /\ UNCHANGED <<rows, hub, dust, excluded, evidence, inHand, pc, eng, cands, first, world>>

(* Mutant of LooksLikeHub: only the batch in hand is looked at. *)
LooksLikeHubInBatch(a) ==
    a \in label \/ 100 * DegreeInBatch(a) >= HubThreshold * HubDegreeSaturation

(* A label decides, else the degree. *)
LooksLikeHub(a) == a \in label \/ Popular(a)

(* One address of MarkHubs; SetHub finds no row of an address that is not  *)
(* registered.                                                             *)
MarkHub ==
    /\ pc = "hubs" /\ todo # <<>>
    /\ LET a == Head(todo) IN
          hub' = IF LooksLikeHub(a) /\ seen[a] # None THEN hub \cup {a} ELSE hub
    /\ todo' = Tail(todo)
    /\ UNCHANGED <<rows, seen, last, dust, excluded, evidence, inHand, pc, eng, cands, first, world>>

LoopDone ==
    /\ pc \in {"upsert", "hubs"} /\ todo = <<>>
    /\ Advance
    /\ UNCHANGED <<store, evidence, inHand, eng, cands, first, world>>

(* Exclude, for one transaction of a loop that excludes those for which    *)
(* Hit holds: each is a statement of its own, in the loop's order.         *)
Exclude(Hit(_)) ==
    LET txs == GroupByTx(Batch) IN
    \E i \in DOMAIN txs :
        /\ Hit(txs[i])
        /\ \A j \in 1..(i - 1) : Hit(txs[j]) => txs[j][1].tx \in excluded
        /\ excluded' = excluded \cup {txs[i][1].tx}

(* One statement of MarkCollaborativeTx or of the second loop of MarkDust. *)
ExcludeOne ==
    /\ \/ pc = "collaborative" /\ Exclude(Collaborative)
       \/ pc = "exclude" /\ Exclude(AllTainted)
    /\ UNCHANGED <<rows, seen, last, hub, dust, evidence, inHand, run, world>>

(* One statement of the first loop of MarkDust; SetDustFlag finds no row   *)
(* of an address that is not registered.                                   *)
FlagOne ==
    /\ pc = "flag"
    /\ \E i \in DOMAIN Batch :
          /\ Batch[i].addr \in DustInflows(Batch) /\ seen[Batch[i].addr] # None
          /\ \A a \in DustInflows(SubSeq(Batch, 1, i - 1)) : seen[a] # None => a \in dust
          /\ dust' = dust \cup {Batch[i].addr}
    /\ UNCHANGED <<rows, seen, last, hub, excluded, evidence, inHand, run, world>>

(* The loops to their ends. *)
MarkCollaborativeTx ==
    /\ pc = "collaborative"
    /\ excluded' = excluded \cup {td[1].tx : td \in {x \in ToSet(GroupByTx(Batch)) : Collaborative(x)}}
    /\ Advance
    /\ UNCHANGED <<rows, seen, last, hub, dust, evidence, inHand, eng, cands, first, world>>

FlagDust ==
    /\ pc = "flag"
    /\ dust' = dust \cup {a \in DustInflows(Batch) : seen[a] # None}
    /\ Advance
    /\ UNCHANGED <<rows, seen, last, hub, excluded, evidence, inHand, eng, cands, first, world>>

ExcludeDust ==
    /\ pc = "exclude"
    /\ excluded' = excluded \cup {td[1].tx : td \in {x \in ToSet(GroupByTx(Batch)) : AllTainted(x)}}
    /\ Advance
    /\ UNCHANGED <<rows, seen, last, hub, dust, evidence, inHand, eng, cands, first, world>>

(* One engine of the plugin loop. *)
RunEngine ==
    /\ pc = "generate" /\ eng < Len(Engines)
    /\ eng' = eng + 1
    /\ cands' = cands \o Generate(Engines[eng'], Batch)
    /\ UNCHANGED <<store, evidence, inHand, pc, todo, first, world>>

EnginesDone ==
    /\ pc = "generate" /\ eng = Len(Engines)
    /\ Advance
    /\ first' = IF first.to = 0 THEN [to |-> to, cands |-> cands] ELSE first
    /\ UNCHANGED <<store, evidence, inHand, eng, cands, world>>

(* RecordAndMerge: a self-merge and a hub on either side are rejected. *)
RecordAndMerge ==
    /\ pc = "record" /\ cands # <<>>
    /\ LET c == Head(cands) IN
          evidence' = IF c.a = c.b \/ {c.a, c.b} \cap hub # {} THEN evidence
                      ELSE Append(evidence, [cand |-> c, status |-> "active"])
    /\ cands' = Tail(cands)
    /\ UNCHANGED <<store, inHand, pc, todo, eng, first, world>>

(* The batch is behind the consumer. *)
LeaveBatch ==
    /\ pc' = "idle" /\ todo' = <<>> /\ eng' = 0 /\ cands' = <<>> /\ first' = NoAttempt
    /\ to' = 0
    /\ IF to = Len(Deltas[op])
       THEN chain' = Append(chain, op) /\ op' = None /\ pos' = 0
       ELSE pos' = to /\ UNCHANGED <<chain, op>>
    /\ UNCHANGED <<store, evidence, label, recut, split, ops>>

CommitMessages ==
    /\ pc = "record" /\ cands = <<>>
    /\ LeaveBatch
    /\ UNCHANGED <<dropped, faults>>

(* Run fails under the periodic flush: the batcher is empty already and    *)
(* the loop goes on with the next messages.                                *)
PeriodicFlushFails ==
    /\ pc # "idle" /\ faults < MaxFaults
    /\ LeaveBatch
    /\ dropped' = dropped \cup {op}
    /\ faults' = faults + 1

(* The process dies, or Run fails anywhere else and it exits. *)
Crash ==
    /\ pc # "idle" /\ faults < MaxFaults
    /\ pc' = "idle" /\ todo' = <<>> /\ eng' = 0 /\ cands' = <<>> /\ to' = 0
    /\ faults' = faults + 1
    /\ UNCHANGED <<store, evidence, op, pos, first, recut, split, label, chain, dropped, ops>>

Invalidate(row) == [row EXCEPT !.status = "invalidated"]

(* OnReorg: the evidence of the blocks after the k-th is invalidated.      *)
OnReorg ==
    /\ pc = "idle" /\ op = None /\ ops < MaxOps
    /\ \E k \in 0..(Len(chain) - 1) :
          /\ evidence' = [i \in DOMAIN evidence |->
                IF evidence[i].cand.block \in ToSet(SubSeq(chain, k + 1, Len(chain)))
                THEN Invalidate(evidence[i]) ELSE evidence[i]]
          /\ chain' = SubSeq(chain, 1, k)
    /\ ops' = ops + 1
    /\ UNCHANGED <<store, inHand, run, recut, split, label, dropped, faults>>

(* An operator adds an active label of a hub category. *)
AddLabel ==
    /\ \E a \in LateLabels \ label : label' = label \cup {a}
    /\ UNCHANGED <<store, evidence, inHand, run, recut, split, chain, dropped, ops, faults>>

Next ==
    \/ NextBlock \/ NextBatch
    \/ Ingest \/ Upsert \/ MarkHub \/ LoopDone
    \/ ExcludeOne \/ FlagOne \/ MarkCollaborativeTx \/ FlagDust \/ ExcludeDust
    \/ RunEngine \/ EnginesDone \/ RecordAndMerge \/ CommitMessages
    \/ PeriodicFlushFails \/ Crash \/ OnReorg \/ AddLabel

Spec == Init /\ [][Next]_vars

-----------------------------------------------------------------------------
Active == {evidence[i].cand : i \in {k \in DOMAIN evidence : evidence[k].status = "active"}}

TxOf(b, t) == Pick(Deltas[b], {i \in DOMAIN Deltas[b] : Deltas[b][i].tx = t})

(* upsertAddresses: once its batch is over, whoever has a row in           *)
(* balance_delta is registered, and not as last seen before it, so that    *)
(* SetHub and SetDustFlag find a row; only a batch that was given up       *)
(* leaves addresses out.  A crash between the inserts and the upserts is   *)
(* made good although the inserts are then conflicts.                      *)
RegistryCoversRows ==
    \A r \in rows :
        \/ seen[r.addr] # None /\ last[r.addr] >= r.height
        \/ r.block = op \/ r.block \in dropped

(* [0] before [A] before [C]: no row of merge_evidence is ever added about *)
(* an address whose counterparties, in everything stored by then, the      *)
(* batch in hand included, make it a hub.                                  *)
PopularNeverMerged ==
    [][\A i \in DOMAIN evidence' \ DOMAIN evidence :
          ~Popular(evidence'[i].cand.a) /\ ~Popular(evidence'[i].cand.b)]_vars

(* IsExcluded: a transaction in excluded_tx is not the source of active    *)
(* common-input or change evidence.                                        *)
ExcludedTxHoldsNothing ==
    \A c \in Active : c.key \in {"common-input", "change"} => c.tx \notin excluded

(* ... whatever was flagged since and however often its batch was run,     *)
(* unless it was run again after a crash with more or less of the block,   *)
(* or a batch ended within the transaction: dust further on, or the rest   *)
(* of the transaction, may then exclude what has been recorded.            *)
ExcludedOnlyByCut ==
    \A c \in Active : c.key \in {"common-input", "change"} =>
        c.tx \notin excluded \/ c.block \in recut \/ <<c.block, c.tx>> \in split

(* [A] before [B] (AC-3): a transaction that is collaborative as it stands *)
(* in its block merges nobody, ...                                         *)
CollaborativeTxMergesNobody ==
    \A c \in Active :
        c.key \in {"common-input", "change"} => ~Collaborative(TxOf(c.block, c.tx))

(* ... unless a batch ended within it: then DetectCollaborativeTx has seen *)
(* it in parts only.                                                       *)
CollaborativeOnlyBySplit ==
    \A c \in Active : c.key \in {"common-input", "change"} =>
        ~Collaborative(TxOf(c.block, c.tx)) \/ <<c.block, c.tx>> \in split

(* isNewAddress: all funding evidence of a recipient, before and after any *)
(* reorg, is of the one height at which it was first registered.           *)
FundingAtOneHeight ==
    \A i \in DOMAIN evidence : LET c == evidence[i].cand IN
        c.key = "funding" => c.height = seen[c.b]

(* Run again after a crash, a batch yields the candidates it had yielded,  *)
(* in the same order: what the first attempt wrote (rows, hub and dust     *)
(* flags, exclusions) does not change what the second computes.  A label   *)
(* added in between may, and so may an attempt with another end.           *)
RetryGeneratesTheSame ==
    [][(pc = "generate" /\ pc' = "record" /\ first.to = to /\ label = {} /\ op \notin recut)
          => cands = first.cands]_vars

(* isNewAddress: the recipient of active funding evidence is in no earlier *)
(* block of the chain, unless it was registered by a block since orphaned, *)
(* or missed by a batch that was given up: first_seen_height is not set    *)
(* back by a rollback, and not corrected by a lower height.                *)
FundedIsNewUnlessOrphaned ==
    \A c \in Active : \A b \in ToSet(chain) \ dropped :
        (c.key = "funding" /\ Height[b] < c.height /\ \E d \in ToSet(Deltas[b]) : d.addr = c.b)
            => \E r \in rows : /\ r.addr = c.b
                               /\ r.block \in dropped \/ r.block \notin ToSet(chain) \cup {op}

-----------------------------------------------------------------------------
(* What comments of the code say and the code does not do.                 *)

(* heuristic/change.go: "It never confirms on a single clue". *)
NeverOnASingleClue ==
    pc = "record" => \A c \in ToSet(cands) : c.key = "change" =>
        \E d \in ToSet(Batch) : /\ d.tx = c.tx /\ d.addr = c.b /\ d.amt > 0
                                /\ Cardinality(Clues(d)) >= 2

(* heuristic/sweep.go: the fraction of what it has received that an        *)
(* address "must spend in one tx toward a known target"; here for one      *)
(* spender, whose outputs are all its own.                                 *)
SweptTowardTheTarget ==
    pc = "record" => \A c \in ToSet(cands) :
        LET td == TxOf(c.block, c.tx)
            got == FoldLeft(LAMBDA s, d : IF d.addr = c.a /\ d.amt > 0 THEN s + d.amt ELSE s, 0, td)
        IN  (c.key = "sweep-seed" /\ Len(SpentAddresses(td)) = 1)
                => 10 * got >= 9 * cumulativeReceived(c.b)

(* heuristic/sweep.go: "at least CompletenessMin of everything it has ever *)
(* received" is a sweep.                                                   *)
NineTenthsIsASweep ==
    (pc = "record" /\ "sweep-seed" \in Enabled) =>
        \A td \in ToSet(GroupByTx(Batch)) : \A o \in ToSet(ReceivedEntries(td)) :
            \A src \in ToSet(SpentAddresses(td)) \ {o.addr} :
                (/\ Seeds[o.addr] # None /\ cumulativeReceived(src) > 0
                 /\ 10 * SpentInTx(td, src) >= 9 * cumulativeReceived(src)
                 /\ distinctSourcesToTarget(o.addr) >= RecurrenceMin)
                => \E c \in ToSet(first.cands) : c.key = "sweep-seed" /\ c.a = o.addr /\ c.b = src

(* heuristic/account.go: "a brand new address's first funder". *)
OneFirstFunder ==
    \A c, d \in Active : (c.key = "funding" /\ d.key = "funding" /\ c.b = d.b) => c.a = d.a

(* ... and a "brand new address" is in no earlier block. *)
FundedIsNew ==
    \A c \in Active : \A b \in ToSet(chain) \ dropped :
        (c.key = "funding" /\ Height[b] < c.height) => \A d \in ToSet(Deltas[b]) : d.addr # c.b

(* heuristic/account.go: addresses "that repeatedly transact with *each    *)
(* other*", "only direct pairwise interaction".                            *)
BehavioralIsDirect ==
    \A c \in Active : c.key = "behavioral" =>
        \E r, s \in rows : /\ r.tx = s.tx /\ {r.addr, s.addr} = {c.a, c.b}
                           /\ r.amt < 0 /\ s.amt > 0

(* ingestor/store.go: a delta "is an immutable fact": what is stored of a  *)
(* live block is what was mined in it.                                     *)
StoredAsMined ==
    \A b \in ToSet(chain) \ dropped : \A d \in ToSet(Deltas[b]) :
        \E r \in rows : /\ r.tx = d.tx /\ r.idx = d.idx /\ r.block = b
                        /\ r.addr = d.addr /\ r.amt = d.amt
=============================================================================
