------------------------------ MODULE MergeStore -----------------------------
(***************************************************************************)
(* The evidence side of blockchain_cluster: evidence.Store, merge.Engine,  *)
(* cluster.Store.RebuildFromEvidence and reorg.Handler, with the stages of *)
(* pipeline.Run that write to them.  Two actors share the tables: the      *)
(* consumer, which works through the batches and notices of one chain,     *)
(* goes back to the committed offset after a crash and gives up a batch    *)
(* whose periodic flush fails, and an operator correcting false positives  *)
(* (OnManualCorrection).  None of an operation's statements share a        *)
(* database transaction, except the replacement of the cache.              *)
(***************************************************************************)
EXTENDS Integers, Sequences, SequencesExt

CONSTANTS
    Address,        \* addresses
    None,           \* no cluster
    Cand,           \* merge candidates the heuristics may emit
    AddressA,       \* [Cand -> Address]
    AddressB,       \* [Cand -> Address]
    BlockOf,        \* [Cand -> block hash]: source_block_hash
    Ops,            \* the consumer's operations, in log order
    MaxFaults,      \* bound: crashes, failed flushes and corrections
    MaxCorrections  \* bound: manual corrections

(* Either a batch, with the candidates generated for it and the addresses  *)
(* its preprocessing turns into hubs, or a notice.                         *)
IsRun(o) == o.kind = "run"
IsReorg(o) == o.kind = "reorg"

ASSUME CandAssumption ==
    /\ AddressA \in [Cand -> Address]
    /\ AddressB \in [Cand -> Address]
    /\ None \notin Address

ASSUME OpsAssumption ==
    /\ Len(Ops) \in Nat /\ DOMAIN Ops = 1..Len(Ops)
    /\ \A k \in 1..Len(Ops) :
          \/ IsRun(Ops[k]) /\ Ops[k].cands \in Seq(Cand) /\ Ops[k].hubs \subseteq Address
          \/ IsReorg(Ops[k])
    /\ MaxFaults \in Nat /\ MaxCorrections \in Nat

Actor == {"consumer", "operator"}

VARIABLES
    evidence,     \* table merge_evidence, in op_id order
    hub,          \* table address: the addresses with is_hub
    cache,        \* tables cluster and cluster_membership: the cluster of each address
    done,         \* consumer: operations it is past
    committed,    \* operations whose offset is committed
    dropped,      \* operations given up by a failed periodic flush
    pc,           \* [Actor -> step]
    next,         \* consumer: next candidate of the batch
    list,         \* consumer: rows of ByBlockHash left to invalidate
    changed,      \* consumer: invalidatedCount > 0
    scan,         \* [Actor -> [op_ids -> Cand]]: what the actor's rebuild has read
    tries,        \* [operation -> how often it was begun]
    faults,       \* faults so far
    corrections,  \* manual corrections so far
    hit           \* history: what went wrong on the way

(* Where the consumer is in the log, and its operation in hand. *)
log == <<done, committed, dropped, tries>>
hand == <<next, list, changed>>

vars == <<evidence, hub, cache, log, hand, pc, scan, faults, corrections, hit>>

-----------------------------------------------------------------------------
(* What a replay of candidates cs in op_id order yields (cluster.Replay):  *)
(* the connected components of their address pairs, each under its anchor, *)
(* the address seen first.                                                 *)

Ends(c) == {AddressA[c], AddressB[c]}

Touched(cs) == UNION {Ends(cs[i]) : i \in DOMAIN cs}

Component(cs, a) ==
    {b \in Touched(cs) : \A T \in SUBSET Touched(cs) :
        (a \in T /\ \A i \in DOMAIN cs : Ends(cs[i]) \subseteq T \/ Ends(cs[i]) \cap T = {})
            => b \in T}

(* a is seen before b: in an earlier row, or in the same row as address_a. *)
SeenBefore(cs, a, b) ==
    \E i \in DOMAIN cs :
        /\ a \in Ends(cs[i])
        /\ \A j \in DOMAIN cs : b \in Ends(cs[j]) => i < j \/ (i = j /\ AddressA[cs[i]] = a)

Anchor(cs, a) ==
    CHOOSE x \in Component(cs, a) :
        \A y \in Component(cs, a) \ {x} : SeenBefore(cs, x, y)

Replay(cs) == [a \in Address |-> IF a \in Touched(cs) THEN Anchor(cs, a) ELSE None]

(* The rows with status active, what ScanActive returns of them, by op_id, *)
(* and what is left of it when only the candidates of S are kept.          *)
Active == {i \in DOMAIN evidence : evidence[i].status = "active"}

ActiveOf(table, S) ==
    [i \in {j \in DOMAIN table : table[j].status = "active" /\ table[j].cand \in S} |->
        table[i].cand]

ActiveCands == ActiveOf(evidence, Cand)

-----------------------------------------------------------------------------
Init ==
    /\ evidence = <<>>
    /\ hub = {}
    /\ cache = [a \in Address |-> None]
    /\ done = 0
    /\ committed = 0
    /\ dropped = {}
    /\ pc = [x \in Actor |-> "idle"]
    /\ next = 1
    /\ list = {}
    /\ changed = FALSE
    /\ scan = [x \in Actor |-> <<>>]
    /\ tries = [k \in 1..Len(Ops) |-> 0]
    /\ faults = 0
    /\ corrections = 0
    /\ hit = {}

Goto(x, step) == pc' = [pc EXCEPT ![x] = step]

Begin == tries' = [tries EXCEPT ![done + 1] = @ + 1]

(* Run: a batch is taken up ... *)
StartRun ==
    /\ pc["consumer"] = "idle" /\ done < Len(Ops) /\ IsRun(Ops[done + 1])
    /\ Begin
    /\ next' = 1
    /\ Goto("consumer", "mark")
    /\ UNCHANGED <<evidence, hub, cache, done, committed, dropped, list, changed, scan, faults,
                   corrections, hit>>

(* ... MarkHubs marks its hubs one by one ... *)
MarkHub ==
    /\ pc["consumer"] = "mark"
    /\ \E a \in Ops[done + 1].hubs \ hub : hub' = hub \cup {a}
    /\ UNCHANGED <<evidence, cache, log, hand, pc, scan, faults, corrections, hit>>

(* ... and only then are candidates generated and recorded. *)
MarkDone ==
    /\ pc["consumer"] = "mark" /\ Ops[done + 1].hubs \subseteq hub
    /\ Goto("consumer", "record")
    /\ UNCHANGED <<evidence, hub, cache, log, hand, scan, faults, corrections, hit>>

(* Mutant of Rejected: only one side is looked up. *)
RejectedByA(c) == AddressA[c] = AddressB[c] \/ AddressA[c] \in hub

(* RecordAndMerge: self-merges and hubs are rejected, the rest appended    *)
(* without a look at the rows that are there.                              *)
Rejected(c) ==
    \/ AddressA[c] = AddressB[c]
    \/ AddressA[c] \in hub \/ AddressB[c] \in hub

(* Mutant of RecordAndMerge: an append is tried again, though the row may  *)
(* be there.                                                               *)
RecordAndMergeRetried ==
    /\ pc["consumer"] = "record" /\ next <= Len(Ops[done + 1].cands)
    /\ LET c == Ops[done + 1].cands[next] IN
          evidence' = IF Rejected(c) THEN evidence
                      ELSE Append(evidence, [cand |-> c, status |-> "active"])
    /\ next' \in {next, next + 1}
    /\ UNCHANGED <<hub, cache, log, pc, list, changed, scan, faults, corrections, hit>>

RecordAndMerge ==
    /\ pc["consumer"] = "record" /\ next <= Len(Ops[done + 1].cands)
    /\ LET c == Ops[done + 1].cands[next] IN
          evidence' = IF Rejected(c) THEN evidence
                      ELSE Append(evidence, [cand |-> c, status |-> "active"])
    /\ next' = next + 1
    /\ UNCHANGED <<hub, cache, log, pc, list, changed, scan, faults, corrections, hit>>

(* Mutant of RecordDone: the loop gives up before the last candidate. *)
RecordDoneEarly ==
    /\ pc["consumer"] = "record"
    /\ Goto("consumer", "scan")
    /\ UNCHANGED <<evidence, hub, cache, log, hand, scan, faults, corrections, hit>>

RecordDone ==
    /\ pc["consumer"] = "record" /\ next > Len(Ops[done + 1].cands)
    /\ Goto("consumer", "scan")
    /\ UNCHANGED <<evidence, hub, cache, log, hand, scan, faults, corrections, hit>>

(* OnReorg: ByBlockHash lists the rows of the blocks rolled back; those    *)
(* not active are passed over.  An empty notice does nothing.              *)
StartReorg ==
    /\ pc["consumer"] = "idle" /\ done < Len(Ops) /\ IsReorg(Ops[done + 1])
    /\ list' = {i \in Active : BlockOf[evidence[i].cand] \in Ops[done + 1].hashes}
    /\ changed' = FALSE
    /\ Begin
    /\ Goto("consumer", "invalidate")
    /\ UNCHANGED <<evidence, hub, cache, done, committed, dropped, next, scan, faults,
                   corrections, hit>>

(* Mutant of Invalidate: whatever the status. *)
InvalidateAny(i, reason) == evidence' = [evidence EXCEPT ![i].status = reason]

(* Invalidate: a no-op on a row that is not active. *)
Invalidate(i, reason) ==
    evidence' = IF evidence[i].status = "active"
                THEN [evidence EXCEPT ![i].status = reason] ELSE evidence

(* One row of OnReorg's loop, with its audit entry. *)
InvalidateRow ==
    /\ pc["consumer"] = "invalidate"
    /\ \E i \in list :
          /\ Invalidate(i, "reorg")
          /\ changed' = (changed \/ evidence[i].status = "active")
          /\ list' = list \ {i}
    /\ UNCHANGED <<hub, cache, log, pc, next, scan, faults, corrections, hit>>

(* Mutant of AfterInvalidation: never a rebuild. *)
NoRebuild == "commit"

(* The rebuild is skipped when this call invalidated nothing. *)
AfterInvalidation == IF changed THEN "scan" ELSE "commit"

(* Mutant of InvalidateDone: the first row is enough. *)
InvalidateDoneEarly ==
    /\ pc["consumer"] = "invalidate" /\ (changed \/ list = {})
    /\ list' = {}
    /\ Goto("consumer", AfterInvalidation)
    /\ UNCHANGED <<evidence, hub, cache, log, next, changed, scan, faults, corrections, hit>>

InvalidateDone ==
    /\ pc["consumer"] = "invalidate" /\ list = {}
    /\ Goto("consumer", AfterInvalidation)
    /\ UNCHANGED <<evidence, hub, cache, log, hand, scan, faults, corrections, hit>>

(* OnManualCorrection: an operator invalidates a row; if that changed      *)
(* nothing there is nothing more to do.                                    *)
CorrectRow ==
    /\ pc["operator"] = "idle" /\ corrections < MaxCorrections
    /\ \E i \in DOMAIN evidence :
          /\ Invalidate(i, "manual-correction")
          /\ Goto("operator", IF evidence[i].status = "active" THEN "scan" ELSE "idle")
    /\ corrections' = corrections + 1
    /\ UNCHANGED <<hub, cache, log, hand, scan, faults, hit>>

(* RebuildFromEvidence: the active rows are read ... *)
ScanActive(x) ==
    /\ pc[x] = "scan"
    /\ scan' = [scan EXCEPT ![x] = ActiveCands]
    /\ Goto(x, "write")
    /\ UNCHANGED <<evidence, hub, cache, log, hand, faults, corrections, hit>>

(* ... and, in a transaction of its own, the cache is replaced.            *)
(* History: the other actor was between its read and its replacement.      *)
ReplaceCache(x) ==
    /\ pc[x] = "write"
    /\ cache' = Replay(scan[x])
    /\ scan' = [scan EXCEPT ![x] = <<>>]
    /\ Goto(x, IF x = "consumer" THEN "commit" ELSE "idle")
    /\ hit' = hit \cup {w \in {"overlap"} : \E y \in Actor \ {x} : pc[y] = "write"}
    /\ UNCHANGED <<evidence, hub, log, hand, faults, corrections>>

(* The consumer commits the operation's offset, and so every earlier one. *)
Commit ==
    /\ pc["consumer"] = "commit"
    /\ done' = done + 1
    /\ committed' = done + 1
    /\ dropped' = dropped \ {done + 1}
    /\ changed' = FALSE
    /\ Goto("consumer", "idle")
    /\ UNCHANGED <<evidence, hub, cache, tries, next, list, scan, faults, corrections, hit>>

(* The operation in hand ends with an error, and what it held is lost. *)
GivesUp ==
    /\ faults < MaxFaults /\ faults' = faults + 1
    /\ list' = {}
    /\ next' = 1
    /\ changed' = FALSE
    /\ scan' = [scan EXCEPT !["consumer"] = <<>>]
    /\ Goto("consumer", "idle")
    /\ UNCHANGED <<evidence, hub, cache, tries, corrections>>

(* A statement of a batch that a new block or a notice flushed, or of the  *)
(* notice, fails, or the consumer dies: everything from the committed      *)
(* offset on is redelivered.                                               *)
(* History: rows were invalidated and the rebuild did not follow.          *)
Crash ==
    /\ pc["consumer"] # "idle" \/ committed < done
    /\ GivesUp
    /\ done' = committed
    /\ hit' = hit \cup {w \in {"skipped"} : changed /\ pc["consumer"] # "commit"}
    /\ UNCHANGED <<committed, dropped>>

(* A statement of a batch that the ticker flushed fails: the error is      *)
(* logged, the batch is gone from the batcher and the consumer goes on to  *)
(* the next message, whose commit passes over it.                          *)
(* History: the batch may have left rows, and no rebuild followed.         *)
PeriodicFlushFails ==
    /\ pc["consumer"] # "idle" /\ IsRun(Ops[done + 1])
    /\ GivesUp
    /\ done' = done + 1
    /\ dropped' = IF pc["consumer"] = "commit" THEN dropped \ {done + 1}
                  ELSE dropped \cup {done + 1}
    /\ hit' = hit \cup {"dropped"}
                  \cup {w \in {"skipped"} : \/ pc["consumer"] \in {"record", "scan", "write"}
                                            \/ pc["consumer"] = "mark" /\ tries[done + 1] > 1}
    /\ UNCHANGED committed

(* The correction fails between its invalidation and its rebuild. *)
CorrectionFails ==
    /\ pc["operator"] # "idle"
    /\ faults < MaxFaults /\ faults' = faults + 1
    /\ scan' = [scan EXCEPT !["operator"] = <<>>]
    /\ hit' = hit \cup {"skipped"}
    /\ Goto("operator", "idle")
    /\ UNCHANGED <<evidence, hub, cache, log, hand, corrections>>

(* Nothing left to consume: the consumer waits. *)
Wait ==
    /\ pc["consumer"] = "idle" /\ done = Len(Ops)
    /\ UNCHANGED vars

Consume ==
    \/ StartRun \/ MarkHub \/ MarkDone \/ RecordAndMerge \/ RecordDone
    \/ StartReorg \/ InvalidateRow \/ InvalidateDone
    \/ Commit \/ Wait

Next ==
    \/ Consume \/ CorrectRow
    \/ \E x \in Actor : ScanActive(x) \/ ReplaceCache(x)
    \/ Crash \/ PeriodicFlushFails \/ CorrectionFails

Spec == Init /\ [][Next]_vars

(* A consumer that is up finishes what it began, and so does a correction. *)
FairSpec ==
    /\ Spec
    /\ WF_vars(Consume)
    /\ \A x \in Actor : WF_vars(ScanActive(x) \/ ReplaceCache(x))
-----------------------------------------------------------------------------
Status == {"active", "reorg", "manual-correction"}
IsScan(cs) == DOMAIN cs \subseteq Nat /\ \A i \in DOMAIN cs : cs[i] \in Cand
Step == {"idle", "mark", "record", "invalidate", "scan", "write", "commit"}

(* Every variable keeps its type. *)
TypeOK ==
    /\ evidence \in Seq([cand : Cand, status : Status])
    /\ hub \subseteq Address
    /\ cache \in [Address -> Address \cup {None}]
    /\ done \in 0..Len(Ops)
    /\ committed \in 0..done
    /\ dropped \subseteq 1..Len(Ops)
    /\ pc \in [Actor -> Step]
    /\ next \in Nat
    /\ list \subseteq DOMAIN evidence
    /\ changed \in BOOLEAN
    /\ \A x \in Actor : IsScan(scan[x])
    /\ tries \in [1..Len(Ops) -> Nat]
    /\ faults \in Nat
    /\ corrections \in Nat
    /\ hit \subseteq {"overlap", "skipped", "dropped"}

(* merge_evidence is append-only: a row never goes, never changes its      *)
(* candidate, and leaves "active" once and for good, keeping the reason    *)
(* it was invalidated for.                                                 *)
AppendOnly ==
    [][\A i \in DOMAIN evidence :
          /\ i \in DOMAIN evidence'
          /\ evidence'[i].cand = evidence[i].cand
          /\ evidence[i].status # "active" => evidence'[i] = evidence[i]]_vars

(* No operation is under way, none that was begun is to be redelivered. *)
Again == {k \in (done + 1)..Len(Ops) : tries[k] > 0}
Quiet == (\A x \in Actor : pc[x] = "idle") /\ Again = {}

(* Between operations the materialised clusters are what a replay of the   *)
(* active evidence yields (docs/02 sections 3 and 5).                      *)
CacheIsReplay == Quiet => cache = Replay(ActiveCands)

(* ... unless the rebuild was skipped, because a notice or a correction    *)
(* stopped between an invalidation and its rebuild or a periodic flush     *)
(* failed once it had recorded evidence, or two rebuilds overlapped.       *)
StaleOnlyBySkipOrOverlap == hit \subseteq {"dropped"} => CacheIsReplay

(* The last operation up to k on a block. *)
Mentions(k, b) ==
    \/ IsReorg(Ops[k]) /\ b \in Ops[k].hashes
    \/ IsRun(Ops[k]) /\ \E n \in DOMAIN Ops[k].cands : BlockOf[Ops[k].cands[n]] = b

LastMention(k, b) == Mentions(k, b) /\ \A m \in (k + 1)..done : ~Mentions(m, b)

(* A block rolled back by a committed notice has no active evidence, and   *)
(* none appears when operations are redelivered or given up, until a batch *)
(* that mentions it is begun anew.                                         *)
RolledBackHasNoEvidence ==
    \A k \in 1..done : \A i \in Active :
        LastMention(k, BlockOf[evidence[i].cand]) /\ IsReorg(Ops[k]) =>
            \E m \in Again : IsRun(Ops[m]) /\ Mentions(m, BlockOf[evidence[i].cand])

(* A processed block that was not rolled back has active evidence for each *)
(* of its candidates that no hub blocks, unless an operator corrected it   *)
(* or its batch was given up by a failed periodic flush.                   *)
ProcessedHasEvidence ==
    \A k \in 1..done \ dropped : IsRun(Ops[k]) =>
        \A n \in DOMAIN Ops[k].cands :
            LET c == Ops[k].cands[n] IN
            (\A m \in (k + 1)..Len(Ops) : ~Mentions(m, BlockOf[c])) =>
                \/ Rejected(c)
                \/ \E i \in Active : evidence[i].cand = c
                \/ \E i \in DOMAIN evidence :
                      evidence[i].cand = c /\ evidence[i].status = "manual-correction"

(* What an operator corrected stays corrected unless the log offers it     *)
(* again: a corrected candidate has an active row only if it was offered   *)
(* twice, at two places of the log, which may be in one batch, or because  *)
(* its batch was begun again.                                              *)
Offers(c) ==
    UNION {{<<k, n, t>> : n \in {l \in DOMAIN Ops[k].cands : Ops[k].cands[l] = c},
                          t \in 1..tries[k]} :
              k \in {m \in 1..Len(Ops) : IsRun(Ops[m])}}

CorrectedUnlessBroughtAgain ==
    \A i \in DOMAIN evidence, j \in Active :
        LET c == evidence[i].cand IN
        evidence[i].status = "manual-correction" /\ evidence[j].cand = c =>
            \E p, q \in Offers(c) : p # q

(* Processing a block again leaves the number of evidence rows as it was   *)
(* (docs/05 T-1).                                                          *)
EvidenceRecordedOnce ==
    \A i, j \in Active : evidence[i].cand = evidence[j].cand => i = j

(* Redelivery after crashes adds rows but leaves the clusters, ids         *)
(* included, as one crash-free pass over the committed operations makes    *)
(* them: hubs block from the batch on that reveals them, and a notice      *)
(* takes back what came before it.  A periodic flush that fails does show. *)
Stands(k, c) ==
    /\ AddressA[c] # AddressB[c]
    /\ \A m \in 1..k : IsRun(Ops[m]) => Ends(c) \cap Ops[m].hubs = {}
    /\ \A m \in (k + 1)..done : IsReorg(Ops[m]) => BlockOf[c] \notin Ops[m].hashes

(* The candidates of the committed batches, in log order: the n-th of the  *)
(* k-th operation at <<k, n>>.                                             *)
Places ==
    FlattenSeq([k \in 1..done |->
        IF IsRun(Ops[k]) THEN [n \in 1..Len(Ops[k].cands) |-> <<k, n>>] ELSE <<>>])

At(p) == Ops[p[1]].cands[p[2]]

OncePassed ==
    [i \in {j \in DOMAIN Places : Stands(Places[j][1], At(Places[j]))} |-> At(Places[i])]

RedeliveryIsInvisible ==
    Quiet /\ hit = {} /\ corrections = 0 => cache = Replay(OncePassed)

(* No active evidence goes through a hub (docs/02 section 2).              *)
NoEvidenceThroughHub ==
    \A i \in Active : Ends(evidence[i].cand) \cap hub = {}

(* A cluster that keeps its members keeps its id (docs/02 section 6).      *)
Members(c, a) == {b \in Address : c[b] = c[a]}
IdFollowsMembers ==
    [][\A a \in Address :
          cache[a] # None /\ cache'[a] # None /\ Members(cache', a) = Members(cache, a)
              => cache'[a] = cache[a]]_vars
=============================================================================
