------------------------------ MODULE Consumer -------------------------------
(***************************************************************************)
(* internal/consumer of blockchain_cluster: Consumer.Run, handle,          *)
(* flushBatch and runAndCommit over the Batcher, reading the partitions of *)
(* balance-deltas (one per chain) and driving pipeline.Run and             *)
(* ReorgHandler.OnReorg.  The pipeline appears as its two durable effects: *)
(* evidence recorded for the batch's blocks, and the run completed.        *)
(* kafka-go's reader is external: delivery in offset order per partition   *)
(* from the committed offset, CommitMessages as an assignment.             *)
(***************************************************************************)
EXTENDS Integers, Sequences

CONSTANTS
    Partition,  \* the partitions, one chain each
    Log,        \* [Partition -> Seq(Message)], message n has offset n
    MaxFaults   \* bound: crashes, fatal errors and failed periodic flushes

(* A delta names its block and transaction, a notice the blocks it revokes,*)
(* and a message ParseMessage rejects nothing at all.                      *)
IsMessage(m) == m.type \in {"balance_delta", "reorg", "unparseable"}

ASSUME LogAssumption ==
    /\ \A p \in Partition : Len(Log[p]) \in Nat /\ DOMAIN Log[p] = 1..Len(Log[p])
    /\ \A p \in Partition : \A n \in 1..Len(Log[p]) : IsMessage(Log[p][n])
    /\ MaxFaults \in Nat

Offset == UNION {{p} \X (1..Len(Log[p])) : p \in Partition}

VARIABLES
    committed,  \* [Partition -> Nat]: the group's committed offset (broker)
    processed,  \* offsets whose handling completed (database)
    active,     \* blocks with active evidence (database)
    position,   \* [Partition -> Nat]: last offset fetched
    batch,      \* Batcher: offsets accumulated
    work,       \* the drained batch a pipeline run is for
    notice,     \* {} or the offset of the notice being handled
    source,     \* what started the flush: "message", "ticker" or "stop"
    pc,         \* "select", or a step of runAndCommit or of the reorg branch
    runs,       \* history: the batches whose run completed
    hit,        \* history: what went wrong or split a batch
    faults      \* how many faults have happened

durable == <<committed, processed, active>>
session == <<position, batch, work, notice, source, pc>>
vars == <<committed, processed, active, position, batch, work, notice, source, pc,
          runs, hit, faults>>

Msg(o) == Log[o[1]][o[2]]

Init ==
    /\ committed = [p \in Partition |-> 0]
    /\ processed = {}
    /\ active = {}
    /\ position = [p \in Partition |-> 0]
    /\ batch = {}
    /\ work = {}
    /\ notice = {}
    /\ source = "message"
    /\ pc = "select"
    /\ runs = {}
    /\ hit = {}
    /\ faults = 0

(* CommitMessages: each partition's offset becomes the highest one given,  *)
(* even if a later one was committed before.                               *)
CommitMessages(os) ==
    committed' = [p \in Partition |->
        IF \E n \in 1..Len(Log[p]) : <<p, n>> \in os
        THEN CHOOSE n \in 1..Len(Log[p]) :
                /\ <<p, n>> \in os
                /\ \A m \in 1..Len(Log[p]) : <<p, m>> \in os => m <= n
        ELSE committed[p]]

(* The next message of p, received while the loop is in its select. *)
Receive(p, type) ==
    /\ pc = "select"
    /\ position[p] < Len(Log[p])
    /\ Log[p][position[p] + 1].type = type
    /\ position' = [position EXCEPT ![p] = @ + 1]

(* handle, unparseable: committed at once, whatever is batched. *)
HandleUnparseable(p) ==
    /\ Receive(p, "unparseable")
    /\ CommitMessages({<<p, position[p] + 1>>})
    /\ processed' = processed \cup {<<p, position[p] + 1>>}
    /\ hit' = hit \cup {x \in {"poison"} : \E o \in batch : o[1] = p}
    /\ UNCHANGED <<active, batch, work, notice, source, pc, runs, faults>>

(* Mutant of OtherBlock: every delta closes the batch before it. *)
OtherBlockAlways(p, n) == batch # {}

(* Batcher.Add's test for the batch of another block or chain. *)
OtherBlock(p, n) ==
    \E o \in batch : o[1] # p \/ Msg(o).block # Log[p][n].block

(* More deltas of the batched block follow in its partition. *)
Unfinished ==
    \E o \in batch : \E n \in (position[o[1]] + 1)..Len(Log[o[1]]) :
        /\ Log[o[1]][n].type = "balance_delta" /\ Log[o[1]][n].block = Msg(o).block
        /\ \A m \in (position[o[1]] + 1)..(n - 1) : Log[o[1]][m].type = "unparseable"

Cut == hit \cup {x \in {"cut"} : Unfinished}

(* handle, delta of the batch's block, or with nothing batched. *)
AddToBatch(p) ==
    /\ Receive(p, "balance_delta")
    /\ ~OtherBlock(p, position[p] + 1)
    /\ batch' = batch \cup {<<p, position[p] + 1>>}
    /\ UNCHANGED <<durable, work, notice, source, pc, runs, hit, faults>>

(* handle, delta of another block: the batch goes to the pipeline and the  *)
(* delta starts the next one.                                              *)
AddAndFlush(p) ==
    /\ Receive(p, "balance_delta")
    /\ OtherBlock(p, position[p] + 1)
    /\ work' = batch
    /\ batch' = {<<p, position[p] + 1>>}
    /\ source' = "message"
    /\ pc' = "run"
    /\ hit' = IF \E o \in batch : o[1] # p THEN Cut ELSE hit
    /\ UNCHANGED <<durable, notice, runs, faults>>

(* flushBatch drains the batcher before the run; with nothing to run it    *)
(* does nothing.                                                           *)
Drain(from, empty) ==
    /\ work' = batch
    /\ batch' = {}
    /\ source' = from
    /\ pc' = IF batch = {} THEN empty ELSE "run"

(* Mutant of HandleReorg: the notice overtakes what is batched. *)
HandleReorgUnflushed(p) ==
    /\ Receive(p, "reorg")
    /\ pc' = "reorg"
    /\ notice' = {<<p, position[p] + 1>>}
    /\ UNCHANGED <<durable, batch, work, source, runs, hit, faults>>

(* handle, notice: what is batched goes first. *)
HandleReorg(p) ==
    /\ Receive(p, "reorg")
    /\ Drain("message", "reorg")
    /\ notice' = {<<p, position[p] + 1>>}
    /\ hit' = IF \E o \in batch : o[1] # p THEN Cut ELSE hit
    /\ UNCHANGED <<durable, runs, faults>>

(* Mutant of Tick: it leaves the newest block's batch alone. *)
TickOnFullBlock ==
    /\ pc = "select" /\ batch # {}
    /\ \/ /\ \E o \in batch : position[o[1]] < Len(Log[o[1]])
          /\ Drain("ticker", "select")
          /\ hit' = Cut
          /\ UNCHANGED <<durable, position, notice, runs, faults>>
       \/ UNCHANGED vars

(* The ticker's flush, which does nothing on an empty batch, and the one   *)
(* of a shutdown.                                                          *)
Tick ==
    /\ pc = "select" /\ batch # {}
    /\ Drain("ticker", "select")
    /\ hit' = Cut
    /\ UNCHANGED <<durable, position, notice, runs, faults>>

TickIdle ==
    /\ pc = "select" /\ batch = {}
    /\ UNCHANGED vars

Stop ==
    /\ pc = "select" /\ batch # {}
    /\ faults < MaxFaults /\ faults' = faults + 1
    /\ Drain("stop", "select")
    /\ hit' = Cut
    /\ UNCHANGED <<durable, position, notice, runs>>

(* runAndCommit: pipeline.Run records evidence ... *)
RunRecords ==
    /\ pc = "run"
    /\ active' = active \cup {<<o[1], Msg(o).block>> : o \in work}
    /\ pc' = "rebuild"
    /\ UNCHANGED <<committed, processed, position, batch, work, notice, source, runs, hit, faults>>

(* ... and completes ... *)
RunCompletes ==
    /\ pc = "rebuild"
    /\ processed' = processed \cup work
    /\ runs' = runs \cup {work}
    /\ pc' = "commit"
    /\ UNCHANGED <<committed, active, position, batch, work, notice, source, hit, faults>>

(* Mutant of Restart: the reader starts over one message too early. *)
RestartBefore ==
    /\ position' = [p \in Partition |-> committed'[p] - 1]
    /\ batch' = {}
    /\ work' = {}
    /\ notice' = {}
    /\ source' = "message"
    /\ pc' = "select"

(* A new session: the reader starts over from the committed offsets. *)
Restart ==
    /\ position' = committed'
    /\ batch' = {}
    /\ work' = {}
    /\ notice' = {}
    /\ source' = "message"
    /\ pc' = "select"

(* Mutant of CommitBatch: the delta that closed the batch is committed too.*)
CommitBatchAndNext ==
    /\ pc = "commit"
    /\ CommitMessages(work \cup batch)
    /\ work' = {}
    /\ source' = "message"
    /\ pc' = IF notice # {} THEN "reorg" ELSE "select"
    /\ UNCHANGED <<processed, active, position, batch, notice, runs, hit, faults>>

(* ... then the batch's offsets are committed.  A notice waiting for the   *)
(* flush comes next; after a shutdown's flush the process is started again.*)
CommitBatch ==
    /\ pc = "commit"
    /\ CommitMessages(work)
    /\ IF source = "stop" THEN Restart
       ELSE /\ work' = {}
            /\ source' = "message"
            /\ pc' = IF notice # {} THEN "reorg" ELSE "select"
            /\ UNCHANGED <<position, batch, notice>>
    /\ UNCHANGED <<processed, active, runs, hit, faults>>

(* OnReorg: the evidence of the named blocks is invalidated ... *)
OnReorg ==
    /\ pc = "reorg"
    /\ active' = {a \in active : \A o \in notice :
                     a[1] = o[1] => a[2] \notin Msg(o).hashes}
    /\ processed' = processed \cup notice
    /\ pc' = "commitNotice"
    /\ UNCHANGED <<committed, position, batch, work, notice, source, runs, hit, faults>>

(* ... and only then is the notice committed. *)
CommitNotice ==
    /\ pc = "commitNotice"
    /\ CommitMessages(notice)
    /\ notice' = {}
    /\ pc' = "select"
    /\ UNCHANGED <<processed, active, position, batch, work, source, runs, hit, faults>>

(* The periodic flush fails in the pipeline or in the commit: it is only   *)
(* logged, and the drained batch is gone.                                  *)
TickFails ==
    /\ pc \in {"run", "rebuild", "commit"} /\ source = "ticker"
    /\ faults < MaxFaults /\ faults' = faults + 1
    /\ hit' = hit \cup {x \in {"dropped"} : ~(work \subseteq processed)}
    /\ work' = {}
    /\ source' = "message"
    /\ pc' = "select"
    /\ UNCHANGED <<durable, position, batch, notice, runs>>

(* Any other error is returned by Run and ends the process; it may also    *)
(* die at any step.  Another one takes over.                               *)
Crash ==
    /\ faults < MaxFaults /\ faults' = faults + 1
    /\ UNCHANGED <<durable, runs, hit>>
    /\ Restart

Handle(p) ==
    HandleUnparseable(p) \/ AddToBatch(p) \/ AddAndFlush(p) \/ HandleReorg(p)

Flush == RunRecords \/ RunCompletes \/ CommitBatch \/ OnReorg \/ CommitNotice

Next ==
    \/ \E p \in Partition : Handle(p)
    \/ Tick \/ TickIdle \/ Stop \/ Flush \/ TickFails \/ Crash

Spec == Init /\ [][Next]_vars

(* The select picks among ready cases at random, so that no partition and  *)
(* no tick is passed over for ever, and a step begun is finished.          *)
FairSpec ==
    /\ Spec
    /\ WF_vars(Flush)
    /\ WF_vars(Tick)
    /\ \A p \in Partition : WF_vars(Handle(p))
-----------------------------------------------------------------------------
Step == {"select", "run", "rebuild", "commit", "reorg", "commitNotice"}

(* Every variable keeps its type. *)
TypeOK ==
    /\ committed \in [Partition -> Nat]
    /\ position \in [Partition -> Nat]
    /\ \A p \in Partition : committed[p] <= Len(Log[p]) /\ position[p] <= Len(Log[p])
    /\ processed \subseteq Offset
    /\ active \subseteq Partition \X {Msg(o).block : o \in {x \in Offset : Msg(x).type = "balance_delta"}}
    /\ batch \subseteq Offset
    /\ work \subseteq Offset
    /\ notice \subseteq Offset
    /\ source \in {"message", "ticker", "stop"}
    /\ pc \in Step
    /\ runs \subseteq SUBSET Offset
    /\ hit \subseteq {"poison", "cut", "dropped"}
    /\ faults \in Nat

(* An offset is committed only when every message up to it has been        *)
(* handled (consumer.go:33-36): a crash loses nothing.                     *)
CommittedIsProcessed ==
    \A p \in Partition : \A n \in 1..committed[p] : <<p, n>> \in processed

(* ... unless a periodic flush failed, which drops its batch, or an        *)
(* unparseable message was committed past a batch of its partition.        *)
LossOnlyByDropOrPoison ==
    hit \cap {"dropped", "poison"} = {} => CommittedIsProcessed

(* The deltas of a transaction reach the pipeline in one run, as GroupByTx *)
(* needs to see all inputs of a transaction at once.                       *)
SameTx(o, q) ==
    /\ o[1] = q[1]
    /\ Msg(o).type = "balance_delta" /\ Msg(q).type = "balance_delta"
    /\ Msg(o).block = Msg(q).block /\ Msg(o).tx = Msg(q).tx
    /\ \A n \in o[2]..q[2] : Log[o[1]][n].type # "reorg"

RunsSeeWholeTxs ==
    \A o, q \in processed :
        o[2] < q[2] /\ SameTx(o, q) => \E r \in runs : {o, q} \subseteq r

(* ... unless the ticker, a shutdown or a message of another chain cut a   *)
(* block short, or deltas were lost.                                       *)
TxSplitOnlyByFlush == hit = {} => RunsSeeWholeTxs

(* Once a notice is committed and no later message of the log brings its   *)
(* block back, the block has no active evidence and never gets any again,  *)
(* however often deltas and notices are redelivered after crashes.         *)
RevokedStaysRevoked ==
    \A p \in Partition : \A n \in 1..committed[p] :
        Log[p][n].type = "reorg" =>
            \A b \in Log[p][n].hashes :
                (\A m \in (n + 1)..Len(Log[p]) :
                    Log[p][m].type = "balance_delta" => Log[p][m].block # b)
                => <<p, b>> \notin active

(* Every message is handled in the end, the last block's batch included,   *)
(* for which no later message but only the ticker calls, unless it was     *)
(* dropped or committed past.                                              *)
AllProcessed == Offset \subseteq processed
EventuallyProcessed == [](hit \cap {"dropped", "poison"} = {}) => <>AllProcessed
=============================================================================
