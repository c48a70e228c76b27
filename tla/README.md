# TLA+ models of blockchain-clustering

The repository holds two Go programs joined by a Kafka topic. **blockchain-indexer**
follows a chain node, turns blocks into balance deltas and publishes them, with
notices of the blocks a reorganisation takes back. **blockchain_cluster** reads the
topic, stores the deltas, runs heuristics over them, records the evidence they
yield and keeps clusters of addresses as a replay of that evidence.

This directory models both, checks the models with TLC on small instances and proves
properties of the indexer's loop, the consumer, the pipeline, the evidence and cluster
tables, the replay algorithm, the labels and the readers with TLAPS for every instance. Line numbers
below refer to `src/`. `PROJECT.json` maps each definition to its lines, and lists
the runs, the hazards and the findings.

## 1. The system

| Part | State it keeps | Operations | Module |
|---|---|---|---|
| indexer loop (`cmd/indexer/main.go`) | block in hand, height, rollback list | poll, fetch, check, extract, publish, persist; handle a reorg | Indexer |
| reorg detector (`internal/reorg`) | none | IsContinuous, FindRollback | Indexer |
| block and cursor tables (`internal/state`) | stored blocks, cursor | insert, look up by height, delete from a height, upsert cursor | Indexer |
| publisher (`internal/kafka`) | the topic | PublishDeltas, PublishReorg | Indexer; what the topic promises: Feed |
| Ethereum adapter (`internal/adapter/ethereum`) | none | LatestHeight, FetchBlock, BlockHash, Extract | Indexer, Extract |
| consumer and batcher (`internal/consumer`) | fetched position, batch, committed offsets | handle, flushBatch, runAndCommit | Consumer |
| pipeline (`internal/pipeline`) | none across runs | Run | Pipeline, and its effects in Consumer and MergeStore |
| ingestor and registry (`internal/ingestor`, `internal/address`) | tables balance_delta, address | Ingest, Upsert, SetHub, SetDustFlag | Pipeline |
| preprocessor (`internal/preprocessor`) | table excluded_tx, flags of address | MarkHubs, MarkCollaborativeTx, MarkDust | Pipeline |
| heuristics (`internal/heuristic`) | none | six engines | Pipeline |
| evidence store (`internal/evidence`) | table merge_evidence, append-only | Append, Invalidate, ScanActive, ByBlockHash, ByAddresses | MergeStore, ClusterQuery |
| merge engine (`internal/merge`) | none | RecordAndMerge | MergeStore, Pipeline |
| reorg handler (`internal/reorg` of the cluster) | none | OnReorg, OnManualCorrection | MergeStore |
| cluster store (`internal/cluster`) | tables cluster, cluster_membership (a cache) | RebuildFromEvidence; ClusterOf, MembersOf, SameCluster, threshold view | MergeStore, Replay, ClusterQuery |
| replay and union-find (`internal/cluster/replay.go`, `internal/unionfind`) | none across calls | Replay, Union, Find | Replay |
| labels (`internal/label`, ticker in `cmd/server/main.go`) | table label | AddLabel; Maintain of every chain at each tick | Label; a hub label's effect in Pipeline |
| query service (`internal/queryservice`) | none | same_cluster, members_of, evidence_of | ClusterQuery |
| metrics collector (`internal/metrics`) | none | the statements of a scrape | ClusterQuery |

How they interact: the loop, the detector and the publisher share one goroutine per
chain and the database; the topic has the chain as key, so one chain is one
partition and is ordered. The consumer is one goroutine over all partitions and
calls `pipeline.Run` or `OnReorg` synchronously. The server is another process on the same
tables: it answers requests, is scraped, and maintains the labels on a ticker. Operators
reach evidence, labels and clusters from outside. None of them has a lock or a transaction
in common with the others.

What is hard:

* **A stop between two writes.** Publishing, storing and rewinding in the indexer,
  and recording, rebuilding and committing in the cluster program, are separate writes
  to two or three systems.
* **A node that changes its mind** while the indexer walks down its chain, and
  between two attempts at the same block.
* **At-least-once delivery**: everything downstream may happen twice, in part.
* **A batch is cut by time**, within a transaction too, by a shutdown or by another chain's message; the
  heuristics see the batch, the queries behind them see all of history.
* **Rows that outlive their block.** `balance_delta` and the registry are not rolled
  back by a reorganisation, only evidence is.
* **Two writers of the cluster cache**, each replacing it with what it read earlier.
* **Requests and scrapes of several statements**, between which a rebuild may replace all
  they have read.
* **A maintenance pass that writes what it read**: confidence and status of a label may have
  been changed by an operator meanwhile, and the pass may fail at any of its updates.
* **A writer that asks for no acknowledgement**: a message may be lost without an error.

## 2. The modules

### Indexer
Translates `runEthereumLoop`, `persistBlockAndCursor` and `handleReorg` (main.go:117-265)
with everything they call. A block stands for its hash; `Height` and `Parent` are
functions of it and `Block` is any tree. `NTx` is the number of transactions that
move assets, and a transaction is one message: its deltas are contiguous in the topic
and no property of this module tells them apart. The node is external: `chain` is any
parent-closed path of the tree and changes at any step, to a longer, shorter or other
one. `topic` is the partition.

One action is one call that can fail or after which the node may have moved:
`Poll`/`Sleep` (LatestHeight, GetCursor), `FetchBlock` (with the continuity check),
`Extract`, `PublishDelta` (one message), `Persist` (the one database transaction),
`FindRollback` (one height of the walk), `PublishReorg`, `DeleteBlocksFromHeight`,
`RewindCursor`. Each message goes through `WriteMessage`, which appends it or, since the
writer is built without RequiredAcks (publisher.go:23), loses it and reports success: a
fault recorded as "ack". `Fault` is an error or a death at any of the calls. `NodeLacksHeight` is the
error of a node asked for a height it no longer has. `hit` is a history variable: at
which steps faults happened; the properties of the form "X unless ..." name the one
window that breaks X with it.

### Feed
The abstract specification of the topic, in three variables: what the topic has said last of
each block, which blocks the indexer holds, and whether a message was ever lost. What is
announced or held continues what is held, a notice names held blocks only, and a block is
let go only after it was revoked, as long as no message was lost. `Indexer` implements it
under the mapping `said <- Said`, `held <- rows`, `sound <- "ack" \notin hit` (`ImplementsFeed`).
Feed does not promise that what stands in the topic is held: the code does not keep that
(`indexer_orphan`).

### Consumer
Translates `Consumer.Run`, `handle`, `flushBatch`, `runAndCommit` and the `Batcher`
(consumer.go, batcher.go). The log of each partition is a constant: deltas (block and
transaction), notices, and messages `ParseMessage` rejects. `Receive` is the select's
message case, `Tick` the ticker's, `Stop` the shutdown's flush. `pipeline.Run` is reduced
to its two durable effects (evidence, completion), `OnReorg` to the invalidation.
A failed periodic flush (`TickFails`) is only logged; any other error ends the process
(`Crash`), which starts again from the committed offsets. `hit` is a history variable:
which of these cut a batch short, dropped it or committed past it. A delta or a notice of
another chain cuts too, since the batcher is one for all partitions.

### Pipeline and Extract
`Pipeline` translates `pipeline.Run` stage by stage (pipeline.go:109-174): insert, upsert,
hubs, collaborative transactions, dust flags, dust exclusions, the engines, recording.
A stage whose statements a crash may separate is a loop of its own (`Upsert`, `MarkHub`,
`RunEngine`, `RecordAndMerge`). Of the collaborative transactions and the dust, `ExcludeOne` and
`FlagOne` are single statements, after any of which the stage may be stopped, and
`MarkCollaborativeTx`, `FlagDust` and `ExcludeDust` run its loop to the end. The order of the stages is the definition `Order`. The
engines are operators on a transaction's deltas and the tables. Batches are the blocks of
a tree with forks; `CutAt` says after which deltas the periodic flush may end a batch.
Addresses are numbers in the order of their strings (behavioral orders its pairs),
confidences and scores are hundredths, and the comparison of a quotient with the float64
0.9 is modelled by what it does: exactly nine tenths is less. `first`, `recut` and `split` are
history variables: what the first attempt at the batch in hand yielded and where it ended, the
blocks of which a batch was run again, after a crash, with another end, and the transactions
within which a batch ended.

`Extract` is `extractDeltas` of the Ethereum adapter as a function from a transaction and
its receipt to deltas; the account instance builds its blocks with it, so that what
reaches `Pipeline` there is what the indexer would publish.

### MergeStore
The tables merge_evidence and cluster(_membership) under two actors: the consumer,
working through batches and notices and repeating the one in hand after a crash, and
an operator's `OnManualCorrection`. Each hub, each candidate and each invalidated row is a step.
`Crash` is an error that ends the consumer and everything since the committed offset is
redelivered (consumer.go:105-107); `PeriodicFlushFails` is one that the ticker's branch only logs
(consumer.go:91-96): the batch is gone, possibly with rows recorded and no rebuild, the next
commit passes over it, and until then a crash may still bring it back. `dropped` are the
operations given up that way, `tries` how often each was begun.
`RebuildFromEvidence` is two steps, `ScanActive` and `ReplaceCache`; what a scan returns is
kept by op_id, the order it is read in. `Replay` here is the
result (components of the evidence, each under the address seen first), and the next
module shows the algorithm to compute it.

### Replay
`cluster.Replay` with the disjoint sets of `internal/unionfind`, one union and one level
of the walk per step, and the threshold view. A confidence c is represented by
-log2(1 - c), which makes noisy-OR an addition and keeps the order, exactly; `Certain`
stands for 1.0. What rounding adds is in two operators: `Float` is what float64 makes of
1 - (1 - c), which `noisyOR` computes of a single source too (replay.go:216-221), and `Numeric`
what a NUMERIC(4,3) column keeps of it. All that is assumed of them is that they keep the order;
the instance rounds one confidence down and one up. With three or more sources of a pair, Go's
order over the map may change the last bit from one replay to the next; that is not modelled.
The rows replayed are kept by op_id and the combined edges by their
firstOrder, so that the next edge to unite is the one with the least number.
`SameIdIffLinked` compares the computed clusters with the definition of
connectedness.

### Label
`AddLabel` with the status its caller gives, `DetectConflicts` and `Maintain` (label/store.go,
label/maintain.go) and the server's ticker (cmd/server/main.go). A tick goes over the chains in any order, a pass reads
the live labels of a chain in one statement and updates them one statement each. A row's
confidence is how often it was decayed since it was set, its age whether it is overdue.
`Fault` is a failed statement, after which the next chain is tried, or the tick's 30-second
context expiring, after which nothing is. `Reverify` and `Retire` are an operator's updates.
`raced` is a history variable: the labels written while a pass over their chain ran, and the
rest of a conflict that a failed pass marked in part.

### ClusterQuery
Composes the readers with `MergeStore` (`Store == INSTANCE MergeStore`; every step of the
writers is a `Write` step). `SameFirst`/`SameSecond` are the two ClusterOf reads of
SameCluster, `FirstPage`/`NextPage` a client paging through members_of, `EvidenceMembers`/
`EvidenceRows` the two reads of evidence_of, `ScrapeClusters`/`ScrapeActive`/`ScrapeInvalid`
the statements of a scrape with their error paths. A request with a threshold is answered
from a replay of the evidence that reaches it, one without from the cache.
`views` records what each read saw, so that an answer can be compared with it.

## 3. The runs

`tlc -config X.cfg M` in this directory. States are distinct states found.

Passing:

| Run | Bounds | What it shows |
|---|---|---|
| `indexer` (189k) | a tree with a fork, start height 1, 2 moves of the node, 2 faults or lost messages | no two stored blocks share a height and neighbours are parent and child; the loop implements Feed; the ways to lose deltas, skip heights, leave orphans standing or build on revoked blocks are the ones named and no others; once the node settles on its longest chain, the table holds that chain only and the cursor is at its tip |
| `consumer` (169k) | two chains, a rollback and a return, an unparseable message, 2 faults | loss only by a failed periodic flush or by a commit past a batch; a transaction is split only by a flush; revoked blocks stay revoked under redelivery; every message is handled in the end |
| `merge` (340k) | three addresses, five operations, one of them offering a candidate twice, 2 faults (crashes, failed periodic flushes), 1 correction | the cache is the replay, but for a rebuild skipped or overtaken; rolled-back blocks have no evidence, processed ones that were not dropped have theirs; redelivery is invisible; a correction lasts until its candidate is offered again; rows are append-only |
| `replay` (1.8M) | four addresses, six candidate rows, up to four in the table | the algorithm against the definition; confidences, rounded, are never overstated; thresholds up to the rounding; duplicates and rollbacks change nothing elsewhere |
| `pipeline_account` (922k) | a fork, transactions mined twice with different logs, a cut within one, 6 blocks or notices, 1 fault, a late hub label | nobody popular is ever merged; funding evidence has one height; who is funded as new is in no earlier block of the chain, unless a block since orphaned registered it |
| `pipeline_utxo` (968k) | a fork, dust, a collaborative transaction, cuts between and within transactions, 1 fault | whoever has a row is registered; collaborative transactions merge nobody and excluded ones neither, but for one within which a batch ended or, of the latter, a batch run again with another end; a retry with the same end generates the same candidates |
| `label` (323k) | three labels on two chains, two of them contradictory, one added with any status, 1 fault, 1 change by an operator | confidence decays once between two verifications; what was withdrawn stays so but for one race; contradictions are settled whole; every overdue label is reached in the end |
| `query` (189k) | four addresses, two batches, a rollback, 1 correction, pages of 2 | a positive same_cluster was true at one of its reads when the clusters only grew or only split; paging misses a member only after it, or one before it, left; the rows of evidence_of link the members it found; a scrape counts every row that was there |

Violations, each of a sentence of the repository the code does not keep (details and
quotations under `findings`):

| Run | What happens |
|---|---|
| `indexer_hole` | a stop between deleting the orphans and rewinding the cursor: heights are skipped for good |
| `indexer_orphan` | a delta of a block is out when publishing fails, the node replaces the block before the retry, the loop stores the other one: the first is never revoked |
| `consumer_drop` | the batch of a failed periodic flush is dropped and committed past |
| `label_confirmed` | a label added after its opponents were marked as conflicted is compared with none of them and stays active |

### Known differences without a run of their own
The modules also state these; adding the property to the module's cfg, with the constants
in brackets where they differ, gives the behaviour.

| Property | What happens | Source | It says |
|---|---|---|---|
| `NoRevokedBelow` (Indexer) | a stop between notice and deletion, the node returns: a revoked block stays stored and is never published again | blockchain-indexer/cmd/indexer/main.go:254 | docs/01 FR-12 |
| `StoredFullyPublished` (Indexer) | a receipt that cannot be read loses its transaction | blockchain-indexer/cmd/indexer/main.go:189 | docs/01 FR-16 |
| `CommittedIsProcessed` (Consumer, `Log <- PoisonLog`, `Partition <- PlainPartition`) | an unparseable message is committed past the deltas batched before it | consumer/consumer.go:119 | consumer.go:34-36 |
| `RunsSeeWholeTxs` (Consumer) | the ticker or another chain splits a transaction over two runs | consumer/consumer.go:94 | batcher.go:9-12 |
| `CacheIsReplay` (MergeStore, one fault, no correction) | a redelivered notice finds nothing active and skips the rebuild that never took place | reorg/handler.go:75 | docs/02:102 |
| `CacheIsReplay` (MergeStore, no faults, one correction) | of two rebuilds the one with the older scan writes last | cluster/store.go:32 | docs/01 FR-24 |
| `EvidenceRecordedOnce` (MergeStore) | a redelivered batch records its evidence twice | evidence/store.go:36 | docs/05 T-1 |
| `NoEvidenceThroughHub` (MergeStore, `Ops <- HubOps`) | evidence recorded before an address became a hub goes on merging through it | merge/engine.go:53 | docs/02:45 |
| `ThresholdIsMet` (Replay) | a row of exactly the threshold passes the filter, and float64 puts the membership below the threshold | cluster/replay.go:216 | store.go:84-85 |
| `IdFollowsMembers` (MergeStore) | a cluster keeps its members and changes its id | cluster/replay.go:146 | docs/02:111 |
| `NeverOnASingleClue` (Pipeline, UTXO) | one clue is enough for a change output | heuristic/change.go:152 | change.go:82 |
| `SweptTowardTheTarget` (Pipeline, UTXO) | a sweep counts what is spent elsewhere | heuristic/sweep.go:162 | sweep.go:24-26 |
| `NineTenthsIsASweep` (Pipeline, UTXO) | exactly nine tenths is not a sweep | heuristic/sweep.go:181 | sweep.go:155-156 |
| `ExcludedTxHoldsNothing` (Pipeline, UTXO) | a batch that ends within a transaction records evidence of its first part, and the next one excludes it; or a batch run again with more of its block does | preprocessor/store.go:84 | store.go:38 |
| `CollaborativeTxMergesNobody` (Pipeline, UTXO) | a flush inside a collaborative transaction merges its participants | preprocessor/detect.go:45 | detect.go:2-4 |
| `OneFirstFunder` (Pipeline, account) | two senders of one block are both the first funder | heuristic/account.go:127 | account.go:78-79 |
| `FundedIsNew` (Pipeline, account) | an address that a block since orphaned registered at a greater height is funded as new though the chain has it earlier | ingestor/store.go:86 | account.go:78-79 |
| `BehavioralIsDirect` (Pipeline, account) | recipients of the same payouts are merged | heuristic/account.go:323 | account.go:288-292 |
| `StoredAsMined` (Pipeline, account, no late labels, no faults) | a transaction mined again keeps the rows of the orphaned block | ingestor/store.go:61 | store.go:40-41 |
| `DeploymentsAreLinked` (MCPipelineAccount, no late labels, no faults) | a deployment without value is never linked to its deployer | heuristic/account.go:196 | blockchain-indexer/docs/03:132 |
| `RetiredIsDead` (Label) | a label withdrawn while a pass holds its row is made stale or conflicted by it | label/maintain.go:108-131 | maintain.go:43-44 |
| `TogetherIsSame` (ClusterQuery, no corrections) | two addresses of one cluster are reported apart when a rebuild between the two reads changes its id | cluster/store.go:198 | store.go:190-191 |

| `MembersAllAlongAreListed` (ClusterQuery) | members that stay are missed when others leave between two pages and shift them to an earlier one | cluster/store.go:172 | handlers.go:38 |

`StandingIsStored` (Indexer) fails in one more way, with `StartHeight = 0`: on a first start the
loop begins at the node's tip; a fault after publishing, and it begins again at a later tip, above
the block it announced (main.go:147). Two more are visible in the code and outside the models' bounds: a limit of zero
gives no members from the table and all of them from the threshold view
(cluster/store.go:160), and evidence_of looks at the first 100000 members only
(queryservice/handlers.go:111), which `EvidenceExplainsCluster` takes as its condition.

### Bounds, and why they are enough
* `MaxMoves` 2 lets the node leave a branch and come back, in the middle of a walk or of a
  publication; `MaxFaults` 2 lets a retry fail as well. The tree has branches of two and three
  blocks above the first two: reorganisations one and two blocks deep, an empty block and
  one of two transactions.
* The consumer's log has every kind of message before and after every other on one chain,
  and a second chain whose messages cut the first one's batches, and whose transaction of two
  deltas the first one's messages and notices cut.
* `MaxOps` 5 covers build, roll back, rebuild on the other branch, and return; the 6 of
  `pipeline_account` are a branch of three, its two upper blocks taken back, and two others.
* `CutAt` has cuts between transactions, within the collaborative one, and within one whose
  second part has the dust.
* In `merge` two faults may be a failed flush and a crash that brings its batch back, and the
  correction may fall between the two offers of a batch.
* Four rows over four addresses give chains, stars, cycles and pairs with repeated evidence,
  in every order of arrival.
* In `label` the contradictory pair gives every order of marking and writing, the third label
  a chain that a failed tick may leave out. One fault and one change by an operator meet every
  statement of a pass. Contradictions of three labels are in `label_confirmed`.
* In `query` pages of two make a cluster of four three reads long, with any of the writers'
  steps between them; the cluster joins, splits again by a rollback or a correction, and its
  weak link makes the threshold view differ from the cache. The writers' faults are in `merge`
  and are left out here.
* Deadlock is checked in the runs of Indexer, Consumer, MergeStore, Label and ClusterQuery,
  whose loops wait by
  an action of their own. In Pipeline and Replay the bound on operations or rows ends the
  behaviour.

### Fairness
* Indexer: weak fairness of the loop as a whole. Each call returns an answer or an error,
  backoff and sleep are bounded (main.go:269-297), and there is nothing to wait for. Faults
  and moves of the node are not fair. `Converges` assumes that the node settles, and no
  fault in the window `indexer_hole` shows.
* Consumer: weak fairness of the steps of a flush, of each partition's messages and of the
  ticker. Go's select picks at random among the ready cases, so none is passed over for ever.
* Label: weak fairness of the pass. The ticker goes on firing as long as the server runs, and
  a statement returns or fails (the context ends it after 30 seconds). Faults, time and the
  other writers are not fair.
* MergeStore: `FairSpec` says that an operation begun is finished; a counterexample to
  `IdFollowsMembers` is one under it.

## 4. The proofs

A module's theorems are in `<module>Proofs`; `tlapm <module>Proofs.tla` checks them. They
hold for every value of the constants under the assumptions named below, which are about
the shape of the inputs only.

| Module | Theorem | Property |
|---|---|---|
| IndexerProofs | TypeCorrect | TypeOK |
| | StoredBlocksFormAPath | StoredPath |
| | PublishBeforePersist | LossOnlyByReceiptOrAck |
| | NoHeightSkipped | HoleOnlyByRewind |
| | NoticeBeforeDelete | DeletedRowsWereRevoked (an action property, implied by ImplementsFeed and not in a run of its own) |
| | FeedRefinement | ImplementsFeed (Indexer implements Feed) |
| | NoOrphanStands | OrphanOnlyByPublish |
| | NothingOnRevoked | RevokedOnlyByDelete |
| ConsumerProofs | TypeCorrect | TypeOK |
| | NothingLost | LossOnlyByDropOrPoison |
| | RevocationLasts | RevokedStaysRevoked |
| | TransactionsStayWhole | TxSplitOnlyByFlush, under TxsTogether |
| MergeStoreProofs | CacheFollowsEvidence | StaleOnlyBySkipOrOverlap |
| | RollbackLasts | RolledBackHasNoEvidence |
| | EvidenceIsKept | ProcessedHasEvidence |
| | CorrectionLasts | CorrectedUnlessBroughtAgain |
| | EvidenceIsAppendOnly | AppendOnly |
| | RedeliveryDoesNotShow | RedeliveryIsInvisible |
| ReplayProofs | ClustersAreComponents | SameIdIffLinked |
| | ConfidenceIsConservative | NeverOverstated |
| | ThresholdViewHolds | ThresholdHolds |
| | RedeliveryKeepsTheView | RecordedAgainChangesNothing |
| | RollbackIsLocal | RollbackStaysInItsCluster |
| PipelineProofs | RegistryIsComplete | RegistryCoversRows |
| | FundingHasOneHeight | FundingAtOneHeight |
| | PopularIsNeverMerged | PopularNeverMerged (an action property) |
| | CollaborativeMergesOnlyBySplit | CollaborativeOnlyBySplit |
| | ExcludedHoldsNothing | ExcludedOnlyByCut, under OncePerBranch |
| | RetryRepeats | RetryGeneratesTheSame (an action property) |
| LabelProofs | DecayIsNotRepeated | DecayedOnce |
| | WithdrawnStays | RevivedOnlyByRace |
| | ConflictsAreMarkedWhole | what DetectConflicts marks, of any finite set of rows |
| ClusterQueryProofs | TypeCorrect | TypeOK (with the types of MergeStore's state) |
| | SameClusterIsSound | SameIsNotInvented |
| | PagingIsComplete | MissedOnlyAfterLeave |
| | EvidenceExplains | EvidenceExplainsCluster |
| | ScrapeIsComplete | ScrapeMissesNoRow |

Each module also has its inductive invariant, `IInv` in `Invariance` (`ReplayInv` for Replay),
from which the others follow; Indexer and Pipeline have a second one (`TopicInvariance`,
`ExclusionInvariance`), and so have Consumer (`WholeInv`) and MergeStore (`PassInv`) for one
theorem each. The proof that a step preserves it has a
lemma per conjunct and under it a step per action.

### Indexer
Assumed: `TreeAssumption` (heights are naturals and a parent is one lower) and
`ParameterAssumption` (the parameters are naturals). None of the properties is inductive:
each depends on what the loop holds in its locals between two calls. `IInv` adds what the
code relies on there:

* `CursorInv`: at most one cursor, no stored block above it; while a block is indexed the
  local height is the cursor, while a reorg is handled it is at most the cursor. It is what
  keeps `Persist` from adding a second block of a height.
* `FetchInv`: the block in hand is the next one and its parent is whatever is stored below.
  The node may move after the check; the tables may not, since the loop is their only writer.
* `WalkInv`: every stored block above the walk's position is in the rollback list, although
  the walk may have compared with several chains.
* `NoticeInv`: between notice and deletion the notice is the last message of the topic, unless
  a message was lost. With `WalkInv` it gives `NoticeBeforeDelete`.
* `PublishInv`: what is not left to publish has been published, unless it was lost. It gives
  `PublishBeforePersist`.
* `ContiguousInv`: stored heights run up to the cursor, or to the ancestor it is about to be
  set to, unless a fault hit that window. It gives `NoHeightSkipped`.

The refinement (`FeedStep`) maps `PublishDelta` to `Announce`, `Persist` to `Hold`,
`PublishReorg` to `Revoke`, `DeleteBlocksFromHeight` to `LetGo`, a lost message to `Lose` and
every other step to a stutter. `SaidAppend` says what one more message changes in what the
topic has said of each block: everything the mapping needs to know of sequences. `CursorInv`
and `FetchInv` give `Fits` for the block in hand (`InHandFits`), `WalkInv` that the notice
names stored blocks and, with `NoticeInv`, that deleted ones were revoked.

`TInv` is about what the topic has said: the walk has gone below every block it collected
(`RolledInv`), what stands is stored or the block being published (`StandingInv`), and what
is revoked and stored is about to be deleted or has only revoked blocks above it
(`RevokedInv`), each but for the faults the property names.

### Consumer
Assumed: `LogAssumption` (each partition's log is a finite sequence of messages, in any
order). `SessionInv` says what the loop holds between two calls: deltas in the batcher and in
the drained batch, at most one notice, nothing beyond the fetched position, and the drained
batch before the rest. `CommitInv` bounds the committed offsets by it. `PendingInv` is the
heart of `NothingLost`: whatever was fetched is handled or in hand, unless a batch was dropped
or committed past. `NoticeInv` is that of `RevocationLasts`: a notice carried out lies before
every delta in hand, so that only a delta after it in the log can bring its block back.

`TransactionsStayWhole` has a hypothesis, `TxsTogether`: whatever deltas lie between two deltas
of a transaction are of its block. The property is false of a log that interleaves the
transactions of two blocks. The indexer writes none: a block's messages go out in one call, once
more after a failure, and later only behind a notice, after which they count as another
appearance. `WholeInv` says that offsets are committed, batches begin and runs end where no
transaction is under way (`StartsWhole`, `BatchWhole`, `WorkWhole`), as long as nothing is in
`hit`. The first attempt at this proof failed at a notice of another chain, which flushes the
batch in hand and was missing among the causes; the log of `consumer` has that case now.

### MergeStore
Assumed: `CandAssumption` (a candidate is about two addresses) and `OpsAssumption` (the log is
a finite sequence of batches and notices). `FreshInv` gives `CacheFollowsEvidence`: the cache
is the replay or a rebuild is still to come, and what a rebuild has read is current or the
other actor's is still to come; the ways out of it are a redelivered notice or a failed correction
that skips its rebuild, a failed periodic flush that had recorded rows, and overlapping rebuilds.
`PurgeInv`, `RollbackInv` and `RecordInv` follow a notice
and a batch through their steps and repetitions; `OriginInv` counts where the rows of a
candidate come from, an offer each (`Offers`: operation, place in its batch and try), and gives
`CorrectionLasts`, for batches that offer a candidate twice as well.

`RedeliveryDoesNotShow` compares two replays of different tables: the one the crashes left,
with rows recorded twice, taken back or recorded again, and that of a single pass over the log
(`OncePassed`). A table *tracks* the log (`Tracks`) if each row is at a place of the log
(operation and position in its batch), exactly the candidates that stand have rows, batch after
batch, and no row comes before the first rows of those that precede it in its batch. `TrackedReplay` shows that two such tables have
the same clusters and the same anchors, since neither depends on more than which candidates occur
and in which order they occur first. `PassTracks` shows it of the pass and `RowsTrack` of the
table when the consumer has nothing in hand. `PassInv` is what makes the latter inductive: a
retry records its batch from the beginning again (`FromStart`), and only when it is committed
does the next one begin (`InOrder`); a notice has taken back what it names (`TakenBack`), and all
else is there (`AllThere`). That invariant says that a place exists for every row and is beyond
TLC; the property itself is checked by `merge`.

### Replay
Assumed: `RowAssumption` (rows are about two different addresses, which are numbers; confidences
and thresholds lie between 1 and `Certain`). There is no bound on addresses or rows, nor on their
order. `ReplayInv` has a part per phase of the algorithm:

* `Uniting`, between two unions: parents lead to roots, with ranks that grow on the way, so
  that the recursion of `Find` ends whatever was compressed. Two addresses have the same root
  exactly if the tree edges link them, and exactly if the edges united so far do. The tree edges
  form a forest: taking one away separates its ends.
* `Walking`, between two levels of the walk: the confidence of a member reached is the minimum
  along tree edges from its anchor, by a path on which everybody was reached already.
* `ViewInv`, `AnswerInv`: what was computed last is what the rows call for (`Result`), a
  definition without steps from which the properties follow.
* `HistoryInv`: the same of the view before the last change.

Connectedness is defined by sets closed under the edges, so that a link is refuted by giving a
set and proved by taking an arbitrary one. `RollbackIsLocal` rests on `AgreeResult`: what a
replay yields for a cluster depends on the cluster's own rows only. `RedeliveryKeepsTheView`
rests on the lemmas about `Again`: a second row of the same pair, source and confidence changes
neither the first appearances nor `BySource`. `SumFacts` says what is needed of the noisy-OR: it
is not less than any of its terms. Of rounding, `RoundingAssumption` says only that it keeps the
order; a minimum along a path may then be taken before or after it.

### Pipeline
Assumed: `ChainAssumption` (blocks are finite sequences of deltas about known addresses, a
height is one more than the parent's, cuts lie within their block) and `ParameterAssumption`
(the ranges of the parameters). The chain, the deltas and the cuts are otherwise arbitrary.

The engines are made of filters and concatenations, so the lemmas come first: `PickFacts` and
`FlattenFacts` say which elements these return, `GroupFacts` what GroupByTx returns, and one
lemma per engine (`CommonInputYields` to `PairsYield`) that its candidates are about addresses
of the batch and, for funding, about one first registered at this height. `IInv` then has a
part per table and stage:

* `RegisterInv`: while the upserts go on, an address of the batch is registered or still in
  the list; what is committed of the block is registered unless a batch of it was given up.
  It is why a crash between inserts and upserts is made good by the retry.
* `RowInv` and `RegistryCoversRows`: a row is of a delta of its block.
* `HubInv`: after MarkHubs every popular address of the batch is marked. With `CandInv` (no
  candidate is about an address from outside the batch) it gives `PopularIsNeverMerged`.
* `FundingInv`: the recipient of funding evidence is registered at its height, and stays so.

The second half of the module follows the exclusions. `StageInv` says what the stages behind have excluded
and flagged; `CutInv` that a transaction within which a batch begins or ends is in `split`, and that the blocks
form a branch;
`RetryInv` that, once an attempt has generated its candidates, another one with the same end
finds nothing more to exclude or flag; `PlaceInv` where active evidence may come from.
`CollaborativeMergesOnlyBySplit` holds of every chain and every cut; `GroupOfTx` and `WholeInBatch`
show that a transaction within which no batch ends is the same sequence of deltas in its batch and
in its block. `ExcludedHoldsNothing` has a hypothesis, `OncePerBranch`: no branch mines a
transaction twice, which is a rule of the chains and true of the instance of `pipeline_utxo`.

`RetryRepeats` has no hypothesis. `ProgressInv` says that what the engines have yielded so far
is a function of the batch and the tables (`Gathered`), `AgainInv` that after the first attempt
every row of the batch is stored and every popular address marked. Hence, without labels,
nothing that an engine reads changes during the second attempt (`NothingNew`), and each engine
yields the same from the same tables (`EnginesRepeat`).

### Label
Assumed: `LabelAssumption` (a label is of one chain, labels of a target share it). `PassInv`
says what a pass holds, `WorkInv` that what it has still to write belongs to the chain in hand,
was live when it was read and is so still unless somebody wrote it since.
`ConflictsAreMarkedWhole` is about the operator alone: the comparison of categories per target
marks a label exactly when another live one contradicts it.

### ClusterQuery
Assumed: `StoreAssumption` (those of MergeStore, and finitely many addresses) and
`QueryAssumption` (addresses have distinct ranks, limits are positive). The proofs rest on
lemmas about the operators the readers use:

* what a replay yields: the id of a cluster is one of its members (`ReplayClusters`) and the
  rows it was made from link its members (`ReplayLinks`). `Replay` is defined by sets closed
  under the links, so that both follow from the definition without induction;
* what a page holds: members are at consecutive places (`PlaceTaken`) and more members move
  nobody to an earlier one (`BeforeGrows`);
* what `ScanActive` returns is drawn from rows of the table (`ScanIsDrawn`).

The invariant has a part per kind of request. `SameInv` keeps that the first read found a
cluster; `PageInv` that a member not yet listed is at the offset or later, unless it or one before
it left; `EvidenceInv` that the table accounts for the clusters read, since rows are never
removed; `ScrapeInv` that a row not counted as active by now is invalidated for good. `CacheInv`
says that the cache, and what a rebuild has read, is supported by rows of the table.

### Induction
The provers cannot apply an induction theorem to a property given as an operator.
`NaturalLemmas` replaces it by the least member of a set of naturals: the counterexamples of a
claim form a set, and its least member is refuted. That the recursive functions behind `Pick`,
`FlattenSeq` and `Find` exist, and what they return, is proved that way; for `Find` the
number is how far a rank is below the greatest one.

### Only model-checked
* All liveness (`Converges`, `EventuallyProcessed`, `ContradictionsSettle`,
  `OverdueIsDecayed`): fairness and ENABLED are out of the prover's reach.
* `FundedIsNewUnlessOrphaned` of Pipeline: it relates evidence, rows and the chain at once, and
  an invariant for it would have to follow each row's block through every reorganisation.
* The properties of the violation runs and of the table of known differences, which fail.

## 5. Not modelled

* Bitcoin adapter: returns errors and no loop runs it. The UTXO side of the cluster program
  is modelled all the same, from the deltas it accepts.
* Configuration, the indexer's metrics, logging, wiring of the processes, number conversion
  helpers: no state of their own, or read once at the start.
* Of the query service, the requests that are one read (cluster_of, labels_of, hub_status,
  evidence between two addresses) and the parsing of parameters; of the collector, the
  count of labels and the registration of the metrics.
* Database isolation below a statement, and messages a broker duplicates or reorders within a
  partition.
* `GetCursor`, `SetCursor`, `GetDeltasByTx` and `GetDeltasByBlock` of the ingestor: nobody
  calls them.
* The mean of a cluster's confidences, the reasons and confidences of exclusions, and the
  audit log's contents (its failure is one of the faults).

## 6. Plan

1. Receipts as data of their own: the receipt of a transaction mined in another block than
   the one fetched (blockchain-indexer/cmd/indexer/main.go:188).
2. A composition of Feed with Consumer, in which the consumer's evidence is of blocks the
   indexer holds.
3. Theorems: that `TxsTogether` holds of every topic Indexer writes, for which the topic would
   have to tell the deltas of a transaction apart; that what `extractDeltas` yields adds up to
   zero.
