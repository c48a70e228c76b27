------------------------------- MODULE Indexer -------------------------------
(***************************************************************************)
(* The account-chain loop of blockchain-indexer: runEthereumLoop,          *)
(* persistBlockAndCursor and handleReorg of cmd/indexer/main.go, with the  *)
(* reorg detector, the block and cursor tables and the publisher they      *)
(* call.  One chain is modelled; chains share nothing but the topic, whose *)
(* partition key is the chain.                                             *)
(*                                                                         *)
(* A block stands for its hash: Height and Parent are functions of it.     *)
(* A step of the loop ends at a call that can fail or after which the      *)
(* chain node may have moved; the database has this loop as only writer,   *)
(* so a read of it is joined to the node call it follows.                  *)
(***************************************************************************)
EXTENDS Integers, Sequences

CONSTANTS
    Block,          \* every block some node may ever report
    Height,         \* [Block -> Nat]
    Parent,         \* [Block -> Block]: parent_hash, no meaning at height 0
    NTx,            \* [Block -> Nat]: transactions in the block that move assets
    NoBlock,        \* the value of the local "block" when none is held
    StartHeight,    \* chain_config.start_height, 0 when not set
    MaxMoves,       \* bound: how often the node changes its chain
    MaxFaults       \* bound: how many faults happen

Steps == {"top", "fetch", "extract", "publish", "walk", "notice", "delete", "rewind"}

ASSUME TreeAssumption ==
    /\ Height \in [Block -> Nat]
    /\ Parent \in [Block -> Block]
    /\ NTx \in [Block -> Nat]
    /\ \A b \in Block : Height[b] > 0 => Height[Parent[b]] = Height[b] - 1
    /\ NoBlock \notin Block

ASSUME ParameterAssumption ==
    /\ StartHeight \in Nat
    /\ MaxMoves \in Nat
    /\ MaxFaults \in Nat

VARIABLES
    chain,   \* the node's canonical chain, a set of blocks (external)
    rows,    \* table block: the stored blocks
    cursor,  \* table cursor: {} or {height}
    topic,   \* the chain's partition of balance-deltas
    pc,      \* where the loop is
    height,  \* local: the cursor read at the top, then FindRollback's h
    blk,     \* local: the block fetched
    todo,    \* local: positions of the transactions still to be published
    rolled,  \* local: FindRollback's rolledBack
    moves,   \* how often the node has moved
    faults,  \* how many faults have happened
    hit      \* at which steps they have happened

durable == <<rows, cursor, topic>>
locals == <<pc, height, blk, todo, rolled>>
vars == <<chain, rows, cursor, topic, pc, height, blk, todo, rolled, moves, faults, hit>>

-----------------------------------------------------------------------------
(* The chain node: any parent-closed path of the block tree. *)

Chains ==
    {C \in SUBSET Block :
        /\ C # {}
        /\ \A b \in C : Height[b] > 0 => Parent[b] \in C
        /\ \A b, c \in C : Height[b] = Height[c] => b = c}

IsTip(b) == b \in chain /\ \A c \in chain : Height[c] <= Height[b]

(* The node adopts another chain: growth, a reorganisation, or the answer  *)
(* of another, lagging backend.                                            *)
NodeMoves ==
    /\ moves < MaxMoves
    /\ chain' \in Chains \ {chain}
    /\ moves' = moves + 1
    /\ UNCHANGED <<durable, locals, faults, hit>>

-----------------------------------------------------------------------------
(* Messages of the topic. *)

BalanceDelta(b, n) == [type |-> "balance_delta", block |-> b, tx |-> n]
ReorgEvent(bs) == [type |-> "reorg", hashes |-> bs]

Message == [type : {"balance_delta"}, block : Block, tx : Nat]
             \cup [type : {"reorg"}, hashes : SUBSET Block]

-----------------------------------------------------------------------------
Init ==
    /\ chain \in Chains
    /\ rows = {}
    /\ cursor = {}
    /\ topic = <<>>
    /\ pc = "top"
    /\ height = 0
    /\ blk = NoBlock
    /\ todo = {}
    /\ rolled = {}
    /\ moves = 0
    /\ faults = 0
    /\ hit = {}

(* Back to the top of the loop, where no local survives. *)
Restart ==
    /\ pc' = "top"
    /\ height' = 0
    /\ blk' = NoBlock
    /\ todo' = {}
    /\ rolled' = {}

(* GetCursor: the stored height, or where a first start begins. *)
CursorOr(latest) ==
    IF cursor # {} THEN cursor
    ELSE {IF StartHeight > 0 THEN StartHeight - 1 ELSE latest - 1}

(* Mutant of Poll: the newest block is left for later. *)
PollLagging ==
    /\ pc = "top"
    /\ \E tip \in chain : IsTip(tip) /\ \E h \in CursorOr(Height[tip]) :
          \/ h + 1 < Height[tip] /\ height' = h /\ pc' = "fetch"
          \/ h + 1 = Height[tip] /\ UNCHANGED <<height, pc>>
    /\ UNCHANGED <<chain, durable, blk, todo, rolled, moves, faults, hit>>

(* LatestHeight and GetCursor find a block left to index. *)
Poll ==
    /\ pc = "top"
    /\ \E tip \in chain : IsTip(tip) /\ \E h \in CursorOr(Height[tip]) :
          h < Height[tip] /\ height' = h
    /\ pc' = "fetch"
    /\ UNCHANGED <<chain, durable, blk, todo, rolled, moves, faults, hit>>

(* ... or none: the loop sleeps. *)
Sleep ==
    /\ pc = "top"
    /\ \E tip \in chain : IsTip(tip) /\ \E h \in CursorOr(Height[tip]) :
          h >= Height[tip]
    /\ UNCHANGED vars

(* GetBlockAtHeight: any row of that height, the index is not unique. *)
StoredAt(h) == {r \in rows : Height[r] = h}

(* Mutant of IsContinuous: only the presence of a parent row is checked. *)
IsContinuousIfStored(b, stored) == stored \in Block

IsContinuous(b, stored) == stored = Parent[b]

(* Mutant of FetchBlock: the block is checked but not kept. *)
FetchBlockDropped ==
    /\ pc = "fetch"
    /\ \E b \in chain : Height[b] = height + 1
    /\ pc' = "extract"
    /\ UNCHANGED <<chain, durable, height, blk, todo, rolled, moves, faults, hit>>

(* FetchBlock(height + 1), then IsContinuous against the stored parent. *)
FetchBlock ==
    /\ pc = "fetch"
    /\ \E b \in chain :
          /\ Height[b] = height + 1
          /\ \/ /\ StoredAt(height) = {}
                /\ pc' = "extract"
             \/ \E stored \in StoredAt(height) :
                   pc' = IF IsContinuous(b, stored) THEN "extract" ELSE "walk"
          /\ blk' = b
    /\ UNCHANGED <<chain, durable, height, todo, rolled, moves, faults, hit>>

(* The node no longer has a block of the height asked for. *)
NodeLacksHeight ==
    /\ \/ pc = "fetch" /\ \A b \in chain : Height[b] # height + 1
       \/ pc = "walk" /\ StoredAt(height) # {} /\ \A b \in chain : Height[b] # height
    /\ Restart
    /\ UNCHANGED <<chain, durable, moves, faults, hit>>

(* A fault at step p. *)
Hit(p) ==
    /\ faults < MaxFaults
    /\ faults' = faults + 1
    /\ hit' = hit \cup {p}

(* Extract over the block's transactions.  One that cannot be extracted is *)
(* logged and skipped, and the loop carries on with the others.            *)
Extract ==
    /\ pc = "extract"
    /\ \E ok \in SUBSET (1..NTx[blk]) :
          /\ \/ ok = 1..NTx[blk] /\ UNCHANGED <<faults, hit>>
             \/ ok # 1..NTx[blk] /\ Hit("receipt")
          /\ todo' = ok
    /\ pc' = "publish"
    /\ UNCHANGED <<chain, durable, height, blk, rolled, moves>>

(* The writer appends a message, or the message is lost and the writer     *)
(* does not know: it asks the broker for no acknowledgement.               *)
WriteMessage(m) ==
    \/ topic' = Append(topic, m) /\ UNCHANGED <<faults, hit>>
    \/ Hit("ack") /\ UNCHANGED topic

(* PublishDeltas: the block's messages are written in order. *)
PublishDelta ==
    /\ pc = "publish"
    /\ \E n \in todo :
          /\ \A m \in todo : n <= m
          /\ WriteMessage(BalanceDelta(blk, n))
          /\ todo' = todo \ {n}
    /\ UNCHANGED <<chain, rows, cursor, pc, height, blk, rolled, moves>>

(* Mutant of Persist: it does not wait for PublishDeltas to succeed. *)
PersistEarly ==
    /\ pc = "publish"
    /\ rows' = rows \cup {blk}
    /\ cursor' = {height + 1}
    /\ Restart
    /\ UNCHANGED <<chain, topic, moves, faults, hit>>

(* persistBlockAndCursor: InsertBlock, a no-op on a stored hash, and       *)
(* UpsertCursor in one database transaction.                               *)
Persist ==
    /\ pc = "publish"
    /\ todo = {}
    /\ rows' = rows \cup {blk}
    /\ cursor' = {height + 1}
    /\ Restart
    /\ UNCHANGED <<chain, topic, moves, faults, hit>>

(* FindRollback, one height: stop where nothing is stored or the node has  *)
(* the stored block, else remember the block and go one lower.             *)
FindRollback ==
    /\ pc = "walk"
    /\ \/ /\ StoredAt(height) = {}
          /\ pc' = "notice"
          /\ UNCHANGED <<height, rolled>>
       \/ \E stored \in StoredAt(height), b \in chain :
             /\ Height[b] = height
             /\ IF stored = b
                THEN pc' = "notice" /\ UNCHANGED <<height, rolled>>
                ELSE /\ rolled' = rolled \cup {stored}
                     /\ height' = height - 1
                     /\ UNCHANGED pc
    /\ UNCHANGED <<chain, durable, blk, todo, moves, faults, hit>>

(* Mutant of PublishReorg: the notice is not sent. *)
PublishReorgSkipped ==
    /\ pc = "notice"
    /\ pc' = "delete"
    /\ UNCHANGED <<chain, durable, height, blk, todo, rolled, moves, faults, hit>>

(* handleReorg: the notice first ... *)
PublishReorg ==
    /\ pc = "notice"
    /\ WriteMessage(ReorgEvent(rolled))
    /\ pc' = "delete"
    /\ UNCHANGED <<chain, rows, cursor, height, blk, todo, rolled, moves>>

(* Mutants of DeleteBlocksFromHeight: off by one, either way. *)
DeleteAncestorToo ==
    /\ pc = "delete"
    /\ rows' = {r \in rows : Height[r] < height}
    /\ pc' = "rewind"
    /\ UNCHANGED <<chain, cursor, topic, height, blk, todo, rolled, moves, faults, hit>>

DeleteAboveNext ==
    /\ pc = "delete"
    /\ rows' = {r \in rows : Height[r] <= height + 1}
    /\ pc' = "rewind"
    /\ UNCHANGED <<chain, cursor, topic, height, blk, todo, rolled, moves, faults, hit>>

(* ... then the orphans' rows ... *)
DeleteBlocksFromHeight ==
    /\ pc = "delete"
    /\ rows' = {r \in rows : Height[r] < height + 1}
    /\ pc' = "rewind"
    /\ UNCHANGED <<chain, cursor, topic, height, blk, todo, rolled, moves, faults, hit>>

(* Mutant of RewindCursor: the cursor is put on the first orphan. *)
RewindCursorShort ==
    /\ pc = "rewind"
    /\ cursor' = {height + 1}
    /\ Restart
    /\ UNCHANGED <<chain, rows, topic, moves, faults, hit>>

(* ... then the cursor, in a statement of its own. *)
RewindCursor ==
    /\ pc = "rewind"
    /\ cursor' = {height}
    /\ Restart
    /\ UNCHANGED <<chain, rows, topic, moves, faults, hit>>

(* A call returns an error and the loop starts over, or the process dies   *)
(* and is started again: either way only the durable state is left.  A     *)
(* call whose effect took place but whose answer is lost fails at the step *)
(* that follows it.                                                        *)
Fault ==
    /\ pc # "top"
    /\ Hit(pc)
    /\ Restart
    /\ UNCHANGED <<chain, durable, moves>>

Loop ==
    \/ Poll \/ Sleep \/ FetchBlock \/ NodeLacksHeight
    \/ Extract \/ PublishDelta \/ Persist
    \/ FindRollback \/ PublishReorg \/ DeleteBlocksFromHeight \/ RewindCursor

Next == Loop \/ NodeMoves \/ Fault

Spec == Init /\ [][Next]_vars

(* The loop never blocks for good: every call has an outcome, and backoff  *)
(* and sleep are bounded (main.go:269-297).                                *)
FairSpec == Spec /\ WF_vars(Loop)
-----------------------------------------------------------------------------
(* Every variable keeps its type. *)
TypeOK ==
    /\ chain \in Chains
    /\ rows \subseteq Block
    /\ cursor \subseteq Int
    /\ topic \in Seq(Message)
    /\ pc \in Steps
    /\ height \in Int
    /\ blk \in Block \cup {NoBlock}
    /\ pc # "top" /\ pc # "fetch" => blk \in Block
    /\ todo \subseteq Nat
    /\ rolled \subseteq Block
    /\ moves \in Nat
    /\ faults \in Nat
    /\ hit \subseteq Steps \cup {"receipt", "ack"}

(* A reader of the topic counts a delta as standing until a notice that    *)
(* names its block follows it.                                             *)
Revokes(m, b) == m.type = "reorg" /\ b \in m.hashes

IsDeltaOf(m, b) == m.type = "balance_delta" /\ m.block = b

Standing(b) ==
    \E i \in DOMAIN topic :
        /\ IsDeltaOf(topic[i], b)
        /\ \A j \in (i + 1)..Len(topic) : ~Revokes(topic[j], b)

Revoked(b) ==
    \E i \in DOMAIN topic :
        /\ Revokes(topic[i], b)
        /\ \A j \in (i + 1)..Len(topic) : ~IsDeltaOf(topic[j], b)

(* The block table has no unique index on the height, and GetBlockAtHeight *)
(* takes the first row it gets: still, whatever faults and reorganisations *)
(* happen, no two stored blocks share a height, and a stored block whose   *)
(* lower neighbour is stored has it as parent.                             *)
StoredPath ==
    \A r, s \in rows :
        /\ Height[r] = Height[s] => r = s
        /\ Height[s] = Height[r] + 1 => Parent[s] = r

(* A row leaves the table only after a notice naming its block has been    *)
(* published, with no delta of the block after it (main.go:253, "notice    *)
(* first"): a consumer never keeps what the indexer has forgotten, unless  *)
(* the broker lost a message.                                              *)
DeletedRowsWereRevoked ==
    [][\A b \in rows \ rows' : "ack" \in hit \/ Revoked(b)]_vars

(* A transaction's deltas are in the topic before its block is stored and  *)
(* the cursor passes it (FR-16).                                           *)
StoredFullyPublished ==
    \A b \in rows : \A n \in 1..NTx[b] :
        \E i \in DOMAIN topic : topic[i] = BalanceDelta(b, n)

(* ... unless a receipt could not be read or the broker lost a message,    *)
(* the only steps that lose one.                                           *)
LossOnlyByReceiptOrAck == hit \cap {"receipt", "ack"} = {} => StoredFullyPublished

(* Between two stored blocks every height is stored: none was skipped      *)
(* after a rollback (main.go:242, "re-extracted from ancestor + 1").       *)
NoHole ==
    \A r, s \in rows : \A h \in Height[r]..Height[s] : StoredAt(h) # {}

(* ... unless the loop stopped between DeleteBlocksFromHeight and          *)
(* UpsertCursor, the one window that skips heights.                        *)
HoleOnlyByRewind == "rewind" \notin hit => NoHole

(* A block at or below the cursor whose deltas still stand in the topic is *)
(* stored, so a later reorganisation can find and announce it.             *)
StandingIsStored ==
    \A b \in Block, c \in cursor : Height[b] <= c /\ Standing(b) => b \in rows

(* ... unless the loop stopped between PublishDeltas and                   *)
(* persistBlockAndCursor, or a notice was lost.                            *)
OrphanOnlyByPublish == hit \cap {"publish", "ack"} = {} => StandingIsStored

(* docs/03-extraction-and-reorg-algorithms.md:168, "the indexer must give  *)
(* this notice without omission": a block the node has left, at or below   *)
(* the cursor, whose deltas still stand in the topic, is stored, so that   *)
(* the loop can still find it and announce that it is gone.                *)
AbandonedCanBeRevoked ==
    \A b \in Block \ chain, c \in cursor :
        Height[b] <= c /\ Standing(b) => b \in rows

(* No block is indexed on top of a stored block the indexer has revoked    *)
(* and not published again.                                                *)
NoRevokedBelow ==
    \A r, s \in rows :
        Height[r] < Height[s] /\ NTx[r] > 0 /\ Revoked(r) => Revoked(s)

(* ... unless the loop stopped between the notice and the deletion, or a   *)
(* republished block lost its deltas.                                      *)
RevokedOnlyByDelete ==
    hit \cap {"delete", "receipt", "ack"} = {} => NoRevokedBelow

(* What the topic has said of a block last. *)
Said(b) ==
    IF Standing(b) THEN "stands" ELSE IF Revoked(b) THEN "revoked" ELSE "nothing"

F == INSTANCE Feed WITH
    said <- [b \in Block |-> Said(b)], held <- rows, sound <- "ack" \notin hit

(* The loop implements what the topic promises: whatever the node does and *)
(* wherever the loop stops, what is announced and stored continues what is *)
(* stored, a notice names stored blocks only, and a block is forgotten     *)
(* only after its notice.                                                  *)
ImplementsFeed == F!Spec

(* Once the node settles on a chain longer than any other, the table ends  *)
(* up holding blocks of that chain only and the cursor at its tip, even if *)
(* the loop was ahead on a branch the node abandoned.                      *)
Settled == \E b \in chain : \A c \in Block \ {b} : Height[c] < Height[b]

Synced ==
    /\ rows \subseteq chain
    /\ \E tip \in chain : IsTip(tip) /\ cursor = {Height[tip]}

Converges == ([]("rewind" \notin hit) /\ <>[]Settled) => <>[]Synced
=============================================================================
