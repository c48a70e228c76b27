---------------------------- MODULE IndexerProofs ----------------------------
(***************************************************************************)
(* Theorems about the indexer loop, for every block tree, every start      *)
(* height and any number of node moves and faults.  All of them rest on    *)
(* one inductive invariant, IInv.                                          *)
(***************************************************************************)
EXTENDS Indexer, TLAPS

(* The cursor table has at most one row and no stored block above it; the  *)
(* local height is the cursor while a block is indexed and at most the     *)
(* cursor while a reorganisation is handled.                               *)
CursorInv ==
    /\ \A c, d \in cursor : c = d
    /\ \A r \in rows : \E c \in cursor : Height[r] <= c
    /\ pc \in {"fetch", "extract", "publish"} => \A c \in cursor : c = height
    /\ pc \in {"walk", "notice", "delete", "rewind"} =>
          cursor # {} /\ \A c \in cursor : height <= c

(* The block in hand is the next one and continues what is stored. *)
FetchInv ==
    pc \in {"extract", "publish"} =>
        /\ Height[blk] = height + 1
        /\ \A r \in rows : Height[r] = height => Parent[blk] = r

(* FindRollback has collected every stored block above its position, and   *)
(* stored blocks only.                                                     *)
WalkInv ==
    /\ pc \in {"top", "fetch", "extract", "publish"} => rolled = {}
    /\ pc \in {"walk", "notice", "delete"} => rolled \subseteq rows
    /\ pc \in {"walk", "notice", "delete"} =>
          \A r \in rows : Height[r] > height => r \in rolled
    /\ pc = "rewind" => \A r \in rows : Height[r] <= height

(* Rows are deleted right after the notice, if it was not lost. *)
NoticeInv ==
    pc = "delete" /\ "ack" \notin hit =>
        /\ Len(topic) \in DOMAIN topic
        /\ topic[Len(topic)] = ReorgEvent(rolled)

Published(b, n) == \E i \in DOMAIN topic : topic[i] = BalanceDelta(b, n)

(* What is no longer to be published has been published. *)
PublishInv ==
    hit \cap {"receipt", "ack"} = {} /\ pc = "publish" =>
        \A n \in 1..NTx[blk] : n \in todo \/ Published(blk, n)

(* Stored heights are contiguous up to the cursor, or up to the ancestor   *)
(* the cursor is about to be set to.                                       *)
ContiguousInv ==
    "rewind" \notin hit =>
        /\ pc # "rewind" => \A r \in rows, c \in cursor :
               \A h \in Height[r]..c : StoredAt(h) # {}
        /\ pc = "rewind" => \A r \in rows :
               \A h \in Height[r]..height : StoredAt(h) # {}

IInv ==
    /\ TypeOK
    /\ StoredPath
    /\ CursorInv
    /\ FetchInv
    /\ WalkInv
    /\ NoticeInv
    /\ PublishInv
    /\ LossOnlyByReceiptOrAck
    /\ ContiguousInv
-----------------------------------------------------------------------------
(* The types of the messages the loop appends. *)
LEMMA MessageType ==
    /\ \A b \in Block, n \in Nat : BalanceDelta(b, n) \in Message
    /\ \A bs \in SUBSET Block : ReorgEvent(bs) \in Message
BY DEF BalanceDelta, ReorgEvent, Message

(* A message is appended, or lost and remembered as such. *)
LEMMA WriteFacts ==
    ASSUME TypeOK, NEW m \in Message, WriteMessage(m)
    PROVE  /\ topic' \in Seq(Message)
           /\ faults' \in Nat
           /\ hit' \subseteq Steps \cup {"receipt", "ack"}
           /\ \/ topic' = Append(topic, m) /\ hit' = hit
              \/ topic' = topic /\ hit' = hit \cup {"ack"}
<1> USE DEF TypeOK
<1>1. CASE topic' = Append(topic, m) /\ UNCHANGED <<faults, hit>>
  BY <1>1
<1>2. CASE Hit("ack") /\ UNCHANGED topic
  BY <1>2 DEF Hit
<1> QED
  BY <1>1, <1>2 DEF WriteMessage

(* Every step preserves the types. *)
LEMMA TypeStep == TypeOK /\ [Next]_vars => TypeOK'
<1> SUFFICES ASSUME TypeOK, [Next]_vars PROVE TypeOK'
  OBVIOUS
<1> USE TreeAssumption, ParameterAssumption DEF TypeOK, Steps, durable, locals
<1>1. CASE NodeMoves
  BY <1>1 DEF NodeMoves
<1>2. CASE Poll
  BY <1>2 DEF Poll, IsTip, CursorOr, Chains
<1>3. CASE Sleep
  BY <1>3 DEF Sleep, vars
<1>4. CASE FetchBlock
  BY <1>4 DEF FetchBlock, Chains
<1>5. CASE NodeLacksHeight
  BY <1>5 DEF NodeLacksHeight, Restart
<1>6. CASE Extract
  <2>1. PICK ok \in SUBSET (1..NTx[blk]) :
          /\ todo' = ok
          /\ faults' \in Nat
          /\ hit' \in {hit, hit \cup {"receipt"}}
    BY <1>6 DEF Extract, Hit
  <2>2. todo' \subseteq Nat
    BY <2>1
  <2> QED
    BY <1>6, <2>1, <2>2 DEF Extract
<1>7. CASE PublishDelta
  <2>1. PICK n \in todo : WriteMessage(BalanceDelta(blk, n)) /\ todo' = todo \ {n}
    BY <1>7 DEF PublishDelta
  <2>2. BalanceDelta(blk, n) \in Message
    BY <1>7, MessageType DEF PublishDelta
  <2> QED
    BY <1>7, <2>1, <2>2, WriteFacts DEF PublishDelta
<1>8. CASE Persist
  BY <1>8 DEF Persist, Restart
<1>9. CASE FindRollback
  BY <1>9 DEF FindRollback, StoredAt
<1>10. CASE PublishReorg
  <2>1. ReorgEvent(rolled) \in Message
    BY MessageType
  <2> QED
    BY <1>10, <2>1, WriteFacts DEF PublishReorg
<1>11. CASE DeleteBlocksFromHeight
  BY <1>11 DEF DeleteBlocksFromHeight
<1>12. CASE RewindCursor
  BY <1>12 DEF RewindCursor, Restart
<1>13. CASE Fault
  BY <1>13 DEF Fault, Restart, Hit
<1>14. CASE UNCHANGED vars
  BY <1>14 DEF vars
<1> QED
  BY <1>1, <1>2, <1>3, <1>4, <1>5, <1>6, <1>7, <1>8, <1>9, <1>10, <1>11, <1>12, <1>13, <1>14 DEF Next, Loop

(* Type correctness of the loop. *)
THEOREM TypeCorrect == Spec => []TypeOK
<1>1. Init => TypeOK
  BY TreeAssumption, ParameterAssumption DEF Init, TypeOK, Steps
<1>2. QED
  BY <1>1, TypeStep, PTL DEF Spec

(* The cursor stays above the stored blocks. *)
LEMMA CursorStep == IInv /\ [Next]_vars => CursorInv'
<1> SUFFICES ASSUME IInv, [Next]_vars PROVE CursorInv'
  OBVIOUS
<1> USE TreeAssumption DEF IInv, TypeOK, Steps, durable, locals, CursorInv, WalkInv, FetchInv
<1>1. CASE NodeMoves
  BY <1>1 DEF NodeMoves
<1>2. CASE Poll
  BY <1>2 DEF Poll, CursorOr
<1>3. CASE Sleep
  BY <1>3 DEF Sleep, vars
<1>4. CASE FetchBlock
  BY <1>4 DEF FetchBlock, StoredAt, IsContinuous
<1>5. CASE NodeLacksHeight
  BY <1>5 DEF NodeLacksHeight, Restart
<1>6. CASE Extract
  BY <1>6 DEF Extract, Hit
<1>7. CASE PublishDelta
  BY <1>7 DEF PublishDelta, WriteMessage, Hit
<1>8. CASE Persist
  BY <1>8 DEF Persist, Restart
<1>9. CASE FindRollback
  BY <1>9 DEF FindRollback, StoredAt
<1>10. CASE PublishReorg
  BY <1>10 DEF PublishReorg, WriteMessage, Hit
<1>11. CASE DeleteBlocksFromHeight
  BY <1>11 DEF DeleteBlocksFromHeight
<1>12. CASE RewindCursor
  BY <1>12 DEF RewindCursor, Restart
<1>13. CASE Fault
  BY <1>13 DEF Fault, Restart, Hit
<1>14. CASE UNCHANGED vars
  BY <1>14 DEF vars
<1> QED
  BY <1>1, <1>2, <1>3, <1>4, <1>5, <1>6, <1>7, <1>8, <1>9, <1>10, <1>11, <1>12, <1>13, <1>14 DEF Next, Loop

(* A fetched block continues the stored ones until it is stored itself. *)
LEMMA FetchStep == IInv /\ [Next]_vars => FetchInv'
<1> SUFFICES ASSUME IInv, [Next]_vars PROVE FetchInv'
  OBVIOUS
<1> USE TreeAssumption DEF IInv, TypeOK, Steps, durable, locals, FetchInv, StoredPath, CursorInv
<1>1. CASE NodeMoves
  BY <1>1 DEF NodeMoves
<1>2. CASE Poll
  BY <1>2 DEF Poll, CursorOr
<1>3. CASE Sleep
  BY <1>3 DEF Sleep, vars
<1>4. CASE FetchBlock
  BY <1>4 DEF FetchBlock, StoredAt, IsContinuous
<1>5. CASE NodeLacksHeight
  BY <1>5 DEF NodeLacksHeight, Restart
<1>6. CASE Extract
  BY <1>6 DEF Extract, Hit
<1>7. CASE PublishDelta
  BY <1>7 DEF PublishDelta, WriteMessage, Hit
<1>8. CASE Persist
  BY <1>8 DEF Persist, Restart
<1>9. CASE FindRollback
  BY <1>9 DEF FindRollback, StoredAt
<1>10. CASE PublishReorg
  BY <1>10 DEF PublishReorg, WriteMessage, Hit
<1>11. CASE DeleteBlocksFromHeight
  BY <1>11 DEF DeleteBlocksFromHeight
<1>12. CASE RewindCursor
  BY <1>12 DEF RewindCursor, Restart
<1>13. CASE Fault
  BY <1>13 DEF Fault, Restart, Hit
<1>14. CASE UNCHANGED vars
  BY <1>14 DEF vars
<1> QED
  BY <1>1, <1>2, <1>3, <1>4, <1>5, <1>6, <1>7, <1>8, <1>9, <1>10, <1>11, <1>12, <1>13, <1>14 DEF Next, Loop

(* Stored blocks stay a path. *)
LEMMA PathStep == IInv /\ [Next]_vars => StoredPath'
<1> SUFFICES ASSUME IInv, [Next]_vars PROVE StoredPath'
  OBVIOUS
<1> USE TreeAssumption DEF IInv, TypeOK, Steps, durable, locals, StoredPath, CursorInv, FetchInv
<1>1. CASE NodeMoves
  BY <1>1 DEF NodeMoves
<1>2. CASE Poll
  BY <1>2 DEF Poll, CursorOr
<1>3. CASE Sleep
  BY <1>3 DEF Sleep, vars
<1>4. CASE FetchBlock
  BY <1>4 DEF FetchBlock, StoredAt, IsContinuous
<1>5. CASE NodeLacksHeight
  BY <1>5 DEF NodeLacksHeight, Restart
<1>6. CASE Extract
  BY <1>6 DEF Extract, Hit
<1>7. CASE PublishDelta
  BY <1>7 DEF PublishDelta, WriteMessage, Hit
<1>8. CASE Persist
  BY <1>8 DEF Persist, Restart
<1>9. CASE FindRollback
  BY <1>9 DEF FindRollback, StoredAt
<1>10. CASE PublishReorg
  BY <1>10 DEF PublishReorg, WriteMessage, Hit
<1>11. CASE DeleteBlocksFromHeight
  BY <1>11 DEF DeleteBlocksFromHeight
<1>12. CASE RewindCursor
  BY <1>12 DEF RewindCursor, Restart
<1>13. CASE Fault
  BY <1>13 DEF Fault, Restart, Hit
<1>14. CASE UNCHANGED vars
  BY <1>14 DEF vars
<1> QED
  BY <1>1, <1>2, <1>3, <1>4, <1>5, <1>6, <1>7, <1>8, <1>9, <1>10, <1>11, <1>12, <1>13, <1>14 DEF Next, Loop

(* The walk misses no stored block. *)
LEMMA WalkStep == IInv /\ [Next]_vars => WalkInv'
<1> SUFFICES ASSUME IInv, [Next]_vars PROVE WalkInv'
  OBVIOUS
<1> USE TreeAssumption DEF IInv, TypeOK, Steps, durable, locals, WalkInv, CursorInv, StoredPath
<1>1. CASE NodeMoves
  BY <1>1 DEF NodeMoves
<1>2. CASE Poll
  BY <1>2 DEF Poll, CursorOr
<1>3. CASE Sleep
  BY <1>3 DEF Sleep, vars
<1>4. CASE FetchBlock
  BY <1>4 DEF FetchBlock, StoredAt, IsContinuous
<1>5. CASE NodeLacksHeight
  BY <1>5 DEF NodeLacksHeight, Restart
<1>6. CASE Extract
  BY <1>6 DEF Extract, Hit
<1>7. CASE PublishDelta
  BY <1>7 DEF PublishDelta, WriteMessage, Hit
<1>8. CASE Persist
  BY <1>8 DEF Persist, Restart
<1>9. CASE FindRollback
  BY <1>9 DEF FindRollback, StoredAt
<1>10. CASE PublishReorg
  BY <1>10 DEF PublishReorg, WriteMessage, Hit
<1>11. CASE DeleteBlocksFromHeight
  BY <1>11 DEF DeleteBlocksFromHeight
<1>12. CASE RewindCursor
  BY <1>12 DEF RewindCursor, Restart
<1>13. CASE Fault
  BY <1>13 DEF Fault, Restart, Hit
<1>14. CASE UNCHANGED vars
  BY <1>14 DEF vars
<1> QED
  BY <1>1, <1>2, <1>3, <1>4, <1>5, <1>6, <1>7, <1>8, <1>9, <1>10, <1>11, <1>12, <1>13, <1>14 DEF Next, Loop

(* What is in the topic stays in it, and an appended message is its last. *)
LEMMA AppendFacts ==
    ASSUME NEW q \in Seq(Message), NEW m \in Message
    PROVE  /\ Append(q, m) \in Seq(Message)
           /\ Len(Append(q, m)) = Len(q) + 1
           /\ Len(q) + 1 \in DOMAIN Append(q, m)
           /\ Append(q, m)[Len(q) + 1] = m
           /\ \A i \in DOMAIN q : i \in DOMAIN Append(q, m) /\ Append(q, m)[i] = q[i]
OBVIOUS

(* The loop only ever appends to the topic. *)
LEMMA PublishedStays ==
    ASSUME IInv, [Next]_vars, NEW b \in Block, NEW n \in Nat, Published(b, n)
    PROVE  Published(b, n)'
<1> USE DEF IInv, TypeOK, durable, locals, Published
<1>1. CASE UNCHANGED topic
  BY <1>1
<1>2. CASE PublishDelta
  BY <1>2, AppendFacts, MessageType DEF PublishDelta, WriteMessage, Hit
<1>3. CASE PublishReorg
  BY <1>3, AppendFacts, MessageType DEF PublishReorg, WriteMessage, Hit
<1> QED
  BY <1>1, <1>2, <1>3 DEF Next, Loop, vars, NodeMoves, Poll, Sleep, FetchBlock,
     NodeLacksHeight, Extract, Persist, FindRollback, DeleteBlocksFromHeight,
     RewindCursor, Fault

(* The notice is the last message when rows are deleted. *)
LEMMA NoticeStep == IInv /\ [Next]_vars => NoticeInv'
<1> SUFFICES ASSUME IInv, [Next]_vars PROVE NoticeInv'
  OBVIOUS
<1> USE TreeAssumption DEF IInv, TypeOK, Steps, durable, locals, NoticeInv
<1>1. CASE NodeMoves
  BY <1>1 DEF NodeMoves
<1>2. CASE Poll
  BY <1>2 DEF Poll, CursorOr
<1>3. CASE Sleep
  BY <1>3 DEF Sleep, vars
<1>4. CASE FetchBlock
  BY <1>4 DEF FetchBlock, StoredAt, IsContinuous
<1>5. CASE NodeLacksHeight
  BY <1>5 DEF NodeLacksHeight, Restart
<1>6. CASE Extract
  BY <1>6 DEF Extract, Hit
<1>7. CASE PublishDelta
  BY <1>7 DEF PublishDelta, WriteMessage, Hit
<1>8. CASE Persist
  BY <1>8 DEF Persist, Restart
<1>9. CASE FindRollback
  BY <1>9 DEF FindRollback, StoredAt
<1>10. CASE PublishReorg
  <2> SUFFICES ASSUME "ack" \notin hit' PROVE NoticeInv'
    BY DEF NoticeInv
  <2>1. topic' = Append(topic, ReorgEvent(rolled)) /\ rolled' = rolled
    BY <1>10 DEF PublishReorg, WriteMessage, Hit
  <2> QED
    BY <2>1, AppendFacts, MessageType
<1>11. CASE DeleteBlocksFromHeight
  BY <1>11 DEF DeleteBlocksFromHeight
<1>12. CASE RewindCursor
  BY <1>12 DEF RewindCursor, Restart
<1>13. CASE Fault
  BY <1>13 DEF Fault, Restart, Hit
<1>14. CASE UNCHANGED vars
  BY <1>14 DEF vars
<1> QED
  BY <1>1, <1>2, <1>3, <1>4, <1>5, <1>6, <1>7, <1>8, <1>9, <1>10, <1>11, <1>12, <1>13, <1>14 DEF Next, Loop

(* Publishing removes from the work list only what it publishes. *)
LEMMA PublishStep == IInv /\ [Next]_vars => PublishInv'
<1> SUFFICES ASSUME IInv, [Next]_vars PROVE PublishInv'
  OBVIOUS
<1> USE TreeAssumption DEF IInv, TypeOK, Steps, durable, locals, PublishInv
<1>1. CASE NodeMoves
  BY <1>1 DEF NodeMoves, Published
<1>2. CASE Poll
  BY <1>2 DEF Poll, CursorOr
<1>3. CASE Sleep
  BY <1>3 DEF Sleep, vars, Published
<1>4. CASE FetchBlock
  BY <1>4 DEF FetchBlock, StoredAt, IsContinuous
<1>5. CASE NodeLacksHeight
  BY <1>5 DEF NodeLacksHeight, Restart
<1>6. CASE Extract
  BY <1>6 DEF Extract, Hit
<1>7. CASE PublishDelta
  <2> SUFFICES ASSUME hit' \cap {"receipt", "ack"} = {}, NEW k \in 1..NTx[blk], k \notin todo'
               PROVE  Published(blk, k)'
    BY <1>7 DEF PublishDelta, WriteMessage, Hit
  <2>1. PICK n \in todo : topic' = Append(topic, BalanceDelta(blk, n)) /\ todo' = todo \ {n}
    BY <1>7 DEF PublishDelta, WriteMessage, Hit
  <2>2. CASE k = n
    BY <1>7, <2>1, <2>2, AppendFacts, MessageType DEF PublishDelta, WriteMessage, Hit, Published
  <2>3. CASE k # n
    <3>1. PICK b \in Block : b = blk /\ b = blk'
      BY <1>7 DEF PublishDelta, WriteMessage, Hit
    <3>2. Published(b, k)
      BY <1>7, <2>1, <2>3, <3>1 DEF PublishDelta, WriteMessage, Hit
    <3>3. Published(b, k)'
      BY <3>2, PublishedStays
    <3> QED
      BY <3>1, <3>3 DEF Published
  <2> QED
    BY <2>2, <2>3
<1>8. CASE Persist
  BY <1>8 DEF Persist, Restart
<1>9. CASE FindRollback
  BY <1>9 DEF FindRollback, StoredAt
<1>10. CASE PublishReorg
  BY <1>10 DEF PublishReorg, WriteMessage, Hit
<1>11. CASE DeleteBlocksFromHeight
  BY <1>11 DEF DeleteBlocksFromHeight
<1>12. CASE RewindCursor
  BY <1>12 DEF RewindCursor, Restart
<1>13. CASE Fault
  BY <1>13 DEF Fault, Restart, Hit
<1>14. CASE UNCHANGED vars
  BY <1>14 DEF vars, Published
<1> QED
  BY <1>1, <1>2, <1>3, <1>4, <1>5, <1>6, <1>7, <1>8, <1>9, <1>10, <1>11, <1>12, <1>13, <1>14 DEF Next, Loop

(* A block is stored with all its deltas published, receipts and broker    *)
(* permitting.                                                             *)
LEMMA LossStep == IInv /\ [Next]_vars => LossOnlyByReceiptOrAck'
<1> SUFFICES ASSUME IInv, [Next]_vars, hit' \cap {"receipt", "ack"} = {},
                    NEW b \in rows', NEW n \in 1..NTx[b]
             PROVE  Published(b, n)'
  BY DEF LossOnlyByReceiptOrAck, StoredFullyPublished, Published
<1> USE TreeAssumption DEF IInv, TypeOK
<1>1. b \in Block /\ n \in Nat
  BY TypeStep
<1>2. hit \cap {"receipt", "ack"} = {}
  BY DEF Next, Loop, vars, NodeMoves, Poll, Sleep, FetchBlock, NodeLacksHeight, Extract,
     PublishDelta, WriteMessage, Persist, FindRollback, PublishReorg,
     DeleteBlocksFromHeight, RewindCursor, Fault, Hit
<1>3. CASE b \in rows
  BY <1>1, <1>2, <1>3, PublishedStays DEF LossOnlyByReceiptOrAck, StoredFullyPublished, Published
<1>4. CASE b \notin rows
  <2>1. Persist /\ b = blk
    BY <1>4 DEF Next, Loop, vars, durable, NodeMoves, Poll, Sleep, FetchBlock,
       NodeLacksHeight, Extract, PublishDelta, Persist, FindRollback, PublishReorg,
       DeleteBlocksFromHeight, RewindCursor, Fault
  <2>2. Published(b, n)
    BY <1>2, <2>1 DEF Persist, PublishInv
  <2> QED
    BY <1>1, <2>2, PublishedStays
<1> QED
  BY <1>3, <1>4

(* Only a stop right before the rewind breaks contiguity. *)
LEMMA ContiguousStep == IInv /\ [Next]_vars => ContiguousInv'
<1> SUFFICES ASSUME IInv, [Next]_vars PROVE ContiguousInv'
  OBVIOUS
<1> USE TreeAssumption DEF IInv, TypeOK, Steps, durable, locals, ContiguousInv, CursorInv, StoredAt
<1>1. CASE NodeMoves
  BY <1>1 DEF NodeMoves
<1>2. CASE Poll
  BY <1>2 DEF Poll, CursorOr
<1>3. CASE Sleep
  BY <1>3 DEF Sleep, vars
<1>4. CASE FetchBlock
  BY <1>4 DEF FetchBlock, StoredAt, IsContinuous
<1>5. CASE NodeLacksHeight
  BY <1>5 DEF NodeLacksHeight, Restart
<1>6. CASE Extract
  BY <1>6 DEF Extract, Hit
<1>7. CASE PublishDelta
  BY <1>7 DEF PublishDelta, WriteMessage, Hit
<1>8. CASE Persist
  <2> SUFFICES ASSUME "rewind" \notin hit, NEW r \in rows', NEW h \in Height[r]..(height + 1)
               PROVE  \E s \in rows' : Height[s] = h
    BY <1>8 DEF Persist, Restart
  <2>1. blk \in rows' /\ Height[blk] = height + 1
    BY <1>8 DEF Persist, FetchInv
  <2>2. CASE h = height + 1 \/ r = blk
    BY <2>1, <2>2
  <2>3. CASE h \in Height[r]..height /\ r \in rows
    BY <1>8, <2>3 DEF Persist
  <2> QED
    BY <1>8, <2>2, <2>3 DEF Persist
<1>9. CASE FindRollback
  BY <1>9 DEF FindRollback, StoredAt
<1>10. CASE PublishReorg
  BY <1>10 DEF PublishReorg, WriteMessage, Hit
<1>11. CASE DeleteBlocksFromHeight
  BY <1>11 DEF DeleteBlocksFromHeight
<1>12. CASE RewindCursor
  BY <1>12 DEF RewindCursor, Restart
<1>13. CASE Fault
  BY <1>13 DEF Fault, Restart, Hit
<1>14. CASE UNCHANGED vars
  BY <1>14 DEF vars
<1> QED
  BY <1>1, <1>2, <1>3, <1>4, <1>5, <1>6, <1>7, <1>8, <1>9, <1>10, <1>11, <1>12, <1>13, <1>14 DEF Next, Loop

-----------------------------------------------------------------------------
(* IInv is inductive. *)
LEMMA Inductive ==
    /\ Init => IInv
    /\ IInv /\ [Next]_vars => IInv'
<1>1. Init => IInv
  BY TreeAssumption, ParameterAssumption
  DEF Init, IInv, TypeOK, Steps, StoredPath, CursorInv, FetchInv, WalkInv, NoticeInv,
      PublishInv, LossOnlyByReceiptOrAck, StoredFullyPublished, ContiguousInv
<1>2. IInv /\ [Next]_vars => IInv'
  BY TypeStep, PathStep, CursorStep, FetchStep, WalkStep, NoticeStep, PublishStep,
     LossStep, ContiguousStep
  DEF IInv
<1> QED
  BY <1>1, <1>2

(* The invariant holds of every behaviour of the loop. *)
THEOREM Invariance == Spec => []IInv
BY Inductive, PTL DEF Spec

(* No two stored blocks share a height and stored neighbours are parent    *)
(* and child, whatever the node does and wherever the loop stops: the      *)
(* unindexed, unordered read of GetBlockAtHeight is deterministic.         *)
THEOREM StoredBlocksFormAPath == Spec => []StoredPath
<1>1. IInv => StoredPath
  BY DEF IInv
<1> QED
  BY <1>1, Invariance, PTL

(* A block is stored, and the cursor passes it, only with every delta in   *)
(* the topic, as long as no receipt was unreadable and no message lost.    *)
THEOREM PublishBeforePersist == Spec => []LossOnlyByReceiptOrAck
<1>1. IInv => LossOnlyByReceiptOrAck
  BY DEF IInv
<1> QED
  BY <1>1, Invariance, PTL

(* No height is skipped between stored blocks unless the loop stopped      *)
(* between the deletion of the orphans and the rewind of the cursor.       *)
THEOREM NoHeightSkipped == Spec => []HoleOnlyByRewind
<1>1. IInv => HoleOnlyByRewind
  <2> SUFFICES ASSUME IInv, "rewind" \notin hit, NEW r \in rows, NEW s \in rows,
                      NEW h \in Height[r]..Height[s]
               PROVE  StoredAt(h) # {}
    BY DEF HoleOnlyByRewind, NoHole
  <2> USE TreeAssumption DEF IInv, TypeOK
  <2>1. CASE pc = "rewind"
    BY <2>1 DEF ContiguousInv, WalkInv
  <2>2. CASE pc # "rewind"
    BY <2>2 DEF ContiguousInv, CursorInv
  <2> QED
    BY <2>1, <2>2
<1> QED
  BY <1>1, Invariance, PTL

(* A row is deleted only after the notice that revokes its block, with no  *)
(* delta of the block after that notice, as long as no message was lost.   *)
THEOREM NoticeBeforeDelete == Spec => DeletedRowsWereRevoked
<1>1. IInv /\ [Next]_vars =>
        [\A b \in rows \ rows' : "ack" \in hit \/ Revoked(b)]_vars
  <2> SUFFICES ASSUME IInv, [Next]_vars, NEW b \in rows, b \notin rows', "ack" \notin hit
               PROVE  Revoked(b)
    OBVIOUS
  <2>1. DeleteBlocksFromHeight
    BY DEF Next, Loop, vars, durable, NodeMoves, Poll, Sleep, FetchBlock, NodeLacksHeight,
       Extract, PublishDelta, Persist, FindRollback, PublishReorg, RewindCursor, Fault
  <2>2. b \in rolled
    BY <2>1, TreeAssumption DEF IInv, TypeOK, WalkInv, DeleteBlocksFromHeight
  <2>3. Revokes(topic[Len(topic)], b)
    BY <2>1, <2>2 DEF IInv, NoticeInv, DeleteBlocksFromHeight, Revokes, ReorgEvent
  <2>4. Len(topic) \in DOMAIN topic /\ (Len(topic) + 1)..Len(topic) = {}
    BY <2>1 DEF IInv, TypeOK, NoticeInv, DeleteBlocksFromHeight
  <2> QED
    BY <2>3, <2>4 DEF Revoked
<1> QED
  BY <1>1, Inductive, PTL DEF Spec, DeletedRowsWereRevoked
-----------------------------------------------------------------------------
(* What an appended message changes in what the topic says of a block. *)
LEMMA TopicAppend ==
    ASSUME topic \in Seq(Message), NEW m \in Message, topic' = Append(topic, m), NEW b \in Block
    PROVE  /\ IsDeltaOf(m, b) => Standing(b)' /\ ~Revoked(b)'
           /\ Revokes(m, b) => ~Standing(b)' /\ Revoked(b)'
           /\ ~IsDeltaOf(m, b) /\ ~Revokes(m, b) =>
                 (Standing(b)' <=> Standing(b)) /\ (Revoked(b)' <=> Revoked(b))
<1> DEFINE n == Len(topic) + 1
<1>1. /\ Len(topic) \in Nat /\ DOMAIN topic = 1..Len(topic)
      /\ Len(topic') = n /\ DOMAIN topic' = 1..n
      /\ topic'[n] = m
      /\ \A i \in 1..Len(topic) : topic'[i] = topic[i]
  OBVIOUS
<1>2. ~(IsDeltaOf(m, b) /\ Revokes(m, b))
  BY DEF IsDeltaOf, Revokes
<1> HIDE DEF n
<1>3. n \in Nat /\ n = Len(topic) + 1
  BY <1>1 DEF n
<1>4. ASSUME IsDeltaOf(m, b) PROVE Standing(b)' /\ ~Revoked(b)'
  <2>1. n \in DOMAIN topic' /\ IsDeltaOf(topic'[n], b) /\ (n + 1)..Len(topic') = {}
    BY <1>1, <1>3, <1>4
  <2>2. Standing(b)'
    BY <2>1 DEF Standing
  <2>3. ASSUME NEW i \in 1..n, Revokes(topic'[i], b) PROVE n \in (i + 1)..Len(topic')
    BY <1>1, <1>2, <1>3, <1>4, <2>3
  <2> QED
    BY <1>1, <2>1, <2>2, <2>3 DEF Revoked
<1>5. ASSUME Revokes(m, b) PROVE ~Standing(b)' /\ Revoked(b)'
  <2>1. n \in DOMAIN topic' /\ Revokes(topic'[n], b) /\ (n + 1)..Len(topic') = {}
    BY <1>1, <1>3, <1>5
  <2>2. Revoked(b)'
    BY <2>1 DEF Revoked
  <2>3. ASSUME NEW i \in 1..n, IsDeltaOf(topic'[i], b) PROVE n \in (i + 1)..Len(topic')
    BY <1>1, <1>2, <1>3, <1>5, <2>3
  <2> QED
    BY <1>1, <2>1, <2>2, <2>3 DEF Standing
<1>6. ASSUME ~IsDeltaOf(m, b), ~Revokes(m, b)
      PROVE  (Standing(b)' <=> Standing(b)) /\ (Revoked(b)' <=> Revoked(b))
  <2>1. \A i \in 1..n : i \in 1..Len(topic) \/ topic'[i] = m
    BY <1>1, <1>3
  <2>2. ASSUME Standing(b) PROVE Standing(b)'
    <3>1. PICK i \in 1..Len(topic) :
            IsDeltaOf(topic[i], b) /\ \A j \in (i + 1)..Len(topic) : ~Revokes(topic[j], b)
      BY <1>1, <2>2 DEF Standing
    <3>2. i \in 1..n /\ IsDeltaOf(topic'[i], b)
      BY <1>1, <1>3, <3>1
    <3>3. ASSUME NEW j \in (i + 1)..n PROVE ~Revokes(topic'[j], b)
      BY <1>1, <1>3, <1>6, <2>1, <3>1
    <3> QED
      BY <1>1, <3>2, <3>3 DEF Standing
  <2>3. ASSUME Standing(b)' PROVE Standing(b)
    <3>1. PICK i \in 1..n :
            IsDeltaOf(topic'[i], b) /\ \A j \in (i + 1)..n : ~Revokes(topic'[j], b)
      BY <1>1, <2>3 DEF Standing
    <3>2. i \in 1..Len(topic) /\ IsDeltaOf(topic[i], b)
      BY <1>1, <1>6, <2>1, <3>1
    <3>3. ASSUME NEW j \in (i + 1)..Len(topic) PROVE ~Revokes(topic[j], b)
      <4>1. j \in (i + 1)..n /\ j \in 1..Len(topic)
        BY <1>1, <1>3, <3>2
      <4> QED
        BY <1>1, <3>1, <4>1
    <3> QED
      BY <1>1, <3>2, <3>3 DEF Standing
  <2>4. ASSUME Revoked(b) PROVE Revoked(b)'
    <3>1. PICK i \in 1..Len(topic) :
            Revokes(topic[i], b) /\ \A j \in (i + 1)..Len(topic) : ~IsDeltaOf(topic[j], b)
      BY <1>1, <2>4 DEF Revoked
    <3>2. i \in 1..n /\ Revokes(topic'[i], b)
      BY <1>1, <1>3, <3>1
    <3>3. ASSUME NEW j \in (i + 1)..n PROVE ~IsDeltaOf(topic'[j], b)
      BY <1>1, <1>3, <1>6, <2>1, <3>1
    <3> QED
      BY <1>1, <3>2, <3>3 DEF Revoked
  <2>5. ASSUME Revoked(b)' PROVE Revoked(b)
    <3>1. PICK i \in 1..n :
            Revokes(topic'[i], b) /\ \A j \in (i + 1)..n : ~IsDeltaOf(topic'[j], b)
      BY <1>1, <2>5 DEF Revoked
    <3>2. i \in 1..Len(topic) /\ Revokes(topic[i], b)
      BY <1>1, <1>6, <2>1, <3>1
    <3>3. ASSUME NEW j \in (i + 1)..Len(topic) PROVE ~IsDeltaOf(topic[j], b)
      <4>1. j \in (i + 1)..n /\ j \in 1..Len(topic)
        BY <1>1, <1>3, <3>2
      <4> QED
        BY <1>1, <3>1, <4>1
    <3> QED
      BY <1>1, <3>2, <3>3 DEF Revoked
  <2> QED
    BY <2>2, <2>3, <2>4, <2>5
<1> QED
  BY <1>4, <1>5, <1>6

(* The same, as what the topic has said of the block last. *)
LEMMA SaidAppend ==
    ASSUME topic \in Seq(Message), NEW m \in Message, topic' = Append(topic, m), NEW b \in Block
    PROVE  /\ IsDeltaOf(m, b) => Said(b)' = "stands"
           /\ Revokes(m, b) => Said(b)' = "revoked"
           /\ ~IsDeltaOf(m, b) /\ ~Revokes(m, b) => Said(b)' = Said(b)
BY TopicAppend DEF Said

(* A step that leaves the topic alone leaves what it says alone. *)
LEMMA SaidStays ==
    ASSUME UNCHANGED topic, NEW b \in Block PROVE Said(b)' = Said(b)
BY DEF Said, Standing, Revoked

(* What is in hand continues what is stored. *)
LEMMA InHandFits ==
    ASSUME IInv, pc \in {"extract", "publish"} PROVE F!Fits(blk)
BY TreeAssumption DEF IInv, TypeOK, CursorInv, FetchInv, F!Fits

(* Every step of the loop is a step of the feed, or none. *)
LEMMA FeedStep == IInv /\ [Next]_vars => [F!Next]_(F!feedVars)
<1> SUFFICES ASSUME IInv, [Next]_vars PROVE [F!Next]_(F!feedVars)
  OBVIOUS
<1> USE DEF IInv, TypeOK, durable, locals
<1>1. ASSUME UNCHANGED <<topic, rows>>, hit' \in {hit, hit \cup {"receipt"}, hit \cup {pc}}
      PROVE  UNCHANGED F!feedVars
  <2>1. "ack" \in hit' <=> "ack" \in hit
    BY <1>1 DEF Steps
  <2> QED
    BY <1>1, <2>1, SaidStays DEF F!feedVars
<1>2. CASE PublishDelta
  <2>1. PICK n \in todo : WriteMessage(BalanceDelta(blk, n))
    BY <1>2 DEF PublishDelta
  <2>2. blk \in Block /\ BalanceDelta(blk, n) \in Message /\ UNCHANGED rows
    BY <1>2, MessageType DEF PublishDelta
  <2>3. CASE topic' = Append(topic, BalanceDelta(blk, n)) /\ hit' = hit
    <3>1. ASSUME NEW b \in Block PROVE Said(b)' = IF b = blk THEN "stands" ELSE Said(b)
      BY <2>2, <2>3, SaidAppend DEF BalanceDelta, IsDeltaOf, Revokes
    <3>2. F!Fits(blk)
      BY <1>2, InHandFits DEF PublishDelta
    <3>3. F!Announce(blk)
      BY <2>2, <2>3, <3>1, <3>2 DEF F!Announce
    <3> QED
      BY <2>2, <3>3 DEF F!Next
  <2>4. CASE topic' = topic /\ hit' = hit \cup {"ack"}
    BY <2>2, <2>4, SaidStays DEF F!Next, F!Lose
  <2> QED
    BY <2>1, <2>2, <2>3, <2>4, WriteFacts
<1>3. CASE PublishReorg
  <2>1. ReorgEvent(rolled) \in Message /\ UNCHANGED rows /\ rolled \subseteq rows
    BY <1>3, MessageType DEF PublishReorg, WalkInv
  <2>2. CASE topic' = Append(topic, ReorgEvent(rolled)) /\ hit' = hit
    <3>1. ASSUME NEW b \in Block
          PROVE  Said(b)' = IF b \in rolled THEN "revoked" ELSE Said(b)
      BY <2>1, <2>2, SaidAppend DEF ReorgEvent, IsDeltaOf, Revokes
    <3>2. F!Revoke(rolled)
      BY <2>1, <2>2, <3>1 DEF F!Revoke
    <3> QED
      BY <2>1, <3>2 DEF F!Next
  <2>3. CASE topic' = topic /\ hit' = hit \cup {"ack"}
    BY <2>1, <2>3, SaidStays DEF F!Next, F!Lose
  <2> QED
    BY <1>3, <2>1, <2>2, <2>3, WriteFacts DEF PublishReorg
<1>4. CASE Persist
  <2>1. blk \in Block /\ F!Fits(blk)
    BY <1>4, InHandFits DEF Persist
  <2>2. F!Hold(blk)
    BY <1>4, <2>1, SaidStays DEF Persist, F!Hold
  <2> QED
    BY <2>1, <2>2 DEF F!Next
<1>5. CASE DeleteBlocksFromHeight
  <2> DEFINE gone == {r \in rows : ~(Height[r] < height + 1)}
  <2>1. rows' = rows \ gone /\ UNCHANGED <<topic, hit>>
    BY <1>5 DEF DeleteBlocksFromHeight
  <2>2. ASSUME "ack" \notin hit, NEW b \in gone PROVE Said(b) = "revoked"
    <3>1. b \in rolled /\ b \in Block
      BY <1>5, TreeAssumption DEF WalkInv, DeleteBlocksFromHeight
    <3>2. /\ Len(topic) \in DOMAIN topic
          /\ Revokes(topic[Len(topic)], b) /\ ~IsDeltaOf(topic[Len(topic)], b)
      BY <1>5, <2>2, <3>1 DEF NoticeInv, DeleteBlocksFromHeight, Revokes, IsDeltaOf, ReorgEvent
    <3>3. /\ (Len(topic) + 1)..Len(topic) = {}
          /\ \A i \in DOMAIN topic : i # Len(topic) => Len(topic) \in (i + 1)..Len(topic)
      OBVIOUS
    <3>4. Revoked(b)
      BY <3>2, <3>3 DEF Revoked
    <3>5. ~Standing(b)
      BY <3>2, <3>3 DEF Standing
    <3> QED
      BY <3>4, <3>5 DEF Said
  <2>3. F!LetGo(gone)
    BY <2>1, <2>2, SaidStays DEF F!LetGo
  <2> QED
    BY <2>3 DEF F!Next
<1>6. CASE ~(PublishDelta \/ PublishReorg \/ Persist \/ DeleteBlocksFromHeight)
  <2>1. UNCHANGED <<topic, rows>> /\ hit' \in {hit, hit \cup {"receipt"}, hit \cup {pc}}
    BY <1>6 DEF Next, Loop, vars, NodeMoves, Poll, Sleep, FetchBlock, NodeLacksHeight,
       Extract, FindRollback, RewindCursor, Fault, Hit
  <2> QED
    BY <1>1, <2>1
<1> QED
  BY <1>2, <1>3, <1>4, <1>5, <1>6

(* The loop implements the feed: for every block tree, whatever the node   *)
(* does and wherever the loop stops, what it announces and stores          *)
(* continues what is stored, a notice names stored blocks only, and a      *)
(* block is forgotten only after its notice, unless a message was lost.    *)
THEOREM FeedRefinement == Spec => ImplementsFeed
<1>1. Init => F!Init
  BY DEF Init, F!Init, Said, Standing, Revoked
<1> QED
  BY <1>1, Inductive, FeedStep, PTL DEF Spec, ImplementsFeed, F!Spec
-----------------------------------------------------------------------------
(* FindRollback has gone below every block it has collected. *)
RolledInv ==
    pc \in {"walk", "notice", "delete"} => \A r \in rolled : Height[r] > height

(* A block whose deltas stand is stored, or is the one being published. *)
StandingInv ==
    hit \cap {"publish", "ack"} = {} =>
        \A b \in Block : Standing(b) => b \in rows \/ (pc = "publish" /\ b = blk)

(* A stored block is revoked only by the notice just sent, and what is     *)
(* published again is no longer revoked from its first delta on.           *)
RevokedInv ==
    hit \cap {"delete", "receipt", "ack"} = {} =>
        /\ \A r \in rows : NTx[r] > 0 /\ Revoked(r) => pc = "delete" /\ r \in rolled
        /\ pc = "publish" => todo = 1..NTx[blk] \/ ~Revoked(blk)

TInv == IInv /\ RolledInv /\ StandingInv /\ RevokedInv

(* A step that leaves topic and rows alone. *)
Quiet ==
    ~(PublishDelta \/ PublishReorg \/ Persist \/ DeleteBlocksFromHeight)

LEMMA QuietFacts ==
    ASSUME IInv, [Next]_vars, Quiet
    PROVE  /\ UNCHANGED <<topic, rows>>
           /\ \A b \in Block : (Standing(b)' <=> Standing(b)) /\ (Revoked(b)' <=> Revoked(b))
           /\ hit \subseteq hit'
           /\ pc = "publish" => UNCHANGED <<blk, todo, pc>> \/ "publish" \in hit'
           /\ pc = "publish" /\ pc' = "publish" => UNCHANGED <<blk, todo>>
           /\ pc = "delete" => UNCHANGED <<pc, rolled>> \/ "delete" \in hit'
           /\ pc' = "publish" /\ pc # "publish" =>
                 todo' = 1..NTx[blk'] \/ "receipt" \in hit'
<1>1. UNCHANGED <<topic, rows>>
  BY DEF Quiet, Next, Loop, vars, durable, NodeMoves, Poll, Sleep, FetchBlock, NodeLacksHeight,
     Extract, FindRollback, RewindCursor, Fault, Hit
<1>2. \A b \in Block : (Standing(b)' <=> Standing(b)) /\ (Revoked(b)' <=> Revoked(b))
  BY <1>1 DEF Standing, Revoked
<1>3. hit \subseteq hit'
  BY DEF Quiet, Next, Loop, vars, durable, NodeMoves, Poll, Sleep, FetchBlock, NodeLacksHeight,
     Extract, FindRollback, RewindCursor, Fault, Hit
<1>4. pc = "publish" => UNCHANGED <<blk, todo, pc>> \/ "publish" \in hit'
  BY DEF Quiet, Next, Loop, vars, durable, locals, NodeMoves, Poll, Sleep, FetchBlock,
     NodeLacksHeight, Extract, FindRollback, RewindCursor, Fault, Hit, Restart
<1>5. pc = "delete" => UNCHANGED <<pc, rolled>> \/ "delete" \in hit'
  BY DEF Quiet, Next, Loop, vars, durable, locals, NodeMoves, Poll, Sleep, FetchBlock,
     NodeLacksHeight, Extract, FindRollback, RewindCursor, Fault, Hit, Restart
<1>6. pc' = "publish" /\ pc # "publish" => todo' = 1..NTx[blk'] \/ "receipt" \in hit'
  BY DEF Quiet, Next, Loop, vars, durable, locals, NodeMoves, Poll, Sleep, FetchBlock,
     NodeLacksHeight, Extract, FindRollback, RewindCursor, Fault, Hit, Restart
<1>7. pc = "publish" /\ pc' = "publish" => UNCHANGED <<blk, todo>>
  BY DEF Quiet, Next, Loop, vars, durable, locals, NodeMoves, Poll, Sleep, FetchBlock,
     NodeLacksHeight, Extract, FindRollback, RewindCursor, Fault, Hit, Restart
<1> QED
  BY <1>1, <1>2, <1>3, <1>4, <1>5, <1>6, <1>7

(* The walk only goes down. *)
LEMMA RolledStep == TInv /\ [Next]_vars => RolledInv'
<1> SUFFICES ASSUME TInv, [Next]_vars PROVE RolledInv'
  OBVIOUS
<1> USE TreeAssumption DEF TInv, IInv, TypeOK, Steps, durable, locals, RolledInv, WalkInv
<1>1. CASE FetchBlock
  BY <1>1 DEF FetchBlock
<1>2. CASE FindRollback
  BY <1>2 DEF FindRollback, StoredAt
<1>3. CASE PublishReorg
  BY <1>3 DEF PublishReorg
<1>4. CASE ~(FetchBlock \/ FindRollback \/ PublishReorg)
  BY <1>4 DEF Next, Loop, vars, NodeMoves, Poll, Sleep, NodeLacksHeight, Extract,
     PublishDelta, Persist, DeleteBlocksFromHeight, RewindCursor, Fault, Hit, Restart
<1> QED
  BY <1>1, <1>2, <1>3, <1>4

(* What PublishDelta and PublishReorg make of the blocks, if the message   *)
(* is not lost.                                                            *)
LEMMA DeltaFacts ==
    ASSUME IInv, PublishDelta, "ack" \notin hit'
    PROVE  /\ hit' = hit /\ UNCHANGED blk /\ Standing(blk)' /\ ~Revoked(blk)'
           /\ \A b \in Block \ {blk} :
                 (Standing(b)' <=> Standing(b)) /\ (Revoked(b)' <=> Revoked(b))
<1>1. PICK n \in todo : WriteMessage(BalanceDelta(blk, n))
  BY DEF PublishDelta
<1>2. TypeOK /\ blk \in Block /\ BalanceDelta(blk, n) \in Message
  BY MessageType DEF PublishDelta, IInv, TypeOK
<1>3. topic' = Append(topic, BalanceDelta(blk, n)) /\ hit' = hit
  BY <1>1, <1>2, WriteFacts
<1>4. \A b \in Block : /\ ~Revokes(BalanceDelta(blk, n), b)
                       /\ IsDeltaOf(BalanceDelta(blk, n), b) <=> b = blk
  BY DEF BalanceDelta, Revokes, IsDeltaOf
<1>5. topic \in Seq(Message)
  BY <1>2 DEF TypeOK
<1>6. UNCHANGED blk
  BY DEF PublishDelta
<1> QED
  BY <1>2, <1>3, <1>4, <1>5, <1>6, TopicAppend

LEMMA NoticeFacts ==
    ASSUME IInv, PublishReorg, "ack" \notin hit'
    PROVE  /\ hit' = hit
           /\ \A b \in rolled : ~Standing(b)' /\ Revoked(b)'
           /\ \A b \in Block \ rolled :
                 (Standing(b)' <=> Standing(b)) /\ (Revoked(b)' <=> Revoked(b))
<1>1. TypeOK /\ rolled \subseteq Block /\ ReorgEvent(rolled) \in Message
  BY MessageType DEF IInv, TypeOK
<1>2. topic' = Append(topic, ReorgEvent(rolled)) /\ hit' = hit
  BY <1>1, WriteFacts DEF PublishReorg
<1>3. \A b \in Block : /\ ~IsDeltaOf(ReorgEvent(rolled), b)
                       /\ Revokes(ReorgEvent(rolled), b) <=> b \in rolled
  BY DEF ReorgEvent, Revokes, IsDeltaOf
<1> QED
  BY <1>1, <1>2, <1>3, TopicAppend DEF TypeOK

(* What the notice named no longer stands. *)
LEMMA LastNotice ==
    ASSUME IInv, pc = "delete", "ack" \notin hit, NEW b \in rolled
    PROVE  ~Standing(b)
<1>1. /\ Len(topic) \in DOMAIN topic
      /\ Revokes(topic[Len(topic)], b) /\ ~IsDeltaOf(topic[Len(topic)], b)
  BY DEF IInv, NoticeInv, Revokes, IsDeltaOf, ReorgEvent
<1>2. \A i \in DOMAIN topic : i # Len(topic) => Len(topic) \in (i + 1)..Len(topic)
  BY DEF IInv, TypeOK
<1> QED
  BY <1>1, <1>2 DEF Standing

(* What stands is stored, or about to be. *)
LEMMA StandingStep == TInv /\ [Next]_vars => StandingInv'
<1> SUFFICES ASSUME TInv, [Next]_vars, hit' \cap {"publish", "ack"} = {},
                    NEW b \in Block, Standing(b)'
             PROVE  b \in rows' \/ (pc' = "publish" /\ b = blk')
  BY DEF StandingInv
<1>0. IInv /\ TypeOK
  BY DEF TInv, IInv
<1>1. CASE PublishDelta
  BY <1>0, <1>1, DeltaFacts DEF PublishDelta, TInv, StandingInv
<1>2. CASE PublishReorg
  <2>1. hit' = hit /\ Standing(b)
    BY <1>0, <1>2, NoticeFacts
  <2> QED
    BY <1>2, <2>1 DEF PublishReorg, TInv, StandingInv
<1>3. CASE Persist
  BY <1>3 DEF Persist, TInv, StandingInv, Standing
<1>4. CASE DeleteBlocksFromHeight
  <2>1. Standing(b) /\ hit' = hit /\ pc = "delete" /\ rows' = {r \in rows : Height[r] < height + 1}
    BY <1>4 DEF DeleteBlocksFromHeight, Standing
  <2>2. b \in rows /\ b \notin rolled
    BY <1>0, <2>1, LastNotice DEF TInv, StandingInv
  <2>3. Height[b] < height + 1
    BY <1>0, <2>1, <2>2, TreeAssumption DEF TypeOK, IInv, WalkInv
  <2> QED
    BY <2>1, <2>2, <2>3
<1>5. CASE Quiet
  <2>1. /\ Standing(b) /\ rows' = rows
        /\ hit \cap {"publish", "ack"} = {}
        /\ pc = "publish" => pc' = "publish" /\ blk' = blk
    BY <1>0, <1>5, QuietFacts
  <2> QED
    BY <2>1 DEF TInv, StandingInv
<1> QED
  BY <1>1, <1>2, <1>3, <1>4, <1>5 DEF Quiet

(* What is stored is not revoked, or about to be deleted. *)
LEMMA RevokedStep == TInv /\ [Next]_vars => RevokedInv'
<1> SUFFICES ASSUME TInv, [Next]_vars, hit' \cap {"delete", "receipt", "ack"} = {}
             PROVE  /\ \A r \in rows' : NTx[r] > 0 /\ Revoked(r)' => pc' = "delete" /\ r \in rolled'
                    /\ pc' = "publish" => todo' = 1..NTx[blk'] \/ ~Revoked(blk)'
  BY DEF RevokedInv
<1>0. IInv /\ TypeOK /\ rows \subseteq Block
  BY DEF TInv, IInv, TypeOK
<1>1. CASE PublishDelta
  <2>1. hit' = hit /\ ~Revoked(blk)' /\ \A b \in Block \ {blk} : Revoked(b)' <=> Revoked(b)
    BY <1>0, <1>1, DeltaFacts
  <2> QED
    BY <1>0, <1>1, <2>1 DEF PublishDelta, TInv, RevokedInv
<1>2. CASE PublishReorg
  <2>1. hit' = hit /\ \A b \in Block \ rolled : Revoked(b)' <=> Revoked(b)
    BY <1>0, <1>2, NoticeFacts
  <2> QED
    BY <1>0, <1>2, <2>1 DEF PublishReorg, TInv, RevokedInv
<1>3. CASE Persist
  <2>1. /\ hit' = hit /\ pc = "publish" /\ todo = {} /\ pc' = "top" /\ rows' = rows \cup {blk}
        /\ \A b : Revoked(b)' <=> Revoked(b)
    BY <1>3 DEF Persist, Restart, Revoked
  <2>2. NTx[blk] \in Nat
    BY <1>0, <2>1, TreeAssumption DEF TypeOK
  <2>3. NTx[blk] > 0 => ~Revoked(blk)
    BY <2>1, <2>2 DEF TInv, RevokedInv
  <2> QED
    BY <2>1, <2>3 DEF TInv, RevokedInv
<1>4. CASE DeleteBlocksFromHeight
  <2>1. /\ hit' = hit /\ pc = "delete" /\ pc' = "rewind"
        /\ rows' = {r \in rows : Height[r] < height + 1}
        /\ \A b : Revoked(b)' <=> Revoked(b)
    BY <1>4 DEF DeleteBlocksFromHeight, Revoked
  <2>2. \A r \in rows' : r \notin rolled
    BY <1>0, <2>1, TreeAssumption DEF TypeOK, TInv, RolledInv
  <2> QED
    BY <2>1, <2>2 DEF TInv, RevokedInv
<1>5. CASE Quiet
  <2>1. /\ rows' = rows
        /\ \A b \in Block : Revoked(b)' <=> Revoked(b)
        /\ hit \cap {"delete", "receipt", "ack"} = {}
        /\ pc = "delete" => pc' = pc /\ rolled' = rolled
        /\ pc' = "publish" => todo' = 1..NTx[blk'] \/ (pc = "publish" /\ blk' = blk /\ todo' = todo)
    BY <1>0, <1>5, QuietFacts
  <2>2. pc = "publish" => blk \in Block
    BY <1>0 DEF TypeOK
  <2>3. pc' = "publish" => todo' = 1..NTx[blk'] \/ ~Revoked(blk)'
    BY <2>1, <2>2 DEF TInv, RevokedInv, Revoked
  <2> QED
    BY <1>0, <2>1, <2>3 DEF TInv, RevokedInv
<1> QED
  BY <1>1, <1>2, <1>3, <1>4, <1>5 DEF Quiet

(* What stands and what is revoked, in every behaviour of the loop. *)
THEOREM TopicInvariance == Spec => []TInv
<1>1. Init => TInv
  BY Inductive DEF Init, TInv, RolledInv, StandingInv, RevokedInv, Standing, Revoked
<1>2. TInv /\ [Next]_vars => TInv'
  BY Inductive, RolledStep, StandingStep, RevokedStep DEF TInv
<1> QED
  BY <1>1, <1>2, PTL DEF Spec

(* A block at or below the cursor whose deltas stand is stored, so that a  *)
(* later reorganisation finds and announces it, unless the loop stopped    *)
(* between PublishDeltas and persistBlockAndCursor or a message was lost.  *)
THEOREM NoOrphanStands == Spec => []OrphanOnlyByPublish
<1>1. TInv => OrphanOnlyByPublish
  <2> SUFFICES ASSUME TInv, hit \cap {"publish", "ack"} = {},
                      NEW b \in Block, NEW c \in cursor, Height[b] <= c, Standing(b)
               PROVE  b \in rows
    BY DEF OrphanOnlyByPublish, StandingIsStored
  <2>1. ~(pc = "publish" /\ b = blk)
    BY TreeAssumption DEF TInv, IInv, TypeOK, CursorInv, FetchInv
  <2> QED
    BY <2>1 DEF TInv, StandingInv
<1> QED
  BY <1>1, TopicInvariance, PTL

(* Nothing is indexed on top of a stored block that was revoked and not    *)
(* published again, unless the loop stopped between the notice and the     *)
(* deletion, or a republished block lost its deltas.                       *)
THEOREM NothingOnRevoked == Spec => []RevokedOnlyByDelete
<1>1. TInv => RevokedOnlyByDelete
  <2> SUFFICES ASSUME TInv, hit \cap {"delete", "receipt", "ack"} = {},
                      NEW r \in rows, NEW s \in rows, Height[r] < Height[s], NTx[r] > 0, Revoked(r)
               PROVE  Revoked(s)
    BY DEF RevokedOnlyByDelete, NoRevokedBelow
  <2>1. pc = "delete" /\ r \in rolled
    BY DEF TInv, RevokedInv
  <2>2. Height[s] > height
    BY <2>1, TreeAssumption DEF TInv, IInv, TypeOK, RolledInv
  <2>3. s \in rolled
    BY <2>1, <2>2 DEF TInv, IInv, WalkInv
  <2>4. Len(topic) \in DOMAIN topic /\ Revokes(topic[Len(topic)], s)
    BY <2>1, <2>3 DEF TInv, IInv, NoticeInv, Revokes, ReorgEvent
  <2>5. (Len(topic) + 1)..Len(topic) = {}
    BY DEF TInv, IInv, TypeOK
  <2> QED
    BY <2>4, <2>5 DEF Revoked
<1> QED
  BY <1>1, TopicInvariance, PTL
=============================================================================
