---------------------------- MODULE ConsumerProofs ---------------------------
(***************************************************************************)
(* Theorems about the Kafka consumer, for every number of partitions,      *)
(* every log of deltas, notices and unparseable messages, and any number   *)
(* of ticks, shutdowns, failed flushes and crashes.  All of them rest on   *)
(* one inductive invariant, IInv.                                          *)
(***************************************************************************)
EXTENDS Consumer, NaturalLemmas, TLAPS

InHand == batch \cup work \cup notice

(* What the loop holds between two calls: deltas in the batcher and in the *)
(* drained batch, at most one notice, nothing beyond the position; what is *)
(* drained lies before what is batched or waiting.                         *)
SessionInv ==
    /\ \A o \in batch \cup work : Msg(o).type = "balance_delta"
    /\ \A o \in notice : Msg(o).type = "reorg"
    /\ \A o, q \in notice : o = q
    /\ \A o \in InHand : o[2] <= position[o[1]]
    /\ \A o \in work, q \in batch \cup notice : o[1] = q[1] => o[2] < q[2]
    /\ pc = "select" => work = {} /\ notice = {} /\ source = "message"
    /\ pc \in {"reorg", "commitNotice"} => batch = {} /\ work = {} /\ source = "message"
    /\ notice # {} => batch = {}
    /\ source # "message" => notice = {} /\ batch = {}

(* Offsets are committed after the handling, and never beyond what the     *)
(* session has fetched.                                                    *)
CommitInv ==
    /\ \A p \in Partition : committed[p] <= position[p]
    /\ pc = "commit" => work \subseteq processed
    /\ pc = "commitNotice" => notice \subseteq processed
    /\ pc # "commitNotice" => \A o \in notice : committed[o[1]] < o[2]

(* Whatever was fetched is handled or in hand, unless a batch was dropped  *)
(* or committed past.                                                      *)
PendingInv ==
    hit \cap {"dropped", "poison"} = {} =>
        \A p \in Partition : \A n \in 1..position[p] :
            <<p, n>> \in processed \cup InHand

(* Notice n of p, once fetched, has been carried out. *)
CarriedOut(p, n) ==
    /\ Log[p][n].type = "reorg"
    /\ pc = "commitNotice" \/ <<p, n>> \notin notice

(* No delta of block b follows offset n in the log of p. *)
LastWord(p, n, b) ==
    \A m \in (n + 1)..Len(Log[p]) :
        Log[p][m].type = "balance_delta" => Log[p][m].block # b

(* A notice carried out lies before every delta in hand, and if it is the  *)
(* log's last word on a block the block has no active evidence.            *)
NoticeInv ==
    \A p \in Partition : \A n \in 1..position[p] : CarriedOut(p, n) =>
        /\ \A o \in batch \cup work : o[1] = p => n < o[2]
        /\ \A b \in Log[p][n].hashes : LastWord(p, n, b) => <<p, b>> \notin active

IInv ==
    /\ TypeOK
    /\ SessionInv
    /\ CommitInv
    /\ PendingInv
    /\ LossOnlyByDropOrPoison
    /\ NoticeInv
-----------------------------------------------------------------------------
(* An offset is a pair of a partition and a place in its log. *)
LEMMA OffsetFacts ==
    /\ \A p \in Partition : \A n \in 1..Len(Log[p]) : <<p, n>> \in Offset
    /\ \A o \in Offset :
          /\ o[1] \in Partition
          /\ o[2] \in 1..Len(Log[o[1]])
          /\ o[2] \in Nat
          /\ o = <<o[1], o[2]>>
<1>1. \A p \in Partition : \A n \in 1..Len(Log[p]) : <<p, n>> \in Offset
  BY DEF Offset
<1>2. ASSUME NEW o \in Offset
      PROVE  /\ o[1] \in Partition
             /\ o[2] \in 1..Len(Log[o[1]])
             /\ o[2] \in Nat
             /\ o = <<o[1], o[2]>>
  <2>1. PICK p \in Partition : o \in {p} \X (1..Len(Log[p]))
    BY DEF Offset
  <2> QED
    BY <2>1, LogAssumption
<1> QED
  BY <1>1, <1>2

(* The greatest of the given offsets of p is committed, if there are any.  *)
CommittedTo(os, p) ==
    \/ /\ <<p, committed'[p]>> \in os
       /\ committed'[p] \in 1..Len(Log[p])
       /\ \A o \in os : o[1] = p => o[2] <= committed'[p]
    \/ /\ \A o \in os : o[1] # p
       /\ committed'[p] = committed[p]

(* CommitMessages sets a partition's offset to the greatest one given. *)
LEMMA CommitFacts ==
    ASSUME TypeOK, NEW os, os \subseteq Offset, CommitMessages(os)
    PROVE  /\ committed' \in [Partition -> Nat]
           /\ \A p \in Partition : committed'[p] <= Len(Log[p])
           /\ \A p \in Partition : CommittedTo(os, p)
<1>1. ASSUME NEW p \in Partition PROVE CommittedTo(os, p)
  <2> DEFINE S == {n \in 1..Len(Log[p]) : <<p, n>> \in os}
  <2>1. \A o \in os : o[1] = p => o[2] \in S
    BY OffsetFacts
  <2>2. CASE S = {}
    <3>1. committed'[p] = committed[p]
      BY <2>2 DEF CommitMessages
    <3> QED
      BY <2>1, <2>2, <3>1 DEF CommittedTo
  <2>3. CASE S # {}
    <3>1. \E n \in S : \A m \in S : m <= n
      <4>1. Len(Log[p]) \in Nat /\ S \subseteq 0..Len(Log[p])
        BY LogAssumption
      <4> HIDE DEF S
      <4> QED
        BY <2>3, <4>1, GreatestBelow
    <3>2. committed'[p] = CHOOSE n \in 1..Len(Log[p]) :
                /\ <<p, n>> \in os
                /\ \A m \in 1..Len(Log[p]) : <<p, m>> \in os => m <= n
      BY <2>3 DEF CommitMessages
    <3>3. /\ committed'[p] \in 1..Len(Log[p])
          /\ <<p, committed'[p]>> \in os
          /\ \A m \in S : m <= committed'[p]
      BY <3>1, <3>2
    <3> QED
      BY <2>1, <3>3 DEF CommittedTo
  <2> QED
    BY <2>2, <2>3
<1>2. committed' \in [Partition -> Nat]
  <2>1. committed' = [p \in Partition |-> committed'[p]]
    BY DEF CommitMessages
  <2>2. ASSUME NEW p \in Partition PROVE committed'[p] \in Nat
    <3>1. Len(Log[p]) \in Nat /\ committed[p] \in Nat
      BY LogAssumption DEF TypeOK
    <3>2. committed'[p] \in 1..Len(Log[p]) \/ committed'[p] = committed[p]
      BY <1>1 DEF CommittedTo
    <3> QED
      BY <3>1, <3>2
  <2> QED
    BY <2>1, <2>2
<1>3. \A p \in Partition : committed'[p] <= Len(Log[p])
  <2> SUFFICES ASSUME NEW p \in Partition PROVE committed'[p] <= Len(Log[p])
    OBVIOUS
  <2>1. Len(Log[p]) \in Nat /\ committed[p] <= Len(Log[p])
    BY LogAssumption DEF TypeOK
  <2>2. committed'[p] \in 1..Len(Log[p]) \/ committed'[p] = committed[p]
    BY <1>1 DEF CommittedTo
  <2> QED
    BY <2>1, <2>2
<1> QED
  BY <1>1, <1>2, <1>3

(* The session moves on to the next message of p. *)
Fetched(p) ==
    /\ pc = "select"
    /\ position[p] + 1 \in 1..Len(Log[p])
    /\ <<p, position[p] + 1>> \in Offset
    /\ position' \in [Partition -> Nat]
    /\ position'[p] = position[p] + 1
    /\ \A q \in Partition \ {p} : position'[q] = position[q]
    /\ \A q \in Partition : position[q] <= position'[q] /\ position'[q] <= Len(Log[q])

(* A message is received. *)
LEMMA ReceiveFacts ==
    ASSUME TypeOK, NEW p \in Partition, NEW type, Receive(p, type)
    PROVE  Fetched(p) /\ Msg(<<p, position[p] + 1>>).type = type
<1>1. Len(Log[p]) \in Nat /\ position[p] \in Nat
  BY LogAssumption DEF TypeOK
<1>2. position[p] + 1 \in 1..Len(Log[p])
  BY <1>1 DEF Receive
<1>3. <<p, position[p] + 1>> \in Offset
  BY <1>2, OffsetFacts
<1>4. position' = [position EXCEPT ![p] = position[p] + 1]
  BY DEF Receive
<1>5. position' \in [Partition -> Nat]
  BY <1>1, <1>4 DEF TypeOK
<1>6. \A q \in Partition : position[q] <= position'[q] /\ position'[q] <= Len(Log[q])
  BY <1>1, <1>2, <1>4, LogAssumption DEF TypeOK
<1> QED
  BY <1>1, <1>2, <1>3, <1>4, <1>5, <1>6 DEF Receive, TypeOK, Fetched, Msg

(* Every step preserves the types. *)
LEMMA TypeStep == IInv /\ [Next]_vars => TypeOK'
<1> SUFFICES ASSUME IInv, [Next]_vars PROVE TypeOK'
  OBVIOUS
<1> USE LogAssumption DEF IInv, TypeOK, Step, durable
<1>1. ASSUME NEW p \in Partition, HandleUnparseable(p) PROVE TypeOK'
  <2>1. Fetched(p) /\ Msg(<<p, position[p] + 1>>).type = "unparseable"
    BY <1>1, ReceiveFacts DEF HandleUnparseable
  <2>2. {<<p, position[p] + 1>>} \subseteq Offset
    BY <2>1 DEF Fetched
  <2>3. CommitMessages({<<p, position[p] + 1>>})
    BY <1>1 DEF HandleUnparseable
  <2>4. committed' \in [Partition -> Nat] /\ \A q \in Partition : committed'[q] <= Len(Log[q])
    BY <2>2, <2>3, CommitFacts
  <2> QED
    BY <1>1, <2>1, <2>2, <2>4 DEF Fetched, HandleUnparseable
<1>2. ASSUME NEW p \in Partition, AddToBatch(p) PROVE TypeOK'
  <2>1. Fetched(p) /\ Msg(<<p, position[p] + 1>>).type = "balance_delta"
    BY <1>2, ReceiveFacts DEF AddToBatch
  <2>2. <<p, position[p] + 1>> \in Offset
    BY <2>1 DEF Fetched
  <2>3. batch' \subseteq Offset
    BY <1>2, <2>2 DEF AddToBatch
  <2> QED
    BY <1>2, <2>1, <2>3 DEF Fetched, AddToBatch
<1>3. ASSUME NEW p \in Partition, AddAndFlush(p) PROVE TypeOK'
  <2>1. Fetched(p) /\ Msg(<<p, position[p] + 1>>).type = "balance_delta"
    BY <1>3, ReceiveFacts DEF AddAndFlush
  <2>2. <<p, position[p] + 1>> \in Offset
    BY <2>1 DEF Fetched
  <2>3. batch' \subseteq Offset /\ work' \subseteq Offset
    BY <1>3, <2>2 DEF AddAndFlush
  <2>4. hit' \subseteq {"poison", "cut", "dropped"}
    BY <1>3 DEF AddAndFlush, Cut
  <2> QED
    BY <1>3, <2>1, <2>3, <2>4 DEF Fetched, AddAndFlush
<1>4. ASSUME NEW p \in Partition, HandleReorg(p) PROVE TypeOK'
  <2>1. Fetched(p) /\ Msg(<<p, position[p] + 1>>).type = "reorg"
    BY <1>4, ReceiveFacts DEF HandleReorg
  <2>2. hit' \subseteq {"poison", "cut", "dropped"}
    BY <1>4 DEF HandleReorg, Cut
  <2> QED
    BY <1>4, <2>1, <2>2 DEF Fetched, HandleReorg, Drain
<1>5. CASE Tick
  BY <1>5 DEF Tick, Drain, Cut
<1>6. CASE TickIdle
  BY <1>6 DEF TickIdle, vars
<1>7. CASE Stop
  <2>1. faults' \in Nat
    BY <1>7 DEF Stop
  <2>3. hit' \subseteq {"poison", "cut", "dropped"}
    BY <1>7 DEF Stop, Cut
  <2>2. /\ UNCHANGED <<committed, processed, active, position, notice, runs>>
        /\ work' = batch /\ batch' = {} /\ source' = "stop" /\ pc' \in {"run", "select"}
    BY <1>7 DEF Stop, Drain
  <2> QED
    BY <2>1, <2>2, <2>3
<1>8. CASE RunRecords
  <2>1. ASSUME NEW o \in work
        PROVE  <<o[1], Msg(o).block>> \in Partition \X
                 {Msg(x).block : x \in {y \in Offset : Msg(y).type = "balance_delta"}}
    <3>1. o \in Offset /\ o[1] \in Partition /\ Msg(o).type = "balance_delta"
      BY OffsetFacts DEF SessionInv
    <3> QED
      BY <3>1
  <2> QED
    BY <1>8, <2>1 DEF RunRecords
<1>9. CASE RunCompletes
  BY <1>9 DEF RunCompletes
<1>10. CASE CommitBatch
  <2>1. committed' \in [Partition -> Nat] /\ \A q \in Partition : committed'[q] <= Len(Log[q])
    BY <1>10, CommitFacts DEF CommitBatch
  <2> QED
    BY <1>10, <2>1 DEF CommitBatch, Restart
<1>11. CASE OnReorg
  BY <1>11 DEF OnReorg
<1>12. CASE CommitNotice
  <2>1. committed' \in [Partition -> Nat] /\ \A q \in Partition : committed'[q] <= Len(Log[q])
    BY <1>12, CommitFacts DEF CommitNotice
  <2> QED
    BY <1>12, <2>1 DEF CommitNotice
<1>13. CASE TickFails
  <2>1. faults' \in Nat
    BY <1>13 DEF TickFails
  <2>3. hit' \subseteq {"poison", "cut", "dropped"}
    BY <1>13 DEF TickFails
  <2>2. /\ UNCHANGED <<committed, processed, active, position, batch, notice, runs>>
        /\ work' = {} /\ source' = "message" /\ pc' = "select"
    BY <1>13 DEF TickFails
  <2> QED
    BY <2>1, <2>2, <2>3
<1>14. CASE Crash
  BY <1>14 DEF Crash, Restart
<1>15. CASE UNCHANGED vars
  BY <1>15 DEF vars
<1> QED
  BY <1>1, <1>2, <1>3, <1>4, <1>5, <1>6, <1>7, <1>8, <1>9, <1>10, <1>11, <1>12, <1>13,
     <1>14, <1>15 DEF Next, Handle, Flush

(* What the steps below need of the types. *)
LEMMA TypeFacts ==
    ASSUME TypeOK
    PROVE  /\ committed \in [Partition -> Nat] /\ position \in [Partition -> Nat]
           /\ \A p \in Partition : position[p] \in Nat /\ committed[p] \in Nat
           /\ batch \subseteq Offset /\ work \subseteq Offset /\ notice \subseteq Offset
           /\ \A o \in InHand : o[1] \in Partition /\ o[2] \in Nat
BY OffsetFacts DEF TypeOK, InHand

(* Every step preserves what the session holds. *)
LEMMA SessionStep == IInv /\ [Next]_vars => SessionInv'
<1> SUFFICES ASSUME IInv, [Next]_vars PROVE SessionInv'
  OBVIOUS
<1>0. TypeOK
  BY DEF IInv
<1> USE <1>0, TypeFacts DEF IInv, SessionInv, InHand, durable
<1>1. ASSUME NEW p \in Partition, HandleUnparseable(p) PROVE SessionInv'
  <2>1. Fetched(p) /\ Msg(<<p, position[p] + 1>>).type = "unparseable"
    BY <1>1, ReceiveFacts DEF HandleUnparseable
  <2> QED
    BY <1>1, <2>1 DEF Fetched, HandleUnparseable
<1>2. ASSUME NEW p \in Partition, AddToBatch(p) PROVE SessionInv'
  <2>1. Fetched(p) /\ Msg(<<p, position[p] + 1>>).type = "balance_delta"
    BY <1>2, ReceiveFacts DEF AddToBatch
  <2>2. work = {} /\ notice = {} /\ batch' = batch \cup {<<p, position[p] + 1>>}
    BY <1>2, <2>1 DEF Fetched, AddToBatch
  <2>3. \A o \in batch' : o[2] <= position'[o[1]]
    BY <2>1, <2>2 DEF Fetched
  <2>4. \A o \in batch' : Msg(o).type = "balance_delta"
    BY <2>1, <2>2
  <2> QED
    BY <1>2, <2>1, <2>2, <2>3, <2>4 DEF Fetched, AddToBatch
<1>3. ASSUME NEW p \in Partition, AddAndFlush(p) PROVE SessionInv'
  <2>1. Fetched(p) /\ Msg(<<p, position[p] + 1>>).type = "balance_delta"
    BY <1>3, ReceiveFacts DEF AddAndFlush
  <2> QED
    BY <1>3, <2>1 DEF Fetched, AddAndFlush, Msg
<1>4. ASSUME NEW p \in Partition, HandleReorg(p) PROVE SessionInv'
  <2>1. Fetched(p) /\ Msg(<<p, position[p] + 1>>).type = "reorg"
    BY <1>4, ReceiveFacts DEF HandleReorg
  <2> QED
    BY <1>4, <2>1 DEF Fetched, HandleReorg, Drain, Msg
<1>5. CASE Tick
  BY <1>5 DEF Tick, Drain
<1>6. CASE TickIdle
  BY <1>6 DEF TickIdle, vars
<1>7. CASE Stop
  BY <1>7 DEF Stop, Drain
<1>8. CASE RunRecords
  BY <1>8 DEF RunRecords
<1>9. CASE RunCompletes
  BY <1>9 DEF RunCompletes
<1>10. CASE CommitBatch
  BY <1>10 DEF CommitBatch, Restart
<1>11. CASE OnReorg
  BY <1>11 DEF OnReorg
<1>12. CASE CommitNotice
  BY <1>12 DEF CommitNotice
<1>13. CASE TickFails
  BY <1>13 DEF TickFails
<1>14. CASE Crash
  BY <1>14 DEF Crash, Restart
<1>15. CASE UNCHANGED vars
  BY <1>15 DEF vars
<1> QED
  BY <1>1, <1>2, <1>3, <1>4, <1>5, <1>6, <1>7, <1>8, <1>9, <1>10, <1>11, <1>12, <1>13,
     <1>14, <1>15 DEF Next, Handle, Flush

(* Every step commits what is handled, and keeps behind the position. *)
LEMMA CommitStep == IInv /\ [Next]_vars => CommitInv'
<1> SUFFICES ASSUME IInv, [Next]_vars PROVE CommitInv'
  OBVIOUS
<1>0. TypeOK
  BY DEF IInv
<1> USE <1>0, TypeFacts DEF IInv, CommitInv, durable
<1>1. ASSUME NEW p \in Partition, HandleUnparseable(p) PROVE CommitInv'
  <2>1. Fetched(p) /\ Msg(<<p, position[p] + 1>>).type = "unparseable"
    BY <1>1, ReceiveFacts DEF HandleUnparseable
  <2>2. CommitMessages({<<p, position[p] + 1>>}) /\ {<<p, position[p] + 1>>} \subseteq Offset
    BY <1>1, <2>1 DEF Fetched, HandleUnparseable
  <2>3. ASSUME NEW q \in Partition PROVE committed'[q] <= position'[q]
    <3>1. CommittedTo({<<p, position[p] + 1>>}, q)
      BY <2>2, CommitFacts
    <3> QED
      BY <2>1, <3>1 DEF Fetched, CommittedTo
  <2> QED
    BY <1>1, <2>1, <2>3 DEF Fetched, HandleUnparseable, SessionInv
<1>2. ASSUME NEW p \in Partition, AddToBatch(p) PROVE CommitInv'
  <2>1. Fetched(p) /\ Msg(<<p, position[p] + 1>>).type = "balance_delta"
    BY <1>2, ReceiveFacts DEF AddToBatch
  <2> QED
    BY <1>2, <2>1 DEF Fetched, AddToBatch
<1>3. ASSUME NEW p \in Partition, AddAndFlush(p) PROVE CommitInv'
  <2>1. Fetched(p) /\ Msg(<<p, position[p] + 1>>).type = "balance_delta"
    BY <1>3, ReceiveFacts DEF AddAndFlush
  <2> QED
    BY <1>3, <2>1 DEF Fetched, AddAndFlush
<1>4. ASSUME NEW p \in Partition, HandleReorg(p) PROVE CommitInv'
  <2>1. Fetched(p) /\ Msg(<<p, position[p] + 1>>).type = "reorg"
    BY <1>4, ReceiveFacts DEF HandleReorg
  <2> QED
    BY <1>4, <2>1 DEF Fetched, HandleReorg, Drain
<1>5. CASE Tick
  BY <1>5 DEF Tick, Drain
<1>6. CASE TickIdle
  BY <1>6 DEF TickIdle, vars
<1>7. CASE Stop
  BY <1>7 DEF Stop, Drain
<1>8. CASE RunRecords
  BY <1>8 DEF RunRecords
<1>9. CASE RunCompletes
  BY <1>9 DEF RunCompletes
<1>10. CASE CommitBatch
  <2>0. \A q \in Partition : CommittedTo(work, q)
    BY <1>10, CommitFacts DEF CommitBatch
  <2>1. \A q \in Partition : committed'[q] <= position[q]
    BY <2>0 DEF CommittedTo, SessionInv, InHand
  <2>2. ASSUME NEW o \in notice PROVE committed'[o[1]] < o[2]
    <3>1. CommittedTo(work, o[1]) /\ committed[o[1]] < o[2]
      BY <1>10, <2>0 DEF CommitBatch, InHand
    <3>2. CASE committed'[o[1]] = committed[o[1]]
      BY <3>1, <3>2
    <3>3. CASE <<o[1], committed'[o[1]]>> \in work
      BY <3>3 DEF SessionInv
    <3> QED
      BY <3>1, <3>2, <3>3 DEF CommittedTo
  <2>3. CASE source = "stop"
    BY <1>10, <2>1, <2>3, CommitFacts DEF CommitBatch, Restart
  <2>4. CASE source # "stop"
    BY <1>10, <2>1, <2>2, <2>4 DEF CommitBatch
  <2> QED
    BY <2>3, <2>4
<1>11. CASE OnReorg
  BY <1>11 DEF OnReorg
<1>12. CASE CommitNotice
  <2>1. \A q \in Partition : committed'[q] <= position[q]
    <3>1. \A q \in Partition : CommittedTo(notice, q)
      BY <1>12, CommitFacts DEF CommitNotice
    <3> QED
      BY <3>1 DEF CommittedTo, SessionInv, InHand
  <2> QED
    BY <1>12, <2>1 DEF CommitNotice
<1>13. CASE TickFails
  BY <1>13 DEF TickFails
<1>14. CASE Crash
  BY <1>14 DEF Crash, Restart
<1>15. CASE UNCHANGED vars
  BY <1>15 DEF vars
<1> QED
  BY <1>1, <1>2, <1>3, <1>4, <1>5, <1>6, <1>7, <1>8, <1>9, <1>10, <1>11, <1>12, <1>13,
     <1>14, <1>15 DEF Next, Handle, Flush

(* Committing offsets up to which all is processed commits nothing else. *)
LEMMA CommitSafe ==
    ASSUME TypeOK, CommittedIsProcessed, NEW os, CommitMessages(os), os \subseteq Offset,
           processed \subseteq processed',
           \A o \in os : \A n \in 1..o[2] : <<o[1], n>> \in processed'
    PROVE  CommittedIsProcessed'
<1> SUFFICES ASSUME NEW p \in Partition, NEW n \in 1..committed'[p]
             PROVE  <<p, n>> \in processed'
  BY DEF CommittedIsProcessed
<1>1. CommittedTo(os, p)
  BY CommitFacts
<1>2. CASE committed'[p] = committed[p]
  BY <1>2 DEF CommittedIsProcessed
<1>3. CASE <<p, committed'[p]>> \in os
  <2> DEFINE o == <<p, committed'[p]>>
  <2>1. \A m \in 1..o[2] : <<o[1], m>> \in processed'
    BY <1>3
  <2> QED
    BY <2>1
<1> QED
  BY <1>1, <1>2, <1>3 DEF CommittedTo

(* Faults are remembered. *)
LEMMA HitGrows == ASSUME [Next]_vars PROVE hit \subseteq hit'
BY DEF Next, Handle, Flush, vars, HandleUnparseable, AddToBatch, AddAndFlush, HandleReorg,
       Tick, TickIdle, Stop, RunRecords, RunCompletes, CommitBatch, OnReorg, CommitNotice,
       TickFails, Crash, Cut

(* Every step commits only what has been handled, drops and poison aside. *)
LEMMA LossStep == IInv /\ [Next]_vars => LossOnlyByDropOrPoison'
<1> SUFFICES ASSUME IInv, [Next]_vars, hit' \cap {"dropped", "poison"} = {}
             PROVE  CommittedIsProcessed'
  BY DEF LossOnlyByDropOrPoison
<1>0. TypeOK /\ CommittedIsProcessed
      /\ \A p \in Partition : \A n \in 1..position[p] : <<p, n>> \in processed \cup InHand
  BY HitGrows DEF IInv, LossOnlyByDropOrPoison, PendingInv
<1> USE <1>0, TypeFacts
<1>1. ASSUME NEW p \in Partition, HandleUnparseable(p) PROVE CommittedIsProcessed'
  <2> DEFINE o == <<p, position[p] + 1>>
  <2>1. Fetched(p)
    BY <1>1, ReceiveFacts DEF HandleUnparseable
  <2>2. CommitMessages({o}) /\ processed' = processed \cup {o} /\ {o} \subseteq Offset
    BY <1>1, <2>1 DEF HandleUnparseable, Fetched
  <2>3. \A q \in batch : q[1] # p
    BY <1>1 DEF HandleUnparseable
  <2>4. work = {} /\ notice = {}
    BY <2>1 DEF Fetched, IInv, SessionInv
  <2>5. ASSUME NEW n \in 1..(position[p] + 1) PROVE <<p, n>> \in processed'
    <3>1. CASE n = position[p] + 1
      BY <2>2, <3>1
    <3>2. CASE n \in 1..position[p]
      <4>1. <<p, n>> \in processed \cup batch
        BY <2>4, <3>2 DEF InHand
      <4>2. <<p, n>> \notin batch
        BY <2>3
      <4> QED
        BY <2>2, <4>1, <4>2
    <3> QED
      BY <3>1, <3>2
  <2>6. \A q \in {o} : \A n \in 1..q[2] : <<q[1], n>> \in processed'
    BY <2>5
  <2> HIDE DEF o
  <2> QED
    BY <2>2, <2>6, CommitSafe
<1>2. CASE CommitBatch
  <2>1. CommitMessages(work) /\ work \subseteq processed /\ processed' = processed
    BY <1>2 DEF CommitBatch, IInv, CommitInv
  <2>2. ASSUME NEW o \in work, NEW n \in 1..o[2] PROVE <<o[1], n>> \in processed'
    <3>1. o[1] \in Partition /\ n \in 1..position[o[1]]
      BY DEF IInv, SessionInv, InHand
    <3>2. <<o[1], n>> \in processed \cup InHand
      BY <3>1
    <3>3. <<o[1], n>> \notin batch \cup notice
      <4>1. ASSUME NEW q \in batch \cup notice, q = <<o[1], n>> PROVE FALSE
        <5>1. o[1] = q[1] /\ q[2] = n
          BY <4>1
        <5>2. o[2] < q[2]
          BY <5>1 DEF IInv, SessionInv
        <5> QED
          BY <5>1, <5>2 DEF InHand
      <4> QED
        BY <4>1
    <3> QED
      BY <2>1, <3>2, <3>3 DEF InHand
  <2> QED
    BY <2>1, <2>2, CommitSafe
<1>3. CASE CommitNotice
  <2>1. /\ CommitMessages(notice) /\ notice \subseteq processed /\ processed' = processed
        /\ \A p \in Partition : \A n \in 1..position[p] : <<p, n>> \in processed
    BY <1>3 DEF CommitNotice, IInv, CommitInv, SessionInv, InHand
  <2>2. ASSUME NEW o \in notice, NEW n \in 1..o[2] PROVE <<o[1], n>> \in processed'
    BY <2>1 DEF IInv, SessionInv, InHand
  <2> QED
    BY <2>1, <2>2, CommitSafe
<1>4. CASE UNCHANGED committed /\ processed \subseteq processed'
  BY <1>4 DEF CommittedIsProcessed
<1> QED
  BY <1>1, <1>2, <1>3, <1>4
  DEF Next, Handle, Flush, vars, durable, AddToBatch, AddAndFlush, HandleReorg, Tick,
      TickIdle, Stop, RunRecords, RunCompletes, OnReorg, TickFails, Crash

(* Every step keeps track of what it fetched, drops and poison aside. *)
LEMMA PendingStep == IInv /\ [Next]_vars => PendingInv'
<1> SUFFICES ASSUME IInv, [Next]_vars, hit' \cap {"dropped", "poison"} = {},
                    NEW p \in Partition, NEW n \in 1..position'[p]
             PROVE  <<p, n>> \in processed' \cup InHand'
  BY DEF PendingInv
<1>0. /\ TypeOK /\ TypeOK'
      /\ \A q \in Partition : \A m \in 1..position[q] : <<q, m>> \in processed \cup InHand
      /\ CommittedIsProcessed'
  BY HitGrows, LossStep, TypeStep DEF IInv, LossOnlyByDropOrPoison, PendingInv
<1> USE <1>0, TypeFacts DEF InHand, durable
<1>1. ASSUME NEW q \in Partition, Handle(q) PROVE <<p, n>> \in processed' \cup InHand'
  <2>1. Fetched(q)
    BY <1>1, ReceiveFacts DEF Handle, HandleUnparseable, AddToBatch, AddAndFlush, HandleReorg
  <2>2. work = {} /\ notice = {}
    BY <2>1 DEF Fetched, IInv, SessionInv
  <2>3. \A o \in processed \cup batch \cup {<<q, position[q] + 1>>} : o \in processed' \cup InHand'
    BY <1>1, <2>2 DEF Handle, HandleUnparseable, AddToBatch, AddAndFlush, HandleReorg, Drain
  <2>4. CASE p = q /\ n = position[q] + 1
    BY <2>3, <2>4
  <2>5. CASE n \in 1..position[p]
    BY <2>2, <2>3, <2>5
  <2> QED
    BY <2>1, <2>4, <2>5 DEF Fetched
<1>2. CASE Restart /\ (Crash \/ CommitBatch)
  BY <1>2 DEF Restart, CommittedIsProcessed
<1>3. CASE CommitBatch /\ ~Restart
  BY <1>3 DEF CommitBatch, IInv, CommitInv
<1>4. CASE Tick \/ Stop
  BY <1>4 DEF Tick, Stop, Drain, IInv, SessionInv
<1>5. CASE OnReorg
  BY <1>5 DEF OnReorg
<1>6. CASE CommitNotice
  BY <1>6 DEF CommitNotice, IInv, CommitInv
<1>7. CASE TickFails
  <2>1. work \subseteq processed
    BY <1>7 DEF TickFails
  <2> QED
    BY <1>7, <2>1 DEF TickFails
<1>8. CASE RunRecords \/ RunCompletes \/ TickIdle \/ UNCHANGED vars
  BY <1>8 DEF RunRecords, RunCompletes, TickIdle, vars
<1> QED
  BY <1>1, <1>2, <1>3, <1>4, <1>5, <1>6, <1>7, <1>8 DEF Next, Flush, Crash

(* A step that adds no evidence and fetches nothing new for the batch      *)
(* keeps the notices' effect.                                              *)
LEMMA NoticeKept ==
    ASSUME IInv,
           \A p \in Partition : position'[p] \in Nat /\ position'[p] <= position[p],
           batch' \cup work' \subseteq batch \cup work,
           active' \subseteq active,
           \A p \in Partition : \A n \in 1..position'[p] :
               CarriedOut(p, n)' => CarriedOut(p, n)
    PROVE  NoticeInv'
<1> SUFFICES ASSUME NEW p \in Partition, NEW n \in 1..position'[p], CarriedOut(p, n)'
             PROVE  /\ \A o \in batch' \cup work' : o[1] = p => n < o[2]
                    /\ \A b \in Log[p][n].hashes : LastWord(p, n, b) => <<p, b>> \notin active'
  BY DEF NoticeInv, LastWord
<1>1. n \in 1..position[p]
  BY TypeFacts DEF IInv
<1> QED
  BY <1>1 DEF IInv, NoticeInv

(* Every step keeps what notices carried out. *)
LEMMA NoticeStep == IInv /\ [Next]_vars => NoticeInv'
<1> SUFFICES ASSUME IInv, [Next]_vars PROVE NoticeInv'
  OBVIOUS
<1>0. TypeOK /\ TypeOK'
  BY TypeStep DEF IInv
<1> USE <1>0, TypeFacts DEF durable
<1>1. ASSUME NEW q \in Partition, Handle(q) PROVE NoticeInv'
  <2>1. /\ Fetched(q) /\ work = {} /\ notice = {}
        /\ active' = active
    BY <1>1, ReceiveFacts DEF Handle, HandleUnparseable, AddToBatch, AddAndFlush, HandleReorg,
       Fetched, IInv, SessionInv
  <2>2. batch' \cup work' \subseteq batch \cup {<<q, position[q] + 1>>}
    BY <1>1, <2>1 DEF Handle, HandleUnparseable, AddToBatch, AddAndFlush, HandleReorg, Drain
  <2> SUFFICES ASSUME NEW p \in Partition, NEW n \in 1..position'[p], CarriedOut(p, n)'
               PROVE  /\ \A o \in batch' \cup work' : o[1] = p => n < o[2]
                      /\ \A b \in Log[p][n].hashes : LastWord(p, n, b) => <<p, b>> \notin active'
    BY DEF NoticeInv, LastWord
  <2>3. n \in 1..position[p]
    <3>1. ASSUME p = q, n = position[q] + 1 PROVE FALSE
      <4>1. CASE HandleReorg(q)
        BY <3>1, <4>1 DEF HandleReorg, Drain, CarriedOut
      <4>2. CASE ~HandleReorg(q)
        <5>1. Log[q][position[q] + 1].type # "reorg"
          BY <1>1, <4>2, ReceiveFacts
          DEF Handle, HandleUnparseable, AddToBatch, AddAndFlush, Receive
        <5> QED
          BY <3>1, <5>1 DEF CarriedOut
      <4> QED
        BY <4>1, <4>2
    <3> QED
      BY <2>1, <3>1 DEF Fetched
  <2>4. CarriedOut(p, n)
    BY <2>1 DEF CarriedOut
  <2>5. /\ \A o \in batch : o[1] = p => n < o[2]
        /\ \A b \in Log[p][n].hashes : LastWord(p, n, b) => <<p, b>> \notin active
    BY <2>3, <2>4 DEF IInv, NoticeInv
  <2> QED
    BY <2>1, <2>2, <2>3, <2>5 DEF Fetched
<1>2. CASE Tick \/ Stop
  <2>1. \A p \in Partition, n \in Nat : CarriedOut(p, n)' => CarriedOut(p, n)
    BY <1>2 DEF Tick, Stop, Drain, CarriedOut, IInv, SessionInv
  <2> QED
    BY <1>2, <2>1, NoticeKept DEF Tick, Stop, Drain
<1>3. CASE RunRecords
  <2> SUFFICES ASSUME NEW p \in Partition, NEW n \in 1..position[p], CarriedOut(p, n),
                      NEW b \in Log[p][n].hashes, LastWord(p, n, b)
               PROVE  <<p, b>> \notin active'
    BY <1>3 DEF RunRecords, IInv, NoticeInv, CarriedOut, LastWord
  <2>1. ASSUME NEW o \in work, <<o[1], Msg(o).block>> = <<p, b>> PROVE FALSE
    <3>1. o[1] = p /\ Msg(o).block = b
      BY <2>1
    <3>2. n < o[2] /\ Msg(o).type = "balance_delta"
      BY <3>1 DEF IInv, NoticeInv, SessionInv
    <3>3. o[2] \in 1..Len(Log[p])
      BY <3>1, OffsetFacts
    <3>4. o[2] \in (n + 1)..Len(Log[p])
      BY <3>2, <3>3, LogAssumption
    <3> QED
      BY <3>1, <3>2, <3>4 DEF LastWord, Msg
  <2> QED
    BY <1>3, <2>1 DEF RunRecords, IInv, NoticeInv
<1>4. CASE RunCompletes
  BY <1>4, NoticeKept DEF RunCompletes, CarriedOut
<1>5. CASE CommitBatch
  <2>1. \A p \in Partition : position'[p] \in Nat /\ position'[p] <= position[p]
    <3>0. \A p \in Partition : CommittedTo(work, p)
      BY <1>5, CommitFacts DEF CommitBatch
    <3>1. ASSUME NEW p \in Partition PROVE committed'[p] <= position[p]
      <4> DEFINE o == <<p, committed'[p]>>
      <4>1. CASE o \in work
        <5>1. o[2] <= position[o[1]]
          BY <4>1 DEF IInv, SessionInv, InHand
        <5> QED
          BY <5>1
      <4>2. CASE committed'[p] = committed[p]
        BY <4>2 DEF IInv, CommitInv
      <4> QED
        BY <3>0, <4>1, <4>2 DEF CommittedTo
    <3>2. position' = committed' \/ position' = position
      BY <1>5 DEF CommitBatch, Restart
    <3>3. \A p \in Partition : position[p] \in Nat /\ position'[p] \in Nat
      BY DEF TypeOK
    <3> QED
      BY <3>1, <3>2, <3>3
  <2>2. ASSUME NEW p \in Partition, NEW n \in Nat, CarriedOut(p, n)' PROVE CarriedOut(p, n)
    BY <1>5, <2>2 DEF CommitBatch, Restart, CarriedOut, IInv, SessionInv
  <2> QED
    BY <1>5, <2>1, <2>2, NoticeKept DEF CommitBatch, Restart
<1>6. CASE OnReorg
  <2>1. batch = {} /\ work = {} /\ batch' = {} /\ work' = {} /\ position' = position
    BY <1>6 DEF OnReorg, IInv, SessionInv
  <2> SUFFICES ASSUME NEW p \in Partition, NEW n \in 1..position[p], CarriedOut(p, n)',
                      NEW b \in Log[p][n].hashes, LastWord(p, n, b), <<p, b>> \in active'
               PROVE  FALSE
    BY <2>1 DEF NoticeInv, LastWord
  <2>2. CASE <<p, n>> \in notice
    <3> DEFINE o == <<p, n>>
    <3>1. <<p, b>>[1] = o[1] => <<p, b>>[2] \notin Msg(o).hashes
      BY <1>6, <2>2 DEF OnReorg
    <3> QED
      BY <3>1 DEF Msg
  <2>3. CASE <<p, n>> \notin notice
    BY <1>6, <2>3 DEF OnReorg, CarriedOut, IInv, NoticeInv
  <2> QED
    BY <2>2, <2>3
<1>7. CASE CommitNotice
  BY <1>7, NoticeKept DEF CommitNotice, CarriedOut
<1>8. CASE TickFails
  <2>1. notice = {}
    BY <1>8 DEF TickFails, IInv, SessionInv
  <2> QED
    BY <1>8, <2>1, NoticeKept DEF TickFails, CarriedOut
<1>9. CASE Crash
  <2>1. \A p \in Partition : \A n \in 1..position'[p] : CarriedOut(p, n)' => CarriedOut(p, n)
    BY <1>9 DEF Crash, Restart, CarriedOut, IInv, CommitInv
  <2> QED
    BY <1>9, <2>1, NoticeKept DEF Crash, Restart, IInv, CommitInv
<1>10. CASE TickIdle \/ UNCHANGED vars
  BY <1>10 DEF TickIdle, vars, IInv, NoticeInv, CarriedOut
<1> QED
  BY <1>1, <1>2, <1>3, <1>4, <1>5, <1>6, <1>7, <1>8, <1>9, <1>10 DEF Next, Flush
-----------------------------------------------------------------------------
(* IInv is inductive. *)
LEMMA Inductive ==
    /\ Init => IInv
    /\ IInv /\ [Next]_vars => IInv'
<1>1. Init => IInv
  <2> SUFFICES ASSUME Init PROVE IInv
    OBVIOUS
  <2>1. TypeOK
    BY LogAssumption DEF Init, TypeOK, Step
  <2>2. SessionInv /\ CommitInv /\ PendingInv /\ LossOnlyByDropOrPoison /\ NoticeInv
    BY DEF Init, SessionInv, CommitInv, PendingInv, LossOnlyByDropOrPoison,
       CommittedIsProcessed, NoticeInv, InHand
  <2> QED
    BY <2>1, <2>2 DEF IInv
<1>2. IInv /\ [Next]_vars => IInv'
  BY TypeStep, SessionStep, CommitStep, PendingStep, LossStep, NoticeStep DEF IInv
<1> QED
  BY <1>1, <1>2

(* The invariant holds of every behaviour of the consumer. *)
THEOREM Invariance == Spec => []IInv
BY Inductive, PTL DEF Spec

(* Type correctness of the consumer. *)
THEOREM TypeCorrect == Spec => []TypeOK
<1>1. IInv => TypeOK
  BY DEF IInv
<1> QED
  BY <1>1, Invariance, PTL

(* An offset is committed only when every message up to it was handled, in *)
(* any log and under any crashes, unless a periodic flush failed or an     *)
(* unparseable message was committed past a batch.                         *)
THEOREM NothingLost == Spec => []LossOnlyByDropOrPoison
<1>1. IInv => LossOnlyByDropOrPoison
  BY DEF IInv
<1> QED
  BY <1>1, Invariance, PTL

(* A block revoked by a committed notice, and not published again in the   *)
(* log, has no active evidence and never gets any: redelivery, failed      *)
(* flushes and lost batches included.                                      *)
THEOREM RevocationLasts == Spec => []RevokedStaysRevoked
<1>1. IInv => RevokedStaysRevoked
  <2> SUFFICES ASSUME IInv, NEW p \in Partition, NEW n \in 1..committed[p],
                      Log[p][n].type = "reorg", NEW b \in Log[p][n].hashes, LastWord(p, n, b)
               PROVE  <<p, b>> \notin active
    BY DEF RevokedStaysRevoked, LastWord
  <2>1. n \in 1..position[p]
    BY TypeFacts DEF IInv, CommitInv
  <2>2. CarriedOut(p, n)
    BY TypeFacts DEF IInv, CommitInv, CarriedOut
  <2> QED
    BY <2>1, <2>2 DEF IInv, NoticeInv
<1> QED
  BY <1>1, Invariance, PTL
-----------------------------------------------------------------------------
(* The deltas of a transaction, as the publisher writes them: whatever     *)
(* deltas lie between two of them belong to the same block.  A block's     *)
(* messages go out in one call before the next block's, again after a      *)
(* failure, and the block comes back later only behind a notice.           *)
TxsTogether ==
    \A p \in Partition : \A m, n \in 1..Len(Log[p]) :
        m < n /\ SameTx(<<p, m>>, <<p, n>>) =>
            \A k \in m..n : Log[p][k].type = "balance_delta" => Log[p][k].block = Log[p][m].block

(* No transaction of p has deltas on both sides of the gap behind k. *)
Boundary(p, k) ==
    \A m \in 1..k, n \in (k + 1)..Len(Log[p]) : ~SameTx(<<p, m>>, <<p, n>>)

(* The deltas m and n of a transaction of p lie around k. *)
Around(p, m, k, n) ==
    m \in 1..k /\ n \in k..Len(Log[p]) /\ SameTx(<<p, m>>, <<p, n>>)

(* Batches hold whole transactions until one is split: a session starts,   *)
(* and resumes, between two transactions, what is batched goes back to the *)
(* first delta of its transactions, what is drained holds them to the last.*)
StartsWhole ==
    /\ \A p \in Partition : Boundary(p, committed[p])
    /\ \A p \in Partition : (\A o \in batch : o[1] # p) => Boundary(p, position[p])

BatchWhole ==
    /\ \A o, q \in batch : o[1] = q[1] /\ Msg(o).block = Msg(q).block
    /\ \A o \in batch : \A n \in o[2]..position[o[1]] :
          Log[o[1]][n].type = "balance_delta" => <<o[1], n>> \in batch
    /\ \A o \in batch : \A m, n \in 1..Len(Log[o[1]]) :
          Around(o[1], m, o[2], n) => <<o[1], m>> \in batch

WorkWhole ==
    \A o \in work : \A m, n \in 1..Len(Log[o[1]]) :
        Around(o[1], m, o[2], n) => <<o[1], m>> \in work /\ <<o[1], n>> \in work

WholeInv == hit = {} => StartsWhole /\ BatchWhole /\ WorkWhole /\ RunsSeeWholeTxs

(* Types of what the proofs below compare. *)
LEMMA PlaceFacts ==
    ASSUME TypeOK, SessionInv
    PROVE  /\ \A p \in Partition : Len(Log[p]) \in Nat
           /\ \A p \in Partition : position[p] \in Nat /\ position[p] <= Len(Log[p])
           /\ \A p \in Partition : committed[p] \in Nat /\ committed[p] <= Len(Log[p])
           /\ \A o \in batch \cup work :
                 /\ o[1] \in Partition /\ o[2] \in 1..Len(Log[o[1]]) /\ o = <<o[1], o[2]>>
                 /\ o[2] <= position[o[1]] /\ Log[o[1]][o[2]].type = "balance_delta"
BY LogAssumption, OffsetFacts DEF TypeOK, SessionInv, InHand, Msg

(* What SameTx says about two places of one partition. *)
LEMMA SameTxFacts ==
    ASSUME NEW p, NEW m, NEW n, SameTx(<<p, m>>, <<p, n>>)
    PROVE  /\ Log[p][m].type = "balance_delta" /\ Log[p][n].type = "balance_delta"
           /\ Log[p][m].block = Log[p][n].block
           /\ \A k \in m..n : Log[p][k].type # "reorg"
BY DEF SameTx, Msg

(* No transaction goes on behind a notice. *)
LEMMA NoticeBoundary ==
    ASSUME NEW p \in Partition, NEW k \in 1..Len(Log[p]), Log[p][k].type = "reorg"
    PROVE  Boundary(p, k) /\ Boundary(p, k - 1)
<1>1. Len(Log[p]) \in Nat
  BY LogAssumption
<1>2. ASSUME NEW m \in 1..k, NEW n \in k..Len(Log[p]), SameTx(<<p, m>>, <<p, n>>) PROVE FALSE
  BY <1>1, <1>2, SameTxFacts
<1> QED
  BY <1>1, <1>2 DEF Boundary

(* ... nor starts with a message that cannot be parsed. *)
LEMMA PoisonBoundary ==
    ASSUME NEW p \in Partition, NEW k \in Nat, k + 1 <= Len(Log[p]),
           Log[p][k + 1].type = "unparseable", Boundary(p, k)
    PROVE  Boundary(p, k + 1)
<1> SUFFICES ASSUME NEW m \in 1..(k + 1), NEW n \in (k + 1 + 1)..Len(Log[p]), SameTx(<<p, m>>, <<p, n>>)
             PROVE  FALSE
  BY DEF Boundary
<1>1. Len(Log[p]) \in Nat
  BY LogAssumption
<1>2. m # k + 1
  BY SameTxFacts
<1> QED
  BY <1>1, <1>2 DEF Boundary

(* A transaction begun before the position and not over there is one of    *)
(* the batched block.                                                      *)
LEMMA OfTheBatch ==
    ASSUME TypeOK, SessionInv, BatchWhole, TxsTogether, NEW o \in batch,
           NEW m \in 1..position[o[1]], NEW n \in (position[o[1]] + 1)..Len(Log[o[1]]),
           SameTx(<<o[1], m>>, <<o[1], n>>)
    PROVE  /\ Log[o[1]][m].block = Msg(o).block
           /\ \A k \in (position[o[1]] + 1)..n :
                 Log[o[1]][k].type = "balance_delta" => Log[o[1]][k].block = Msg(o).block
<1> DEFINE p == o[1]
<1>1. /\ p \in Partition /\ Len(Log[p]) \in Nat /\ position[p] \in Nat /\ position[p] <= Len(Log[p])
      /\ o[2] \in 1..Len(Log[p]) /\ o[2] <= position[p] /\ o = <<p, o[2]>>
      /\ Log[p][o[2]].type = "balance_delta"
  BY PlaceFacts
<1>2. m \in 1..Len(Log[p]) /\ n \in 1..Len(Log[p]) /\ m < n
  BY <1>1
<1>3. \A k \in m..n : Log[p][k].type = "balance_delta" => Log[p][k].block = Log[p][m].block
  BY <1>1, <1>2 DEF TxsTogether
<1>4. Msg(o) = Log[p][o[2]]
  BY DEF Msg
<1>5. Log[p][m].block = Msg(o).block
  <2>1. CASE m <= o[2]
    BY <1>1, <1>2, <1>3, <1>4, <2>1
  <2>2. CASE m > o[2]
    <3>1. <<p, m>> \in batch
      BY <1>1, <2>2, SameTxFacts DEF BatchWhole
    <3>2. Msg(<<p, m>>) = Log[p][m]
      BY DEF Msg
    <3> QED
      BY <3>1, <3>2 DEF BatchWhole
  <2> QED
    BY <1>1, <2>1, <2>2
<1> QED
  BY <1>1, <1>2, <1>3, <1>5

(* The batch is over where a delta of another block follows ... *)
LEMMA OtherBlockBoundary ==
    ASSUME TypeOK, SessionInv, BatchWhole, TxsTogether, NEW o \in batch,
           position[o[1]] + 1 <= Len(Log[o[1]]),
           Log[o[1]][position[o[1]] + 1].type = "balance_delta",
           Log[o[1]][position[o[1]] + 1].block # Msg(o).block
    PROVE  Boundary(o[1], position[o[1]])
<1> SUFFICES ASSUME NEW m \in 1..position[o[1]], NEW n \in (position[o[1]] + 1)..Len(Log[o[1]]),
                    SameTx(<<o[1], m>>, <<o[1], n>>)
             PROVE  FALSE
  BY DEF Boundary
<1>1. position[o[1]] \in Nat /\ Len(Log[o[1]]) \in Nat
  BY PlaceFacts
<1>2. position[o[1]] + 1 \in (position[o[1]] + 1)..n
  BY <1>1
<1> QED
  BY <1>2, OfTheBatch

(* ... and where it is flushed with nothing of its block to come. *)
LEMMA FinishedBoundary ==
    ASSUME TypeOK, SessionInv, BatchWhole, TxsTogether, ~Unfinished, NEW o \in batch
    PROVE  Boundary(o[1], position[o[1]])
<1> DEFINE p == o[1]
<1> SUFFICES ASSUME NEW m \in 1..position[p], NEW n \in (position[p] + 1)..Len(Log[p]),
                    SameTx(<<p, m>>, <<p, n>>)
             PROVE  FALSE
  BY DEF Boundary
<1>1. p \in Partition /\ position[p] \in Nat /\ Len(Log[p]) \in Nat
  BY PlaceFacts
<1> DEFINE S == {k \in (position[p] + 1)..n : Log[p][k].type # "unparseable"}
<1>2. n \in S
  BY <1>1, SameTxFacts
<1>3. PICK k \in S : \A j \in S : k <= j
  <2>1. S \subseteq Nat
    BY <1>1
  <2> HIDE DEF S
  <2> QED
    BY <1>2, <2>1, LeastNatural
<1>4. k \in m..n /\ k \in 1..Len(Log[p]) /\ k \in (position[p] + 1)..Len(Log[p])
  BY <1>1, <1>3
<1>5. Log[p][k].type = "balance_delta"
  BY <1>1, <1>3, <1>4, SameTxFacts, LogAssumption DEF IsMessage
<1>6. Log[p][k].block = Msg(o).block
  BY <1>3, <1>5, OfTheBatch
<1>7. \A j \in (position[p] + 1)..(k - 1) : Log[p][j].type = "unparseable"
  BY <1>1, <1>3, <1>4
<1> QED
  BY <1>4, <1>5, <1>6, <1>7 DEF Unfinished

(* A batch that is over holds its transactions to the last delta. *)
LEMMA DrainedWhole ==
    ASSUME TypeOK, SessionInv, BatchWhole, \A o \in batch : Boundary(o[1], position[o[1]]), work' = batch
    PROVE  WorkWhole'
<1> SUFFICES ASSUME NEW o \in batch, NEW m \in 1..Len(Log[o[1]]), NEW n \in 1..Len(Log[o[1]]),
                    Around(o[1], m, o[2], n)
             PROVE  <<o[1], m>> \in batch /\ <<o[1], n>> \in batch
  BY DEF WorkWhole, Around, SameTx, Msg
<1> DEFINE p == o[1]
<1>1. /\ p \in Partition /\ Len(Log[p]) \in Nat /\ position[p] \in Nat /\ position[p] <= Len(Log[p])
      /\ o[2] \in 1..Len(Log[p]) /\ o[2] <= position[p]
  BY PlaceFacts
<1>2. <<p, m>> \in batch
  BY DEF BatchWhole
<1>3. m \in 1..position[p] /\ n \in o[2]..Len(Log[p]) /\ SameTx(<<p, m>>, <<p, n>>)
  BY <1>1 DEF Around
<1>4. n \in o[2]..position[p]
  BY <1>1, <1>3 DEF Boundary
<1> QED
  BY <1>2, <1>3, <1>4, SameTxFacts DEF BatchWhole

(* Whatever is committed at a boundary leaves the offsets at boundaries. *)
LEMMA CommitBoundary ==
    ASSUME TypeOK, NEW os, os \subseteq Offset, CommitMessages(os),
           \A p \in Partition : Boundary(p, committed[p]),
           \A o \in os : (\A q \in os : q[1] = o[1] => q[2] <= o[2]) => Boundary(o[1], o[2])
    PROVE  \A p \in Partition : Boundary(p, committed'[p])
<1> SUFFICES ASSUME NEW p \in Partition PROVE Boundary(p, committed'[p])
  OBVIOUS
<1>1. CommittedTo(os, p)
  BY CommitFacts
<1>2. CASE /\ <<p, committed'[p]>> \in os
           /\ \A o \in os : o[1] = p => o[2] <= committed'[p]
  <2> DEFINE x == <<p, committed'[p]>>
  <2>1. x \in os /\ x[1] = p /\ x[2] = committed'[p]
    BY <1>2
  <2>2. Boundary(x[1], x[2])
    BY <1>2, <2>1
  <2> QED
    BY <2>1, <2>2
<1>3. CASE committed'[p] = committed[p]
  BY <1>3
<1> QED
  BY <1>1, <1>2, <1>3 DEF CommittedTo

(* The last delta of a drained batch is at a boundary. *)
LEMMA WorkBoundary ==
    ASSUME TypeOK, SessionInv, WorkWhole, NEW o \in work,
           \A q \in work : q[1] = o[1] => q[2] <= o[2]
    PROVE  Boundary(o[1], o[2])
<1> SUFFICES ASSUME NEW m \in 1..o[2], NEW n \in (o[2] + 1)..Len(Log[o[1]]),
                    SameTx(<<o[1], m>>, <<o[1], n>>)
             PROVE  FALSE
  BY DEF Boundary
<1>1. o[1] \in Partition /\ Len(Log[o[1]]) \in Nat /\ o[2] \in 1..Len(Log[o[1]])
  BY PlaceFacts
<1>2. m \in 1..Len(Log[o[1]]) /\ n \in 1..Len(Log[o[1]]) /\ Around(o[1], m, o[2], n)
  BY <1>1 DEF Around
<1>3. <<o[1], n>> \in work
  BY <1>2 DEF WorkWhole
<1> QED
  BY <1>1, <1>3

(* A new delta keeps the batch whole, whether the batch holds other deltas *)
(* of its block or none of its partition.                                  *)
LEMMA AddedWhole ==
    ASSUME TypeOK, SessionInv, StartsWhole, BatchWhole,
           NEW p \in Partition, Fetched(p), Log[p][position[p] + 1].type = "balance_delta",
           NEW kept \in SUBSET batch,
           kept # batch => kept = {} /\ Boundary(p, position[p]),
           \A o \in kept : o[1] = p /\ Msg(o).block = Log[p][position[p] + 1].block,
           batch' = kept \cup {<<p, position[p] + 1>>}
    PROVE  BatchWhole'
<1> DEFINE x == <<p, position[p] + 1>>
<1>1. /\ Len(Log[p]) \in Nat /\ position[p] \in Nat /\ position[p] + 1 <= Len(Log[p])
      /\ position'[p] = position[p] + 1
  BY PlaceFacts DEF Fetched
<1>2. \A o \in kept : /\ o[1] = p /\ o = <<p, o[2]>> /\ o[2] \in 1..Len(Log[p]) /\ o[2] <= position[p]
  BY PlaceFacts
<1>3. x[1] = p /\ x[2] = position[p] + 1 /\ Msg(x) = Log[p][position[p] + 1]
  BY DEF Msg
<1>4. \A o \in batch' : o[1] = p /\ Msg(o).block = Log[p][position[p] + 1].block
  BY <1>3
<1>5. ASSUME NEW o \in batch', NEW n \in o[2]..position'[o[1]], Log[o[1]][n].type = "balance_delta"
      PROVE  <<o[1], n>> \in batch'
  <2>1. CASE o = x
    BY <1>1, <1>3, <1>5, <2>1
  <2>2. CASE o \in kept
    <3>1. n = position[p] + 1 \/ n \in o[2]..position[p]
      BY <1>1, <1>2, <1>5, <2>2
    <3> QED
      BY <1>2, <1>5, <2>2, <3>1 DEF BatchWhole
  <2> QED
    BY <2>1, <2>2
<1>6. ASSUME NEW o \in batch', NEW m \in 1..Len(Log[o[1]]), NEW n \in 1..Len(Log[o[1]]),
             Around(o[1], m, o[2], n)
      PROVE  <<o[1], m>> \in batch'
  <2>1. CASE o \in kept
    BY <1>6, <2>1 DEF BatchWhole
  <2>2. CASE o = x
    <3>1. /\ m \in 1..(position[p] + 1) /\ n \in (position[p] + 1)..Len(Log[p])
          /\ SameTx(<<p, m>>, <<p, n>>)
      BY <1>3, <1>6, <2>2 DEF Around
    <3>2. CASE m = position[p] + 1
      BY <1>3, <2>2, <3>2
    <3>3. CASE m # position[p] + 1
      <4>1. m \in 1..position[p] /\ ~Boundary(p, position[p])
        BY <1>1, <3>1, <3>3 DEF Boundary
      <4>2. kept = batch /\ \E q \in batch : q[1] = p
        BY <4>1 DEF StartsWhole
      <4>3. PICK q \in kept : q[1] = p
        BY <4>2
      <4>4. q[2] \in 1..Len(Log[p]) /\ q[2] <= position[p]
        BY <1>2
      <4>5. CASE m <= q[2]
        <5>1. Around(p, m, q[2], n) /\ n \in 1..Len(Log[p]) /\ m \in 1..Len(Log[p])
          BY <1>1, <3>1, <4>1, <4>4, <4>5 DEF Around
        <5> QED
          BY <1>3, <2>2, <4>2, <4>3, <5>1 DEF BatchWhole
      <4>6. CASE m > q[2]
        <5>1. m \in q[2]..position[p] /\ Log[p][m].type = "balance_delta"
          BY <1>1, <3>1, <4>1, <4>4, <4>6, SameTxFacts
        <5> QED
          BY <1>3, <2>2, <4>2, <4>3, <5>1 DEF BatchWhole
      <4> QED
        BY <1>1, <4>1, <4>4, <4>5, <4>6
    <3> QED
      BY <3>2, <3>3
  <2> QED
    BY <2>1, <2>2
<1> QED
  BY <1>4, <1>5, <1>6 DEF BatchWhole, Msg, Around, SameTx

(* What is neither a delta nor run for leaves the runs as whole as before. *)
LEMMA ProcessedOther ==
    ASSUME RunsSeeWholeTxs, runs' = runs, NEW S \in SUBSET Offset, processed' = processed \cup S,
           \A o \in S : Msg(o).type # "balance_delta"
    PROVE  RunsSeeWholeTxs'
<1> SUFFICES ASSUME NEW o \in processed', NEW q \in processed', o[2] < q[2], SameTx(o, q)
             PROVE  \E r \in runs : {o, q} \subseteq r
  BY DEF RunsSeeWholeTxs, SameTx, Msg
<1>1. Msg(o).type = "balance_delta" /\ Msg(q).type = "balance_delta"
  BY DEF SameTx
<1> QED
  BY <1>1 DEF RunsSeeWholeTxs

(* A run over whole transactions keeps every transaction in one run. *)
LEMMA ProcessedWork ==
    ASSUME TypeOK, SessionInv, WorkWhole, RunsSeeWholeTxs, runs' = runs \cup {work},
           processed' = processed \cup work
    PROVE  RunsSeeWholeTxs'
<1> SUFFICES ASSUME NEW o \in processed', NEW q \in processed', o[2] < q[2], SameTx(o, q)
             PROVE  \E r \in runs' : {o, q} \subseteq r
  BY DEF RunsSeeWholeTxs, SameTx, Msg
<1>1. CASE o \in processed /\ q \in processed
  BY <1>1 DEF RunsSeeWholeTxs
<1>2. /\ o[1] \in Partition /\ o[2] \in 1..Len(Log[o[1]]) /\ o = <<o[1], o[2]>>
      /\ q[1] \in Partition /\ q[2] \in 1..Len(Log[q[1]]) /\ q = <<q[1], q[2]>>
  <2>1. o \in Offset /\ q \in Offset
    BY DEF TypeOK
  <2> QED
    BY <2>1, OffsetFacts
<1>3. o[1] = q[1]
  BY DEF SameTx
<1>4. Len(Log[o[1]]) \in Nat
  BY <1>2, LogAssumption
<1>5. Around(o[1], o[2], o[2], q[2]) /\ Around(o[1], o[2], q[2], q[2])
  BY <1>2, <1>3, <1>4 DEF Around
<1>6. CASE o \in work \/ q \in work
  <2>1. o \in work /\ q \in work
    BY <1>2, <1>3, <1>5, <1>6 DEF WorkWhole
  <2> QED
    BY <2>1
<1> QED
  BY <1>1, <1>6

(* Every step keeps transactions whole, or records that it split one. *)
LEMMA WholeStep ==
    ASSUME TxsTogether, IInv, WholeInv, [Next]_vars, hit' = {}
    PROVE  StartsWhole' /\ BatchWhole' /\ WorkWhole' /\ RunsSeeWholeTxs'
<1> DEFINE Whole == StartsWhole /\ BatchWhole /\ WorkWhole /\ RunsSeeWholeTxs
<1>0. TypeOK /\ SessionInv /\ TypeOK' /\ hit = {} /\ Whole
  BY HitGrows, TypeStep DEF IInv, WholeInv
<1>a. ASSUME NEW p, NEW k PROVE Boundary(p, k)' <=> Boundary(p, k')
  BY DEF Boundary, SameTx, Msg
<1>b. UNCHANGED <<processed, runs>> => RunsSeeWholeTxs'
  BY <1>0 DEF RunsSeeWholeTxs, SameTx, Msg
<1>c. UNCHANGED <<batch, position>> => BatchWhole'
  BY <1>0 DEF BatchWhole, Around, SameTx, Msg
<1>d. work' = work \/ work' = {} => WorkWhole'
  BY <1>0 DEF WorkWhole, Around, SameTx, Msg
<1>e. batch' = {} => BatchWhole'
  BY DEF BatchWhole
<1>f. ASSUME \A p \in Partition : Boundary(p, committed'[p]),
             \A p \in Partition : (\A o \in batch' : o[1] # p) => Boundary(p, position'[p])
      PROVE  StartsWhole'
  BY <1>f DEF StartsWhole, Boundary, SameTx, Msg
<1>g. /\ \A p \in Partition : Boundary(p, committed[p])
      /\ \A p \in Partition : (\A o \in batch : o[1] # p) => Boundary(p, position[p])
  BY <1>0 DEF StartsWhole
<1> USE <1>0
<1>1. ASSUME NEW p \in Partition, HandleUnparseable(p)
      PROVE  StartsWhole' /\ BatchWhole' /\ WorkWhole' /\ RunsSeeWholeTxs'
  <2> DEFINE x == <<p, position[p] + 1>>
  <2>1. Fetched(p) /\ Log[p][position[p] + 1].type = "unparseable" /\ x \in Offset
    BY <1>1, ReceiveFacts DEF HandleUnparseable, Fetched, Msg
  <2>2. \A o \in batch : o[1] # p
    BY <1>1 DEF HandleUnparseable
  <2>3. Boundary(p, position[p] + 1)
    BY <1>g, <2>1, <2>2, PoisonBoundary, PlaceFacts, LogAssumption DEF Fetched
  <2>4. \A q \in Partition : Boundary(q, committed'[q])
    BY <1>1, <1>g, <2>1, <2>3, CommitBoundary DEF HandleUnparseable
  <2>5. \A q \in Partition : (\A o \in batch' : o[1] # q) => Boundary(q, position'[q])
    BY <1>1, <1>g, <2>1, <2>3 DEF HandleUnparseable, Fetched
  <2>6. BatchWhole'
    <3>1. \A o \in batch : o[1] \in Partition /\ position'[o[1]] = position[o[1]]
      BY <2>1, <2>2, PlaceFacts DEF Fetched
    <3> QED
      BY <1>1, <3>1 DEF HandleUnparseable, BatchWhole, Around, SameTx, Msg
  <2>7. RunsSeeWholeTxs'
    <3>1. \A o \in {x} : Msg(o).type # "balance_delta"
      BY <2>1 DEF Msg
    <3>2. runs' = runs /\ processed' = processed \cup {x}
      BY <1>1 DEF HandleUnparseable
    <3>3. {x} \in SUBSET Offset
      BY <2>1
    <3> HIDE DEF x
    <3> QED
      BY <3>1, <3>2, <3>3, ProcessedOther
  <2> QED
    BY <1>1, <1>d, <1>f, <2>4, <2>5, <2>6, <2>7 DEF HandleUnparseable
<1>2. ASSUME NEW p \in Partition, AddToBatch(p)
      PROVE  StartsWhole' /\ BatchWhole' /\ WorkWhole' /\ RunsSeeWholeTxs'
  <2>1. Fetched(p) /\ Log[p][position[p] + 1].type = "balance_delta"
    BY <1>2, ReceiveFacts DEF AddToBatch, Msg
  <2>2. \A o \in batch : o[1] = p /\ Msg(o).block = Log[p][position[p] + 1].block
    BY <1>2 DEF AddToBatch, OtherBlock
  <2>3. BatchWhole'
    <3>1. batch' = batch \cup {<<p, position[p] + 1>>}
      BY <1>2 DEF AddToBatch
    <3>2. BatchWhole /\ StartsWhole /\ batch \in SUBSET batch
      OBVIOUS
    <3> QED
      BY <2>1, <2>2, <3>1, <3>2, AddedWhole
  <2>4. \A q \in Partition : (\A o \in batch' : o[1] # q) => Boundary(q, position'[q])
    BY <1>2, <1>g, <2>1 DEF AddToBatch, Fetched
  <2>5. UNCHANGED <<committed, processed, runs, work>>
    BY <1>2 DEF AddToBatch, durable
  <2> QED
    BY <1>b, <1>d, <1>f, <1>g, <2>3, <2>4, <2>5
<1>3. ASSUME NEW p \in Partition, AddAndFlush(p)
      PROVE  StartsWhole' /\ BatchWhole' /\ WorkWhole' /\ RunsSeeWholeTxs'
  <2> DEFINE x == <<p, position[p] + 1>>
  <2>1. Fetched(p) /\ Log[p][position[p] + 1].type = "balance_delta"
    BY <1>3, ReceiveFacts DEF AddAndFlush, Msg
  <2>2. ASSUME NEW o \in batch PROVE Boundary(o[1], position[o[1]])
    <3>1. CASE o[1] # p
      <4>1. ~Unfinished
        BY <1>3, <3>1 DEF AddAndFlush, Cut
      <4> QED
        BY <4>1, FinishedBoundary
    <3>2. CASE o[1] = p
      <4>1. PICK q \in batch : q[1] # p \/ Msg(q).block # Log[p][position[p] + 1].block
        BY <1>3 DEF AddAndFlush, OtherBlock
      <4>2. Msg(o).block # Log[p][position[p] + 1].block
        BY <3>2, <4>1 DEF BatchWhole
      <4>3. position[o[1]] + 1 <= Len(Log[o[1]])
        BY <2>1, <3>2, PlaceFacts DEF Fetched
      <4> QED
        BY <2>1, <3>2, <4>2, <4>3, OtherBlockBoundary
    <3> QED
      BY <3>1, <3>2
  <2>3. Boundary(p, position[p])
    BY <1>g, <2>2
  <2>4. BatchWhole'
    <3>1. batch' = {} \cup {x}
      BY <1>3 DEF AddAndFlush
    <3> HIDE DEF x
    <3> QED
      BY <2>1, <2>3, <3>1, AddedWhole DEF x
  <2>5. WorkWhole'
    BY <1>3, <2>2, DrainedWhole DEF AddAndFlush
  <2>6. ASSUME NEW q \in Partition, \A o \in batch' : o[1] # q PROVE Boundary(q, position'[q])
    <3>1. q # p /\ position'[q] = position[q]
      BY <1>3, <2>1, <2>6 DEF AddAndFlush, Fetched
    <3> QED
      BY <1>g, <2>2, <3>1
  <2>7. UNCHANGED <<committed, processed, runs>>
    BY <1>3 DEF AddAndFlush, durable
  <2> QED
    BY <1>b, <1>f, <1>g, <2>4, <2>5, <2>6, <2>7
<1>4. ASSUME NEW p \in Partition, HandleReorg(p)
      PROVE  StartsWhole' /\ BatchWhole' /\ WorkWhole' /\ RunsSeeWholeTxs'
  <2>1. Fetched(p) /\ Log[p][position[p] + 1].type = "reorg"
    BY <1>4, ReceiveFacts DEF HandleReorg, Msg
  <2>2. Boundary(p, position[p] + 1) /\ Boundary(p, position[p])
    <3>1. position[p] \in Nat
      BY PlaceFacts
    <3> DEFINE k == position[p] + 1
    <3>2. k \in 1..Len(Log[p]) /\ Log[p][k].type = "reorg"
      BY <2>1 DEF Fetched
    <3>3. Boundary(p, k) /\ Boundary(p, k - 1)
      <4> HIDE DEF k
      <4> QED
        BY <3>2, NoticeBoundary
    <3>4. Boundary(p, position[p] + 1)
      BY <3>3
    <3>5. k - 1 = position[p]
      BY <3>1
    <3>6. Boundary(p, position[p])
      <4> HIDE DEF k
      <4> QED
        BY <3>3, <3>5
    <3> QED
      BY <3>4, <3>6
  <2>3. ASSUME NEW o \in batch PROVE Boundary(o[1], position[o[1]])
    <3>1. CASE o[1] # p
      <4>1. ~Unfinished
        BY <1>4, <3>1 DEF HandleReorg, Cut
      <4> QED
        BY <4>1, FinishedBoundary
    <3>2. CASE o[1] = p
      BY <2>2, <3>2
    <3> QED
      BY <3>1, <3>2
  <2>4. work' = batch /\ batch' = {} /\ UNCHANGED <<committed, processed, runs>>
    BY <1>4 DEF HandleReorg, Drain, durable
  <2>5. WorkWhole'
    BY <2>3, <2>4, DrainedWhole
  <2>6. \A q \in Partition : Boundary(q, position'[q])
    BY <1>g, <2>1, <2>2, <2>3 DEF Fetched
  <2> QED
    BY <1>b, <1>e, <1>f, <1>g, <2>4, <2>5, <2>6
<1>5. CASE Tick \/ Stop
  <2>1. /\ work' = batch /\ batch' = {} /\ ~Unfinished
        /\ UNCHANGED <<committed, position, processed, runs>>
    BY <1>5 DEF Tick, Stop, Drain, Cut, durable
  <2>2. \A o \in batch : Boundary(o[1], position[o[1]])
    BY <2>1, FinishedBoundary
  <2>3. WorkWhole'
    BY <2>1, <2>2, DrainedWhole
  <2>4. \A q \in Partition : Boundary(q, position[q])
    BY <1>g, <2>2
  <2> QED
    BY <1>b, <1>e, <1>f, <1>g, <2>1, <2>3, <2>4
<1>6. CASE RunCompletes
  <2>1. RunsSeeWholeTxs'
    BY <1>6, ProcessedWork DEF RunCompletes
  <2> QED
    BY <1>6, <1>c, <1>d, <1>f, <1>g, <2>1 DEF RunCompletes
<1>7. CASE CommitBatch
  <2>1. work \subseteq Offset /\ CommitMessages(work)
    BY <1>7 DEF CommitBatch, TypeOK
  <2>2. \A o \in work : (\A q \in work : q[1] = o[1] => q[2] <= o[2]) => Boundary(o[1], o[2])
    BY WorkBoundary
  <2>3. \A p \in Partition : Boundary(p, committed'[p])
    BY <1>g, <2>1, <2>2, CommitBoundary
  <2>4. UNCHANGED <<processed, runs>> /\ work' = {}
    BY <1>7 DEF CommitBatch, Restart
  <2>5. CASE position' = committed' /\ batch' = {}
    BY <1>b, <1>d, <1>e, <1>f, <2>3, <2>4, <2>5
  <2>6. CASE UNCHANGED <<position, batch>>
    BY <1>b, <1>c, <1>d, <1>f, <1>g, <2>3, <2>4, <2>6
  <2> QED
    BY <1>7, <2>5, <2>6 DEF CommitBatch, Restart
<1>8. CASE OnReorg
  <2>1. \A o \in notice : Msg(o).type # "balance_delta"
    BY DEF SessionInv
  <2>2. RunsSeeWholeTxs'
    BY <1>8, <2>1, ProcessedOther DEF OnReorg, TypeOK
  <2> QED
    BY <1>8, <1>c, <1>d, <1>f, <1>g, <2>2 DEF OnReorg
<1>9. CASE CommitNotice
  <2>1. notice \subseteq Offset /\ CommitMessages(notice)
    BY <1>9 DEF CommitNotice, TypeOK
  <2>2. \A o \in notice : Boundary(o[1], o[2])
    BY <2>1, OffsetFacts, NoticeBoundary DEF SessionInv, Msg
  <2>3. \A p \in Partition : Boundary(p, committed'[p])
    BY <1>g, <2>1, <2>2, CommitBoundary
  <2> QED
    BY <1>9, <1>b, <1>c, <1>d, <1>f, <1>g, <2>3 DEF CommitNotice
<1>10. CASE Crash
  BY <1>10, <1>b, <1>d, <1>e, <1>f, <1>g DEF Crash, Restart, durable
<1>11. CASE RunRecords \/ TickFails \/ TickIdle \/ UNCHANGED vars
  <2>1. UNCHANGED <<committed, position, batch, processed, runs>> /\ (work' = work \/ work' = {})
    BY <1>11 DEF RunRecords, TickFails, TickIdle, vars, durable
  <2> QED
    BY <1>b, <1>c, <1>d, <1>f, <1>g, <2>1
<1> QED
  BY <1>1, <1>2, <1>3, <1>4, <1>5, <1>6, <1>7, <1>8, <1>9, <1>10, <1>11 DEF Next, Handle, Flush

(* The deltas of a transaction reach the pipeline in one run, in any log   *)
(* that publishes blocks whole and under any crashes and redelivery,       *)
(* unless a tick, a shutdown or a message of another chain cut a block     *)
(* short, or deltas were dropped or committed past.                        *)
THEOREM TransactionsStayWhole == TxsTogether => (Spec => []TxSplitOnlyByFlush)
<1> SUFFICES ASSUME TxsTogether PROVE Spec => []TxSplitOnlyByFlush
  OBVIOUS
<1>1. Init => WholeInv
  BY DEF Init, WholeInv, StartsWhole, BatchWhole, WorkWhole, RunsSeeWholeTxs, Boundary
<1>2. IInv /\ WholeInv /\ [Next]_vars => WholeInv'
  BY WholeStep DEF WholeInv
<1>3. WholeInv => TxSplitOnlyByFlush
  BY DEF WholeInv, TxSplitOnlyByFlush
<1> QED
  BY <1>1, <1>2, <1>3, Invariance, PTL DEF Spec
=============================================================================
