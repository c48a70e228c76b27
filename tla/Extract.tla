-------------------------------- MODULE Extract --------------------------------
(***************************************************************************)
(* extractDeltas of the Ethereum adapter: the balance deltas of a          *)
(* transaction and its receipt.  A transaction is a record with its id,    *)
(* status, from, to and contract (an address or Nobody), value and logs;   *)
(* a log has the number of its topics, whether the first is the Transfer   *)
(* signature, from, to, value and the token.  Addresses are in the one     *)
(* spelling normalize gives them.                                          *)
(***************************************************************************)
EXTENDS Integers, Sequences, SequencesExt

CONSTANT Nobody  \* a nil To, a zero ContractAddress

Entry(addr, amt, asset, create) ==
    [addr |-> addr, amt |-> amt, asset |-> asset, create |-> create]

(* (1) The spending side of a native transfer. *)
NativeSpent(tx) == IF tx.value > 0 THEN <<Entry(tx.from, -tx.value, "native", FALSE)>> ELSE <<>>

(* (2) Its receiving side; of a deployment the contract, whatever the value. *)
NativeReceived(tx) ==
    CASE tx.to # Nobody /\ tx.value > 0 -> <<Entry(tx.to, tx.value, "native", FALSE)>>
      [] tx.to = Nobody /\ tx.contract # Nobody ->
            <<Entry(tx.contract, tx.value, "native", TRUE)>>
      [] OTHER -> <<>>

(* (3) ERC-20 Transfer logs; four topics are a token of another kind. *)
TokenTransfers(tx) ==
    LET transfers == SelectSeq(tx.logs, LAMBDA l : l.topics = 3 /\ l.transfer)
    IN  FlattenSeq([i \in DOMAIN transfers |->
            <<Entry(transfers[i].from, -transfers[i].value, transfers[i].token, FALSE),
              Entry(transfers[i].to, transfers[i].value, transfers[i].token, FALSE)>>])

Entries(tx) == NativeSpent(tx) \o NativeReceived(tx) \o TokenTransfers(tx)

(* A reverted transaction has no deltas; delta_index counts from 0. *)
extractDeltas(tx) ==
    LET es == Entries(tx)
    IN  IF tx.status = "failed" THEN <<>>
        ELSE [i \in DOMAIN es |->
                 [tx |-> tx.id, idx |-> i - 1, addr |-> es[i].addr, amt |-> es[i].amt,
                  asset |-> es[i].asset, create |-> es[i].create]]

(* What the main loop publishes of a block, in the order of its transactions. *)
BlockDeltas(txs) == FlattenSeq([i \in DOMAIN txs |-> extractDeltas(txs[i])])
=============================================================================
