----------------------------- MODULE MCConsumer ------------------------------
(* Two chains.  On the first: a block with two deltas of one transaction   *)
(* and a block on top of it, both rolled back, a replacement and the first *)
(* again; on the second: a block with a message that cannot be parsed in   *)
(* the middle.                                                             *)
EXTENDS Consumer, TLC

D(b, t) == [type |-> "balance_delta", block |-> b, tx |-> t]
R(bs) == [type |-> "reorg", hashes |-> bs]
X == [type |-> "unparseable"]

MCPartition == {"eth", "bsc"}
MCLog == ("eth" :> <<D("a", 1), D("a", 1), D("b", 1), R({"a", "b"}), D("c", 1), D("a", 1)>>)
         @@ ("bsc" :> <<D("x", 1), D("x", 1), X, D("x", 2)>>)

(* One chain and no unparseable message. *)
PlainPartition == {"eth"}
PlainLog == "eth" :> <<D("a", 1), D("a", 1), D("b", 1), D("c", 1)>>

(* One chain with an unparseable message. *)
PoisonLog == "eth" :> <<D("a", 1), X, D("b", 1), D("c", 1)>>
=============================================================================
