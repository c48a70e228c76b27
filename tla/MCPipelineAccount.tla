-------------------------- MODULE MCPipelineAccount ---------------------------
(* An account chain.  a1: 1 funds 2, 1 deploys 3 without value and 2       *)
(* deploys 6 with value.  a2: 4 and 1 fund 5, which is new, and 4 sends 7  *)
(* a token.  c2, instead of a2: 4's transfer again, with another token     *)
(* log, and a reverted one.  a3: two payouts of 1, in tokens of 6, to 2    *)
(* and 5, and 4 pays 7.  c3: 1 pays 6 and 7.                               *)
EXTENDS Pipeline, Extract, TLC

MCAddress == 1..7
MCBlock == {"a1", "a2", "a3", "c2", "c3"}
MCParent == "a1" :> None @@ "a2" :> "a1" @@ "c2" :> "a1" @@ "a3" :> "a2" @@ "c3" :> "c2"
MCHeight == "a1" :> 1 @@ "a2" :> 2 @@ "c2" :> 2 @@ "a3" :> 3 @@ "c3" :> 3
MCCutAt == [b \in MCBlock |-> IF b = "a2" THEN {1} ELSE {}]

Log(f, t, v) == [topics |-> 3, transfer |-> TRUE, from |-> f, to |-> t, value |-> v, token |-> "tok"]
Nft(f, t) == [topics |-> 4, transfer |-> TRUE, from |-> f, to |-> t, value |-> 1, token |-> "nft"]
Tx(i, f, t, v, c, ls) ==
    [id |-> i, status |-> "ok", from |-> f, to |-> t, value |-> v, contract |-> c, logs |-> ls]

Raw == "a1" :> <<Tx("t1", 1, 2, 5, Nobody, <<>>), Tx("t2", 1, Nobody, 0, 3, <<>>),
                 Tx("t3", 2, Nobody, 1, 6, <<>>)>>
    @@ "a2" :> <<Tx("t4", 4, 5, 2, Nobody, <<Log(4, 7, 1)>>), Tx("t5", 1, 5, 3, Nobody, <<>>)>>
    @@ "c2" :> <<Tx("t4", 4, 5, 2, Nobody, <<Log(4, 6, 7), Nft(4, 5)>>),
                 [Tx("t5", 1, 5, 3, Nobody, <<>>) EXCEPT !.status = "failed"]>>
    @@ "a3" :> <<Tx("t6", 1, 6, 0, Nobody, <<Log(1, 2, 1), Log(1, 5, 1)>>),
                 Tx("t7", 1, 6, 0, Nobody, <<Log(1, 2, 2), Log(1, 5, 2)>>),
                 Tx("t9", 4, 7, 1, Nobody, <<>>)>>
    @@ "c3" :> <<Tx("t8", 1, 7, 1, Nobody, <<Log(1, 6, 1)>>)>>

MCDeltas == [b \in MCBlock |-> BlockDeltas(Raw[b])]
MCEnabled == {"sweep-seed", "funding", "deployer", "behavioral"}
MCConfidence == "common-input" :> 95 @@ "sweep-seed" :> 90 @@ "change" :> 40 @@
                "funding" :> 60 @@ "deployer" :> 85 @@ "behavioral" :> 30
MCSeeds == [a \in MCAddress |-> IF a = 6 THEN 80 ELSE None]

(* The contract's deployer (DeployerEngine) is linked to it: the indexer   *)
(* marks every deployment, so that the consumer merges on it; unless it    *)
(* is a hub, or the batch was given up.                                    *)
DeploymentsAreLinked ==
    \A b \in ToSet(chain) \ dropped : \A tx \in ToSet(Raw[b]) :
        (tx.status = "ok" /\ tx.contract # Nobody /\ {tx.from, tx.contract} \cap hub = {})
            => \E c \in Active : c.key = "deployer" /\ c.a = tx.from /\ c.b = tx.contract
=============================================================================
