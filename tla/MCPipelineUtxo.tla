---------------------------- MODULE MCPipelineUtxo ----------------------------
(* A UTXO chain.  u1: 1, 2 and 3 are paid.  u2: 1 and 2 spend together and *)
(* leave 4 an uneven rest; 3 pays the sweep target 7 a little and 6 the    *)
(* rest.  u3: 4 and 5 in a collaborative transaction.  v2, instead of u2:  *)
(* dust for 1 and 2 ahead of the transaction in which they spend together. *)
(* v3: 3, 2 and 1 send to the target, 3 nine tenths of what it received,   *)
(* and then 1 pays everybody a little.                                     *)
EXTENDS Pipeline, TLC

MCAddress == 1..7
MCBlock == {"u1", "u2", "u3", "v2", "v3"}
MCParent == "u1" :> None @@ "u2" :> "u1" @@ "v2" :> "u1" @@ "u3" :> "u2" @@ "v3" :> "v2"
MCHeight == "u1" :> 1 @@ "u2" :> 2 @@ "v2" :> 2 @@ "u3" :> 3 @@ "v3" :> 3

(* The periodic flush cuts u2, v2 and v3 between transactions and u3 and v3 within one. *)
MCCutAt == [b \in MCBlock |-> CASE b \in {"u2", "u3"} -> {3} [] b = "v2" -> {2} [] b = "v3" -> {2, 4}
                               [] OTHER -> {}]

D(t, i, a, v) == [tx |-> t, idx |-> i, addr |-> a, amt |-> v, asset |-> "native", create |-> FALSE]

MCDeltas ==
    "u1" :> <<D("t0", 0, 1, 3000), D("t0", 1, 2, 3000), D("t0", 2, 3, 3000)>> @@
    "u2" :> <<D("t1", 0, 1, -3000), D("t1", 1, 2, -3000), D("t1", 2, 4, 5900),
              D("t2", 0, 3, -3000), D("t2", 1, 7, 1000), D("t2", 2, 6, 2000)>> @@
    "u3" :> <<D("t3", 0, 4, -1000), D("t3", 1, 5, -1000), D("t3", 2, 6, 900), D("t3", 3, 1, 900)>> @@
    "v2" :> <<D("t4", 0, 1, 500), D("t4", 1, 2, 500),
              D("t1", 0, 1, -3000), D("t1", 1, 2, -3000), D("t1", 2, 4, 5900)>> @@
    "v3" :> <<D("t5", 0, 3, -2700), D("t5", 1, 2, -3500), D("t5", 2, 1, -100), D("t5", 3, 7, 6100),
              D("t6", 0, 1, -200), D("t6", 1, 5, 40), D("t6", 2, 6, 60),
              D("t6", 3, 3, 40), D("t6", 4, 2, 40)>>

MCEnabled == {"common-input", "sweep-seed", "change"}
MCConfidence == "common-input" :> 95 @@ "sweep-seed" :> 90 @@ "change" :> 40 @@
                "funding" :> 60 @@ "deployer" :> 85 @@ "behavioral" :> 30
MCSeeds == [a \in MCAddress |-> IF a = 7 THEN 80 ELSE None]
=============================================================================
