---------------------------- MODULE MCMergeStore -----------------------------
(* Three addresses.  Block 1 links x and y and offers the link twice, as   *)
(* FundingEngine does for two transfers of one transaction, block 2 links  *)
(* them again and y to z, block 2 is rolled back, block 3 makes z a hub    *)
(* and offers a link of z to y and one of x to itself, and block 2 comes   *)
(* back.                                                                   *)
EXTENDS MergeStore, TLC

MCAddress == {"x", "y", "z"}
MCCand == {"c1", "c2", "c3", "c4", "c5"}
MCAddressA == "c1" :> "x" @@ "c2" :> "y" @@ "c3" :> "y" @@ "c4" :> "z" @@ "c5" :> "x"
MCAddressB == "c1" :> "y" @@ "c2" :> "x" @@ "c3" :> "z" @@ "c4" :> "y" @@ "c5" :> "x"
MCBlockOf == "c1" :> "b1" @@ "c2" :> "b2" @@ "c3" :> "b2" @@ "c4" :> "b3" @@ "c5" :> "b3"

Batch(cs, hs) == [kind |-> "run", cands |-> cs, hubs |-> hs]
Notice(bs) == [kind |-> "reorg", hashes |-> bs]

MCOps == <<Batch(<<"c1", "c1">>, {}), Batch(<<"c2", "c3">>, {}), Notice({"b2"}),
           Batch(<<"c4", "c5">>, {"z"}), Batch(<<"c2", "c3">>, {})>>

(* The same, with z becoming a hub after evidence about it was recorded. *)
HubOps == <<Batch(<<"c1">>, {}), Batch(<<"c2", "c3">>, {}), Batch(<<"c4">>, {"z"})>>
=============================================================================
