--------------------------- MODULE MCClusterQuery ----------------------------
(* Four addresses.  Block 1 links y and z, and w and x, block 2 joins the  *)
(* two clusters and is rolled back.  The link of y and z is weak.          *)
EXTENDS ClusterQuery, TLC

MCAddress == {"w", "x", "y", "z"}
MCRank == "w" :> 1 @@ "x" :> 2 @@ "y" :> 3 @@ "z" :> 4
MCCand == {"c1", "c2", "c3"}
MCAddressA == "c1" :> "y" @@ "c2" :> "w" @@ "c3" :> "x"
MCAddressB == "c1" :> "z" @@ "c2" :> "x" @@ "c3" :> "z"
MCBlockOf == "c1" :> "b1" @@ "c2" :> "b1" @@ "c3" :> "b2"
MCStrong == {"c2", "c3"}

MCOps == <<[kind |-> "run", cands |-> <<"c1", "c2">>, hubs |-> {}],
           [kind |-> "run", cands |-> <<"c3">>, hubs |-> {}],
           [kind |-> "reorg", hashes |-> {"b2"}]>>
=============================================================================
