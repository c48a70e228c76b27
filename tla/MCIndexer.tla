------------------------------ MODULE MCIndexer ------------------------------
(* A tree that forks above its second block, the first one indexed, into a *)
(* branch of two and one of three: reorganisations one and two blocks      *)
(* deep, branches of equal and of different length, an empty block and one *)
(* of two transactions.                                                    *)
EXTENDS Indexer

MCBlock == {"g", "r", "a2", "a3", "b2", "b3", "b4"}
MCHeight == [b \in MCBlock |->
    CASE b = "g" -> 0 [] b = "r" -> 1 [] b \in {"a2", "b2"} -> 2
      [] b \in {"a3", "b3"} -> 3 [] OTHER -> 4]
MCParent == [b \in MCBlock |->
    CASE b \in {"g", "r"} -> "g" [] b \in {"a2", "b2"} -> "r" [] b = "a3" -> "a2"
      [] b = "b3" -> "b2" [] OTHER -> "b3"]
MCNTx == [b \in MCBlock |-> CASE b = "a2" -> 0 [] b = "b2" -> 2 [] OTHER -> 1]
=============================================================================
