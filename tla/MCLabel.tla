------------------------------- MODULE MCLabel -------------------------------
(* On one chain two labels of a target that contradict each other, on      *)
(* another a label of its own.                                             *)
EXTENDS Label

MCLabels == {"l1", "l2", "l3"}
MCChain == {"eth", "btc"}
MCChainOf == [l \in MCLabels |-> IF l = "l3" THEN "btc" ELSE "eth"]
MCTargetOf == [l \in MCLabels |-> IF l = "l3" THEN "y" ELSE "x"]
MCCategoryOf == [l \in MCLabels |-> IF l = "l2" THEN "mixer" ELSE "exchange"]

(* One label comes with any status; the callers in the repository give     *)
(* none.                                                                   *)
MCGiven == [l \in MCLabels |->
    IF l = "l2" THEN {"", "stale", "conflicted", "retired"} ELSE {""}]
NothingGiven == [l \in MCLabels |-> {""}]

(* Three labels of one target, the third of the first one's category. *)
OneChain == {"eth"}
OneChainOf == [l \in MCLabels |-> "eth"]
OneTargetOf == [l \in MCLabels |-> "x"]
=============================================================================
