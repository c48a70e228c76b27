--------------------------------- MODULE Feed --------------------------------
(***************************************************************************)
(* What the topic promises to whoever reads it, without saying how the     *)
(* indexer keeps the promise.  Of each block the topic has said nothing,   *)
(* that it stands, or that it is revoked, whichever it said last; the      *)
(* indexer holds a set of blocks it will be able to revoke.  Held blocks   *)
(* are a path of the tree, are not announced again, and are let go only    *)
(* after they were revoked, as long as no message has been lost.           *)
(***************************************************************************)
EXTENDS Integers

CONSTANTS Block, Height, Parent

VARIABLES
    said,   \* [Block -> {"nothing", "stands", "revoked"}]
    held,   \* the blocks held
    sound   \* no message has been lost

feedVars == <<said, held, sound>>

Init ==
    /\ said = [b \in Block |-> "nothing"]
    /\ held = {}
    /\ sound = TRUE

(* b continues what is held. *)
Fits(b) ==
    \A r \in held :
        /\ Height[r] < Height[b]
        /\ Height[r] = Height[b] - 1 => Parent[b] = r

Announce(b) ==
    /\ Fits(b)
    /\ UNCHANGED <<held, sound>>
    /\ said' = [said EXCEPT ![b] = "stands"]

Hold(b) ==
    /\ Fits(b)
    /\ held' = held \cup {b}
    /\ UNCHANGED <<said, sound>>

Revoke(bs) ==
    /\ UNCHANGED <<held, sound>>
    /\ said' = [b \in Block |-> IF b \in bs THEN "revoked" ELSE said[b]]

LetGo(bs) ==
    /\ held' = held \ bs
    /\ sound => \A b \in bs : said[b] = "revoked"
    /\ UNCHANGED <<said, sound>>

Lose ==
    /\ sound' = FALSE
    /\ UNCHANGED <<said, held>>

Next ==
    \/ \E b \in Block : Announce(b) \/ Hold(b)
    \/ \E bs \in SUBSET held : Revoke(bs) \/ LetGo(bs)
    \/ Lose

Spec == Init /\ [][Next]_feedVars
=============================================================================
