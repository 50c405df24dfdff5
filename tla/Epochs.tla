------------------------------- MODULE Epochs -------------------------------
(***************************************************************************)
(* What every CP activation of a Hosted group promises of its epochs: an   *)
(* epoch is awarded at most once, to one node, and only the node it was    *)
(* awarded to ever serves it (S1-strict, docs/consistency-modes.md).  How  *)
(* an award is made is left to the activation: a conditional write under   *)
(* External, a majority of grants under Quorum.                            *)
(***************************************************************************)
CONSTANTS Node, Epoch

VARIABLES
    awarded,  \* every (epoch, node) pair awarded so far
    served    \* every (epoch, node) pair a node has served as host

Init == awarded = {} /\ served = {}

\* An epoch is awarded once.
Award(e, n) ==
    /\ \A a \in awarded : a[1] # e
    /\ awarded' = awarded \cup {<<e, n>>}

\* A node serves what it was awarded, perhaps in the very step of the award.
Serve == served' = served \/ \E p \in awarded' : served' = served \cup {p}

Next ==
    /\ awarded' = awarded \/ \E e \in Epoch, n \in Node : Award(e, n)
    /\ Serve

Spec == Init /\ [][Next]_<<awarded, served>>
=============================================================================
