---------------------------- MODULE MCLagging ----------------------------
(***************************************************************************)
(* Validator 1 falls behind: the other three commit two heights without    *)
(* it, the second one in round 1, and of their messages it gets only the   *)
(* proposals and Commit votes of height 1, in any order, while its         *)
(* catch-up task copies their blocks.  Nothing of validator 1 reaches      *)
(* them, so its steps commute with theirs and may as well come last.       *)
(***************************************************************************)
EXTENDS MCConsensusNetwork

Lagging ==
    /\ \A v \in node[1].pool : v.voter # 1 => v.height = 1 /\ v.type = Commit
    /\ \A p \in Elements(node[1].pending) : p.height = 1
    /\ node[1].height = 1 /\ node[1].round = 0
    /\ \A n \in 2..4 : \A v \in node[n].pool : v.voter # 1
    /\ \A p \in Proposals : p.round = p.height - 1

LaggardLast == node'[1] # node[1] => \A n \in 2..4 : Len(node[n].chain) = MaxHeight
=============================================================================
