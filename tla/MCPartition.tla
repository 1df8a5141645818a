--------------------------- MODULE MCPartition ---------------------------
(***************************************************************************)
(* Four engines and one pattern of message loss: validator 3 is cut off in *)
(* round 0, the Commit votes of round 0 reach validator 1 alone, and       *)
(* validator 1 is cut off once it has finalized round 0.                   *)
(***************************************************************************)
EXTENDS MCConsensusNetwork

HasCommitVote(n) == \E v \in node[n].votes : v.type = Commit

\* Until validator 1 finalizes, round 0 runs among 1, 2 and 4.
RoundZero ==
    /\ \A n \in Running : node[n].round = 0
    /\ node[3].step = Propose
    /\ \A n \in {2, 4} : node[n].step = Commit => HasCommitVote(n)

Partition ==
    /\ \A v \in node[3].pool : v.round # 0
    /\ \A p \in Elements(node[3].pending) : p.round # 0
    /\ \A n \in {2, 4} : \A v \in node[n].pool :
          v.round = 0 /\ v.type = Commit => v.voter = n
    /\ \A v \in node[1].pool : v.round = 0
    /\ node[1].round = 0
    /\ IF node[1].chain = <<>> THEN RoundZero ELSE HasCommitVote(2) /\ HasCommitVote(4)
=============================================================================
