--------------------------- MODULE VotingRules ---------------------------
(***************************************************************************)
(* What the engines promise about the votes they cast, with everything     *)
(* else left out: the votes of all validators, and the rules under which   *)
(* one may be added.  ConsensusNetwork implements this specification, and  *)
(* ConsensusNetworkProofs shows what follows from it.                      *)
(***************************************************************************)
EXTENDS ConsensusData

VARIABLE votes

\* The votes a vote rests on: the prevotes of the same round for a PreCommit,
\* the PreCommits of any round of the height for a Commit.
Support(vs, v) ==
    {w \in vs : /\ w.height = v.height /\ w.id = v.id
                /\ \/ v.type = PreCommit /\ w.type = PreVote /\ w.round = v.round
                   \/ v.type = Commit /\ w.type = PreCommit}

\* v may be added to vs: its validator has not used this (height, round, type),
\* and what v rests on has reached a supermajority.
MayCast(vs, v) ==
    /\ v \in Vote
    /\ \A w \in vs : VotePoolKey(w) # VotePoolKey(v)
    /\ v.type # PreVote => check_supermajority(Cardinality(Support(vs, v)))

Init ==
    /\ votes \subseteq Vote /\ IsFiniteSet(votes)
    /\ \A v \in votes : v.type = PreVote
    /\ \A v, w \in votes : VotePoolKey(v) = VotePoolKey(w) => v = w

CastOne == \E v \in votes' \ votes :
              MayCast(votes, v) /\ votes' = votes \cup {v}

\* A late proposal can complete the quorum for the PreCommit that follows its PreVote.
CastTwo == \E v, w \in votes' \ votes :
              /\ MayCast(votes, v) /\ MayCast(votes \cup {v}, w)
              /\ votes' = votes \cup {v, w}

Next == CastOne \/ CastTwo

Spec == Init /\ [][Next]_votes
=============================================================================
