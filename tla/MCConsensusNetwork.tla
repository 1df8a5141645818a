----------------------- MODULE MCConsensusNetwork -----------------------
(***************************************************************************)
(* ConsensusNetwork for TLC.                                               *)
(***************************************************************************)
EXTENDS ConsensusNetwork

\* One iteration order of the vote pool: a validator's round-0 vote comes first.
RoundZeroFirst == {[n \in Validators |-> 0]}
=============================================================================
