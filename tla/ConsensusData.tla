-------------------------- MODULE ConsensusData --------------------------
(***************************************************************************)
(* What consensus engines exchange and store: proposals, votes and blocks, *)
(* and when votes are enough.                                              *)
(*                                                                         *)
(* Data is abstracted as follows.  A proposal is its own identifier: the   *)
(* identifier is a hash of everything the proposal contains.  A block hash *)
(* commits to all earlier blocks, so the hash of a chain's tip is the      *)
(* chain itself.  Signatures are always valid and the validator set does   *)
(* not change.                                                             *)
(***************************************************************************)
EXTENDS Threshold, Sequences, FiniteSets

CONSTANTS N,     \* number of validators; validator i has the i-th smallest identity
          None   \* no locked or no valid proposal

\* With fewer validators the engine stays in bootstrap mode and only watches.
MIN_BFT_VALIDATORS == 3

ASSUME NAssumption == N \in Nat /\ N >= MIN_BFT_VALIDATORS

Validators == 1..N

\* ConsensusStep, by ordinal; the first three after Propose are also the VoteTypes.
Propose == 0
PreVote == 1
PreCommit == 2
Commit == 3
Steps == Propose..Commit
VoteTypes == {PreVote, PreCommit, Commit}

\* One commit attestation of a quorum proof, and what a block adds to its chain.
Attestation == [validator : Validators, round : Nat]
Block == [round : Nat, nonce : Nat, att : SUBSET Attestation]
Chain == Seq(Block)

\* nonce stands for the block contents, which differ whenever a proposer
\* builds a block again after a restart.
Proposal == [height : Nat, round : Nat, nonce : Nat, prev : Chain]

Vote == [height : Nat, round : Nat, type : VoteTypes, voter : Validators,
         id : Proposal]

VotePoolKey(v) == <<v.height, v.round, v.type, v.voter>>

check_supermajority(count) == has_supermajority(count, N)
=============================================================================
