-------------------------- MODULE MCValidatorSet --------------------------
(***************************************************************************)
(* ValidatorSet for TLC.                                                   *)
(***************************************************************************)
EXTENDS ValidatorSet

\* The initial validators differ from the others only in being there first.
Symmetric == Permutations(Initial) \cup Permutations(Identities \ Initial)
=============================================================================
