------------------------ MODULE MCLivenessMonitor ------------------------
(***************************************************************************)
(* LivenessMonitor for TLC: the peers of an engine are interchangeable.    *)
(***************************************************************************)
EXTENDS LivenessMonitor, TLC

\* Everyone else who is a validator from the start.
Peers == Permutations(Initial \ {Me})
=============================================================================
