----------------------------- MODULE Validators -----------------------------
(***************************************************************************)
(* What the validator set of an engine and the monitor that watches it     *)
(* have in common.                                                         *)
(***************************************************************************)

CONSTANTS Identities,   \* those who are or may become validators
          Initial,      \* the validators the engine starts with
          MaxHeight,    \* bound: consensus works on no height above this one
          None
=============================================================================
