------------------------------- MODULE Threshold -------------------------------
(***************************************************************************)
(* The BFT threshold arithmetic of lib-types/src/consensus.rs.  The code   *)
(* multiplies two u64 values as u128, so no product overflows.             *)
(***************************************************************************)
EXTENDS Integers

BFT_SUPERMAJORITY_BPS == 6667

meets_threshold(numerator, denominator, bps) ==
    denominator # 0 /\ numerator * 10000 >= denominator * bps

has_supermajority(votes, total) ==
    meets_threshold(votes, total, BFT_SUPERMAJORITY_BPS)

\* The reference: the formula (n * 2 / 3) + 1 that has_supermajority replaces.
two_thirds_plus_one(total) == (total * 2) \div 3 + 1
=============================================================================
