-------------------------- MODULE MCTreasuryKernel --------------------------
(***************************************************************************)
(* TreasuryKernel for TLC.                                                 *)
(***************************************************************************)
EXTENDS TreasuryKernel

Schedule(start, cliff, end, total) ==
    [start |-> start, cliff |-> cliff, end |-> end, total |-> total]

MCSchedules == {Schedule(0, 1, 2, 2), Schedule(0, 2, 3, 3)}

MCCitizenSince == [c \in {"a", "b"} |-> IF c = "a" THEN 1 ELSE 0]

MCKeys == {<<"a", "full">>, <<"a", "id">>, <<"b", "id">>}

MCInitialKeys == {<<"a", "full">>}

Registered == {kp \in Kinds \X Proposals : auth[kp[1]][kp[2]] # None}

\* Bound: up to two locks and claims together, or a proposal registered both ways.
\* Authorizations meet locks only through balances, as signed mints and burns do.
Few ==
    /\ direct \in -2..2
    /\ Len(locks) + Cardinality(claimed) <= 2
    /\ Registered # {} => locks = <<>> /\ Cardinality(claimed) <= 1
    /\ Len(locks) = 2 => direct = 0
=============================================================================
