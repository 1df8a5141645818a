---------------------------- MODULE MCSameBlock ----------------------------
(***************************************************************************)
(* Two wallets, funded by blocks of their own, each pay the same shop in   *)
(* block 3.                                                                *)
(***************************************************************************)
EXTENDS MCCatchUp

PayBlocks == {
    Block("g", 0, "none", <<>>),
    Block("p1", 1, "g", <<Register("w1", 1)>>),
    Block("p2", 2, "p1", <<Register("w2", 1)>>),
    Block("p3", 3, "p2", <<Pay("w1", "shop", 1, 0), Pay("w2", "shop", 1, 0)>>)}

PayFinalized == {b \in PayBlocks : b.height > 0}

PayAddresses == {"w1", "w2", "shop", "sink"}

PayPeerChain == [main |-> <<"g", "p1", "p2", "p3">>]

PayPeerProofs == [main |-> {1, 2, 3}]
=============================================================================
