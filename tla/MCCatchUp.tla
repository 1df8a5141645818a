----------------------------- MODULE MCCatchUp -----------------------------
(***************************************************************************)
(* A node joins a chain of three blocks while consensus may finalize them, *)
(* next to a validator that serves the chain and a peer on a fork.  Block  *)
(* 2 empties the wallet that block 1 funded and updates the identity that  *)
(* block 1 registered; the fork's block 2 spends from a wallet of which    *)
(* only the API of this node has heard.                                    *)
(***************************************************************************)
EXTENDS CatchUp

Block(hash, height, prev, txs) ==
    [hash |-> hash, height |-> height, prev |-> prev, txs |-> txs]

Register(w, n) == [type |-> "WalletRegistration", to |-> w, amount |-> n]

Pay(from, to, n, nonce) ==
    [type |-> "TokenTransfer", from |-> from, to |-> to, amount |-> n, nonce |-> nonce]

Reward(id, recipients) == [type |-> Coinbase, id |-> id, recipients |-> recipients]

Spend(id, inputs, outputs, fee) ==
    [type |-> "Transfer", id |-> id, inputs |-> inputs, outputs |-> outputs, fee |-> fee]

Identity(kind, doc) == [type |-> kind, did |-> "did", doc |-> doc]

Mint(to, n) == [type |-> "TokenMint", to |-> to, amount |-> n]

MCBlocks == {
    Block("g", 0, "none", <<>>),
    Block("b1", 1, "g", <<Reward("c1", <<"w1">>), Register("w1", 2),
                          Identity("IdentityRegistration", 1)>>),
    Block("b2", 2, "b1", <<Reward("c2", <<"w2", "sink">>), Pay("w1", "w2", 2, 0),
                           Spend("t2", {<<"c1", 0>>}, 2, 1), Identity("IdentityUpdate", 2)>>),
    Block("b3", 3, "b2", <<Mint("w2", 1), Pay("sink", "w1", 1, 0), Identity("IdentityRevocation", 2)>>),
    Block("f2", 2, "b1", <<Pay("w2", "w1", 2, 0)>>)}

\* The blocks are of the kind the theorems about the ledger's accounts are about.
ASSUME BlocksAreSound == Sound(MCBlocks) /\ \A b \in MCBlocks : Separate(b.txs)

MCFinalized == {b \in MCBlocks : b.hash \in {"b1", "b2", "b3"}}

MCSubmitted == {Register("w2", 2)}

MCAddresses == {"w1", "w2", "sink"}

MCOutpoints == {<<"c1", 0>>, <<"c2", 0>>, <<"c2", 1>>, <<"t2", 0>>, <<"t2", 1>>}

MCPeerChain == [main |-> <<"g", "b1", "b2", "b3">>, fork |-> <<"g", "b1", "f2">>]

MCPeerProofs == [main |-> {1, 2, 3}, fork |-> {1}]

\* Bounds: one crash, one of these combinations of failing writes, and, since a
\* commit interrupted again and again mints again and again, the balances.
FewFaults ==
    /\ "restart" \in faults => Up
    /\ \E kinds \in {{"commit"}, {"proof", "flush"}, {"metadata", "postprocess"}} :
         faults \subseteq kinds \cup {"restart"}
    /\ SumOver(db.token_balances, Addresses) <= 7

\* Between two writes of a block the task may ask peers, fetch proofs and count
\* rounds; those steps touch its own state alone, so they are taken before or
\* after the block.
TaskStepsBetweenBlocks == job.phase \in {"commit", "metadata"} /\ Up' => UNCHANGED sync
=============================================================================
