------------------------------ MODULE MCOracle ------------------------------
(***************************************************************************)
(* Two nodes and three validators.  The chains reach epoch 2; a block      *)
(* carries at most one proposal and up to two attestations.                *)
(***************************************************************************)
EXTENDS Oracle

Block(timestamp, op, attestations) ==
    [timestamp |-> timestamp, op |-> op, attestations |-> attestations]

Plain(timestamp) == Block(timestamp, [type |-> "none"], <<>>)

Replace(members, activate) ==
    [type |-> "committee", members |-> members, activate |-> activate]

Reconfigure(duration, activate) ==
    [type |-> "config", duration |-> duration, activate |-> activate]

Cancel == [type |-> "cancel", committee |-> TRUE, config |-> FALSE]

Upgrade(height) == [type |-> "upgrade", height |-> height]

Price(v, e, p, c) == [signer |-> v, epoch |-> e, sov |-> p, cbe |-> c, signed |-> TRUE]

Voted(nd, e) == {v \in Validators : nd.oracle.votes[e].sov[v] # NoPrice}

CbeVotes(nd) == UNION {nd.oracle.votes[e].cbeSigners : e \in Epochs}

VotedEpochs(nd) == {e \in Epochs : Voted(nd, e) # {}}

\* The tasks of a node that are past their look at the protocol.
Open(nd) == (IF nd.consumer THEN 1 ELSE 0) + (IF nd.producer # NoEpoch THEN 1 ELSE 0)

\* Either node m is alone, with attestations of two epochs, CBE prices in one of
\* them, and restarts; or both nodes count SOV prices of one epoch, m ahead of n: they
\* act independently, so that every pair of states is reached this way.  Two tasks of a
\* node are in flight at once only while an upgrade is near, and v1 alone is named
\* by messages it did not sign.
Small ==
    LET m == node["m"]
        n == node["n"]
    IN  /\ attested["v2"] = {10} /\ attested["v3"] # Prices
        /\ claimed["v2"] = attested["v2"] /\ claimed["v3"] = attested["v3"]
        /\ \/ /\ n = FreshNode
              /\ Cardinality(CbeVotes(m)) <= 3
              /\ CbeVotes(m) # {} => m.producer = NoEpoch /\ OneEach /\ claimed = attested
              /\ Cardinality(VotedEpochs(m)) <= IF CbeVotes(m) = {} THEN 2 ELSE 1
              /\ Open(m) <= IF m.oracle.strict \/ m.oracle.activation # NoUpdate THEN 2 ELSE 1
           \/ /\ OneEach /\ m.height >= n.height
              /\ ~ m.restarted /\ CbeVotes(m) = {} /\ m.producer = NoEpoch
              /\ ~ n.restarted /\ CbeVotes(n) = {} /\ n.producer = NoEpoch
              /\ Open(m) + Open(n) <= 1
              /\ Cardinality(VotedEpochs(m)) <= 1 /\ Cardinality(VotedEpochs(n)) <= 1

MCChains == {
    <<Plain(2), Block(3, Replace({"v2", "v3"}, 2), <<>>), Plain(4)>>,
    <<Block(2, Replace({"v1"}, 2), <<>>), Block(3, Cancel, <<>>), Plain(4)>>,
    <<Block(1, Reconfigure(1, 1), <<>>), Plain(2)>>,
    <<Block(1, Reconfigure(4, 1), <<>>), Plain(2)>>,
    <<Block(2, Upgrade(2), <<Price("v1", 1, 10, NoPrice)>>),
      Block(3, [type |-> "none"], <<Price("v2", 1, 10, NoPrice), Price("v3", 1, 20, NoPrice)>>)>>}
=============================================================================
