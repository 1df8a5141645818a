------------------------ MODULE ConsensusNetwork ------------------------
(***************************************************************************)
(* Engines that exchange proposals and votes over an unreliable network,   *)
(* each with its own chain, and the catch-up task that copies committed    *)
(* blocks between chains.                                                  *)
(*                                                                         *)
(* Every proposal and vote an engine broadcast stays available to every    *)
(* engine: a message may be delivered at any time, more than once (engines *)
(* relay what they accept), in any order, or never.  A handler runs to its *)
(* end before the engine's loop takes the next event.                      *)
(***************************************************************************)
EXTENDS ConsensusEngine

CONSTANTS Running,    \* validators whose engine runs; the others are down
          MaxHeight,  \* bound: no engine starts a height above this one
          MaxRound,   \* bound: no engine starts a round above this one
          MaxStarts,  \* bound: how often an engine may start
          Restarting, \* validators whose process may restart
          Orders,     \* the HashMap iteration orders considered, see attestations
          Builds,     \* whether building a block may fail: {TRUE} or BOOLEAN
          Hasty,      \* engines whose timers may fire while messages are on their way
          Slow,       \* engines whose messages the other engines' timers do not wait for
          Syncing     \* validators whose catch-up task is triggered at some time

ASSUME RunningAssumption == 
    /\ Running \subseteq Validators
    /\ Restarting \subseteq Running /\ Hasty \subseteq Running
    /\ Slow \subseteq Running /\ Syncing \subseteq Running
ASSUME OrdersAssumption == Orders \subseteq [Validators -> Nat]

VARIABLE node

Votes == UNION {node[n].votes : n \in Running}
Proposals == UNION {node[n].proposed : n \in Running}

Init == node = [n \in Running |-> start_engine(n, blank, TRUE)]

---------------------------------------------------------------------------
(* The engine's event loop *)

InBounds(s) == s.height <= MaxHeight /\ s.round <= MaxRound

\* A handler's outcome becomes the engine's state.
Step(n, s) == InBounds(s) /\ node' = [node EXCEPT ![n] = s]

ReceiveProposal(n) ==
    /\ node[n].up
    /\ \E p \in Proposals : Step(n, on_proposal(n, node[n], p))

ReceiveVote(n) ==
    /\ node[n].up
    /\ \E v \in Votes, order \in Orders :
          Step(n, on_message_vote(n, node[n], v, order))

Prompt == {n \in Running \ Slow : node[n].up}

\* No message on its way would change a prompt engine.
Quiet ==
    \A n \in Prompt :
        /\ \A p \in Proposals : on_proposal(n, node[n], p) = node[n]
        /\ \A v \in Votes, order \in Orders :
              on_message_vote(n, node[n], v, order) = node[n]

\* The round timer fires.  Engines that are not Hasty run in step: their
\* timers are longer than a message to a prompt engine takes, and the furthest
\* behind fires first.
RoundTimeout(n) ==
    /\ node[n].up
    /\ \/ n \in Hasty
       \/ Quiet /\ \A m \in Prompt : NotAhead(node[n], node[m])
    /\ \E made \in Builds, order \in Orders :
          Step(n, on_round_timeout(n, node[n], made, order))

\* The process stops, or has stopped, and starts again with its stored chain.
Restart(n) ==
    /\ node[n].starts < MaxStarts
    /\ \E made \in Builds : Step(n, start_engine(n, node[n], made))

---------------------------------------------------------------------------
(* Catch-up sync *)

\* verify_quorum_proof and verify_quorum_root_binding of a stored block.
QuorumProofVerifies(b) == check_supermajority(Cardinality(b.att))

\* Fault: n applies m's newest block, whatever lies between.
CatchUpToTip(n, m) ==
    /\ Len(node[m].chain) > Len(node[n].chain)
    /\ node' = [node EXCEPT ![n].chain = Append(@, node[m].chain[Len(node[m].chain)])]

\* One block: n applies m's block on top of its own tip.  At or above the
\* height n's engine works on, the block must come with a valid quorum proof.
CatchUp(n, m) ==
    LET k == Len(node[n].chain)
    IN  /\ Len(node[m].chain) > k
        /\ k + 1 >= node[n].height => QuorumProofVerifies(node[m].chain[k + 1])
        /\ SubSeq(node[m].chain, 1, k) = node[n].chain
        /\ node' = [node EXCEPT ![n].chain = Append(@, node[m].chain[k + 1])]

---------------------------------------------------------------------------
EngineStep == \E n \in Running :
                 ReceiveProposal(n) \/ ReceiveVote(n) \/ RoundTimeout(n)

Next == \/ EngineStep
        \/ \E n \in Syncing, m \in Running : CatchUp(n, m)

Spec == Init /\ [][Next]_node

NextWithRestart == Next \/ \E n \in Restarting : Restart(n)

SpecWithRestart == Init /\ [][NextWithRestart]_node

---------------------------------------------------------------------------
\* Type correctness of every engine's round state, vote pool, pending proposals and chain.
TypeOK == node \in [Running -> Engine]

\* Engine state s of validator n remembers how n has voted: all its votes are in
\* its own pool, none is of a later round than the current one, and in the
\* Propose step n has not prevoted in the current round.
RemembersVotes(n, s) ==
    /\ s.votes \subseteq s.pool
    /\ \A v \in s.votes :
          /\ v.voter = n
          /\ v.height < s.height \/ (v.height = s.height /\ v.round <= s.round)
          /\ s.step = Propose =>
               ~(v.type = PreVote /\ v.height = s.height /\ v.round = s.round)
    /\ s.height <= Len(s.chain) + 1

\* No engine loses track of a vote cast_vote made: the checks that keep it from
\* voting twice read its own pool.
VotesRemembered == \A n \in Running : RemembersVotes(n, node[n])

\* A validator's votes for one (height, round, type), the key of the vote pool,
\* all name one proposal, whatever order proposals, votes and timeouts come in.
NoEquivocation ==
    \A v, w \in Votes : VotePoolKey(v) = VotePoolKey(w) => v = w

\* Two PreCommits of the same height and round name the same proposal, whoever cast them.
PreCommitAgreement ==
    \A v, w \in Votes :
        /\ v.type = PreCommit /\ w.type = PreCommit
        /\ v.height = w.height /\ v.round = w.round
        => v.id = w.id

\* A valid (locked) proposal has a quorum of prevotes (precommits) of a single
\* round, not older than the engine's, in the engine's own pool.
MarksBacked ==
    \A n \in Running :
        LET s == node[n] IN
        /\ s.valid # None =>
             \E v \in s.pool : /\ v.round >= s.round
                               /\ check_supermajority(count_prevotes_for(s, s.height, v.round, s.valid))
        /\ s.locked # None =>
             \E v \in s.pool : /\ v.round >= s.round
                               /\ check_supermajority(count_precommits_for(s, s.height, v.round, s.locked))

CommittedProposal(c, h) == [height |-> h, round |-> c[h].round, nonce |-> c[h].nonce,
                            prev |-> SubSeq(c, 1, h - 1)]

\* Every block process_committed_block put on a chain, or catch-up copied there,
\* has a supermajority of commit votes that were really cast for that block.
FinalizedByCommitVotes ==
    \A n \in Running : \A h \in DOMAIN node[n].chain :
        check_supermajority(Cardinality(
            {v \in Votes : v.type = Commit /\ v.height = h
                           /\ v.id = CommittedProposal(node[n].chain, h)}))

\* No two engines commit different proposals at the same height.
Agreement ==
    \A n, m \in Running : \A h \in DOMAIN node[n].chain \cap DOMAIN node[m].chain :
        CommittedProposal(node[n].chain, h) = CommittedProposal(node[m].chain, h)

\* All PreCommits for height h were cast in the same round: no engine gave up on
\* a round of h in which another one had already precommitted.
OneRound(h) ==
    \A v, w \in Votes : v.type = PreCommit /\ w.type = PreCommit /\ v.height = h /\ w.height = h
                       => v.round = w.round

\* Engines commit the same proposal at every height that took a single round.
AgreementInOneRound ==
    \A n, m \in Running : \A h \in DOMAIN node[n].chain \cap DOMAIN node[m].chain :
        OneRound(h) => CommittedProposal(node[n].chain, h) = CommittedProposal(node[m].chain, h)

\* No handler moves the engine's (height, round, step) back, in particular no late
\* proposal or vote and no timeout.
ViewsAdvance == [][\A n \in Running : NotAhead(node[n], node'[n])]_node

\* A chain only grows: neither the commit callback nor catch-up replaces or drops
\* a block, whichever of them comes first.
ChainsGrow ==
    [][\A n \in Running :
          /\ Len(node[n].chain) <= Len(node'[n].chain)
          /\ node[n].chain = SubSeq(node'[n].chain, 1, Len(node[n].chain))]_node

Rules == INSTANCE VotingRules WITH votes <- Votes

\* The engines implement VotingRules: every handler casts no vote, one vote or two
\* votes, and each of them only as the abstract rules allow.
VotingRulesImplemented == Rules!Spec

\* The event loops keep running: while a message is undelivered or a timer pending,
\* some loop handles one.
FairSpec == Spec /\ WF_node(Next)

\* Every engine's chain eventually reaches MaxHeight.
EventuallyCommitted == <>(\A n \in Running : Len(node[n].chain) >= MaxHeight)
=============================================================================
