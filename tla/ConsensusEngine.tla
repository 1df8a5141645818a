------------------------- MODULE ConsensusEngine -------------------------
(***************************************************************************)
(* The BFT engine of one validator: its round state, vote pool and pending *)
(* proposals, and the handlers that change them, each as an operator from  *)
(* the state before the handler to the state after it.  The chain the      *)
(* handlers read and append to (through the blockchain provider and the    *)
(* commit callback) and the messages the engine has broadcast are fields   *)
(* of the same state.  ConsensusNetwork runs several engines together.     *)
(***************************************************************************)
EXTENDS ConsensusData

Engine == [height : Nat, round : Nat, step : Steps,
           proposals : Seq(Proposal),
           locked : Proposal \cup {None}, valid : Proposal \cup {None},
           pool : SUBSET Vote, pending : Seq(Proposal),
           chain : Chain, up : BOOLEAN, starts : Nat,
           votes : SUBSET Vote, proposed : SUBSET Proposal]

---------------------------------------------------------------------------
compute_proposer_for_round(height, round) == ((height + round) % N) + 1

count_prevotes_for(s, height, round, id) ==
    Cardinality({v \in s.pool : /\ v.height = height /\ v.round = round
                                /\ v.type = PreVote /\ v.id = id})

count_precommits_for(s, height, round, id) ==
    Cardinality({v \in s.pool : /\ v.height = height /\ v.round = round
                                /\ v.type = PreCommit /\ v.id = id})

\* The count inside enter_commit_step: every round of the height.
count_precommits_any_round(s, id) ==
    Cardinality({v \in s.pool : /\ v.height = s.height
                                /\ v.type = PreCommit /\ v.id = id})

count_commits_for(s, height, id) ==
    Cardinality({v \in s.pool : /\ v.height = height
                                /\ v.type = Commit /\ v.id = id})

\* Whether the pool already holds this engine's vote for its current round.
already_voted(me, s, type) ==
    \E v \in s.pool : VotePoolKey(v) = <<s.height, s.round, type, me>>

\* HashMap insertion: the new entry replaces one with the same key.
insert_vote(pool, v) == {w \in pool : VotePoolKey(w) # VotePoolKey(v)} \cup {v}

\* Fault: the vote does not carry the round it was cast in.
cast_vote_without_round(me, s, id, type) ==
    LET v == [height |-> s.height, round |-> 0, type |-> type, voter |-> me, id |-> id]
    IN  [s EXCEPT !.pool = insert_vote(@, v), !.votes = @ \cup {v}]

\* Sign, store and broadcast a vote stamped with the current height and round.
cast_vote(me, s, id, type) ==
    LET v == [height |-> s.height, round |-> s.round, type |-> type,
              voter |-> me, id |-> id]
    IN  [s EXCEPT !.pool = insert_vote(@, v), !.votes = @ \cup {v}]

first(q) == IF q = <<>> THEN None ELSE Head(q)

---------------------------------------------------------------------------
(* Finalization *)

\* One attestation per validator with a commit vote for id.  The pool is a
\* HashMap: order[n] is the round of n's vote that its iteration meets first,
\* if n voted in that round, and any of n's rounds otherwise.
attestations(s, id, order) ==
    LET commits == {v \in s.pool : /\ v.height = s.height
                                   /\ v.type = Commit /\ v.id = id}
        rounds(n) == {v.round : v \in {w \in commits : w.voter = n}}
        kept(n) == IF order[n] \in rounds(n) THEN order[n]
                   ELSE CHOOSE r \in rounds(n) : TRUE
    IN  {[validator |-> n, round |-> kept(n)] : n \in {v.voter : v \in commits}}

\* Fault: the block replaces whatever the chain holds from its height on.
commit_over_existing(s, p, att) ==
    [s EXCEPT !.chain = Append(p.prev, [round |-> p.round, nonce |-> p.nonce, att |-> att])]

\* ConsensusBlockCommitter: a block of a height the chain has passed is
\* skipped if it is the stored one; otherwise add_block accepts exactly the
\* successor of the tip.  Any error stops the consensus loop.
commit_finalized_block_with_proof(s, p, att) ==
    LET block == [round |-> p.round, nonce |-> p.nonce, att |-> att]
    IN  IF Len(s.chain) > p.height
           /\ SubSeq(s.chain, 1, p.height) = Append(p.prev, block)
        THEN s
        ELSE IF p.prev = s.chain
             THEN [s EXCEPT !.chain = Append(@, block)]
             ELSE [s EXCEPT !.up = FALSE]

remove_first(q, p) ==
    LET i == CHOOSE j \in DOMAIN q : q[j] = p /\ \A k \in 1..(j-1) : q[k] # p
    IN  SubSeq(q, 1, i - 1) \o SubSeq(q, i + 1, Len(q))

Elements(q) == {q[i] : i \in DOMAIN q}

process_committed_block(s, id, order) ==
    IF id \in Elements(s.pending)
    THEN commit_finalized_block_with_proof(
             [s EXCEPT !.pending = remove_first(@, id)],
             id, attestations(s, id, order))
    ELSE IF id \in Elements(s.proposals)
         THEN s
         ELSE [s EXCEPT !.up = FALSE]

\* Fault: one commit vote is enough.
finalize_on_first_vote(s, height, id, order) ==
    IF s.up /\ count_commits_for(s, height, id) > 0 /\ s.height = height
    THEN process_committed_block([s EXCEPT !.step = Commit], id, order)
    ELSE s

maybe_finalize(s, height, id, order) ==
    IF /\ s.up
       /\ check_supermajority(count_commits_for(s, height, id))
       /\ s.height = height
    THEN process_committed_block([s EXCEPT !.step = Commit], id, order)
    ELSE s

---------------------------------------------------------------------------
(* Entering the steps of a round *)

enter_prevote_step(me, s) ==
    LET t == [s EXCEPT !.step = PreVote]
    IN  IF s.step >= PreVote THEN s
        ELSE IF s.proposals = <<>> THEN t
        ELSE cast_vote(me, t, Head(s.proposals), PreVote)

\* Fault: precommits the oldest pending proposal, whatever its prevotes.
precommit_unprepared(me, s) ==
    LET t == [s EXCEPT !.step = PreCommit]
    IN  IF s.step > PreCommit THEN s
        ELSE IF s.pending = <<>> \/ already_voted(me, s, PreCommit) THEN t
        ELSE cast_vote(me, t, Head(s.pending), PreCommit)

enter_precommit_step(me, s) ==
    LET t == [s EXCEPT !.step = PreCommit]
        id == IF s.valid # None THEN s.valid ELSE first(s.proposals)
    IN  IF s.step > PreCommit THEN s
        ELSE IF /\ id # None
                /\ ~already_voted(me, s, PreCommit)
                /\ check_supermajority(count_prevotes_for(s, s.height, s.round, id))
             THEN [cast_vote(me, t, id, PreCommit) EXCEPT !.valid = id]
             ELSE t

\* Fault: the supermajority of PreCommits is not checked.
commit_unprepared(me, s, order) ==
    LET t == [s EXCEPT !.step = Commit]
        id == IF s.valid # None THEN s.valid ELSE s.locked
    IN  IF id # None /\ ~already_voted(me, s, Commit)
        THEN maybe_finalize(cast_vote(me, t, id, Commit), s.height, id, order)
        ELSE t

enter_commit_step(me, s, order) ==
    LET t == [s EXCEPT !.step = Commit]
        id == IF s.valid # None THEN s.valid ELSE s.locked
    IN  IF /\ id # None
           /\ ~already_voted(me, s, Commit)
           /\ check_supermajority(count_precommits_any_round(s, id))
        THEN maybe_finalize(cast_vote(me, t, id, Commit), s.height, id, order)
        ELSE t

create_proposal(s) ==
    [height |-> s.height, round |-> s.round, nonce |-> s.starts, prev |-> s.chain]

\* made: whether building and signing the block succeeds; a failure is only logged.
enter_propose_step(me, s, made) ==
    LET p == create_proposal(s)
    IN  IF compute_proposer_for_round(s.height, s.round) = me /\ made
        THEN enter_prevote_step(me, [s EXCEPT !.proposals = Append(@, p),
                                              !.pending = Append(@, p),
                                              !.proposed = @ \cup {p}])
        ELSE s

\* Fault: the vote pool is cleared with the round.
start_round_without_pool(s, height, round) ==
    [s EXCEPT !.height = height, !.round = round, !.step = Propose, !.pool = {},
              !.proposals = <<>>, !.locked = None, !.valid = None]

\* Fault: the locked and valid proposals of the last round are kept.
start_round_keeping_marks(s, height, round) ==
    [s EXCEPT !.height = height, !.round = round, !.step = Propose, !.proposals = <<>>]

\* The reset every change of round performs.
start_round(s, height, round) ==
    [s EXCEPT !.height = height, !.round = round, !.step = Propose,
              !.proposals = <<>>, !.locked = None, !.valid = None]

---------------------------------------------------------------------------
(* Messages *)

validate_no_fork_proposal(s, p) ==
    /\ p.height >= s.height
    /\ (p.height = s.height /\ p.round = s.round /\ s.valid # None) => s.valid = p

is_proposal_relevant(s, p) == p.height = s.height /\ s.step < Commit

\* Signature, proposer and payload are right for every proposal an engine
\* made; what is left of the admission gate is the previous hash, compared
\* only while the chain ends right below the proposal.
validate_incoming_proposal(s, p) == Len(s.chain) = p.height - 1 => p.prev = s.chain

admit_proposal(me, s, p) ==
    LET t == [s EXCEPT !.proposals = Append(@, p), !.pending = Append(@, p)]
        u == cast_vote(me, t, p, PreVote)
    IN  IF t.step = Propose THEN enter_prevote_step(me, t)
        ELSE IF t.step # PreVote \/ already_voted(me, t, PreVote) THEN t
        ELSE IF check_supermajority(count_prevotes_for(u, u.height, u.round, p))
             THEN enter_precommit_step(me, [u EXCEPT !.valid = p])
             ELSE u

\* Fault: a proposal of an earlier round takes the engine back to that round.
follow_any_round(me, s, p) ==
    LET t == IF p.round # s.round THEN start_round(s, s.height, p.round) ELSE s
    IN  IF ~validate_no_fork_proposal(s, p) \/ ~is_proposal_relevant(s, p)
        THEN s
        ELSE IF t.proposals # <<>> \/ ~validate_incoming_proposal(t, p)
             THEN t
             ELSE admit_proposal(me, t, p)

on_proposal(me, s, p) ==
    LET t == IF p.round > s.round THEN start_round(s, s.height, p.round) ELSE s
    IN  IF ~validate_no_fork_proposal(s, p) \/ ~is_proposal_relevant(s, p)
        THEN s
        ELSE IF t.proposals # <<>> \/ ~validate_incoming_proposal(t, p)
             THEN t
             ELSE admit_proposal(me, t, p)

\* Height, membership and round gate of PreVotes and PreCommits.
validate_remote_vote(s, v) == v.height = s.height /\ v.round >= s.round

\* The duplicate and equivocation checks, which drop the vote.
known_vote(s, v) == \E w \in s.pool : VotePoolKey(w) = VotePoolKey(v)

add_vote(s, v) == [s EXCEPT !.pool = insert_vote(@, v)]

on_prevote(me, s, v, order) ==
    LET t == add_vote(s, v)
        quorum == /\ check_supermajority(count_prevotes_for(t, v.height, v.round, v.id))
                  /\ t.step <= PreCommit
        u == enter_precommit_step(me, [t EXCEPT !.valid = v.id])
    IN  IF ~validate_remote_vote(s, v) \/ known_vote(s, v) THEN s
        ELSE IF ~quorum THEN maybe_finalize(t, v.height, v.id, order)
        ELSE IF t.valid \notin {None, v.id} THEN t
        ELSE maybe_finalize(u, v.height, v.id, order)

on_precommit(me, s, v, order) ==
    LET t == add_vote(s, v)
        quorum == /\ check_supermajority(count_precommits_for(t, v.height, v.round, v.id))
                  /\ t.step <= Commit
        u == enter_commit_step(me, [t EXCEPT !.locked = v.id], order)
    IN  IF ~validate_remote_vote(s, v) \/ known_vote(s, v) THEN s
        ELSE IF ~quorum THEN maybe_finalize(t, v.height, v.id, order)
        ELSE IF t.locked \notin {None, v.id} THEN t
        ELSE maybe_finalize(u, v.height, v.id, order)

on_commit_vote(me, s, v, order) ==
    IF v.height # s.height \/ known_vote(s, v) THEN s
    ELSE maybe_finalize(add_vote(s, v), v.height, v.id, order)

on_message_vote(me, s, v, order) ==
    IF v.type = PreVote THEN on_prevote(me, s, v, order)
    ELSE IF v.type = PreCommit THEN on_precommit(me, s, v, order)
    ELSE on_commit_vote(me, s, v, order)

---------------------------------------------------------------------------
(* Timers and start-up *)

\* current_round.height follows the chain.
sync_height_with_blockchain(s) == Len(s.chain) + 1

\* Fault: the round is not advanced.
same_round_again(s) ==
    LET h == sync_height_with_blockchain(s)
    IN  start_round(s, h, IF h = s.height THEN s.round ELSE 0)

\* What follows a Commit timeout: the next height if the chain has moved on,
\* otherwise another round of the same height.
next_round(s) ==
    LET h == sync_height_with_blockchain(s)
    IN  start_round(s, h, IF h = s.height THEN s.round + 1 ELSE 0)

on_round_timeout(me, s, made, order) ==
    IF s.step = Propose THEN enter_prevote_step(me, s)
    ELSE IF s.step = PreVote THEN enter_precommit_step(me, s)
    ELSE IF s.step = PreCommit THEN enter_commit_step(me, s, order)
    ELSE enter_propose_step(me, next_round(s), made)

\* Construction of the engine and the part of run_consensus_loop before the
\* loop.  Only the chain survives a restart; votes and proposed stay in the
\* network, and starts makes the blocks built from now on new ones.
start_engine(me, s, made) ==
    LET t == [start_round(s, sync_height_with_blockchain(s), 0) EXCEPT
                !.pool = {}, !.pending = <<>>, !.up = TRUE, !.starts = @ + 1]
    IN  enter_propose_step(me, t, made)

blank == [height |-> 0, round |-> 0, step |-> Propose, proposals |-> <<>>,
          locked |-> None, valid |-> None, pool |-> {}, pending |-> <<>>,
          chain |-> <<>>, up |-> FALSE, starts |-> 0, votes |-> {}, proposed |-> {}]

\* Engine state s is not further into the protocol than t.
NotAhead(s, t) ==
    \/ s.height < t.height
    \/ s.height = t.height /\ s.round < t.round
    \/ s.height = t.height /\ s.round = t.round /\ s.step <= t.step

=============================================================================
