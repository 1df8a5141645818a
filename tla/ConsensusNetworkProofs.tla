---------------------- MODULE ConsensusNetworkProofs ----------------------
(***************************************************************************)
(* First what each handler of one engine preserves, whether engines        *)
(* restart or not: the marks rest on votes in the pool, the view does not  *)
(* move back, and a block is appended only with its commit votes.  Hence,  *)
(* for all engines together and restarts included, marks and finalized     *)
(* blocks rest on votes really cast and chains only grow.                  *)
(*                                                                         *)
(* Then which votes the handlers of an engine cast that does not restart,  *)
(* and the engines together: type correctness; that what they do with      *)
(* votes implements VotingRules; and that for every number of validators   *)
(* the rules alone exclude equivocation and let only one proposal gather   *)
(* PreCommits in one round of one height.                                  *)
(***************************************************************************)
EXTENDS ConsensusNetwork, FiniteSetTheorems, WellFoundedInduction, TLAPS

\* A set of positions that is not empty has a first one.
LEMMA LeastIndex ==
    ASSUME NEW T \in SUBSET Nat, T # {}
    PROVE  \E i \in T : \A j \in T : i <= j
<1> DEFINE R == {xy \in Nat \X Nat : xy[1] < xy[2]}
<1>1. IsWellFoundedOn(R, Nat)
  BY NatLessThanWellFounded DEF OpToRel
<1>2. PICK i \in T : \A j \in T : <<j, i>> \notin R
  BY <1>1, WFMin, Zenon
<1>3. ASSUME NEW j \in T PROVE i <= j
  <2>1. <<j, i>> \in Nat \X Nat /\ <<j, i>>[1] = j /\ <<j, i>>[2] = i
    OBVIOUS
  <2>2. ~(j < i)
    BY <1>2, <2>1
  <2> QED
    BY <2>2
<1> QED
  BY <1>3

\* remove_first drops the first occurrence and keeps the order of the others.
LEMMA RemoveFirst ==
    ASSUME NEW q \in Seq(Proposal), NEW p \in Elements(q)
    PROVE  remove_first(q, p) \in Seq(Proposal)
<1> DEFINE First(j) == q[j] = p /\ \A k \in 1..(j-1) : q[k] # p
           i == CHOOSE j \in DOMAIN q : First(j)
           T == {j \in DOMAIN q : q[j] = p}
<1>1. DOMAIN q = 1..Len(q) /\ Len(q) \in Nat
  OBVIOUS
<1>2. T \in SUBSET Nat /\ T # {}
  BY <1>1 DEF Elements
<1>3. PICK j \in T : \A k \in T : j <= k
  BY <1>2, LeastIndex, Zenon
<1>4. j \in DOMAIN q /\ First(j)
  BY <1>1, <1>3
<1>5. i \in DOMAIN q
  BY <1>4
<1>6. remove_first(q, p) = SubSeq(q, 1, i - 1) \o SubSeq(q, i + 1, Len(q))
  BY DEF remove_first
<1> HIDE DEF i
<1> QED
  BY <1>1, <1>5, <1>6

\* The attestations of a quorum proof are attestations of known validators.
LEMMA AttestationsType ==
    ASSUME NEW s \in Engine, NEW id, NEW order
    PROVE  attestations(s, id, order) \in SUBSET Attestation
<1> DEFINE commits == {v \in s.pool : /\ v.height = s.height
                                     /\ v.type = Commit /\ v.id = id}
           rounds(n) == {v.round : v \in {w \in commits : w.voter = n}}
           kept(n) == IF order[n] \in rounds(n) THEN order[n]
                      ELSE CHOOSE r \in rounds(n) : TRUE
<1>1. ASSUME NEW n \in {v.voter : v \in commits}
      PROVE  n \in Validators /\ kept(n) \in Nat
  <2>1. commits \subseteq Vote
    BY DEF Engine
  <2>2. n \in Validators
    BY <2>1 DEF Vote
  <2>3. rounds(n) # {} /\ rounds(n) \subseteq Nat
    BY <2>1 DEF Vote
  <2> HIDE DEF rounds
  <2>4. kept(n) \in rounds(n)
    BY <2>3
  <2> QED
    BY <2>2, <2>3, <2>4
<1>2. attestations(s, id, order) =
        {[validator |-> n, round |-> kept(n)] : n \in {v.voter : v \in commits}}
  BY DEF attestations
<1> HIDE DEF kept, commits
<1> QED
  BY <1>1, <1>2 DEF Attestation

---------------------------------------------------------------------------
(* The shape of an engine's state *)

\* Proposal p is for the height h and extends a chain that ends right below h.
Fits(p, h) == p.height = h /\ Len(p.prev) + 1 = h

ValidBacked(s) ==
    s.valid # None =>
        \E v \in s.pool : /\ v.round >= s.round
                          /\ check_supermajority(count_prevotes_for(s, s.height, v.round, s.valid))

LockedBacked(s) ==
    s.locked # None =>
        \E v \in s.pool : /\ v.round >= s.round
                          /\ check_supermajority(count_precommits_for(s, s.height, v.round, s.locked))

\* What an engine works on is of its height, and its marks rest on votes it stores.
Shaped(s) ==
    /\ s \in Engine
    /\ IsFiniteSet(s.pool) /\ IsFiniteSet(s.votes)
    /\ s.height <= Len(s.chain) + 1
    /\ \A p \in Elements(s.proposals) : Fits(p, s.height)
    /\ s.valid # None => Fits(s.valid, s.height)
    /\ s.locked # None => Fits(s.locked, s.height)
    /\ \A v \in s.pool \cup s.votes : Fits(v.id, v.height)
    /\ \A p \in s.proposed : Fits(p, p.height)
    /\ ValidBacked(s) /\ LockedBacked(s)

\* Between handlers an engine has a valid proposal from PreCommit on only, and a
\* locked one in Commit only.
Late(s) ==
    /\ s.valid # None => s.step >= PreCommit
    /\ s.locked # None => s.step = Commit

\* From s to t the engine stays at its place in the chain and in the rounds.
Stays(s, t) == t.chain = s.chain /\ t.height = s.height /\ t.round = s.round

\* From s to t the engine forgets no vote, and stores none but old, known and own ones.
Keeps(s, t, vs) == s.votes \subseteq t.votes /\ t.pool \subseteq s.pool \cup vs \cup t.votes

\* The chain is the same, or has one block more, for which the engine stores a
\* supermajority of commit votes.
Finalized(s, t) ==
    \/ t.chain = s.chain
    \/ \E id \in Proposal, att \in SUBSET Attestation :
          /\ Fits(id, s.height) /\ id.prev = s.chain
          /\ t.chain = Append(s.chain, [round |-> id.round, nonce |-> id.nonce, att |-> att])
          /\ check_supermajority(count_commits_for(t, s.height, id))

\* A larger set of votes is a supermajority too.
LEMMA LargerQuorum ==
    ASSUME NEW a, NEW b, a \subseteq b, IsFiniteSet(b), check_supermajority(Cardinality(a))
    PROVE  check_supermajority(Cardinality(b))
<1>1. IsFiniteSet(a) /\ Cardinality(a) <= Cardinality(b)
  BY FS_Subset
<1>2. Cardinality(a) \in Nat /\ Cardinality(b) \in Nat
  BY <1>1, FS_CardinalityType
<1> QED
  BY <1>1, <1>2, NAssumption
     DEF check_supermajority, has_supermajority, meets_threshold, BFT_SUPERMAJORITY_BPS

\* A supermajority is not empty.
LEMMA QuorumNotEmpty ==
    ASSUME NEW a, check_supermajority(Cardinality(a))
    PROVE  a # {}
<1>1. SUFFICES ASSUME a = {} PROVE FALSE
  OBVIOUS
<1>2. Cardinality(a) = 0
  BY <1>1, FS_EmptySet
<1> QED
  BY <1>2, NAssumption
     DEF check_supermajority, has_supermajority, meets_threshold, BFT_SUPERMAJORITY_BPS,
         MIN_BFT_VALIDATORS

\* Storing more votes loses no quorum of prevotes.
LEMMA PrevotesGrow ==
    ASSUME NEW s, NEW t, s.pool \subseteq t.pool, IsFiniteSet(t.pool), NEW h, NEW r, NEW id,
           check_supermajority(count_prevotes_for(s, h, r, id))
    PROVE  check_supermajority(count_prevotes_for(t, h, r, id))
<1> DEFINE a == {v \in s.pool : /\ v.height = h /\ v.round = r
                                /\ v.type = PreVote /\ v.id = id}
           b == {v \in t.pool : /\ v.height = h /\ v.round = r
                                /\ v.type = PreVote /\ v.id = id}
<1>1. a \subseteq b /\ b \subseteq t.pool
  OBVIOUS
<1>2. IsFiniteSet(b)
  BY <1>1, FS_Subset
<1>3. check_supermajority(Cardinality(a))
  BY DEF count_prevotes_for
<1> HIDE DEF a, b
<1>4. check_supermajority(Cardinality(b))
  BY <1>1, <1>2, <1>3, LargerQuorum
<1> QED
  BY <1>4 DEF b, count_prevotes_for

\* Storing more votes loses no quorum of precommits.
LEMMA PrecommitsGrow ==
    ASSUME NEW s, NEW t, s.pool \subseteq t.pool, IsFiniteSet(t.pool), NEW h, NEW r, NEW id,
           check_supermajority(count_precommits_for(s, h, r, id))
    PROVE  check_supermajority(count_precommits_for(t, h, r, id))
<1> DEFINE a == {v \in s.pool : /\ v.height = h /\ v.round = r
                                /\ v.type = PreCommit /\ v.id = id}
           b == {v \in t.pool : /\ v.height = h /\ v.round = r
                                /\ v.type = PreCommit /\ v.id = id}
<1>1. a \subseteq b /\ b \subseteq t.pool
  OBVIOUS
<1>2. IsFiniteSet(b)
  BY <1>1, FS_Subset
<1>3. check_supermajority(Cardinality(a))
  BY DEF count_precommits_for
<1> HIDE DEF a, b
<1>4. check_supermajority(Cardinality(b))
  BY <1>1, <1>2, <1>3, LargerQuorum
<1> QED
  BY <1>4 DEF b, count_precommits_for

\* Storing more votes leaves the marks backed.
LEMMA MarksKept ==
    ASSUME NEW s, NEW t, ValidBacked(s), LockedBacked(s),
           s.pool \subseteq t.pool, IsFiniteSet(t.pool),
           t.height = s.height, t.round = s.round
    PROVE  /\ t.valid = s.valid => ValidBacked(t)
           /\ t.locked = s.locked => LockedBacked(t)
<1>1. ASSUME t.valid = s.valid PROVE ValidBacked(t)
  BY <1>1, PrevotesGrow DEF ValidBacked
<1>2. ASSUME t.locked = s.locked PROVE LockedBacked(t)
  BY <1>2, PrecommitsGrow DEF LockedBacked
<1> QED
  BY <1>1, <1>2

\* An engine stays in shape when it stores more votes, or replaces some while it has
\* no marks, as long as everything it stores fits.
LEMMA Reshape ==
    ASSUME NEW s, Shaped(s), NEW t \in Engine,
           t.height = s.height, t.round = s.round, t.valid = s.valid, t.locked = s.locked,
           s.height <= Len(t.chain) + 1,
           s.pool \subseteq t.pool \/ (s.valid = None /\ s.locked = None),
           IsFiniteSet(t.pool), IsFiniteSet(t.votes),
           \A p \in Elements(t.proposals) : Fits(p, s.height),
           \A v \in t.pool \cup t.votes : Fits(v.id, v.height),
           \A p \in t.proposed : Fits(p, p.height)
    PROVE  Shaped(t)
<1>1. ValidBacked(t) /\ LockedBacked(t)
  <2>1. CASE s.pool \subseteq t.pool
    BY <2>1, MarksKept DEF Shaped
  <2>2. CASE s.valid = None /\ s.locked = None
    BY <2>2 DEF ValidBacked, LockedBacked
  <2> QED
    BY <2>1, <2>2
<1> QED
  BY <1>1 DEF Shaped

\* Moving on to a step that is not Propose.
LEMMA ShapedStep ==
    ASSUME NEW s, Shaped(s), NEW x \in Steps, NEW t, t = [s EXCEPT !.step = x]
    PROVE  /\ t \in Engine /\ Shaped(t) /\ t.step = x /\ Stays(s, t)
           /\ t.votes = s.votes /\ t.pool = s.pool /\ t.proposals = s.proposals
           /\ t.valid = s.valid /\ t.locked = s.locked /\ t.pending = s.pending
<1>1. s \in Engine
  BY DEF Shaped
<1>2. /\ t \in Engine /\ t.step = x /\ t.chain = s.chain
      /\ t.height = s.height /\ t.round = s.round
      /\ t.votes = s.votes /\ t.pool = s.pool /\ t.proposals = s.proposals
      /\ t.valid = s.valid /\ t.locked = s.locked /\ t.pending = s.pending
      /\ t.proposed = s.proposed
  BY <1>1, Zenon DEF Engine
<1>3. Shaped(t)
  BY <1>2, Reshape, Zenon DEF Shaped
<1> QED
  BY <1>2, <1>3 DEF Stays

\* Casting a vote for a proposal of the engine's height.
LEMMA ShapedCast ==
    ASSUME NEW n \in Validators, NEW s, Shaped(s),
           NEW id \in Proposal, Fits(id, s.height), NEW type \in VoteTypes,
           (s.valid = None /\ s.locked = None) \/ ~already_voted(n, s, type),
           NEW t, t = cast_vote(n, s, id, type)
    PROVE  /\ t \in Engine /\ Shaped(t) /\ Stays(s, t) /\ Keeps(s, t, {})
           /\ t.step = s.step /\ t.proposals = s.proposals
           /\ t.valid = s.valid /\ t.locked = s.locked
           /\ \E v \in t.pool : v.round = s.round
           /\ already_voted(n, s, type) \/ s.pool \subseteq t.pool
<1>0. s \in Engine
  BY DEF Shaped
<1>1. PICK v : v = [height |-> s.height, round |-> s.round, type |-> type,
                    voter |-> n, id |-> id]
  BY Zenon
<1>2. /\ v \in Vote /\ v.height = s.height /\ v.round = s.round /\ v.id = id
      /\ VotePoolKey(v) = <<s.height, s.round, type, n>>
  BY <1>0, <1>1 DEF Engine, Vote, VotePoolKey
<1>3. PICK pool, votes : pool = insert_vote(s.pool, v) /\ votes = s.votes \cup {v}
  BY Zenon
<1>4. pool \subseteq s.pool \cup {v} /\ v \in pool
  BY <1>3 DEF insert_vote
<1>5. IsFiniteSet(pool) /\ IsFiniteSet(votes)
  <2>1. IsFiniteSet(s.pool \cup {v}) /\ IsFiniteSet(s.votes \cup {v})
    BY FS_AddElement, Zenon DEF Shaped
  <2> QED
    BY <1>3, <1>4, <2>1, FS_Subset
<1>6. pool \in SUBSET Vote /\ votes \in SUBSET Vote
  BY <1>0, <1>2, <1>3, <1>4 DEF Engine
<1>7. t = [s EXCEPT !.pool = pool, !.votes = votes]
  BY <1>1, <1>3 DEF cast_vote
<1>8. /\ t \in Engine /\ t.pool = pool /\ t.votes = votes /\ t.step = s.step
      /\ t.chain = s.chain /\ t.height = s.height /\ t.round = s.round
      /\ t.proposals = s.proposals /\ t.valid = s.valid /\ t.locked = s.locked
      /\ t.proposed = s.proposed
  BY <1>0, <1>6, <1>7, Zenon DEF Engine
<1>9. already_voted(n, s, type) \/ s.pool \subseteq pool
  BY <1>2, <1>3 DEF insert_vote, already_voted
<1>10. \A w \in pool \cup votes : Fits(w.id, w.height)
  BY <1>2, <1>3, <1>4 DEF Shaped
<1>11. Shaped(t)
  BY <1>5, <1>8, <1>9, <1>10, Reshape DEF Shaped
<1> QED
  BY <1>2, <1>3, <1>4, <1>8, <1>9, <1>11 DEF Stays, Keeps

---------------------------------------------------------------------------
(* Finalization, with or without restarts *)

\* maybe_finalize appends at most one block, and only one whose commit votes the
\* engine stores.
LEMMA ShapedFinalize ==
    ASSUME NEW s, Shaped(s), NEW height,
           NEW id \in Proposal, NEW order,
           NEW t, t = maybe_finalize(s, height, id, order)
    PROVE  /\ t \in Engine /\ Shaped(t) /\ Finalized(s, t)
           /\ t.height = s.height /\ t.round = s.round
           /\ t.votes = s.votes /\ t.pool = s.pool
           /\ t.step = s.step \/ t.step = Commit
           /\ t.valid = s.valid /\ t.locked = s.locked
<1>0. s \in Engine
  BY DEF Shaped
<1>1. CASE t = s
  BY <1>0, <1>1 DEF Finalized
<1>2. CASE /\ check_supermajority(count_commits_for(s, height, id)) /\ s.height = height
           /\ t = process_committed_block([s EXCEPT !.step = Commit], id, order)
  <2>1. PICK u : u = [s EXCEPT !.step = Commit]
    BY Zenon
  <2>2. /\ u \in Engine /\ Shaped(u) /\ u.step = Commit /\ Stays(s, u)
        /\ u.votes = s.votes /\ u.pool = s.pool /\ u.pending = s.pending
        /\ u.valid = s.valid /\ u.locked = s.locked
    <3>1. Commit \in Steps
      BY DEF Steps, Propose, Commit
    <3> QED
      BY <2>1, <3>1, ShapedStep
  <2>3. Fits(id, s.height)
    <3>1. PICK v \in s.pool : v.height = s.height /\ v.id = id
      BY <1>2, QuorumNotEmpty DEF count_commits_for
    <3> QED
      BY <3>1 DEF Shaped
  <2>4. CASE t = u
    BY <2>2, <2>4 DEF Stays, Finalized
  <2>5. ASSUME NEW w, Shaped(w), Stays(s, w), w.step = Commit,
               w.votes = s.votes, w.pool = s.pool, w.valid = s.valid, w.locked = s.locked,
               t = [w EXCEPT !.up = FALSE]
        PROVE  /\ t \in Engine /\ Shaped(t) /\ t.chain = s.chain /\ t.step = Commit
               /\ t.height = s.height /\ t.round = s.round
               /\ t.votes = s.votes /\ t.pool = s.pool
               /\ t.valid = s.valid /\ t.locked = s.locked
    <3>1. w \in Engine
      BY <2>5 DEF Shaped
    <3>2. /\ t \in Engine /\ t.chain = w.chain /\ t.step = w.step
          /\ t.height = w.height /\ t.round = w.round
          /\ t.votes = w.votes /\ t.pool = w.pool /\ t.proposals = w.proposals
          /\ t.valid = w.valid /\ t.locked = w.locked /\ t.proposed = w.proposed
      BY <2>5, <3>1, Zenon DEF Engine
    <3>3. Shaped(t)
      BY <2>5, <3>2, Reshape, Zenon DEF Shaped
    <3> QED
      BY <2>5, <3>2, <3>3 DEF Stays
  <2>6. CASE t = [u EXCEPT !.up = FALSE]
    BY <2>2, <2>5, <2>6, Zenon DEF Finalized
  <2>7. CASE id \in Elements(u.pending)
    <3>1. PICK q : q = remove_first(u.pending, id)
      OBVIOUS
    <3>2. q \in Seq(Proposal)
      BY <2>2, <2>7, <3>1, RemoveFirst DEF Engine
    <3>3. PICK w : w = [u EXCEPT !.pending = q]
      BY Zenon
    <3>4. /\ w \in Engine /\ w.chain = u.chain /\ w.step = u.step
          /\ w.height = u.height /\ w.round = u.round
          /\ w.votes = u.votes /\ w.pool = u.pool /\ w.proposals = u.proposals
          /\ w.valid = u.valid /\ w.locked = u.locked /\ w.proposed = u.proposed
      BY <2>2, <3>2, <3>3, Zenon DEF Engine
    <3>5. Shaped(w)
      BY <2>2, <3>4, Reshape DEF Shaped
    <3>6. PICK att : att = attestations(u, id, order)
      OBVIOUS
    <3>7. att \in SUBSET Attestation
      BY <2>2, <3>6, AttestationsType
    <3>8. PICK block : block = [round |-> id.round, nonce |-> id.nonce, att |-> att]
      BY Zenon
    <3>9. block \in Block
      BY <3>7, <3>8 DEF Block, Proposal
    <3>10. t = commit_finalized_block_with_proof(w, id, att)
      BY <1>2, <2>1, <2>7, <3>1, <3>3, <3>6 DEF process_committed_block
    <3>11. \/ t = w
           \/ id.prev = w.chain /\ t = [w EXCEPT !.chain = Append(w.chain, block)]
           \/ t = [w EXCEPT !.up = FALSE]
      BY <3>8, <3>10, Zenon DEF commit_finalized_block_with_proof
    <3>12. CASE t = w
      BY <2>2, <3>4, <3>5, <3>12 DEF Stays, Finalized
    <3>13. CASE t = [w EXCEPT !.up = FALSE]
      BY <2>2, <2>5, <3>4, <3>5, <3>13, Zenon DEF Stays, Finalized
    <3>14. CASE id.prev = w.chain /\ t = [w EXCEPT !.chain = Append(w.chain, block)]
      <4>1. PICK c : c = Append(w.chain, block)
        BY Zenon
      <4>2. c \in Chain /\ Len(c) = Len(w.chain) + 1 /\ Len(w.chain) \in Nat
        BY <3>4, <3>9, <4>1 DEF Engine, Chain
      <4>3. /\ t \in Engine /\ t.chain = c /\ t.step = w.step
            /\ t.height = w.height /\ t.round = w.round
            /\ t.votes = w.votes /\ t.pool = w.pool /\ t.proposals = w.proposals
            /\ t.valid = w.valid /\ t.locked = w.locked /\ t.proposed = w.proposed
        BY <3>4, <3>14, <4>1, <4>2, Zenon DEF Engine
      <4>4. w.height \in Nat /\ w.height <= Len(c) + 1
        BY <3>4, <3>5, <4>2 DEF Engine, Shaped
      <4>5. Shaped(t)
        BY <3>5, <4>3, <4>4, Reshape DEF Shaped
      <4>6. check_supermajority(count_commits_for(t, s.height, id))
        BY <1>2, <2>2, <3>4, <4>3, Zenon DEF count_commits_for
      <4>7. Finalized(s, t)
        BY <2>2, <2>3, <3>4, <3>7, <3>8, <3>14, <4>1, <4>3, <4>6, Zenon DEF Finalized, Stays
      <4> QED
        BY <2>2, <3>4, <4>3, <4>5, <4>7 DEF Stays
    <3> QED
      BY <3>11, <3>12, <3>13, <3>14
  <2> QED
    BY <1>2, <2>1, <2>4, <2>6, <2>7 DEF process_committed_block
<1> QED
  BY <1>1, <1>2 DEF maybe_finalize

---------------------------------------------------------------------------
(* The steps of a round, with or without restarts *)

\* Marking a proposal as valid that a quorum of prevotes the engine stores backs.
LEMMA MarkValid ==
    ASSUME NEW s, Shaped(s), NEW id \in Proposal, Fits(id, s.height), NEW r,
           \E v \in s.pool : v.round = r /\ v.round >= s.round,
           check_supermajority(count_prevotes_for(s, s.height, r, id)),
           NEW t, t = [s EXCEPT !.valid = id]
    PROVE  /\ t \in Engine /\ Shaped(t) /\ Stays(s, t) /\ t.step = s.step
           /\ t.votes = s.votes /\ t.pool = s.pool /\ t.proposals = s.proposals
           /\ t.valid = id /\ t.locked = s.locked
<1>1. s \in Engine
  BY DEF Shaped
<1>2. /\ t \in Engine /\ t.step = s.step /\ t.chain = s.chain
      /\ t.height = s.height /\ t.round = s.round
      /\ t.votes = s.votes /\ t.pool = s.pool /\ t.proposals = s.proposals
      /\ t.valid = id /\ t.locked = s.locked /\ t.proposed = s.proposed
  BY <1>1 DEF Engine
<1>3. LockedBacked(t)
  BY <1>2, MarksKept, Zenon DEF Shaped
<1>4. check_supermajority(count_prevotes_for(t, t.height, r, t.valid))
  BY <1>2 DEF count_prevotes_for
<1>5. ValidBacked(t)
  BY <1>2, <1>4 DEF ValidBacked
<1> QED
  BY <1>2, <1>3, <1>5 DEF Shaped, Stays

\* Locking a proposal that a quorum of precommits the engine stores backs.
LEMMA MarkLocked ==
    ASSUME NEW s, Shaped(s), NEW id \in Proposal, Fits(id, s.height), NEW r,
           \E v \in s.pool : v.round = r /\ v.round >= s.round,
           check_supermajority(count_precommits_for(s, s.height, r, id)),
           NEW t, t = [s EXCEPT !.locked = id]
    PROVE  /\ t \in Engine /\ Shaped(t) /\ Stays(s, t) /\ t.step = s.step
           /\ t.votes = s.votes /\ t.pool = s.pool /\ t.proposals = s.proposals
           /\ t.valid = s.valid /\ t.locked = id
<1>1. s \in Engine
  BY DEF Shaped
<1>2. /\ t \in Engine /\ t.step = s.step /\ t.chain = s.chain
      /\ t.height = s.height /\ t.round = s.round
      /\ t.votes = s.votes /\ t.pool = s.pool /\ t.proposals = s.proposals
      /\ t.valid = s.valid /\ t.locked = id /\ t.proposed = s.proposed
  BY <1>1 DEF Engine
<1>3. ValidBacked(t)
  BY <1>2, MarksKept, Zenon DEF Shaped
<1>4. check_supermajority(count_precommits_for(t, t.height, r, t.locked))
  BY <1>2 DEF count_precommits_for
<1>5. LockedBacked(t)
  BY <1>2, <1>4 DEF LockedBacked
<1> QED
  BY <1>2, <1>3, <1>5 DEF Shaped, Stays

\* enter_prevote_step goes at most from Propose to PreVote, where there are no marks.
LEMMA ShapedPrevote ==
    ASSUME NEW n \in Validators, NEW s, Shaped(s), Late(s),
           NEW t, t = enter_prevote_step(n, s)
    PROVE  /\ Shaped(t) /\ Late(t) /\ Stays(s, t) /\ Keeps(s, t, {})
           /\ s.step <= t.step
<1>0. s \in Engine /\ s.step \in 0..3
  BY DEF Shaped, Engine, Steps, Propose, Commit
<1>1. CASE t = s
  BY <1>0, <1>1 DEF Stays, Keeps
<1>2. CASE ~(s.step >= PreVote)
  <2>1. s.step = 0 /\ s.valid = None /\ s.locked = None
    BY <1>0, <1>2 DEF Late, PreVote, PreCommit, Commit
  <2>2. PICK u : u = [s EXCEPT !.step = PreVote]
    BY Zenon
  <2>3. PreVote \in Steps /\ PreVote \in VoteTypes /\ PreVote = 1
    BY DEF Steps, Propose, PreVote, Commit, VoteTypes
  <2>4. /\ Shaped(u) /\ u.step = PreVote /\ Stays(s, u)
        /\ u.votes = s.votes /\ u.pool = s.pool /\ u.proposals = s.proposals
        /\ u.valid = s.valid /\ u.locked = s.locked
    BY <2>2, <2>3, ShapedStep
  <2>5. CASE t = u
    BY <2>1, <2>3, <2>4, <2>5 DEF Late, Keeps
  <2>6. CASE s.proposals # <<>> /\ t = cast_vote(n, u, Head(s.proposals), PreVote)
    <3>1. PICK id : id = Head(s.proposals)
      OBVIOUS
    <3>2. id \in Proposal /\ id \in Elements(s.proposals)
      BY <1>0, <2>6, <3>1 DEF Engine, Elements
    <3>3. Fits(id, u.height)
      BY <2>4, <3>2 DEF Shaped, Stays
    <3>4. /\ Shaped(t) /\ Stays(u, t) /\ Keeps(u, t, {}) /\ t.step = u.step
          /\ t.valid = u.valid /\ t.locked = u.locked
      BY <2>1, <2>3, <2>4, <2>6, <3>1, <3>2, <3>3, ShapedCast
    <3> QED
      BY <2>1, <2>3, <2>4, <3>4 DEF Late, Keeps, Stays
  <2> QED
    BY <1>1, <2>2, <2>5, <2>6 DEF enter_prevote_step
<1> QED
  BY <1>1, <1>2 DEF enter_prevote_step

\* enter_precommit_step marks the proposal it precommits as valid, on the strength of
\* the prevotes of the current round.
LEMMA ShapedPrecommit ==
    ASSUME NEW n \in Validators, NEW s, Shaped(s), s.locked # None => s.step = Commit,
           NEW t, t = enter_precommit_step(n, s)
    PROVE  /\ Shaped(t) /\ Late(t) /\ Stays(s, t) /\ Keeps(s, t, {})
           /\ s.step <= t.step
<1>0. s \in Engine /\ s.step \in 0..3 /\ PreCommit = 2 /\ Commit = 3
  BY DEF Shaped, Engine, Steps, Propose, PreCommit, Commit
<1>1. CASE s.step > PreCommit
  <2>1. t = s
    BY <1>1 DEF enter_precommit_step
  <2> QED
    BY <1>0, <1>1, <2>1 DEF Stays, Keeps, Late
<1>2. CASE ~(s.step > PreCommit)
  <2>1. s.step <= 2 /\ s.locked = None
    BY <1>0, <1>2
  <2>2. PICK u : u = [s EXCEPT !.step = PreCommit]
    BY Zenon
  <2>3. PreCommit \in Steps /\ PreCommit \in VoteTypes
    BY DEF Steps, Propose, PreCommit, Commit, VoteTypes
  <2>4. /\ Shaped(u) /\ u.step = PreCommit /\ Stays(s, u)
        /\ u.votes = s.votes /\ u.pool = s.pool
        /\ u.valid = s.valid /\ u.locked = s.locked
    BY <2>2, <2>3, ShapedStep
  <2>5. PICK id : id = IF s.valid # None THEN s.valid ELSE first(s.proposals)
    OBVIOUS
  <2>6. CASE t = u
    BY <1>0, <2>1, <2>4, <2>6 DEF Late, Keeps
  <2>7. CASE /\ id # None
             /\ ~already_voted(n, s, PreCommit)
             /\ check_supermajority(count_prevotes_for(s, s.height, s.round, id))
             /\ t = [cast_vote(n, u, id, PreCommit) EXCEPT !.valid = id]
    <3>1. id \in Proposal /\ Fits(id, s.height)
      <4>1. CASE s.valid # None
        BY <1>0, <2>5, <4>1 DEF Shaped, Engine
      <4>2. CASE s.valid = None
        <5>1. s.proposals # <<>> /\ id = Head(s.proposals)
          BY <2>5, <2>7, <4>2 DEF first
        <5>2. id \in Proposal /\ id \in Elements(s.proposals)
          BY <1>0, <5>1 DEF Engine, Elements
        <5> QED
          BY <5>2 DEF Shaped
      <4> QED
        BY <4>1, <4>2
    <3>2. ~already_voted(n, u, PreCommit) /\ Fits(id, u.height)
      BY <2>4, <2>7, <3>1 DEF already_voted, Stays
    <3>3. PICK c : c = cast_vote(n, u, id, PreCommit)
      OBVIOUS
    <3>4. /\ Shaped(c) /\ Stays(u, c) /\ Keeps(u, c, {}) /\ c.step = u.step
          /\ c.locked = u.locked /\ u.pool \subseteq c.pool
          /\ \E v \in c.pool : v.round = u.round
      BY <2>3, <2>4, <3>1, <3>2, <3>3, ShapedCast
    <3>5. check_supermajority(count_prevotes_for(c, c.height, c.round, id))
      BY <2>4, <2>7, <3>4, PrevotesGrow DEF Stays, Shaped
    <3>6. c.round \in Nat /\ \E v \in c.pool : v.round = c.round /\ v.round >= c.round
      BY <3>4 DEF Stays, Shaped, Engine
    <3>7. Fits(id, c.height) /\ t = [c EXCEPT !.valid = id]
      BY <2>7, <3>2, <3>3, <3>4 DEF Stays
    <3>8. /\ Shaped(t) /\ Stays(c, t) /\ t.step = c.step
          /\ t.votes = c.votes /\ t.pool = c.pool /\ t.locked = c.locked
      BY <3>1, <3>4, <3>5, <3>6, <3>7, MarkValid
    <3> QED
      BY <1>0, <2>1, <2>4, <3>4, <3>8 DEF Late, Keeps, Stays
  <2> QED
    BY <1>2, <2>2, <2>5, <2>6, <2>7 DEF enter_precommit_step
<1> QED
  BY <1>1, <1>2

\* enter_commit_step finalizes at most one block, with the commit vote it casts or
\* without.
LEMMA ShapedCommit ==
    ASSUME NEW n \in Validators, NEW s, Shaped(s),
           NEW order, NEW t, t = enter_commit_step(n, s, order)
    PROVE  /\ Shaped(t) /\ Late(t) /\ Finalized(s, t) /\ Keeps(s, t, {})
           /\ t.height = s.height /\ t.round = s.round /\ t.step = Commit
<1>0. s \in Engine /\ PreCommit = 2 /\ Commit = 3
  BY DEF Shaped, PreCommit, Commit
<1>1. PICK u : u = [s EXCEPT !.step = Commit]
  BY Zenon
<1>2. Commit \in Steps /\ Commit \in VoteTypes
  BY DEF Steps, Propose, Commit, VoteTypes
<1>3. /\ Shaped(u) /\ u.step = Commit /\ Stays(s, u)
      /\ u.votes = s.votes /\ u.pool = s.pool
      /\ u.valid = s.valid /\ u.locked = s.locked
  BY <1>1, <1>2, ShapedStep
<1>4. PICK id : id = IF s.valid # None THEN s.valid ELSE s.locked
  OBVIOUS
<1>5. CASE t = u
  BY <1>0, <1>3, <1>5 DEF Late, Keeps, Stays, Finalized
<1>6. CASE /\ id # None
           /\ ~already_voted(n, s, Commit)
           /\ t = maybe_finalize(cast_vote(n, u, id, Commit), s.height, id, order)
  <2>1. id \in Proposal /\ Fits(id, u.height)
    BY <1>0, <1>3, <1>4, <1>6 DEF Shaped, Engine, Stays
  <2>2. ~already_voted(n, u, Commit)
    BY <1>3, <1>6 DEF already_voted, Stays
  <2>3. PICK c : c = cast_vote(n, u, id, Commit)
    OBVIOUS
  <2>4. Shaped(c) /\ Stays(u, c) /\ Keeps(u, c, {}) /\ c.step = u.step
    BY <1>2, <1>3, <2>1, <2>2, <2>3, ShapedCast
  <2>5. /\ Shaped(t) /\ Finalized(c, t)
        /\ t.height = c.height /\ t.round = c.round
        /\ t.votes = c.votes /\ t.pool = c.pool
        /\ t.step = c.step \/ t.step = Commit
    BY <1>6, <2>1, <2>3, <2>4, ShapedFinalize
  <2>6. Finalized(s, t)
    BY <1>3, <2>4, <2>5, Zenon DEF Finalized, Stays
  <2> QED
    BY <1>0, <1>3, <2>4, <2>5, <2>6 DEF Late, Keeps, Stays
<1> QED
  BY <1>1, <1>4, <1>5, <1>6 DEF enter_commit_step

\* A round that starts has no proposals and no marks.
LEMMA ShapedRound ==
    ASSUME NEW s, Shaped(s), NEW h \in Nat, NEW r \in Nat, h <= Len(s.chain) + 1,
           NEW t, t = start_round(s, h, r)
    PROVE  /\ Shaped(t) /\ Late(t) /\ t.chain = s.chain
           /\ t.votes = s.votes /\ t.pool = s.pool
           /\ t.height = h /\ t.round = r /\ t.step = Propose /\ t.starts = s.starts
           /\ t.valid = None /\ t.locked = None /\ t.proposed = s.proposed
           /\ t.proposals = <<>> /\ t.pending = s.pending
<1>0. s \in Engine
  BY DEF Shaped
<1>1. Propose \in Steps
  BY DEF Steps, Propose, Commit
<1>2. t = [s EXCEPT !.height = h, !.round = r, !.step = Propose,
                    !.proposals = <<>>, !.locked = None, !.valid = None]
  BY DEF start_round
<1>3. /\ t \in Engine /\ t.chain = s.chain
      /\ t.votes = s.votes /\ t.pool = s.pool
      /\ t.height = h /\ t.round = r /\ t.step = Propose /\ t.starts = s.starts
      /\ t.valid = None /\ t.locked = None /\ t.proposed = s.proposed
      /\ t.proposals = <<>> /\ t.pending = s.pending
  <2>1. PICK x \in Steps, q \in Seq(Proposal), none \in Proposal \cup {None} :
             x = Propose /\ q = <<>> /\ none = None
    <3>1. <<>> \in Seq(Proposal) /\ None \in Proposal \cup {None}
      OBVIOUS
    <3> QED
      BY <1>1, <3>1, Zenon
  <2>2. t = [s EXCEPT !.height = h, !.round = r, !.step = x,
                      !.proposals = q, !.locked = none, !.valid = none]
    BY <1>2, <2>1
  <2> QED
    BY <1>0, <2>1, <2>2, Zenon DEF Engine
<1>4. \A p \in Elements(t.proposals) : Fits(p, t.height)
  BY <1>3 DEF Elements
<1>5. ValidBacked(t) /\ LockedBacked(t) /\ Late(t)
  BY <1>3 DEF ValidBacked, LockedBacked, Late
<1>6. Shaped(t)
  BY <1>3, <1>4, <1>5 DEF Shaped
<1> QED
  BY <1>3, <1>5, <1>6

\* enter_propose_step builds on the chain's tip, one height below the proposal.
LEMMA ShapedPropose ==
    ASSUME NEW n \in Validators, NEW s, Shaped(s), Late(s), s.height = Len(s.chain) + 1,
           NEW made, NEW t, t = enter_propose_step(n, s, made)
    PROVE  /\ Shaped(t) /\ Late(t) /\ Stays(s, t) /\ Keeps(s, t, {})
           /\ s.step <= t.step
<1>0. s \in Engine /\ s.step \in 0..3
  BY DEF Shaped, Engine, Steps, Propose, Commit
<1>1. CASE t = s
  BY <1>0, <1>1 DEF Stays, Keeps
<1>2. PICK p : p = create_proposal(s)
  OBVIOUS
<1>3. PICK u : u = [s EXCEPT !.proposals = Append(@, p), !.pending = Append(@, p),
                             !.proposed = @ \cup {p}]
  OBVIOUS
<1>4. CASE t = enter_prevote_step(n, u)
  <2>1. p \in Proposal /\ Fits(p, s.height) /\ Fits(p, p.height)
    BY <1>0, <1>2 DEF create_proposal, Proposal, Engine, Chain, Fits
  <2>2. PICK q, r, x : /\ q = Append(s.proposals, p) /\ r = Append(s.pending, p)
                       /\ x = s.proposed \cup {p}
    BY Zenon
  <2>3. q \in Seq(Proposal) /\ r \in Seq(Proposal) /\ x \in SUBSET Proposal
    BY <1>0, <2>1, <2>2 DEF Engine
  <2>4. u = [s EXCEPT !.proposals = q, !.pending = r, !.proposed = x]
    BY <1>3, <2>2
  <2>5. /\ u \in Engine /\ u.votes = s.votes /\ u.pool = s.pool /\ u.chain = s.chain
        /\ u.height = s.height /\ u.round = s.round /\ u.step = s.step
        /\ u.valid = s.valid /\ u.locked = s.locked
        /\ u.proposals = q /\ u.proposed = x
    BY <1>0, <2>3, <2>4, Zenon DEF Engine
  <2>6. \A o \in Elements(q) : Fits(o, s.height)
    <3>1. \A o \in Elements(q) : o = p \/ o \in Elements(s.proposals)
      BY <1>0, <2>1, <2>2 DEF Engine, Elements
    <3> QED
      BY <2>1, <3>1 DEF Shaped
  <2>7. \A o \in x : Fits(o, o.height)
    BY <2>1, <2>2 DEF Shaped
  <2>8. Shaped(u) /\ Late(u)
    BY <2>5, <2>6, <2>7, Reshape DEF Shaped, Late
  <2>9. /\ Shaped(t) /\ Late(t) /\ Stays(u, t) /\ Keeps(u, t, {})
        /\ u.step <= t.step
    BY <1>4, <2>8, ShapedPrevote
  <2> QED
    BY <2>5, <2>9 DEF Stays, Keeps
<1> QED
  BY <1>1, <1>2, <1>3, <1>4 DEF enter_propose_step

---------------------------------------------------------------------------
(* Messages and timers, with or without restarts *)

\* A handler that knows the votes vs takes s to t: the marks stay backed, the view does
\* not move back, no vote is forgotten and a new block has its commit votes.
Goes(s, t, vs) ==
    /\ Shaped(t) /\ Late(t)
    /\ NotAhead(s, t)
    /\ Keeps(s, t, vs)
    /\ Finalized(s, t)

\* A handler that stays in its round.
LEMMA GoesStaying ==
    ASSUME NEW s, NEW t, NEW vs, Shaped(s), Shaped(t), Late(t), Keeps(s, t, vs), Stays(s, t),
           s.step <= t.step
    PROVE  Goes(s, t, vs)
BY DEF Goes, Stays, NotAhead, Finalized

\* A handler may first move to a later round, which keeps chain and votes.
LEMMA GoesLater ==
    ASSUME NEW s, NEW u, NEW t, NEW vs, Shaped(s), Shaped(u), Goes(u, t, vs),
           t.chain = u.chain, u.chain = s.chain, u.votes = s.votes, u.pool = s.pool,
           u.height > s.height \/ (u.height = s.height /\ u.round > s.round)
    PROVE  Goes(s, t, vs)
<1>1. /\ s.height \in Nat /\ u.height \in Nat /\ t.height \in Nat
      /\ s.round \in Nat /\ u.round \in Nat /\ t.round \in Nat
  BY DEF Goes, Shaped, Engine
<1>2. NotAhead(s, t)
  BY <1>1 DEF Goes, NotAhead
<1> QED
  BY <1>2 DEF Goes, Keeps, Finalized

\* Admitting a proposal of the engine's height.
LEMMA GoesAdmit ==
    ASSUME NEW n \in Validators, NEW s, Shaped(s), Late(s), NEW vs,
           NEW p \in Proposal, Fits(p, s.height), NEW t, t = admit_proposal(n, s, p)
    PROVE  Goes(s, t, vs) /\ Stays(s, t)
<1>0. s \in Engine /\ s.step \in 0..3 /\ PreVote = 1 /\ PreCommit = 2 /\ Commit = 3
  BY DEF Shaped, Engine, Steps, Propose, PreVote, PreCommit, Commit
<1>1. PICK a : a = [s EXCEPT !.proposals = Append(@, p), !.pending = Append(@, p)]
  OBVIOUS
<1>2. /\ Shaped(a) /\ Late(a) /\ Stays(s, a) /\ a.step = s.step
      /\ a.votes = s.votes /\ a.pool = s.pool
      /\ a.valid = s.valid /\ a.locked = s.locked
  <2>1. PICK q, r : q = Append(s.proposals, p) /\ r = Append(s.pending, p)
    BY Zenon
  <2>2. q \in Seq(Proposal) /\ r \in Seq(Proposal)
    BY <1>0, <2>1 DEF Engine
  <2>3. a = [s EXCEPT !.proposals = q, !.pending = r]
    BY <1>1, <2>1
  <2>4. /\ a \in Engine /\ a.votes = s.votes /\ a.pool = s.pool /\ a.chain = s.chain
        /\ a.height = s.height /\ a.round = s.round /\ a.step = s.step
        /\ a.valid = s.valid /\ a.locked = s.locked
        /\ a.proposals = q /\ a.proposed = s.proposed
    BY <1>0, <2>2, <2>3, Zenon DEF Engine
  <2>5. \A o \in Elements(q) : o = p \/ o \in Elements(s.proposals)
    BY <1>0, <2>1 DEF Engine, Elements
  <2>6. \A o \in Elements(q) : Fits(o, s.height)
    BY <2>5 DEF Shaped
  <2>7. Shaped(a)
    BY <2>4, <2>6, Reshape DEF Shaped
  <2> QED
    BY <2>4, <2>7 DEF Late, Stays
<1>3. SUFFICES /\ Shaped(t) /\ Late(t) /\ Stays(a, t) /\ Keeps(a, t, {})
               /\ a.step <= t.step
  BY <1>2, GoesStaying DEF Stays, Keeps
<1>4. CASE t = enter_prevote_step(n, a)
  BY <1>2, <1>4, ShapedPrevote
<1>5. CASE t = a
  BY <1>0, <1>2, <1>5 DEF Stays, Keeps
<1>6. PICK u : u = cast_vote(n, a, p, PreVote)
  OBVIOUS
<1>7. CASE /\ a.step = PreVote /\ ~already_voted(n, a, PreVote)
           /\ t = IF check_supermajority(count_prevotes_for(u, u.height, u.round, p))
                  THEN enter_precommit_step(n, [u EXCEPT !.valid = p])
                  ELSE u
  <2>1. PreVote \in VoteTypes /\ Fits(p, a.height)
    BY <1>2 DEF VoteTypes, Stays
  <2>2. /\ Shaped(u) /\ Stays(a, u) /\ Keeps(a, u, {}) /\ u.step = a.step
        /\ u.valid = a.valid /\ u.locked = a.locked
        /\ \E v \in u.pool : v.round = a.round
    BY <1>2, <1>6, <1>7, <2>1, ShapedCast
  <2>3. a.valid = None /\ a.locked = None
    BY <1>0, <1>2, <1>7 DEF Late
  <2>4. CASE t = u
    BY <1>0, <1>2, <2>2, <2>3, <2>4 DEF Late
  <2>5. CASE /\ check_supermajority(count_prevotes_for(u, u.height, u.round, p))
             /\ t = enter_precommit_step(n, [u EXCEPT !.valid = p])
    <3>1. PICK b : b = [u EXCEPT !.valid = p]
      BY Zenon
    <3>2. u.round \in Nat /\ Fits(p, u.height)
      BY <2>1, <2>2 DEF Shaped, Engine, Stays
    <3>3. \E v \in u.pool : v.round = u.round /\ v.round >= u.round
      BY <2>2, <3>2 DEF Stays
    <3>4. /\ Shaped(b) /\ Stays(u, b) /\ b.step = u.step
          /\ b.votes = u.votes /\ b.pool = u.pool /\ b.locked = u.locked
      BY <2>2, <2>5, <3>1, <3>2, <3>3, MarkValid
    <3>5. /\ Shaped(t) /\ Late(t) /\ Stays(b, t) /\ Keeps(b, t, {})
          /\ b.step <= t.step
      BY <2>2, <2>3, <2>5, <3>1, <3>4, ShapedPrecommit, Zenon
    <3> QED
      BY <2>2, <3>4, <3>5 DEF Stays, Keeps
  <2> QED
    BY <1>7, <2>4, <2>5
<1> QED
  BY <1>1, <1>4, <1>5, <1>6, <1>7 DEF admit_proposal

\* on_proposal, with the jump to a later round or without it.
LEMMA GoesOnProposal ==
    ASSUME NEW n \in Validators, NEW s, Shaped(s), Late(s),
           NEW p \in Proposal, Fits(p, p.height), NEW t, t = on_proposal(n, s, p)
    PROVE  Goes(s, t, {})
<1>0. s \in Engine /\ s.step \in 0..3
  BY DEF Shaped, Engine, Steps, Propose, Commit
<1>1. PICK u : u = IF p.round > s.round THEN start_round(s, s.height, p.round) ELSE s
  OBVIOUS
<1>2. CASE t = s
  BY <1>0, <1>2, GoesStaying DEF Stays, Keeps
<1>3. CASE p.height = s.height /\ (t = u \/ t = admit_proposal(n, u, p))
  <2>1. CASE ~(p.round > s.round)
    <3>1. u = s
      BY <1>1, <2>1
    <3> QED
      BY <1>2, <1>3, <3>1, GoesAdmit
  <2>2. CASE p.round > s.round
    <3>1. /\ Shaped(u) /\ Late(u) /\ u.chain = s.chain
          /\ u.votes = s.votes /\ u.pool = s.pool
          /\ u.height = s.height /\ u.round = p.round
      <4>1. s.height \in Nat /\ p.round \in Nat /\ s.height <= Len(s.chain) + 1
        BY <1>0 DEF Shaped, Engine, Proposal
      <4>2. u = start_round(s, s.height, p.round)
        BY <1>1, <2>2
      <4> QED
        BY <4>1, <4>2, ShapedRound
    <3>2. u.step \in 0..3
      BY <3>1 DEF Shaped, Engine, Steps, Propose, Commit
    <3>3. Goes(u, t, {}) /\ Stays(u, t)
      <4>1. CASE t = u
        BY <3>1, <3>2, <4>1, GoesStaying DEF Stays, Keeps
      <4>2. CASE t = admit_proposal(n, u, p)
        BY <1>3, <3>1, <4>2, GoesAdmit
      <4> QED
        BY <1>3, <4>1, <4>2
    <3> QED
      BY <2>2, <3>1, <3>3, GoesLater DEF Stays
  <2> QED
    BY <2>1, <2>2
<1> QED
  BY <1>1, <1>2, <1>3 DEF on_proposal, is_proposal_relevant

\* A handler may end with maybe_finalize; if it finalized before, the second call
\* appends nothing.
LEMMA GoesFinalize ==
    ASSUME NEW s, Shaped(s), NEW u, NEW vs, Goes(s, u, vs), u.height = s.height,
           NEW height, NEW id \in Proposal, NEW order,
           NEW t, t = maybe_finalize(u, height, id, order)
    PROVE  Goes(s, t, vs)
<1>1. /\ Shaped(t) /\ Finalized(u, t)
      /\ t.height = u.height /\ t.round = u.round
      /\ t.votes = u.votes /\ t.pool = u.pool
      /\ t.step = u.step \/ t.step = Commit
      /\ t.valid = u.valid /\ t.locked = u.locked
  BY ShapedFinalize DEF Goes
<1>2. u.step \in 0..3 /\ s.step \in 0..3 /\ PreCommit = 2 /\ Commit = 3
  BY DEF Goes, Shaped, Engine, Steps, Propose, PreCommit, Commit
<1>3. Late(t)
  BY <1>1, <1>2 DEF Late, Goes
<1>4. NotAhead(s, t)
  BY <1>1, <1>2 DEF NotAhead, Goes
<1>5. Finalized(s, t)
  <2>1. CASE u.chain = s.chain
    BY <1>1, <2>1, Zenon DEF Finalized
  <2>2. CASE u.chain # s.chain
    <3>1. PICK b \in Proposal, att \in SUBSET Attestation :
            /\ Fits(b, s.height) /\ b.prev = s.chain
            /\ u.chain = Append(s.chain, [round |-> b.round, nonce |-> b.nonce, att |-> att])
            /\ check_supermajority(count_commits_for(u, s.height, b))
      BY <2>2, Zenon DEF Goes, Finalized
    <3>2. PICK c \in Seq(Block) : c = s.chain
      BY DEF Shaped, Engine, Chain
    <3>3. PICK block : block = [round |-> b.round, nonce |-> b.nonce, att |-> att]
      BY Zenon
    <3>4. block \in Block
      BY <3>3 DEF Block, Proposal
    <3>5. Len(u.chain) = Len(c) + 1 /\ Len(c) \in Nat /\ Len(c) + 1 = s.height
      BY <3>1, <3>2, <3>3, <3>4 DEF Fits
    <3>6. t.chain = u.chain
      <4>1. SUFFICES ASSUME t.chain # u.chain PROVE FALSE
        OBVIOUS
      <4>2. PICK e \in Proposal : Fits(e, u.height) /\ e.prev = u.chain
        BY <1>1, <4>1, Zenon DEF Finalized
      <4>3. Len(u.chain) + 1 = s.height
        BY <4>2 DEF Fits
      <4> QED
        BY <3>5, <4>3
    <3>7. check_supermajority(count_commits_for(t, s.height, b))
      BY <1>1, <3>1 DEF count_commits_for
    <3> QED
      BY <3>1, <3>6, <3>7, Zenon DEF Finalized
  <2> QED
    BY <2>1, <2>2
<1> QED
  BY <1>1, <1>3, <1>4, <1>5 DEF Goes, Keeps

\* Storing a received vote whose key is not in the pool.
LEMMA ShapedAddVote ==
    ASSUME NEW s, Shaped(s), NEW v \in Vote, Fits(v.id, v.height), ~known_vote(s, v),
           NEW t, t = add_vote(s, v)
    PROVE  /\ Shaped(t) /\ Stays(s, t) /\ Keeps(s, t, {v}) /\ v \in t.pool
           /\ t.step = s.step /\ t.valid = s.valid /\ t.locked = s.locked
<1>0. s \in Engine
  BY DEF Shaped
<1>1. PICK pool : pool = insert_vote(s.pool, v)
  OBVIOUS
<1>2. pool = s.pool \cup {v}
  BY <1>1 DEF insert_vote, known_vote
<1>3. IsFiniteSet(pool)
  BY <1>2, FS_AddElement DEF Shaped
<1>4. pool \in SUBSET Vote
  BY <1>0, <1>2 DEF Engine
<1>5. t = [s EXCEPT !.pool = pool]
  BY <1>1 DEF add_vote
<1>6. /\ t \in Engine /\ t.pool = pool /\ t.votes = s.votes /\ t.chain = s.chain
      /\ t.height = s.height /\ t.round = s.round /\ t.step = s.step
      /\ t.valid = s.valid /\ t.locked = s.locked
      /\ t.proposals = s.proposals /\ t.proposed = s.proposed
  BY <1>0, <1>4, <1>5 DEF Engine
<1>7. \A w \in t.pool \cup t.votes : Fits(w.id, w.height)
  BY <1>2, <1>6 DEF Shaped
<1>8. Shaped(t)
  BY <1>2, <1>3, <1>6, <1>7, Reshape, Zenon DEF Shaped
<1> QED
  BY <1>2, <1>6, <1>8 DEF Stays, Keeps

\* on_prevote marks a proposal as valid on the strength of one round's prevotes.
LEMMA GoesOnPrevote ==
    ASSUME NEW n \in Validators, NEW s, Shaped(s), Late(s),
           NEW v \in Vote, Fits(v.id, v.height),
           NEW order, NEW t, t = on_prevote(n, s, v, order)
    PROVE  Goes(s, t, {v})
<1>0. s \in Engine /\ s.step \in 0..3 /\ s.round \in Nat
  BY Zenon DEF Shaped, Engine, Steps, Propose, Commit
<1>1. CASE t = s
  BY <1>0, <1>1, GoesStaying DEF Stays, Keeps
<1>2. CASE validate_remote_vote(s, v) /\ ~known_vote(s, v)
  <2>1. PICK a : a = add_vote(s, v)
    OBVIOUS
  <2>2. /\ Shaped(a) /\ Stays(s, a) /\ Keeps(s, a, {v}) /\ v \in a.pool
        /\ a.step = s.step /\ a.valid = s.valid /\ a.locked = s.locked
    BY <1>2, <2>1, ShapedAddVote
  <2>3. Goes(s, a, {v}) /\ a.height = s.height /\ Late(a)
    BY <1>0, <2>2, GoesStaying DEF Late, Stays
  <2>4. v.id \in Proposal /\ v.round \in Nat /\ Fits(v.id, a.height) /\ v.height = a.height
    BY <1>2, <2>3 DEF Vote, validate_remote_vote
  <2>5. CASE t = a
    BY <2>3, <2>5
  <2>6. CASE t = maybe_finalize(a, v.height, v.id, order)
    BY <2>3, <2>4, <2>6, GoesFinalize
  <2>7. PICK b : b = [a EXCEPT !.valid = v.id]
    BY Zenon
  <2>8. PICK c : c = enter_precommit_step(n, b)
    OBVIOUS
  <2>9. CASE /\ check_supermajority(count_prevotes_for(a, v.height, v.round, v.id))
             /\ t = maybe_finalize(c, v.height, v.id, order)
    <3>1. \E w \in a.pool : w.round = v.round /\ w.round >= a.round
      BY <1>2, <2>2 DEF validate_remote_vote, Stays
    <3>2. PICK id \in Proposal : id = v.id
      BY <2>4
    <3>3. /\ Shaped(b) /\ Stays(a, b) /\ b.step = a.step
          /\ b.votes = a.votes /\ b.pool = a.pool /\ b.locked = a.locked
      BY <2>2, <2>4, <2>7, <2>9, <3>1, <3>2, MarkValid
    <3>4. /\ Shaped(c) /\ Late(c) /\ Stays(b, c) /\ Keeps(b, c, {})
          /\ b.step <= c.step
      BY <2>3, <2>8, <3>3, ShapedPrecommit DEF Late
    <3>5. Stays(s, c) /\ Keeps(s, c, {v}) /\ s.step <= c.step
      BY <2>2, <3>3, <3>4 DEF Stays, Keeps
    <3>6. Goes(s, c, {v}) /\ c.height = s.height
      BY <3>4, <3>5, GoesStaying DEF Stays
    <3> QED
      BY <2>4, <2>9, <3>6, GoesFinalize
  <2> QED
    BY <1>2, <2>1, <2>5, <2>6, <2>7, <2>8, <2>9 DEF on_prevote
<1> QED
  BY <1>1, <1>2 DEF on_prevote

\* on_precommit locks a proposal on the strength of one round's precommits.
LEMMA GoesOnPrecommit ==
    ASSUME NEW n \in Validators, NEW s, Shaped(s), Late(s),
           NEW v \in Vote, Fits(v.id, v.height),
           NEW order, NEW t, t = on_precommit(n, s, v, order)
    PROVE  Goes(s, t, {v})
<1>0. s \in Engine /\ s.step \in 0..3 /\ s.round \in Nat /\ Commit = 3
  BY DEF Shaped, Engine, Steps, Propose, Commit
<1>1. CASE t = s
  BY <1>0, <1>1, GoesStaying DEF Stays, Keeps
<1>2. CASE validate_remote_vote(s, v) /\ ~known_vote(s, v)
  <2>1. PICK a : a = add_vote(s, v)
    OBVIOUS
  <2>2. /\ Shaped(a) /\ Stays(s, a) /\ Keeps(s, a, {v}) /\ v \in a.pool
        /\ a.step = s.step /\ a.valid = s.valid /\ a.locked = s.locked
    BY <1>2, <2>1, ShapedAddVote
  <2>3. Goes(s, a, {v}) /\ a.height = s.height /\ Late(a)
    BY <1>0, <2>2, GoesStaying DEF Late, Stays
  <2>4. v.id \in Proposal /\ v.round \in Nat /\ Fits(v.id, a.height) /\ v.height = a.height
    BY <1>2, <2>3 DEF Vote, validate_remote_vote
  <2>5. CASE t = a
    BY <2>3, <2>5
  <2>6. CASE t = maybe_finalize(a, v.height, v.id, order)
    BY <2>3, <2>4, <2>6, GoesFinalize
  <2>7. PICK b : b = [a EXCEPT !.locked = v.id]
    BY Zenon
  <2>8. PICK c : c = enter_commit_step(n, b, order)
    OBVIOUS
  <2>9. CASE /\ check_supermajority(count_precommits_for(a, v.height, v.round, v.id))
             /\ t = maybe_finalize(c, v.height, v.id, order)
    <3>1. \E w \in a.pool : w.round = v.round /\ w.round >= a.round
      BY <1>2, <2>2 DEF validate_remote_vote, Stays
    <3>2. PICK id \in Proposal : id = v.id
      BY <2>4
    <3>3. /\ Shaped(b) /\ Stays(a, b) /\ b.step = a.step
          /\ b.votes = a.votes /\ b.pool = a.pool
      BY <2>2, <2>4, <2>7, <2>9, <3>1, <3>2, MarkLocked
    <3>4. /\ Shaped(c) /\ Late(c) /\ Finalized(b, c) /\ Keeps(b, c, {})
          /\ c.height = b.height /\ c.round = b.round /\ c.step = Commit
      BY <2>8, <3>3, ShapedCommit
    <3>5. c.height = s.height /\ c.round = s.round /\ Keeps(s, c, {v}) /\ s.step <= c.step
      BY <1>0, <2>2, <3>3, <3>4 DEF Stays, Keeps
    <3>6. Finalized(s, c)
      BY <2>2, <3>3, <3>4, Zenon DEF Stays, Finalized
    <3>7. Goes(s, c, {v})
      BY <3>4, <3>5, <3>6 DEF Goes, NotAhead
    <3> QED
      BY <2>4, <2>9, <3>5, <3>7, GoesFinalize
  <2> QED
    BY <1>2, <2>1, <2>5, <2>6, <2>7, <2>8, <2>9 DEF on_precommit
<1> QED
  BY <1>1, <1>2 DEF on_precommit

\* Every vote message, commit votes included.
LEMMA GoesOnVote ==
    ASSUME NEW n \in Validators, NEW s, Shaped(s), Late(s),
           NEW v \in Vote, Fits(v.id, v.height),
           NEW order, NEW t, t = on_message_vote(n, s, v, order)
    PROVE  Goes(s, t, {v})
<1>0. s \in Engine /\ s.step \in 0..3
  BY DEF Shaped, Engine, Steps, Propose, Commit
<1>1. CASE t = s
  BY <1>0, <1>1, GoesStaying DEF Stays, Keeps
<1>2. CASE ~known_vote(s, v) /\ t = maybe_finalize(add_vote(s, v), v.height, v.id, order)
  <2>1. PICK a : a = add_vote(s, v)
    OBVIOUS
  <2>2. /\ Shaped(a) /\ Stays(s, a) /\ Keeps(s, a, {v})
        /\ a.step = s.step /\ a.valid = s.valid /\ a.locked = s.locked
    BY <1>2, <2>1, ShapedAddVote
  <2>3. Goes(s, a, {v}) /\ a.height = s.height
    BY <1>0, <2>2, GoesStaying DEF Late, Stays
  <2>4. v.id \in Proposal
    BY DEF Vote
  <2> QED
    BY <1>2, <2>1, <2>3, <2>4, GoesFinalize
<1> QED
  BY <1>1, <1>2, GoesOnPrevote, GoesOnPrecommit DEF on_message_vote, on_commit_vote

\* The round timer in each of the four steps.
LEMMA GoesOnTimeout ==
    ASSUME NEW n \in Validators, NEW s, Shaped(s), Late(s), NEW made,
           NEW order, NEW t, t = on_round_timeout(n, s, made, order)
    PROVE  Goes(s, t, {})
<1>0. s \in Engine /\ s.step \in 0..3 /\ Commit = 3
  BY DEF Shaped, Engine, Steps, Propose, Commit
<1>1. CASE t = enter_prevote_step(n, s)
  BY <1>1, ShapedPrevote, GoesStaying
<1>2. CASE t = enter_precommit_step(n, s)
  BY <1>2, ShapedPrecommit, GoesStaying DEF Late
<1>3. CASE t = enter_commit_step(n, s, order)
  <2>1. /\ Shaped(t) /\ Late(t) /\ Finalized(s, t) /\ Keeps(s, t, {})
        /\ t.height = s.height /\ t.round = s.round /\ t.step = Commit
    BY <1>3, ShapedCommit
  <2> QED
    BY <1>0, <2>1 DEF Goes, NotAhead
<1>4. CASE t = enter_propose_step(n, next_round(s), made)
  <2>1. PICK h : h = Len(s.chain) + 1
    OBVIOUS
  <2>2. PICK r : r = IF h = s.height THEN s.round + 1 ELSE 0
    OBVIOUS
  <2>3. /\ h \in Nat /\ s.height \in Nat /\ s.round \in Nat /\ Len(s.chain) \in Nat
        /\ s.height <= h
    BY <1>0, <2>1 DEF Engine, Chain, Shaped
  <2>4. r \in Nat /\ (h > s.height \/ (h = s.height /\ r > s.round))
    BY <2>2, <2>3
  <2>5. PICK u : u = start_round(s, h, r)
    OBVIOUS
  <2>6. u = next_round(s)
    BY <2>1, <2>2, <2>5 DEF next_round, sync_height_with_blockchain
  <2>7. h <= Len(s.chain) + 1
    BY <2>1, <2>3
  <2>8. /\ Shaped(u) /\ Late(u) /\ u.chain = s.chain
        /\ u.votes = s.votes /\ u.pool = s.pool /\ u.height = h /\ u.round = r
    BY <2>3, <2>4, <2>5, <2>7, ShapedRound
  <2>9. /\ Shaped(t) /\ Late(t) /\ Stays(u, t) /\ Keeps(u, t, {})
        /\ u.step <= t.step
    BY <1>4, <2>1, <2>6, <2>8, ShapedPropose
  <2>10. Goes(u, t, {}) /\ t.chain = u.chain
    BY <2>8, <2>9, GoesStaying DEF Stays
  <2> QED
    BY <2>4, <2>8, <2>10, GoesLater
<1> QED
  BY <1>1, <1>2, <1>3, <1>4 DEF on_round_timeout

\* An engine that starts keeps its chain and the votes others may hold of it.
LEMMA ShapedStart ==
    ASSUME NEW n \in Validators, NEW s, Shaped(s), NEW made,
           NEW t, t = start_engine(n, s, made)
    PROVE  Shaped(t) /\ Late(t) /\ t.chain = s.chain /\ Keeps(s, t, {})
<1>0. s \in Engine /\ Len(s.chain) + 1 \in Nat
  BY DEF Shaped, Engine, Chain
<1>1. PICK h : h = Len(s.chain) + 1
  OBVIOUS
<1>2. PICK a : a = start_round(s, h, 0)
  OBVIOUS
<1>3. /\ Shaped(a) /\ a.chain = s.chain
      /\ a.votes = s.votes /\ a.pool = s.pool
      /\ a.height = h /\ a.round = 0 /\ a.step = Propose
      /\ a.valid = None /\ a.locked = None
  BY <1>0, <1>1, <1>2, ShapedRound
<1>4. PICK b : b = [a EXCEPT !.pool = {}, !.pending = <<>>, !.up = TRUE, !.starts = @ + 1]
  OBVIOUS
<1>5. /\ b \in Engine /\ b.votes = a.votes /\ b.pool = {} /\ b.chain = a.chain
      /\ b.height = a.height /\ b.round = a.round /\ b.step = a.step
      /\ b.valid = a.valid /\ b.locked = a.locked
      /\ b.proposals = a.proposals /\ b.proposed = a.proposed
  <2>0. a \in Engine
    BY <1>3 DEF Shaped
  <2>a. a.starts \in Nat
    BY <2>0 DEF Engine
  <2>1. a \in Engine /\ a.starts + 1 \in Nat
    BY <2>0, <2>a
  <2>2. <<>> \in Seq(Proposal) /\ {} \in SUBSET Vote /\ TRUE \in BOOLEAN
    OBVIOUS
  <2>3. PICK pool \in SUBSET Vote, q \in Seq(Proposal), up \in BOOLEAN, k \in Nat :
             pool = {} /\ q = <<>> /\ up = TRUE /\ k = a.starts + 1
    BY <2>1, <2>2, Zenon
  <2>4. b = [a EXCEPT !.pool = pool, !.pending = q, !.up = up, !.starts = k]
    BY <1>4, <2>3
  <2> QED
    BY <2>1, <2>3, <2>4, Zenon DEF Engine
<1>6. Shaped(b) /\ Late(b)
  BY <1>3, <1>5, Reshape, FS_EmptySet, Zenon DEF Shaped, Late
<1>7. t = enter_propose_step(n, b, made)
  BY <1>1, <1>2, <1>4 DEF start_engine, sync_height_with_blockchain
<1>8. /\ Shaped(t) /\ Late(t) /\ Stays(b, t) /\ Keeps(b, t, {})
  BY <1>1, <1>3, <1>5, <1>6, <1>7, ShapedPropose
<1> QED
  BY <1>3, <1>5, <1>8 DEF Stays, Keeps

\* The state before the first start.
LEMMA ShapedBlank == Shaped(blank) /\ blank.chain = <<>> /\ blank.pool = {} /\ blank.votes = {}
<1>a. /\ <<>> \in Seq(Proposal) /\ <<>> \in Chain /\ Propose \in Steps
      /\ None \in Proposal \cup {None}
  BY DEF Chain, Steps, Propose, Commit
<1>b. blank \in Engine
  BY <1>a DEF blank, Engine
<1>c. /\ blank.votes = {} /\ blank.pool = {} /\ blank.chain = <<>>
      /\ blank.height = 0 /\ blank.valid = None /\ blank.locked = None
      /\ blank.proposals = <<>> /\ blank.proposed = {}
  BY DEF blank
<1>1. /\ blank \in Engine /\ blank.votes = {} /\ blank.pool = {} /\ blank.chain = <<>>
      /\ blank.height = 0 /\ blank.valid = None /\ blank.locked = None
      /\ blank.proposals = <<>> /\ blank.proposed = {}
  BY <1>b, <1>c
<1>2. ValidBacked(blank) /\ LockedBacked(blank)
  BY <1>1 DEF ValidBacked, LockedBacked
<1>3. \A p \in Elements(blank.proposals) : Fits(p, blank.height)
  BY <1>1 DEF Elements
<1>4. Len(blank.chain) = 0
  BY <1>1
<1> QED
  BY <1>1, <1>2, <1>3, <1>4, FS_EmptySet DEF Shaped

---------------------------------------------------------------------------
(* Marks, views and chains, restarts included *)

\* Every block of the chain c has a supermajority of commit votes among vs.
ChainBacked(c, vs) ==
    \A h \in DOMAIN c :
        check_supermajority(Cardinality(
            {v \in vs : v.type = Commit /\ v.height = h /\ v.id = CommittedProposal(c, h)}))

\* The inductive invariant that a restart keeps too: it says nothing of what an engine
\* remembers of its own votes.
RestartInv ==
    /\ TypeOK
    /\ \A n \in Running : /\ Shaped(node[n]) /\ Late(node[n])
                          /\ node[n].pool \subseteq Votes
                          /\ ChainBacked(node[n].chain, Votes)
    /\ IsFiniteSet(Votes)

\* More votes back a chain at least as well.
LEMMA ChainBackedGrows ==
    ASSUME NEW c, NEW vs, NEW ws, vs \subseteq ws, IsFiniteSet(ws), ChainBacked(c, vs)
    PROVE  ChainBacked(c, ws)
<1> SUFFICES ASSUME NEW h \in DOMAIN c
             PROVE  check_supermajority(Cardinality(
                      {v \in ws : /\ v.type = Commit /\ v.height = h
                                  /\ v.id = CommittedProposal(c, h)}))
  BY DEF ChainBacked
<1> DEFINE a == {v \in vs : v.type = Commit /\ v.height = h /\ v.id = CommittedProposal(c, h)}
           b == {v \in ws : v.type = Commit /\ v.height = h /\ v.id = CommittedProposal(c, h)}
<1>1. a \subseteq b /\ b \subseteq ws
  OBVIOUS
<1>2. IsFiniteSet(b)
  BY <1>1, FS_Subset
<1>3. check_supermajority(Cardinality(a))
  BY DEF ChainBacked
<1> HIDE DEF a, b
<1>4. check_supermajority(Cardinality(b))
  BY <1>1, <1>2, <1>3, LargerQuorum
<1> QED
  BY <1>4 DEF b

\* A block with its commit votes goes on top of a backed chain.
LEMMA ChainBackedAppend ==
    ASSUME NEW c \in Chain, NEW block \in Block, NEW vs, ChainBacked(c, vs),
           NEW id, id = [height |-> Len(c) + 1, round |-> block.round,
                         nonce |-> block.nonce, prev |-> c],
           check_supermajority(Cardinality(
               {v \in vs : v.type = Commit /\ v.height = Len(c) + 1 /\ v.id = id}))
    PROVE  ChainBacked(Append(c, block), vs)
<1>1. PICK d : d = Append(c, block)
  BY Zenon
<1>2. /\ Len(c) \in Nat /\ d \in Seq(Block) /\ Len(d) = Len(c) + 1 /\ c \in Seq(Block)
      /\ \A i \in 1 .. Len(c) : d[i] = c[i]
      /\ d[Len(c) + 1] = block
  BY <1>1 DEF Chain
<1>3. ASSUME NEW h \in 1 .. Len(c)
      PROVE  CommittedProposal(d, h) = CommittedProposal(c, h)
  <2>1. SubSeq(d, 1, h - 1) = SubSeq(c, 1, h - 1)
    BY <1>2
  <2> QED
    BY <1>2, <2>1, Zenon DEF CommittedProposal
<1>4. CommittedProposal(d, Len(c) + 1) = id
  <2>1. SubSeq(d, 1, Len(c)) = c
    BY <1>2
  <2>2. PICK h : h = Len(c) + 1
    OBVIOUS
  <2>3. h - 1 = Len(c) /\ d[h] = block
    BY <1>2, <2>2
  <2>4. SubSeq(d, 1, h - 1) = c
    BY <2>1, <2>3
  <2>5. CommittedProposal(d, h) = id
    BY <2>2, <2>3, <2>4, Zenon DEF CommittedProposal
  <2> QED
    BY <2>2, <2>5
<1>5. ASSUME NEW h \in DOMAIN d
      PROVE  check_supermajority(Cardinality(
               {v \in vs : v.type = Commit /\ v.height = h /\ v.id = CommittedProposal(d, h)}))
  <2>1. CASE h \in 1 .. Len(c)
    <3>1. h \in DOMAIN c
      BY <1>2, <2>1
    <3>2. CommittedProposal(d, h) = CommittedProposal(c, h)
      BY <1>3, <2>1
    <3> QED
      BY <3>1, <3>2 DEF ChainBacked
  <2>2. CASE h = Len(c) + 1
    BY <1>4, <2>2, Zenon
  <2> QED
    BY <1>2, <2>1, <2>2
<1> QED
  BY <1>1, <1>5 DEF ChainBacked

\* A chain cut off is backed by the same votes.
LEMMA ChainBackedPrefix ==
    ASSUME NEW c \in Chain, NEW d \in Chain, NEW vs, ChainBacked(d, vs),
           Len(d) > Len(c), SubSeq(d, 1, Len(c)) = c
    PROVE  ChainBacked(Append(c, d[Len(c) + 1]), vs)
<1>1. PICK e : e = Append(c, d[Len(c) + 1])
  BY Zenon
<1>2. /\ c \in Seq(Block) /\ d \in Seq(Block) /\ Len(c) \in Nat /\ Len(d) \in Nat
      /\ Len(c) + 1 \in 1 .. Len(d)
  BY DEF Chain
<1>3. d[Len(c) + 1] \in Block
  BY <1>2
<1>4. e \in Seq(Block) /\ Len(e) = Len(c) + 1
  BY <1>1, <1>2, <1>3
<1>5. \A i \in 1 .. Len(c) : c[i] = d[i]
  BY <1>2
<1>6. \A i \in 1 .. Len(e) : e[i] = d[i]
  BY <1>1, <1>2, <1>3, <1>4, <1>5
<1>7. ASSUME NEW h \in DOMAIN e
      PROVE  h \in DOMAIN d /\ CommittedProposal(e, h) = CommittedProposal(d, h)
  <2>1. h \in 1 .. Len(e) /\ h \in DOMAIN d /\ Len(e) <= Len(d)
    BY <1>2, <1>4
  <2>2. SubSeq(e, 1, h - 1) = SubSeq(d, 1, h - 1)
    BY <1>2, <1>4, <1>6, <2>1
  <2> QED
    BY <1>6, <2>1, <2>2 DEF CommittedProposal
<1> QED
  BY <1>1, <1>7 DEF ChainBacked

\* One engine takes a step that keeps its shape, and its chain stays backed.
LEMMA ShapedNodeStep ==
    ASSUME RestartInv, NEW n \in Running, NEW t, NEW vs \in SUBSET Votes,
           Shaped(t), Late(t), Keeps(node[n], t, vs), ChainBacked(t.chain, Votes \cup t.votes),
           node' = [node EXCEPT ![n] = t]
    PROVE  RestartInv'
<1>1. /\ t \in Engine /\ node' \in [Running -> Engine]
      /\ node'[n] = t /\ \A m \in Running : m # n => node'[m] = node[m]
  BY DEF RestartInv, TypeOK, Shaped
<1>2. Votes' = Votes \cup t.votes
  BY <1>1 DEF Votes, Keeps
<1>3. IsFiniteSet(Votes')
  BY <1>2, FS_Union, Zenon DEF RestartInv, Shaped
<1>4. ASSUME NEW m \in Running
      PROVE  /\ Shaped(node'[m]) /\ Late(node'[m]) /\ node'[m].pool \subseteq Votes'
             /\ ChainBacked(node'[m].chain, Votes')
  <2>1. CASE m = n
    BY <1>1, <1>2, <2>1 DEF RestartInv, Keeps
  <2>2. CASE m # n
    <3>1. PICK ws : ws = Votes'
      OBVIOUS
    <3>2. Votes \subseteq ws /\ IsFiniteSet(ws)
      BY <1>2, <1>3, <3>1
    <3>3. ChainBacked(node[m].chain, ws)
      BY <3>2, ChainBackedGrows DEF RestartInv
    <3> QED
      BY <1>1, <1>2, <2>2, <3>1, <3>3 DEF RestartInv
  <2> QED
    BY <2>1, <2>2
<1> QED
  BY <1>1, <1>3, <1>4 DEF RestartInv, TypeOK

\* The chain c is a prefix of d.
Extends(c, d) == Len(c) <= Len(d) /\ c = SubSeq(d, 1, Len(c))

\* An engine that does nothing keeps its view and its chain.
LEMMA SameNode ==
    ASSUME RestartInv, NEW m \in Running
    PROVE  NotAhead(node[m], node[m]) /\ Extends(node[m].chain, node[m].chain)
<1>1. node[m].step \in 0..3 /\ node[m].chain \in Seq(Block)
  BY DEF RestartInv, Shaped, Engine, Chain, Steps, Propose, Commit
<1> QED
  BY <1>1 DEF NotAhead, Extends

\* A handler keeps the invariant, the view and the chain.
LEMMA GoesNodeStep ==
    ASSUME RestartInv, NEW n \in Running, NEW t, NEW vs \in SUBSET Votes,
           Goes(node[n], t, vs), node' = [node EXCEPT ![n] = t]
    PROVE  /\ RestartInv'
           /\ \A m \in Running : NotAhead(node[m], node'[m]) /\ Extends(node[m].chain, node'[m].chain)
<1> DEFINE s == node[n]
<1>0. s \in Engine /\ t \in Engine /\ s.chain \in Seq(Block) /\ s.votes \subseteq t.votes
  BY Zenon DEF RestartInv, Shaped, Goes, Engine, Chain, Keeps
<1>1. PICK ws : ws = Votes \cup t.votes
  BY Zenon
<1>2. IsFiniteSet(ws) /\ Votes \subseteq ws /\ t.pool \subseteq ws
  BY <1>1, FS_Union, Zenon DEF RestartInv, Goes, Shaped, Keeps
<1>3. ChainBacked(s.chain, ws)
  BY <1>2, ChainBackedGrows DEF RestartInv
<1>4. ChainBacked(t.chain, ws) /\ Extends(s.chain, t.chain)
  <2>1. CASE t.chain = s.chain
    BY <1>0, <1>3, <2>1 DEF Extends
  <2>2. CASE t.chain # s.chain
    <3>1. PICK id \in Proposal, att \in SUBSET Attestation :
             /\ Fits(id, s.height) /\ id.prev = s.chain
             /\ t.chain = Append(s.chain, [round |-> id.round, nonce |-> id.nonce, att |-> att])
             /\ check_supermajority(count_commits_for(t, s.height, id))
      BY <2>2, Zenon DEF Goes, Finalized
    <3>2. PICK block : block = [round |-> id.round, nonce |-> id.nonce, att |-> att]
      BY Zenon
    <3>3. block \in Block /\ block.round = id.round /\ block.nonce = id.nonce
      BY <3>2 DEF Block, Proposal
    <3>4. PICK c \in Chain : c = s.chain
      BY <1>0 DEF Chain
    <3>5. s.height = Len(c) + 1 /\ id.height = Len(c) + 1 /\ id.prev = c
      BY <3>1, <3>4 DEF Fits
    <3>6. id = [height |-> Len(c) + 1, round |-> block.round,
                nonce |-> block.nonce, prev |-> c]
      BY <3>3, <3>5 DEF Proposal
    <3>7. check_supermajority(Cardinality(
              {v \in ws : v.type = Commit /\ v.height = Len(c) + 1 /\ v.id = id}))
      <4> DEFINE a == {v \in t.pool : /\ v.height = s.height /\ v.type = Commit /\ v.id = id}
                 b == {v \in ws : v.type = Commit /\ v.height = Len(c) + 1 /\ v.id = id}
      <4>1. a \subseteq b /\ b \subseteq ws
        BY <1>2, <3>5
      <4>2. IsFiniteSet(b)
        BY <1>2, <4>1, FS_Subset
      <4>3. check_supermajority(Cardinality(a))
        BY <3>1 DEF count_commits_for
      <4> HIDE DEF a, b
      <4>4. check_supermajority(Cardinality(b))
        BY <4>1, <4>2, <4>3, LargerQuorum
      <4> QED
        BY <4>4 DEF b
    <3>8. ChainBacked(c, ws) /\ t.chain = Append(c, block)
      BY <1>3, <3>1, <3>2, <3>4
    <3>9. ChainBacked(t.chain, ws)
      BY <3>3, <3>6, <3>7, <3>8, ChainBackedAppend
    <3>10. Extends(c, Append(c, block))
      BY <3>3 DEF Extends, Chain
    <3> QED
      BY <3>4, <3>8, <3>9, <3>10
  <2> QED
    BY <2>1, <2>2
<1>5. Shaped(t) /\ Late(t) /\ Keeps(node[n], t, vs) /\ NotAhead(node[n], t)
  BY DEF Goes
<1>6. RestartInv'
  BY <1>1, <1>4, <1>5, ShapedNodeStep, Zenon
<1>7. node'[n] = t /\ \A m \in Running : m # n => node'[m] = node[m]
  BY DEF RestartInv, TypeOK
<1> QED
  BY <1>4, <1>5, <1>6, <1>7, SameNode

\* Every step but a restart keeps the invariant, the views and the chains.
LEMMA NextRestartInv ==
    RestartInv /\ [Next]_node =>
        /\ RestartInv'
        /\ \A m \in Running : NotAhead(node[m], node'[m]) /\ Extends(node[m].chain, node'[m].chain)
<1> SUFFICES ASSUME RestartInv, [Next]_node
             PROVE  /\ RestartInv'
                    /\ \A m \in Running : /\ NotAhead(node[m], node'[m])
                                          /\ Extends(node[m].chain, node'[m].chain)
  OBVIOUS
<1> DEFINE Goal == /\ RestartInv'
                   /\ \A m \in Running : /\ NotAhead(node[m], node'[m])
                                         /\ Extends(node[m].chain, node'[m].chain)
<1>0. \A n \in Running : /\ n \in Validators /\ node[n] \in Engine
                          /\ Shaped(node[n]) /\ Late(node[n])
  BY RunningAssumption DEF RestartInv, TypeOK
<1>a. {} \in SUBSET Votes
  OBVIOUS
<1>1. ASSUME NEW n \in Running, ReceiveProposal(n) PROVE Goal
  <2>1. PICK p \in Proposals : Step(n, on_proposal(n, node[n], p))
    BY <1>1 DEF ReceiveProposal
  <2>2. p \in Proposal /\ Fits(p, p.height)
    BY <1>0, Zenon DEF Proposals, Engine, Shaped
  <2>3. PICK t : t = on_proposal(n, node[n], p)
    OBVIOUS
  <2>4. Goes(node[n], t, {})
    BY <1>0, <2>2, <2>3, GoesOnProposal
  <2> QED
    BY <1>a, <2>1, <2>3, <2>4, GoesNodeStep, Zenon DEF Step
<1>2. ASSUME NEW n \in Running, ReceiveVote(n) PROVE Goal
  <2>1. PICK v \in Votes, order \in Orders : Step(n, on_message_vote(n, node[n], v, order))
    BY <1>2 DEF ReceiveVote
  <2>2. v \in Vote /\ Fits(v.id, v.height)
    BY <1>0, Zenon DEF Votes, Engine, Shaped
  <2>3. PICK t : t = on_message_vote(n, node[n], v, order)
    OBVIOUS
  <2>4. Goes(node[n], t, {v})
    BY <1>0, <2>2, <2>3, GoesOnVote
  <2>5. {v} \in SUBSET Votes
    OBVIOUS
  <2> QED
    BY <2>1, <2>3, <2>4, <2>5, GoesNodeStep, Zenon DEF Step
<1>3. ASSUME NEW n \in Running, RoundTimeout(n) PROVE Goal
  <2>1. PICK made \in Builds, order \in Orders :
             Step(n, on_round_timeout(n, node[n], made, order))
    BY <1>3 DEF RoundTimeout
  <2>2. PICK t : t = on_round_timeout(n, node[n], made, order)
    OBVIOUS
  <2>3. Goes(node[n], t, {})
    BY <1>0, <2>2, GoesOnTimeout
  <2> QED
    BY <1>a, <2>1, <2>2, <2>3, GoesNodeStep, Zenon DEF Step
<1>4. ASSUME NEW n \in Syncing, NEW m \in Running, CatchUp(n, m) PROVE Goal
  <2>1. n \in Running
    BY RunningAssumption
  <2>2. PICK c \in Chain, d \in Chain : c = node[n].chain /\ d = node[m].chain
    BY <1>0, <2>1 DEF Engine
  <2>3. PICK e : e = Append(c, d[Len(c) + 1])
    BY Zenon
  <2>4. /\ node' = [node EXCEPT ![n].chain = e]
        /\ Len(d) > Len(c) /\ SubSeq(d, 1, Len(c)) = c
    BY <1>4, <2>2, <2>3 DEF CatchUp
  <2>5. ChainBacked(d, Votes)
    BY <2>2 DEF RestartInv
  <2>6. ChainBacked(e, Votes)
    BY <2>2, <2>3, <2>4, <2>5, ChainBackedPrefix
  <2>7. /\ e \in Chain /\ Len(e) = Len(c) + 1 /\ Len(c) \in Nat /\ Extends(c, e)
    <3>1. c \in Seq(Block) /\ d \in Seq(Block) /\ Len(c) \in Nat /\ Len(d) \in Nat
      BY DEF Chain
    <3>2. d[Len(c) + 1] \in Block
      BY <2>2, <2>4, <3>1
    <3> QED
      BY <2>3, <3>1, <3>2 DEF Chain, Extends
  <2>8. PICK t : t = [node[n] EXCEPT !.chain = e]
    BY Zenon
  <2>9. node' = [node EXCEPT ![n] = t]
    BY <2>4, <2>8
  <2>10. node[n] \in Engine
    BY <1>0, <2>1
  <2>11. /\ t \in Engine /\ t.votes = node[n].votes /\ t.pool = node[n].pool
         /\ t.height = node[n].height /\ t.round = node[n].round /\ t.step = node[n].step
         /\ t.valid = node[n].valid /\ t.locked = node[n].locked
         /\ t.proposals = node[n].proposals /\ t.proposed = node[n].proposed
         /\ t.chain = e
    BY <2>7, <2>8, <2>10, Zenon DEF Engine
  <2>12. node[n].height \in Nat /\ node[n].height <= Len(e) + 1
    <3>1. node[n].height \in Nat
      BY <2>10 DEF Engine
    <3>2. Shaped(node[n]) /\ node[n].chain = c
      BY <1>0, <2>1, <2>2
    <3>3. node[n].height <= Len(c) + 1
      BY <3>2 DEF Shaped
    <3> QED
      BY <2>7, <3>1, <3>3
  <2>13. Shaped(t) /\ Late(t) /\ Keeps(node[n], t, {})
    BY <1>0, <2>1, <2>11, <2>12, Reshape, Zenon DEF Shaped, Late, Keeps
  <2>14. Votes \cup t.votes = Votes
    BY <2>1, <2>11 DEF Votes
  <2>15. RestartInv'
    BY <1>a, <2>1, <2>6, <2>9, <2>11, <2>13, <2>14, ShapedNodeStep, Zenon
  <2>16. node'[n] = t /\ \A o \in Running : o # n => node'[o] = node[o]
    BY <2>1, <2>9 DEF RestartInv, TypeOK
  <2>17. NotAhead(node[n], t) /\ Extends(node[n].chain, t.chain)
    BY <2>1, <2>2, <2>7, <2>11, SameNode DEF NotAhead
  <2> QED
    BY <2>15, <2>16, <2>17, SameNode
<1>5. CASE UNCHANGED node
  <2>1. RestartInv'
    BY <1>5 DEF RestartInv, TypeOK, Votes
  <2> QED
    BY <1>5, <2>1, SameNode
<1> QED
  BY <1>1, <1>2, <1>3, <1>4, <1>5 DEF Next, EngineStep

\* A restart keeps the invariant and the chains.
LEMMA RestartRestartInv ==
    ASSUME RestartInv, NEW n \in Restarting, Restart(n)
    PROVE  /\ RestartInv'
           /\ \A m \in Running : Extends(node[m].chain, node'[m].chain)
<1>1. n \in Running /\ n \in Validators /\ Shaped(node[n])
  BY RunningAssumption DEF RestartInv
<1>2. PICK made \in Builds : Step(n, start_engine(n, node[n], made))
  BY DEF Restart
<1>3. PICK t : t = start_engine(n, node[n], made)
  OBVIOUS
<1>4. Shaped(t) /\ Late(t) /\ t.chain = node[n].chain /\ Keeps(node[n], t, {})
  BY <1>1, <1>3, ShapedStart
<1>5. node' = [node EXCEPT ![n] = t]
  BY <1>2, <1>3 DEF Step
<1>6. ChainBacked(t.chain, Votes \cup t.votes)
  <2>1. PICK ws : ws = Votes \cup t.votes
    BY Zenon
  <2>2. Votes \subseteq ws /\ IsFiniteSet(ws)
    BY <1>4, <2>1, FS_Union, Zenon DEF RestartInv, Shaped
  <2>3. ChainBacked(node[n].chain, ws)
    BY <1>1, <2>2, ChainBackedGrows DEF RestartInv
  <2> QED
    BY <1>4, <2>1, <2>3
<1>7. RestartInv'
  <2>1. {} \in SUBSET Votes
    OBVIOUS
  <2> QED
    BY <1>1, <1>4, <1>5, <1>6, <2>1, ShapedNodeStep, Zenon
<1>8. node'[n] = t /\ \A m \in Running : m # n => node'[m] = node[m]
  BY <1>1, <1>5, Zenon DEF RestartInv, TypeOK
<1> QED
  BY <1>1, <1>4, <1>7, <1>8, SameNode

\* The engines start in the invariant, each with an empty chain.
LEMMA InitRestartInv == Init => RestartInv
<1> SUFFICES ASSUME Init PROVE RestartInv
  OBVIOUS
<1>1. ASSUME NEW n \in Running
      PROVE  /\ Shaped(node[n]) /\ Late(node[n]) /\ node[n].chain = <<>>
             /\ node[n].pool \subseteq node[n].votes /\ IsFiniteSet(node[n].votes)
  <2>1. n \in Validators /\ node[n] = start_engine(n, blank, TRUE)
    BY RunningAssumption DEF Init
  <2>2. PICK made : made = TRUE
    OBVIOUS
  <2>3. PICK t : t = start_engine(n, blank, made)
    OBVIOUS
  <2>4. Shaped(t) /\ Late(t) /\ t.chain = <<>> /\ Keeps(blank, t, {})
    BY <2>1, <2>3, ShapedStart, ShapedBlank
  <2>5. t.pool \subseteq t.votes /\ IsFiniteSet(t.votes)
    BY <2>4, ShapedBlank DEF Keeps, Shaped
  <2>6. node[n] = t
    BY <2>1, <2>2, <2>3, Zenon
  <2> QED
    BY <2>4, <2>5, <2>6
<1>2. TypeOK
  BY <1>1, Zenon DEF TypeOK, Init, Shaped
<1>3. \A n \in Running : node[n].pool \subseteq Votes
  BY <1>1 DEF Votes
<1>4. IsFiniteSet(Votes)
  <2> DEFINE g == [n \in Running |-> node[n].votes]
             T == {node[n].votes : n \in Running}
  <2>1. IsFiniteSet(Running)
    <3>1. IsFiniteSet(Validators)
      BY NAssumption, FS_Interval DEF Validators
    <3> QED
      BY <3>1, RunningAssumption, FS_Subset
  <2>2. g \in Surjection(Running, T)
    BY DEF Surjection
  <2>3. IsFiniteSet(T)
    BY <2>1, <2>2, FS_Surjection
  <2>4. \A S \in T : IsFiniteSet(S)
    BY <1>1
  <2> HIDE DEF T
  <2>5. IsFiniteSet(UNION T)
    BY <2>3, <2>4, FS_UNION
  <2> QED
    BY <2>5 DEF Votes, T
<1>5. \A n \in Running : ChainBacked(node[n].chain, Votes)
  BY <1>1 DEF ChainBacked
<1> QED
  BY <1>1, <1>2, <1>3, <1>4, <1>5 DEF RestartInv

\* The invariant holds in every reachable state, however often engines restart.
THEOREM RestartInvariant == SpecWithRestart => []RestartInv
<1>1. Init => RestartInv
  BY InitRestartInv
<1>2. RestartInv /\ [NextWithRestart]_node => RestartInv'
  BY NextRestartInv, RestartRestartInv DEF NextWithRestart
<1> QED
  BY <1>1, <1>2, PTL DEF SpecWithRestart

\* Without restarts nothing more can happen than with them.
LEMMA RestartsAreOptional == Spec => SpecWithRestart
<1>1. [Next]_node => [NextWithRestart]_node
  BY DEF NextWithRestart
<1> QED
  BY <1>1, PTL DEF Spec, SpecWithRestart

\* The valid and locked proposals an engine works with always rest on a quorum of one
\* round's votes in its own pool, restarts included.
THEOREM MarksAreBacked == SpecWithRestart => []MarksBacked
<1>1. RestartInv => MarksBacked
  BY Zenon DEF RestartInv, MarksBacked, Shaped, ValidBacked, LockedBacked
<1> QED
  BY <1>1, RestartInvariant, PTL

\* No block is on a chain without a supermajority of commit votes cast for it, though
\* engines restart, finalize twice in one handler and copy blocks from each other.
THEOREM CommitVotesFinalize == SpecWithRestart => []FinalizedByCommitVotes
<1>1. RestartInv => FinalizedByCommitVotes
  BY DEF RestartInv, FinalizedByCommitVotes, ChainBacked
<1> QED
  BY <1>1, RestartInvariant, PTL

\* Neither the commit callback nor catch-up nor a restart replaces or drops a block.
THEOREM ChainsOnlyGrow == SpecWithRestart => ChainsGrow
<1>1. RestartInv /\ [NextWithRestart]_node =>
        \A m \in Running : Extends(node[m].chain, node'[m].chain)
  BY NextRestartInv, RestartRestartInv DEF NextWithRestart
<1>2. RestartInv /\ [NextWithRestart]_node =>
        [\A n \in Running :
           /\ Len(node[n].chain) <= Len(node'[n].chain)
           /\ node[n].chain = SubSeq(node'[n].chain, 1, Len(node[n].chain))]_node
  BY <1>1 DEF Extends
<1> QED
  BY <1>2, RestartInvariant, PTL DEF SpecWithRestart, ChainsGrow

\* No message and no timer moves an engine back in (height, round, step).
THEOREM ViewsOnlyAdvance == Spec => ViewsAdvance
<1>1. RestartInv /\ [Next]_node => [\A n \in Running : NotAhead(node[n], node'[n])]_node
  BY NextRestartInv
<1> QED
  BY <1>1, RestartInvariant, RestartsAreOptional, PTL DEF Spec, ViewsAdvance

---------------------------------------------------------------------------
(* An engine that does not restart *)

\* The inductive invariant of the engine of validator n.
EngineInv(n, s) ==
    /\ s \in Engine
    /\ IsFiniteSet(s.pool)
    /\ RemembersVotes(n, s)

\* n, whose votes so far are own, may cast v on the strength of the votes vs.
CanCast(n, own, vs, v) ==
    /\ v \in Vote /\ v.voter = n
    /\ \A w \in own : VotePoolKey(w) # VotePoolKey(v)
    /\ v.type # PreVote => check_supermajority(Cardinality(Rules!Support(vs, v)))

\* From s to t the engine casts no vote, one, or a PreVote and a PreCommit.
CastsUpToTwo(n, s, t, vs) ==
    \/ t.votes = s.votes
    \/ \E v : CanCast(n, s.votes, vs, v) /\ t.votes = s.votes \cup {v}
    \/ \E v, w : /\ CanCast(n, s.votes, vs, v)
                 /\ CanCast(n, s.votes \cup {v}, vs \cup {v}, w)
                 /\ t.votes = s.votes \cup {v, w}

\* The handler that takes s to t, knowing the votes vs, is sound.
Sound(n, s, t, vs) ==
    /\ EngineInv(n, t)
    /\ t.pool \subseteq vs \cup t.votes
    /\ CastsUpToTwo(n, s, t, vs)

\* check_supermajority is monotone, and so is the support of a vote.
LEMMA SupportGrows ==
    ASSUME NEW vs, NEW ws, vs \subseteq ws, IsFiniteSet(ws), NEW v,
           check_supermajority(Cardinality(Rules!Support(vs, v)))
    PROVE  check_supermajority(Cardinality(Rules!Support(ws, v)))
<1> DEFINE a == Rules!Support(vs, v)
           b == Rules!Support(ws, v)
<1>1. a \subseteq b /\ b \subseteq ws
  BY DEF Rules!Support
<1>2. IsFiniteSet(b)
  BY <1>1, FS_Subset
<1>3. IsFiniteSet(a) /\ Cardinality(a) <= Cardinality(b)
  BY <1>1, <1>2, FS_Subset
<1>4. Cardinality(a) \in Nat /\ Cardinality(b) \in Nat
  BY <1>2, <1>3, FS_CardinalityType
<1> HIDE DEF a, b
<1>5. check_supermajority(Cardinality(a)) => check_supermajority(Cardinality(b))
  BY <1>3, <1>4, NAssumption
     DEF check_supermajority, has_supermajority, meets_threshold, BFT_SUPERMAJORITY_BPS
<1> QED
  BY <1>5 DEF a, b

\* Moving on to a later step.
LEMMA StepUp ==
    ASSUME NEW n \in Validators, NEW s \in Engine, EngineInv(n, s),
           NEW x \in Steps \ {Propose}, NEW t, t = [s EXCEPT !.step = x]
    PROVE  /\ t \in Engine /\ EngineInv(n, t) /\ t.step = x
           /\ t.votes = s.votes /\ t.pool = s.pool
           /\ t.height = s.height /\ t.round = s.round
           /\ t.valid = s.valid /\ t.locked = s.locked
BY DEF EngineInv, RemembersVotes, Engine

\* The invariant depends on the view, the votes and the chain only.
LEMMA SameView ==
    ASSUME NEW n \in Validators, NEW s \in Engine, EngineInv(n, s), NEW t \in Engine,
           t.votes = s.votes, t.pool = s.pool, t.chain = s.chain,
           t.height = s.height, t.round = s.round, t.step = s.step
    PROVE  EngineInv(n, t)
BY DEF EngineInv, RemembersVotes

\* n has not voted in the type's key of the current round, and has left Propose before
\* it prevotes.
MayVote(n, s, type) ==
    /\ type \in VoteTypes
    /\ type = PreVote => s.step # Propose
    /\ \A w \in s.votes : VotePoolKey(w) # <<s.height, s.round, type, n>>

\* The vote cast_vote signs.
OwnVote(n, s, id, type) ==
    [height |-> s.height, round |-> s.round, type |-> type, voter |-> n, id |-> id]

\* From s to t the engine casts v and changes nothing else.
HasCast(n, s, t, v, type) ==
    /\ t \in Engine /\ EngineInv(n, t)
    /\ v \in Vote /\ v.voter = n /\ v.type = type
    /\ \A w \in s.votes : VotePoolKey(w) # VotePoolKey(v)
    /\ t.votes = s.votes \cup {v}
    /\ t.pool \subseteq s.pool \cup {v}
    /\ t.chain = s.chain /\ t.height = s.height /\ t.round = s.round
    /\ t.step = s.step /\ t.valid = s.valid /\ t.locked = s.locked

\* Casting a vote whose key is unused.
LEMMA CastVote ==
    ASSUME NEW n \in Validators, NEW s \in Engine, EngineInv(n, s),
           NEW id \in Proposal, NEW type, MayVote(n, s, type),
           NEW v, v = OwnVote(n, s, id, type),
           NEW t, t = cast_vote(n, s, id, type)
    PROVE  HasCast(n, s, t, v, type)
<1>0. /\ type \in VoteTypes /\ (type = PreVote => s.step # Propose)
      /\ \A w \in s.votes : VotePoolKey(w) # <<s.height, s.round, type, n>>
      /\ v = [height |-> s.height, round |-> s.round, type |-> type,
              voter |-> n, id |-> id]
  BY DEF MayVote, OwnVote
<1>1. v \in Vote /\ v.voter = n /\ v.type = type /\ v.height = s.height /\ v.round = s.round
  BY <1>0 DEF Engine, Vote
<1>2. VotePoolKey(v) = <<s.height, s.round, type, n>>
  BY <1>1 DEF VotePoolKey
<1>3. t = [s EXCEPT !.pool = insert_vote(s.pool, v), !.votes = s.votes \cup {v}]
  BY <1>0 DEF cast_vote, Engine
<1>4. insert_vote(s.pool, v) \subseteq s.pool \cup {v}
  BY DEF insert_vote
<1>5. insert_vote(s.pool, v) \subseteq Vote /\ IsFiniteSet(insert_vote(s.pool, v))
  <2>1. IsFiniteSet(s.pool \cup {v})
    BY FS_AddElement DEF EngineInv
  <2> QED
    BY <1>1, <1>4, <2>1, FS_Subset DEF EngineInv, Engine
<1>6. s.votes \cup {v} \subseteq insert_vote(s.pool, v)
  BY <1>0, <1>2 DEF insert_vote, EngineInv, RemembersVotes
<1>7. /\ t \in Engine /\ t.pool = insert_vote(s.pool, v) /\ t.votes = s.votes \cup {v}
      /\ t.chain = s.chain /\ t.height = s.height /\ t.round = s.round
      /\ t.step = s.step /\ t.valid = s.valid /\ t.locked = s.locked
  <2>1. PICK pool, votes : pool = insert_vote(s.pool, v) /\ votes = s.votes \cup {v}
    BY Zenon
  <2>2. pool \in SUBSET Vote /\ votes \in SUBSET Vote
    BY <1>1, <1>5, <2>1 DEF Engine
  <2>3. t = [s EXCEPT !.pool = pool, !.votes = votes]
    BY <1>3, <2>1
  <2> QED
    BY <2>1, <2>2, <2>3, Zenon DEF Engine
<1>8. RemembersVotes(n, t)
  BY <1>0, <1>1, <1>6, <1>7 DEF EngineInv, RemembersVotes, Engine
<1> QED
  BY <1>0, <1>1, <1>2, <1>4, <1>5, <1>7, <1>8 DEF EngineInv, HasCast

---------------------------------------------------------------------------
(* Finalization by an engine that does not restart *)

\* Finalizing casts no vote.
LEMMA ProcessCommittedBlock ==
    ASSUME NEW n \in Validators, NEW s \in Engine, EngineInv(n, s),
           NEW id \in Proposal, NEW order \in Orders,
           NEW t, t = process_committed_block(s, id, order)
    PROVE  EngineInv(n, t) /\ t.votes = s.votes /\ t.pool = s.pool
<1> DEFINE att == attestations(s, id, order)
           block == [round |-> id.round, nonce |-> id.nonce, att |-> att]
<1>1. block \in Block
  BY AttestationsType DEF Block, Proposal
<1>2. CASE id \in Elements(s.pending)
  <2>1. remove_first(s.pending, id) \in Seq(Proposal)
    BY <1>2, RemoveFirst DEF Engine
  <2>2. PICK u : u = [s EXCEPT !.pending = remove_first(s.pending, id)]
    BY Zenon
  <2>3. /\ u \in Engine /\ EngineInv(n, u)
        /\ u.votes = s.votes /\ u.pool = s.pool
    BY <2>1, <2>2, Zenon DEF EngineInv, RemembersVotes, Engine
  <2>4. t = commit_finalized_block_with_proof(u, id, att)
    BY <1>2, <2>2 DEF process_committed_block
  <2>5. \/ t = u
        \/ t = [u EXCEPT !.chain = Append(u.chain, block)]
        \/ t = [u EXCEPT !.up = FALSE]
    BY <2>4, Zenon DEF commit_finalized_block_with_proof
  <2> HIDE DEF block
  <2>6. CASE t = u
    BY <2>3, <2>6
  <2>7. CASE t = [u EXCEPT !.chain = Append(u.chain, block)]
    <3>1. PICK c : c = Append(u.chain, block)
      BY Zenon
    <3>2. c \in Chain /\ Len(c) = Len(u.chain) + 1 /\ Len(u.chain) \in Nat
      BY <1>1, <2>3, <3>1 DEF Engine, Chain
    <3>3. t = [u EXCEPT !.chain = c]
      BY <2>7, <3>1
    <3>4. /\ t \in Engine /\ t.chain = c
          /\ t.height = u.height /\ t.round = u.round /\ t.step = u.step
          /\ t.votes = u.votes /\ t.pool = u.pool
      BY <2>3, <3>2, <3>3, Zenon DEF Engine
    <3>5. u.height \in Nat /\ u.height <= Len(u.chain) + 1
      BY <2>3 DEF EngineInv, RemembersVotes, Engine
    <3>6. t.height <= Len(t.chain) + 1
      BY <3>2, <3>4, <3>5
    <3>7. RemembersVotes(n, t)
      BY <2>3, <3>4, <3>6, Zenon DEF EngineInv, RemembersVotes
    <3> QED
      BY <2>3, <3>4, <3>7 DEF EngineInv
  <2>8. CASE t = [u EXCEPT !.up = FALSE]
    BY <2>3, <2>8, Zenon DEF EngineInv, RemembersVotes, Engine
  <2> QED
    BY <2>5, <2>6, <2>7, <2>8
<1>3. CASE id \notin Elements(s.pending) /\ id \in Elements(s.proposals)
  BY <1>3 DEF process_committed_block
<1>4. CASE id \notin Elements(s.pending) /\ id \notin Elements(s.proposals)
  <2>1. t = [s EXCEPT !.up = FALSE]
    BY <1>4 DEF process_committed_block
  <2> QED
    BY <2>1, Zenon DEF EngineInv, RemembersVotes, Engine
<1> QED
  BY <1>2, <1>3, <1>4

\* maybe_finalize leaves votes and pool alone and never moves the view back.
LEMMA MaybeFinalize ==
    ASSUME NEW n \in Validators, NEW s \in Engine, EngineInv(n, s), NEW height,
           NEW id \in Proposal, NEW order \in Orders,
           NEW t, t = maybe_finalize(s, height, id, order)
    PROVE  EngineInv(n, t) /\ t.votes = s.votes /\ t.pool = s.pool
<1>1. PICK u : u = [s EXCEPT !.step = Commit]
  BY Zenon
<1>2. Commit \in Steps \ {Propose}
  BY DEF Steps, Commit, Propose
<1>3. u \in Engine /\ EngineInv(n, u) /\ u.votes = s.votes /\ u.pool = s.pool
  BY <1>1, <1>2, StepUp
<1>4. t = s \/ t = process_committed_block(u, id, order)
  BY <1>1 DEF maybe_finalize
<1> QED
  BY <1>3, <1>4, ProcessCommittedBlock

---------------------------------------------------------------------------
(* The steps of its rounds *)

\* Casting one vote of the given type at most.
CastsOne(n, s, t, vs, type) ==
    \/ t.votes = s.votes
    \/ \E v : /\ CanCast(n, s.votes, vs, v) /\ v.type = type
             /\ t.votes = s.votes \cup {v}

\* enter_prevote_step casts at most one vote, and it may be cast.
LEMMA EnterPrevote ==
    ASSUME NEW n \in Validators, NEW s \in Engine, EngineInv(n, s),
           NEW t, t = enter_prevote_step(n, s)
    PROVE  /\ t \in Engine /\ EngineInv(n, t)
           /\ t.pool \subseteq s.pool \cup t.votes
           /\ CastsOne(n, s, t, s.pool, PreVote)
<1>1. PICK u : u = [s EXCEPT !.step = PreVote]
  BY Zenon
<1>2. PreVote \in Steps \ {Propose}
  BY DEF Steps, PreVote, Propose, Commit
<1>3. /\ u \in Engine /\ EngineInv(n, u) /\ u.step = PreVote
      /\ u.votes = s.votes /\ u.pool = s.pool /\ u.height = s.height /\ u.round = s.round
  BY <1>1, <1>2, StepUp
<1>4. CASE t = s \/ t = u
  BY <1>3, <1>4 DEF CastsOne
<1>5. CASE ~(s.step >= PreVote) /\ s.proposals # <<>> /\ t = cast_vote(n, u, Head(s.proposals), PreVote)
  <2>1. Head(s.proposals) \in Proposal
    BY <1>5 DEF Engine
  <2>2. s.step = Propose
    BY <1>5 DEF Engine, Steps, Propose, PreVote, Commit
  <2>3. \A w \in u.votes : VotePoolKey(w) # <<u.height, u.round, PreVote, n>>
    BY <1>3, <2>2 DEF VotePoolKey, EngineInv, RemembersVotes
  <2>4. PICK v : v = [height |-> u.height, round |-> u.round, type |-> PreVote,
                      voter |-> n, id |-> Head(s.proposals)]
    BY Zenon
  <2>5. PreVote \in VoteTypes /\ u.step # Propose
    BY <1>3 DEF VoteTypes, PreVote, Propose
  <2>6. /\ t \in Engine /\ EngineInv(n, t)
        /\ v \in Vote /\ v.voter = n /\ v.type = PreVote
        /\ \A w \in u.votes : VotePoolKey(w) # VotePoolKey(v)
        /\ t.votes = u.votes \cup {v}
        /\ t.pool \subseteq u.pool \cup {v}
    <3>1. MayVote(n, u, PreVote)
      BY <2>3, <2>5 DEF MayVote
    <3>2. v = OwnVote(n, u, Head(s.proposals), PreVote)
      BY <2>4 DEF OwnVote
    <3>3. HasCast(n, u, t, v, PreVote)
      BY <1>3, <1>5, <2>1, <3>1, <3>2, CastVote
    <3> QED
      BY <3>3 DEF HasCast
  <2> QED
    BY <1>3, <2>6 DEF CastsOne, CanCast
<1> QED
  BY <1>1, <1>4, <1>5 DEF enter_prevote_step

\* A supermajority of prevotes in the engine's pool supports the PreCommit.
LEMMA PrevotesSupport ==
    ASSUME NEW s, NEW v, v.type = PreCommit,
           check_supermajority(count_prevotes_for(s, v.height, v.round, v.id))
    PROVE  check_supermajority(Cardinality(Rules!Support(s.pool, v)))
<1>1. Rules!Support(s.pool, v) =
        {w \in s.pool : /\ w.height = v.height /\ w.round = v.round
                        /\ w.type = PreVote /\ w.id = v.id}
  BY DEF Rules!Support, Rules!PreVote, Rules!PreCommit, Rules!Commit,
         PreVote, PreCommit, Commit
<1> QED
  BY <1>1 DEF count_prevotes_for

\* The PreCommits that count_precommits_any_round counts support a Commit vote.
LEMMA PrecommitsSupport ==
    ASSUME NEW s, NEW v, v.type = Commit, v.height = s.height,
           check_supermajority(count_precommits_any_round(s, v.id))
    PROVE  check_supermajority(Cardinality(Rules!Support(s.pool, v)))
<1>1. Rules!Support(s.pool, v) =
        {w \in s.pool : /\ w.height = s.height
                        /\ w.type = PreCommit /\ w.id = v.id}
  BY DEF Rules!Support, Rules!PreVote, Rules!PreCommit, Rules!Commit,
         PreVote, PreCommit, Commit
<1> QED
  BY <1>1 DEF count_precommits_any_round

\* enter_precommit_step casts at most one vote, backed by the prevotes it counted.
LEMMA EnterPrecommit ==
    ASSUME NEW n \in Validators, NEW s \in Engine, EngineInv(n, s),
           NEW t, t = enter_precommit_step(n, s)
    PROVE  /\ t \in Engine /\ EngineInv(n, t)
           /\ t.pool \subseteq s.pool \cup t.votes
           /\ CastsOne(n, s, t, s.pool, PreCommit)
<1>1. PICK u : u = [s EXCEPT !.step = PreCommit]
  BY Zenon
<1>2. PreCommit \in Steps \ {Propose}
  BY DEF Steps, PreCommit, Propose, Commit
<1>3. /\ u \in Engine /\ EngineInv(n, u) /\ u.step = PreCommit
      /\ u.votes = s.votes /\ u.pool = s.pool /\ u.height = s.height /\ u.round = s.round
  BY <1>1, <1>2, StepUp
<1>4. PICK id : id = IF s.valid # None THEN s.valid ELSE first(s.proposals)
  OBVIOUS
<1>5. CASE t = s \/ t = u
  BY <1>3, <1>5 DEF CastsOne
<1>6. CASE /\ id # None
           /\ ~already_voted(n, s, PreCommit)
           /\ check_supermajority(count_prevotes_for(s, s.height, s.round, id))
           /\ t = [cast_vote(n, u, id, PreCommit) EXCEPT !.valid = id]
  <2>1. id \in Proposal
    <3>1. s.valid # None => s.valid \in Proposal
      BY DEF Engine
    <3>2. first(s.proposals) # None => first(s.proposals) \in Proposal
      BY DEF Engine, first
    <3> QED
      BY <1>4, <1>6, <3>1, <3>2
  <2>2. \A w \in u.votes : VotePoolKey(w) # <<u.height, u.round, PreCommit, n>>
    BY <1>3, <1>6 DEF already_voted, EngineInv, RemembersVotes
  <2>3. PICK v : v = [height |-> u.height, round |-> u.round, type |-> PreCommit,
                      voter |-> n, id |-> id]
    BY Zenon
  <2>4. PICK c : c = cast_vote(n, u, id, PreCommit)
    OBVIOUS
  <2>5. PreCommit \in VoteTypes /\ PreCommit # PreVote
    BY DEF VoteTypes, PreVote, PreCommit
  <2>6. /\ c \in Engine /\ EngineInv(n, c)
        /\ v \in Vote /\ v.voter = n /\ v.type = PreCommit
        /\ \A w \in u.votes : VotePoolKey(w) # VotePoolKey(v)
        /\ c.votes = u.votes \cup {v}
        /\ c.pool \subseteq u.pool \cup {v}
    <3>1. MayVote(n, u, PreCommit)
      BY <2>2, <2>5 DEF MayVote
    <3>2. v = OwnVote(n, u, id, PreCommit)
      BY <2>3 DEF OwnVote
    <3>3. HasCast(n, u, c, v, PreCommit)
      BY <1>3, <2>1, <2>4, <3>1, <3>2, CastVote
    <3> QED
      BY <3>3 DEF HasCast
  <2>7. t = [c EXCEPT !.valid = id]
    BY <1>6, <2>4
  <2>8. /\ t \in Engine /\ t.votes = c.votes /\ t.pool = c.pool /\ t.chain = c.chain
        /\ t.height = c.height /\ t.round = c.round /\ t.step = c.step
    BY <2>1, <2>6, <2>7, Zenon DEF Engine
  <2>9. EngineInv(n, t)
    BY <2>6, <2>8, SameView, Zenon
  <2>10. v.height = s.height /\ v.round = s.round /\ v.id = id
    BY <1>3, <2>3
  <2>11. check_supermajority(Cardinality(Rules!Support(s.pool, v)))
    BY <1>6, <2>6, <2>10, PrevotesSupport
  <2> QED
    BY <1>3, <2>6, <2>8, <2>9, <2>11 DEF CastsOne, CanCast
<1> QED
  BY <1>1, <1>4, <1>5, <1>6, Zenon DEF enter_precommit_step

\* enter_commit_step casts at most one vote, backed by the PreCommits it counted.
LEMMA EnterCommit ==
    ASSUME NEW n \in Validators, NEW s \in Engine, EngineInv(n, s),
           NEW order \in Orders, NEW t, t = enter_commit_step(n, s, order)
    PROVE  /\ t \in Engine /\ EngineInv(n, t)
           /\ t.pool \subseteq s.pool \cup t.votes
           /\ CastsOne(n, s, t, s.pool, Commit)
<1>1. PICK u : u = [s EXCEPT !.step = Commit]
  BY Zenon
<1>2. Commit \in Steps \ {Propose}
  BY DEF Steps, Propose, Commit
<1>3. /\ u \in Engine /\ EngineInv(n, u) /\ u.step = Commit
      /\ u.votes = s.votes /\ u.pool = s.pool /\ u.height = s.height /\ u.round = s.round
  BY <1>1, <1>2, StepUp
<1>4. PICK id : id = IF s.valid # None THEN s.valid ELSE s.locked
  OBVIOUS
<1>5. CASE t = u
  BY <1>3, <1>5, Zenon DEF CastsOne
<1>6. CASE /\ id # None
           /\ ~already_voted(n, s, Commit)
           /\ check_supermajority(count_precommits_any_round(s, id))
           /\ t = maybe_finalize(cast_vote(n, u, id, Commit), s.height, id, order)
  <2>1. id \in Proposal
    <3>1. s.valid \in Proposal \cup {None} /\ s.locked \in Proposal \cup {None}
      BY DEF Engine
    <3> QED
      BY <1>4, <1>6, <3>1
  <2>2. \A w \in u.votes : VotePoolKey(w) # <<u.height, u.round, Commit, n>>
    BY <1>3, <1>6 DEF already_voted, EngineInv, RemembersVotes
  <2>3. PICK v : v = [height |-> u.height, round |-> u.round, type |-> Commit,
                      voter |-> n, id |-> id]
    BY Zenon
  <2>4. PICK c : c = cast_vote(n, u, id, Commit)
    OBVIOUS
  <2>5. Commit \in VoteTypes /\ Commit # PreVote
    BY DEF VoteTypes, PreVote, Commit
  <2>6. /\ c \in Engine /\ EngineInv(n, c)
        /\ v \in Vote /\ v.voter = n /\ v.type = Commit
        /\ \A w \in u.votes : VotePoolKey(w) # VotePoolKey(v)
        /\ c.votes = u.votes \cup {v}
        /\ c.pool \subseteq u.pool \cup {v}
    <3>1. MayVote(n, u, Commit)
      BY <2>2, <2>5 DEF MayVote
    <3>2. v = OwnVote(n, u, id, Commit)
      BY <2>3 DEF OwnVote
    <3>3. HasCast(n, u, c, v, Commit)
      BY <1>3, <2>1, <2>4, <3>1, <3>2, CastVote
    <3> QED
      BY <3>3 DEF HasCast
  <2>7. EngineInv(n, t) /\ t.votes = c.votes /\ t.pool = c.pool
    BY <1>6, <2>1, <2>4, <2>6, MaybeFinalize
  <2>8. t \in Engine
    BY <2>7 DEF EngineInv
  <2>9. v.height = s.height /\ v.id = id
    BY <1>3, <2>3
  <2>10. check_supermajority(Cardinality(Rules!Support(s.pool, v)))
    BY <1>6, <2>6, <2>9, PrecommitsSupport
  <2> QED
    BY <1>3, <2>6, <2>7, <2>8, <2>10 DEF CastsOne, CanCast
<1> QED
  BY <1>1, <1>4, <1>5, <1>6, Zenon DEF enter_commit_step

\* A vote rests on more votes as well.
LEMMA CastsOneMonotone ==
    ASSUME NEW n, NEW s, NEW t, NEW type, NEW vs, NEW ws,
           vs \subseteq ws, IsFiniteSet(ws), CastsOne(n, s, t, vs, type)
    PROVE  CastsUpToTwo(n, s, t, ws)
<1>1. CASE t.votes = s.votes
  BY <1>1 DEF CastsUpToTwo
<1>2. CASE t.votes # s.votes
  <2>1. PICK v : CanCast(n, s.votes, vs, v) /\ t.votes = s.votes \cup {v}
    BY <1>2 DEF CastsOne
  <2>2. v.type # PreVote => check_supermajority(Cardinality(Rules!Support(ws, v)))
    BY <2>1, SupportGrows DEF CanCast
  <2> QED
    BY <2>1, <2>2 DEF CanCast, CastsUpToTwo
<1> QED
  BY <1>1, <1>2

\* enter_propose_step casts at most the PreVote for the new proposal.
LEMMA EnterPropose ==
    ASSUME NEW n \in Validators, NEW s \in Engine, EngineInv(n, s), NEW made,
           NEW t, t = enter_propose_step(n, s, made)
    PROVE  /\ t \in Engine /\ EngineInv(n, t)
           /\ t.pool \subseteq s.pool \cup t.votes
           /\ CastsOne(n, s, t, s.pool, PreVote)
<1>1. CASE t = s
  BY <1>1 DEF CastsOne
<1>2. PICK p : p = create_proposal(s)
  OBVIOUS
<1>3. PICK u : u = [s EXCEPT !.proposals = Append(@, p), !.pending = Append(@, p),
                             !.proposed = @ \cup {p}]
  OBVIOUS
<1>4. CASE t = enter_prevote_step(n, u)
  <2>1. p \in Proposal
    BY <1>2 DEF create_proposal, Proposal, Engine, Chain
  <2>2. PICK q, r, x : /\ q = Append(s.proposals, p) /\ r = Append(s.pending, p)
                       /\ x = s.proposed \cup {p}
    BY Zenon
  <2>3. q \in Seq(Proposal) /\ r \in Seq(Proposal) /\ x \in SUBSET Proposal
    BY <2>1, <2>2 DEF Engine
  <2>4. u = [s EXCEPT !.proposals = q, !.pending = r, !.proposed = x]
    BY <1>3, <2>2
  <2>5. /\ u \in Engine /\ u.votes = s.votes /\ u.pool = s.pool /\ u.chain = s.chain
        /\ u.height = s.height /\ u.round = s.round /\ u.step = s.step
    BY <2>3, <2>4, Zenon DEF Engine
  <2>6. EngineInv(n, u)
    BY <2>5, SameView
  <2>7. /\ t \in Engine /\ EngineInv(n, t)
        /\ t.pool \subseteq u.pool \cup t.votes
        /\ CastsOne(n, u, t, u.pool, PreVote)
    BY <1>4, <2>5, <2>6, EnterPrevote
  <2> QED
    BY <2>5, <2>7 DEF CastsOne
<1> QED
  BY <1>1, <1>2, <1>3, <1>4 DEF enter_propose_step

\* A later round or height keeps the invariant and casts no vote.
LEMMA StartRound ==
    ASSUME NEW n \in Validators, NEW s \in Engine, EngineInv(n, s),
           NEW h \in Nat, NEW r \in Nat, h <= Len(s.chain) + 1,
           h > s.height \/ (h = s.height /\ r > s.round),
           NEW t, t = start_round(s, h, r)
    PROVE  /\ t \in Engine /\ EngineInv(n, t)
           /\ t.votes = s.votes /\ t.pool = s.pool /\ t.chain = s.chain
           /\ t.height = h /\ t.round = r /\ t.step = Propose
<1>1. Propose \in Steps
  BY DEF Steps, Propose, Commit
<1>2. t = [s EXCEPT !.height = h, !.round = r, !.step = Propose,
                    !.proposals = <<>>, !.locked = None, !.valid = None]
  BY DEF start_round
<1>3. /\ t \in Engine
      /\ t.votes = s.votes /\ t.pool = s.pool /\ t.chain = s.chain
      /\ t.height = h /\ t.round = r /\ t.step = Propose
  <2>1. PICK x \in Steps, q \in Seq(Proposal), none \in Proposal \cup {None} :
             x = Propose /\ q = <<>> /\ none = None
    <3>1. <<>> \in Seq(Proposal) /\ None \in Proposal \cup {None}
      OBVIOUS
    <3> QED
      BY <1>1, <3>1, Zenon
  <2>2. t = [s EXCEPT !.height = h, !.round = r, !.step = x,
                      !.proposals = q, !.locked = none, !.valid = none]
    BY <1>2, <2>1
  <2> QED
    BY <2>1, <2>2, ZenonT(30) DEF Engine
<1>4. ASSUME NEW v \in t.votes
      PROVE  /\ v.voter = n
             /\ v.height < h \/ (v.height = h /\ v.round < r)
  <2>1. v \in Vote /\ v \in s.votes
    BY <1>3 DEF Engine
  <2>2. v.height \in Nat /\ v.round \in Nat
    BY <2>1 DEF Vote
  <2> QED
    BY <2>1, <2>2 DEF EngineInv, RemembersVotes, Engine
<1>5. \A v \in t.votes : v.height \in Nat /\ v.round \in Nat
  BY <1>3 DEF Engine, Vote
<1>6. RemembersVotes(n, t)
  BY <1>3, <1>4, <1>5 DEF EngineInv, RemembersVotes
<1> QED
  BY <1>3, <1>6 DEF EngineInv

---------------------------------------------------------------------------
(* The messages it gets *)

\* Admitting a proposal casts at most its PreVote and the PreCommit that follows.
LEMMA AdmitProposal ==
    ASSUME NEW n \in Validators, NEW s \in Engine, EngineInv(n, s),
           NEW p \in Proposal, NEW t, t = admit_proposal(n, s, p)
    PROVE  Sound(n, s, t, s.pool)
<1>0. IsFiniteSet(s.pool)
  BY DEF EngineInv
<1>1. PICK a : a = [s EXCEPT !.proposals = Append(@, p), !.pending = Append(@, p)]
  OBVIOUS
<1>2. /\ a \in Engine /\ a.votes = s.votes /\ a.pool = s.pool /\ a.chain = s.chain
      /\ a.height = s.height /\ a.round = s.round /\ a.step = s.step
  <2>1. PICK q, r : q = Append(s.proposals, p) /\ r = Append(s.pending, p)
    BY Zenon
  <2>2. q \in Seq(Proposal) /\ r \in Seq(Proposal)
    BY <2>1 DEF Engine
  <2>3. a = [s EXCEPT !.proposals = q, !.pending = r]
    BY <1>1, <2>1
  <2> QED
    BY <2>2, <2>3, Zenon DEF Engine
<1>3. EngineInv(n, a)
  BY <1>2, SameView
<1>4. PICK u : u = cast_vote(n, a, p, PreVote)
  OBVIOUS
<1>5. CASE t = enter_prevote_step(n, a)
  <2>1. /\ t \in Engine /\ EngineInv(n, t)
        /\ t.pool \subseteq a.pool \cup t.votes
        /\ CastsOne(n, a, t, a.pool, PreVote)
    BY <1>2, <1>3, <1>5, EnterPrevote
  <2>2. CastsUpToTwo(n, a, t, a.pool)
    BY <1>0, <1>2, <2>1, CastsOneMonotone
  <2> QED
    BY <1>2, <2>1, <2>2, Zenon DEF Sound, CastsUpToTwo
<1>6. CASE t = a
  BY <1>2, <1>3, <1>6 DEF Sound, CastsUpToTwo
<1>7. CASE /\ a.step = PreVote /\ ~already_voted(n, a, PreVote)
           /\ t = IF check_supermajority(count_prevotes_for(u, u.height, u.round, p))
                  THEN enter_precommit_step(n, [u EXCEPT !.valid = p])
                  ELSE u
  <2>1. PreVote \in VoteTypes /\ a.step # Propose
    BY <1>7 DEF VoteTypes, PreVote, Propose
  <2>2. \A w \in a.votes : VotePoolKey(w) # <<a.height, a.round, PreVote, n>>
    BY <1>3, <1>7 DEF already_voted, EngineInv, RemembersVotes
  <2>3. PICK v : v = [height |-> a.height, round |-> a.round, type |-> PreVote,
                      voter |-> n, id |-> p]
    BY Zenon
  <2>4. /\ u \in Engine /\ EngineInv(n, u)
        /\ v \in Vote /\ v.voter = n /\ v.type = PreVote
        /\ \A w \in a.votes : VotePoolKey(w) # VotePoolKey(v)
        /\ u.votes = a.votes \cup {v}
        /\ u.pool \subseteq a.pool \cup {v}
    <3>1. MayVote(n, a, PreVote)
      BY <2>1, <2>2 DEF MayVote
    <3>2. v = OwnVote(n, a, p, PreVote)
      BY <2>3 DEF OwnVote
    <3>3. HasCast(n, a, u, v, PreVote)
      BY <1>2, <1>3, <1>4, <3>1, <3>2, CastVote
    <3> QED
      BY <3>3 DEF HasCast
  <2>5. CanCast(n, s.votes, s.pool, v)
    BY <1>2, <2>4 DEF CanCast
  <2>6. CASE t = u
    BY <1>2, <2>4, <2>5, <2>6 DEF Sound, CastsUpToTwo
  <2>7. PICK b : b = [u EXCEPT !.valid = p]
    BY Zenon
  <2>8. /\ b \in Engine /\ b.votes = u.votes /\ b.pool = u.pool /\ b.chain = u.chain
        /\ b.height = u.height /\ b.round = u.round /\ b.step = u.step
    BY <2>4, <2>7, Zenon DEF Engine
  <2>9. EngineInv(n, b)
    BY <2>4, <2>8, SameView, Zenon
  <2>10. CASE t = enter_precommit_step(n, b)
    <3>1. /\ t \in Engine /\ EngineInv(n, t)
          /\ t.pool \subseteq b.pool \cup t.votes
          /\ CastsOne(n, b, t, b.pool, PreCommit)
      BY <2>8, <2>9, <2>10, EnterPrecommit
    <3>2. s.votes \cup {v} \subseteq t.votes
      BY <1>2, <2>4, <2>8, <3>1, Zenon DEF CastsOne
    <3>3. t.pool \subseteq s.pool \cup t.votes
      BY <1>2, <2>4, <2>8, <3>1, <3>2, Zenon
    <3>4. CASE t.votes = b.votes
      BY <1>2, <2>4, <2>5, <2>8, <3>1, <3>3, <3>4, Zenon DEF Sound, CastsUpToTwo
    <3>5. CASE t.votes # b.votes
      <4>1. PICK w : CanCast(n, b.votes, b.pool, w) /\ t.votes = b.votes \cup {w}
        BY <3>1, <3>5 DEF CastsOne
      <4>2. b.pool \subseteq s.pool \cup {v} /\ IsFiniteSet(s.pool \cup {v})
        BY <1>0, <1>2, <2>4, <2>8, FS_AddElement, Zenon
      <4>3. w.type # PreVote => check_supermajority(Cardinality(Rules!Support(s.pool \cup {v}, w)))
        BY <4>1, <4>2, SupportGrows, Zenon DEF CanCast
      <4>4. CanCast(n, s.votes \cup {v}, s.pool \cup {v}, w)
        BY <1>2, <2>4, <2>8, <4>1, <4>3, Zenon DEF CanCast
      <4>5. t.votes = s.votes \cup {v, w}
        BY <1>2, <2>4, <2>8, <4>1, Zenon
      <4> QED
        BY <2>5, <3>1, <3>3, <4>4, <4>5, Zenon DEF Sound, CastsUpToTwo
    <3> QED
      BY <3>4, <3>5
  <2> QED
    BY <1>7, <2>6, <2>7, <2>10
<1> QED
  BY <1>1, <1>4, <1>5, <1>6, <1>7 DEF admit_proposal

\* on_proposal is sound, with the jump to a later round or without it.
LEMMA OnProposal ==
    ASSUME NEW n \in Validators, NEW s \in Engine, EngineInv(n, s),
           NEW p \in Proposal, NEW t, t = on_proposal(n, s, p)
    PROVE  Sound(n, s, t, s.pool)
<1>1. PICK u : u = IF p.round > s.round THEN start_round(s, s.height, p.round) ELSE s
  OBVIOUS
<1>2. u \in Engine /\ EngineInv(n, u) /\ u.votes = s.votes /\ u.pool = s.pool
  <2>1. CASE ~(p.round > s.round)
    BY <1>1, <2>1
  <2>2. CASE p.round > s.round
    <3>1. s.height \in Nat /\ p.round \in Nat
      BY DEF Engine, Proposal
    <3>2. s.height <= Len(s.chain) + 1
      BY DEF EngineInv, RemembersVotes
    <3>3. u = start_round(s, s.height, p.round)
      BY <1>1, <2>2
    <3> QED
      BY <2>2, <3>1, <3>2, <3>3, StartRound
  <2> QED
    BY <2>1, <2>2, Zenon
<1>3. CASE t = s
  BY <1>3 DEF Sound, CastsUpToTwo
<1>4. CASE t = u
  BY <1>2, <1>4 DEF Sound, CastsUpToTwo
<1>5. CASE t = admit_proposal(n, u, p)
  <2>1. Sound(n, u, t, u.pool)
    BY <1>2, <1>5, AdmitProposal
  <2> QED
    BY <1>2, <2>1, Zenon DEF Sound, CastsUpToTwo
<1> QED
  BY <1>1, <1>3, <1>4, <1>5, Zenon DEF on_proposal

\* Storing a received vote whose key is not in the pool.
LEMMA AddVote ==
    ASSUME NEW n \in Validators, NEW s \in Engine, EngineInv(n, s),
           NEW v \in Vote, ~known_vote(s, v), NEW t, t = add_vote(s, v)
    PROVE  /\ t \in Engine /\ EngineInv(n, t)
           /\ t.votes = s.votes /\ t.pool \subseteq s.pool \cup {v}
<1>1. PICK pool : pool = insert_vote(s.pool, v)
  OBVIOUS
<1>2. pool = s.pool \cup {v}
  BY <1>1 DEF insert_vote, known_vote
<1>3. IsFiniteSet(pool)
  BY <1>2, FS_AddElement DEF EngineInv
<1>4. pool \in SUBSET Vote
  BY <1>2 DEF Engine
<1>5. t = [s EXCEPT !.pool = pool]
  BY <1>1 DEF add_vote
<1>6. /\ t \in Engine /\ t.pool = pool /\ t.votes = s.votes /\ t.chain = s.chain
      /\ t.height = s.height /\ t.round = s.round /\ t.step = s.step
  BY <1>4, <1>5, Zenon DEF Engine
<1>7. RemembersVotes(n, t)
  BY <1>2, <1>6 DEF EngineInv, RemembersVotes
<1> QED
  BY <1>2, <1>3, <1>6, <1>7 DEF EngineInv

\* on_prevote is sound: what it casts is backed by its pool and the new vote.
LEMMA OnPrevote ==
    ASSUME NEW n \in Validators, NEW s \in Engine, EngineInv(n, s),
           NEW v \in Vote, NEW order \in Orders, NEW t, t = on_prevote(n, s, v, order)
    PROVE  Sound(n, s, t, s.pool \cup {v})
<1>0. IsFiniteSet(s.pool \cup {v})
  BY FS_AddElement DEF EngineInv
<1>1. CASE t = s
  BY <1>1, Zenon DEF Sound, CastsUpToTwo
<1>2. CASE ~known_vote(s, v) /\ t # s
  <2>1. PICK a : a = add_vote(s, v)
    OBVIOUS
  <2>2. /\ a \in Engine /\ EngineInv(n, a)
        /\ a.votes = s.votes /\ a.pool \subseteq s.pool \cup {v}
    BY <1>2, <2>1, AddVote, Zenon
  <2>3. v.id \in Proposal
    BY DEF Vote
  <2>4. CASE t = a
    BY <2>2, <2>4 DEF Sound, CastsUpToTwo
  <2>5. CASE t = maybe_finalize(a, v.height, v.id, order)
    <3>1. EngineInv(n, t) /\ t.votes = a.votes /\ t.pool = a.pool
      BY <2>2, <2>3, <2>5, MaybeFinalize
    <3> QED
      BY <2>2, <3>1 DEF Sound, CastsUpToTwo
  <2>6. PICK b : b = [a EXCEPT !.valid = v.id]
    BY Zenon
  <2>7. PICK c : c = enter_precommit_step(n, b)
    OBVIOUS
  <2>8. CASE t = maybe_finalize(c, v.height, v.id, order)
    <3>1. PICK id \in Proposal : id = v.id
      BY <2>3
    <3>2. b = [a EXCEPT !.valid = id]
      BY <2>6, <3>1
    <3>3. /\ b \in Engine /\ b.votes = a.votes /\ b.pool = a.pool /\ b.chain = a.chain
          /\ b.height = a.height /\ b.round = a.round /\ b.step = a.step
      BY <2>2, <3>2, Zenon DEF Engine
    <3>4. EngineInv(n, b)
      BY <2>2, <3>3, SameView
    <3>5. /\ c \in Engine /\ EngineInv(n, c)
          /\ c.pool \subseteq b.pool \cup c.votes
          /\ CastsOne(n, b, c, b.pool, PreCommit)
      BY <2>7, <3>3, <3>4, EnterPrecommit
    <3>6. EngineInv(n, t) /\ t.votes = c.votes /\ t.pool = c.pool
      BY <2>3, <2>8, <3>5, MaybeFinalize
    <3>7. CastsUpToTwo(n, b, c, s.pool \cup {v})
      BY <1>0, <2>2, <3>3, <3>5, CastsOneMonotone
    <3> QED
      BY <2>2, <3>3, <3>5, <3>6, <3>7, Zenon DEF Sound, CastsUpToTwo
  <2> QED
    BY <1>2, <2>1, <2>4, <2>5, <2>6, <2>7, <2>8 DEF on_prevote
<1>3. t = s \/ ~known_vote(s, v)
  BY DEF on_prevote
<1> QED
  BY <1>1, <1>2, <1>3

\* on_precommit is sound: what it casts is backed by its pool and the new vote.
LEMMA OnPrecommit ==
    ASSUME NEW n \in Validators, NEW s \in Engine, EngineInv(n, s),
           NEW v \in Vote, NEW order \in Orders, NEW t, t = on_precommit(n, s, v, order)
    PROVE  Sound(n, s, t, s.pool \cup {v})
<1>0. IsFiniteSet(s.pool \cup {v})
  BY FS_AddElement DEF EngineInv
<1>1. CASE t = s
  BY <1>1 DEF Sound, CastsUpToTwo
<1>2. CASE ~known_vote(s, v) /\ t # s
  <2>1. PICK a : a = add_vote(s, v)
    OBVIOUS
  <2>2. /\ a \in Engine /\ EngineInv(n, a)
        /\ a.votes = s.votes /\ a.pool \subseteq s.pool \cup {v}
    BY <1>2, <2>1, AddVote
  <2>3. v.id \in Proposal
    BY DEF Vote
  <2>4. CASE t = a
    BY <2>2, <2>4 DEF Sound, CastsUpToTwo
  <2>5. CASE t = maybe_finalize(a, v.height, v.id, order)
    <3>1. EngineInv(n, t) /\ t.votes = a.votes /\ t.pool = a.pool
      BY <2>2, <2>3, <2>5, MaybeFinalize
    <3> QED
      BY <2>2, <3>1 DEF Sound, CastsUpToTwo
  <2>6. PICK b : b = [a EXCEPT !.locked = v.id]
    BY Zenon
  <2>7. PICK c : c = enter_commit_step(n, b, order)
    OBVIOUS
  <2>8. CASE t = maybe_finalize(c, v.height, v.id, order)
    <3>1. PICK id \in Proposal : id = v.id
      BY <2>3
    <3>2. b = [a EXCEPT !.locked = id]
      BY <2>6, <3>1
    <3>3. /\ b \in Engine /\ b.votes = a.votes /\ b.pool = a.pool /\ b.chain = a.chain
          /\ b.height = a.height /\ b.round = a.round /\ b.step = a.step
      BY <2>2, <3>2, Zenon DEF Engine
    <3>4. EngineInv(n, b)
      BY <2>2, <3>3, SameView
    <3>5. /\ c \in Engine /\ EngineInv(n, c)
          /\ c.pool \subseteq b.pool \cup c.votes
          /\ CastsOne(n, b, c, b.pool, Commit)
      BY <2>7, <3>3, <3>4, EnterCommit
    <3>6. EngineInv(n, t) /\ t.votes = c.votes /\ t.pool = c.pool
      BY <2>3, <2>8, <3>5, MaybeFinalize
    <3>7. CastsUpToTwo(n, b, c, s.pool \cup {v})
      BY <1>0, <2>2, <3>3, <3>5, CastsOneMonotone
    <3> QED
      BY <2>2, <3>3, <3>5, <3>6, <3>7, Zenon DEF Sound, CastsUpToTwo
  <2> QED
    BY <1>2, <2>1, <2>4, <2>5, <2>6, <2>7, <2>8 DEF on_precommit
<1>3. t = s \/ ~known_vote(s, v)
  BY DEF on_precommit
<1> QED
  BY <1>1, <1>2, <1>3

\* Every vote message is handled soundly.
LEMMA OnMessageVote ==
    ASSUME NEW n \in Validators, NEW s \in Engine, EngineInv(n, s),
           NEW v \in Vote, NEW order \in Orders, NEW t, t = on_message_vote(n, s, v, order)
    PROVE  Sound(n, s, t, s.pool \cup {v})
<1>1. CASE t = s
  BY <1>1 DEF Sound, CastsUpToTwo
<1>2. CASE ~known_vote(s, v) /\ t = maybe_finalize(add_vote(s, v), v.height, v.id, order)
  <2>1. PICK a : a = add_vote(s, v)
    OBVIOUS
  <2>2. /\ a \in Engine /\ EngineInv(n, a)
        /\ a.votes = s.votes /\ a.pool \subseteq s.pool \cup {v}
    BY <1>2, <2>1, AddVote
  <2>3. v.id \in Proposal
    BY DEF Vote
  <2>4. EngineInv(n, t) /\ t.votes = a.votes /\ t.pool = a.pool
    BY <1>2, <2>1, <2>2, <2>3, MaybeFinalize
  <2> QED
    BY <2>2, <2>4 DEF Sound, CastsUpToTwo
<1> QED
  BY <1>1, <1>2, OnPrevote, OnPrecommit DEF on_message_vote, on_commit_vote

---------------------------------------------------------------------------
(* Its timers and its start *)

\* on_round_timeout is sound in each of the four steps.
LEMMA OnRoundTimeout ==
    ASSUME NEW n \in Validators, NEW s \in Engine, EngineInv(n, s), NEW made,
           NEW order \in Orders, NEW t, t = on_round_timeout(n, s, made, order)
    PROVE  Sound(n, s, t, s.pool)
<1>0. IsFiniteSet(s.pool)
  BY DEF EngineInv
<1>1. CASE t = enter_prevote_step(n, s)
  BY <1>0, <1>1, EnterPrevote, CastsOneMonotone DEF Sound
<1>2. CASE t = enter_precommit_step(n, s)
  BY <1>0, <1>2, EnterPrecommit, CastsOneMonotone DEF Sound
<1>3. CASE t = enter_commit_step(n, s, order)
  BY <1>0, <1>3, EnterCommit, CastsOneMonotone DEF Sound
<1>4. CASE t = enter_propose_step(n, next_round(s), made)
  <2>1. PICK h : h = Len(s.chain) + 1
    OBVIOUS
  <2>2. PICK r : r = IF h = s.height THEN s.round + 1 ELSE 0
    OBVIOUS
  <2>3. /\ h \in Nat /\ s.height \in Nat /\ s.round \in Nat /\ Len(s.chain) \in Nat
        /\ s.height <= h
    BY <2>1 DEF Engine, Chain, EngineInv, RemembersVotes
  <2>4. r \in Nat /\ (h > s.height \/ (h = s.height /\ r > s.round))
    BY <2>2, <2>3
  <2>5. PICK u : u = start_round(s, h, r)
    OBVIOUS
  <2>6. u = next_round(s)
    BY <2>1, <2>2, <2>5 DEF next_round, sync_height_with_blockchain
  <2>7. h <= Len(s.chain) + 1
    BY <2>1, <2>3
  <2>8. u \in Engine /\ EngineInv(n, u) /\ u.votes = s.votes /\ u.pool = s.pool
    BY <2>3, <2>4, <2>5, <2>7, StartRound
  <2>9. /\ t \in Engine /\ EngineInv(n, t)
        /\ t.pool \subseteq u.pool \cup t.votes
        /\ CastsOne(n, u, t, u.pool, PreVote)
    BY <1>4, <2>6, <2>8, EnterPropose
  <2>10. CastsUpToTwo(n, u, t, s.pool)
    BY <1>0, <2>8, <2>9, CastsOneMonotone
  <2> QED
    BY <2>8, <2>9, <2>10, Zenon DEF Sound, CastsUpToTwo
<1> QED
  BY <1>1, <1>2, <1>3, <1>4 DEF on_round_timeout

\* An engine that starts for the first time casts at most its PreVote as proposer.
LEMMA FirstStart ==
    ASSUME NEW n \in Validators, NEW made, NEW t, t = start_engine(n, blank, made)
    PROVE  /\ t \in Engine /\ EngineInv(n, t)
           /\ t.pool \subseteq t.votes
           /\ CastsOne(n, blank, t, {}, PreVote)
<1>1. /\ blank \in Engine /\ blank.votes = {} /\ blank.pool = {} /\ blank.chain = <<>>
      /\ blank.height = 0 /\ blank.round = 0
  <2>1. blank.step \in Steps /\ blank.starts \in Nat /\ blank.chain \in Chain
    BY DEF blank, Steps, Propose, Commit, Chain
  <2>2. blank.proposals \in Seq(Proposal) /\ blank.pending \in Seq(Proposal)
    BY DEF blank
  <2> QED
    BY <2>1, <2>2 DEF blank, Engine
<1>2. EngineInv(n, blank)
  BY <1>1, FS_EmptySet DEF EngineInv, RemembersVotes
<1>3. PICK a : a = start_round(blank, 1, 0)
  OBVIOUS
<1>4. Len(blank.chain) = 0
  BY <1>1
<1>5. a \in Engine /\ EngineInv(n, a) /\ a.votes = {} /\ a.pool = {}
  BY <1>1, <1>2, <1>3, <1>4, StartRound
<1>6. PICK b : b = [a EXCEPT !.pool = {}, !.pending = <<>>, !.up = TRUE, !.starts = @ + 1]
  OBVIOUS
<1>7. /\ b \in Engine /\ b.votes = a.votes /\ b.pool = a.pool /\ b.chain = a.chain
      /\ b.height = a.height /\ b.round = a.round /\ b.step = a.step
  <2>1. a.starts + 1 \in Nat
    BY <1>5 DEF Engine
  <2>2. <<>> \in Seq(Proposal) /\ {} \in SUBSET Vote /\ TRUE \in BOOLEAN
    OBVIOUS
  <2>3. PICK pool \in SUBSET Vote, q \in Seq(Proposal), up \in BOOLEAN, k \in Nat :
             pool = {} /\ q = <<>> /\ up = TRUE /\ k = a.starts + 1
    BY <2>1, <2>2, Zenon
  <2>4. b = [a EXCEPT !.pool = pool, !.pending = q, !.up = up, !.starts = k]
    BY <1>6, <2>3
  <2> QED
    BY <1>5, <2>3, <2>4, Zenon DEF Engine
<1>8. EngineInv(n, b)
  BY <1>5, <1>7, SameView
<1>9. t = enter_propose_step(n, b, made)
  BY <1>3, <1>4, <1>6 DEF start_engine, sync_height_with_blockchain
<1>10. /\ t \in Engine /\ EngineInv(n, t)
       /\ t.pool \subseteq b.pool \cup t.votes
       /\ CastsOne(n, b, t, b.pool, PreVote)
  BY <1>7, <1>8, <1>9, EnterPropose
<1> QED
  BY <1>1, <1>5, <1>7, <1>10 DEF CastsOne

---------------------------------------------------------------------------
(* The engines together *)

\* The inductive invariant: every engine keeps its own, and stores only votes
\* that somebody cast.
NetInv ==
    /\ TypeOK
    /\ \A n \in Running : EngineInv(n, node[n]) /\ node[n].pool \subseteq Votes
    /\ IsFiniteSet(Votes)

\* Everything broadcast is a vote.
LEMMA VotesTyped == TypeOK => Votes \subseteq Vote
BY DEF TypeOK, Votes, Engine

\* VotingRules takes its data from ConsensusEngine.
LEMMA SameVote == Rules!Vote = Vote
BY Zenon DEF Rules!Vote, Rules!VoteTypes, Rules!PreVote, Rules!PreCommit, Rules!Commit,
       Rules!Validators, Rules!Proposal, Rules!Chain, Rules!Block, Rules!Attestation,
       Vote, VoteTypes, PreVote, PreCommit, Commit, Validators, Proposal, Chain, Block,
       Attestation

\* The instance counts as this module does.
LEMMA SameCardinality == \A S : Rules!Cardinality(S) = Cardinality(S)
BY Zenon DEF Rules!Cardinality, Cardinality, Rules!IsFiniteSet, IsFiniteSet

\* The instance means the same by a finite set.
LEMMA SameIsFiniteSet == \A S : Rules!IsFiniteSet(S) <=> IsFiniteSet(S)
BY Zenon DEF Rules!IsFiniteSet, IsFiniteSet

\* What an engine may do with its own votes is what the rules allow.
LEMMA CanCastMayCast ==
    ASSUME NetInv, NEW n \in Running, NEW x, NEW vs, NEW v,
           CanCast(n, node[n].votes \cup x, vs, v), vs \subseteq Votes \cup x,
           IsFiniteSet(x)
    PROVE  Rules!MayCast(Votes \cup x, v)
<1>1. IsFiniteSet(Votes \cup x)
  BY FS_Union, Zenon DEF NetInv
<1>2. v.type # PreVote => check_supermajority(Cardinality(Rules!Support(Votes \cup x, v)))
  BY <1>1, SupportGrows DEF CanCast
<1>3. ASSUME NEW w \in Votes \cup x
      PROVE  VotePoolKey(w) # VotePoolKey(v)
  <2>1. CASE w \in x
    BY <2>1 DEF CanCast
  <2>2. CASE w \in Votes
    <3>1. PICK m \in Running : w \in node[m].votes
      BY <2>2 DEF Votes
    <3>2. w.voter = m
      BY <3>1 DEF NetInv, EngineInv, RemembersVotes
    <3>3. CASE m = n
      BY <3>1, <3>3 DEF CanCast
    <3>4. CASE m # n
      <4>1. v.voter # w.voter
        BY <3>2, <3>4 DEF CanCast
      <4> QED
        BY <4>1 DEF VotePoolKey
    <3> QED
      BY <3>3, <3>4
  <2> QED
    BY <2>1, <2>2
<1>4. v \in Vote
  BY DEF CanCast
<1>5. v \in Rules!Vote
  BY <1>4, SameVote
<1>6. \A w \in Votes \cup x : Rules!VotePoolKey(w) # Rules!VotePoolKey(v)
  BY <1>3 DEF VotePoolKey, Rules!VotePoolKey
<1>7. v.type # Rules!PreVote
        => Rules!check_supermajority(Rules!Cardinality(Rules!Support(Votes \cup x, v)))
  BY <1>2, SameCardinality DEF PreVote, check_supermajority, has_supermajority, meets_threshold,
              BFT_SUPERMAJORITY_BPS, Rules!PreVote, Rules!check_supermajority,
              Rules!has_supermajority, Rules!meets_threshold, Rules!BFT_SUPERMAJORITY_BPS
<1> QED
  BY <1>5, <1>6, <1>7 DEF Rules!MayCast

\* One engine takes a sound step that knows only votes somebody cast.
LEMMA SoundStep ==
    ASSUME NetInv, NEW n \in Running, NEW t, NEW vs \in SUBSET Votes,
           Sound(n, node[n], t, vs), node' = [node EXCEPT ![n] = t]
    PROVE  NetInv' /\ (Rules!Next \/ UNCHANGED Votes)
<1>1. /\ t \in Engine /\ node' \in [Running -> Engine]
      /\ node'[n] = t /\ \A m \in Running : m # n => node'[m] = node[m]
  BY DEF NetInv, TypeOK, Sound, EngineInv
<1>2. node[n].votes \subseteq t.votes
  BY Zenon DEF Sound, CastsUpToTwo
<1>3. Votes' = Votes \cup t.votes
  BY <1>1, <1>2 DEF Votes
<1>4. CASE t.votes = node[n].votes
  <2>1. UNCHANGED Votes
    BY <1>3, <1>4 DEF Votes
  <2> QED
    BY <1>1, <1>3, <2>1, Zenon DEF NetInv, TypeOK, Sound
<1>5. CASE \E v : CanCast(n, node[n].votes, vs, v) /\ t.votes = node[n].votes \cup {v}
  <2>1. PICK v : CanCast(n, node[n].votes, vs, v) /\ t.votes = node[n].votes \cup {v}
    BY <1>5
  <2>2. Votes' = Votes \cup {v}
    BY <1>3, <2>1 DEF Votes
  <2>3. Rules!MayCast(Votes, v)
    <3>1. node[n].votes \cup {} = node[n].votes /\ Votes \cup {} = Votes
      OBVIOUS
    <3>2. CanCast(n, node[n].votes \cup {}, vs, v)
      BY <2>1, <3>1
    <3>3. Rules!MayCast(Votes \cup {}, v)
      BY <3>2, CanCastMayCast, FS_EmptySet
    <3> QED
      BY <3>1, <3>3
  <2>4. v \notin Votes
    BY <2>3 DEF Rules!MayCast
  <2>5. Rules!CastOne
    BY <2>2, <2>3, <2>4 DEF Rules!CastOne
  <2>6. IsFiniteSet(Votes')
    BY <2>2, FS_AddElement DEF NetInv
  <2> QED
    BY <1>1, <1>3, <2>5, <2>6 DEF NetInv, TypeOK, Sound, Rules!Next
<1>6. CASE \E v, w : /\ CanCast(n, node[n].votes, vs, v)
                     /\ CanCast(n, node[n].votes \cup {v}, vs \cup {v}, w)
                     /\ t.votes = node[n].votes \cup {v, w}
  <2>1. PICK v, w : /\ CanCast(n, node[n].votes, vs, v)
                    /\ CanCast(n, node[n].votes \cup {v}, vs \cup {v}, w)
                    /\ t.votes = node[n].votes \cup {v, w}
    BY <1>6, Zenon
  <2>2. Votes' = Votes \cup {v, w}
    BY <1>3, <2>1 DEF Votes
  <2>3. Rules!MayCast(Votes, v)
    <3>1. node[n].votes \cup {} = node[n].votes /\ Votes \cup {} = Votes
      OBVIOUS
    <3>2. CanCast(n, node[n].votes \cup {}, vs, v)
      BY <2>1, <3>1
    <3>3. Rules!MayCast(Votes \cup {}, v)
      BY <3>2, CanCastMayCast, FS_EmptySet
    <3> QED
      BY <3>1, <3>3
  <2>4. Rules!MayCast(Votes \cup {v}, w)
    <3>1. IsFiniteSet({v}) /\ vs \cup {v} \subseteq Votes \cup {v}
      BY FS_Singleton, Zenon
    <3>2. CanCast(n, node[n].votes \cup {v}, vs \cup {v}, w)
      BY <2>1
    <3> QED
      BY <3>1, <3>2, CanCastMayCast
  <2>5. v \notin Votes /\ w \notin Votes
    BY <2>3, <2>4 DEF Rules!MayCast
  <2>6. Rules!CastTwo
    BY <2>2, <2>3, <2>4, <2>5 DEF Rules!CastTwo
  <2>7. IsFiniteSet(Votes')
    <3>1. IsFiniteSet((Votes \cup {v}) \cup {w})
      BY FS_AddElement, Zenon DEF NetInv
    <3>2. (Votes \cup {v}) \cup {w} = Votes'
      BY <2>2
    <3> QED
      BY <3>1, <3>2
  <2> QED
    BY <1>1, <1>3, <2>6, <2>7 DEF NetInv, TypeOK, Sound, Rules!Next
<1> QED
  BY <1>4, <1>5, <1>6, Zenon DEF Sound, CastsUpToTwo

---------------------------------------------------------------------------
(* Initial state and steps *)

\* The engines start in the invariant, and their first PreVotes are initial votes of the rules.
LEMMA InitNetInv == Init => NetInv /\ Rules!Init
<1> SUFFICES ASSUME Init PROVE NetInv /\ Rules!Init
  OBVIOUS
<1>1. ASSUME NEW n \in Running
      PROVE  /\ node[n] \in Engine /\ EngineInv(n, node[n])
             /\ node[n].pool \subseteq node[n].votes
             /\ \A v, w \in node[n].votes : v = w
             /\ \A v \in node[n].votes : v \in Vote /\ v.type = PreVote /\ v.voter = n
             /\ IsFiniteSet(node[n].votes)
  <2>1. n \in Validators /\ node[n] = start_engine(n, blank, TRUE)
    BY RunningAssumption DEF Init
  <2>2. /\ node[n] \in Engine /\ EngineInv(n, node[n])
        /\ node[n].pool \subseteq node[n].votes
        /\ CastsOne(n, blank, node[n], {}, PreVote)
    BY <2>1, FirstStart, Zenon
  <2>3. blank.votes = {}
    BY DEF blank
  <2>4. CASE node[n].votes = {}
    BY <2>2, <2>4, FS_EmptySet
  <2>5. CASE \E v : /\ CanCast(n, {}, {}, v) /\ v.type = PreVote
                    /\ node[n].votes = {v}
    BY <2>2, <2>5, FS_Singleton, Zenon DEF CanCast
  <2> QED
    BY <2>2, <2>3, <2>4, <2>5 DEF CastsOne
<1>2. TypeOK
  BY <1>1, Zenon DEF TypeOK, Init
<1>3. \A n \in Running : node[n].pool \subseteq Votes
  BY <1>1 DEF Votes
<1>4. IsFiniteSet(Votes)
  <2> DEFINE g == [n \in Running |-> node[n].votes]
             T == {node[n].votes : n \in Running}
  <2>1. IsFiniteSet(Running)
    <3>1. IsFiniteSet(Validators)
      BY NAssumption, FS_Interval DEF Validators
    <3> QED
      BY <3>1, RunningAssumption, FS_Subset
  <2>2. g \in Surjection(Running, T)
    BY DEF Surjection
  <2>3. IsFiniteSet(T)
    BY <2>1, <2>2, FS_Surjection
  <2>4. \A S \in T : IsFiniteSet(S)
    BY <1>1
  <2> HIDE DEF T
  <2>5. IsFiniteSet(UNION T)
    BY <2>3, <2>4, FS_UNION
  <2> QED
    BY <2>5 DEF Votes, T
<1>5. \A v \in Votes : v \in Vote /\ v.type = PreVote
  BY <1>1 DEF Votes
<1>6. \A v, w \in Votes : v.voter = w.voter => v = w
  BY <1>1 DEF Votes
<1>7. \A v, w \in Votes : Rules!VotePoolKey(v) = Rules!VotePoolKey(w) => v = w
  BY <1>6 DEF Rules!VotePoolKey
<1>8. Rules!Init
  BY <1>4, <1>5, <1>7, SameVote, SameIsFiniteSet DEF Rules!Init, Rules!PreVote, PreVote
<1> QED
  BY <1>1, <1>2, <1>3, <1>4, <1>8 DEF NetInv

\* Every step keeps the invariant and is a step of the voting rules, one case per action.
LEMMA NextNetInv == NetInv /\ [Next]_node => NetInv' /\ [Rules!Next]_Votes
<1> SUFFICES ASSUME NetInv, [Next]_node
             PROVE  NetInv' /\ (Rules!Next \/ UNCHANGED Votes)
  OBVIOUS
<1>0. \A n \in Running : /\ n \in Validators /\ node[n] \in Engine
                          /\ EngineInv(n, node[n]) /\ node[n].pool \subseteq Votes
  BY RunningAssumption DEF NetInv, TypeOK
<1>1. ASSUME NEW n \in Running, ReceiveProposal(n)
      PROVE  NetInv' /\ (Rules!Next \/ UNCHANGED Votes)
  <2>1. PICK p \in Proposals : Step(n, on_proposal(n, node[n], p))
    BY <1>1 DEF ReceiveProposal
  <2>2. p \in Proposal
    BY <1>0 DEF Proposals, Engine
  <2>3. PICK t : t = on_proposal(n, node[n], p)
    OBVIOUS
  <2>4. Sound(n, node[n], t, node[n].pool)
    BY <1>0, <2>2, <2>3, OnProposal
  <2> QED
    BY <1>0, <2>1, <2>3, <2>4, SoundStep, Zenon DEF Step
<1>2. ASSUME NEW n \in Running, ReceiveVote(n)
      PROVE  NetInv' /\ (Rules!Next \/ UNCHANGED Votes)
  <2>1. PICK v \in Votes, order \in Orders : Step(n, on_message_vote(n, node[n], v, order))
    BY <1>2 DEF ReceiveVote
  <2>2. v \in Vote
    BY VotesTyped DEF NetInv
  <2>3. PICK t : t = on_message_vote(n, node[n], v, order)
    OBVIOUS
  <2>4. Sound(n, node[n], t, node[n].pool \cup {v})
    BY <1>0, <2>2, <2>3, OnMessageVote
  <2>5. node[n].pool \cup {v} \in SUBSET Votes
    BY <1>0
  <2> QED
    BY <2>1, <2>3, <2>4, <2>5, SoundStep, Zenon DEF Step
<1>3. ASSUME NEW n \in Running, RoundTimeout(n)
      PROVE  NetInv' /\ (Rules!Next \/ UNCHANGED Votes)
  <2>1. PICK made \in Builds, order \in Orders :
             Step(n, on_round_timeout(n, node[n], made, order))
    BY <1>3 DEF RoundTimeout
  <2>2. PICK t : t = on_round_timeout(n, node[n], made, order)
    OBVIOUS
  <2>3. Sound(n, node[n], t, node[n].pool)
    BY <1>0, <2>2, OnRoundTimeout
  <2> QED
    BY <1>0, <2>1, <2>2, <2>3, SoundStep, Zenon DEF Step
<1>4. ASSUME NEW n \in Syncing, NEW m \in Running, CatchUp(n, m)
      PROVE  NetInv' /\ (Rules!Next \/ UNCHANGED Votes)
  <2>1. n \in Running
    BY RunningAssumption
  <2>2. PICK c : c = Append(node[n].chain, node[m].chain[Len(node[n].chain) + 1])
    BY Zenon
  <2>3. node' = [node EXCEPT ![n].chain = c]
    BY <1>4, <2>2 DEF CatchUp
  <2>4. c \in Chain /\ Len(c) = Len(node[n].chain) + 1 /\ Len(node[n].chain) \in Nat
    <3>1. node[n].chain \in Seq(Block) /\ node[m].chain \in Seq(Block)
      BY <1>0, <2>1 DEF Engine, Chain
    <3>2. Len(node[m].chain) > Len(node[n].chain)
      BY <1>4 DEF CatchUp
    <3>3. Len(node[n].chain) \in Nat /\ Len(node[m].chain) \in Nat
      BY <3>1
    <3>4. Len(node[n].chain) + 1 \in 1..Len(node[m].chain)
      BY <3>2, <3>3
    <3>5. node[m].chain[Len(node[n].chain) + 1] \in Block
      BY <3>1, <3>4
    <3> QED
      BY <2>2, <3>1, <3>3, <3>5 DEF Chain
  <2>5. PICK t : t = [node[n] EXCEPT !.chain = c]
    BY Zenon
  <2>6. node' = [node EXCEPT ![n] = t]
    BY <2>3, <2>5
  <2>7. node[n] \in Engine
    BY <1>0, <2>1
  <2>8. /\ t \in Engine /\ t.votes = node[n].votes /\ t.pool = node[n].pool
        /\ t.height = node[n].height /\ t.round = node[n].round /\ t.step = node[n].step
        /\ t.chain = c /\ node[n].height \in Nat
    BY <2>4, <2>5, <2>7, Zenon DEF Engine
  <2>9. RemembersVotes(n, t)
    BY <1>0, <2>1, <2>4, <2>8 DEF EngineInv, RemembersVotes
  <2>10. Sound(n, node[n], t, node[n].pool)
    BY <1>0, <2>1, <2>8, <2>9 DEF Sound, EngineInv, CastsUpToTwo
  <2> QED
    BY <1>0, <2>1, <2>6, <2>10, SoundStep, Zenon
<1>5. CASE UNCHANGED node
  BY <1>5 DEF NetInv, TypeOK, Votes
<1> QED
  BY <1>1, <1>2, <1>3, <1>4, <1>5 DEF Next, EngineStep

---------------------------------------------------------------------------
(* What the voting rules imply *)

\* The votes a PreCommit or a Commit vote rests on, counted with the operators of this module.
Backed(vs) ==
    \A v \in vs : v.type # PreVote => check_supermajority(Cardinality(Rules!Support(vs, v)))

\* The strengthening that the rules preserve, of the votes vs.
VotesInv(vs) ==
    /\ vs \subseteq Vote
    /\ IsFiniteSet(vs)
    /\ \A v, w \in vs : VotePoolKey(v) = VotePoolKey(w) => v = w
    /\ Backed(vs)

\* Up to 10000 validators has_supermajority asks for exactly two thirds plus one of
\* the votes.  (At 10003 validators 6667 basis points first ask for one vote more.)
THEOREM SupermajorityIsTwoThirdsPlusOne ==
    ASSUME NEW total \in 1..10000, NEW count \in Nat
    PROVE  has_supermajority(count, total) <=> count >= two_thirds_plus_one(total)
<1>1. PICK n \in Nat : n = total * 2 /\ n <= 20000
  OBVIOUS
<1>2. PICK q \in Nat : q = n \div 3 /\ 3 * q <= n /\ n < 3 * q + 3
  OBVIOUS
<1>3. ASSUME count >= q + 1 PROVE count * 10000 >= total * 6667
  BY <1>1, <1>2, <1>3
<1>4. ASSUME count <= q PROVE count * 10000 < total * 6667
  BY <1>1, <1>2, <1>4
<1> QED
  BY <1>1, <1>2, <1>3, <1>4
  DEF has_supermajority, meets_threshold, BFT_SUPERMAJORITY_BPS, two_thirds_plus_one

\* For any number of validators, two supermajorities and one third of the
\* validators do not fit: they overlap in more than a third.
THEOREM SupermajoritiesOverlap ==
    ASSUME NEW total \in Nat, NEW a \in Nat, NEW b \in Nat,
           has_supermajority(a, total), has_supermajority(b, total)
    PROVE  3 * (a + b - total) > total
BY DEF has_supermajority, meets_threshold, BFT_SUPERMAJORITY_BPS

\* Two supermajorities of the N validators together exceed N.
LEMMA SupermajoritiesExceed ==
    ASSUME NEW a \in Nat, NEW b \in Nat,
           check_supermajority(a), check_supermajority(b)
    PROVE  a + b > N
BY NAssumption DEF check_supermajority, has_supermajority, meets_threshold,
                   BFT_SUPERMAJORITY_BPS

\* Two sets of votes of one height, round and type, each from a supermajority
\* of validators that do not equivocate, have a vote in common.
LEMMA VoteQuorumsIntersect ==
    ASSUME NEW vs, VotesInv(vs), NEW S \in SUBSET vs, NEW T \in SUBSET vs,
           \A x, y \in S \cup T : /\ x.height = y.height
                                  /\ x.round = y.round /\ x.type = y.type,
           check_supermajority(Cardinality(S)),
           check_supermajority(Cardinality(T))
    PROVE  S \cap T # {}
<1> SUFFICES ASSUME S \cap T = {}
             PROVE  FALSE
  OBVIOUS
<1>1. IsFiniteSet(S) /\ IsFiniteSet(T)
  BY FS_Subset DEF VotesInv
<1>2. /\ IsFiniteSet(S \cup T)
      /\ Cardinality(S \cup T) = Cardinality(S) + Cardinality(T) - Cardinality(S \cap T)
  BY <1>1, FS_Union
<1>3. Cardinality(S \cap T) = 0
  BY FS_EmptySet
<1>4. Cardinality(S) \in Nat /\ Cardinality(T) \in Nat
  BY <1>1, FS_CardinalityType
<1>5. Cardinality(S \cup T) > N
  BY <1>2, <1>3, <1>4, SupermajoritiesExceed
<1>6. IsFiniteSet(Validators) /\ Cardinality(Validators) = N
  BY NAssumption, FS_Interval DEF Validators
<1> DEFINE f == [x \in S \cup T |-> x.voter]
<1>7. f \in [S \cup T -> Validators]
  BY DEF Vote, VotesInv
<1>8. Cardinality(Validators) < Cardinality(S \cup T)
  BY <1>2, <1>3, <1>4, <1>5, <1>6, NAssumption
<1> HIDE DEF f
<1>9. \E x, y \in S \cup T : x # y /\ f[x] = f[y]
  BY <1>2, <1>6, <1>7, <1>8, FS_PigeonHole
<1>10. PICK x \in S \cup T, y \in S \cup T : x # y /\ x.voter = y.voter
  BY <1>9 DEF f
<1>11. VotePoolKey(x) = VotePoolKey(y)
  BY <1>10 DEF VotePoolKey
<1> QED
  BY <1>10, <1>11 DEF VotesInv

\* Adding a vote the rules allow keeps the invariant.
LEMMA CastKeepsVotesInv ==
    ASSUME NEW vs, NEW v, VotesInv(vs), Rules!MayCast(vs, v)
    PROVE  VotesInv(vs \cup {v})
<1> DEFINE ws == vs \cup {v}
<1>1. v \in Vote
  BY SameVote DEF Rules!MayCast
<1>2. \A w \in vs : VotePoolKey(w) # VotePoolKey(v)
  BY DEF Rules!MayCast, VotePoolKey, Rules!VotePoolKey
<1>3. v.type # PreVote => check_supermajority(Cardinality(Rules!Support(vs, v)))
  <2>1. v.type # Rules!PreVote
          => Rules!check_supermajority(Rules!Cardinality(Rules!Support(vs, v)))
    BY DEF Rules!MayCast
  <2> QED
    BY <2>1, SameCardinality
    DEF PreVote, check_supermajority, has_supermajority, meets_threshold,
        BFT_SUPERMAJORITY_BPS, Rules!PreVote, Rules!check_supermajority,
        Rules!has_supermajority, Rules!meets_threshold, Rules!BFT_SUPERMAJORITY_BPS
<1>4. ws \subseteq Vote
  BY <1>1 DEF VotesInv
<1>5. IsFiniteSet(ws)
  BY FS_AddElement DEF VotesInv
<1>6. \A x, y \in ws : VotePoolKey(x) = VotePoolKey(y) => x = y
  BY <1>2 DEF VotesInv
<1>7. ASSUME NEW x \in ws, x.type # PreVote
      PROVE  check_supermajority(Cardinality(Rules!Support(ws, x)))
  <2>1. check_supermajority(Cardinality(Rules!Support(vs, x)))
    BY <1>3, <1>7 DEF VotesInv, Backed
  <2>2. vs \subseteq ws
    OBVIOUS
  <2> HIDE DEF ws
  <2> QED
    BY <1>5, <2>1, <2>2, SupportGrows
<1> HIDE DEF ws
<1>8. VotesInv(ws)
  BY <1>4, <1>5, <1>6, <1>7 DEF VotesInv, Backed
<1> QED
  BY <1>8 DEF ws

\* Initial votes satisfy the invariant.
LEMMA InitVotesInv == Rules!Init => VotesInv(Votes)
BY SameVote, SameIsFiniteSet
DEF Rules!Init, VotesInv, Backed, VotePoolKey, Rules!VotePoolKey, PreVote, Rules!PreVote

\* Casting one vote or two keeps the invariant.
LEMMA NextKeepsVotesInv == VotesInv(Votes) /\ [Rules!Next]_Votes => VotesInv(Votes')
<1> SUFFICES ASSUME VotesInv(Votes), [Rules!Next]_Votes
             PROVE  VotesInv(Votes')
  OBVIOUS
<1>1. CASE Rules!CastOne
  <2>1. PICK v : Rules!MayCast(Votes, v) /\ Votes' = Votes \cup {v}
    BY <1>1 DEF Rules!CastOne
  <2> QED
    BY <2>1, CastKeepsVotesInv
<1>2. CASE Rules!CastTwo
  <2>1. PICK v, w : /\ Rules!MayCast(Votes, v) /\ Rules!MayCast(Votes \cup {v}, w)
                    /\ Votes' = Votes \cup {v, w}
    BY <1>2 DEF Rules!CastTwo
  <2>2. VotesInv(Votes \cup {v})
    BY <2>1, CastKeepsVotesInv
  <2>3. VotesInv((Votes \cup {v}) \cup {w})
    BY <2>1, <2>2, CastKeepsVotesInv
  <2>4. Votes' = (Votes \cup {v}) \cup {w}
    BY <2>1
  <2> QED
    BY <2>3, <2>4
<1>3. CASE Votes' = Votes
  BY <1>3
<1> QED
  BY <1>1, <1>2, <1>3 DEF Rules!Next

\* The rules keep VotesInv: in particular no validator equivocates and every
\* PreCommit and Commit vote rests on a supermajority.
THEOREM VotesInvariant == Rules!Spec => []VotesInv(Votes)
<1>1. Rules!Init => VotesInv(Votes)
  BY InitVotesInv
<1>2. VotesInv(Votes) /\ [Rules!Next]_Votes => VotesInv(Votes)'
  BY NextKeepsVotesInv
<1> QED
  BY <1>1, <1>2, PTL DEF Rules!Spec

\* Under VotesInv two PreCommits of one height and round cannot differ: the
\* prevote supermajorities behind them share a vote.
LEMMA VotesInvImpliesPreCommitAgreement == VotesInv(Votes) => PreCommitAgreement
<1> SUFFICES ASSUME VotesInv(Votes),
                    NEW v \in Votes, NEW w \in Votes,
                    v.type = PreCommit, w.type = PreCommit,
                    v.height = w.height, v.round = w.round
             PROVE  v.id = w.id
  BY DEF PreCommitAgreement
<1> DEFINE S == Rules!Support(Votes, v)
           T == Rules!Support(Votes, w)
<1>1. check_supermajority(Cardinality(S)) /\ check_supermajority(Cardinality(T))
  BY DEF VotesInv, Backed, PreCommit, PreVote
<1>2. S \in SUBSET Votes /\ T \in SUBSET Votes
  BY DEF Rules!Support
<1>3. \A x \in S : x.height = v.height /\ x.round = v.round /\ x.type = PreVote /\ x.id = v.id
  BY DEF Rules!Support, PreVote, PreCommit, Rules!PreVote, Rules!PreCommit, Rules!Commit
<1>4. \A x \in T : x.height = v.height /\ x.round = v.round /\ x.type = PreVote /\ x.id = w.id
  BY DEF Rules!Support, PreVote, PreCommit, Rules!PreVote, Rules!PreCommit, Rules!Commit
<1> HIDE DEF S, T
<1>5. \A x, y \in S \cup T : x.height = y.height /\ x.round = y.round /\ x.type = y.type
  BY <1>3, <1>4
<1>6. S \cap T # {}
  BY <1>1, <1>2, <1>5, VoteQuorumsIntersect
<1> QED
  BY <1>3, <1>4, <1>6

\* Under the rules alone all PreCommits of one round of one height name the same
\* proposal, for any number of validators.
THEOREM PreCommitAgreementHolds == Rules!Spec => []PreCommitAgreement
BY VotesInvariant, VotesInvImpliesPreCommitAgreement, PTL

---------------------------------------------------------------------------
(* Theorems *)

\* The inductive invariant holds in every reachable state.
THEOREM NetInvariant == Spec => []NetInv
<1>1. Init => NetInv
  BY InitNetInv
<1>2. NetInv /\ [Next]_node => NetInv'
  BY NextNetInv
<1> QED
  BY <1>1, <1>2, PTL DEF Spec

\* Type correctness: handlers keep every field of the engines in its type.
THEOREM TypeCorrect == Spec => []TypeOK
<1>1. NetInv => TypeOK
  BY DEF NetInv
<1> QED
  BY <1>1, NetInvariant, PTL

\* Engines that do not restart remember how they voted.
THEOREM VotesAreRemembered == Spec => []VotesRemembered
<1>1. NetInv => VotesRemembered
  BY DEF NetInv, EngineInv, VotesRemembered
<1> QED
  BY <1>1, NetInvariant, PTL

\* The network of engines implements the voting rules.
THEOREM ImplementsVotingRules == Spec => VotingRulesImplemented
<1>1. Init => Rules!Init
  BY InitNetInv
<1>2. NetInv /\ [Next]_node => [Rules!Next]_Votes
  BY NextNetInv
<1> QED
  BY <1>1, <1>2, NetInvariant, PTL DEF Spec, VotingRulesImplemented, Rules!Spec

\* An engine that does not restart never votes twice for one (height, round, type),
\* with any number of validators and rounds and any message order.
THEOREM NoValidatorEquivocates == Spec => []NoEquivocation
<1>1. VotesInv(Votes) => NoEquivocation
  BY DEF VotesInv, NoEquivocation
<1> QED
  BY <1>1, VotesInvariant, ImplementsVotingRules, PTL DEF VotingRulesImplemented

\* PreCommits of one height and round name one proposal, whichever engines cast them:
\* two supermajorities of PreVotes share a validator, and it voted once.
THEOREM PreCommitsAgree == Spec => []PreCommitAgreement
BY PreCommitAgreementHolds, ImplementsVotingRules, PTL DEF VotingRulesImplemented

\* A supermajority of votes is not the empty set.
LEMMA SupermajorityHasVote ==
    ASSUME NEW S, check_supermajority(Cardinality(S))
    PROVE  \E v \in S : TRUE
<1>1. ~ check_supermajority(0)
  BY NAssumption DEF check_supermajority, has_supermajority, meets_threshold,
                     BFT_SUPERMAJORITY_BPS, MIN_BFT_VALIDATORS
<1> QED
  BY <1>1, FS_EmptySet

\* The Commit votes for proposal p at height h.
CommitVotes(h, p) == {v \in Votes : v.type = Commit /\ v.height = h /\ v.id = p}

\* Behind a proposal with a supermajority of Commit votes there is a PreCommit.
LEMMA PreCommitBehindCommits ==
    ASSUME VotesInv(Votes), NEW h, NEW p,
           check_supermajority(Cardinality(CommitVotes(h, p)))
    PROVE  \E w \in Votes : w.type = PreCommit /\ w.height = h /\ w.id = p
<1>1. PICK v \in Votes : v.type = Commit /\ v.height = h /\ v.id = p
  BY SupermajorityHasVote DEF CommitVotes
<1>2. check_supermajority(Cardinality(Rules!Support(Votes, v)))
  BY <1>1 DEF VotesInv, Backed, Commit, PreVote
<1>3. PICK w : w \in Rules!Support(Votes, v)
  BY <1>2, SupermajorityHasVote
<1> QED
  BY <1>1, <1>3 DEF Rules!Support, PreCommit, Commit, Rules!PreCommit, Rules!Commit

\* Engines that finalize a height after PreCommits of a single round commit the same
\* proposal, whatever is lost, repeated or reordered and whoever catches up from whom.
\* Only PreCommits of different rounds can lead to different blocks.
THEOREM OneRoundAgrees == Spec => []AgreementInOneRound
<1>1. VotesInv(Votes) /\ PreCommitAgreement /\ FinalizedByCommitVotes => AgreementInOneRound
  <2> SUFFICES ASSUME VotesInv(Votes), PreCommitAgreement, FinalizedByCommitVotes,
                      NEW n \in Running, NEW m \in Running,
                      NEW h \in DOMAIN node[n].chain \cap DOMAIN node[m].chain, OneRound(h)
               PROVE  CommittedProposal(node[n].chain, h) = CommittedProposal(node[m].chain, h)
    BY DEF AgreementInOneRound
  <2> DEFINE p == CommittedProposal(node[n].chain, h)
             q == CommittedProposal(node[m].chain, h)
  <2>1. /\ check_supermajority(Cardinality(CommitVotes(h, p)))
        /\ check_supermajority(Cardinality(CommitVotes(h, q)))
    BY DEF FinalizedByCommitVotes, CommitVotes
  <2> HIDE DEF p, q
  <2>2. PICK v \in Votes : v.type = PreCommit /\ v.height = h /\ v.id = p
    BY <2>1, PreCommitBehindCommits
  <2>3. PICK w \in Votes : w.type = PreCommit /\ w.height = h /\ w.id = q
    BY <2>1, PreCommitBehindCommits
  <2>4. p = q
    BY <2>2, <2>3 DEF OneRound, PreCommitAgreement
  <2> QED
    BY <2>4 DEF p, q
<1>2. Spec => []VotesInv(Votes)
  BY VotesInvariant, ImplementsVotingRules, PTL DEF VotingRulesImplemented
<1>3. Spec => []FinalizedByCommitVotes
  BY RestartsAreOptional, CommitVotesFinalize, PTL
<1> QED
  BY <1>1, <1>2, <1>3, PreCommitsAgree, PTL
=============================================================================
