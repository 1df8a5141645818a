--------------------------- MODULE CatchUpProofs ---------------------------
(***************************************************************************)
(* For every set of blocks, every peer and every pattern of crashes and    *)
(* failing writes: the stored chain can be read back and is only ever      *)
(* appended to, memory follows it, quorum proofs are complete, and         *)
(* catch-up halts before real divergence only.                             *)
(***************************************************************************)
EXTENDS CatchUp, TLAPS

(***************************************************************************)
(* Shapes of the records                                                   *)
(***************************************************************************)

IsDb(d) ==
    d = [utxos |-> d.utxos, token_balances |-> d.token_balances,
         token_nonces |-> d.token_nonces, token_supply |-> d.token_supply,
         blocks_by_height |-> d.blocks_by_height, blocks_by_hash |-> d.blocks_by_hash,
         identities |-> d.identities, identity_metadata |-> d.identity_metadata,
         quorum_proofs |-> d.quorum_proofs, latest |-> d.latest]

IsJob(j) ==
    j = [phase |-> j.phase, block |-> j.block, src |-> j.src, hasProof |-> j.hasProof,
         w |-> j.w, left |-> j.left]

IsMem(m) == m = [chain |-> m.chain, sov |-> m.sov, wallets |-> m.wallets, ids |-> m.ids]

ChainNames == {"blocks_by_height", "blocks_by_hash"}

MetadataNames == {"identities", "identity_metadata"}

(***************************************************************************)
(* The inductive invariant                                                 *)
(***************************************************************************)

\* The store: a chain that can be read up to latest_height.
StoreInv ==
    /\ IsDb(db)
    /\ db.latest \in Heights
    /\ db.blocks_by_height \in [Heights -> Hashes \cup {NoHash}]
    /\ db.blocks_by_hash \in [Hashes -> BOOLEAN]
    /\ ChainReadable

Unwritten(t) == \E i \in 1 .. Len(job.left) : job.left[i] = t

\* A block between begin_block and its commit point extends the stored chain, and
\* its two block trees are written or still to be written.
CommitInv ==
    /\ job.block.height = db.latest + 1
    /\ job.block.prev = db.blocks_by_height[db.latest]
    /\ job.left \in Seq(StateTrees \cup ChainNames)
    /\ job.w["blocks_by_height"] = Insert(<<>>, job.block.height, job.block.hash)
    /\ job.w["blocks_by_hash"] = Insert(<<>>, job.block.hash, TRUE)
    /\ Unwritten("blocks_by_height") \/ db.blocks_by_height[job.block.height] = job.block.hash
    /\ Unwritten("blocks_by_hash") \/ db.blocks_by_hash[job.block.hash]

JobInv ==
    /\ job.phase \in {"idle", "down", "commit", "metadata", "proof"}
    /\ job.phase \in {"commit", "metadata", "proof"} => IsJob(job) /\ job.block \in Blocks
    /\ job.phase = "commit" => CommitInv
    /\ job.phase = "metadata" => job.left \in Seq(MetadataNames)

\* The chain in memory has a tip.
MemInv == IsMem(mem) /\ mem.chain \in Seq(Hashes) /\ Len(mem.chain) > 0

IsAsking(s) ==
    s = [phase |-> s.phase, from |-> s.from, peers |-> s.peers, rejecting |-> s.rejecting,
         synced |-> s.synced]

IsPaging(s) ==
    s = [phase |-> s.phase, from |-> s.from, peers |-> s.peers, rejecting |-> s.rejecting,
         peer |-> s.peer, tip |-> s.tip, start |-> s.start, next |-> s.next,
         inPage |-> s.inPage, applied |-> s.applied, proof |-> s.proof]

\* A peer being asked is one of Peers, and a block about to be applied is one that
\* it serves.
TaskOK(s) ==
    /\ s.phase \in {"rest", "halted", "ask", "page", "apply", "wait"}
    /\ s.phase = "ask" => IsAsking(s) /\ s.from \in Nat
    /\ s.phase \in {"page", "apply", "wait"} =>
         /\ IsPaging(s)
         /\ s.peer \in Peers /\ s.tip = Len(PeerChain[s.peer]) - 1
         /\ s.from \in Nat /\ s.next \in Nat \ {0}
    /\ s.phase = "apply" => s.next <= s.tip

ChainInv == StoreInv /\ JobInv /\ MemInv /\ TaskOK(sync)

(***************************************************************************)
(* Lemmas                                                                  *)
(***************************************************************************)

\* A hash of a block leads back to the block.
LEMMA BlockOfHash ==
    ASSUME NEW b \in Blocks
    PROVE  b.hash \in Hashes /\ BlockOf(b.hash) = b
BY BlocksAssumption DEF Hashes, BlockOf

\* Every hash of Hashes leads to a block.
LEMMA BlockOfKnown ==
    ASSUME NEW h \in Hashes
    PROVE  BlockOf(h) \in Blocks
BY DEF Hashes, BlockOf

\* A batch with one entry changes one entry of the height index.
LEMMA ApplyHeight ==
    ASSUME NEW tree \in [Heights -> Hashes \cup {NoHash}], NEW k \in Heights, NEW v
    PROVE  ApplyBatch(tree, Insert(<<>>, k, v)) = [tree EXCEPT ![k] = v]
<1>1. DOMAIN Insert(<<>>, k, v) = {k} /\ Insert(<<>>, k, v)[k] = v
  BY DEF Insert
<1>2. QED
  BY <1>1, Zenon DEF ApplyBatch

\* The same of the block data.
LEMMA ApplyHash ==
    ASSUME NEW tree \in [Hashes -> BOOLEAN], NEW k \in Hashes
    PROVE  ApplyBatch(tree, Insert(<<>>, k, TRUE)) = [tree EXCEPT ![k] = TRUE]
<1>1. DOMAIN Insert(<<>>, k, TRUE) = {k} /\ Insert(<<>>, k, TRUE)[k] = TRUE
  BY DEF Insert
<1>2. QED
  BY <1>1, Zenon DEF ApplyBatch

\* A step that leaves the height index, the block data and latest_height alone.
LEMMA SameStore ==
    ASSUME StoreInv, IsDb(db'), db'.latest = db.latest,
           db'.blocks_by_height = db.blocks_by_height, db'.blocks_by_hash = db.blocks_by_hash
    PROVE  StoreInv' /\ AppendOnlyStep
<1>1. ChainReadable'
  BY DEF StoreInv, ChainReadable, Readable
<1>2. db.latest >= db.latest
  BY BlocksAssumption DEF StoreInv, Heights
<1>3. \A h \in 0 .. db.latest : db.blocks_by_hash[db.blocks_by_height[h]]
  BY DEF StoreInv, ChainReadable, Readable
<1>4. QED
  BY <1>1, <1>2, <1>3 DEF StoreInv, AppendOnlyStep

\* A block in progress is not affected by a step that leaves it and the chain
\* alone.
LEMMA SameJob ==
    ASSUME JobInv, job' = job, db'.latest = db.latest,
           db'.blocks_by_height = db.blocks_by_height, db'.blocks_by_hash = db.blocks_by_hash
    PROVE  JobInv'
BY Zenon DEF JobInv, CommitInv, Unwritten

(***************************************************************************)
(* Steps of the ledger                                                     *)
(***************************************************************************)

\* Offering a block: seeding changes balances only; a block that is not refused
\* extends the stored chain.
LEMMA StepProcess ==
    ASSUME StoreInv, JobInv, NEW b \in Blocks, NEW src, NEW hasProof,
           ProcessBlock(b, src, hasProof)
    PROVE  StoreInv' /\ JobInv' /\ AppendOnlyStep /\ mem' = mem
<1> DEFINE seeded == [db EXCEPT !.token_balances = Backfill(@, mem.sov, Seeds(b))]
           r == StageBlock(seeded, b)
           writes == [t \in StateTrees \cup {"blocks_by_height", "blocks_by_hash"} |->
                        CASE t = "blocks_by_height" -> Insert(<<>>, b.height, b.hash)
                          [] t = "blocks_by_hash"   -> Insert(<<>>, b.hash, TRUE)
                          [] OTHER                  -> r.w[t]]
<1>1. /\ db' = seeded /\ mem' = mem
      /\ \/ job' = job /\ job = Idle
         \/ /\ Refusal(b, r) = "none"
            /\ job' = [phase |-> "commit", block |-> b, src |-> src,
                       hasProof |-> hasProof, w |-> writes, left |-> BlockTrees]
  BY Zenon DEF ProcessBlock
<1>2. /\ IsDb(db') /\ db'.latest = db.latest
      /\ db'.blocks_by_height = db.blocks_by_height /\ db'.blocks_by_hash = db.blocks_by_hash
  <2>1. IsDb(db)
    BY DEF StoreInv
  <2>2. QED
    BY <1>1, <2>1 DEF IsDb
<1>3. StoreInv' /\ AppendOnlyStep
  BY <1>2, SameStore
<1>4. /\ writes["blocks_by_height"] = Insert(<<>>, b.height, b.hash)
      /\ writes["blocks_by_hash"] = Insert(<<>>, b.hash, TRUE)
  OBVIOUS
<1> HIDE DEF writes, r, seeded
<1>5. CASE job' = job
  BY <1>2, <1>5, SameJob, <1>3, <1>1
<1>6. CASE /\ Refusal(b, r) = "none"
           /\ job' = [phase |-> "commit", block |-> b, src |-> src,
                      hasProof |-> hasProof, w |-> writes, left |-> BlockTrees]
  <2>1. b.height = db.latest + 1 /\ b.prev = db.blocks_by_height[db.latest]
    BY <1>6 DEF Refusal
  <2>2. /\ IsJob(job') /\ job'.phase = "commit" /\ job'.block = b /\ job'.w = writes
        /\ job'.left = BlockTrees
    BY <1>6 DEF IsJob
  <2>3. /\ BlockTrees \in Seq(StateTrees \cup ChainNames)
        /\ Len(BlockTrees) = 6
        /\ BlockTrees[1] = "blocks_by_height" /\ BlockTrees[2] = "blocks_by_hash"
    BY DEF BlockTrees, StateTrees, ChainNames
  <2>4. Unwritten("blocks_by_height")' /\ Unwritten("blocks_by_hash")'
    BY <2>2, <2>3 DEF Unwritten
  <2>5. CommitInv'
    BY <1>2, <1>4, <2>1, <2>2, <2>3, <2>4, Zenon DEF CommitInv
  <2>6. JobInv'
    BY <2>2, <2>5 DEF JobInv
  <2>7. QED
    BY <1>1, <1>3, <2>6
<1>7. QED
  BY <1>1, <1>5, <1>6

\* The head of a sequence of trees is written; what is in the tail stays to be
\* written.
LEMMA HeadOrTail ==
    ASSUME NEW S, NEW l \in Seq(S), l # <<>>
    PROVE  /\ Head(l) \in S /\ Tail(l) \in Seq(S)
           /\ \A t : (\E i \in 1 .. Len(l) : l[i] = t)
                       => t = Head(l) \/ (\E i \in 1 .. Len(Tail(l)) : Tail(l)[i] = t)
<1>1. /\ Tail(l) \in Seq(S) /\ Head(l) = l[1] /\ Head(l) \in S
      /\ Len(l) \in Nat /\ Len(Tail(l)) = Len(l) - 1
  OBVIOUS
<1>2. \A i \in 1 .. Len(Tail(l)) : Tail(l)[i] = l[i + 1]
  OBVIOUS
<1>3. ASSUME NEW t, NEW i \in 1 .. Len(l), l[i] = t, t # Head(l)
      PROVE  \E j \in 1 .. Len(Tail(l)) : Tail(l)[j] = t
  <2>1. i - 1 \in 1 .. Len(Tail(l)) /\ Tail(l)[i - 1] = t
    BY <1>1, <1>2, <1>3
  <2>2. QED
    BY <2>1
<1>4. QED
  BY <1>1, <1>3

\* Writing one tree leaves the others, and latest_height, alone.
LEMMA WriteOne ==
    ASSUME IsDb(db), NEW t \in StateTrees \cup ChainNames \cup MetadataNames, NEW batch,
           db' = [db EXCEPT ![t] = ApplyBatch(@, batch)]
    PROVE  /\ IsDb(db') /\ db'.latest = db.latest
           /\ db'.blocks_by_height = IF t = "blocks_by_height"
                                     THEN ApplyBatch(db.blocks_by_height, batch)
                                     ELSE db.blocks_by_height
           /\ db'.blocks_by_hash = IF t = "blocks_by_hash"
                                   THEN ApplyBatch(db.blocks_by_hash, batch)
                                   ELSE db.blocks_by_hash
<1>1. CASE t = "blocks_by_height"
  BY <1>1, Zenon DEF IsDb
<1>2. CASE t = "blocks_by_hash"
  BY <1>2, Zenon DEF IsDb
<1>3. CASE t \in StateTrees \cup MetadataNames
  <2>1. t \in {"utxos", "token_balances", "token_nonces", "token_supply",
               "identities", "identity_metadata"}
    BY <1>3 DEF StateTrees, MetadataNames
  <2>2. QED
    BY <2>1, Zenon DEF IsDb
<1>4. QED
  BY <1>1, <1>2, <1>3 DEF ChainNames

\* A batch of commit_block: the block's own height and hash are above the chain.
LEMMA StepWriteBlock ==
    ASSUME StoreInv, JobInv, job.phase = "commit", WriteTree
    PROVE  StoreInv' /\ JobInv' /\ AppendOnlyStep
<1> DEFINE t == Head(job.left)
           b == job.block
<1>1. /\ IsDb(db) /\ IsJob(job) /\ CommitInv /\ b \in Blocks
      /\ db.latest \in Nat
      /\ db.blocks_by_height \in [Heights -> Hashes \cup {NoHash}]
      /\ db.blocks_by_hash \in [Hashes -> BOOLEAN]
  BY BlocksAssumption DEF StoreInv, JobInv, Heights
<1>2. /\ t \in StateTrees \cup ChainNames /\ Tail(job.left) \in Seq(StateTrees \cup ChainNames)
      /\ \A u : Unwritten(u) => u = t \/ (\E i \in 1 .. Len(Tail(job.left)) : Tail(job.left)[i] = u)
  <2>1. job.left \in Seq(StateTrees \cup ChainNames) /\ job.left # <<>>
    BY <1>1 DEF WriteTree, CommitInv
  <2>2. /\ Head(job.left) \in StateTrees \cup ChainNames
        /\ Tail(job.left) \in Seq(StateTrees \cup ChainNames)
        /\ \A u : (\E i \in 1 .. Len(job.left) : job.left[i] = u)
             => u = Head(job.left)
                \/ (\E i \in 1 .. Len(Tail(job.left)) : Tail(job.left)[i] = u)
    BY <2>1, HeadOrTail
  <2>3. QED
    BY <2>2, Zenon DEF Unwritten
<1>3. /\ job' = [job EXCEPT !.left = Tail(job.left)]
      /\ db' = [db EXCEPT ![t] = ApplyBatch(db[t], job.w[t])]
  BY DEF WriteTree
<1>4. /\ IsJob(job') /\ job'.phase = "commit" /\ job'.block = b /\ job'.w = job.w
      /\ job'.left = Tail(job.left)
  BY <1>1, <1>3, Zenon DEF IsJob
<1> HIDE DEF t
<1>5. /\ IsDb(db') /\ db'.latest = db.latest
      /\ db'.blocks_by_height = IF t = "blocks_by_height"
                                THEN ApplyBatch(db.blocks_by_height, job.w[t])
                                ELSE db.blocks_by_height
      /\ db'.blocks_by_hash = IF t = "blocks_by_hash"
                              THEN ApplyBatch(db.blocks_by_hash, job.w[t])
                              ELSE db.blocks_by_hash
  BY <1>1, <1>2, <1>3, WriteOne, Zenon
<1>6. b.height \in Heights /\ b.hash \in Hashes /\ b.height = db.latest + 1
  BY <1>1, BlocksAssumption, BlockOfHash DEF CommitInv
<1>7. /\ db'.blocks_by_height = IF t = "blocks_by_height"
                                THEN [db.blocks_by_height EXCEPT ![b.height] = b.hash]
                                ELSE db.blocks_by_height
      /\ db'.blocks_by_hash = IF t = "blocks_by_hash"
                              THEN [db.blocks_by_hash EXCEPT ![b.hash] = TRUE]
                              ELSE db.blocks_by_hash
  <2>1. /\ job.w["blocks_by_height"] = Insert(<<>>, b.height, b.hash)
        /\ job.w["blocks_by_hash"] = Insert(<<>>, b.hash, TRUE)
    BY <1>1 DEF CommitInv
  <2>2. ApplyBatch(db.blocks_by_height, Insert(<<>>, b.height, b.hash))
           = [db.blocks_by_height EXCEPT ![b.height] = b.hash]
    BY <1>1, <1>6, ApplyHeight
  <2>3. ApplyBatch(db.blocks_by_hash, Insert(<<>>, b.hash, TRUE))
           = [db.blocks_by_hash EXCEPT ![b.hash] = TRUE]
    BY <1>1, <1>6, ApplyHash, Zenon
  <2>4. QED
    BY <1>5, <2>1, <2>2, <2>3, Zenon
<1>8. /\ db'.blocks_by_height \in [Heights -> Hashes \cup {NoHash}]
      /\ db'.blocks_by_hash \in [Hashes -> BOOLEAN]
      /\ \A h \in 0 .. db.latest : db'.blocks_by_height[h] = db.blocks_by_height[h]
      /\ \A x \in Hashes : db.blocks_by_hash[x] => db'.blocks_by_hash[x]
  BY <1>1, <1>6, <1>7
<1>9. \A h \in 0 .. db.latest :
         /\ db.blocks_by_height[h] \in Hashes
         /\ db.blocks_by_hash[db.blocks_by_height[h]]
  BY <1>1, BlocksAssumption DEF StoreInv, ChainReadable, Readable, Heights
<1>10. AppendOnlyStep
  BY <1>1, <1>5, <1>8, <1>9 DEF AppendOnlyStep
<1>11. ChainReadable'
  BY <1>1, <1>5, <1>8, <1>9 DEF StoreInv, ChainReadable, Readable
<1>12. StoreInv'
  BY <1>5, <1>8, <1>11 DEF StoreInv
<1>13. /\ Unwritten("blocks_by_height")' \/ db'.blocks_by_height[b.height] = b.hash
       /\ Unwritten("blocks_by_hash")' \/ db'.blocks_by_hash[b.hash]
  <2>1. \A u : Unwritten(u) => u = t \/ Unwritten(u)'
    BY <1>2, <1>4 DEF Unwritten
  <2>2. Unwritten("blocks_by_height")' \/ db'.blocks_by_height[b.height] = b.hash
    BY <1>1, <1>6, <1>7, <2>1 DEF CommitInv
  <2>3. Unwritten("blocks_by_hash")' \/ db'.blocks_by_hash[b.hash]
    BY <1>1, <1>6, <1>7, <2>1 DEF CommitInv
  <2>4. QED
    BY <2>2, <2>3
<1>14. job'.block.prev = db'.blocks_by_height[db.latest]
  BY <1>1, <1>4, <1>8 DEF CommitInv
<1>15. CommitInv'
  BY <1>1, <1>2, <1>4, <1>5, <1>6, <1>13, <1>14, Zenon DEF CommitInv
<1>16. JobInv'
  BY <1>1, <1>4, <1>15 DEF JobInv
<1>17. QED
  BY <1>10, <1>12, <1>16

\* A batch of commit_metadata_write leaves the chain alone.
LEMMA StepWriteMetadata ==
    ASSUME StoreInv, JobInv, job.phase = "metadata", WriteTree
    PROVE  StoreInv' /\ JobInv' /\ AppendOnlyStep
<1> DEFINE t == Head(job.left)
<1>1. IsDb(db) /\ IsJob(job) /\ job.left \in Seq(MetadataNames) /\ job.block \in Blocks
  BY DEF StoreInv, JobInv
<1>2. t \in MetadataNames /\ Tail(job.left) \in Seq(MetadataNames)
  BY <1>1, HeadOrTail DEF WriteTree
<1>3. /\ job' = [job EXCEPT !.left = Tail(job.left)]
      /\ db' = [db EXCEPT ![t] = ApplyBatch(db[t], job.w[t])]
  BY DEF WriteTree
<1>4. /\ IsJob(job') /\ job'.phase = "metadata" /\ job'.block = job.block
      /\ job'.left = Tail(job.left)
  BY <1>1, <1>3, Zenon DEF IsJob
<1> HIDE DEF t
<1>5. t \notin ChainNames /\ t \in StateTrees \cup ChainNames \cup MetadataNames
  BY <1>2 DEF MetadataNames, ChainNames
<1>6. /\ IsDb(db') /\ db'.latest = db.latest
      /\ db'.blocks_by_height = db.blocks_by_height /\ db'.blocks_by_hash = db.blocks_by_hash
  BY <1>1, <1>3, <1>5, WriteOne, Zenon DEF ChainNames
<1>7. StoreInv' /\ AppendOnlyStep
  BY <1>6, SameStore
<1>8. JobInv'
  BY <1>1, <1>2, <1>4 DEF JobInv
<1>9. QED
  BY <1>7, <1>8

\* Writing latest_height, with or without the flush: the block's own height is
\* readable, because nothing is left to be written.
LEMMA StepLatest ==
    ASSUME StoreInv, JobInv, job.phase = "commit", job.left = <<>>,
           db' = [db EXCEPT !.latest = job.block.height]
    PROVE  StoreInv' /\ AppendOnlyStep
<1> DEFINE b == job.block
<1>1. /\ IsDb(db) /\ CommitInv /\ b \in Blocks
      /\ db.latest \in Nat
      /\ db.blocks_by_height \in [Heights -> Hashes \cup {NoHash}]
      /\ db.blocks_by_hash \in [Hashes -> BOOLEAN]
      /\ ChainReadable
  BY BlocksAssumption DEF StoreInv, JobInv, Heights
<1>2. /\ IsDb(db') /\ db'.latest = b.height
      /\ db'.blocks_by_height = db.blocks_by_height /\ db'.blocks_by_hash = db.blocks_by_hash
  BY <1>1 DEF IsDb
<1>3. /\ b.height \in Heights /\ b.height = db.latest + 1 /\ b.hash # NoHash
      /\ b.prev = db.blocks_by_height[db.latest]
      /\ BlockOf(b.hash) = b
  BY <1>1, BlocksAssumption, BlockOfHash DEF CommitInv
<1>4. db.blocks_by_height[b.height] = b.hash /\ db.blocks_by_hash[b.hash]
  BY <1>1 DEF CommitInv, Unwritten
<1> HIDE DEF b
<1>5. ChainReadable'
  <2> SUFFICES ASSUME NEW h \in 0 .. db.latest + 1
               PROVE  /\ Readable(h)
                      /\ BlockOf(db.blocks_by_height[h]).height = h
                      /\ h > 0 => BlockOf(db.blocks_by_height[h]).prev = db.blocks_by_height[h - 1]
    BY <1>2, <1>3 DEF ChainReadable, Readable
  <2>1. CASE h = db.latest + 1
    BY <1>1, <1>3, <1>4, <2>1 DEF Readable
  <2>2. CASE h # db.latest + 1
    <3>1. h \in 0 .. db.latest
      BY <1>1, <2>2
    <3>2. QED
      BY <1>1, <3>1 DEF ChainReadable
  <2>3. QED
    BY <2>1, <2>2
<1>6. StoreInv'
  BY <1>1, <1>2, <1>3, <1>5 DEF StoreInv
<1>7. \A h \in 0 .. db.latest : db.blocks_by_hash[db.blocks_by_height[h]]
  BY <1>1 DEF ChainReadable, Readable
<1>8. AppendOnlyStep
  BY <1>1, <1>2, <1>3, <1>7 DEF AppendOnlyStep
<1>9. QED
  BY <1>6, <1>8

\* The commit point and what follows it in memory.
LEMMA StepCommitPoint ==
    ASSUME StoreInv, JobInv, MemInv, CommitPoint
    PROVE  StoreInv' /\ JobInv' /\ MemInv' /\ AppendOnlyStep
<1> DEFINE r == StageIdentities(mem, job.block)
<1>1. /\ job.phase = "commit" /\ IsJob(job) /\ job.block \in Blocks
      /\ job.block.hash \in Hashes
  BY BlockOfHash DEF CommitPoint, JobInv
<1>2. StoreInv' /\ AppendOnlyStep
  BY StepLatest DEF CommitPoint
<1>3. /\ mem' = Processed(mem, job.block, r)
      /\ \/ job' = Idle
         \/ job' = [job EXCEPT !.phase = "metadata", !.w = r.w, !.left = MetadataTrees]
  BY DEF CommitPoint
<1> HIDE DEF r
<1>4. IsMem(mem') /\ mem'.chain = Append(mem.chain, job.block.hash)
  BY <1>3, Zenon DEF MemInv, IsMem, Processed, AfterBlock
<1>5. MemInv'
  BY <1>1, <1>4 DEF MemInv
<1>6. MetadataTrees \in Seq(MetadataNames)
  BY DEF MetadataTrees, MetadataNames
<1>7. CASE job' = Idle
  BY <1>2, <1>5, <1>7 DEF JobInv, Idle
<1>8. CASE job' = [job EXCEPT !.phase = "metadata", !.w = r.w, !.left = MetadataTrees]
  <2>1. /\ IsJob(job') /\ job'.phase = "metadata" /\ job'.block = job.block
        /\ job'.left = MetadataTrees
    BY <1>1, <1>8, Zenon DEF IsJob
  <2>2. JobInv'
    BY <1>1, <1>6, <2>1 DEF JobInv
  <2>3. QED
    BY <1>2, <1>5, <2>2
<1>9. QED
  BY <1>2, <1>3, <1>5, <1>7, <1>8

\* The end of the metadata write.
LEMMA StepFinish ==
    ASSUME StoreInv, JobInv, job.phase = "metadata", Finish
    PROVE  StoreInv' /\ JobInv' /\ AppendOnlyStep
<1>1. db' = db /\ IsDb(db) /\ IsJob(job) /\ job.block \in Blocks
  BY DEF Finish, StoreInv, JobInv
<1>2. StoreInv' /\ AppendOnlyStep
  BY <1>1, SameStore
<1>3. CASE job' = Idle
  BY <1>2, <1>3 DEF JobInv, Idle
<1>4. CASE job' = [job EXCEPT !.phase = "proof"]
  <2>1. IsJob(job') /\ job'.phase = "proof" /\ job'.block = job.block
    BY <1>1, <1>4 DEF IsJob
  <2>2. QED
    BY <1>1, <1>2, <2>1 DEF JobInv
<1>5. QED
  BY <1>3, <1>4 DEF Finish

\* Storing a proof leaves the chain alone.
LEMMA StepProof ==
    ASSUME StoreInv, JobInv, NEW heights,
           db' = [db EXCEPT !.quorum_proofs = @ \cup heights], job' = Idle \/ job' = job
    PROVE  StoreInv' /\ JobInv' /\ AppendOnlyStep
<1>1. IsDb(db)
  BY DEF StoreInv
<1>2. /\ IsDb(db') /\ db'.latest = db.latest
      /\ db'.blocks_by_height = db.blocks_by_height /\ db'.blocks_by_hash = db.blocks_by_hash
  BY <1>1 DEF IsDb
<1>3. StoreInv' /\ AppendOnlyStep
  BY <1>2, SameStore
<1>4. CASE job' = Idle
  BY <1>3, <1>4 DEF JobInv, Idle
<1>5. CASE job' = job
  BY <1>2, <1>3, <1>5, SameJob
<1>6. QED
  BY <1>4, <1>5

\* A step that leaves the store alone and ends or leaves the block in progress.
LEMMA StepAway ==
    ASSUME StoreInv, JobInv, db' = db, job' \in {job, Idle, Down}
    PROVE  StoreInv' /\ JobInv' /\ AppendOnlyStep
<1>1. IsDb(db)
  BY DEF StoreInv
<1>2. StoreInv' /\ AppendOnlyStep
  BY <1>1, SameStore
<1>3. CASE job' = job
  BY <1>2, <1>3, SameJob
<1>4. CASE job' = Idle \/ job' = Down
  BY <1>2, <1>4 DEF JobInv, Idle, Down
<1>5. QED
  BY <1>3, <1>4

\* A restart reads the stored chain into memory.
LEMMA StepRestart ==
    ASSUME StoreInv, JobInv, Restart
    PROVE  StoreInv' /\ JobInv' /\ MemInv' /\ AppendOnlyStep
<1>1. /\ IsDb(db) /\ db.latest \in Nat /\ db.latest \in Heights
      /\ db.blocks_by_height \in [Heights -> Hashes \cup {NoHash}]
      /\ \A h \in 0 .. db.latest : Readable(h)
  BY BlocksAssumption DEF StoreInv, Heights, Restart
<1>2. PICK filled, sov, wallets, ids :
         /\ db' = [db EXCEPT !.token_balances = filled]
         /\ mem' = [chain |-> StoredChain, sov |-> sov, wallets |-> wallets, ids |-> ids]
         /\ job' = Idle
  BY Zenon DEF Restart
<1>3. /\ IsDb(db') /\ db'.latest = db.latest
      /\ db'.blocks_by_height = db.blocks_by_height /\ db'.blocks_by_hash = db.blocks_by_hash
  BY <1>1, <1>2 DEF IsDb
<1>4. StoreInv' /\ AppendOnlyStep
  BY <1>3, SameStore
<1>5. JobInv'
  BY <1>2 DEF JobInv, Idle
<1>6. \A i \in 1 .. db.latest + 1 : db.blocks_by_height[i - 1] \in Hashes
  BY <1>1, BlocksAssumption DEF Readable, Heights
<1>7. StoredChain \in Seq(Hashes) /\ Len(StoredChain) = db.latest + 1
  BY <1>1, <1>6 DEF StoredChain
<1>8. IsMem(mem') /\ mem'.chain = StoredChain
  BY <1>2 DEF IsMem
<1>9. MemInv'
  BY <1>1, <1>7, <1>8 DEF MemInv
<1>10. QED
  BY <1>4, <1>5, <1>9

\* Consensus hands in a block, or stores the proof of one already in the chain.
LEMMA StepFinalized ==
    ASSUME StoreInv, JobInv, NEW b \in Blocks, CommitFinalized(b)
    PROVE  StoreInv' /\ JobInv' /\ AppendOnlyStep /\ mem' = mem
<1>1. CASE ProcessBlock(b, "bft", TRUE)
  BY <1>1, StepProcess, Zenon
<1>2. CASE /\ db' = [db EXCEPT !.quorum_proofs = @ \cup {b.height}]
           /\ job' = job /\ mem' = mem
  BY <1>2, StepProof
<1>3. QED
  BY <1>1, <1>2, Zenon DEF CommitFinalized

\* Every step of the node apart from the catch-up task and the restart.
LEMMA StepNode ==
    ASSUME StoreInv, JobInv, MemInv,
           Processing \/ Failing \/ Finalizing \/ StoringProofs \/ Registering
    PROVE  StoreInv' /\ JobInv' /\ MemInv' /\ AppendOnlyStep
<1> USE DEF MemInv
<1>1. CASE WriteTree
  <2>1. mem' = mem /\ job.phase \in {"commit", "metadata"}
    BY <1>1 DEF WriteTree
  <2>2. QED
    BY <1>1, <2>1, StepWriteBlock, StepWriteMetadata
<1>2. CASE CommitPoint
  BY <1>2, StepCommitPoint
<1>3. CASE FinishMetadata \/ MetadataFails
  <2>1. job.phase = "metadata" /\ Finish /\ mem' = mem
    BY <1>3 DEF FinishMetadata, MetadataFails, Finish
  <2>2. QED
    BY <2>1, StepFinish
<1>4. CASE \E stored : SyncProof(stored)
  <2>1. PICK heights : db' = [db EXCEPT !.quorum_proofs = @ \cup heights]
    BY <1>4, Zenon DEF SyncProof
  <2>2. job' = Idle /\ mem' = mem
    BY <1>4 DEF SyncProof
  <2>3. QED
    BY <2>1, <2>2, StepProof, Zenon
<1>5. CASE CommitFails
  <2>1. db' = db /\ job' = Idle /\ mem' = mem
    BY <1>5 DEF CommitFails
  <2>2. QED
    BY <2>1, StepAway
<1>6. CASE FlushFails
  <2>1. StoreInv' /\ AppendOnlyStep
    BY <1>6, StepLatest DEF FlushFails
  <2>2. job' = Idle /\ mem' = mem
    BY <1>6 DEF FlushFails
  <2>3. QED
    BY <2>1, <2>2 DEF JobInv, Idle
<1>7. CASE Finalizing
  BY <1>7, BlocksAssumption, StepFinalized DEF Finalizing
<1>8. CASE StoringProofs
  <2>1. PICK heights : db' = [db EXCEPT !.quorum_proofs = @ \cup heights]
    BY <1>8, Zenon DEF StoringProofs, PutQuorumProof
  <2>2. job' = job /\ mem' = mem
    BY <1>8 DEF StoringProofs, PutQuorumProof
  <2>3. QED
    BY <2>1, <2>2, StepProof
<1>9. CASE Registering
  <2>1. PICK wallets, sov : mem' = [mem EXCEPT !.wallets = wallets, !.sov = sov]
    BY <1>9, Zenon DEF Registering, RegisterWallet
  <2>2. db' = db /\ job' = job
    BY <1>9, Zenon DEF Registering, RegisterWallet
  <2>3. IsMem(mem') /\ mem'.chain = mem.chain
    BY <2>1, Zenon DEF IsMem
  <2>4. QED
    BY <2>2, <2>3, StepAway
<1>10. QED
  BY <1>1, <1>2, <1>3, <1>4, <1>5, <1>6, <1>7, <1>8, <1>9, Zenon DEF Processing, Failing

(***************************************************************************)
(* Steps of the catch-up task                                              *)
(***************************************************************************)

\* The next peer of a round.
LEMMA NextPeerOK ==
    ASSUME NEW s, s.from \in Nat
    PROVE  TaskOK(NextPeer(s))
BY DEF TaskOK, NextPeer, IsAsking

\* The end of a page leaves the task asking or at the height after our tip.
LEMMA PageEndOK ==
    ASSUME MemInv, NEW s, TaskOK(s), s.phase \in {"page", "apply", "wait"}
    PROVE  TaskOK(PageEnd(s))
<1>1. /\ IsPaging(s) /\ s.peer \in Peers /\ s.tip = Len(PeerChain[s.peer]) - 1
      /\ s.from \in Nat
  BY DEF TaskOK
<1>2. Height(mem) \in Nat
  BY DEF MemInv, Height
<1>3. CASE PageEnd(s) = NextPeer(s)
  BY <1>1, <1>3, NextPeerOK
<1>4. CASE PageEnd(s) = [s EXCEPT !.phase = "page", !.inPage = 0,
                                  !.start = Height(mem) + 1, !.next = Height(mem) + 1]
  <2>1. PICK n \in Nat : n = Height(mem)
    BY <1>2
  <2>2. PICK u : u = [s EXCEPT !.phase = "page", !.inPage = 0, !.start = n + 1, !.next = n + 1]
    OBVIOUS
  <2>3. /\ IsPaging(u) /\ u.phase = "page" /\ u.peer = s.peer /\ u.tip = s.tip
        /\ u.from = s.from /\ u.next = n + 1
    BY <1>1, <2>2, Zenon DEF IsPaging
  <2>4. TaskOK(u)
    BY <1>1, <2>3 DEF TaskOK
  <2>5. QED
    BY <1>4, <2>1, <2>2, <2>4
<1>5. QED
  BY <1>3, <1>4 DEF PageEnd

\* A step of the task keeps its bookkeeping right.
LEMMA StepTask ==
    ASSUME MemInv, TaskOK(sync), Syncing \/ Losing \/ StartRound
    PROVE  TaskOK(sync')
<1>1. Height(mem) \in Nat
  BY DEF MemInv, Height
<1>2. \A p \in Peers : Len(PeerChain[p]) \in Nat
  BY PeersAssumption
<1>3. CASE StartRound
  BY <1>1, <1>3 DEF StartRound, TaskOK, IsAsking
<1>4. ASSUME NEW p \in Peers, NEW reached, AskPeer(p, reached) PROVE TaskOK(sync')
  <2>1. sync.phase = "ask" /\ IsAsking(sync) /\ sync.from \in Nat
    BY <1>4 DEF AskPeer, TaskOK
  <2>2. CASE sync' = [sync EXCEPT !.peers = @ \ {p}]
    <3>1. IsAsking(sync') /\ sync'.phase = "ask" /\ sync'.from = sync.from
      BY <2>1, <2>2 DEF IsAsking
    <3>2. QED
      BY <2>1, <3>1 DEF TaskOK
  <2>3. CASE sync' = [phase |-> "page", from |-> sync.from, peers |-> sync.peers,
                      rejecting |-> sync.rejecting, peer |-> p, tip |-> Len(PeerChain[p]) - 1,
                      start |-> sync.from + 1, next |-> sync.from + 1,
                      inPage |-> 0, applied |-> 0, proof |-> FALSE]
    <3>1. /\ IsPaging(sync') /\ sync'.phase = "page" /\ sync'.peer = p
          /\ sync'.tip = Len(PeerChain[p]) - 1
          /\ sync'.from = sync.from /\ sync'.next = sync.from + 1
      BY <2>3 DEF IsPaging
    <3>2. QED
      BY <2>1, <3>1 DEF TaskOK
  <2>4. QED
    BY <1>4, <2>2, <2>3 DEF AskPeer
<1>5. ASSUME NEW bft, NEW answered, FetchProof(bft, answered) PROVE TaskOK(sync')
  <2>1. /\ sync.phase = "page" /\ IsPaging(sync) /\ sync.from \in Nat /\ sync.next \in Nat \ {0}
        /\ sync.peer \in Peers /\ sync.tip = Len(PeerChain[sync.peer]) - 1
    BY <1>5 DEF FetchProof, TaskOK
  <2>2. CASE sync' = PageEnd(sync)
    BY <2>1, <2>2, PageEndOK
  <2>3. ASSUME NEW inZone, ~ PageDone(sync),
               sync' = [sync EXCEPT !.phase = "apply", !.proof = inZone]
        PROVE  TaskOK(sync')
    <3>1. /\ IsPaging(sync') /\ sync'.phase = "apply" /\ sync'.peer = sync.peer
          /\ sync'.tip = sync.tip /\ sync'.from = sync.from /\ sync'.next = sync.next
      BY <2>1, <2>3, Zenon DEF IsPaging
    <3>2. sync.next <= sync.tip
      BY <1>2, <2>1, <2>3 DEF PageDone
    <3>3. QED
      BY <2>1, <3>1, <3>2 DEF TaskOK
  <2>4. QED
    BY <1>5, <2>2, <2>3, Zenon DEF FetchProof
<1>6. CASE ApplyForSync
  <2>1. /\ sync.phase = "apply" /\ IsPaging(sync) /\ sync.from \in Nat /\ sync.next \in Nat \ {0}
        /\ sync.peer \in Peers /\ sync.tip = Len(PeerChain[sync.peer]) - 1
    BY <1>6 DEF ApplyForSync, TaskOK
  <2>2. CASE sync' = [sync EXCEPT !.phase = "page", !.next = @ + 1]
    <3>1. /\ IsPaging(sync') /\ sync'.phase = "page" /\ sync'.peer = sync.peer
          /\ sync'.tip = sync.tip /\ sync'.from = sync.from /\ sync'.next = sync.next + 1
      BY <2>1, <2>2, Zenon DEF IsPaging
    <3>2. QED
      BY <2>1, <3>1 DEF TaskOK
  <2>3. CASE sync' = [sync EXCEPT !.phase = "wait"]
    <3>1. /\ IsPaging(sync') /\ sync'.phase = "wait" /\ sync'.peer = sync.peer
          /\ sync'.tip = sync.tip /\ sync'.from = sync.from /\ sync'.next = sync.next
      BY <2>1, <2>3 DEF IsPaging
    <3>2. QED
      BY <2>1, <3>1 DEF TaskOK
  <2>4. QED
    BY <1>6, <2>2, <2>3 DEF ApplyForSync
<1>7. CASE Applied
  <2>1. /\ sync.phase = "wait" /\ IsPaging(sync) /\ sync.from \in Nat /\ sync.next \in Nat \ {0}
        /\ sync.peer \in Peers /\ sync.tip = Len(PeerChain[sync.peer]) - 1
    BY <1>7 DEF Applied, TaskOK
  <2>2. CASE sync' = [sync EXCEPT !.phase = "page", !.next = @ + 1,
                                  !.inPage = @ + 1, !.applied = @ + 1]
    <3>1. /\ IsPaging(sync') /\ sync'.phase = "page" /\ sync'.peer = sync.peer
          /\ sync'.tip = sync.tip /\ sync'.from = sync.from /\ sync'.next = sync.next + 1
      BY <2>1, <2>2, Zenon DEF IsPaging
    <3>2. QED
      BY <2>1, <3>1 DEF TaskOK
  <2>3. CASE sync' = PageEnd(sync)
    BY <2>1, <2>3, PageEndOK
  <2>4. ASSUME NEW R, sync' = NextPeer([sync EXCEPT !.rejecting = R]) PROVE TaskOK(sync')
    <3>1. PICK u : u = [sync EXCEPT !.rejecting = R]
      BY Zenon
    <3>2. u.from = sync.from
      BY <2>1, <3>1 DEF IsPaging
    <3>3. QED
      BY <2>1, <2>4, <3>1, <3>2, NextPeerOK, Zenon
  <2>5. QED
    BY <1>7, <2>2, <2>3, <2>4 DEF Applied
<1>8. CASE EndRound
  BY <1>8 DEF EndRound, TaskOK, Halted, Resting
<1>9. CASE PageLost
  <2>1. IsPaging(sync) /\ sync.from \in Nat
    BY <1>9 DEF PageLost, TaskOK
  <2>2. PICK u : u = [sync EXCEPT !.applied = 0]
    BY Zenon
  <2>3. u.from = sync.from
    BY <2>1, <2>2 DEF IsPaging
  <2>4. QED
    BY <1>9, <2>1, <2>2, <2>3, NextPeerOK, Zenon DEF PageLost
<1>10. QED
  BY <1>3, <1>4, <1>5, <1>6, <1>7, <1>8, <1>9, Zenon DEF Syncing, Losing

\* The block the task is about to offer is one of Blocks.
LEMMA TaskOffers ==
    ASSUME ChainInv, sync.phase = "apply"
    PROVE  BlockOf(PeerChain[sync.peer][sync.next + 1]) \in Blocks
<1>1. /\ sync.next \in Nat /\ sync.peer \in Peers
      /\ sync.next <= Len(PeerChain[sync.peer]) - 1
  BY DEF ChainInv, TaskOK
<1>2. PeerChain[sync.peer] \in Seq(Hashes)
  BY <1>1, PeersAssumption
<1>3. sync.next + 1 \in 1 .. Len(PeerChain[sync.peer])
  BY <1>1, <1>2
<1>4. PeerChain[sync.peer][sync.next + 1] \in Hashes
  BY <1>2, <1>3
<1>5. QED
  BY <1>4, BlockOfKnown

\* What a step of the task does to the ledger: it may offer a block of a peer.
LEMMA StepTaskLedger ==
    ASSUME ChainInv, Syncing \/ Losing \/ StartRound
    PROVE  StoreInv' /\ JobInv' /\ MemInv' /\ AppendOnlyStep
<1>1. CASE db' = db /\ job' = job /\ mem' = mem
  BY <1>1, StepAway DEF ChainInv, MemInv
<1>2. CASE ApplyForSync /\ ~ (sync.next <= Height(mem))
  <2>1. PICK b \in Blocks : b = BlockOf(PeerChain[sync.peer][sync.next + 1])
    BY <1>2, TaskOffers DEF ApplyForSync
  <2>2. ProcessBlock(b, "sync", sync.proof)
    BY <1>2, <2>1 DEF ApplyForSync
  <2>3. QED
    BY <2>2, StepProcess DEF ChainInv, MemInv
<1>3. CASE ApplyForSync /\ sync.next <= Height(mem)
  BY <1>1, <1>3 DEF ApplyForSync, ledgerVars
<1>4. CASE Applied \/ EndRound \/ StartRound \/ PageLost
  BY <1>1, <1>4 DEF Applied, EndRound, StartRound, PageLost, ledgerVars
<1>5. CASE (\E bft \in Published : \E r \in BOOLEAN : FetchProof(bft, r)) \/ (\E p \in Peers : \E r \in BOOLEAN : AskPeer(p, r))
  BY <1>1, <1>5, Zenon DEF FetchProof, AskPeer, ledgerVars
<1>6. QED
  BY <1>2, <1>3, <1>4, <1>5, Zenon DEF Syncing, Losing

(***************************************************************************)
(* The theorems                                                            *)
(***************************************************************************)

\* A node that holds the genesis block only.
LEMMA InitChainInv == Init => ChainInv
<1> SUFFICES ASSUME Init PROVE ChainInv
  OBVIOUS
<1>1. /\ db = [utxos             |-> EmptyState.utxos,
               token_balances    |-> EmptyState.token_balances,
               token_nonces      |-> EmptyState.token_nonces,
               token_supply      |-> EmptyState.token_supply,
               blocks_by_height  |-> [h \in Heights |-> IF h = 0 THEN Genesis ELSE NoHash],
               blocks_by_hash    |-> [h \in Hashes |-> h = Genesis],
               identities        |-> [d \in Dids |-> 0],
               identity_metadata |-> [d \in Dids |-> 0],
               quorum_proofs     |-> {},
               latest            |-> 0]
      /\ mem = NewMemory /\ job = Idle /\ sync = Resting
  BY DEF Init, LedgerInit
<1>2. /\ IsDb(db) /\ db.latest = 0
      /\ db.blocks_by_height = [h \in Heights |-> IF h = 0 THEN Genesis ELSE NoHash]
      /\ db.blocks_by_hash = [h \in Hashes |-> h = Genesis]
  BY <1>1 DEF IsDb
<1>3. PICK g \in Blocks : g.hash = Genesis /\ g.height = 0
  BY BlocksAssumption
<1>4. Genesis \in Hashes /\ BlockOf(Genesis) = g /\ Genesis # NoHash /\ 0 \in Heights
  BY <1>3, BlockOfHash, BlocksAssumption DEF Heights
<1>5. ChainReadable
  <2>1. Readable(0) /\ BlockOf(db.blocks_by_height[0]).height = 0
    BY <1>2, <1>3, <1>4, Zenon DEF Readable
  <2>2. QED
    BY <1>2, <2>1 DEF ChainReadable
<1>6. StoreInv
  BY <1>2, <1>4, <1>5 DEF StoreInv
<1>7. MemInv
  BY <1>1, <1>4 DEF MemInv, IsMem, NewMemory
<1>8. JobInv
  BY <1>1 DEF JobInv, Idle
<1>9. TaskOK(sync)
  BY <1>1 DEF TaskOK, Resting
<1>10. QED
  BY <1>6, <1>7, <1>8, <1>9 DEF ChainInv

\* A crash loses the memory, which restarts from genesis until load_from_store.
LEMMA StepCrash ==
    ASSUME ChainInv, Crash
    PROVE  StoreInv' /\ JobInv' /\ MemInv' /\ AppendOnlyStep
<1>1. db' = db /\ job' = Down /\ mem' = NewMemory
  BY DEF Crash
<1>2. Genesis \in Hashes
  BY BlocksAssumption DEF Hashes
<1>3. MemInv'
  BY <1>1, <1>2 DEF MemInv, IsMem, NewMemory
<1>4. QED
  BY <1>1, <1>3, StepAway DEF ChainInv

\* Every step keeps the invariant and appends only.
LEMMA StepChainInv ==
    ASSUME ChainInv, [Next]_vars
    PROVE  ChainInv' /\ AppendOnlyStep
<1>1. CASE (Processing \/ Failing \/ Finalizing \/ StoringProofs \/ Registering) /\ UNCHANGED syncVars
  <2>1. sync' = sync
    BY <1>1 DEF syncVars
  <2>2. QED
    BY <1>1, <2>1, StepNode DEF ChainInv, TaskOK
<1>2. CASE Crash /\ FreshTask
  <2>1. TaskOK(sync)'
    BY <1>2 DEF FreshTask, TaskOK, Resting
  <2>2. QED
    BY <1>2, <2>1, StepCrash DEF ChainInv
<1>3. CASE Restart /\ UNCHANGED syncVars
  <2>1. sync' = sync
    BY <1>3 DEF syncVars
  <2>2. TaskOK(sync)'
    BY <2>1 DEF ChainInv, TaskOK
  <2>3. QED
    BY <1>3, <2>2, StepRestart DEF ChainInv
<1>4. CASE Syncing \/ Losing \/ StartRound
  <2>1. TaskOK(sync')
    BY <1>4, StepTask DEF ChainInv
  <2>2. QED
    BY <1>4, <2>1, StepTaskLedger DEF ChainInv
<1>5. CASE UNCHANGED vars
  <2>1. db' = db /\ job' = job /\ mem' = mem /\ sync' = sync
    BY <1>5 DEF vars
  <2>2. MemInv' /\ TaskOK(sync)'
    BY <2>1 DEF ChainInv, MemInv, TaskOK
  <2>3. QED
    BY <2>1, <2>2, StepAway DEF ChainInv
<1>6. QED
  BY <1>1, <1>2, <1>3, <1>4, <1>5 DEF Next

\* Whatever blocks are offered by consensus and by peers, in whatever order, and
\* wherever commit_block is interrupted, the stored chain up to latest_height can
\* be read back and is linked.
THEOREM ChainAlwaysReadable == Spec => []ChainReadable
<1>1. Init => ChainInv
  BY InitChainInv
<1>2. ChainInv /\ [Next]_vars => ChainInv'
  BY StepChainInv
<1>3. ChainInv => ChainReadable
  BY DEF ChainInv, StoreInv
<1>4. QED
  BY <1>1, <1>2, <1>3, PTL DEF Spec

\* No step replaces a stored block or lowers latest_height.
THEOREM ChainAppendOnly == Spec => AppendOnly
<1>1. Init => ChainInv
  BY InitChainInv
<1>2. ChainInv /\ [Next]_vars => ChainInv'
  BY StepChainInv
<1>3. ChainInv /\ [Next]_vars => [AppendOnlyStep]_vars
  BY StepChainInv
<1>4. QED
  BY <1>1, <1>2, <1>3, PTL DEF Spec, AppendOnly

(***************************************************************************)
(* The chain in memory                                                     *)
(***************************************************************************)

\* A step that leaves latest_height, the chain in memory and Up alone, and keeps a
\* failed flush recorded.
LEMMA SameMemory ==
    ASSUME StoreInv, MemoryIsStored, AppendOnlyStep, db'.latest = db.latest,
           mem'.chain = mem.chain, Up' => Up, "flush" \in faults => "flush" \in faults'
    PROVE  MemoryIsStored'
<1>1. db.latest \in Nat
  BY BlocksAssumption DEF StoreInv, Heights
<1>2. \A i \in 1 .. db.latest + 1 : db'.blocks_by_height[i - 1] = db.blocks_by_height[i - 1]
  BY <1>1 DEF AppendOnlyStep
<1>3. StoredChain' = StoredChain
  BY <1>2 DEF StoredChain
<1> QED
  BY <1>3 DEF MemoryIsStored

\* The commit point adds the block's hash to both chains.
LEMMA CommitMemory ==
    ASSUME ChainInv, MemoryIsStored, CommitPoint
    PROVE  MemoryIsStored'
<1> DEFINE b == job.block
<1>1. /\ job.phase = "commit" /\ CommitInv /\ IsDb(db) /\ b \in Blocks
      /\ db.latest \in Nat /\ job.left = <<>>
  BY BlocksAssumption DEF CommitPoint, ChainInv, JobInv, StoreInv, Heights
<1>2. /\ db'.latest = db.latest + 1 /\ db'.blocks_by_height = db.blocks_by_height
      /\ db.blocks_by_height[db.latest + 1] = b.hash
  BY <1>1 DEF CommitPoint, CommitInv, Unwritten, IsDb
<1>3. mem'.chain = Append(mem.chain, b.hash)
  BY DEF CommitPoint, Processed, AfterBlock, ChainInv, MemInv, IsMem
<1>4. StoredChain' = Append(StoredChain, b.hash)
  <2>1. /\ StoredChain = [i \in 1 .. db.latest + 1 |-> db.blocks_by_height[i - 1]]
        /\ StoredChain' = [i \in 1 .. db.latest + 2 |-> db.blocks_by_height[i - 1]]
    BY <1>1, <1>2 DEF StoredChain
  <2>2. Len(StoredChain) = db.latest + 1
    BY <1>1, <2>1
  <2>3. Append(StoredChain, b.hash)
          = [i \in 1 .. db.latest + 2 |-> IF i = db.latest + 2 THEN b.hash
                                          ELSE db.blocks_by_height[i - 1]]
    BY <1>1, <2>1, <2>2
  <2> QED
    BY <1>1, <1>2, <2>1, <2>3
<1>5. Up /\ ("flush" \in faults => "flush" \in faults')
  BY <1>1 DEF Up, Down, CommitPoint
<1> QED
  BY <1>3, <1>4, <1>5 DEF MemoryIsStored

\* Every step keeps the chain in memory the stored one.
LEMMA StepMemory ==
    ASSUME ChainInv, MemoryIsStored, [Next]_vars
    PROVE  MemoryIsStored'
<1>1. AppendOnlyStep /\ StoreInv /\ IsDb(db) /\ IsMem(mem)
  BY StepChainInv DEF ChainInv, StoreInv, MemInv
<1>2. CASE CommitPoint
  BY <1>2, CommitMemory
<1>3. CASE FlushFails
  BY <1>3 DEF FlushFails, MemoryIsStored
<1>4. CASE Restart
  <2>1. mem'.chain = StoredChain /\ StoredChain' = StoredChain
    BY <1>1, <1>4 DEF Restart, StoredChain, IsDb
  <2> QED
    BY <2>1 DEF MemoryIsStored
<1>5. CASE Crash
  BY <1>5 DEF Crash, MemoryIsStored, Up
<1>6. ASSUME db'.latest = db.latest, mem'.chain = mem.chain, Up' => Up,
             "flush" \in faults => "flush" \in faults'
      PROVE  MemoryIsStored'
  BY <1>1, <1>6, SameMemory
<1>7. ASSUME NEW b \in Blocks, NEW src, NEW hasProof, ProcessBlock(b, src, hasProof)
      PROVE  MemoryIsStored'
  <2>1. db'.latest = db.latest /\ mem' = mem /\ faults' = faults /\ job = Idle
    BY <1>1, <1>7 DEF ProcessBlock, IsDb
  <2>2. Up
    BY <2>1 DEF Up, Idle, Down
  <2> QED
    BY <1>6, <2>1, <2>2
<1>8. CASE Finalizing
  <2>1. PICK b \in Blocks : CommitFinalized(b)
    BY <1>8, BlocksAssumption DEF Finalizing
  <2>2. CASE ProcessBlock(b, "bft", TRUE)
    BY <1>7, <2>2, Zenon
  <2>3. CASE /\ db' = [db EXCEPT !.quorum_proofs = @ \cup {b.height}]
             /\ UNCHANGED <<tx_active, mem, job, reply, owed, faults, refilled>>
    <3>1. db'.latest = db.latest
      BY <1>1, <2>3 DEF IsDb
    <3> QED
      BY <1>6, <2>3, <3>1 DEF Up
  <2> QED
    BY <2>1, <2>2, <2>3, Zenon DEF CommitFinalized
<1>9. CASE WriteTree
  <2>1. job.phase \in {"commit", "metadata"} /\ mem' = mem /\ faults' = faults
    BY <1>9 DEF WriteTree
  <2>2. Up
    BY <2>1 DEF Up, Down
  <2>3. /\ job.left # <<>>
        /\ db' = [db EXCEPT ![Head(job.left)] = ApplyBatch(@, job.w[Head(job.left)])]
    BY <1>9 DEF WriteTree
  <2>4. Head(job.left) \in StateTrees \cup ChainNames \cup MetadataNames
    <3>1. job.left \in Seq(StateTrees \cup ChainNames) \/ job.left \in Seq(MetadataNames)
      BY <2>1, Zenon DEF ChainInv, JobInv, CommitInv
    <3> QED
      BY <2>3, <3>1, HeadOrTail
  <2>5. db'.latest = db.latest
    BY <1>1, <2>3, <2>4, WriteOne, Zenon
  <2> QED
    BY <1>6, <2>1, <2>2, <2>5
<1>10. CASE FinishMetadata \/ MetadataFails
  <2>1. db' = db /\ mem' = mem /\ job.phase = "metadata" /\ faults \subseteq faults'
    BY <1>10 DEF FinishMetadata, MetadataFails, Finish
  <2> QED
    BY <1>6, <2>1 DEF Up, Down
<1>11. CASE CommitFails
  <2>1. db' = db /\ mem' = mem /\ job.phase = "commit" /\ faults \subseteq faults'
    BY <1>11 DEF CommitFails
  <2> QED
    BY <1>6, <2>1 DEF Up, Down
<1>12. CASE \E stored : SyncProof(stored)
  <2>1. db'.latest = db.latest /\ mem' = mem /\ job.phase = "proof" /\ faults \subseteq faults'
    BY <1>1, <1>12 DEF SyncProof, IsDb
  <2> QED
    BY <1>6, <2>1 DEF Up, Down
<1>13. CASE StoringProofs
  <2>1. db'.latest = db.latest /\ mem' = mem /\ job' = job /\ faults \subseteq faults'
    BY <1>1, <1>13 DEF StoringProofs, PutQuorumProof, IsDb
  <2> QED
    BY <1>6, <2>1 DEF Up
<1>14. CASE Registering
  <2>1. db' = db /\ mem'.chain = mem.chain /\ job' = job /\ faults' = faults
    BY <1>1, <1>14 DEF Registering, RegisterWallet, IsMem
  <2> QED
    BY <1>6, <2>1 DEF Up
<1>15. CASE UNCHANGED <<db, mem, job, faults>>
  BY <1>6, <1>15 DEF Up
<1>16. CASE ApplyForSync
  BY <1>7, <1>15, <1>16, TaskOffers DEF ApplyForSync, ledgerVars
<1> QED
  BY <1>2, <1>3, <1>4, <1>5, <1>8, <1>9, <1>10, <1>11, <1>12, <1>13, <1>14, <1>15, <1>16, Zenon
  DEF Next, vars, Processing, Failing, Syncing, Losing, StartRound, AskPeer, FetchProof,
      Applied, EndRound, PageLost, ledgerVars

\* The chain kept in memory is the stored one, whatever blocks, crashes and failed
\* writes come, until a flush behind a commit point fails.
THEOREM MemoryFollowsStore == Spec => []MemoryIsStored
<1>1. Init => ChainInv /\ MemoryIsStored
  <2> SUFFICES ASSUME Init PROVE MemoryIsStored
    BY InitChainInv
  <2>1. mem.chain = <<Genesis>>
    BY DEF Init, LedgerInit, NewMemory
  <2>2. db.latest = 0 /\ db.blocks_by_height[0] = Genesis
    BY BlocksAssumption DEF Init, LedgerInit, Heights
  <2>3. StoredChain = <<Genesis>>
    BY <2>2 DEF StoredChain
  <2> QED
    BY <2>1, <2>3 DEF MemoryIsStored
<1>2. ChainInv /\ MemoryIsStored /\ [Next]_vars => (ChainInv /\ MemoryIsStored)'
  BY StepChainInv, StepMemory
<1> QED
  BY <1>1, <1>2, PTL DEF Spec

(***************************************************************************)
(* The slot that stays held                                                *)
(***************************************************************************)

\* No step but a crash frees the slot or stores a block.
LEMMA StepWedged ==
    ASSUME ChainInv, [Next]_vars
    PROVE  WedgedUntilRestartStep
<1> SUFFICES ASSUME Wedged PROVE db'.latest = db.latest /\ (Wedged' \/ job' = Down)
  BY DEF WedgedUntilRestartStep
<1>1. IsDb(db) /\ job = Idle /\ job.phase = "idle" /\ tx_active
  BY DEF ChainInv, StoreInv, Wedged, Idle
<1>2. ASSUME NEW b, NEW src, NEW hasProof, ProcessBlock(b, src, hasProof)
      PROVE  db'.latest = db.latest /\ Wedged'
  <2>1. \A r : Refusal(b, r) # "none"
    BY <1>1 DEF Refusal
  <2>2. job' = job /\ tx_active' = tx_active
    BY <1>2, <2>1, Zenon DEF ProcessBlock
  <2>3. db'.latest = db.latest
    BY <1>1, <1>2 DEF ProcessBlock, IsDb
  <2> QED
    BY <1>1, <2>2, <2>3 DEF Wedged
<1>3. CASE Finalizing
  <2>1. PICK b \in Finalized : CommitFinalized(b)
    BY <1>3 DEF Finalizing
  <2>2. CASE ProcessBlock(b, "bft", TRUE)
    BY <1>2, <2>2, Zenon
  <2>3. CASE /\ db' = [db EXCEPT !.quorum_proofs = @ \cup {b.height}]
             /\ UNCHANGED <<tx_active, mem, job, reply, owed, faults, refilled>>
    BY <1>1, <2>3 DEF IsDb, Wedged
  <2> QED
    BY <2>1, <2>2, <2>3, Zenon DEF CommitFinalized
<1>4. CASE StoringProofs
  BY <1>1, <1>4 DEF StoringProofs, PutQuorumProof, IsDb, Wedged
<1>5. CASE Registering
  BY <1>1, <1>5 DEF Registering, RegisterWallet, Wedged
<1>6. CASE Crash
  BY <1>6 DEF Crash
<1>7. CASE UNCHANGED <<db, job, tx_active>>
  BY <1>1, <1>7 DEF Wedged
<1>8. CASE ApplyForSync
  BY <1>2, <1>7, <1>8 DEF ApplyForSync, ledgerVars
<1>9. ~ Restart
  <2>1. Restart => job = Down
    BY DEF Restart
  <2> QED
    BY <1>1, <2>1 DEF Down
<1>10. ~ WriteTree /\ ~ FinishMetadata /\ ~ MetadataFails /\ ~ CommitFails /\ ~ FlushFails
  BY <1>1 DEF WriteTree, FinishMetadata, MetadataFails, CommitFails, FlushFails
<1>11. ~ CommitPoint /\ \A stored : ~ SyncProof(stored)
  BY <1>1 DEF CommitPoint, SyncProof
<1> QED
  BY <1>3, <1>4, <1>5, <1>6, <1>7, <1>8, <1>9, <1>10, <1>11, Zenon
  DEF Next, vars, Processing, Failing, Syncing, Losing, StartRound, AskPeer, FetchProof, Applied, EndRound,
      PageLost, ledgerVars

\* Once the slot of begin_metadata_write is left held, consensus and catch-up alike
\* store nothing until the process ends.
THEOREM SlotStaysHeld == Spec => WedgedUntilRestart
<1>1. Init => ChainInv
  BY InitChainInv
<1>2. ChainInv /\ [Next]_vars => ChainInv'
  BY StepChainInv
<1>3. ChainInv /\ [Next]_vars => [WedgedUntilRestartStep]_vars
  BY StepWedged
<1> QED
  BY <1>1, <1>2, <1>3, PTL DEF Spec, WedgedUntilRestart

(***************************************************************************)
(* The quorum proofs                                                       *)
(***************************************************************************)

\* The height has its proof, or the proof is on its way.
ProofKept(h) ==
    \/ h \in db.quorum_proofs \cup owed
    \/ job.phase \in {"metadata", "proof"} /\ job.block.height = h

NoProofLost == faults \cap {"proof", "postprocess"} = {}

\* A step that stores no block and drops no proof.
LEMMA SameProofs ==
    ASSUME ProofsComplete, db'.latest = db.latest, NoProofLost' => NoProofLost,
           NoProofLost' => \A h : ProofKept(h) => ProofKept(h)'
    PROVE  ProofsComplete'
BY DEF ProofsComplete, ProofKept, NoProofLost

\* The commit point stores a block whose proof the metadata phase stands for.
LEMMA CommitProofs ==
    ASSUME ChainInv, ProofsComplete, CommitPoint
    PROVE  ProofsComplete'
<1> SUFFICES ASSUME NoProofLost'
             PROVE  \A h \in 1 .. db'.latest : ProofKept(h)'
  BY DEF ProofsComplete, ProofKept, NoProofLost
<1>1. /\ job.phase = "commit" /\ IsJob(job) /\ CommitInv /\ IsDb(db) /\ db.latest \in Nat
  BY BlocksAssumption DEF CommitPoint, ChainInv, JobInv, StoreInv, Heights
<1>2. /\ db'.latest = db.latest + 1 /\ job.block.height = db.latest + 1
      /\ db'.quorum_proofs = db.quorum_proofs /\ owed' = owed
  BY <1>1 DEF CommitPoint, CommitInv, IsDb
<1>3. faults' = faults /\ job'.phase = "metadata" /\ job'.block = job.block
  <2> DEFINE r == StageIdentities(mem, job.block)
  <2>1. /\ faults' = IF r.ok THEN faults ELSE faults \cup {"postprocess"}
        /\ r.ok => job' = [job EXCEPT !.phase = "metadata", !.w = r.w, !.left = MetadataTrees]
    BY DEF CommitPoint
  <2> HIDE DEF r
  <2>2. r.ok
    BY <2>1 DEF NoProofLost
  <2> QED
    BY <1>1, <2>1, <2>2, Zenon DEF IsJob
<1>4. \A h \in 1 .. db.latest : h \in db.quorum_proofs \cup owed
  BY <1>1, <1>3 DEF ProofsComplete, NoProofLost
<1> QED
  BY <1>1, <1>2, <1>3, <1>4 DEF ProofKept

\* Every step keeps the account of the proofs.
LEMMA StepProofs ==
    ASSUME ChainInv, ProofsComplete, [Next]_vars
    PROVE  ProofsComplete'
<1>1. IsDb(db) /\ (job.phase \in {"commit", "metadata", "proof"} => IsJob(job))
  BY DEF ChainInv, StoreInv, JobInv
<1>2. CASE CommitPoint
  BY <1>2, CommitProofs
<1>3. CASE FlushFails
  BY <1>3 DEF FlushFails, ProofsComplete
<1>4. CASE Restart
  <2>1. /\ db'.latest = db.latest /\ db'.quorum_proofs = db.quorum_proofs /\ owed' = owed
        /\ job.phase = "down" /\ (NoProofLost' => NoProofLost)
    BY <1>1, <1>4 DEF Restart, IsDb, Down, NoProofLost
  <2> QED
    BY <2>1, SameProofs DEF ProofKept
<1>5. CASE Crash
  <2>1. /\ db' = db /\ owed' = {}
        /\ NoProofLost' => /\ NoProofLost /\ owed = {}
                           /\ job.phase \notin {"metadata", "proof"}
    BY <1>5 DEF Crash, NoProofLost
  <2> QED
    BY <2>1, SameProofs DEF ProofKept
<1>6. ASSUME NEW b \in Blocks, NEW src, NEW hasProof, ProcessBlock(b, src, hasProof)
      PROVE  ProofsComplete'
  <2>1. /\ db'.latest = db.latest /\ db'.quorum_proofs = db.quorum_proofs
        /\ owed' = owed /\ faults' = faults /\ job.phase = "idle"
    BY <1>1, <1>6 DEF ProcessBlock, IsDb, Idle
  <2> QED
    BY <2>1, SameProofs DEF ProofKept, NoProofLost
<1>7. CASE Finalizing
  <2>1. PICK b \in Blocks : CommitFinalized(b)
    BY <1>7, BlocksAssumption DEF Finalizing
  <2>2. CASE ProcessBlock(b, "bft", TRUE)
    BY <1>6, <2>2, Zenon
  <2>3. CASE /\ db' = [db EXCEPT !.quorum_proofs = @ \cup {b.height}]
             /\ UNCHANGED <<tx_active, mem, job, reply, owed, faults, refilled>>
    <3>1. db'.latest = db.latest /\ db.quorum_proofs \subseteq db'.quorum_proofs
      BY <1>1, <2>3 DEF IsDb
    <3> QED
      BY <2>3, <3>1, SameProofs DEF ProofKept, NoProofLost
  <2> QED
    BY <2>1, <2>2, <2>3, Zenon DEF CommitFinalized
<1>8. CASE WriteTree
  <2>1. /\ job.phase \in {"commit", "metadata"} /\ faults' = faults /\ owed' = owed
        /\ job' = [job EXCEPT !.left = Tail(@)] /\ job.left # <<>>
        /\ db' = [db EXCEPT ![Head(job.left)] = ApplyBatch(@, job.w[Head(job.left)])]
    BY <1>8 DEF WriteTree
  <2>2. job'.phase = job.phase /\ job'.block = job.block
    BY <1>1, <2>1 DEF IsJob
  <2>3. Head(job.left) \in StateTrees \cup ChainNames \cup MetadataNames
    <3>1. job.left \in Seq(StateTrees \cup ChainNames) \/ job.left \in Seq(MetadataNames)
      BY <2>1, Zenon DEF ChainInv, JobInv, CommitInv
    <3> QED
      BY <2>1, <3>1, HeadOrTail
  <2>4. db'.latest = db.latest
    BY <1>1, <2>1, <2>3, WriteOne, Zenon
  <2>5. db'.quorum_proofs = db.quorum_proofs
    BY <1>1, <2>1, <2>3 DEF IsDb, StateTrees, ChainNames, MetadataNames
  <2> QED
    BY <2>1, <2>2, <2>4, <2>5, SameProofs DEF ProofKept, NoProofLost
<1>9. CASE FinishMetadata \/ MetadataFails
  <2>1. /\ db' = db /\ job.phase = "metadata" /\ (NoProofLost' => NoProofLost)
        /\ \/ owed' = owed \cup {job.block.height}
           \/ job' = [job EXCEPT !.phase = "proof"] /\ owed' = owed
    BY <1>9 DEF FinishMetadata, MetadataFails, Finish, NoProofLost
  <2>2. CASE owed' = owed \cup {job.block.height}
    BY <2>1, <2>2, SameProofs DEF ProofKept
  <2>3. CASE job' = [job EXCEPT !.phase = "proof"] /\ owed' = owed
    <3>1. job'.phase = "proof" /\ job'.block = job.block
      BY <1>1, <2>1, <2>3 DEF IsJob
    <3> QED
      BY <2>1, <2>3, <3>1, SameProofs DEF ProofKept
  <2> QED
    BY <2>1, <2>2, <2>3
<1>10. CASE CommitFails
  <2>1. db' = db /\ owed' = owed /\ job.phase = "commit" /\ (NoProofLost' => NoProofLost)
    BY <1>10 DEF CommitFails, NoProofLost
  <2> QED
    BY <2>1, SameProofs DEF ProofKept
<1>11. ASSUME NEW stored, SyncProof(stored)
       PROVE  ProofsComplete'
  <2>1. /\ db'.latest = db.latest /\ owed' = owed
        /\ db'.quorum_proofs
              = db.quorum_proofs \cup (IF stored THEN {job.block.height} ELSE {})
        /\ faults' = IF stored THEN faults ELSE faults \cup {"proof"}
    BY <1>1, <1>11 DEF SyncProof, IsDb
  <2>2. CASE stored
    BY <2>1, <2>2, SameProofs DEF ProofKept, NoProofLost
  <2>3. CASE ~ stored
    BY <2>1, <2>3 DEF ProofsComplete
  <2> QED
    BY <2>2, <2>3
<1>12. CASE StoringProofs
  <2>1. PICK h \in owed, stored \in BOOLEAN : PutQuorumProof(h, stored)
    BY <1>12 DEF StoringProofs
  <2>2. /\ db'.latest = db.latest /\ owed' = owed \ {h} /\ job' = job
        /\ db'.quorum_proofs = db.quorum_proofs \cup (IF stored THEN {h} ELSE {})
        /\ faults' = IF stored THEN faults ELSE faults \cup {"proof"}
    BY <1>1, <2>1 DEF PutQuorumProof, IsDb
  <2>3. CASE stored
    BY <2>2, <2>3, SameProofs DEF ProofKept, NoProofLost
  <2>4. CASE ~ stored
    BY <2>2, <2>4 DEF ProofsComplete
  <2> QED
    BY <2>3, <2>4
<1>13. CASE UNCHANGED <<db, job, owed, faults>>
  BY <1>13, SameProofs DEF ProofKept, NoProofLost
<1>14. CASE ApplyForSync
  BY <1>6, <1>13, <1>14, TaskOffers DEF ApplyForSync, ledgerVars
<1>15. CASE Registering
  BY <1>13, <1>15 DEF Registering, RegisterWallet
<1> QED
  BY <1>2, <1>3, <1>4, <1>5, <1>7, <1>8, <1>9, <1>10, <1>11, <1>12, <1>13, <1>14, <1>15, Zenon
  DEF Next, vars, Processing, Failing, Syncing, Losing, StartRound, AskPeer, FetchProof,
      Applied, EndRound, PageLost, ledgerVars

\* A stored block lacks its quorum proof only while the proof is on its way or
\* after a failure, for every interleaving of consensus, catch-up and crashes.
THEOREM ProofsAreComplete == Spec => []ProofsComplete
<1>1. Init => ChainInv /\ ProofsComplete
  <2>1. Init => ProofsComplete
    BY DEF Init, LedgerInit, ProofsComplete
  <2> QED
    BY <2>1, InitChainInv
<1>2. ChainInv /\ ProofsComplete /\ [Next]_vars => (ChainInv /\ ProofsComplete)'
  BY StepChainInv, StepProofs
<1> QED
  BY <1>1, <1>2, PTL DEF Spec

(***************************************************************************)
(* The verdict of the catch-up task                                        *)
(***************************************************************************)

\* p holds another block than ours at a height that we both have.
Diverged(p) ==
    \E h \in 0 .. db.latest : h < Len(PeerChain[p]) /\ PeerChain[p][h + 1] # db.blocks_by_height[h]

\* The peers a round has counted as rejecting us have diverged, and so has the one
\* whose first block was just refused for its hash.
VerdictInv ==
    /\ sync.phase # "rest" => \A p \in sync.rejecting : Diverged(p)
    /\ reply = "mismatch" => sync.phase = "wait" /\ Diverged(sync.peer)

\* A peer that has diverged stays so: our blocks are never replaced.
LEMMA DivergedStays ==
    ASSUME StoreInv, StoreInv', AppendOnlyStep, NEW p, Diverged(p)
    PROVE  Diverged(p)'
<1>1. db.latest \in Nat /\ db'.latest \in Nat
  BY BlocksAssumption DEF StoreInv, Heights
<1>2. PICK h \in 0 .. db.latest : /\ h < Len(PeerChain[p])
                                 /\ PeerChain[p][h + 1] # db.blocks_by_height[h]
  BY DEF Diverged
<1>3. h \in 0 .. db'.latest /\ db'.blocks_by_height[h] = db.blocks_by_height[h]
  BY <1>1 DEF AppendOnlyStep
<1> QED
  BY <1>2, <1>3 DEF Diverged

\* A block of a peer that is refused for its hash: the peer's block before it, at
\* the height of our tip, is not ours.
LEMMA MismatchIsDivergence ==
    ASSUME ChainInv, sync.phase = "apply", NEW r,
           Refusal(BlockOf(PeerChain[sync.peer][sync.next + 1]), r) = "mismatch"
    PROVE  Diverged(sync.peer)
<1> DEFINE b == BlockOf(PeerChain[sync.peer][sync.next + 1])
<1>1. b.height = db.latest + 1 /\ b.prev # db.blocks_by_height[db.latest]
  BY DEF Refusal
<1>2. /\ sync.next \in Nat \ {0} /\ sync.peer \in Peers
      /\ sync.next <= Len(PeerChain[sync.peer]) - 1 /\ db.latest \in Nat
  BY BlocksAssumption DEF ChainInv, TaskOK, StoreInv, Heights
<1>3. Len(PeerChain[sync.peer]) \in Nat
  BY <1>2, PeersAssumption
<1>4. PICK i \in 1 .. Len(PeerChain[sync.peer]) : i = sync.next + 1 /\ i > 1
  BY <1>2, <1>3
<1>5. b.height = i - 1 /\ b.prev = PeerChain[sync.peer][i - 1]
  BY <1>2, <1>4, PeersAssumption
<1> HIDE DEF b
<1>6. sync.next = db.latest + 1 /\ b.prev = PeerChain[sync.peer][db.latest + 1]
  BY <1>1, <1>2, <1>4, <1>5
<1> QED
  BY <1>1, <1>2, <1>3, <1>6 DEF Diverged

\* The peers counted so far are carried along within a round.
LEMMA RejectingKept ==
    ASSUME NEW s, IsPaging(s)
    PROVE  NextPeer(s).rejecting = s.rejecting /\ PageEnd(s).rejecting = s.rejecting
<1>1. NextPeer(s).rejecting = s.rejecting
  BY DEF NextPeer
<1>2. [s EXCEPT !.phase = "page", !.inPage = 0, !.start = Height(mem) + 1,
                !.next = Height(mem) + 1].rejecting = s.rejecting
  BY DEF IsPaging
<1> QED
  BY <1>1, <1>2 DEF PageEnd

\* What a step of the task adds to the peers counted: the one that was asked, if
\* its block did not match.
LEMMA StepRejecting ==
    ASSUME ChainInv, Syncing \/ Losing \/ StartRound
    PROVE  /\ \/ sync'.phase = "rest" \/ sync'.rejecting = {}
              \/ sync.phase # "rest" /\ sync'.rejecting = sync.rejecting
              \/ /\ sync.phase = "wait" /\ reply = "mismatch"
                 /\ sync'.rejecting = sync.rejecting \cup {sync.peer}
           /\ reply' = reply \/ Applied \/ ApplyForSync
<1>1. /\ sync.phase \in {"page", "apply", "wait"} => IsPaging(sync)
      /\ sync.phase = "ask" => IsAsking(sync)
  BY DEF ChainInv, TaskOK
<1>2. CASE StartRound
  BY <1>2 DEF StartRound, ledgerVars
<1>3. ASSUME NEW p, NEW reached, AskPeer(p, reached)
      PROVE  sync.phase # "rest" /\ sync'.rejecting = sync.rejecting /\ reply' = reply
  <2>1. sync.phase = "ask" /\ IsAsking(sync) /\ reply' = reply
    BY <1>1, <1>3 DEF AskPeer, ledgerVars
  <2>2. [sync EXCEPT !.peers = @ \ {p}].rejecting = sync.rejecting
    BY <2>1 DEF IsAsking
  <2> QED
    BY <1>3, <2>1, <2>2 DEF AskPeer
<1>4. ASSUME NEW bft, NEW answered, FetchProof(bft, answered)
      PROVE  sync.phase # "rest" /\ sync'.rejecting = sync.rejecting /\ reply' = reply
  <2>1. sync.phase = "page" /\ IsPaging(sync) /\ reply' = reply
    BY <1>1, <1>4 DEF FetchProof, ledgerVars
  <2>2. PageEnd(sync).rejecting = sync.rejecting
    BY <2>1, RejectingKept
  <2>3. \A z : [sync EXCEPT !.phase = "apply", !.proof = z].rejecting = sync.rejecting
    BY <2>1 DEF IsPaging
  <2> QED
    BY <1>4, <2>1, <2>2, <2>3 DEF FetchProof
<1>5. CASE PageLost
  <2>1. sync.phase = "page" /\ IsPaging(sync) /\ reply' = reply
    BY <1>1, <1>5 DEF PageLost, ledgerVars
  <2>2. [sync EXCEPT !.applied = 0].rejecting = sync.rejecting
    BY <2>1 DEF IsPaging
  <2> QED
    BY <1>5, <2>1, <2>2 DEF PageLost, NextPeer
<1>6. CASE EndRound
  <2>1. sync.phase = "ask" /\ reply' = reply
    BY <1>6 DEF EndRound, ledgerVars
  <2>2. sync' = Halted(sync.rejecting) \/ sync' = Resting
    BY <1>6 DEF EndRound
  <2> QED
    BY <2>1, <2>2 DEF Halted, Resting
<1>7. CASE ApplyForSync
  <2>1. sync.phase = "apply" /\ IsPaging(sync)
    BY <1>1, <1>7 DEF ApplyForSync
  <2>2. /\ [sync EXCEPT !.phase = "page", !.next = @ + 1].rejecting = sync.rejecting
        /\ [sync EXCEPT !.phase = "wait"].rejecting = sync.rejecting
    BY <2>1 DEF IsPaging
  <2>3. \/ sync' = [sync EXCEPT !.phase = "page", !.next = @ + 1]
        \/ sync' = [sync EXCEPT !.phase = "wait"]
    BY <1>7 DEF ApplyForSync
  <2> QED
    BY <1>7, <2>1, <2>2, <2>3, Zenon
<1>8. CASE Applied
  <2>1. sync.phase = "wait" /\ IsPaging(sync)
    BY <1>1, <1>8 DEF Applied
  <2> DEFINE R == sync.rejecting \cup (IF reply = "mismatch" THEN {sync.peer} ELSE {})
  <2>2. \/ sync' = [sync EXCEPT !.phase = "page", !.next = @ + 1,
                                !.inPage = @ + 1, !.applied = @ + 1]
        \/ sync' = PageEnd(sync)
        \/ sync' = NextPeer([sync EXCEPT !.rejecting = R])
    BY <1>8 DEF Applied
  <2>3. /\ [sync EXCEPT !.phase = "page", !.next = @ + 1, !.inPage = @ + 1,
                       !.applied = @ + 1].rejecting = sync.rejecting
        /\ [sync EXCEPT !.rejecting = R].rejecting = R
    BY <2>1 DEF IsPaging
  <2>4. NextPeer([sync EXCEPT !.rejecting = R]).rejecting = R
    BY <2>3 DEF NextPeer
  <2>5. PageEnd(sync).rejecting = sync.rejecting
    BY <2>1, RejectingKept
  <2> QED
    BY <1>8, <2>1, <2>2, <2>3, <2>4, <2>5, Zenon
<1> QED
  BY <1>2, <1>3, <1>4, <1>5, <1>6, <1>7, <1>8, Zenon DEF Syncing, Losing

\* While a block of the task is being processed, the task only waits for the
\* reply.
LEMMA WaitingTask ==
    ASSUME sync.phase = "wait", Syncing \/ Losing \/ StartRound
    PROVE  Applied
<1>1. ~ StartRound
  BY DEF StartRound, Resting
<1>2. \A p, reached : ~ AskPeer(p, reached)
  BY DEF AskPeer
<1>3. \A bft, answered : ~ FetchProof(bft, answered)
  BY DEF FetchProof
<1>4. ~ PageLost /\ ~ EndRound /\ ~ ApplyForSync
  BY DEF PageLost, EndRound, ApplyForSync
<1> QED
  BY <1>1, <1>2, <1>3, <1>4, Zenon DEF Syncing, Losing

\* A step of the task keeps the verdict right.
LEMMA StepTaskVerdict ==
    ASSUME ChainInv, ChainInv', AppendOnlyStep, VerdictInv, Syncing \/ Losing \/ StartRound
    PROVE  VerdictInv'
<1>1. \A p : Diverged(p) => Diverged(p)'
  BY DivergedStays DEF ChainInv
<1>2. sync'.phase # "rest" => \A p \in sync'.rejecting : Diverged(p)'
  BY <1>1, StepRejecting DEF VerdictInv
<1>3. CASE Applied
  BY <1>2, <1>3 DEF Applied, VerdictInv
<1>4. CASE ~ Applied /\ reply' = reply
  <2>1. reply # "mismatch"
    BY <1>4, WaitingTask DEF VerdictInv
  <2> QED
    BY <1>2, <1>4, <2>1 DEF VerdictInv
<1>5. CASE ApplyForSync /\ reply' # reply
  <2> DEFINE b == BlockOf(PeerChain[sync.peer][sync.next + 1])
  <2>1. /\ sync.phase = "apply" /\ IsPaging(sync)
        /\ sync' = [sync EXCEPT !.phase = "wait"]
        /\ ProcessBlock(b, "sync", sync.proof)
    BY <1>5 DEF ApplyForSync, ChainInv, TaskOK, ledgerVars
  <2>2. sync'.phase = "wait" /\ sync'.peer = sync.peer
    BY <2>1 DEF IsPaging
  <2>3. PICK r : reply' = Refusal(b, r)
    BY <1>5, <2>1, Zenon DEF ProcessBlock, Return
  <2>4. reply' = "mismatch" => Diverged(sync.peer)
    BY <2>1, <2>3, MismatchIsDivergence, Zenon
  <2> QED
    BY <1>1, <1>2, <2>2, <2>4 DEF VerdictInv, Diverged
<1> QED
  BY <1>3, <1>4, <1>5, StepRejecting

\* A step of the node neither changes the task nor produces a mismatch.
LEMMA StepNodeVerdict ==
    ASSUME ChainInv, ChainInv', AppendOnlyStep, VerdictInv, sync' = sync,
           reply' # "mismatch" \/ reply' = reply
    PROVE  VerdictInv'
<1>1. \A p : Diverged(p) => Diverged(p)'
  BY DivergedStays DEF ChainInv
<1>2. sync'.phase # "rest" => \A p \in sync'.rejecting : Diverged(p)'
  BY <1>1 DEF VerdictInv
<1>3. reply' = "mismatch" => sync'.phase = "wait" /\ Diverged(sync.peer)'
  BY <1>1 DEF VerdictInv
<1> QED
  BY <1>2, <1>3 DEF VerdictInv, Diverged

\* What a step of the node answers to catch-up sync is no mismatch.
LEMMA NodeAnswers ==
    ASSUME Processing \/ Failing \/ Finalizing \/ StoringProofs \/ Registering \/ Restart
    PROVE  reply' # "mismatch" \/ reply' = reply
<1>1. CASE WriteTree \/ FinishMetadata \/ MetadataFails
  BY <1>1 DEF WriteTree, FinishMetadata, MetadataFails, Finish
<1>2. CASE CommitPoint
  BY <1>2 DEF CommitPoint, Return
<1>3. CASE CommitFails \/ FlushFails
  BY <1>3 DEF CommitFails, FlushFails, Return
<1>4. CASE \E stored : SyncProof(stored)
  BY <1>4 DEF SyncProof, Return
<1>5. CASE Finalizing
  <2>1. PICK b \in Finalized : CommitFinalized(b)
    BY <1>5 DEF Finalizing
  <2>2. CASE ProcessBlock(b, "bft", TRUE)
    BY <2>2, Zenon DEF ProcessBlock, Return
  <2>3. CASE reply' = reply
    BY <2>3
  <2> QED
    BY <2>1, <2>2, <2>3, Zenon DEF CommitFinalized
<1>6. CASE StoringProofs
  BY <1>6 DEF StoringProofs, PutQuorumProof
<1>7. CASE Registering
  BY <1>7, Zenon DEF Registering, RegisterWallet
<1>8. CASE Restart
  BY <1>8 DEF Restart
<1> QED
  BY <1>1, <1>2, <1>3, <1>4, <1>5, <1>6, <1>7, <1>8, Zenon DEF Processing, Failing

\* Every step keeps the verdict right.
LEMMA StepVerdict ==
    ASSUME ChainInv, VerdictInv, [Next]_vars
    PROVE  VerdictInv'
<1>1. ChainInv' /\ AppendOnlyStep
  BY StepChainInv
<1>2. CASE (Processing \/ Failing \/ Finalizing \/ StoringProofs \/ Registering) /\ UNCHANGED syncVars
  BY <1>1, <1>2, NodeAnswers, StepNodeVerdict DEF syncVars
<1>3. CASE Crash /\ FreshTask
  BY <1>3 DEF Crash, FreshTask, Resting, VerdictInv
<1>4. CASE Restart /\ UNCHANGED syncVars
  BY <1>1, <1>4, NodeAnswers, StepNodeVerdict DEF syncVars
<1>5. CASE Syncing \/ Losing \/ StartRound
  BY <1>1, <1>5, StepTaskVerdict
<1>6. CASE UNCHANGED vars
  BY <1>1, <1>6, StepNodeVerdict DEF vars
<1> QED
  BY <1>2, <1>3, <1>4, <1>5, <1>6 DEF Next

\* The catch-up task gives up for good only if every peer that rejected us in its
\* last round holds another block than ours at a height that both have: a late
\* block of consensus, an error or a restart never looks like a wrong chain.
THEOREM HaltMeansDivergence == Spec => []HaltIsDivergence
<1>1. Init => ChainInv /\ VerdictInv
  <2>1. Init => VerdictInv
    BY DEF Init, LedgerInit, VerdictInv, Resting
  <2> QED
    BY <2>1, InitChainInv
<1>2. ChainInv /\ VerdictInv /\ [Next]_vars => (ChainInv /\ VerdictInv)'
  BY StepChainInv, StepVerdict
<1>3. VerdictInv => HaltIsDivergence
  BY DEF VerdictInv, HaltIsDivergence, Diverged
<1> QED
  BY <1>1, <1>2, <1>3, PTL DEF Spec
=============================================================================
