---------------------------- MODULE LedgerProofs ----------------------------
(***************************************************************************)
(* The state trees are what the stored blocks lead to, and their balances  *)
(* and outputs are accounted for, for every set of blocks, every peer and  *)
(* every pattern of crashes and failing writes.                            *)
(*                                                                         *)
(* The argument follows the state a block starts from: the trees on disk   *)
(* or, while commit_block writes them one by one, what they were before    *)
(* it.  A step keeps that state, fills in balances outside a block, or     *)
(* replaces it by what a block leads to.                                   *)
(***************************************************************************)
EXTENDS CatchUpProofs, AccountingProofs

(***************************************************************************)
(* The balances are numbers                                                *)
(***************************************************************************)

\* The greatest of a set of numbers that is bounded above.
LEMMA GreatestOfBounded ==
  ASSUME NEW S \in SUBSET Int, S # {}, NEW m \in Int, \A x \in S : x <= m
  PROVE  Max(S) \in S
<1>. DEFINE T == {m - x : x \in S}
<1>1. T \in SUBSET Nat /\ T # {}
  <2>1. ASSUME NEW x \in S PROVE m - x \in Nat
    <3>1. x \in Int /\ x <= m
      OBVIOUS
    <3>. QED
      BY <3>1
  <2>. QED
    BY <2>1, Zenon
<1>. HIDE DEF T
<1>2. PICK j \in T : \A k \in T : j <= k
  BY <1>1, LeastNumber
<1>3. PICK g \in S : j = m - g
  BY DEF T
<1>4. ASSUME NEW x \in S PROVE g >= x
  <2>1. m - g <= m - x
    BY <1>2, <1>3, Zenon DEF T
  <2>. QED
    BY <2>1
<1>. QED
  BY <1>4, Zenon DEF Max

\* Finitely many numbers have an upper bound.
LEMMA UpperBound ==
  ASSUME NEW n \in Nat, NEW f, \A i \in 1..n : f[i] \in Int
  PROVE  \E m \in Int : \A i \in 1..n : f[i] <= m
<1>. DEFINE Good == {k \in Nat : k <= n => \E m \in Int : \A i \in 1..k : f[i] <= m}
<1>1. 0 \in Good
  <2>1. 0 \in Int /\ \A i \in 1..0 : f[i] <= 0
    OBVIOUS
  <2>. QED
    BY <2>1
<1>2. ASSUME NEW k \in Nat, k \in Good PROVE k + 1 \in Good
  <2>. SUFFICES ASSUME k + 1 <= n PROVE \E m \in Int : \A i \in 1..(k + 1) : f[i] <= m
    OBVIOUS
  <2>1. PICK m \in Int : \A i \in 1..k : f[i] <= m
    BY <1>2
  <2>2. f[k + 1] \in Int
    OBVIOUS
  <2>3. PICK g \in Int : g = IF f[k + 1] <= m THEN m ELSE f[k + 1]
    BY <2>2
  <2>4. ASSUME NEW i \in 1..(k + 1) PROVE f[i] <= g
    <3>1. CASE i = k + 1
      BY <2>2, <2>3, <3>1
    <3>2. CASE i \in 1..k
      <4>1. f[i] \in Int /\ f[i] <= m
        BY <2>1, <3>2
      <4>. QED
        BY <2>2, <2>3, <4>1
    <3>. QED
      BY <3>1, <3>2
  <2>. QED
    BY <2>4
<1>. HIDE DEF Good
<1>3. n \in Good
  BY <1>1, <1>2, SetNatInduction
<1>. QED
  BY <1>3 DEF Good

\* The amounts of some registrations are numbers with an upper bound.
AmountsUpTo(regs, m) == \A tx \in regs : tx.amount \in Int /\ tx.amount <= m

\* The registrations of a block.
LEMMA BlockAmounts ==
  ASSUME NEW b \in Blocks
  PROVE  \E m \in Int : AmountsUpTo(Registrations(b), m)
<1>1. PICK n \in Nat : n = Len(b.txs)
  BY TxsAssumption
<1>2. DOMAIN b.txs = 1..n /\ \A i \in 1..n : WellFormedTx(b.txs[i])
  BY <1>1, TxsAssumption
<1>. DEFINE f == [i \in 1..n |->
                    IF b.txs[i].type = "WalletRegistration" THEN b.txs[i].amount ELSE 0]
<1>3. \A i \in 1..n : f[i] \in Int
  BY <1>2 DEF WellFormedTx
<1>4. \A i \in 1..n : b.txs[i].type = "WalletRegistration" => f[i] = b.txs[i].amount
  OBVIOUS
<1>. HIDE DEF f
<1>5. PICK m \in Int : \A i \in 1..n : f[i] <= m
  BY <1>3, UpperBound, Zenon
<1>6. AmountsUpTo(Registrations(b), m)
  <2>. SUFFICES ASSUME NEW tx \in Registrations(b) PROVE tx.amount \in Int /\ tx.amount <= m
    BY DEF AmountsUpTo
  <2>1. PICK i \in 1..n : b.txs[i].type = "WalletRegistration" /\ tx = b.txs[i]
    BY <1>2 DEF Registrations
  <2>. QED
    BY <1>3, <1>4, <1>5, <2>1
<1>. QED
  BY <1>6

\* The registrations of a chain.
LEMMA ChainAmounts ==
  ASSUME NEW n \in Nat, NEW chain, DOMAIN chain = 1..n, \A i \in 1..n : chain[i] \in Hashes
  PROVE  \E m \in Int : AmountsUpTo(UNION {Registrations(BlockOf(chain[i])) : i \in DOMAIN chain}, m)
<1>. DEFINE f == [i \in 1..n |->
                    CHOOSE m \in Int : AmountsUpTo(Registrations(BlockOf(chain[i])), m)]
<1>1. ASSUME NEW i \in 1..n
      PROVE  f[i] \in Int /\ AmountsUpTo(Registrations(BlockOf(chain[i])), f[i])
  <2>1. \E m \in Int : AmountsUpTo(Registrations(BlockOf(chain[i])), m)
    BY BlockOfKnown, BlockAmounts
  <2>2. f[i] = CHOOSE m \in Int : AmountsUpTo(Registrations(BlockOf(chain[i])), m)
    OBVIOUS
  <2>. HIDE DEF f
  <2>. QED
    BY <2>1, <2>2, Zenon
<1>. HIDE DEF f
<1>2. PICK m \in Int : \A i \in 1..n : f[i] <= m
  BY <1>1, UpperBound, Zenon
<1>3. ASSUME NEW i \in 1..n, NEW tx \in Registrations(BlockOf(chain[i]))
      PROVE  tx.amount \in Int /\ tx.amount <= m
  <2>1. f[i] \in Int /\ f[i] <= m /\ tx.amount \in Int /\ tx.amount <= f[i]
    BY <1>1, <1>2 DEF AmountsUpTo
  <2>. QED
    BY <2>1
<1>. QED
  BY <1>3, Zenon DEF AmountsUpTo

\* A top-up leaves numbers.
LEMMA TopUpOK ==
  ASSUME NEW sov \in [Addresses -> Int], NEW regs, NEW m \in Int, AmountsUpTo(regs, m)
  PROVE  TopUp(sov, regs) \in [Addresses -> Int]
<1>1. ASSUME NEW a \in Addresses
      PROVE  Max({sov[a]} \cup {tx.amount : tx \in {x \in regs : x.to = a}}) \in Int
  <2>. DEFINE S == {sov[a]} \cup {tx.amount : tx \in {x \in regs : x.to = a}}
              g == IF sov[a] <= m THEN m ELSE sov[a]
  <2>1. S \in SUBSET Int /\ S # {} /\ g \in Int
    BY DEF AmountsUpTo
  <2>2. \A x \in S : x <= g
    BY DEF AmountsUpTo
  <2>. HIDE DEF S, g
  <2>3. Max(S) \in S
    BY <2>1, <2>2, GreatestOfBounded, Zenon
  <2>. QED
    BY <2>1, <2>3 DEF S
<1>. QED
  BY <1>1 DEF TopUp

\* Writing balances outside a block adds to what was written so before.
LEMMA RefillOK ==
  ASSUME refilled \in [Addresses -> Nat], NEW entries \in [Addresses -> Int],
         NEW A \in SUBSET Addresses, \A a \in A : entries[a] > 0, Refill(entries, A)
  PROVE  /\ refilled' \in [Addresses -> Nat]
         /\ refilled' = NothingRefilled => refilled = NothingRefilled /\ A = {}
<1>1. ASSUME NEW a \in Addresses
      PROVE  /\ refilled'[a] = refilled[a] + (IF a \in A THEN entries[a] ELSE 0)
             /\ refilled'[a] \in Nat
             /\ refilled'[a] = 0 => refilled[a] = 0 /\ a \notin A
  <2>1. refilled'[a] = refilled[a] + (IF a \in A THEN entries[a] ELSE 0)
    BY DEF Refill
  <2>2. refilled[a] \in Nat /\ entries[a] \in Int /\ (a \in A => entries[a] > 0)
    OBVIOUS
  <2>. QED
    BY <2>1, <2>2
<1>2. refilled' \in [Addresses -> Nat]
  BY <1>1 DEF Refill
<1>3. ASSUME refilled' = NothingRefilled PROVE refilled = NothingRefilled /\ A = {}
  <2>1. \A a \in Addresses : refilled'[a] = 0
    BY <1>3 DEF NothingRefilled
  <2>2. \A a \in Addresses : refilled[a] = 0 /\ a \notin A
    BY <1>1, <2>1
  <2>. QED
    BY <2>2 DEF NothingRefilled
<1>. QED
  BY <1>2, <1>3

\* The balances after missing ones were filled in; filling in none changes none.
LEMMA BackfillOK ==
  ASSUME NEW balances \in [Addresses -> Int], NEW entries \in [Addresses -> Int], NEW A
  PROVE  /\ Backfill(balances, entries, A) \in [Addresses -> Int]
         /\ A = {} => Backfill(balances, entries, A) = balances
BY DEF Backfill

(***************************************************************************)
(* The state a block is staged over                                        *)
(***************************************************************************)

\* Balances in memory, and what was written outside a block, are numbers.
MemoryOK == mem.sov \in [Addresses -> Int] /\ refilled \in [Addresses -> Nat]

\* The batch of the block in progress was staged over the state s, and the trees already
\* written are what the batch makes of the ones of s.
CommitOver(s) ==
    /\ StageBlock(s, job.block).ok
    /\ \A i, j \in 1 .. Len(job.left) : job.left[i] = job.left[j] => i = j
    /\ \A t \in StateTrees :
         /\ job.w[t] = StageBlock(s, job.block).w[t]
         /\ db[t] = IF Unwritten(t) THEN s[t] ELSE ApplyBatch(s[t], job.w[t])

\* s is the state on disk or, while a block is being committed, the state it started from.
Before(s) ==
    /\ Typed(s) /\ s = [t \in StateTrees |-> s[t]]
    /\ job.phase # "commit" => s = State
    /\ job.phase = "commit" => CommitOver(s)

\* The trees on disk hold numbers, in the middle of a commit too.
LEMMA BeforeTyped ==
  ASSUME ChainInv, NEW s, Before(s)
  PROVE  Typed(db)
<1>1. CASE job.phase # "commit"
  <2>1. \A t \in StateTrees : db[t] = s[t]
    BY <1>1 DEF Before, State
  <2>. QED
    BY <2>1 DEF Before, Typed, StateTrees
<1>2. CASE job.phase = "commit"
  <2>1. job.block \in Blocks
    BY <1>2 DEF ChainInv, JobInv
  <2>2. PICK r : r = StageBlock(s, job.block)
    OBVIOUS
  <2>3. BatchOK(r)
    BY <2>1, <2>2, StageBlockOK DEF Before
  <2>4. ASSUME NEW t \in StateTrees
        PROVE  db[t] = s[t] \/ db[t] = After(s, r)[t]
    BY <1>2, <2>2 DEF Before, CommitOver, After
  <2>5. Typed(After(s, r))
    BY <2>3, AfterTyped DEF Before
  <2>. QED
    BY <2>4, <2>5 DEF Before, Typed, StateTrees
<1>. QED
  BY <1>1, <1>2

\* After a step that ends with no block being committed, the state on disk is the one
\* blocks start from.
LEMMA BeforeState ==
  ASSUME Typed(db'), job'.phase # "commit", NEW s, s = State'
  PROVE  Before(s)'
<1>1. \A t \in StateTrees : s[t] = db'[t]
  BY DEF State
<1>2. s = [t \in StateTrees |-> s[t]]
  BY DEF State
<1>3. Typed(s)
  BY <1>1 DEF Typed, StateTrees
<1>. QED
  BY <1>2, <1>3 DEF Before

\* The stored blocks are a chain.
LEMMA StoredChainOf ==
  ASSUME StoreInv
  PROVE  ChainOf(StoredBlocks, db.latest)
<1>1. db.latest \in Nat /\ db.latest \in Heights
      /\ db.blocks_by_height \in [Heights -> Hashes \cup {NoHash}]
  BY BlocksAssumption DEF StoreInv, Heights
<1>2. ASSUME NEW h \in 1 .. db.latest
      PROVE  /\ StoredBlocks[h] = BlockOf(db.blocks_by_height[h])
             /\ db.blocks_by_height[h] \in Hashes
             /\ BlockOf(db.blocks_by_height[h]).height = h
  <2>1. h \in 0 .. db.latest /\ h \in Heights
    BY <1>1, BlocksAssumption DEF Heights
  <2>. QED
    BY <1>1, <2>1 DEF StoredBlocks, StoreInv, ChainReadable, Readable
<1>3. DOMAIN StoredBlocks = 1 .. db.latest
  BY DEF StoredBlocks
<1>. QED
  BY <1>1, <1>2, <1>3, BlockOfKnown DEF ChainOf

\* While latest_height stays, so do the stored blocks.
LEMMA SameBlocks ==
  ASSUME StoreInv, AppendOnlyStep, db'.latest = db.latest
  PROVE  StoredBlocks' = StoredBlocks
<1>1. db.latest \in Nat
  BY BlocksAssumption DEF StoreInv, Heights
<1>2. \A i \in 1 .. db.latest : db'.blocks_by_height[i] = db.blocks_by_height[i]
  BY <1>1 DEF AppendOnlyStep
<1>. QED
  BY <1>2 DEF StoredBlocks

\* What a step does to the state blocks start from: nothing; it fills in balances that
\* are missing; or it adds a block to the chain.
Keeps(s, u) == u = s /\ refilled' = refilled /\ StoredBlocks' = StoredBlocks

Fills(s, u) ==
    /\ \E entries \in [Addresses -> Int], A \in SUBSET Addresses :
         /\ \A a \in A : entries[a] > 0 /\ s.token_balances[a] = 0
         /\ u = [s EXCEPT !.token_balances = Backfill(@, entries, A)]
         /\ Refill(entries, A)
    /\ StoredBlocks' = StoredBlocks

Adds(s, u) ==
    /\ \E b \in Blocks :
         /\ b.height = db.latest + 1
         /\ StageBlock(s, b).ok
         /\ u = After(s, StageBlock(s, b))
         /\ OneMoreBlock(StoredBlocks', StoredBlocks, db.latest, b)
    /\ refilled' = refilled

Effect(s, u) == Keeps(s, u) \/ Fills(s, u) \/ Adds(s, u)

\* Outcome(s): the state u after a step from s, of which only the blocks whose commit is
\* interrupted are left out.
Outcome(s) ==
    /\ MemoryOK'
    /\ "commit" \in faults => "commit" \in faults'
    /\ \E u : Before(u)' /\ ("commit" \in faults' \/ Effect(s, u))

\* commit_block writes every state tree, each once.
LEMMA TreesOnce ==
  /\ \A t \in StateTrees : \E i \in 1 .. Len(BlockTrees) : BlockTrees[i] = t
  /\ \A i, j \in 1 .. Len(BlockTrees) : BlockTrees[i] = BlockTrees[j] => i = j
<1>1. /\ Len(BlockTrees) = 6
      /\ BlockTrees[1] = "blocks_by_height" /\ BlockTrees[2] = "blocks_by_hash"
      /\ BlockTrees[3] = "utxos" /\ BlockTrees[4] = "token_balances"
      /\ BlockTrees[5] = "token_nonces" /\ BlockTrees[6] = "token_supply"
  BY DEF BlockTrees
<1>. QED
  BY <1>1 DEF StateTrees

\* A step that leaves the state trees and latest_height alone.
LEMMA SameState ==
  ASSUME StoreInv, AppendOnlyStep, NEW s, Before(s), db'.latest = db.latest,
         \A t \in StateTrees : db'[t] = db[t], MemoryOK', refilled' = refilled,
         "commit" \in faults => "commit" \in faults',
         \/ job' = job
         \/ job'.phase # "commit" /\ (job.phase # "commit" \/ job.left = BlockTrees)
  PROVE  Outcome(s)
<1>1. Keeps(s, s)
  BY SameBlocks DEF Keeps
<1>2. State' = State
  BY DEF State
<1>3. CASE job' = job
  <2>1. \A t : Unwritten(t)' <=> Unwritten(t)
    BY <1>3 DEF Unwritten
  <2>2. CommitOver(s) => CommitOver(s)'
    BY <1>3, <2>1 DEF CommitOver
  <2>3. Before(s)'
    BY <1>2, <1>3, <2>2 DEF Before
  <2>. QED
    BY <1>1, <2>3 DEF Outcome, Effect
<1>4. CASE job'.phase # "commit" /\ (job.phase # "commit" \/ job.left = BlockTrees)
  <2>1. s = State
    <3>1. CASE job.phase # "commit"
      BY <3>1 DEF Before
    <3>2. CASE job.phase = "commit" /\ job.left = BlockTrees
      <4>1. \A t \in StateTrees : Unwritten(t)
        BY <3>2, TreesOnce DEF Unwritten
      <4>2. \A t \in StateTrees : db[t] = s[t]
        BY <3>2, <4>1 DEF Before, CommitOver
      <4>. QED
        BY <4>2 DEF Before, State
    <3>. QED
      BY <1>4, <3>1, <3>2
  <2>2. Before(s)'
    BY <1>2, <1>4, <2>1 DEF Before
  <2>. QED
    BY <1>1, <2>2 DEF Outcome, Effect
<1>. QED
  BY <1>3, <1>4

\* A commit that is interrupted leaves trees of numbers.
LEMMA InterruptedCommit ==
  ASSUME ChainInv, NEW s, Before(s), db' = db, MemoryOK', "commit" \in faults',
         job'.phase # "commit"
  PROVE  Outcome(s)
<1>1. Typed(db)
  BY BeforeTyped
<1>2. PICK u : u = State'
  OBVIOUS
<1>3. Before(u)'
  BY <1>1, <1>2, BeforeState
<1>. QED
  BY <1>3 DEF Outcome

\* Writing one tree, seen from the state trees.
LEMMA WriteState ==
  ASSUME IsDb(db), NEW t \in StateTrees \cup ChainNames \cup MetadataNames, NEW batch,
         db' = [db EXCEPT ![t] = ApplyBatch(@, batch)], NEW u \in StateTrees
  PROVE  db'[u] = IF u = t THEN ApplyBatch(db[u], batch) ELSE db[u]
<1>1. u \in {"utxos", "token_balances", "token_nonces", "token_supply"}
  BY DEF StateTrees
<1>2. DOMAIN db = {"utxos", "token_balances", "token_nonces", "token_supply",
                   "blocks_by_height", "blocks_by_hash", "identities", "identity_metadata",
                   "quorum_proofs", "latest"}
  BY DEF IsDb
<1>3. u \in DOMAIN db
  BY <1>1, <1>2
<1>. QED
  BY <1>3

\* Filling in balances, seen from the state.
LEMMA FilledState ==
  ASSUME IsDb(db), NEW s, s = State, NEW filled, db' = [db EXCEPT !.token_balances = filled],
         filled \in [Addresses -> Int], Typed(db)
  PROVE  /\ State' = [s EXCEPT !.token_balances = filled] /\ Typed(State')
         /\ db'.latest = db.latest /\ s.token_balances = db.token_balances
<1>1. /\ db'.token_balances = filled /\ db'.utxos = db.utxos
      /\ db'.token_nonces = db.token_nonces /\ db'.token_supply = db.token_supply
      /\ db'.latest = db.latest
  BY DEF IsDb
<1>2. /\ "token_balances" \in StateTrees /\ "utxos" \in StateTrees
      /\ "token_nonces" \in StateTrees /\ "token_supply" \in StateTrees
  BY DEF StateTrees
<1>3. \A t \in StateTrees : s[t] = db[t] /\ State'[t] = db'[t]
  BY DEF State
<1>4. DOMAIN s = StateTrees /\ s = [t \in StateTrees |-> s[t]]
  BY DEF State
<1>5. \A t \in StateTrees : db'[t] = IF t = "token_balances" THEN filled ELSE s[t]
  BY <1>1, <1>3, Zenon DEF StateTrees
<1>6. State' = [s EXCEPT !.token_balances = filled]
  BY <1>4, <1>5 DEF State
<1>7. Typed(State')
  BY <1>1, <1>2, <1>3, Zenon DEF Typed
<1>. QED
  BY <1>1, <1>2, <1>3, <1>6, <1>7

\* A block has been staged and nothing of it written: the state on disk is the one it
\* starts from.
LEMMA BatchStaged ==
  ASSUME Typed(db'), NEW s, s = State', NEW b \in Blocks, StageBlock(db', b).ok,
         job'.phase = "commit", job'.left = BlockTrees, job'.block = b,
         \A t \in StateTrees : job'.w[t] = StageBlock(db', b).w[t]
  PROVE  Before(s)'
<1>1. \A t \in StateTrees : s[t] = db'[t]
  BY DEF State
<1>2. s = [t \in StateTrees |-> s[t]]
  BY DEF State
<1>3. Typed(s)
  BY <1>1 DEF Typed, StateTrees
<1>4. PICK d : d = db'
  OBVIOUS
<1>5. SameTrees(d, s)
  BY <1>1, <1>4 DEF SameTrees, StateTrees
<1>6. StageBlock(d, b) = StageBlock(s, b)
  BY <1>5, StageBlockSame
<1>7. \A t \in StateTrees : Unwritten(t)'
  BY TreesOnce DEF Unwritten
<1>8. CommitOver(s)'
  BY <1>1, <1>4, <1>6, <1>7, TreesOnce DEF CommitOver
<1>. QED
  BY <1>2, <1>3, <1>8 DEF Before

\* A block that is offered: its senders' missing balances are filled in, and it is
\* refused or staged.
LEMMA ProcessEffect ==
  ASSUME ChainInv, AppendOnlyStep, MemoryOK, NEW s, Before(s), NEW b \in Blocks, NEW src,
         NEW hasProof, ProcessBlock(b, src, hasProof)
  PROVE  Outcome(s)
<1>1. /\ IsDb(db) /\ StoreInv /\ Typed(db)
  BY BeforeTyped DEF ChainInv, StoreInv
<1>. DEFINE filled == Backfill(db.token_balances, mem.sov, Seeds(b))
<1>2. /\ db' = [db EXCEPT !.token_balances = filled]
      /\ Refill(mem.sov, Seeds(b)) /\ job = Idle /\ mem' = mem /\ faults' = faults
  BY DEF ProcessBlock
<1>3. /\ Seeds(b) \in SUBSET Addresses
      /\ \A a \in Seeds(b) : mem.sov[a] > 0 /\ db.token_balances[a] = 0
  BY DEF Seeds
<1>4. /\ mem.sov \in [Addresses -> Int] /\ refilled \in [Addresses -> Nat]
      /\ db.token_balances \in [Addresses -> Int]
  BY <1>1 DEF MemoryOK, Typed
<1>5. refilled' \in [Addresses -> Nat]
  BY <1>2, <1>3, <1>4, RefillOK
<1>6. filled \in [Addresses -> Int]
  BY <1>4, BackfillOK
<1>7. s = State
  BY <1>2 DEF Before, Idle
<1>8. /\ State' = [s EXCEPT !.token_balances = Backfill(db.token_balances, mem.sov, Seeds(b))]
      /\ Typed(State')
      /\ db'.latest = db.latest /\ s.token_balances = db.token_balances
  <2>. HIDE DEF filled
  <2>1. /\ State' = [s EXCEPT !.token_balances = filled] /\ Typed(State')
        /\ db'.latest = db.latest /\ s.token_balances = db.token_balances
    BY <1>1, <1>2, <1>6, <1>7, FilledState
  <2>. QED
    BY <2>1 DEF filled
<1>9. PICK u : u = State'
  OBVIOUS
<1>10. Fills(s, u)
  <2>1. StoredBlocks' = StoredBlocks
    BY <1>1, <1>8, SameBlocks
  <2>2. PICK entries, A : entries = mem.sov /\ A = Seeds(b)
    OBVIOUS
  <2>3. /\ \A a \in A : entries[a] > 0 /\ s.token_balances[a] = 0
        /\ u = [s EXCEPT !.token_balances = Backfill(@, entries, A)]
        /\ Refill(entries, A)
    BY <1>2, <1>3, <1>8, <1>9, <2>2 DEF Refill
  <2>4. entries \in [Addresses -> Int] /\ A \in SUBSET Addresses
    BY <1>3, <1>4, <2>2
  <2>. QED
    BY <2>1, <2>3, <2>4 DEF Fills
<1>11. Typed(db')
  BY <1>8 DEF Typed, State, StateTrees
<1>12. \/ job' = Idle
       \/ /\ job'.phase = "commit" /\ job'.block = b /\ job'.left = BlockTrees
          /\ StageBlock(db', b).ok
          /\ \A t \in StateTrees : job'.w[t] = StageBlock(db', b).w[t]
  <2>. DEFINE r == StageBlock(db', b)
              writes == [t \in StateTrees \cup {"blocks_by_height", "blocks_by_hash"} |->
                           CASE t = "blocks_by_height" -> Insert(<<>>, b.height, b.hash)
                             [] t = "blocks_by_hash"   -> Insert(<<>>, b.hash, TRUE)
                             [] OTHER                  -> r.w[t]]
  <2>1. \/ job' = Idle
        \/ /\ Refusal(b, r) = "none"
           /\ job' = [phase |-> "commit", block |-> b, src |-> src,
                      hasProof |-> hasProof, w |-> writes, left |-> BlockTrees]
    BY <1>2, Zenon DEF ProcessBlock
  <2>2. \A t \in StateTrees : writes[t] = r.w[t]
    BY Zenon DEF StateTrees
  <2>. HIDE DEF writes
  <2>3. CASE /\ Refusal(b, r) = "none"
             /\ job' = [phase |-> "commit", block |-> b, src |-> src,
                        hasProof |-> hasProof, w |-> writes, left |-> BlockTrees]
    <3>1. job'.phase = "commit" /\ job'.block = b /\ job'.left = BlockTrees /\ job'.w = writes
      BY <2>3
    <3>2. r.ok
      BY <2>3, Zenon DEF Refusal
    <3>. QED
      BY <2>2, <3>1, <3>2
  <2>. QED
    BY <2>1, <2>3
<1>13. Before(u)'
  <2>1. CASE job' = Idle
    <3>1. job'.phase # "commit"
      BY <2>1 DEF Idle
    <3>. QED
      BY <1>9, <1>11, <3>1, BeforeState
  <2>2. CASE /\ job'.phase = "commit" /\ job'.block = b /\ job'.left = BlockTrees
             /\ StageBlock(db', b).ok
             /\ \A t \in StateTrees : job'.w[t] = StageBlock(db', b).w[t]
    BY <1>9, <1>11, <2>2, BatchStaged
  <2>. QED
    BY <1>12, <2>1, <2>2
<1>14. MemoryOK'
  BY <1>2, <1>4, <1>5 DEF MemoryOK
<1>. QED
  BY <1>2, <1>10, <1>13, <1>14 DEF Outcome, Effect

\* apply_batch of one tree of commit_block.
LEMMA WriteEffect ==
  ASSUME ChainInv, AppendOnlyStep, MemoryOK, NEW s, Before(s), job.phase = "commit", WriteTree
  PROVE  Outcome(s)
<1>. DEFINE h == Head(job.left)
<1>1. /\ IsDb(db) /\ StoreInv /\ IsJob(job) /\ job.left \in Seq(StateTrees \cup ChainNames)
      /\ job.left # <<>>
      /\ db' = [db EXCEPT ![h] = ApplyBatch(@, job.w[h])]
      /\ job' = [job EXCEPT !.left = Tail(@)]
      /\ mem' = mem /\ faults' = faults /\ refilled' = refilled
  BY DEF ChainInv, StoreInv, JobInv, CommitInv, WriteTree
<1>2. /\ job'.phase = "commit" /\ job'.left = Tail(job.left) /\ job'.w = job.w
      /\ job'.block = job.block
  BY <1>1 DEF IsJob
<1>3. PICK t \in StateTrees \cup ChainNames : t = h /\ t = job.left[1]
  BY <1>1, HeadOrTail
<1>4. db'.latest = db.latest
  BY <1>1, <1>3, WriteOne, Zenon
<1>5. ASSUME NEW u \in StateTrees
      PROVE  db'[u] = IF u = t THEN ApplyBatch(db[u], job.w[t]) ELSE db[u]
  <2>1. PICK batch : batch = job.w[t]
    OBVIOUS
  <2>2. db' = [db EXCEPT ![t] = ApplyBatch(@, batch)]
    BY <1>1, <1>3, <2>1
  <2>3. t \in StateTrees \cup ChainNames \cup MetadataNames
    OBVIOUS
  <2>4. db'[u] = IF u = t THEN ApplyBatch(db[u], batch) ELSE db[u]
    BY <1>1, <2>2, <2>3, WriteState, Zenon
  <2>. QED
    BY <2>1, <2>4
<1>6. Keeps(s, s)
  BY <1>1, <1>4, SameBlocks DEF Keeps
<1>7. CommitOver(s)
  BY DEF Before
<1>8. /\ Len(job.left) \in Nat /\ Len(job.left) > 0 /\ Len(Tail(job.left)) = Len(job.left) - 1
      /\ \A i \in 1 .. Len(Tail(job.left)) : Tail(job.left)[i] = job.left[i + 1]
  BY <1>1
<1>9. ASSUME NEW i \in 1 .. Len(job'.left), NEW j \in 1 .. Len(job'.left), job'.left[i] = job'.left[j]
      PROVE  i = j
  <2>1. /\ i + 1 \in 1 .. Len(job.left) /\ j + 1 \in 1 .. Len(job.left)
        /\ job.left[i + 1] = job.left[j + 1]
    BY <1>2, <1>8, <1>9
  <2>2. i + 1 = j + 1
    BY <1>7, <2>1 DEF CommitOver
  <2>. QED
    BY <2>2
<1>10. Unwritten(t) /\ ~ Unwritten(t)'
  BY <1>2, <1>3, <1>7, <1>8 DEF Unwritten, CommitOver
<1>11. ASSUME NEW u, u # t PROVE Unwritten(u)' <=> Unwritten(u)
  <2>1. Unwritten(u)' => Unwritten(u)
    <3>. SUFFICES ASSUME NEW i \in 1 .. Len(Tail(job.left)), Tail(job.left)[i] = u PROVE Unwritten(u)
      BY <1>2 DEF Unwritten
    <3>1. i + 1 \in 1 .. Len(job.left) /\ job.left[i + 1] = u
      BY <1>8
    <3>. QED
      BY <3>1 DEF Unwritten
  <2>2. Unwritten(u) => Unwritten(u)'
    <3>. SUFFICES ASSUME NEW i \in 1 .. Len(job.left), job.left[i] = u PROVE Unwritten(u)'
      BY DEF Unwritten
    <3>1. i # 1
      BY <1>3, <1>11
    <3>2. i - 1 \in 1 .. Len(Tail(job.left)) /\ Tail(job.left)[i - 1] = u
      BY <1>8, <3>1
    <3>. QED
      BY <1>2, <3>2, Zenon DEF Unwritten
  <2>. QED
    BY <2>1, <2>2
<1>12. ASSUME NEW u \in StateTrees
       PROVE  db'[u] = IF Unwritten(u)' THEN s[u] ELSE ApplyBatch(s[u], job.w[u])
  <2>1. CASE u = t
    BY <1>5, <1>7, <1>10, <2>1 DEF CommitOver
  <2>2. CASE u # t
    BY <1>5, <1>7, <1>11, <2>2 DEF CommitOver
  <2>. QED
    BY <2>1, <2>2
<1>13. CommitOver(s)'
  BY <1>2, <1>7, <1>9, <1>12 DEF CommitOver
<1>14. Before(s)'
  BY <1>2, <1>13 DEF Before
<1>15. MemoryOK'
  BY <1>1 DEF MemoryOK
<1>. QED
  BY <1>1, <1>6, <1>14, <1>15 DEF Outcome, Effect

\* latest_height is written: the block now counts among the stored ones.
LEMMA LatestEffect ==
  ASSUME ChainInv, MemoryOK', NEW s, Before(s), job.phase = "commit", job.left = <<>>,
         job'.phase # "commit", db' = [db EXCEPT !.latest = job.block.height],
         refilled' = refilled, "commit" \in faults => "commit" \in faults'
  PROVE  Outcome(s)
<1>1. /\ IsDb(db) /\ CommitInv /\ db.latest \in Nat /\ job.block \in Blocks
  BY BlocksAssumption DEF ChainInv, StoreInv, JobInv, Heights
<1>2. /\ db'.latest = db.latest + 1 /\ db'.blocks_by_height = db.blocks_by_height
      /\ db.blocks_by_height[db.latest + 1] = job.block.hash
      /\ \A t \in StateTrees : db'[t] = db[t]
  BY <1>1 DEF CommitInv, Unwritten, IsDb, StateTrees
<1>3. PICK b \in Blocks : b = job.block
  BY <1>1
<1>4. b.height = db.latest + 1 /\ StageBlock(s, b).ok
  BY <1>1, <1>3 DEF CommitInv, Before, CommitOver
<1>5. OneMoreBlock(StoredBlocks', StoredBlocks, db.latest, b)
  <2>1. BlockOf(job.block.hash) = b
    BY <1>3, BlockOfHash
  <2>. QED
    BY <1>1, <1>2, <2>1 DEF StoredBlocks, OneMoreBlock
<1>6. PICK u : u = State'
  OBVIOUS
<1>7. u = After(s, StageBlock(s, b))
  <2>1. \A t \in StateTrees : ~ Unwritten(t)
    BY DEF Unwritten
  <2>2. \A t \in StateTrees : db[t] = ApplyBatch(s[t], StageBlock(s, b).w[t])
    BY <1>3, <2>1 DEF Before, CommitOver
  <2>. QED
    BY <1>2, <1>6, <2>2 DEF State, After
<1>8. Typed(db')
  <2>1. Typed(db)
    BY BeforeTyped
  <2>. QED
    BY <1>2, <2>1 DEF Typed, StateTrees
<1>9. Before(u)'
  BY <1>6, <1>8, BeforeState
<1>10. Adds(s, u)
  BY <1>4, <1>5, <1>7 DEF Adds
<1>. QED
  BY <1>9, <1>10 DEF Outcome, Effect

\* The commit point: balances are read back into memory and topped up, and the block is
\* not in commit any more.
LEMMA CommitPointMemory ==
  ASSUME ChainInv, MemoryOK, Typed(db), CommitPoint
  PROVE  MemoryOK' /\ job'.phase # "commit"
<1>1. /\ job.block \in Blocks /\ IsMem(mem) /\ IsJob(job)
  BY DEF ChainInv, JobInv, MemInv, CommitPoint
<1>. DEFINE synced == [a \in Addresses |->
                 IF a \in Touched(job.block) THEN db.token_balances[a] ELSE mem.sov[a]]
<1>2. mem'.sov = TopUp(synced, Registrations(job.block))
  BY <1>1 DEF CommitPoint, Processed, AfterBlock, IsMem
<1>3. synced \in [Addresses -> Int]
  BY DEF MemoryOK, Typed
<1>. HIDE DEF synced
<1>4. PICK m \in Int : AmountsUpTo(Registrations(job.block), m)
  BY <1>1, BlockAmounts
<1>5. mem'.sov \in [Addresses -> Int]
  BY <1>2, <1>3, <1>4, TopUpOK
<1>6. refilled' = refilled
  BY DEF CommitPoint
<1>7. job'.phase # "commit"
  <2>1. PICK w, left : job' = Idle \/ job' = [job EXCEPT !.phase = "metadata", !.w = w, !.left = left]
    BY Zenon DEF CommitPoint
  <2>2. [job EXCEPT !.phase = "metadata", !.w = w, !.left = left].phase = "metadata"
    BY <1>1 DEF IsJob
  <2>3. CASE job' = Idle
    BY <2>3 DEF Idle
  <2>4. CASE job' = [job EXCEPT !.phase = "metadata", !.w = w, !.left = left]
    BY <2>2, <2>4
  <2>. QED
    BY <2>1, <2>3, <2>4
<1>. QED
  BY <1>5, <1>6, <1>7 DEF MemoryOK

\* The balances load_from_store replays are numbers.
LEMMA ReplayedNumbers ==
  ASSUME ChainInv, Restart
  PROVE  ReplayedSov(StoredChain) \in [Addresses -> Int]
<1>1. /\ db.latest \in Nat
      /\ db.blocks_by_height \in [Heights -> Hashes \cup {NoHash}]
      /\ db.latest \in Heights /\ \A h \in 0 .. db.latest : Readable(h)
  BY BlocksAssumption DEF ChainInv, StoreInv, Heights, Restart
<1>2. \A i \in 1 .. db.latest + 1 : StoredChain[i] \in Hashes
  BY <1>1, BlocksAssumption DEF Readable, Heights, StoredChain
<1>3. DOMAIN StoredChain = 1 .. db.latest + 1 /\ db.latest + 1 \in Nat
  BY <1>1 DEF StoredChain
<1>4. PICK m \in Int :
        AmountsUpTo(UNION {Registrations(BlockOf(StoredChain[i])) : i \in DOMAIN StoredChain}, m)
  BY <1>2, <1>3, ChainAmounts, Zenon
<1>5. [a \in Addresses |-> 0] \in [Addresses -> Int]
  OBVIOUS
<1>. QED
  BY <1>4, <1>5, TopUpOK, Zenon DEF ReplayedSov

\* load_from_store fills in missing balances.
LEMMA RestartEffect ==
  ASSUME ChainInv, AppendOnlyStep, MemoryOK, NEW s, Before(s), Restart
  PROVE  Outcome(s)
<1>1. IsDb(db) /\ StoreInv /\ Typed(db)
  BY BeforeTyped DEF ChainInv, StoreInv
<1>. DEFINE sov     == ReplayedSov(StoredChain)
            missing == {a \in Addresses : sov[a] > 0 /\ db.token_balances[a] = 0}
            filled  == Backfill(db.token_balances, sov, missing)
<1>2. sov \in [Addresses -> Int]
  BY ReplayedNumbers
<1>3. PICK wallets, ids :
        /\ db' = [db EXCEPT !.token_balances = filled]
        /\ Refill(sov, missing)
        /\ mem' = [chain |-> StoredChain,
                   sov |-> [a \in Addresses |->
                              IF a \in wallets /\ filled[a] > 0 THEN filled[a] ELSE sov[a]],
                   wallets |-> wallets, ids |-> ids]
        /\ job' = Idle
  BY Zenon DEF Restart
<1>4. /\ job = Down /\ job.phase # "commit" /\ job'.phase # "commit"
      /\ "commit" \in faults => "commit" \in faults'
  BY <1>3 DEF Restart, Down, Idle
<1>5. missing \in SUBSET Addresses /\ \A a \in missing : sov[a] > 0 /\ db.token_balances[a] = 0
  OBVIOUS
<1>. HIDE DEF sov, missing
<1>6. filled \in [Addresses -> Int]
  BY <1>1, <1>2, BackfillOK DEF Typed
<1>7. refilled' \in [Addresses -> Nat]
  BY <1>2, <1>3, <1>5, RefillOK DEF MemoryOK
<1>8. s = State
  BY <1>4 DEF Before
<1>9. /\ State' = [s EXCEPT !.token_balances = Backfill(db.token_balances, sov, missing)]
      /\ Typed(State')
      /\ db'.latest = db.latest /\ s.token_balances = db.token_balances
  <2>. HIDE DEF filled
  <2>1. /\ State' = [s EXCEPT !.token_balances = filled] /\ Typed(State')
        /\ db'.latest = db.latest /\ s.token_balances = db.token_balances
    BY <1>1, <1>3, <1>6, <1>8, FilledState
  <2>. QED
    BY <2>1 DEF filled
<1>10. PICK u : u = State'
  OBVIOUS
<1>11. Fills(s, u)
  <2>1. StoredBlocks' = StoredBlocks
    BY <1>1, <1>9, SameBlocks
  <2>2. PICK entries, A : entries = sov /\ A = missing
    OBVIOUS
  <2>3. /\ \A a \in A : entries[a] > 0 /\ s.token_balances[a] = 0
        /\ u = [s EXCEPT !.token_balances = Backfill(@, entries, A)]
        /\ Refill(entries, A)
    BY <1>3, <1>5, <1>9, <1>10, <2>2 DEF Refill
  <2>4. entries \in [Addresses -> Int] /\ A \in SUBSET Addresses
    BY <1>2, <1>5, <2>2
  <2>. QED
    BY <2>1, <2>3, <2>4 DEF Fills
<1>12. Typed(db')
  BY <1>9 DEF Typed, State, StateTrees
<1>13. Before(u)'
  BY <1>4, <1>10, <1>12, BeforeState
<1>14. MemoryOK'
  <2>1. mem'.sov = [a \in Addresses |->
                      IF a \in wallets /\ filled[a] > 0 THEN filled[a] ELSE sov[a]]
    BY <1>3
  <2>. HIDE DEF filled
  <2>2. mem'.sov \in [Addresses -> Int]
    BY <1>2, <1>6, <2>1
  <2>. QED
    BY <1>7, <2>2 DEF MemoryOK
<1>. QED
  BY <1>4, <1>11, <1>13, <1>14 DEF Outcome, Effect

\* What every step does to the state that blocks start from.
LEMMA StepEffect ==
  ASSUME ChainInv, MemoryOK, NEW s, Before(s), [Next]_vars
  PROVE  Outcome(s)
<1>1. /\ AppendOnlyStep /\ StoreInv /\ IsDb(db) /\ IsMem(mem)
      /\ mem.sov \in [Addresses -> Int] /\ refilled \in [Addresses -> Nat]
      /\ job.phase \in {"commit", "metadata", "proof"} => IsJob(job)
  BY StepChainInv DEF ChainInv, StoreInv, MemInv, JobInv, MemoryOK
<1>2. ASSUME db'.latest = db.latest, \A t \in StateTrees : db'[t] = db[t],
             mem'.sov \in [Addresses -> Int], refilled' = refilled,
             "commit" \in faults => "commit" \in faults',
             \/ job' = job
             \/ job'.phase # "commit" /\ (job.phase # "commit" \/ job.left = BlockTrees)
      PROVE  Outcome(s)
  BY <1>1, <1>2, SameState DEF MemoryOK
<1>3. ASSUME NEW heights, db' = [db EXCEPT !.quorum_proofs = heights]
      PROVE  db'.latest = db.latest /\ \A t \in StateTrees : db'[t] = db[t]
  BY <1>1, <1>3 DEF IsDb, StateTrees
<1>4. ASSUME NEW b \in Blocks, NEW src, NEW hasProof, ProcessBlock(b, src, hasProof)
      PROVE  Outcome(s)
  BY <1>1, <1>4, ProcessEffect
<1>5. CASE WriteTree
  <2>1. CASE job.phase = "commit"
    BY <1>1, <1>5, <2>1, WriteEffect
  <2>2. CASE job.phase = "metadata"
    <3>1. /\ job.left \in Seq(MetadataNames) /\ job.left # <<>>
          /\ db' = [db EXCEPT ![Head(job.left)] = ApplyBatch(@, job.w[Head(job.left)])]
          /\ job' = [job EXCEPT !.left = Tail(@)]
          /\ mem' = mem /\ faults' = faults /\ refilled' = refilled
      BY <1>5, <2>2 DEF WriteTree, ChainInv, JobInv
    <3>2. PICK t \in MetadataNames : t = Head(job.left)
      BY <3>1, HeadOrTail
    <3>3. db'.latest = db.latest /\ \A u \in StateTrees : db'[u] = db[u]
      BY <1>1, <3>1, <3>2 DEF IsDb, StateTrees, MetadataNames
    <3>4. job'.phase = "metadata"
      BY <1>1, <2>2, <3>1 DEF IsJob
    <3>. QED
      BY <1>1, <1>2, <2>2, <3>1, <3>3, <3>4
  <2>. QED
    BY <1>5, <2>1, <2>2 DEF WriteTree
<1>6. CASE CommitPoint
  <2>1. MemoryOK' /\ job'.phase # "commit"
    BY <1>6, BeforeTyped, CommitPointMemory
  <2>2. /\ job.phase = "commit" /\ job.left = <<>> /\ refilled' = refilled
        /\ db' = [db EXCEPT !.latest = job.block.height]
        /\ "commit" \in faults => "commit" \in faults'
    BY <1>6 DEF CommitPoint
  <2>. QED
    BY <2>1, <2>2, LatestEffect
<1>7. CASE FlushFails
  <2>1. /\ job.phase = "commit" /\ job.left = <<>> /\ refilled' = refilled
        /\ db' = [db EXCEPT !.latest = job.block.height] /\ mem' = mem
        /\ "commit" \in faults => "commit" \in faults'
        /\ job'.phase # "commit"
    BY <1>7 DEF FlushFails, Idle
  <2>2. MemoryOK'
    BY <2>1 DEF MemoryOK
  <2>. QED
    BY <2>1, <2>2, LatestEffect
<1>8. CASE CommitFails
  <2>1. db' = db /\ mem' = mem /\ refilled' = refilled /\ "commit" \in faults' /\ job'.phase # "commit"
    BY <1>8 DEF CommitFails, Idle
  <2>2. MemoryOK'
    BY <2>1 DEF MemoryOK
  <2>. QED
    BY <2>1, <2>2, InterruptedCommit
<1>9. CASE FinishMetadata \/ MetadataFails
  <2>1. /\ db' = db /\ mem' = mem /\ refilled' = refilled /\ job.phase = "metadata"
        /\ faults \subseteq faults' /\ (job' = Idle \/ job' = [job EXCEPT !.phase = "proof"])
    BY <1>9 DEF FinishMetadata, MetadataFails, Finish
  <2>2. job'.phase # "commit"
    BY <1>1, <2>1 DEF Idle, IsJob
  <2>. QED
    BY <1>1, <1>2, <2>1, <2>2
<1>10. CASE \E stored : SyncProof(stored)
  <2>1. PICK heights : db' = [db EXCEPT !.quorum_proofs = heights]
    BY <1>10, Zenon DEF SyncProof
  <2>2. /\ mem' = mem /\ refilled' = refilled /\ job.phase = "proof" /\ job'.phase # "commit"
        /\ faults \subseteq faults'
    BY <1>10 DEF SyncProof, Idle
  <2>. QED
    BY <1>1, <1>2, <1>3, <2>1, <2>2
<1>11. CASE StoringProofs
  <2>1. PICK heights : db' = [db EXCEPT !.quorum_proofs = heights]
    BY <1>11, Zenon DEF StoringProofs, PutQuorumProof
  <2>2. mem' = mem /\ refilled' = refilled /\ job' = job /\ faults \subseteq faults'
    BY <1>11 DEF StoringProofs, PutQuorumProof
  <2>. QED
    BY <1>1, <1>2, <1>3, <2>1, <2>2
<1>12. CASE Finalizing
  <2>1. PICK b \in Blocks : CommitFinalized(b)
    BY <1>12, BlocksAssumption DEF Finalizing
  <2>2. CASE ProcessBlock(b, "bft", TRUE)
    BY <1>4, <2>2, Zenon
  <2>3. CASE /\ db' = [db EXCEPT !.quorum_proofs = @ \cup {b.height}]
             /\ UNCHANGED <<tx_active, mem, job, reply, owed, faults, refilled>>
    <3>1. PICK heights : db' = [db EXCEPT !.quorum_proofs = heights]
      BY <2>3, Zenon
    <3>. QED
      BY <1>1, <1>2, <1>3, <2>3, <3>1
  <2>. QED
    BY <2>1, <2>2, <2>3, Zenon DEF CommitFinalized
<1>13. CASE Registering
  <2>1. PICK tx \in Submitted : RegisterWallet(tx)
    BY <1>13 DEF Registering
  <2>2. tx.to \in Addresses /\ tx.amount \in Int
    BY SubmittedAssumption DEF WellFormedTx
  <2>3. mem'.sov = [mem.sov EXCEPT ![tx.to] = IF @ = 0 THEN tx.amount ELSE @]
    BY <1>1, <2>1 DEF RegisterWallet, IsMem
  <2>4. mem'.sov \in [Addresses -> Int]
    BY <1>1, <2>2, <2>3
  <2>5. db' = db /\ refilled' = refilled /\ job' = job /\ faults' = faults
    BY <2>1 DEF RegisterWallet
  <2>. QED
    BY <1>2, <2>4, <2>5
<1>14. CASE Crash
  <2>1. /\ db' = db /\ refilled' = refilled /\ job'.phase # "commit" /\ faults \subseteq faults'
        /\ mem'.sov \in [Addresses -> Int]
        /\ job.phase = "commit" /\ job.left # BlockTrees => "commit" \in faults'
    BY <1>14 DEF Crash, Down, NewMemory
  <2>2. CASE job.phase # "commit" \/ job.left = BlockTrees
    BY <1>2, <2>1, <2>2
  <2>3. CASE "commit" \in faults'
    <3>1. MemoryOK'
      BY <1>1, <2>1 DEF MemoryOK
    <3>. QED
      BY <2>1, <2>3, <3>1, InterruptedCommit
  <2>. QED
    BY <2>1, <2>2, <2>3
<1>15. CASE Restart
  BY <1>1, <1>15, RestartEffect
<1>16. CASE UNCHANGED <<db, mem, job, faults, refilled>>
  BY <1>1, <1>2, <1>16
<1>17. CASE ApplyForSync
  BY <1>4, <1>16, <1>17, TaskOffers DEF ApplyForSync, ledgerVars
<1>. QED
  BY <1>5, <1>6, <1>7, <1>8, <1>9, <1>10, <1>11, <1>12, <1>13, <1>14, <1>15, <1>16, <1>17, Zenon
  DEF Next, vars, Processing, Failing, Syncing, Losing, StartRound, AskPeer, FetchProof,
      Applied, EndRound, PageLost, ledgerVars

(***************************************************************************)
(* What the stored blocks say about the state                              *)
(***************************************************************************)

\* As long as nothing was written outside a block, the stored blocks lead to s.
Derived(s) == refilled = NothingRefilled => s = Replay(EmptyState, StoredBlocks)

\* The balances of s add up to the supply and what was written outside a block.
SovLaw(s) == SovGap(s) = SumOver(refilled, Addresses)

\* The trees that filling in balances leaves alone, and the balances it leaves.
LEMMA FilledTrees ==
  ASSUME NEW s, Typed(s), s = [t \in StateTrees |-> s[t]], NEW filled,
         NEW u, u = [s EXCEPT !.token_balances = filled]
  PROVE  /\ u.token_balances = filled /\ u.utxos = s.utxos /\ u.token_supply = s.token_supply
         /\ filled = s.token_balances => u = s
<1>1. DOMAIN s = StateTrees
  OBVIOUS
<1>2. /\ "token_balances" \in StateTrees /\ "utxos" \in StateTrees /\ "token_supply" \in StateTrees
  BY DEF StateTrees
<1>. QED
  BY <1>1, <1>2

\* A step keeps the state derived from the blocks.
LEMMA EffectDerived ==
  ASSUME StoreInv, MemoryOK, NEW s, Typed(s), s = [t \in StateTrees |-> s[t]], NEW u,
         Effect(s, u), Derived(s)
  PROVE  Derived(u)'
<1>1. /\ EmptyState' = EmptyState /\ NothingRefilled' = NothingRefilled
  BY DEF EmptyState, NothingRefilled
<1>. SUFFICES ASSUME refilled' = NothingRefilled PROVE u = Replay(EmptyState, StoredBlocks')
  BY <1>1 DEF Derived
<1>2. CASE Keeps(s, u)
  BY <1>2 DEF Keeps, Derived
<1>3. CASE Fills(s, u)
  <2>1. PICK entries \in [Addresses -> Int], A \in SUBSET Addresses :
          /\ \A a \in A : entries[a] > 0 /\ s.token_balances[a] = 0
          /\ u = [s EXCEPT !.token_balances = Backfill(@, entries, A)]
          /\ Refill(entries, A)
    BY <1>3 DEF Fills
  <2>2. refilled = NothingRefilled /\ A = {}
    BY <2>1, RefillOK DEF MemoryOK
  <2>3. Backfill(s.token_balances, entries, A) = s.token_balances
    BY <2>2, BackfillOK DEF Typed
  <2>4. u = s
    BY <2>1, <2>3, FilledTrees
  <2>. QED
    BY <1>3, <2>2, <2>4 DEF Fills, Derived
<1>4. CASE Adds(s, u)
  <2>1. PICK b \in Blocks :
          /\ u = After(s, StageBlock(s, b))
          /\ OneMoreBlock(StoredBlocks', StoredBlocks, db.latest, b)
    BY <1>4 DEF Adds
  <2>2. PICK q, Q, n : q = StoredBlocks /\ Q = StoredBlocks' /\ n = db.latest
    OBVIOUS
  <2>3. n \in Nat /\ DOMAIN q = 1 .. n
    BY <2>2, StoredChainOf DEF ChainOf
  <2>4. DOMAIN Q = 1 .. n + 1 /\ Q[n + 1] = b /\ \A i \in 1 .. n : q[i] = Q[i]
    BY <2>1, <2>2 DEF OneMoreBlock
  <2>5. Replay(EmptyState, Q)
          = After(Replay(EmptyState, q), StageBlock(Replay(EmptyState, q), Q[n + 1]))
    BY <2>3, <2>4, ReplayOneMore
  <2>6. s = Replay(EmptyState, q)
    BY <1>4, <2>2 DEF Adds, Derived
  <2>. QED
    BY <2>1, <2>2, <2>4, <2>5, <2>6
<1>. QED
  BY <1>2, <1>3, <1>4 DEF Effect

\* A step keeps the SOV accounted for.
LEMMA EffectSov ==
  ASSUME \A b \in Blocks : Separate(b.txs), MemoryOK, NEW s, Typed(s),
         s = [t \in StateTrees |-> s[t]], NEW u, Effect(s, u), SovLaw(s)
  PROVE  SovLaw(u)'
<1>1. CASE Keeps(s, u)
  BY <1>1 DEF Keeps, SovLaw
<1>2. CASE Fills(s, u)
  <2>1. PICK entries \in [Addresses -> Int], A \in SUBSET Addresses :
          /\ \A a \in A : entries[a] > 0 /\ s.token_balances[a] = 0
          /\ u = [s EXCEPT !.token_balances = Backfill(@, entries, A)]
          /\ Refill(entries, A)
    BY <1>2 DEF Fills
  <2>2. PICK f, g, h, k : /\ f = Backfill(s.token_balances, entries, A) /\ g = s.token_balances
                          /\ h = refilled' /\ k = refilled
    OBVIOUS
  <2>3. u.token_balances = f /\ u.token_supply = s.token_supply
    BY <2>1, <2>2, FilledTrees
  <2>4. g \in [Addresses -> Int] /\ k \in [Addresses -> Nat] /\ s.token_supply[SOV] \in Int
    BY <2>2 DEF Typed, MemoryOK
  <2>5. ASSUME NEW a \in Addresses
        PROVE  /\ f[a] = IF a \in A THEN entries[a] ELSE g[a]
               /\ h[a] = k[a] + (IF a \in A THEN entries[a] ELSE 0)
               /\ a \in A => g[a] = 0
    BY <2>1, <2>2, <2>4 DEF Backfill, Refill
  <2>6. ASSUME NEW a \in Addresses
        PROVE  /\ f[a] \in Int /\ g[a] \in Int /\ h[a] \in Int /\ k[a] \in Int
               /\ f[a] - g[a] = h[a] - k[a]
    <3>1. g[a] \in Int /\ k[a] \in Int /\ entries[a] \in Int
      BY <2>4
    <3>. QED
      BY <2>5, <3>1
  <2>7. SumOver(f, Addresses) - SumOver(g, Addresses) = SumOver(h, Addresses) - SumOver(k, Addresses)
    BY <2>6, TxsAssumption, SumDifference
  <2>8. /\ SumOver(f, Addresses) \in Int /\ SumOver(g, Addresses) \in Int
        /\ SumOver(h, Addresses) \in Int /\ SumOver(k, Addresses) \in Int
    BY <2>6, TxsAssumption, SumInt
  <2>9. SumOver(g, Addresses) - s.token_supply[SOV] = SumOver(k, Addresses)
    BY <2>2 DEF SovLaw, SovGap
  <2>10. SumOver(f, Addresses) - s.token_supply[SOV] = SumOver(h, Addresses)
    BY <2>4, <2>7, <2>8, <2>9
  <2>. QED
    BY <2>2, <2>3, <2>10 DEF SovLaw, SovGap
<1>3. CASE Adds(s, u)
  <2>1. PICK b \in Blocks : StageBlock(s, b).ok /\ u = After(s, StageBlock(s, b))
    BY <1>3 DEF Adds
  <2>2. PICK r : r = StageBlock(s, b)
    OBVIOUS
  <2>3. SovKept(s, r) = SovGap(s)
    BY <2>1, <2>2, BlockKeepsSov
  <2>4. /\ u.token_balances = ApplyBatch(s.token_balances, r.w["token_balances"])
        /\ u.token_supply = ApplyBatch(s.token_supply, r.w["token_supply"])
    BY <2>1, <2>2 DEF After, StateTrees
  <2>5. SovGap(u) = SovGap(s)
    BY <2>3, <2>4 DEF SovGap, SovKept, SovWith, SupplyWith
  <2>6. refilled' = refilled
    BY <1>3 DEF Adds
  <2>. QED
    BY <2>5, <2>6 DEF SovLaw
<1>. QED
  BY <1>1, <1>2, <1>3 DEF Effect

\* A step keeps the native outputs accounted for.
LEMMA EffectNative ==
  ASSUME Sound(Blocks), StoreInv, NEW s, Typed(s), s = [t \in StateTrees |-> s[t]], NEW u,
         Effect(s, u), NativeLaw(s.utxos, StoredBlocks)
  PROVE  NativeLaw(u.utxos, StoredBlocks')
<1>1. CASE Keeps(s, u)
  BY <1>1 DEF Keeps
<1>2. CASE Fills(s, u)
  <2>1. PICK filled : u = [s EXCEPT !.token_balances = filled]
    BY <1>2, Zenon DEF Fills
  <2>2. u.utxos = s.utxos
    BY <2>1, FilledTrees
  <2>. QED
    BY <1>2, <2>2 DEF Fills
<1>3. CASE Adds(s, u)
  <2>1. PICK b \in Blocks :
          /\ b.height = db.latest + 1 /\ StageBlock(s, b).ok
          /\ u = After(s, StageBlock(s, b))
          /\ OneMoreBlock(StoredBlocks', StoredBlocks, db.latest, b)
    BY <1>3 DEF Adds
  <2>2. PICK q, Q, n, z : q = StoredBlocks /\ Q = StoredBlocks' /\ n = db.latest /\ z = StageBlock(s, b)
    OBVIOUS
  <2>3. ChainOf(q, n)
    BY <2>2, StoredChainOf
  <2>4. NativeLaw(ApplyBatch(s.utxos, z.w["utxos"]), Q)
    BY <2>1, <2>2, <2>3, NativeLawMore
  <2>5. u.utxos = ApplyBatch(s.utxos, z.w["utxos"])
    BY <2>1, <2>2 DEF After, StateTrees
  <2>. QED
    BY <2>2, <2>4, <2>5
<1>. QED
  BY <1>1, <1>2, <1>3 DEF Effect

(***************************************************************************)
(* The theorems                                                            *)
(***************************************************************************)

\* What holds of the state that blocks start from, as long as no commit was interrupted.
Law(s) ==
    /\ Derived(s)
    /\ (\A b \in Blocks : Separate(b.txs)) => SovLaw(s)
    /\ Sound(Blocks) => NativeLaw(s.utxos, StoredBlocks)

\* The inductive invariant: the laws hold of the state that the block in progress, or
\* the next one, starts from.
StateInv ==
    /\ ChainInv /\ MemoryOK
    /\ \E s : Before(s) /\ ("commit" \notin faults => Law(s))

\* Initially.
LEMMA InitStateInv == Init => StateInv
<1>. SUFFICES ASSUME Init PROVE StateInv
  OBVIOUS
<1>1. /\ db.utxos = EmptyState.utxos /\ db.token_balances = EmptyState.token_balances
      /\ db.token_nonces = EmptyState.token_nonces
      /\ db.token_supply = EmptyState.token_supply
      /\ db.latest = 0 /\ mem.sov = [a \in Addresses |-> 0]
      /\ job = Idle /\ refilled = NothingRefilled
  BY DEF Init, LedgerInit, NewMemory
<1>2. ChainInv
  BY InitChainInv
<1>3. MemoryOK
  BY <1>1 DEF MemoryOK, NothingRefilled
<1>4. EmptyState = [t \in StateTrees |-> EmptyState[t]] /\ Typed(EmptyState)
  BY DEF EmptyState, StateTrees, Typed
<1>5. EmptyState = State
  <2>1. \A t \in StateTrees : db[t] = EmptyState[t]
    BY <1>1 DEF StateTrees
  <2>. QED
    BY <1>4, <2>1 DEF State
<1>6. Before(EmptyState)
  BY <1>1, <1>4, <1>5 DEF Before, Idle
<1>7. DOMAIN StoredBlocks = 1 .. 0
  BY <1>1 DEF StoredBlocks
<1>8. Derived(EmptyState)
  BY <1>7, ReplayNone DEF Derived
<1>9. SovLaw(EmptyState)
  <2>1. SumOver([a \in Addresses |-> 0], Addresses) = 0
    BY TxsAssumption, SumZero
  <2>. QED
    BY <1>1, <2>1 DEF SovLaw, SovGap, EmptyState, NothingRefilled, SOV
<1>10. NativeLaw(EmptyState.utxos, StoredBlocks)
  <2>1. SumOver([o \in Outpoints |-> 0], Outpoints) = 0
    BY TxsAssumption, SumZero
  <2>2. {h \in DOMAIN StoredBlocks : HasCoinbase(StoredBlocks[h])} = {}
    BY <1>7
  <2>3. Cardinality({h \in DOMAIN StoredBlocks : HasCoinbase(StoredBlocks[h])}) = 0
    BY <2>2, FS_EmptySet
  <2>4. BlockReward * 0 = 0
    BY TxsAssumption
  <2>5. EmptyState.utxos = [o \in Outpoints |-> 0]
    BY DEF EmptyState
  <2>6. \A o \in Outpoints : EmptyState.utxos[o] = 0
    BY <2>5
  <2>7. \A h \in DOMAIN StoredBlocks : FALSE
    BY <1>7
  <2>. QED
    BY <2>1, <2>3, <2>4, <2>5, <2>6, <2>7 DEF NativeLaw
<1>11. Law(EmptyState)
  BY <1>8, <1>9, <1>10 DEF Law
<1>. QED
  BY <1>2, <1>3, <1>6, <1>11 DEF StateInv

\* Every step keeps the laws.
LEMMA StepStateInv ==
  ASSUME StateInv, [Next]_vars
  PROVE  StateInv'
<1>1. ChainInv /\ StoreInv /\ MemoryOK /\ ChainInv'
  BY StepChainInv DEF StateInv, ChainInv
<1>2. PICK s : Before(s) /\ ("commit" \notin faults => Law(s))
  BY DEF StateInv
<1>3. Typed(s) /\ s = [t \in StateTrees |-> s[t]]
  BY <1>2 DEF Before
<1>4. Outcome(s)
  BY <1>1, <1>2, StepEffect
<1>5. PICK u : Before(u)' /\ ("commit" \in faults' \/ Effect(s, u))
  BY <1>4 DEF Outcome
<1>6. ASSUME "commit" \notin faults' PROVE Law(u)'
  <2>1. Law(s) /\ Effect(s, u)
    BY <1>2, <1>4, <1>5, <1>6 DEF Outcome
  <2>2. Derived(u)'
    BY <1>1, <1>3, <2>1, EffectDerived DEF Law
  <2>3. (\A b \in Blocks : Separate(b.txs)) => SovLaw(u)'
    BY <1>1, <1>3, <2>1, EffectSov DEF Law
  <2>4. Sound(Blocks) => NativeLaw(u.utxos, StoredBlocks')
    BY <1>1, <1>3, <2>1, EffectNative DEF Law
  <2>. QED
    BY <2>2, <2>3, <2>4 DEF Law
<1>7. MemoryOK'
  BY <1>4 DEF Outcome
<1>. QED
  BY <1>1, <1>5, <1>6, <1>7 DEF StateInv

\* The invariant, between blocks.
LEMMA SettledState ==
  ASSUME StateInv, Settled
  PROVE  Typed(db) /\ Typed(State) /\ ("commit" \notin faults => Law(State))
<1>1. job.phase # "commit"
  BY DEF Settled, Idle, Down
<1>2. PICK s : Before(s) /\ ("commit" \notin faults => Law(s))
  BY DEF StateInv
<1>3. s = State
  BY <1>1, <1>2 DEF Before
<1>4. Typed(db)
  BY <1>2, BeforeTyped DEF StateInv
<1>5. Typed(s)
  BY <1>2 DEF Before
<1>. QED
  BY <1>2, <1>3, <1>4, <1>5

\* In every reachable state.
LEMMA StateInvariant == Spec => []StateInv
<1>1. Init => StateInv
  BY InitStateInv
<1>2. StateInv /\ [Next]_vars => StateInv'
  BY StepStateInv
<1>. QED
  BY <1>1, <1>2, PTL DEF Spec

\* Executing the stored blocks again from genesis gives the state trees on disk,
\* whatever blocks were offered, refused and stored and wherever the process crashed
\* or a flush failed, as long as no commit_block was interrupted between its trees and
\* neither seeding nor load_from_store wrote a balance of its own.
THEOREM StateIsDerivable == Spec => []StateDerivable
<1>1. StateInv => StateDerivable
  <2>. SUFFICES ASSUME StateInv, Settled, "commit" \notin faults, refilled = NothingRefilled
                PROVE  State = Replay(EmptyState, StoredBlocks)
    BY DEF StateDerivable
  <2>. QED
    BY SettledState DEF Law, Derived
<1>. QED
  BY <1>1, StateInvariant, PTL

\* If the transactions of each block touch different keys and no transfer credits the
\* account it debits, the SOV balances on disk add up to the recorded supply and what
\* seeding and load_from_store wrote, whatever is refused, crashes or fails between two
\* blocks: apply_token_transfer, the fee included, and the mints lose and create nothing.
THEOREM SovIsAccounted ==
  ASSUME \A b \in Blocks : Separate(b.txs)
  PROVE  Spec => []SovAccounted
<1>1. StateInv => SovAccounted
  <2>. SUFFICES ASSUME StateInv, Settled, "commit" \notin faults
                PROVE  SumOver(db.token_balances, Addresses)
                         = db.token_supply[SOV] + SumOver(refilled, Addresses)
    BY DEF SovAccounted
  <2>1. SovGap(State) = SumOver(refilled, Addresses) /\ Typed(db)
    BY SettledState DEF Law, SovLaw
  <2>2. State.token_balances = db.token_balances /\ State.token_supply = db.token_supply
    BY DEF State, StateTrees
  <2>3. SumOver(db.token_balances, Addresses) - db.token_supply[SOV] = SumOver(refilled, Addresses)
    BY <2>1, <2>2 DEF SovGap
  <2>4. SumOver(db.token_balances, Addresses) \in Int /\ db.token_supply[SOV] \in Int
    <3>1. IsFiniteSet(Addresses) /\ \A a \in Addresses : db.token_balances[a] \in Int
      BY <2>1, TxsAssumption DEF Typed
    <3>. QED
      BY <2>1, <3>1, SumInt DEF Typed
  <2>. QED
    BY <2>3, <2>4
<1>. QED
  BY <1>1, StateInvariant, PTL

\* If the transactions of each block touch different keys, a hash identifies a native
\* transaction and a coinbase hands on the fees of its block, the native outputs on disk
\* add up to the rewards of the stored blocks: apply_native_transfer and apply_coinbase
\* lose no remainder, and no output is created over one that is not spent.
THEOREM NativeIsAccounted ==
  ASSUME Sound(Blocks)
  PROVE  Spec => []NativeAccounted
<1>1. StateInv => NativeAccounted
  <2>. SUFFICES ASSUME StateInv, Settled, "commit" \notin faults
                PROVE  SumOver(db.utxos, Outpoints) = BlockReward * CoinbaseCount
    BY DEF NativeAccounted
  <2>1. NativeLaw(State.utxos, StoredBlocks)
    BY SettledState DEF Law
  <2>2. State.utxos = db.utxos /\ DOMAIN StoredBlocks = 1 .. db.latest
    BY DEF State, StateTrees, StoredBlocks
  <2>. QED
    BY <2>1, <2>2, Zenon DEF NativeLaw, CoinbaseCount
<1>. QED
  BY <1>1, StateInvariant, PTL

\* A block whose transactions touch different keys stages what executing them one by one
\* writes, in every state the node can be in between blocks.
THEOREM StagingIsSequential == Spec => []StagedIsSequential
<1>1. StateInv => StagedIsSequential
  <2>. SUFFICES ASSUME StateInv, Settled, NEW b \in Blocks, Disjoint(b.txs)
                PROVE  /\ StageTxs(State, b.txs).ok = OneByOne(State, b.txs).ok
                       /\ OneByOne(State, b.txs).ok
                            => After(State, StageTxs(State, b.txs)) = OneByOne(State, b.txs).s
    BY DEF StagedIsSequential
  <2>1. PICK s : s = State
    OBVIOUS
  <2>2. Typed(s)
    BY <2>1, SettledState
  <2>. QED
    BY <2>1, <2>2, StagedSequential
<1>. QED
  BY <1>1, StateInvariant, PTL
=============================================================================
