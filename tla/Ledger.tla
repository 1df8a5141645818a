------------------------------- MODULE Ledger -------------------------------
(***************************************************************************)
(* One node's chain: the Sled block store with its single transaction slot *)
(* (lib-blockchain/src/storage/sled_store.rs), block processing            *)
(* (Blockchain::process_and_commit_block and finish_block_processing in    *)
(* blockchain.rs), the in-memory copies it keeps, and a restart            *)
(* (Blockchain::load_from_store in blockchain/init.rs).                    *)
(*                                                                         *)
(* The blockchain's write lock is held while a block is processed, so one  *)
(* block is in progress at a time; `job` is where it stands.  A crash can  *)
(* fall between any two writes to different trees.  Sled recovers a prefix *)
(* of its log, and everything outside the database is lost at a crash, so  *)
(* losing the last unflushed writes is the same as crashing before them.   *)
(*                                                                         *)
(* `faults` and `refilled` only record what happened, for the properties.  *)
(***************************************************************************)
EXTENDS BlockExecution

CONSTANTS
    Finalized,   \* the blocks consensus finalizes, one per height
    Submitted,   \* wallet registrations submitted to this node's API
    Genesis,     \* the hash of the block at height 0
    MaxHeight,   \* bound on the chain
    Dids,        \* identities
    NoHash       \* an absent entry of blocks_by_height

VARIABLES
    db,          \* the trees on disk and latest_height
    tx_active,   \* SledStore::tx_active
    mem,         \* the Blockchain object
    job,         \* the block being processed
    reply,       \* what the last block handed in by catch-up sync returned
    owed,        \* heights whose quorum proof is still to be persisted
    faults,      \* the kinds of failure that have happened
    refilled     \* SOV written into token_balances outside a block, per address

ledgerVars == <<db, tx_active, mem, job, reply, owed, faults, refilled>>

Heights == 0 .. MaxHeight

Hashes == {b.hash : b \in Blocks}

BlockOf(h) == CHOOSE b \in Blocks : b.hash = h

\* A hash identifies its block.
ASSUME BlocksAssumption ==
    /\ MaxHeight \in Nat
    /\ \A b \in Blocks : b.height \in Heights /\ b.hash # NoHash
    /\ \A a, b \in Blocks : a.hash = b.hash => a = b
    /\ \E b \in Blocks : b.hash = Genesis /\ b.height = 0
    /\ Finalized \subseteq Blocks

\* Wallet registrations are all that reaches the chain through the API.
ASSUME SubmittedAssumption ==
    \A tx \in Submitted : tx.type = "WalletRegistration" /\ WellFormedTx(tx)

\* Fault: the block data is not committed.
trees_without_block_data ==
    <<"blocks_by_height", "utxos", "token_balances", "token_nonces", "token_supply">>

\* Fault: the nonces are not committed.
trees_without_nonces ==
    <<"blocks_by_height", "blocks_by_hash", "utxos", "token_balances", "token_supply">>

\* The trees commit_block writes, in its order, before latest_height; and the
\* ones of commit_metadata_write.
BlockTrees ==
    <<"blocks_by_height", "blocks_by_hash", "utxos", "token_balances",
      "token_nonces", "token_supply">>

MetadataTrees == <<"identities", "identity_metadata">>

Idle == [phase |-> "idle"]

Down == [phase |-> "down"]

Up == job # Down

\* The chain the store serves: get_block_by_height for 0 .. latest_height.
StoredChain == [i \in 1 .. db.latest + 1 |-> db.blocks_by_height[i - 1]]

Height(m) == Len(m.chain) - 1

State == [t \in StateTrees |-> db[t]]

\* Genesis is stored as it is: the executor runs none of its transactions.
EmptyState ==
    [utxos          |-> [o \in Outpoints |-> 0],
     token_balances |-> [a \in Addresses |-> 0],
     token_nonces   |-> [a \in Addresses |-> 0],
     token_supply   |-> [t \in {SOV} |-> 0]]

NewMemory ==
    [chain   |-> <<Genesis>>,
     sov     |-> [a \in Addresses |-> 0],
     wallets |-> {},
     ids     |-> [d \in Dids |-> 0]]

NothingRefilled == [a \in Addresses |-> 0]

LedgerInit ==
    /\ db = [utxos             |-> EmptyState.utxos,
             token_balances    |-> EmptyState.token_balances,
             token_nonces      |-> EmptyState.token_nonces,
             token_supply      |-> EmptyState.token_supply,
             blocks_by_height  |-> [h \in Heights |-> IF h = 0 THEN Genesis ELSE NoHash],
             blocks_by_hash    |-> [h \in Hashes |-> h = Genesis],
             identities        |-> [d \in Dids |-> 0],
             identity_metadata |-> [d \in Dids |-> 0],
             quorum_proofs     |-> {},
             latest            |-> 0]
    /\ tx_active = FALSE
    /\ mem = NewMemory
    /\ job = Idle
    /\ reply = "none"
    /\ owed = {}
    /\ faults = {}
    /\ refilled = NothingRefilled

(***************************************************************************)
(* Entering a block                                                        *)
(***************************************************************************)

\* [seed-sled]: a sender whose balance is in memory but not on disk is written
\* to disk before the block, outside any transaction, unless one is active.
Seeds(b) ==
    IF tx_active THEN {}
    ELSE {a \in Addresses : /\ db.token_balances[a] = 0
                            /\ mem.sov[a] > 0
                            /\ \E i \in DOMAIN b.txs : /\ b.txs[i].type = "TokenTransfer"
                                                       /\ b.txs[i].from = a}

\* backfill_token_balances_from_contract: only missing entries are written.
Backfill(balances, entries, A) ==
    [a \in DOMAIN balances |->
        IF a \in A /\ balances[a] = 0 THEN entries[a] ELSE balances[a]]

Refill(entries, A) ==
    refilled' = [a \in Addresses |-> refilled[a] + (IF a \in A THEN entries[a] ELSE 0)]

\* Fault: a block at the height of the tip is taken.
refuse_below_tip(b, r) ==
    IF b.height \notin {db.latest, db.latest + 1} THEN "error"
    ELSE IF b.height = 0 \/ b.prev # db.blocks_by_height[b.height - 1] THEN "mismatch"
    ELSE IF tx_active \/ ~ r.ok THEN "error"
    ELSE "none"

\* Fault: a wrong height is reported as a mismatch of hashes.
refuse_height_as_mismatch(b, r) ==
    IF b.height # db.latest + 1 \/ b.prev # db.blocks_by_height[db.latest] THEN "mismatch"
    ELSE IF tx_active \/ ~ r.ok THEN "error"
    ELSE "none"

\* Fault: the transaction slot is not looked at.
refuse_without_slot(b, r) ==
    IF b.height # db.latest + 1 THEN "error"
    ELSE IF b.prev # db.blocks_by_height[db.latest] THEN "mismatch"
    ELSE IF ~ r.ok THEN "error"
    ELSE "none"

\* validate_header, begin_block and the validation of the transactions.
Refusal(b, r) ==
    IF b.height # db.latest + 1 THEN "error"
    ELSE IF b.prev # db.blocks_by_height[db.latest] THEN "mismatch"
    ELSE IF tx_active \/ ~ r.ok THEN "error"
    ELSE "none"

\* A caller of process_and_commit_block gets its answer.
Return(src, answer) == reply' = IF src = "sync" THEN answer ELSE reply

\* process_and_commit_block up to commit_block: seeding, validation, staging.
ProcessBlock(b, src, hasProof) ==
    /\ job = Idle
    /\ LET seeds   == Seeds(b)
           seeded  == [db EXCEPT !.token_balances = Backfill(@, mem.sov, seeds)]
           r       == StageBlock(seeded, b)
           refusal == Refusal(b, r)
           writes  == [t \in StateTrees \cup {"blocks_by_height", "blocks_by_hash"} |->
                         CASE t = "blocks_by_height" -> Insert(<<>>, b.height, b.hash)
                           [] t = "blocks_by_hash"   -> Insert(<<>>, b.hash, TRUE)
                           [] OTHER                  -> r.w[t]]
       IN  /\ db' = seeded
           /\ Refill(mem.sov, seeds)
           /\ IF refusal # "none"
              THEN Return(src, refusal) /\ UNCHANGED <<tx_active, job>>
              ELSE /\ tx_active' = TRUE
                   /\ job' = [phase |-> "commit", block |-> b, src |-> src,
                              hasProof |-> hasProof, w |-> writes, left |-> BlockTrees]
                   /\ UNCHANGED reply
    /\ UNCHANGED <<mem, owed, faults>>

\* commit_finalized_block_with_proof, which consensus awaits: a block below the
\* tip that is already in the chain only has its proof stored, any other goes
\* to add_block.
CommitFinalized(b) ==
  /\ owed = {}
  /\ IF Height(mem) > b.height /\ mem.chain[b.height + 1] = b.hash
     THEN /\ job = Idle
          /\ db' = [db EXCEPT !.quorum_proofs = @ \cup {b.height}]
          /\ UNCHANGED <<tx_active, mem, job, reply, owed, faults, refilled>>
     ELSE ProcessBlock(b, "bft", TRUE)

(***************************************************************************)
(* commit_block: one tree after the other, latest_height last              *)
(***************************************************************************)

\* One apply_batch of commit_block or of commit_metadata_write.
WriteTree ==
    /\ job.phase \in {"commit", "metadata"}
    /\ job.left # <<>>
    /\ LET t == Head(job.left) IN db' = [db EXCEPT ![t] = ApplyBatch(@, job.w[t])]
    /\ job' = [job EXCEPT !.left = Tail(@)]
    /\ UNCHANGED <<tx_active, mem, reply, owed, faults, refilled>>

\* apply_batch fails: commit_block returns early, its guard frees the slot and
\* the rollback that follows finds no transaction to roll back.
CommitFails ==
    /\ job.phase = "commit"
    /\ tx_active' = FALSE
    /\ job' = Idle
    /\ Return(job.src, "error")
    /\ faults' = faults \cup {"commit"}
    /\ UNCHANGED <<db, mem, owed, refilled>>

\* The in-memory SOV balances of the addresses a block touched are read back
\* from disk, then its wallet registrations are topped up.
Touched(b) ==
    UNION {CASE b.txs[i].type = "TokenTransfer" -> {b.txs[i].from, b.txs[i].to}
             [] b.txs[i].type = "TokenMint"     -> {b.txs[i].to}
             [] OTHER                           -> {} : i \in DOMAIN b.txs}

Registrations(b) ==
    {b.txs[i] : i \in {j \in DOMAIN b.txs : b.txs[j].type = "WalletRegistration"}}

TopUp(sov, regs) ==
    [a \in DOMAIN sov |-> Max({sov[a]} \cup {tx.amount : tx \in {x \in regs : x.to = a}})]

AfterBlock(m, b) ==
    LET synced == [a \in Addresses |->
                     IF a \in Touched(b) THEN db.token_balances[a] ELSE m.sov[a]]
    IN  [m EXCEPT !.chain = Append(@, b.hash),
                  !.sov = TopUp(synced, Registrations(b)),
                  !.wallets = @ \cup {tx.to : tx \in Registrations(b)}]

\* persist_identity_registration, _update and _revocation: two trees.
PutIdentity(w, d, v) == [t \in DOMAIN w |-> Insert(w[t], d, v)]

\* process_identity_transactions.  An update needs the identity in memory and,
\* after memory has been changed, its two records in the committed trees.
StageIdentity(r, tx) ==
    LET d      == tx.did
        put(v) == PutIdentity(r.w, d, v)
        set(v) == [r.ids EXCEPT ![d] = v]
    IN  IF ~ r.ok THEN r
        ELSE CASE tx.type = "IdentityRegistration" ->
                    [r EXCEPT !.ids = set(tx.doc), !.w = put(tx.doc)]
               [] tx.type = "IdentityUpdate" ->
                    IF r.ids[d] = 0 THEN [r EXCEPT !.ok = FALSE]
                    ELSE IF db.identities[d] = 0 \/ db.identity_metadata[d] = 0
                    THEN [r EXCEPT !.ok = FALSE, !.ids = set(tx.doc)]
                    ELSE [r EXCEPT !.ids = set(tx.doc), !.w = put(tx.doc)]
               [] tx.type = "IdentityRevocation" ->
                    [r EXCEPT !.ids = set(0), !.w = put(0)]
               [] OTHER -> r

StageIdentities(m, b) ==
    FoldLeft(StageIdentity,
             [ok |-> TRUE, ids |-> m.ids,
              w  |-> [t \in {"identities", "identity_metadata"} |-> <<>>]], b.txs)

\* Fault: a block whose post-processing fails is not pushed.
process_before_push(m, b, r) ==
    IF r.ok THEN [AfterBlock(m, b) EXCEPT !.ids = r.ids] ELSE [m EXCEPT !.ids = r.ids]

\* The in-memory chain has the block even if its post-processing fails.
Processed(m, b, r) == [AfterBlock(m, b) EXCEPT !.ids = r.ids]

\* The commit point, then the memory side of the block, up to the metadata
\* write.  If post-processing fails, process_and_commit_block returns with the
\* slot of begin_metadata_write still held.
CommitPoint ==
    /\ job.phase = "commit" /\ job.left = <<>>
    /\ db' = [db EXCEPT !.latest = job.block.height]
    /\ LET r == StageIdentities(mem, job.block)
       IN  /\ mem' = Processed(mem, job.block, r)
           /\ IF r.ok
              THEN /\ job' = [job EXCEPT !.phase = "metadata", !.w = r.w, !.left = MetadataTrees]
                   /\ UNCHANGED reply
              ELSE /\ job' = Idle
                   /\ Return(job.src, "error")
           /\ faults' = IF r.ok THEN faults ELSE faults \cup {"postprocess"}
    /\ tx_active' = TRUE
    /\ UNCHANGED <<owed, refilled>>

\* latest_height is written but the flush fails: an error is returned for a
\* block that the store already serves.
FlushFails ==
    /\ job.phase = "commit" /\ job.left = <<>>
    /\ db' = [db EXCEPT !.latest = job.block.height]
    /\ tx_active' = FALSE
    /\ job' = Idle
    /\ Return(job.src, "error")
    /\ faults' = faults \cup {"flush", "proof"}
    /\ UNCHANGED <<mem, owed, refilled>>

\* Fault: the consensus callback forgets the proof.
finish_without_proof ==
    /\ tx_active' = FALSE
    /\ job' = IF job.src = "bft" THEN Idle ELSE [job EXCEPT !.phase = "proof"]
    /\ UNCHANGED <<db, mem, reply, owed, refilled>>

\* The block is processed.  The consensus callback stores the proof after it
\* has released the lock, catch-up sync before.
Finish ==
    /\ tx_active' = FALSE
    /\ IF job.src = "bft"
       THEN job' = Idle /\ owed' = owed \cup {job.block.height}
       ELSE job' = [job EXCEPT !.phase = "proof"] /\ UNCHANGED owed
    /\ UNCHANGED <<db, mem, reply, refilled>>

FinishMetadata ==
    /\ job.phase = "metadata" /\ job.left = <<>>
    /\ Finish
    /\ UNCHANGED faults

\* A failing metadata write is only logged.
MetadataFails ==
    /\ job.phase = "metadata"
    /\ Finish
    /\ faults' = faults \cup {"metadata"}

\* catchup_sync_from_peer: the verified proof, if any, and the reply.
SyncProof(stored) ==
    /\ job.phase = "proof"
    /\ stored => job.hasProof
    /\ db' = [db EXCEPT !.quorum_proofs = @ \cup (IF stored THEN {job.block.height} ELSE {})]
    /\ job' = Idle
    /\ Return(job.src, "ok")
    /\ faults' = IF stored THEN faults ELSE faults \cup {"proof"}
    /\ UNCHANGED <<tx_active, mem, owed, refilled>>

\* put_quorum_proof of the consensus callback, which takes the lock again for
\* it; its failure is not fatal.
PutQuorumProof(h, stored) ==
    /\ h \in owed
    /\ job = Idle
    /\ db' = [db EXCEPT !.quorum_proofs = @ \cup (IF stored THEN {h} ELSE {})]
    /\ owed' = owed \ {h}
    /\ faults' = IF stored THEN faults ELSE faults \cup {"proof"}
    /\ UNCHANGED <<tx_active, mem, job, reply, refilled>>

\* Blockchain::register_wallet: an API call credits the wallet in memory ahead
\* of the block that will register it.
RegisterWallet(tx) ==
    /\ job = Idle
    /\ tx.to \notin mem.wallets
    /\ mem' = [mem EXCEPT !.wallets = @ \cup {tx.to},
                          !.sov[tx.to] = IF @ = 0 THEN tx.amount ELSE @]
    /\ UNCHANGED <<db, tx_active, job, reply, owed, faults, refilled>>

(***************************************************************************)
(* Crash and restart                                                       *)
(***************************************************************************)

Crash ==
    /\ Up
    /\ faults' = faults
         \cup (IF job.phase = "commit" /\ job.left # BlockTrees THEN {"commit"} ELSE {})
         \cup (IF job.phase = "metadata" THEN {"metadata"} ELSE {})
         \cup (IF job.phase \in {"metadata", "proof"} \/ owed # {} THEN {"proof"} ELSE {})
    /\ job' = Down
    /\ tx_active' = FALSE
    /\ owed' = {}
    /\ reply' = "none"
    /\ mem' = NewMemory
    /\ UNCHANGED <<db, refilled>>

\* get_block_by_height: the height index and the block data must both be there.
Readable(h) == db.blocks_by_height[h] # NoHash /\ db.blocks_by_hash[db.blocks_by_height[h]]

\* The registrations of the stored blocks, replayed into a new SOV contract.
ReplayedSov(chain) ==
    TopUp([a \in Addresses |-> 0],
          UNION {Registrations(BlockOf(chain[i])) : i \in DOMAIN chain})

\* Every transaction with identity data sets the registry entry, revocations
\* and updates included.
ReplayedIds(chain) ==
    LET txs == FlattenSeq([i \in DOMAIN chain |-> BlockOf(chain[i]).txs])
        of  == SelectSeq(txs, LAMBDA tx : "did" \in DOMAIN tx)
    IN  FoldLeft(LAMBDA ids, tx : [ids EXCEPT ![tx.did] = tx.doc], [d \in Dids |-> 0], of)

\* load_from_store.  The replayed balances fill in what is missing on disk;
\* the balances on disk then replace the replayed ones of known wallets.
Restart ==
    /\ job = Down
    /\ \A h \in 0 .. db.latest : Readable(h)
    /\ LET chain   == StoredChain
           sov     == ReplayedSov(chain)
           missing == {a \in Addresses : sov[a] > 0 /\ db.token_balances[a] = 0}
           filled  == Backfill(db.token_balances, sov, missing)
           wallets == UNION {{tx.to : tx \in Registrations(BlockOf(chain[i]))} : i \in DOMAIN chain}
       IN  /\ db' = [db EXCEPT !.token_balances = filled]
           /\ Refill(sov, missing)
           /\ mem' = [chain   |-> chain,
                      sov     |-> [a \in Addresses |->
                                     IF a \in wallets /\ filled[a] > 0 THEN filled[a] ELSE sov[a]],
                      wallets |-> wallets,
                      ids     |-> ReplayedIds(chain)]
    /\ job' = Idle
    /\ faults' = (faults \ {"flush"}) \cup {"restart"}
    /\ UNCHANGED <<tx_active, reply, owed>>

(***************************************************************************)
(* The steps of the node apart from catch-up sync, crash and restart       *)
(***************************************************************************)

Processing == WriteTree \/ CommitPoint \/ FinishMetadata \/ SyncProof(job.hasProof)

Failing == CommitFails \/ FlushFails \/ MetadataFails \/ SyncProof(FALSE)

Finalizing == \E b \in Finalized : b.height <= Height(mem) + 1 /\ CommitFinalized(b)

StoringProofs == \E h \in owed : \E stored \in BOOLEAN : PutQuorumProof(h, stored)

Registering == \E tx \in Submitted : RegisterWallet(tx)

(***************************************************************************)
(* Properties                                                              *)
(***************************************************************************)

\* Whatever crashed or failed, the blocks up to latest_height can be read back
\* by height and by hash and each links to the one before it: commit_block
\* writes latest_height after both block trees.
ChainReadable ==
    \A h \in 0 .. db.latest :
        /\ Readable(h)
        /\ BlockOf(db.blocks_by_height[h]).height = h
        /\ h > 0 => BlockOf(db.blocks_by_height[h]).prev = db.blocks_by_height[h - 1]

\* "Blocks are append-only" (storage/mod.rs): no step, a re-applied or a
\* competing block included, replaces a block at or below latest_height, and
\* latest_height never falls.
AppendOnlyStep ==
    /\ db'.latest >= db.latest
    /\ \A h \in 0 .. db.latest :
         /\ db'.blocks_by_height[h] = db.blocks_by_height[h]
         /\ db'.blocks_by_hash[db.blocks_by_height[h]]

\* The chain process_and_commit_block keeps in memory is the stored one, unless
\* the flush behind a commit point failed since the last restart.
MemoryIsStored ==
    Up /\ "flush" \notin faults => mem.chain = StoredChain

StoredBlocks == [i \in 1 .. db.latest |-> BlockOf(db.blocks_by_height[i])]

\* No block is in progress.
Settled == job \in {Idle, Down}

\* "State is fully derivable from blocks" (storage/mod.rs): executing the
\* stored blocks again from genesis gives the state trees on disk, as long as
\* no commit was interrupted and no balance was written outside a block.
StateDerivable ==
    Settled /\ "commit" \notin faults /\ refilled = NothingRefilled
        => State = Replay(EmptyState, StoredBlocks)

\* SOV is neither lost nor created by transfers, fees, restarts or rejected
\* blocks: the balances on disk add up to the recorded supply and what was
\* written outside blocks by seeding and by the backfill of load_from_store.
SovAccounted ==
    Settled /\ "commit" \notin faults
        => SumOver(db.token_balances, Addresses)
             = db.token_supply[SOV] + SumOver(refilled, Addresses)

\* "latest_height is updated last so a restart after partial commit will
\* re-apply the block, overwriting partial state" (commit_block): re-executing
\* a block whose commit a crash interrupted ends in the state it would have led
\* to without the crash.
ReapplyOverwrites ==
    LET next == db.latest + 1
        b    == BlockOf(db.blocks_by_height[next])
        r    == StageBlock(db, b)
    IN  /\ job = Down /\ refilled = NothingRefilled
        /\ next <= MaxHeight /\ db.blocks_by_height[next] # NoHash
        => r.ok /\ After(db, r) = Replay(EmptyState, Append(StoredBlocks, b))

CoinbaseCount == Cardinality({h \in 1 .. db.latest : HasCoinbase(StoredBlocks[h])})

\* Native value comes from block rewards alone: apply_native_transfer and
\* apply_coinbase hand fees on and lose no remainder.
NativeAccounted ==
    Settled /\ "commit" \notin faults
        => SumOver(db.utxos, Outpoints) = BlockReward * CoinbaseCount

\* The staged writes of a block whose transactions touch different keys are
\* what executing them one by one would write, whatever state it is offered in.
StagedIsSequential ==
    Settled => \A b \in Blocks :
        LET one    == OneByOne(State, b.txs)
            staged == StageTxs(State, b.txs)
        IN  Disjoint(b.txs) =>
                staged.ok = one.ok /\ (one.ok => After(State, staged) = one.s)

\* A stored block lacks its quorum proof only while the proof is on its way, or
\* if a write, the post-processing or the process failed or catch-up brought
\* the block from below the height consensus was working on.
ProofsComplete ==
    faults \cap {"proof", "postprocess"} = {}
        => \A h \in 1 .. db.latest :
             h \in db.quorum_proofs \cup owed
                \/ (job.phase \in {"metadata", "proof"} /\ job.block.height = h)

Wedged == job = Idle /\ tx_active

\* Once post-processing failed with the slot of begin_metadata_write held, no
\* block is stored and the slot stays held until the process ends.
WedgedUntilRestartStep ==
    Wedged => db'.latest = db.latest /\ (Wedged' \/ job' = Down)

=============================================================================
