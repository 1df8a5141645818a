# Verification of the Sovereign Network node

TLA+ specifications, TLC models and TLAPS proofs for the parts of the ZHTP node
that decide, store and execute blocks, and for the two parts of its economy whose
state has to stay consistent over long histories: the price oracle and the
treasury kernel.

## The system

The repository is a full node and the tools around it: about 600,000 lines of
Rust in some thirty crates. Most of it is application logic, cryptography and
I/O (contracts, identity, storage network, DNS, HTTP API, clients). The parts
that hold the nodes and their state together:

* **The BFT engine** (`lib-consensus/src/engines/consensus_engine/`). A fixed
  round-robin picks a proposer per (height, round). A round goes through Propose,
  PreVote, PreCommit and Commit; a supermajority of each kind of vote allows the
  next, and a supermajority of Commit votes, counted over all rounds of the
  height, finalizes a block. Timers move a round on when messages do not.
* **The event loop** (`network.rs`). One task takes round timers, messages,
  heartbeats, liveness ticks and validator updates, one at a time; each handler
  runs to its end.
* **Heartbeats and the liveness monitor** (`network/heartbeat.rs`,
  `network/liveness_monitor.rs`). They tell which validators respond, report
  stalls and recoveries, suspect partitions and trigger catch-up.
* **Validator set and epochs** (`validators/`, `apply_epoch_boundary_changes`).
  Registrations and departures wait in a queue for an epoch boundary; a boundary
  changes at most a third of the set. Each height has a committee, a snapshot taken
  once. A running loop gets validators from the runtime instead, every ten seconds.
* **The commit callback and catch-up sync** (`zhtp/src/runtime/components/consensus.rs`).
  The callback appends a finalized block and its quorum proof to the chain. A
  separate task copies blocks from peers when the engine says it may be behind;
  it appends to the same chain, so it races the engine.
* **The chain** (`lib-blockchain/src/blockchain.rs`, `blockchain/`, `storage/`,
  `execution/`). A block is executed against the Sled trees into a batch per tree;
  the batches are written one after the other, `latest_height` last. Memory is
  brought up to date afterwards, identities and the quorum proof are written in
  transactions of their own, and a restart rebuilds memory from the trees.
* **The price oracle** (`lib-blockchain/src/oracle/`, `blockchain/oracle.rs`,
  `zhtp/src/runtime/components/oracle.rs`). A committee attests prices per epoch,
  by gossip or in blocks; each node counts them until one price has two thirds.
  Conflicting attestations are slashed; governance changes committee and epochs.
* **The treasury kernel** (`contracts/treasury_kernel/`, `contracts/tokens/core.rs`).
  It mints, burns and moves tokens, holds vesting locks, executes delayed
  authorizations and pays UBI.

`PROJECT.json` lists every part with its sources and status, the hazards found
while reading the code, and the source lines of every definition.

## Modules

| Module | Models |
| --- | --- |
| `Threshold` | `meets_threshold` and `has_supermajority` (6667 basis points) |
| `Sums` | the sum of a function over a finite set |
| `ConsensusData` | the constants and the data of the engine: votes, proposals, the engine's record |
| `ConsensusEngine` | the engine's handlers, each an operator from the engine state before to the state after |
| `ConsensusNetwork` | several engines, their messages, timers and restarts, and catch-up between their chains |
| `VotingRules` | the abstract specification: which votes may be cast given the votes there are |
| `Validators` | the identities and the bounds that the next two modules share |
| `LivenessMonitor` | heartbeats, the monitor, partition detection and the liveness tick of one loop |
| `ValidatorSet` | the queue of validator changes, epochs, churn and committees of one engine |
| `BlockExecution` | what the executor stages for a block, transaction by transaction |
| `Ledger` | one node's block store, block processing, memory, crash and restart; extends `BlockExecution` |
| `CatchUp` | the catch-up sync task over the ledger; extends `Ledger` |
| `Oracle` | the oracle state of several nodes that follow one chain |
| `TreasuryKernel` | the treasury kernel and its token contract |
| `MCConsensusNetwork`, `MCLagging`, `MCPartition`, `MCLivenessMonitor`, `MCValidatorSet`, `MCCatchUp`, `MCSameBlock`, `MCOracle`, `MCTreasuryKernel` | instances for TLC |
| `ConsensusNetworkProofs` | theorems about the voting rules, the engines and their network |
| `ValidatorSetProofs` | theorems about the validator set and about the liveness monitor |
| `CatchUpProofs` | theorems about the stored chain, memory, quorum proofs and catch-up |
| `BlockExecutionProofs`, `AccountingProofs` | lemmas about sums and folds, and what a block does to the balances, the supply and the native outputs |
| `LedgerProofs` | theorems about the state trees |
| `OracleProofs`, `TreasuryKernelProofs` | theorems about the oracle and about the treasury |

Operators whose comment starts with *Fault* are wrong variants of the definition
that follows them. No specification uses them. Each stands for a plausible bug
and shows that the property it is paired with in `PROJECT.json` would notice it.

### Engine and network

An engine's state is a record: `height`, `round`, `step`, `proposals`, `locked`
and `valid` are fields of `ConsensusRound`; `pool` is `vote_pool`; `pending` is
`pending_proposals`; `chain` is the blockchain behind the provider and the commit
callback; `up` becomes false when an error ends the loop. `votes` and `proposed`
record what the engine has broadcast; `starts` counts starts of the process.

`on_proposal`, `on_prevote`, `on_precommit`, `on_commit_vote`, `on_round_timeout`
and the `enter_*_step` functions have their names and their order of checks.
`ReceiveProposal`, `ReceiveVote` and `RoundTimeout` in `ConsensusNetwork` run them
for one engine; `Restart` runs the start of `run_consensus_loop` with the stored
chain and an empty pool; `CatchUp` applies one block of a peer.

Messages are never removed: everything broadcast may be delivered to anyone at any
time, again, or never. That covers loss, delay, duplication, reordering and the
relaying engines do.

Data is abstracted. A proposal is its own identifier, a chain is its tip's hash,
block contents are a number, signatures are valid. The iteration order of the
pool's `HashMap` decides which of a validator's Commit votes enters the quorum
proof; `order` stands for it.

### Liveness monitor

One action per branch of the loop: `SendHeartbeat`, `ReceiveHeartbeat`,
`ReceiveOther`, `HeightAdvances`, `LivenessTick`, `EpochBoundary`, and `Clock` for
time. Time is discrete. A tick that is due comes before time moves on: the model
assumes that the loop is not busy for longer than one interval.

Heartbeats change the monitor between ticks, and a tick reports only what it
changes itself: when heartbeats end a stall between two ticks, its recovery is
never announced, although `check_stall_transition` documents it.

### Validator set

`engine` has the fields of `ConsensusEngine` that decide who validates: `pending`
is `pending_validator_changes`, `epoch_update` is `pending_epoch_length_update`,
`validators` the validator manager, `history` is `validator_set_history`. An
addition carries `keys`, whether its three keys are present and distinct: what
`ValidatorManager::register_validator` checks besides the limit.

The engine has one driver, as the comment on `run_consensus_round` demands:
`NewBlock` events run rounds, `StartRound` events prepare them, or
`run_consensus_loop` runs (`RunLoop`, `FollowChain`, `ValidatorUpdate`). The loop
holds the only mutable reference to the engine, so requests stop when it starts.
Only the first two drivers apply epoch boundaries. `AddBlock` is the chain's own
registry, in which the validator transactions of a block make validators active or
inactive; a running loop hears of the active ones (`ValidatorUpdate`).

`prepare_consensus_round` applies a boundary and then may fail for lack of
validators; the height stays, and the same boundary is applied again on the retry.
If the epoch length changes in between, a postponed change waits for a height that
is no boundary any more. So `NothingOverdue` is stated for engines driven by
`NewBlock` events, where it holds. A registration that fails at a boundary loses
the due changes behind it; the model does the same.

### Ledger and catch-up

`db` holds the Sled trees, `tx_active` is the single transaction slot, `mem` is the
`Blockchain` object and `job` the block being processed under its write lock:
`ProcessBlock` seeds balances, validates and stages; each `WriteTree` is one
`apply_batch`; `CommitPoint` writes `latest_height`, flushes and does the memory side
of `finish_block_processing`; `FinishMetadata`, `SyncProof` and `PutQuorumProof`
write identities and quorum proofs. `CommitFails`, `FlushFails`, `MetadataFails` and
a proof that is not stored are failing writes. `Crash` may come between any two
steps, `Restart` is `load_from_store`. `CommitFinalized` is the commit callback of
consensus, `RegisterWallet` a wallet registered through the node's API.

A tree is a function from keys to numbers with 0 for an absent key, as in the code,
where writing 0 removes the key. Reads go to the committed trees and never to the
batch being filled: that is what `get_token_balance` does, and it decides several
results below. `faults` and `refilled` only record what has happened: the failures,
and what was written to each address's balance outside a block.

`sync` is the catch-up task: `StartRound`, `AskPeer`, `FetchProof`, `ApplyForSync`,
`Applied`, `PageLost`, `EndRound`. The height of the round, the published height of
consensus and the height under the lock are read at the three moments the code
reads them, and consensus may commit in between. Cooldowns are left out: a trigger
that meets one is dropped.

What the model shows of the code beyond its properties:

* An identity error in `finish_block_processing` leaves the slot of
  `begin_metadata_write` held; every later block is refused until a restart
  (`WedgedUntilRestart` states that this is the extent of it).
* When the flush behind `latest_height` fails, the block is stored and memory is one
  block behind until a restart.
* A wallet emptied on the chain has its registration amount written back by the
  backfill of a restart; `SovAccounted` counts it in `refilled`.
* A block may be executable on a node whose API has heard of a wallet and not on
  another, because seeding writes that wallet's balance first.
* A restart replays every identity transaction as a registration, so a revoked
  identity is back in memory; a crash before the metadata write loses the identity
  records of a stored block for good.

### Oracle

`node[n]` has a node's height, its `OracleState`, its slashes, and where its two oracle
tasks are. `NewBlock` applies the next block of the chain: protocol activation,
governance proposals, the epoch crossing and attestations, in the code's order.

Both tasks look at the protocol under one lock and act under another, so each is two
steps between which blocks may come: `Receive` and `Consume` are the gossip consumer,
`Prepare` and `Produce` the producer. A message may be consumed any number of times, in
any order or never. `Restart` loses what is not saved, which is all that happened since
bootstrap.

`attested` is what each producer signs: one price, or two when the chain is slower than
the wall clock that wakes it. `claimed` are the prices of the messages that name a
validator. A message with a claimed price need not carry a valid signature (`signed`);
whether it does is asked where the code asks, in `validate_attestation`.

That place decides what the properties can say (`oracle/mod.rs:1048-1081`): a message of
a signer that was counted already is answered before it is validated.

* Another SOV price is a conflict and is slashed, although only the counted price is
  known to be signed. So a slash does not prove two attestations. `SlashedForCause`
  says what is left: the counted price is one the validator attested, and a message
  with its name has another; repeats, late messages and CBE prices are no cause.
* The same SOV price with another CBE price is counted. So CBE prices may be counted
  unverified, a member may be counted under two of them, and no agreement on CBE
  prices is claimed.

A slash removes the member on this node alone and lowers its threshold. `SovAgreement`
is therefore stated for nodes that have slashed nobody and have not restarted, and for
producers that attest one price. A price outside the deviation band is rejected in a
block. The consumer slashes for it: it takes messages in the legacy protocol only, but
a block may activate the strict one between `Receive` and `Consume`. A banned validator
can come back with a committee update: bans are recorded and never consulted.

### Treasury kernel

One action per operation; calls that fail their checks change nothing and are left
out, except where the code fails half-way: `RevokeVesting` marks the lock first, then
releases and moves the unvested part, and each of those may fail (paused kernel,
tokens burnt); `ClaimUbi` marks the claim before it mints. `TrackUbi` is the same batch
without a token contract: the claim counts against the pool and nothing is minted;
`tracked` sums what was only recorded so. `stranded` records the
unvested part that stays locked by such a failure. `direct` counts signed mints less
burns. A holder's key has two forms, because a lock remembers the key id only and
`find_beneficiary_key` takes the first entry with that id.
The token is one like SOV: `transfer` burns nothing (`is_deflationary` is false) and is
open to holders. A token in `kernel_only_mode` takes transfers from the kernel only.

So a revocation while the kernel is paused leaves the unvested part locked with
nobody entitled to it, and a release fails while the holder has a second entry under
its bare key id. `LockedIsOwed` accounts for the first, `DueIsReleasable` is stated
without the second.

## What TLC checks

Passing runs:

| Run | Instance | Shows |
| --- | --- | --- |
| `two_rounds` | 3 of 4 validators, 1 height, rounds 0 and 1, one hasty timer | votes are remembered, nobody votes twice, precommits of a round agree, marks are backed by quorums of the engine's round, views only advance, and the engines implement `VotingRules` |
| `lagging` | 4 validators, 2 heights, validator 1 behind and syncing | chains agree and never lose a block while catch-up races the engine; a failed block construction is included |
| `restart` | 3 validators, one may restart at any point | every block rests on a supermajority of Commit votes really cast for it, also when a validator votes again |
| `progress` | 3 of 4 validators, 2 heights | with a proposer down the heights are still committed (liveness) |
| `liveness` | 3 or 4 validators, 4 units of time, epoch changes | a reported stall is real, partition evidence is rate limited, a stuck height keeps triggering catch-up |
| `epochs` | 3 validators and 2 more to join, 6 heights, epochs of 1, 2 or 3 blocks, each driver | queued changes are consistent and never overdue, committees stay sealed, the set changes at boundaries only and by at most a third |
| `ledger` | 3 blocks, a fork, 2 peers, an API registration, a crash and failing writes | the chain stays readable and append-only; memory, state trees, SOV, native value and proofs are what the blocks make them; sync halts only before a real fork and otherwise catches up (liveness) |
| `oracle` | 2 nodes, 3 validators, 5 chains with every kind of proposal, unsigned messages naming one validator | nodes that slash nobody agree on one SOV price per epoch; a finalized price never changes; every slash has its cause; only the committee's votes count |
| `treasury` | 2 holders, 3 keys, 2 schedules, 3 epochs | supply is explained to the token; locks hold what is owed; vesting, revocation and UBI pay no more than is due |

Runs that end in a counterexample, each against a sentence in the code's own
documentation (quoted in `PROJECT.json` under `findings`):

| Run | The code does |
| --- | --- |
| `partition` | locks are cleared between rounds, so a block committed by one validator in round 0 can be followed by another block at the same height in round 1 |
| `reapply` | a block executed again after a crash between two trees reads the balances it has already written: it credits twice or is refused |
| `same_block` | two transfers to one address in one block both start from the committed balance, and the first credit is lost |

What this means for the passing runs. `Agreement` holds where no validator commits in
a later round than another, as in `lagging`; `partition` shows that it does not hold
in general. `StateDerivable`, `SovAccounted` and `NativeAccounted` are stated for
chains without an interrupted commit (`reapply`), on blocks whose transactions do not
share a balance (`same_block`); `StagedIsSequential` says that for such blocks the
batch is what executing one transaction after the other would write.

Further disagreements between code and documentation, visible in the models:

* A restarted validator has an empty pool and may vote again in a round it has voted
  in (`consensus_engine/mod.rs:135`). `NoEquivocation` holds without restarts.
* `count_commits_for` counts Commit votes over all rounds, the proof those of one:
  a block can be finalized by votes whose proof does not verify (`storage.rs:53`).
* The quorum root in the header depends on which Commit votes came first, so nodes
  can store different headers for one proposal (`state_machine.rs:905`). The models
  compare blocks without it.
* A commit that comes just after catch-up appended the same block fails and stops the
  loop: the callback compares heights with `>` (`consensus.rs:1312`). The same happens
  when a proposal received again in a later round is pending twice.
* A validator registered on the chain never joins a running loop: the updates carry
  empty networking and rewards keys, which the validator manager refuses
  (`network.rs:457`).

### Bounds

`MaxHeight`, `MaxRound` and `MaxStarts` stop engines; `MaxTime` stops the clock.
Two rounds are enough for votes and marks of one round to meet the next; two
heights are enough for an engine to be more than one block behind. Four
validators are the smallest set in which one may be missing; three is the smallest
set in BFT mode, and there every validator is needed.
The run `restart` has one round: with a second one it does not end in five minutes.
`CommitVotesFinalize` is the same property for any number of rounds.
In `two_rounds` validator 1, the proposer of round 3 of the height, is down: it
would only add votes. `Hasty` engines time out while messages are on their way;
the others run in step, which keeps the state space small and is the regular case.
`MCLagging` and `MCPartition` restrict which messages get through, as written at
their heads: they pick one pattern of loss out of many.
In `epochs` six heights leave room for two boundaries after the epoch length has
changed; two queued changes, one more than the budget, can be due together;
a limit of two snapshots makes old ones drop; a limit of four validators makes
registrations fail. The validators of the start, and the others, are symmetric:
nothing tells them apart. `MaxPending` is checked before a request is made.

In `ledger` block 2 empties the wallet that block 1 funded, so a zero balance meets a
restart; the fork's block 2 spends from a wallet that only the API has heard of, and
three blocks make two pages. `FewFaults` allows one crash and one combination of
failing writes, and bounds balances, since each interrupted commit may mint again;
`TaskStepsBetweenBlocks` orders steps that touch nothing in common. `WrongChainLimit`
is 2 instead of 3. The fee rate and reward are chosen so that shares have remainders.
In `oracle` the chains are fixed: one per kind of proposal and one in the strict
protocol. `Small` either follows one node with CBE prices and restarts or two nodes
with SOV prices; three epochs are two crossings. One validator may attest two prices
and be named by messages it did not sign, the others are witnesses; both tasks of a node
are open at once only around an upgrade, where the two steps matter. In `treasury` `Few` allows two locks
and claims together, or a proposal registered as mint and burn; the two meet only in
balances. The supply limit lies one mint above the initial supply.

Deadlock is checked in `ledger`; in the other runs the system stops at the bounds.

### Fairness

`FairSpec` has weak fairness of `Next`: while something can happen, some loop does
something. Tokio schedules every ready task and the timers re-arm after every
event. Progress also needs messages that arrive before timers fire; that is what
`Hasty = {}` says, the partial synchrony the engine's documentation asks for.

`FairSpec` of `CatchUp`: a block that was begun is finished, the task runs when it can
(the lock is free, the answer is there), and a validator that is asked again and again
answers again and again. The first two are what Tokio gives tasks; that rounds start
again and again is what the liveness monitor's trigger provides (`TriggeredWhileStuck`).
They are weak fairness with the enabling conditions written out. The third is strong
fairness, since requests may fail any number of times in between. Peers that are no
validators, and consensus itself, are assumed nothing of.

## What is proved

The theorems hold for every value of the constants that satisfies the named
assumptions of the modules; TLC evaluates these assumptions on every instance. They
say that sizes are numbers, that sets summed or counted over are finite, that a hash
identifies its block, that a peer serves a linked chain, that blocks hold well-formed
transactions and attestations. None of them restricts an order of events.

**Consensus.** For every number of validators N >= 3, every set of running engines and
any bounds, without restarts (`Spec`):

* `NetInvariant`: the inductive invariant of the network. It joins `TypeOK` and
  `VotesRemembered`. The second is what makes it inductive: an engine refrains
  from voting twice because it looks into its own pool, so the pool must hold all
  its votes, none of them of a round still to come, and no PreVote of the current
  round while it is in Propose.
* `ImplementsVotingRules`: every step is a step of `VotingRules` or leaves the
  votes alone. `ConsensusNetworkProofs` has one lemma per handler for it.
* `VotesInvariant` and `PreCommitAgreementHolds`, about the rules alone: two
  supermajorities of PreVotes share a validator and it voted once.
* `NoValidatorEquivocates` and `PreCommitsAgree`: the same of the engines, since they
  implement the rules.
* `OneRoundAgrees`: engines commit the same proposal at every height whose PreCommits
  are all of one round. A block on a chain has Commit votes, a Commit vote has
  PreCommits for the same proposal behind it, and PreCommits of one round agree. This
  is as much of `Agreement` as holds: the disagreement of `partition` needs PreCommits
  of two rounds.
* `ViewsOnlyAdvance`: no message and no timer moves an engine back.

And with restarts (`SpecWithRestart`), from `RestartInv`, which says nothing of what an
engine remembers of its own votes, so that a restart keeps it: pools hold votes that
were cast, marks of an engine rest on its pool, and every block of every chain on
Commit votes that were cast.

* `MarksAreBacked`, `CommitVotesFinalize`, `ChainsOnlyGrow`.

`SupermajorityIsTwoThirdsPlusOne` shows that 6667 basis points are the formula
they replace up to 10,000 validators; at 10,003 they first ask for one vote more.
`SupermajoritiesOverlap`: two supermajorities share more than a third.

**Liveness monitor.** For every validator set and every choice of timeouts, from the
assumption that the engine's own validator stays in the set:

* `StallsAreReal`: timed-out and responsive validators partition the set, and
  `n / 3 + 1` timed out leave less than 6667 basis points. The converse fails:
  `StallThresholdGap` proves that a silent third of a set divisible by three leaves
  no quorum and yet is no stall, although the monitor's documentation says it
  "emits `ConsensusStalled` events when quorum becomes impossible"
  (`liveness_monitor.rs:7`).
* `StuckHeightTriggers` and `PartitionsAreRateLimited`, from `TimeInv`: the clock
  is within one interval of the last tick, a move of the height is noted within one
  interval, and no tick came later than the stuck timeout after that. The bound of two
  ticks is nominal: it counts ticks that come on time. The `select!` of `network.rs:128`
  is not biased and its branches await their handlers, so a slow handler delays a tick,
  and the trigger with it.

**Validator set.** For every set of identities, limit of the history, epoch lengths and
order of events:

* `CommitteesAreSealed` and `SetFrozenWithinEpoch`. The inductive invariant,
  `HistoryOK`, says that the history is a sequence with at most one snapshot per
  height: without it a dropped or repeated snapshot could bring back another
  committee. One lemma per operation shows that it leaves old snapshots alone and,
  away from a boundary, the set too.
* `QueueIsConsistent`, `NothingIsOverdue` and `ChurnIsBounded`, from `QueueInv`: the
  queue is consistent and, with blocks as the driver, every entry and the pending
  length update are aimed at the next boundary. Lemmas follow the folds of
  `apply_epoch_boundary_changes` over a queue of any length entry by entry.

**Chain and catch-up.** For every set of blocks, peers, page size and order of failures:

* `ChainAlwaysReadable` and `ChainAppendOnly`. The inductive invariant `ChainInv` adds
  to readability that a block being committed continues the stored tip, and that each
  of the two block trees either is still to be written or already has the block:
  that is why a crash or a failing write at any point, and another block at the same
  height afterwards, do no harm. The rest of it are the shapes of job, memory and task.
* `MemoryFollowsStore`, `ProofsAreComplete` and `SlotStaysHeld`, from `ChainInv`.
* `HaltMeansDivergence`, from `VerdictInv`: a peer in `rejecting` already differs from
  us at a height we both have, because a mismatch is answered only to a block right
  above our tip; append-only storage keeps it so.
* `StateIsDerivable`: replaying the stored blocks from genesis gives the state trees.
* `SovIsAccounted`: the SOV balances add up to the recorded supply and what was written
  outside a block.
* `NativeIsAccounted`: the unspent outputs are worth the rewards of the stored blocks.
* `StagingIsSequential`: a block whose transactions touch different entries stages what
  they would write one after another.

The last four rest on one inductive invariant, `StateInv`: there is a state `s` that
the block in progress, or the next one, starts from (`Before`). Between blocks `s` is
what is on disk; during a commit the trees already written are `s` with the block's
batch applied, the others are those of `s`, and each tree is written once. Without `s`
nothing can be said in the middle of a commit. Of `s` the invariant has three laws:
the replay, the sum of the balances and the sum of the outputs. `StepEffect` shows
that a step keeps `s`, fills in missing balances outside a block, or replaces `s` by
what a whole block leads to; `BlockExecutionProofs` and `AccountingProofs` show what that
does to each law.
A commit that is interrupted between two trees is exempted by the properties
themselves, since the laws then fail (`reapply`).

The two sums have hypotheses about the blocks, because the code does not enforce them
and they fail without them:

* `SovIsAccounted` asks that the transactions of a block touch different entries, and
  that a transfer credits neither its own sender nor one account twice (`Separate`).
  Balances are read from the committed tree, so a second write to an account in the
  same block overwrites the first (`same_block`); a transfer to oneself does that too.
* `NativeIsAccounted` asks (`Sound`) that the transactions of a block touch different
  outputs, that a hash identifies a transaction and a coinbase is of one height (so
  that no output is created over an unspent one), and that a block that collects fees
  has a coinbase: without one nobody receives them.

`MCCatchUp` checks that the blocks of the run `ledger` satisfy both. `StateIsDerivable`
needs neither: lost credits are lost in the same way when the block is executed again.

**Oracle.** For any number of nodes and any chain, with restarts:

* `SlashesHaveACause` and `PricesAreImmutable`, from `SoundInv`: every SOV vote a node
  has counted is a price that its validator attested, whatever unsigned messages came,
  since a first vote is always validated; and every slash so far has its cause. The
  second is kept because counted votes stay counted and the protocol stays strict.
* `CommitteeVotes`, on chains whose timestamps do not go back (`TimestampsGrow`) and on
  which no proposal returns to the first epoch length (`NoReturn`).
* `NodesAgreeOnPrices`, on chains whose timestamps do not go back and on which no
  proposal changes the epoch length (`Orderly`), from `AgreementInv`: the committee a
  node has at a height is a function of the chain as long as the node has slashed
  nobody, and a finalized price has two thirds of the committee of its epoch; two such
  majorities share a member that attested one price.

The two conditions are hypotheses of the theorems and not assumptions on the constants,
because nothing in the code enforces them: the only order of timestamps is a comment
(`block/core.rs:558`), and a changed length gives an epoch number to a second span of
time, with another committee.

**Treasury kernel.** For every set of holders, schedules, amounts and any bounds:

* `VestingRespected` and `EntitlementRespected`, from `VestInv`: no lock has released
  more than was releasable by its effective epoch, nor was it revoked in the future.
  They rest on lemmas that the vested fraction is monotone in the epoch and at most
  the total.
* `UbiPoolRespected`, from `UbiInv`: the claimants of an epoch are finitely many, and a
  claim that pays adds a new one.
* `SupplyIsTheSum` and `SupplyIsExplained`, from `SupplyInv` and `ExplainedInv`: an
  executed authorization stays consumed and is not registered anew, and what the pools
  have distributed was minted, except what was only recorded.
* `LockedIsWhatIsOwed` and `DueCanBeReleased`, from `OwedInv` and `EntriesInv`: what a
  holder's keys have locked is what the holder's locks owe, and only a revocation
  strands anything.

Sums over sets and folds over sequences are opened in one place each: a lemma shows
that the table by which `MapThenFoldSet` is defined exists, and induction over the
elements of a *set* of good numbers or good subsets gives what the sum or the fold
does. The induction theorems of the library cannot be used, because they take an
operator as their parameter.

Only model-checked:

* `EventuallyCommitted` and `CatchesUp`: liveness is beyond the prover.
* `Agreement`: it does not hold in general (`partition`). `OneRoundAgrees` proves it
  for heights that took one round; the run `lagging` checks it on an instance whose
  second height is committed in round 1.

## Not modelled

* Bootstrap mode (fewer than three validators): the engine only watches.
* Validator-set changes during a round: the set is fixed in `ConsensusEngine` and
  changes in `ValidatorSet`, which has no votes. Stake, voting power and slashing.
* What follows a commit: rewards, fees, metrics, DAO expiry. It feeds nothing back.
* Second checks of conditions that hold already: the quorum recheck in
  `process_committed_block`, the fault detector's record of first votes, which
  knows no vote the pool does not know, and the fallback after a failed height sync,
  which needs a chain provider that fails.
* Replay and forensic records of the fault detector; they are advisory.
* Rejected heartbeats; they are the same as lost ones.
* Catch-up: cooldowns, the cap on pages per peer, and a store without genesis.
* Chain: the minimum-fee and size checks, which only refuse blocks; transactions other
  than transfers, coinbase, SOV transfers and mints, wallet and identity records; the
  path without an executor; the migrations and balance repairs of `load_from_store`
  behind its backfill of balances (`init.rs:553` and on);
  failing reads of the database. Amounts stay far below `u128`.
* Oracle: how a producer derives a price, staleness, graduation, stake amounts, and a
  slash that takes effect at the next epoch (`slash_oracle_validator_with_options` with
  an aligned removal), which no caller asks for.
* Treasury: the compensation side (`cap_ledger`, `compensation_engine`, `paid_ledger`),
  `governance_executor`, allowances, changes of the mint delay, pruning.
* The rest of the repository: cryptography, transports, I/O, user-facing tools and
  application contracts. They make up most of its lines, are sequential or stateless
  as far as these parts are concerned, and are listed with reasons in `PROJECT.json`.

Seen in code that is not modelled: a database error in `begin_block` leaves the
transaction slot held (`sled_store.rs:1489`); `repair_backfill_inflation` subtracts
again at every load (`wallets.rs:574`); caps are checked without the reservations
still pending, and a reservation of an earlier period stays pending
(`cap_ledger.rs:349`, `:388`).
