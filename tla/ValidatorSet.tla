---------------------------- MODULE ValidatorSet ----------------------------
(***************************************************************************)
(* How the validator set of one consensus engine changes.                  *)
(*                                                                         *)
(* Registrations and departures wait in a queue and take effect at epoch   *)
(* boundaries, at most a third of the set at a time; the committee of a    *)
(* height is a snapshot of the set, sealed when the engine first works on  *)
(* that height.  An engine has one driver: NewBlock events ("blocks"),     *)
(* StartRound events ("rounds") or run_consensus_loop ("loop").  A running *)
(* loop borrows the engine, so that requests and events reach it only      *)
(* before the loop starts.  No code slashes a validator of the engine,     *)
(* so all validators it knows are active.                                  *)
(***************************************************************************)
EXTENDS Validators, Integers, Sequences, FiniteSets, SequencesExt

CONSTANTS Joining,          \* those that may be registered on the chain later
          MaxValidators,    \* ConsensusConfig::max_validators
          DevelopmentMode,  \* ConsensusConfig::development_mode
          InitialLength,    \* ConsensusConfig::epoch_length_blocks at the start
          Lengths,          \* epoch lengths governance may ask for
          HistoryLimit,     \* how many snapshots are kept (100 in the code)
          Drivers,          \* what may drive the engine
          MaxPending        \* bound: requests are made while the queue is shorter

ASSUME ValidatorSetAssumption ==
    /\ Initial \subseteq Identities /\ Joining \subseteq Identities /\ IsFiniteSet(Identities)
    /\ MaxValidators \in Nat /\ DevelopmentMode \in BOOLEAN
    /\ InitialLength \in Nat \ {0} /\ Lengths \subseteq Nat \ {0}
    /\ HistoryLimit \in Nat \ {0} /\ Drivers \subseteq {"blocks", "rounds", "loop"}
    /\ MaxHeight \in Nat /\ MaxPending \in Nat

MIN_BFT_VALIDATORS == 3
MAX_CHURN_NUMERATOR == 1
MAX_CHURN_DENOMINATOR == 3

VARIABLES engine,   \* the engine's fields
          tip,      \* height of the local chain
          registry  \* the active validators of the chain's registry

vars == <<engine, tip, registry>>

\* PendingValidatorChange; keys tells whether the three keys of an addition are
\* present and distinct.
Change == [effective_height : Nat, kind : {"add", "remove"},
           identity : Identities, keys : BOOLEAN]

Engine == [height : Nat,                              \* current_round.height
           driver : {"blocks", "rounds", "loop"},     \* message_rx is set for a loop,
           running : BOOLEAN,                         \* and taken when it starts
           chain_started : BOOLEAN,
           epoch_length : Nat \ {0},
           epoch_update : [effective_height : Nat, new_length : Nat \ {0}] \cup {None},
           pending : Seq(Change),                     \* pending_validator_changes
           validators : SUBSET Identities,            \* validator_manager
           history : Seq([height : Nat, validators : SUBSET Identities])]

Snapshot(h, set) == [height |-> h, validators |-> set]

\* The engine gets its validators from the chain's registry.
Init ==
    /\ tip = 0
    /\ registry = Initial
    /\ \E d \in Drivers :
          engine = [height |-> 0, driver |-> d, running |-> FALSE, chain_started |-> FALSE,
                    epoch_length |-> InitialLength, epoch_update |-> None,
                    pending |-> <<>>, validators |-> Initial, history |-> <<>>]

---------------------------------------------------------------------------
(* Epochs *)

is_epoch_boundary(s, h) == h % s.epoch_length = 0

\* Fault: h itself if it is a boundary.
this_epoch_start(s, h) == ((h + s.epoch_length - 1) \div s.epoch_length) * s.epoch_length

next_epoch_start(s, h) == ((h \div s.epoch_length) + 1) * s.epoch_length

schedule_epoch_length_update(s, len) ==
    [s EXCEPT !.epoch_update =
        [effective_height |-> next_epoch_start(s, s.height), new_length |-> len]]

---------------------------------------------------------------------------
(* Committees *)

validator_set_for_height(s, h) == {c \in ToSet(s.history) : c.height = h}

\* Fault: the snapshot of a height is renewed.
resnapshot(s, h) ==
    [s EXCEPT !.history = Append(SelectSeq(@, LAMBDA c : c.height # h),
                                 Snapshot(h, s.validators))]

\* Write-once; beyond the limit the oldest snapshot is dropped.
snapshot_validator_set(s, h) ==
    LET grown == Append(s.history, Snapshot(h, s.validators))
    IN  IF validator_set_for_height(s, h) # {}
        THEN s
        ELSE [s EXCEPT !.history =
                 IF Len(grown) > HistoryLimit THEN Tail(grown) ELSE grown]

---------------------------------------------------------------------------
(* The validator manager and the queue *)

\* ValidatorManager::register_validator succeeds.
can_register(set, v, keys) ==
    Cardinality(set) < MaxValidators /\ v \notin set /\ keys

\* The entries of q that are in S, in their order: what Vec::retain and the partitions
\* of the queue leave.  SelectSeq with a set for a test, in a form that can be expanded.
Retain(q, S) ==
    LET kept[i \in 0..Len(q)] ==
            IF i = 0 THEN <<>>
            ELSE IF q[i] \in S THEN Append(kept[i - 1], q[i]) ELSE kept[i - 1]
    IN  kept[Len(q)]

PendingChange(s, kind, v, keys) ==
    [effective_height |-> next_epoch_start(s, s.height),
     kind |-> kind, identity |-> v, keys |-> keys]

\* Fault: an earlier request of the same identity stays in the queue.
queue_add_only(s, v, keys) ==
    IF v \in s.validators
    THEN s
    ELSE [s EXCEPT !.pending = Append(@, PendingChange(s, "add", v, keys))]

queue_validator_add(s, v, keys) ==
    IF v \in s.validators
    THEN s
    ELSE [s EXCEPT !.pending =
             Append(Retain(@, {e \in ToSet(@) : e.identity # v}),
                    PendingChange(s, "add", v, keys))]

queue_validator_removal(s, v) ==
    LET IsAdd(e) == e.kind = "add" /\ e.identity = v
        kept     == Retain(s.pending, {e \in ToSet(s.pending) : ~IsAdd(e)})
    IN  IF \E e \in ToSet(s.pending) : IsAdd(e)
        THEN [s EXCEPT !.pending = kept]
        ELSE IF v \in s.validators
             THEN [s EXCEPT !.pending =
                      Append(@, PendingChange(s, "remove", v, TRUE))]
             ELSE s

\* Fault: a registration takes effect at once, whenever it is made.
register_now(s, v, keys) ==
    IF can_register(s.validators, v, keys)
    THEN [s EXCEPT !.validators = @ \cup {v}]
    ELSE s

\* Before the chain has started a registration takes effect at once.  No caller
\* claims to be a genesis validator, for which it always would.
register_validator(s, v, keys) ==
    IF s.chain_started
    THEN queue_validator_add(s, v, keys)
    ELSE IF can_register(s.validators, v, keys)
         THEN [s EXCEPT !.validators = @ \cup {v}]
         ELSE s

---------------------------------------------------------------------------
(* The epoch boundary *)

churn_budget(set) ==
    Max({1, (Cardinality(set) * MAX_CHURN_NUMERATOR) \div MAX_CHURN_DENOMINATOR})

\* Additions are registered in order, up to the first registration that fails.
register_all(set, additions) ==
    LET After(i) == set \cup {additions[k].identity : k \in 1..i}
        Failing  == {i \in DOMAIN additions :
                        /\ additions[i].identity \notin After(i - 1)
                        /\ ~can_register(After(i - 1), additions[i].identity, additions[i].keys)}
    IN  [ok  |-> Failing = {},
         set |-> After(IF Failing = {} THEN Len(additions) ELSE Min(Failing) - 1)]

Postponed(entries, h) == [i \in DOMAIN entries |-> [entries[i] EXCEPT !.effective_height = h]]

\* The changes due at h leave the queue: removals before additions, as many as
\* the budget allows.  The others wait for the next boundary; those after a
\* failed registration are lost.
ApplyDue(s, h, removed, added) ==
    LET due       == {e \in ToSet(s.pending) : e.effective_height = h}
        removals  == Retain(s.pending, {e \in due : e.kind = "remove"})
        additions == Retain(s.pending, {e \in due : e.kind = "add"})
        late      == SubSeq(removals, removed + 1, Len(removals))
                     \o SubSeq(additions, added + 1, Len(additions))
        leaving   == {e.identity : e \in ToSet(SubSeq(removals, 1, removed))}
        result    == register_all(s.validators \ leaving, SubSeq(additions, 1, added))
    IN  [ok    |-> result.ok,
         state |-> [s EXCEPT
            !.validators = result.set,
            !.pending = Retain(@, ToSet(@) \ due) \o Postponed(late, next_epoch_start(s, h))]]

DueCount(s, h, kind) ==
    Cardinality({i \in DOMAIN s.pending : /\ s.pending[i].effective_height = h
                                          /\ s.pending[i].kind = kind})

UpdateLength(s, h) ==
    IF s.epoch_update # None /\ s.epoch_update.effective_height = h
    THEN [s EXCEPT !.epoch_length = s.epoch_update.new_length, !.epoch_update = None]
    ELSE s

\* Fault: removals and additions have a budget each.
apply_two_budgets(s, h) ==
    LET t       == UpdateLength(s, h)
        budget  == churn_budget(s.validators)
    IN  IF is_epoch_boundary(s, h)
        THEN ApplyDue(t, h, Min({DueCount(s, h, "remove"), budget}),
                            Min({DueCount(s, h, "add"), budget}))
        ELSE [ok |-> TRUE, state |-> s]

apply_epoch_boundary_changes(s, h) ==
    LET t       == UpdateLength(s, h)
        budget  == churn_budget(s.validators)
        removed == Min({DueCount(s, h, "remove"), budget})
        added   == Min({DueCount(s, h, "add"), budget - removed})
    IN  IF is_epoch_boundary(s, h)
        THEN ApplyDue(t, h, removed, added)
        ELSE [ok |-> TRUE, state |-> s]

has_sufficient_validators(s) ==
    Cardinality(s.validators) >= (IF DevelopmentMode THEN 1 ELSE MIN_BFT_VALIDATORS)

prepare_consensus_round(s, h) ==
    LET r == apply_epoch_boundary_changes([s EXCEPT !.chain_started = TRUE], h)
    IN  IF r.ok /\ has_sufficient_validators(r.state)
        THEN snapshot_validator_set([r.state EXCEPT !.height = h], h)
        ELSE r.state

\* The part of run_consensus_round before the proposer is chosen.
run_consensus_round(s) ==
    LET h == s.height + 1
        r == apply_epoch_boundary_changes(
                [s EXCEPT !.height = h, !.chain_started = TRUE], h)
    IN  IF r.ok THEN snapshot_validator_set(r.state, h) ELSE r.state

---------------------------------------------------------------------------
(* Requests, events and the chain *)

Requested ==
    ~engine.running /\ Len(engine.pending) < MaxPending

Register ==
    /\ Requested
    /\ \E v \in Identities, keys \in BOOLEAN :
          engine' = register_validator(engine, v, keys)
    /\ UNCHANGED <<tip, registry>>

ValidatorLeave ==
    /\ Requested
    /\ \E v \in Identities : engine' = queue_validator_removal(engine, v)
    /\ UNCHANGED <<tip, registry>>

ScheduleEpochLength ==
    /\ ~engine.running
    /\ \E len \in Lengths : engine' = schedule_epoch_length_update(engine, len)
    /\ UNCHANGED <<tip, registry>>

NextHeight == engine.height + 1

NewBlock ==
    /\ engine.driver = "blocks" /\ NextHeight <= MaxHeight
    /\ engine' = run_consensus_round(engine)
    /\ UNCHANGED <<tip, registry>>

\* A round that could not be prepared is asked for again.
StartRound ==
    /\ engine.driver = "rounds" /\ NextHeight <= MaxHeight
    /\ engine' = prepare_consensus_round(engine, NextHeight)
    /\ UNCHANGED <<tip, registry>>

\* The engine moves to the height after the chain's tip.
SyncHeight(s) == snapshot_validator_set([s EXCEPT !.height = tip + 1], tip + 1)

RunLoop ==
    /\ engine.driver = "loop" /\ ~engine.running
    /\ engine' = SyncHeight([engine EXCEPT !.running = TRUE])
    /\ UNCHANGED <<tip, registry>>

\* The loop follows the chain, as does an engine about to run one that hears of a
\* new block.
FollowChain ==
    /\ engine.driver = "loop"
    /\ engine' = SyncHeight(engine)
    /\ UNCHANGED <<tip, registry>>

\* What the runtime sends to the loop every ten seconds: the active validators
\* with their consensus keys, but no networking and rewards keys.
PeriodicUpdate == [identity : registry, keys : {FALSE}]

\* Nothing is sent while no validator is active.
ValidatorUpdate ==
    /\ engine.running /\ registry # {}
    /\ LET joined == {e \in PeriodicUpdate : can_register(engine.validators, e.identity, e.keys)}
       IN  engine' = snapshot_validator_set(
                        [engine EXCEPT !.validators = @ \cup {e.identity : e \in joined}],
                        engine.height)
    /\ UNCHANGED <<tip, registry>>

\* The validator transactions of a block: a registration or an update makes a
\* validator active, Unregister inactive.  The engine hears only of the active ones.
AddBlock ==
    /\ engine.driver = "loop" /\ tip < MaxHeight
    /\ tip' = tip + 1
    /\ \E new \in SUBSET (Initial \cup Joining), gone \in SUBSET registry :
           registry' = (registry \ gone) \cup new
    /\ UNCHANGED engine

Next == \/ Register \/ ValidatorLeave \/ ScheduleEpochLength
        \/ NewBlock \/ StartRound
        \/ RunLoop \/ FollowChain \/ ValidatorUpdate \/ AddBlock

Spec == Init /\ [][Next]_vars

---------------------------------------------------------------------------
\* queue_validator_add and queue_validator_removal never leave an addition of an
\* identity next to another change of that identity in the queue, whatever was
\* deferred, cancelled or applied in between.
QueueConsistent ==
    \A i, j \in DOMAIN engine.pending :
        LET e == engine.pending[i]
            f == engine.pending[j]
        IN  i # j /\ e.kind = "add" => e.identity # f.identity

\* For an engine driven by NewBlock events no change is ever overdue: every queued
\* change, and the change of the epoch length, waits for a height ahead that is an
\* epoch boundary, also when apply_epoch_boundary_changes postponed it, failed, or
\* changed the epoch length.
NothingOverdue ==
    LET Ahead(e) == /\ e.effective_height > engine.height
                    /\ is_epoch_boundary(engine, e.effective_height)
    IN  engine.driver = "blocks" =>
          /\ \A e \in ToSet(engine.pending) : Ahead(e)
          /\ engine.epoch_update # None => Ahead(engine.epoch_update)

\* Once the committee of a height is sealed by snapshot_validator_set, no
\* registration, departure, update or event changes it.
CommitteesSealed ==
    [][\A c \in ToSet(engine.history), d \in ToSet(engine'.history) :
          c.height = d.height => c = d]_vars

\* After the chain has started, apply_epoch_boundary_changes is the only way into
\* and out of the validator set, and only for a height at which an epoch ends.
FrozenWithinEpoch ==
    [][engine.chain_started /\ engine'.validators # engine.validators =>
          is_epoch_boundary(engine, NextHeight)]_vars

\* One epoch boundary replaces at most a third of the validators, or one, counting
\* both those that leave and those that join.
ChurnBounded ==
    [][engine.chain_started =>
          Cardinality((engine.validators \ engine'.validators)
                      \cup (engine'.validators \ engine.validators))
          <= churn_budget(engine.validators)]_vars
=============================================================================
