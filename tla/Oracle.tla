------------------------------- MODULE Oracle -------------------------------
(***************************************************************************)
(* The price oracle of each node: attestations of committee members are    *)
(* counted per epoch until one price reaches the threshold, and governance *)
(* changes the committee, the epoch length and the protocol version        *)
(* (lib-blockchain/src/oracle/, blockchain/oracle.rs,                      *)
(* zhtp/src/runtime/components/oracle.rs).                                 *)
(*                                                                         *)
(* Every node processes the same blocks at its own pace.  Attestations     *)
(* reach it in blocks and, in the legacy protocol, by gossip: in any       *)
(* order, repeated, or never.  A producer keeps no record of what it has   *)
(* attested: it wakes up by wall clock and attests the price its chain     *)
(* shows then, so in a slow epoch it may attest two prices.                *)
(*                                                                         *)
(* A message names a signer and need not be signed by it: signed says      *)
(* whether its signature verifies, which the code asks only when it        *)
(* validates an attestation.  A passed proposal is executed by the block   *)
(* in which it passes.                                                     *)
(***************************************************************************)
EXTENDS Integers, Sequences, FiniteSets, SequencesExt

CONSTANTS
    Nodes,            \* the nodes whose oracle state is followed
    Validators,       \* active validators, by oracle key
    Committee,        \* the committee of bootstrap_oracle_committee
    Prices,           \* SOV/USD prices
    CbePrices,        \* CBE/USD prices
    NoPrice,          \* no attested or finalized price
    NoUpdate,         \* nothing pending
    Chains,           \* the chains consensus may decide, blocks 1, 2, ...
    Epochs,           \* epochs reached within the bounds
    InitialDuration,  \* epoch_duration_secs at bootstrap
    MaxDeviationBps,  \* max_deviation_bps
    MinLead           \* MIN_PROTOCOL_ACTIVATION_LEAD_BLOCKS, 100 in the code

VARIABLES
    chain,     \* the chain consensus decides, fixed from the start
    attested,  \* the prices each validator's producer derives from it and signs
    claimed,   \* the prices of the messages that name the validator, signed or not
    node       \* each node: height, last_oracle_epoch_processed, oracle state, ...

inputs == <<chain, attested, claimed>>

vars == <<chain, attested, claimed, node>>

NoVotes ==
    [sov        |-> [v \in Validators |-> NoPrice],  \* signer_prices
     cbe        |-> [v \in Validators |-> NoPrice],  \* signer_cbe_prices
     cbeSigners |-> {},                              \* cbe_price_signers
     winningCbe |-> NoPrice]                         \* winning_cbe_price

\* The oracle state bootstrap_oracle_committee creates, the only one it saves.
Bootstrap ==
    [duration      |-> InitialDuration,
     members       |-> Committee,
     pending       |-> NoUpdate,
     pendingConfig |-> NoUpdate,
     activation    |-> NoUpdate,
     strict        |-> FALSE,
     prices        |-> [e \in Epochs |-> [sov |-> NoPrice, cbe |-> NoPrice]],
     votes         |-> [e \in Epochs |-> NoVotes]]

NoEpoch == -1

FreshNode ==
    [height    |-> 0,
     last      |-> 0,
     oracle    |-> Bootstrap,
     slashed   |-> {},       \* oracle_slash_events, as pairs of validator and reason
     consumer  |-> FALSE,    \* the consumer holds a message it is about to process
     producer  |-> NoEpoch,  \* the epoch the producer is about to attest by gossip
     restarted |-> FALSE]

\* oracle_banned_validators.
Banned(nd) == {x[1] : x \in nd.slashed}

Sendable ==
    [signer : Validators, epoch : Epochs, sov : Prices, cbe : CbePrices \cup {NoPrice},
     signed : BOOLEAN]

\* A message there may be: only a price the validator attested has its signature.
Circulates(a) ==
    /\ a.sov \in claimed[a.signer]
    /\ a.signed => a.sov \in attested[a.signer]

Messages == {a \in Sendable : Circulates(a)}

Init ==
    /\ chain \in Chains
    /\ attested \in [Validators -> (SUBSET Prices) \ {{}}]
    /\ claimed \in [Validators -> SUBSET Prices]
    /\ \A v \in Validators : attested[v] \subseteq claimed[v]
    /\ \A b \in Range(chain) : \A a \in Range(b.attestations) : Circulates(a)
    /\ node = [n \in Nodes |-> FreshNode]

epoch_id(o, timestamp) == timestamp \div o.duration

\* The timestamp of the last committed block; genesis has timestamp 0.
Timestamp(nd) == IF nd.height = 0 THEN 0 ELSE chain[nd.height].timestamp

Epoch(nd) == epoch_id(nd.oracle, Timestamp(nd))

\* Fault: one third and one is enough.
threshold_one_third(members) == Cardinality(members) \div 3 + 1

threshold(members) == (2 * Cardinality(members)) \div 3 + 1

Finalized(o, e) == o.prices[e].sov # NoPrice

(***************************************************************************)
(* Attestations                                                            *)
(***************************************************************************)

\* calculate_median of the prices f[v], v in S: the k-th smallest is x if fewer
\* than k of them are below x and at least k are not above it.
calculate_median(f, S) ==
    LET n      == Cardinality(S)
        nth(k) == CHOOSE x \in {f[v] : v \in S} :
                    /\ Cardinality({v \in S : f[v] < x}) < k
                    /\ Cardinality({v \in S : f[v] <= x}) >= k
    IN  IF n % 2 = 1 THEN nth((n + 1) \div 2)
        ELSE (nth(n \div 2) + nth(n \div 2 + 1)) \div 2

\* check_deviation_band against the prices already attested in the epoch.
InBand(price, f) ==
    LET seen   == {v \in Validators : f[v] # NoPrice}
        median == calculate_median(f, seen)
        diff   == IF price > median THEN price - median ELSE median - price
    IN  seen # {} /\ median > 0 => (diff * 10000) \div median <= MaxDeviationBps

\* validate_attestation, for an attestation of the current epoch: a member that is
\* not among the signers seen, and its signature.
validate_attestation(o, a, seen) ==
    a.signer \in o.members /\ seen[a.signer] = NoPrice /\ a.signed

\* Fault: membership is not checked.
precheck_any_signer(o, a, e) ==
    IF a.epoch # e \/ Finalized(o, e) THEN "ignored"
    ELSE IF o.votes[e].sov[a.signer] # NoPrice
    THEN IF o.votes[e].sov[a.signer] # a.sov THEN "conflicting_signer" ELSE "ignored"
    ELSE IF a.signed THEN "accepted"
    ELSE "invalid"

\* A CBE price may follow a finalized SOV price.  The votes of a signer that was
\* counted already come before the validation: another SOV price is a conflict, and
\* another CBE price is accepted, whether the signature verifies or not.
precheck_attestation(o, a, e) ==
    LET votes == o.votes[e]
    IN  IF a.epoch # e THEN "ignored"
        ELSE IF Finalized(o, e)
        THEN IF o.prices[e].sov # a.sov THEN "conflicting_price"
             ELSE IF a.cbe = NoPrice THEN "ignored"
             ELSE IF ~ validate_attestation(o, a, votes.cbe) THEN "invalid"
             ELSE "accepted"
        ELSE IF votes.sov[a.signer] # NoPrice
        THEN IF votes.sov[a.signer] # a.sov THEN "conflicting_signer"
             ELSE IF a.cbe \in {NoPrice, votes.cbe[a.signer]} THEN "ignored"
             ELSE "accepted"
        ELSE IF ~ validate_attestation(o, a, votes.sov) THEN "invalid"
        ELSE IF o.strict /\ ~ InBand(a.sov, votes.sov) THEN "deviation_band"
        ELSE "accepted"

\* The finalized record: made when the SOV price wins, and completed when a CBE
\* price wins after it.
Recorded(was, sov, sovWins, cbeWins, winning) ==
    IF sovWins THEN [sov |-> sov, cbe |-> winning]
    ELSE IF was.sov # NoPrice /\ cbeWins THEN [was EXCEPT !.cbe = winning]
    ELSE was

\* The state once an accepted attestation is counted: the SOV price unless one
\* is finalized, the CBE price in any case, and whichever reaches the threshold.
Count(o, a, e) ==
    LET votes   == o.votes[e]
        done    == Finalized(o, e)
        needed  == threshold(o.members)
        hasCbe  == a.cbe # NoPrice
        sov     == IF done THEN votes.sov ELSE [votes.sov EXCEPT ![a.signer] = a.sov]
        cbe     == IF hasCbe THEN [votes.cbe EXCEPT ![a.signer] = a.cbe] ELSE votes.cbe
        pairs   == votes.cbeSigners \cup (IF hasCbe THEN {<<a.cbe, a.signer>>} ELSE {})
        cbeWins == /\ hasCbe /\ votes.winningCbe = NoPrice
                   /\ Cardinality({v \in Validators : <<a.cbe, v>> \in pairs}) >= needed
        winning == IF cbeWins THEN a.cbe ELSE votes.winningCbe
        sovWins == ~ done /\ Cardinality({v \in Validators : sov[v] = a.sov}) >= needed
    IN  [o EXCEPT !.votes[e] = [sov |-> sov, cbe |-> cbe, cbeSigners |-> pairs,
                                winningCbe |-> winning],
                  !.prices[e] = Recorded(@, a.sov, sovWins, cbeWins, winning)]

process_attestation(o, a, e) ==
    IF precheck_attestation(o, a, e) = "accepted" THEN Count(o, a, e) ELSE o

\* slash_oracle_validator: removed at once and banned.
slash_oracle_validator(nd, v, reason) ==
    [nd EXCEPT !.oracle.members = @ \ {v}, !.slashed = @ \cup {<<v, reason>>}]

\* Fault: disagreeing with a finalized price is slashed.
attest_slashing_late(nd, a, e, reasons) ==
    IF precheck_attestation(nd.oracle, a, e) \in {"conflicting_signer", "conflicting_price"}
    THEN slash_oracle_validator(nd, a.signer, "conflicting_signer")
    ELSE [nd EXCEPT !.oracle = process_attestation(@, a, e)]

\* An attestation is counted, or its signer slashed for one of the reasons.
Attest(nd, a, e, reasons) ==
    LET verdict == precheck_attestation(nd.oracle, a, e)
    IN  IF verdict \in reasons THEN slash_oracle_validator(nd, a.signer, verdict)
        ELSE [nd EXCEPT !.oracle = process_attestation(@, a, e)]

\* apply_oracle_attestation: a price outside the band is only rejected.
apply_oracle_attestation(nd, a, e) == Attest(nd, a, e, {"conflicting_signer"})

\* What the gossip consumer does with a message.
consume_attestation(nd, a, e) == Attest(nd, a, e, {"conflicting_signer", "deviation_band"})

(***************************************************************************)
(* Governance                                                              *)
(***************************************************************************)

\* schedule_committee_update, schedule_config_update, cancel_pending_updates
\* and schedule_activation; an update that is not valid changes nothing.
Execute(o, op, e, height) ==
    CASE op.type = "committee" ->
            IF op.members # {} /\ op.members \subseteq Validators /\ op.activate > e
            THEN [o EXCEPT !.pending = [activate |-> op.activate, members |-> op.members]]
            ELSE o
      [] op.type = "config" ->
            IF op.duration > 0 /\ op.activate > e
            THEN [o EXCEPT !.pendingConfig = [activate |-> op.activate, duration |-> op.duration]]
            ELSE o
      [] op.type = "cancel" ->
            [o EXCEPT !.pending = IF op.committee THEN NoUpdate ELSE @,
                      !.pendingConfig = IF op.config THEN NoUpdate ELSE @]
      [] op.type = "upgrade" ->
            IF op.height >= height + MinLead /\ ~ o.strict /\ o.activation = NoUpdate
            THEN [o EXCEPT !.activation = op.height]
            ELSE o
      [] OTHER -> o

\* An update is activated in the two epochs from activate_at_epoch on; a later
\* epoch discards it.
Due(pending, e) ==
    IF pending = NoUpdate \/ e < pending.activate THEN "keep"
    ELSE IF e >= pending.activate + 2 THEN "discard"
    ELSE "activate"

\* Fault: a committee update drops the finalized prices.
apply_updates_clearing(o, e) ==
    IF Due(o.pending, e) = "keep" THEN o
    ELSE [o EXCEPT !.members = o.pending.members, !.pending = NoUpdate,
                   !.prices = Bootstrap.prices]

apply_pending_updates(o, e) ==
    [o EXCEPT !.members = IF Due(o.pending, e) = "activate" THEN o.pending.members ELSE @,
              !.pending = IF Due(@, e) = "keep" THEN @ ELSE NoUpdate,
              !.duration = IF Due(o.pendingConfig, e) = "activate"
                           THEN o.pendingConfig.duration ELSE @,
              !.pendingConfig = IF Due(@, e) = "keep" THEN @ ELSE NoUpdate]

\* apply_pending_activation, before the block of that height is executed.
Activate(o, height) ==
    IF o.activation # NoUpdate /\ height >= o.activation
    THEN [o EXCEPT !.strict = TRUE, !.activation = NoUpdate]
    ELSE o

should_process_epoch(o, timestamp, last) == epoch_id(o, timestamp) > epoch_id(o, last)

(***************************************************************************)
(* Steps                                                                   *)
(***************************************************************************)

\* The oracle's part in a block: the protocol activation, passed proposals, the
\* epoch boundary, then the block's attestations.
ApplyBlock(nd, b) ==
    LET executed == Execute(Activate(nd.oracle, nd.height + 1), b.op,
                            epoch_id(nd.oracle, b.timestamp), nd.height + 1)
        e        == epoch_id(executed, b.timestamp)
        crossed  == should_process_epoch(executed, b.timestamp, nd.last)
        updated  == IF crossed THEN apply_pending_updates(executed, e) ELSE executed
        next     == [nd EXCEPT !.height = @ + 1, !.oracle = updated,
                               !.last = IF crossed THEN b.timestamp ELSE @]
    IN  FoldLeft(LAMBDA x, a : apply_oracle_attestation(x, a, epoch_id(updated, b.timestamp)),
                 next, b.attestations)

NewBlock(n) ==
    /\ node[n].height < Len(chain)
    /\ node' = [node EXCEPT ![n] = ApplyBlock(@, chain[@.height + 1])]
    /\ UNCHANGED inputs

\* run_consumer takes a message and looks at the protocol under a lock of its own;
\* blocks may follow before it has the lock to process the message.
Receive(n) ==
    /\ ~ node[n].consumer /\ ~ node[n].oracle.strict
    /\ node' = [node EXCEPT ![n].consumer = TRUE]
    /\ UNCHANGED inputs

Consume(n) ==
    /\ node[n].consumer
    /\ \E a \in Messages :
           node' = [node EXCEPT ![n] = [consume_attestation(@, a, Epoch(@))
                                           EXCEPT !.consumer = FALSE]]
    /\ UNCHANGED inputs

\* run_producer reads the epoch and the protocol first and has its own attestation
\* counted later, unless the epoch has passed; it does not slash itself.
Prepare(n) ==
    /\ node[n].producer = NoEpoch /\ ~ node[n].oracle.strict /\ node[n].oracle.members # {}
    /\ Epoch(node[n]) \in Epochs
    /\ node' = [node EXCEPT ![n].producer = Epoch(node[n])]
    /\ UNCHANGED inputs

Produce(n) ==
    /\ node[n].producer # NoEpoch
    /\ \E a \in Messages :
           /\ a.epoch = node[n].producer /\ a.signed
           /\ node' = [node EXCEPT ![n].oracle = process_attestation(@, a, Epoch(node[n])),
                                   ![n].producer = NoEpoch]
    /\ UNCHANGED inputs

\* load_from_store restores the oracle state that was saved; proposals that were
\* executed are not executed again, bans and the epoch mark are not stored.
Restart(n) ==
    /\ node' = [node EXCEPT ![n] = [FreshNode EXCEPT !.height = node[n].height,
                                                     !.restarted = TRUE]]
    /\ UNCHANGED inputs

\* A block as the chain holds it.
WellFormed(b) ==
    /\ b.timestamp \in Nat
    /\ b.attestations \in Seq(Sendable)
    /\ b.op.type = "committee" => b.op.activate \in Nat
    /\ b.op.type = "config" => b.op.activate \in Nat /\ b.op.duration \in Nat
    /\ b.op.type = "upgrade" => b.op.height \in Nat

ASSUME OracleAssumption ==
    /\ IsFiniteSet(Validators) /\ IsFiniteSet(Prices)
    /\ Committee \subseteq Validators
    /\ NoPrice \notin Prices /\ NoPrice \notin CbePrices
    /\ InitialDuration \in Nat \ {0}
    /\ Epochs \subseteq Nat /\ 0 \in Epochs
    /\ \A c \in Chains :
          /\ Len(c) \in Nat /\ DOMAIN c = 1 .. Len(c)
          /\ \A i \in DOMAIN c :
                WellFormed(c[i]) /\ c[i].timestamp \div InitialDuration \in Epochs

Next ==
    \E n \in Nodes :
        \/ NewBlock(n)
        \/ Receive(n)
        \/ Consume(n)
        \/ Prepare(n)
        \/ Produce(n)
        \/ Restart(n)

Spec == Init /\ [][Next]_vars

(***************************************************************************)
(* Properties                                                              *)
(***************************************************************************)

OneEach == \A v \in Validators : Cardinality(attested[v]) = 1

\* Nodes never finalize the same epoch at two prices: as long as every producer
\* attests one price per epoch, whatever the order, loss and repetition of
\* attestations and whatever unsigned ones are among them, nodes that have not
\* restarted and have slashed nobody agree on every SOV price.  A slash is local to
\* the node and lowers its threshold.
SovAgreement ==
    OneEach =>
        \A m, n \in {i \in Nodes : ~ node[i].restarted /\ node[i].slashed = {}} :
            \A e \in Epochs : Finalized(node[m].oracle, e) /\ Finalized(node[n].oracle, e)
                => node[m].oracle.prices[e].sov = node[n].oracle.prices[e].sov

\* Repeated, late and CBE-changing attestations are never slashed.  A conflict is
\* one with a price the validator itself attested and the node counted, though the
\* message that differs need not be signed; a price outside the band is slashed
\* only once the protocol is strict.
SlashedForCause ==
    \A n \in Nodes : \A x \in node[n].slashed :
        \/ /\ x[2] = "conflicting_signer" /\ Cardinality(claimed[x[1]]) > 1
           /\ \E e \in Epochs : node[n].oracle.votes[e].sov[x[1]] \in attested[x[1]]
        \/ x[2] = "deviation_band" /\ node[n].oracle.strict

\* Every vote counted in the running epoch comes from a member of the committee
\* of that epoch or from one slashed in it.
VotesFromCommittee ==
    \A n \in Nodes :
        LET nd == node[n]
        IN  nd.oracle.duration = InitialDuration
              => \A v \in Validators : nd.oracle.votes[Epoch(nd)].sov[v] # NoPrice
                    => v \in nd.oracle.members \cup Banned(nd)

\* "One immutable finalized price per epoch" (OracleState): only the loss of the
\* state at a restart takes a finalized price away; a CBE price may be added.
PriceImmutable ==
    [][\A n \in Nodes : \A e \in Epochs :
         LET was == node[n].oracle.prices[e]
             is  == node'[n].oracle.prices[e]
         IN  was.sov # NoPrice /\ is # was
               => \/ was.sov = is.sov /\ was.cbe = NoPrice
                  \/ node'[n] = [FreshNode EXCEPT !.height = node[n].height, !.restarted = TRUE]]_vars
=============================================================================
