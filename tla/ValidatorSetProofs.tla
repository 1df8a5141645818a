------------------------- MODULE ValidatorSetProofs -------------------------
(***************************************************************************)
(* For every validator set, epoch length, history limit and order of       *)
(* events: committees stay as they were sealed; after the chain has        *)
(* started the validator set changes at epoch boundaries only, by at most  *)
(* the churn budget; the queue of changes stays consistent, and no change  *)
(* in it is overdue.  Of the monitor that watches the set, for every       *)
(* timing constant and every order of heartbeats: a stall it sees is a     *)
(* real one, suspected partitions are rate limited, and a stuck height     *)
(* triggers catch-up.                                                      *)
(***************************************************************************)
EXTENDS ValidatorSet, LivenessMonitor, FiniteSetTheorems, WellFoundedInduction, TLAPS

Fields == {"height", "driver", "running", "chain_started", "epoch_length",
           "epoch_update", "pending", "validators", "history"}

\* At most one snapshot per height.
OnePerHeight(c) == \A i, j \in DOMAIN c : c[i].height = c[j].height => i = j

HistoryOK(s) ==
    /\ DOMAIN s = Fields
    /\ \E S : s.history \in Seq(S)
    /\ OnePerHeight(s.history)

Sealed(s, t) ==
    \A c \in ToSet(s.history), d \in ToSet(t.history) : c.height = d.height => c = d

\* s and t have the same snapshots.
SameHistory(s, t) == DOMAIN t = DOMAIN s /\ t.history = s.history

\* An operation that leaves the snapshots alone changes no sealed committee.
LEMMA SameHistorySeals ==
  ASSUME NEW s, NEW t, HistoryOK(s), SameHistory(s, t)
  PROVE  HistoryOK(t) /\ Sealed(s, t)
<1>1. HistoryOK(t)
  BY DEF HistoryOK, SameHistory
<1>2. Sealed(s, t)
  BY DEF HistoryOK, SameHistory, Sealed, OnePerHeight, ToSet
<1>. QED
  BY <1>1, <1>2

\* A snapshot_validator_set of the same engine keeps what was sealed.
LEMMA SnapshotSeals ==
  ASSUME NEW s, HistoryOK(s), NEW h
  PROVE  /\ HistoryOK(snapshot_validator_set(s, h))
         /\ Sealed(s, snapshot_validator_set(s, h))
<1>1. CASE validator_set_for_height(s, h) # {}
  <2>1. snapshot_validator_set(s, h) = s
    BY <1>1 DEF snapshot_validator_set
  <2>. QED
    BY <2>1, SameHistorySeals DEF SameHistory
<1>2. CASE validator_set_for_height(s, h) = {}
  <2>. DEFINE new   == Snapshot(h, s.validators)
              grown == Append(s.history, new)
              kept  == IF Len(grown) > HistoryLimit THEN Tail(grown) ELSE grown
              t     == snapshot_validator_set(s, h)
  <2>1. t = [s EXCEPT !.history = kept]
    BY <1>2 DEF snapshot_validator_set
  <2>2. DOMAIN t = Fields /\ t.history = kept
    BY <2>1 DEF HistoryOK, Fields
  <2>3. PICK S : s.history \in Seq(S)
    BY DEF HistoryOK
  <2>. DEFINE SS == S \cup {new}
  <2>4. s.history \in Seq(SS) /\ new \in SS
    BY <2>3
  <2>5. /\ grown \in Seq(SS)
        /\ Len(grown) = Len(s.history) + 1
        /\ DOMAIN grown = 1..Len(grown)
        /\ DOMAIN s.history = 1..Len(s.history)
        /\ \A i \in DOMAIN s.history : grown[i] = s.history[i]
        /\ grown[Len(grown)] = new
    BY <2>4
  <2>6. \A i \in DOMAIN s.history : s.history[i].height # h
    BY <1>2 DEF validator_set_for_height, ToSet
  <2>7. new.height = h
    BY DEF Snapshot
  <2>8. OnePerHeight(grown)
    <3>. SUFFICES ASSUME NEW i \in DOMAIN grown, NEW j \in DOMAIN grown,
                         grown[i].height = grown[j].height
                  PROVE  i = j
      BY DEF OnePerHeight
    <3>. HIDE DEF grown, new
    <3>1. \A k \in DOMAIN grown : k \in DOMAIN s.history \/ k = Len(grown)
      BY <2>4, <2>5
    <3>. QED
      BY <3>1, <2>5, <2>6, <2>7 DEF HistoryOK, OnePerHeight
  <2>9. /\ kept \in Seq(SS)
        /\ OnePerHeight(kept)
        /\ \A d \in ToSet(kept) : \E k \in DOMAIN grown : d = grown[k]
    <3>. HIDE DEF grown, new
    <3>1. CASE Len(grown) > HistoryLimit
      <4>1. kept = Tail(grown) /\ grown # <<>>
        BY <3>1, <2>4, <2>5
      <4>2. /\ kept \in Seq(SS) /\ DOMAIN kept = 1..(Len(grown) - 1)
            /\ \A i \in DOMAIN kept : i + 1 \in DOMAIN grown /\ kept[i] = grown[i + 1]
        BY <4>1, <2>4, <2>5
      <4>. HIDE DEF kept
      <4>3. OnePerHeight(kept)
        BY <4>2, <2>8 DEF OnePerHeight
      <4>. QED
        BY <4>2, <4>3 DEF ToSet
    <3>2. CASE ~(Len(grown) > HistoryLimit)
      BY <3>2, <2>5, <2>8 DEF ToSet
    <3>. QED
      BY <3>1, <3>2
  <2>10. HistoryOK(t)
    BY <2>2, <2>9 DEF HistoryOK
  <2>11. Sealed(s, t)
    <3>. SUFFICES ASSUME NEW i \in DOMAIN s.history, NEW d \in ToSet(kept),
                         s.history[i].height = d.height
                  PROVE  s.history[i] = d
      BY <2>2 DEF Sealed, ToSet
    <3>1. PICK k \in DOMAIN grown : d = grown[k]
      BY <2>9
    <3>. HIDE DEF grown, new, kept
    <3>2. k # Len(grown)
      BY <3>1, <2>5, <2>6, <2>7
    <3>3. k \in DOMAIN s.history
      <4>1. Len(s.history) \in Nat
        BY <2>4
      <4>. QED
        BY <3>1, <3>2, <4>1, <2>5
    <3>. QED
      BY <3>1, <3>3, <2>5 DEF HistoryOK, OnePerHeight
  <2>. QED
    BY <2>10, <2>11
<1>. QED
  BY <1>1, <1>2

---------------------------------------------------------------------------
(* Epoch boundaries *)

\* Applying and postponing the due changes does not touch the snapshots.
LEMMA ApplyDueKeepsHistory ==
  ASSUME NEW s, DOMAIN s = Fields, NEW h, NEW r, NEW a
  PROVE  SameHistory(s, ApplyDue(s, h, r, a).state)
<1>1. \A x, y : SameHistory(s, [s EXCEPT !.validators = x, !.pending = y])
  BY DEF SameHistory, Fields
<1>2. \E x, y : ApplyDue(s, h, r, a).state = [s EXCEPT !.validators = x, !.pending = y]
  BY Zenon DEF ApplyDue
<1>3. PICK x, y : ApplyDue(s, h, r, a).state = [s EXCEPT !.validators = x, !.pending = y]
  BY <1>2, Zenon
<1>4. SameHistory(s, [s EXCEPT !.validators = x, !.pending = y])
  BY <1>1, Zenon
<1>. QED
  BY <1>3, <1>4

\* Nor does the change of the epoch length touch them.
LEMMA UpdateLengthKeepsHistory ==
  ASSUME NEW s, DOMAIN s = Fields, NEW h
  PROVE  SameHistory(s, UpdateLength(s, h))
BY DEF SameHistory, UpdateLength, Fields

\* apply_epoch_boundary_changes leaves the snapshots alone and, between two
\* boundaries, everything else too.
LEMMA ApplyKeepsHistory ==
  ASSUME NEW s, DOMAIN s = Fields, NEW h
  PROVE  /\ SameHistory(s, apply_epoch_boundary_changes(s, h).state)
         /\ ~is_epoch_boundary(s, h) => apply_epoch_boundary_changes(s, h).state = s
<1>1. CASE is_epoch_boundary(s, h)
  <2>. DEFINE t == UpdateLength(s, h)
  <2>1. \E r, a : apply_epoch_boundary_changes(s, h) = ApplyDue(t, h, r, a)
    BY <1>1 DEF apply_epoch_boundary_changes
  <2>2. SameHistory(s, t) /\ DOMAIN t = Fields
    BY UpdateLengthKeepsHistory DEF SameHistory
  <2>3. \A r, a : SameHistory(t, ApplyDue(t, h, r, a).state)
    BY <2>2, ApplyDueKeepsHistory
  <2>. QED
    BY <1>1, <2>1, <2>2, <2>3 DEF SameHistory
<1>2. CASE ~is_epoch_boundary(s, h)
  BY <1>2 DEF apply_epoch_boundary_changes, SameHistory
<1>. QED
  BY <1>1, <1>2

---------------------------------------------------------------------------
(* The operations *)

\* What every operation guarantees of the committees.
Safe(s, t) == HistoryOK(t) /\ Sealed(s, t)

\* A snapshot taken after a step that left the snapshots alone.
LEMMA SnapshotAfter ==
  ASSUME NEW s, HistoryOK(s), NEW t, SameHistory(s, t), NEW h
  PROVE  /\ Safe(s, snapshot_validator_set(t, h))
         /\ snapshot_validator_set(t, h).validators = t.validators
<1>1. HistoryOK(t)
  BY SameHistorySeals
<1>2. HistoryOK(snapshot_validator_set(t, h)) /\ Sealed(t, snapshot_validator_set(t, h))
  BY <1>1, SnapshotSeals
<1>3. \A x : [t EXCEPT !.history = x].validators = t.validators
  BY <1>1 DEF HistoryOK, Fields
<1>4. snapshot_validator_set(t, h).validators = t.validators
  BY <1>3 DEF snapshot_validator_set
<1>. QED
  BY <1>2, <1>4 DEF Safe, Sealed, SameHistory

\* prepare_consensus_round keeps sealed committees, and the validator set too
\* unless h is an epoch boundary.
LEMMA PrepareSafe ==
  ASSUME NEW s, HistoryOK(s), NEW h
  PROVE  /\ Safe(s, prepare_consensus_round(s, h))
         /\ ~is_epoch_boundary(s, h) => prepare_consensus_round(s, h).validators = s.validators
<1>. DEFINE u == [s EXCEPT !.chain_started = TRUE]
            r == apply_epoch_boundary_changes(u, h)
            w == [r.state EXCEPT !.height = h]
<1>1. /\ SameHistory(s, u) /\ DOMAIN u = Fields /\ u.validators = s.validators
      /\ is_epoch_boundary(u, h) = is_epoch_boundary(s, h)
  BY DEF HistoryOK, SameHistory, Fields, is_epoch_boundary
<1>2. SameHistory(u, r.state) /\ (~is_epoch_boundary(u, h) => r.state = u)
  BY <1>1, ApplyKeepsHistory
<1>3. /\ SameHistory(s, r.state)
      /\ ~is_epoch_boundary(s, h) => r.state.validators = s.validators
  BY <1>1, <1>2, Zenon DEF SameHistory
<1>4. prepare_consensus_round(s, h) = snapshot_validator_set(w, h)
        \/ prepare_consensus_round(s, h) = r.state
  BY DEF prepare_consensus_round
<1>. HIDE DEF r
<1>5. SameHistory(s, w) /\ w.validators = r.state.validators
  BY <1>3 DEF HistoryOK, SameHistory, Fields
<1>. HIDE DEF w
<1>6. /\ Safe(s, snapshot_validator_set(w, h))
      /\ snapshot_validator_set(w, h).validators = w.validators
  BY <1>5, SnapshotAfter
<1>7. Safe(s, r.state)
  BY <1>3, SameHistorySeals DEF Safe
<1>. QED
  BY <1>3, <1>4, <1>5, <1>6, <1>7

\* The same of run_consensus_round, which works on the next height.
LEMMA RunSafe ==
  ASSUME NEW s, HistoryOK(s)
  PROVE  /\ Safe(s, run_consensus_round(s))
         /\ ~is_epoch_boundary(s, s.height + 1) => run_consensus_round(s).validators = s.validators
<1>. DEFINE h == s.height + 1
            u == [s EXCEPT !.height = h, !.chain_started = TRUE]
            r == apply_epoch_boundary_changes(u, h)
<1>1. /\ SameHistory(s, u) /\ DOMAIN u = Fields /\ u.validators = s.validators
      /\ is_epoch_boundary(u, h) = is_epoch_boundary(s, h)
  BY DEF HistoryOK, SameHistory, Fields, is_epoch_boundary
<1>2. SameHistory(u, r.state) /\ (~is_epoch_boundary(u, h) => r.state = u)
  BY <1>1, ApplyKeepsHistory, Zenon
<1>3. /\ SameHistory(s, r.state)
      /\ ~is_epoch_boundary(s, h) => r.state.validators = s.validators
  BY <1>1, <1>2, Zenon DEF SameHistory
<1>4. run_consensus_round(s) = snapshot_validator_set(r.state, h)
        \/ run_consensus_round(s) = r.state
  BY DEF run_consensus_round
<1>. HIDE DEF r, h
<1>5. /\ Safe(s, snapshot_validator_set(r.state, h))
      /\ snapshot_validator_set(r.state, h).validators = r.state.validators
  BY <1>3, SnapshotAfter
<1>6. Safe(s, r.state)
  BY <1>3, SameHistorySeals DEF Safe
<1>7. /\ Safe(s, run_consensus_round(s))
      /\ ~is_epoch_boundary(s, h) => run_consensus_round(s).validators = s.validators
  BY <1>3, <1>4, <1>5, <1>6
<1>. QED
  BY <1>7 DEF h

\* A request touches the queue or, before the chain has started, the validator
\* set, and never the snapshots.
LEMMA RequestsSafe ==
  ASSUME NEW s, HistoryOK(s), NEW v, NEW keys, NEW len,
         NEW t \in {register_validator(s, v, keys), queue_validator_removal(s, v),
                    schedule_epoch_length_update(s, len)}
  PROVE  Safe(s, t) /\ (s.chain_started => t.validators = s.validators)
<1>1. /\ \A x : /\ SameHistory(s, [s EXCEPT !.pending = x])
                /\ [s EXCEPT !.pending = x].validators = s.validators
      /\ \A x : SameHistory(s, [s EXCEPT !.validators = x])
      /\ \A x : /\ SameHistory(s, [s EXCEPT !.epoch_update = x])
                /\ [s EXCEPT !.epoch_update = x].validators = s.validators
  BY DEF HistoryOK, SameHistory, Fields
<1>2. SameHistory(s, s)
  BY DEF SameHistory
<1>. DEFINE Queued(u)  == u = s \/ \E x : u = [s EXCEPT !.pending = x]
            Changed(u) == \E x : u = [s EXCEPT !.validators = x]
            Dated(u)   == \E x : u = [s EXCEPT !.epoch_update = x]
<1>3. Queued(queue_validator_add(s, v, keys))
  BY Zenon DEF queue_validator_add
<1>4. Queued(queue_validator_removal(s, v))
  BY Zenon DEF queue_validator_removal
<1>5. Dated(schedule_epoch_length_update(s, len))
  BY Zenon DEF schedule_epoch_length_update
<1>6. \/ Queued(register_validator(s, v, keys))
      \/ ~s.chain_started /\ Changed(register_validator(s, v, keys))
  <2>1. CASE s.chain_started
    BY <2>1, <1>3 DEF register_validator
  <2>2. CASE ~s.chain_started
    BY <2>2, Zenon DEF register_validator
  <2>. QED
    BY <2>1, <2>2
<1>7. Queued(t) \/ Dated(t) \/ (~s.chain_started /\ Changed(t))
  <2>. HIDE DEF Queued, Dated, Changed
  <2>. QED
    BY <1>4, <1>5, <1>6
<1>8. SameHistory(s, t) /\ (s.chain_started => t.validators = s.validators)
  <2>1. CASE Queued(t)
    BY <2>1, <1>1, <1>2, Zenon
  <2>2. CASE Dated(t)
    BY <2>2, <1>1
  <2>3. CASE ~s.chain_started /\ Changed(t)
    BY <2>3, <1>1
  <2>. QED
    BY <1>7, <2>1, <2>2, <2>3
<1>. QED
  BY <1>8, SameHistorySeals DEF Safe

---------------------------------------------------------------------------
(* Committees and epochs *)

\* The engine's set changes for a boundary only, once the chain has started.
Frozen(s, t, h) ==
    s.chain_started /\ t.validators # s.validators => is_epoch_boundary(s, h)

\* The engine starts without snapshots.
LEMMA InitHistoryOK == Init => HistoryOK(engine)
<1>. SUFFICES ASSUME Init PROVE HistoryOK(engine)
  OBVIOUS
<1>1. DOMAIN engine = Fields /\ engine.history = <<>>
  BY DEF Init, Fields
<1>2. <<>> \in Seq({})
  OBVIOUS
<1>. QED
  BY <1>1, <1>2 DEF HistoryOK, OnePerHeight

\* Every action keeps the sealed committees and, once the chain has started and
\* away from the epoch boundaries, the validator set.
LEMMA StepSafe ==
  ASSUME HistoryOK(engine), [Next]_vars
  PROVE  Safe(engine, engine') /\ Frozen(engine, engine', NextHeight)
<1>1. CASE Register
  <2>1. PICK v, keys : engine' = register_validator(engine, v, keys)
    BY <1>1 DEF Register
  <2>. QED
    BY <2>1, RequestsSafe DEF Frozen
<1>2. CASE ValidatorLeave
  <2>1. PICK v : engine' = queue_validator_removal(engine, v)
    BY <1>2 DEF ValidatorLeave
  <2>. QED
    BY <2>1, RequestsSafe DEF Frozen
<1>3. CASE ScheduleEpochLength
  <2>1. PICK len : engine' = schedule_epoch_length_update(engine, len)
    BY <1>3 DEF ScheduleEpochLength
  <2>. QED
    BY <2>1, RequestsSafe DEF Frozen
<1>4. CASE NewBlock
  <2>1. engine' = run_consensus_round(engine)
    BY <1>4 DEF NewBlock
  <2>. QED
    BY <2>1, RunSafe DEF Frozen, NextHeight
<1>5. CASE StartRound
  <2>1. engine' = prepare_consensus_round(engine, NextHeight)
    BY <1>5 DEF StartRound
  <2>. QED
    BY <2>1, PrepareSafe DEF Frozen
<1>6. CASE RunLoop \/ FollowChain
  <2>. DEFINE t == [engine EXCEPT !.running = TRUE]
  <2>1. engine' = SyncHeight(t) \/ engine' = SyncHeight(engine)
    BY <1>6 DEF RunLoop, FollowChain
  <2>2. SameHistory(engine, t) /\ t.validators = engine.validators
    BY DEF HistoryOK, SameHistory, Fields
  <2>3. SameHistory(engine, engine)
    BY DEF SameHistory
  <2>. HIDE DEF t
  <2>4. ASSUME NEW s, SameHistory(engine, s), s.validators = engine.validators
        PROVE  Safe(engine, SyncHeight(s)) /\ SyncHeight(s).validators = engine.validators
    <3>. DEFINE u == [s EXCEPT !.height = tip + 1]
    <3>1. SameHistory(engine, u) /\ u.validators = engine.validators
      BY <2>4 DEF HistoryOK, SameHistory, Fields
    <3>2. SyncHeight(s) = snapshot_validator_set(u, tip + 1)
      BY DEF SyncHeight
    <3>. HIDE DEF u
    <3>. QED
      BY <3>1, <3>2, SnapshotAfter
  <2>. QED
    BY <2>1, <2>2, <2>3, <2>4 DEF Frozen
<1>7. CASE ValidatorUpdate
  <2>. DEFINE joined == {e \in PeriodicUpdate :
                            can_register(engine.validators, e.identity, e.keys)}
              u == [engine EXCEPT !.validators = @ \cup {e.identity : e \in joined}]
  <2>1. engine' = snapshot_validator_set(u, engine.height)
    BY <1>7 DEF ValidatorUpdate
  <2>2. joined = {}
    BY Zenon DEF can_register, PeriodicUpdate
  <2>3. SameHistory(engine, u) /\ u.validators = engine.validators
    BY <2>2 DEF HistoryOK, SameHistory, Fields
  <2>. HIDE DEF u
  <2>. QED
    BY <2>1, <2>3, SnapshotAfter DEF Frozen
<1>8. CASE AddBlock \/ UNCHANGED vars
  <2>1. engine' = engine
    BY <1>8 DEF AddBlock, vars
  <2>. QED
    BY <2>1, SameHistorySeals DEF SameHistory, Safe, Frozen
<1>. QED
  BY <1>1, <1>2, <1>3, <1>4, <1>5, <1>6, <1>7, <1>8 DEF Next

\* The history of snapshots has at most one committee per height.
THEOREM OneCommitteePerHeight == Spec => []HistoryOK(engine)
<1>1. HistoryOK(engine) /\ [Next]_vars => HistoryOK(engine)'
  BY StepSafe DEF Safe
<1>. QED
  BY <1>1, InitHistoryOK, PTL DEF Spec

\* Once snapshot_validator_set has sealed the committee of a height, no event
\* changes it, whatever the limit of the history.
THEOREM CommitteesAreSealed == Spec => CommitteesSealed
<1>1. HistoryOK(engine) /\ [Next]_vars
        => [\A c \in ToSet(engine.history), d \in ToSet(engine'.history) :
               c.height = d.height => c = d]_vars
  BY StepSafe DEF Safe, Sealed
<1>. QED
  BY <1>1, OneCommitteePerHeight, PTL DEF Spec, CommitteesSealed

\* Once the chain has started, the validators change only at the start of a round
\* for an epoch boundary, whatever is registered, queued, scheduled or updated.
THEOREM SetFrozenWithinEpoch == Spec => FrozenWithinEpoch
<1>1. HistoryOK(engine) /\ [Next]_vars
        => [engine.chain_started /\ engine'.validators # engine.validators =>
              is_epoch_boundary(engine, NextHeight)]_vars
  BY StepSafe DEF Frozen
<1>. QED
  BY <1>1, OneCommitteePerHeight, PTL DEF Spec, FrozenWithinEpoch
---------------------------------------------------------------------------
(* The queue: what Retain keeps *)

\* A set of numbers that is not empty has a least one.
LEMMA LeastNumber ==
  ASSUME NEW T \in SUBSET Nat, T # {}
  PROVE  \E i \in T : \A j \in T : i <= j
<1>. DEFINE R == OpToRel(<, Nat)
<1>1. IsWellFoundedOn(R, Nat)
  BY NatLessThanWellFounded, Zenon
<1>2. PICK i \in T : \A j \in T : ~(<<j, i>> \in R)
  BY <1>1, WFMin, Zenon
<1>3. ASSUME NEW j \in T PROVE i <= j
  <2>1. j < i => <<j, i>> \in R
    BY DEF OpToRel
  <2>. HIDE DEF R
  <2>2. ~(j < i)
    BY <1>2, <2>1
  <2>3. i \in Nat /\ j \in Nat
    OBVIOUS
  <2>. QED
    BY <2>2, <2>3
<1>. QED
  BY <1>3

\* Induction over the numbers up to n.
LEMMA UpTo ==
  ASSUME NEW n \in Nat, NEW Good, 0 \in Good, \A i \in 0..n : i < n /\ i \in Good => i + 1 \in Good
  PROVE  \A i \in 0..n : i \in Good
<1>. DEFINE Bad == {i \in 0..n : i \notin Good}
<1>1. SUFFICES ASSUME Bad # {} PROVE FALSE
  OBVIOUS
<1>a. Bad \in SUBSET Nat
  OBVIOUS
<1>b. \E i \in Bad : \A j \in Bad : i <= j
  <2>. HIDE DEF Bad
  <2>. QED
    BY <1>1, <1>a, LeastNumber
<1>2. PICK i \in Bad : \A j \in Bad : i <= j
  BY <1>b
<1>3. i \in 1..n /\ i - 1 \in 0..n /\ i - 1 < n /\ (i - 1) + 1 = i
  OBVIOUS
<1>4. i - 1 \in Good
  BY <1>2, <1>3
<1>. QED
  BY <1>3, <1>4

\* The i-th value of the function in Retain, from the one before.
Kept(q, S, k, i) == IF i = 0 THEN <<>> ELSE IF q[i] \in S THEN Append(k[i - 1], q[i]) ELSE k[i - 1]

\* The function that Retain defines exists.
LEMMA RetainDefined ==
  ASSUME NEW C, NEW q \in Seq(C), NEW S
  PROVE  \E k : /\ k = [i \in 0..Len(q) |-> Kept(q, S, k, i)]
                /\ Retain(q, S) = k[Len(q)]
<1>. DEFINE Table(k, n) == k = [i \in 0..n |-> Kept(q, S, k, i)]
            Good == {n \in Nat : \E k : Table(k, n)}
<1>1. 0 \in Good
  <2>. DEFINE k == [i \in 0..0 |-> <<>>]
  <2>1. Table(k, 0)
    BY DEF Kept
  <2>. QED
    BY <2>1
<1>2. ASSUME NEW n \in Nat, NEW k, Table(k, n) PROVE \E m : Table(m, n + 1)
  <2>. DEFINE m == [i \in 0..(n + 1) |-> IF i <= n THEN k[i] ELSE Kept(q, S, k, i)]
  <2>1. \A i \in 0..n : m[i] = k[i]
    OBVIOUS
  <2>2. ASSUME NEW i \in 0..(n + 1) PROVE m[i] = Kept(q, S, m, i)
    <3>1. Kept(q, S, m, i) = Kept(q, S, k, i)
      <4>1. i # 0 => i - 1 \in 0..n
        OBVIOUS
      <4>. HIDE DEF m
      <4>. QED
        BY <2>1, <4>1 DEF Kept
    <3>2. CASE i <= n
      <4>1. i \in 0..n
        BY <3>2
      <4>2. k[i] = Kept(q, S, k, i)
        <5>. DEFINE g == [j \in 0..n |-> Kept(q, S, k, j)]
        <5>1. g[i] = Kept(q, S, k, i)
          BY <4>1
        <5>2. k = g
          BY <1>2
        <5>. QED
          BY <5>1, <5>2, Zenon
      <4>. QED
        BY <2>1, <3>1, <4>1, <4>2
    <3>3. CASE ~(i <= n)
      BY <3>1, <3>3
    <3>. QED
      BY <3>2, <3>3
  <2>3. Table(m, n + 1)
    <3>1. m = [i \in 0..(n + 1) |-> m[i]]
      OBVIOUS
    <3>. HIDE DEF m
    <3>. QED
      BY <2>2, <3>1
  <2>. QED
    BY <2>3, Zenon
<1>3. Len(q) \in Nat
  OBVIOUS
<1>. HIDE DEF Table
<1>4. \A i \in 0..Len(q) : i \in Good
  <2>1. \A i \in 0..Len(q) : i < Len(q) /\ i \in Good => i + 1 \in Good
    BY <1>2, <1>3
  <2>. HIDE DEF Good
  <2>. QED
    BY <1>1, <1>3, <2>1, UpTo
<1>5. \E k : Table(k, Len(q))
  BY <1>3, <1>4
<1>6. Retain(q, S) = (CHOOSE k : Table(k, Len(q)))[Len(q)]
  BY DEF Retain, Table, Kept
<1>7. Table(CHOOSE k : Table(k, Len(q)), Len(q))
  BY <1>5, Zenon
<1>. QED
  BY <1>6, <1>7, Zenon DEF Table

\* f places the entries of r at distinct positions of q, where they came from.
Places(f, r, q) ==
    /\ f \in [DOMAIN r -> DOMAIN q]
    /\ \A i, j \in DOMAIN r : f[i] = f[j] => i = j
    /\ \A i \in DOMAIN r : r[i] = q[f[i]]

\* An entry appended to r that comes from a later position of q.
LEMMA PlacesAppend ==
  ASSUME NEW C, NEW q \in Seq(C), NEW r \in Seq(C), NEW f, Places(f, r, q),
         NEW n \in DOMAIN q, \A i \in DOMAIN r : f[i] < n
  PROVE  \E g : Places(g, Append(r, q[n]), q) /\ \A i \in DOMAIN Append(r, q[n]) : g[i] <= n
<1>1. PICK a : a = Append(r, q[n])
  BY Zenon
<1>2. PICK l : l = Len(r) + 1
  OBVIOUS
<1>3. /\ DOMAIN r = 1..Len(r) /\ Len(r) \in Nat /\ DOMAIN q \subseteq Nat
      /\ q[n] \in C
  OBVIOUS
<1>4. /\ DOMAIN a = 1..l /\ a[l] = q[n] /\ l \in Nat
      /\ \A i \in DOMAIN r : a[i] = r[i] /\ i \in DOMAIN a
      /\ \A i \in DOMAIN a : i \in DOMAIN r \/ i = l
      /\ l \notin DOMAIN r
  BY <1>1, <1>2, <1>3
<1>5. PICK g : g = [i \in DOMAIN a |-> IF i = l THEN n ELSE f[i]]
  BY Zenon
<1>6. g[l] = n /\ \A i \in DOMAIN r : g[i] = f[i] /\ f[i] \in DOMAIN q
  <2>1. l \in DOMAIN a
    BY <1>3, <1>4, <1>2
  <2>2. f \in [DOMAIN r -> DOMAIN q]
    BY DEF Places
  <2>. QED
    BY <1>4, <1>5, <2>1, <2>2
<1>7. g \in [DOMAIN a -> DOMAIN q]
  <2>1. \A i \in DOMAIN a : g[i] \in DOMAIN q
    BY <1>4, <1>6
  <2>. QED
    BY <1>5, <2>1
<1>8. ASSUME NEW i \in DOMAIN a PROVE a[i] = q[g[i]] /\ g[i] <= n
  <2>1. CASE i = l
    BY <1>3, <1>4, <1>6, <2>1
  <2>2. CASE i \in DOMAIN r
    BY <1>3, <1>4, <1>6, <2>2 DEF Places
  <2>. QED
    BY <1>4, <2>1, <2>2
<1>9. ASSUME NEW i \in DOMAIN a, NEW j \in DOMAIN a, g[i] = g[j] PROVE i = j
  <2>1. CASE i \in DOMAIN r /\ j \in DOMAIN r
    BY <1>6, <1>9, <2>1 DEF Places
  <2>2. CASE i = l /\ j \in DOMAIN r
    <3>1. f[j] < n /\ f[j] = n
      BY <1>6, <1>9, <2>2
    <3>2. n \in Nat /\ f[j] \in Nat
      BY <1>3, <1>6, <2>2
    <3>. QED
      BY <3>1, <3>2
  <2>3. CASE i \in DOMAIN r /\ j = l
    <3>1. f[i] < n /\ f[i] = n
      BY <1>6, <1>9, <2>3
    <3>2. n \in Nat /\ f[i] \in Nat
      BY <1>3, <1>6, <2>3
    <3>. QED
      BY <3>1, <3>2
  <2>. QED
    BY <1>4, <2>1, <2>2, <2>3
<1>10. Places(g, a, q)
  BY <1>7, <1>8, <1>9 DEF Places
<1>. QED
  BY <1>1, <1>8, <1>10

\* Retain keeps entries of q that are in S, each from a position of its own.
LEMMA RetainPlaces ==
  ASSUME NEW C, NEW q \in Seq(C), NEW S
  PROVE  /\ Retain(q, S) \in Seq(C)
         /\ \A i \in DOMAIN Retain(q, S) : Retain(q, S)[i] \in S
         /\ \E f : Places(f, Retain(q, S), q)
<1>1. PICK k : /\ k = [i \in 0..Len(q) |-> Kept(q, S, k, i)]
               /\ Retain(q, S) = k[Len(q)]
  BY RetainDefined
<1>2. Len(q) \in Nat /\ DOMAIN q = 1..Len(q)
  OBVIOUS
<1>3. ASSUME NEW i \in 0..Len(q) PROVE k[i] = Kept(q, S, k, i)
  <2>. DEFINE g == [j \in 0..Len(q) |-> Kept(q, S, k, j)]
  <2>1. g[i] = Kept(q, S, k, i)
    OBVIOUS
  <2>2. k = g
    BY <1>1
  <2>. QED
    BY <2>1, <2>2
<1>. DEFINE Fine(n) == /\ k[n] \in Seq(C)
                       /\ \A i \in DOMAIN k[n] : k[n][i] \in S
                       /\ \E f : /\ Places(f, k[n], q)
                                 /\ \A i \in DOMAIN k[n] : f[i] <= n
            Good == {n \in Nat : Fine(n)}
<1>4. 0 \in Good
  <2>1. k[0] = <<>>
    BY <1>2, <1>3 DEF Kept
  <2>2. Places([i \in {} |-> 0], <<>>, q)
    BY DEF Places
  <2>3. <<>> \in Seq(C) /\ DOMAIN <<>> = {}
    OBVIOUS
  <2>. QED
    BY <2>1, <2>2, <2>3, Zenon
<1>5. ASSUME NEW n \in 0..Len(q), n < Len(q), Fine(n) PROVE Fine(n + 1)
  <2>1. n + 1 \in DOMAIN q /\ n + 1 \in 0..Len(q) /\ n \in Nat /\ n + 1 # 0 /\ (n + 1) - 1 = n
    BY <1>2, <1>5
  <2>2. k[n + 1] = IF q[n + 1] \in S THEN Append(k[n], q[n + 1]) ELSE k[n]
    BY <1>3, <2>1 DEF Kept
  <2>3. PICK f : Places(f, k[n], q) /\ \A i \in DOMAIN k[n] : f[i] <= n
    BY <1>5
  <2>4. \A i \in DOMAIN k[n] : f[i] \in Nat
    BY <1>2, <2>3 DEF Places
  <2>5. \A i \in DOMAIN k[n] : f[i] < n + 1 /\ f[i] <= n + 1
    BY <2>1, <2>3, <2>4
  <2>6. CASE q[n + 1] \notin S
    BY <1>5, <2>2, <2>3, <2>5, <2>6
  <2>7. CASE q[n + 1] \in S
    <3>1. PICK r \in Seq(C), m \in DOMAIN q : r = k[n] /\ m = n + 1
      BY <1>5, <2>1
    <3>2. \E g : Places(g, Append(r, q[m]), q) /\ \A i \in DOMAIN Append(r, q[m]) : g[i] <= m
      BY <2>3, <2>5, <3>1, PlacesAppend, Zenon
    <3>3. q[m] \in C
      OBVIOUS
    <3>4. /\ Append(r, q[m]) \in Seq(C)
          /\ \A i \in DOMAIN Append(r, q[m]) :
                (i \in DOMAIN r /\ Append(r, q[m])[i] = r[i]) \/ Append(r, q[m])[i] = q[m]
      BY <3>3
    <3>5. k[n + 1] = Append(r, q[m])
      BY <2>2, <2>7, <3>1
    <3>. QED
      BY <1>5, <2>7, <3>1, <3>2, <3>4, <3>5
  <2>. QED
    BY <2>6, <2>7
<1>. HIDE DEF Fine
<1>6. \A i \in 0..Len(q) : i < Len(q) /\ i \in Good => i + 1 \in Good
  BY <1>2, <1>5
<1>7. Len(q) \in Good
  <2>. HIDE DEF Good
  <2>1. \A i \in 0..Len(q) : i \in Good
    BY <1>2, <1>4, <1>6, UpTo
  <2>. QED
    BY <1>2, <2>1
<1>. QED
  BY <1>1, <1>7 DEF Fine

\* Retain keeps every entry of q that is in S.
LEMMA RetainLength ==
  ASSUME NEW C, NEW q \in Seq(C), NEW S
  PROVE  Len(Retain(q, S)) = Cardinality({i \in DOMAIN q : q[i] \in S})
<1>1. PICK k : /\ k = [i \in 0..Len(q) |-> Kept(q, S, k, i)]
               /\ Retain(q, S) = k[Len(q)]
  BY RetainDefined
<1>2. Len(q) \in Nat /\ DOMAIN q = 1..Len(q)
  OBVIOUS
<1>3. ASSUME NEW i \in 0..Len(q) PROVE k[i] = Kept(q, S, k, i)
  <2>. DEFINE g == [j \in 0..Len(q) |-> Kept(q, S, k, j)]
  <2>1. g[i] = Kept(q, S, k, i)
    OBVIOUS
  <2>2. k = g
    BY <1>1
  <2>. QED
    BY <2>1, <2>2
<1>. DEFINE At(n) == {i \in 1..n : q[i] \in S}
            Fine(n) == k[n] \in Seq(C) /\ Len(k[n]) = Cardinality(At(n))
            Good == {n \in Nat : Fine(n)}
<1>4. 0 \in Good
  <2>1. k[0] = <<>>
    BY <1>2, <1>3 DEF Kept
  <2>2. At(0) = {}
    OBVIOUS
  <2>3. <<>> \in Seq(C) /\ Len(<<>>) = 0
    OBVIOUS
  <2>. QED
    BY <2>1, <2>2, <2>3, FS_EmptySet, Zenon
<1>5. ASSUME NEW n \in 0..Len(q), n < Len(q), Fine(n) PROVE Fine(n + 1)
  <2>1. n + 1 \in DOMAIN q /\ n + 1 \in 0..Len(q) /\ n \in Nat /\ n + 1 # 0 /\ (n + 1) - 1 = n
    BY <1>2, <1>5
  <2>2. k[n + 1] = IF q[n + 1] \in S THEN Append(k[n], q[n + 1]) ELSE k[n]
    BY <1>3, <2>1 DEF Kept
  <2>3. At(n + 1) = IF q[n + 1] \in S THEN At(n) \cup {n + 1} ELSE At(n)
    BY <2>1
  <2>4. IsFiniteSet(At(n)) /\ n + 1 \notin At(n)
    <3>1. IsFiniteSet(1..n) /\ At(n) \in SUBSET (1..n)
      BY <2>1, FS_Interval
    <3>. HIDE DEF At
    <3>2. IsFiniteSet(At(n))
      BY <3>1, FS_Subset
    <3>. QED
      BY <2>1, <3>1, <3>2
  <2>5. k[n] \in Seq(C) /\ Len(k[n]) = Cardinality(At(n)) /\ q[n + 1] \in C
    BY <1>5, <2>1
  <2>. HIDE DEF At
  <2>6. CASE q[n + 1] \notin S
    BY <2>2, <2>3, <2>5, <2>6
  <2>7. CASE q[n + 1] \in S
    <3>1. Cardinality(At(n + 1)) = Cardinality(At(n)) + 1
      BY <2>3, <2>4, <2>7, FS_AddElement
    <3>2. k[n + 1] \in Seq(C) /\ Len(k[n + 1]) = Len(k[n]) + 1
      BY <2>2, <2>5, <2>7
    <3>. QED
      BY <2>5, <3>1, <3>2
  <2>. QED
    BY <2>6, <2>7
<1>. HIDE DEF Fine
<1>6. \A i \in 0..Len(q) : i < Len(q) /\ i \in Good => i + 1 \in Good
  BY <1>2, <1>5
<1>7. Len(q) \in Good
  <2>. HIDE DEF Good
  <2>1. \A i \in 0..Len(q) : i \in Good
    BY <1>2, <1>4, <1>6, UpTo
  <2>. QED
    BY <1>2, <2>1
<1>. QED
  BY <1>1, <1>2, <1>7 DEF Fine

\* The entries of r stem from distinct positions of q, all in P: the same change of the
\* same identity, for whatever height.
Stems(f, r, q, P) ==
    /\ P \subseteq DOMAIN q
    /\ f \in [DOMAIN r -> P]
    /\ \A i, j \in DOMAIN r : f[i] = f[j] => i = j
    /\ \A i \in DOMAIN r : r[i].kind = q[f[i]].kind /\ r[i].identity = q[f[i]].identity

\* Retain's entries stem from the positions of q with entries in S.
LEMMA RetainStems ==
  ASSUME NEW C, NEW q \in Seq(C), NEW S
  PROVE  \E f : Stems(f, Retain(q, S), q, {i \in DOMAIN q : q[i] \in S})
<1>1. PICK f : Places(f, Retain(q, S), q)
  BY RetainPlaces
<1>2. PICK r : r = Retain(q, S)
  OBVIOUS
<1>3. \A i \in DOMAIN r : r[i] \in S
  BY <1>2, RetainPlaces
<1>4. f \in [DOMAIN r -> {i \in DOMAIN q : q[i] \in S}]
  BY <1>1, <1>2, <1>3 DEF Places
<1>5. Stems(f, r, q, {i \in DOMAIN q : q[i] \in S})
  BY <1>1, <1>2, <1>4 DEF Places, Stems
<1>. QED
  BY <1>2, <1>5, Zenon

\* A part of a sequence stems from where the sequence does.
LEMMA PartStems ==
  ASSUME NEW C, NEW r \in Seq(C), NEW q, NEW P, NEW f, Stems(f, r, q, P),
         NEW m \in Nat \ {0}, NEW n \in Nat, n <= Len(r)
  PROVE  \E g : Stems(g, SubSeq(r, m, n), q, P)
<1>1. PICK a : a = SubSeq(r, m, n)
  BY Zenon
<1>2. ASSUME NEW i \in DOMAIN a
      PROVE  i \in Nat /\ i + m - 1 \in DOMAIN r /\ a[i] = r[i + m - 1]
  BY <1>1, <1>2
<1>3. PICK g : g = [i \in DOMAIN a |-> f[i + m - 1]]
  BY Zenon
<1>4. \A i \in DOMAIN a : g[i] = f[i + m - 1] /\ g[i] \in P
  BY <1>2, <1>3 DEF Stems
<1>5. g \in [DOMAIN a -> P]
  BY <1>3, <1>4
<1>6. ASSUME NEW i \in DOMAIN a, NEW j \in DOMAIN a, g[i] = g[j] PROVE i = j
  <2>1. i + m - 1 = j + m - 1
    BY <1>2, <1>4, <1>6 DEF Stems
  <2>2. i \in Nat /\ j \in Nat
    BY <1>2
  <2>. QED
    BY <2>1, <2>2
<1>7. Stems(g, a, q, P)
  BY <1>2, <1>4, <1>5, <1>6 DEF Stems
<1>. QED
  BY <1>1, <1>7

\* Two sequences, one after the other, that stem from different positions.
LEMMA ConcatStems ==
  ASSUME NEW C, NEW a \in Seq(C), NEW b \in Seq(C), NEW q, NEW P, NEW R, P \cap R = {},
         NEW f, Stems(f, a, q, P), NEW g, Stems(g, b, q, R)
  PROVE  \E h : Stems(h, a \o b, q, P \cup R)
<1>1. PICK c : c = a \o b
  BY Zenon
<1>2. PICK l : l = Len(a)
  OBVIOUS
<1>3. /\ l \in Nat /\ DOMAIN c \subseteq Nat
      /\ \A i \in DOMAIN c : i <= l => i \in DOMAIN a /\ c[i] = a[i]
      /\ \A i \in DOMAIN c : ~(i <= l) => i - l \in DOMAIN b /\ c[i] = b[i - l]
  BY <1>1, <1>2
<1>4. PICK h : h = [i \in DOMAIN c |-> IF i <= l THEN f[i] ELSE g[i - l]]
  BY Zenon
<1>5. ASSUME NEW i \in DOMAIN c
      PROVE  /\ i <= l => h[i] = f[i] /\ h[i] \in P
             /\ ~(i <= l) => h[i] = g[i - l] /\ h[i] \in R
             /\ c[i].kind = q[h[i]].kind /\ c[i].identity = q[h[i]].identity
  <2>1. CASE i <= l
    BY <1>3, <1>4, <2>1 DEF Stems
  <2>2. CASE ~(i <= l)
    BY <1>3, <1>4, <2>2 DEF Stems
  <2>. QED
    BY <2>1, <2>2
<1>6. h \in [DOMAIN c -> P \cup R]
  BY <1>4, <1>5
<1>7. ASSUME NEW i \in DOMAIN c, NEW j \in DOMAIN c, h[i] = h[j] PROVE i = j
  <2>1. CASE i <= l /\ j <= l
    BY <1>3, <1>5, <1>7, <2>1 DEF Stems
  <2>2. CASE ~(i <= l) /\ ~(j <= l)
    <3>1. i - l = j - l
      BY <1>3, <1>5, <1>7, <2>2 DEF Stems
    <3>. QED
      BY <1>3, <3>1
  <2>3. CASE (i <= l) # (j <= l)
    BY <1>5, <1>7, <2>3
  <2>. QED
    BY <2>1, <2>2, <2>3
<1>8. P \cup R \subseteq DOMAIN q
  BY DEF Stems
<1>9. Stems(h, c, q, P \cup R)
  BY <1>5, <1>6, <1>7, <1>8 DEF Stems
<1>. QED
  BY <1>1, <1>9

\* Putting changes off leaves them the changes they are.
LEMMA PostponedStems ==
  ASSUME NEW r \in Seq(Change), NEW q, NEW P, NEW f, Stems(f, r, q, P), NEW h \in Nat
  PROVE  /\ Postponed(r, h) \in Seq(Change)
         /\ \A i \in DOMAIN Postponed(r, h) : Postponed(r, h)[i].effective_height = h
         /\ Stems(f, Postponed(r, h), q, P)
<1>1. PICK p : p = Postponed(r, h)
  OBVIOUS
<1>2. DOMAIN p = DOMAIN r /\ \A i \in DOMAIN r : p[i] = [r[i] EXCEPT !.effective_height = h]
  BY <1>1 DEF Postponed
<1>3. ASSUME NEW i \in DOMAIN r
      PROVE  /\ p[i] \in Change /\ p[i].effective_height = h
             /\ p[i].kind = r[i].kind /\ p[i].identity = r[i].identity
  <2>1. r[i] \in Change
    OBVIOUS
  <2>. QED
    BY <1>2, <2>1 DEF Change
<1>4. p \in Seq(Change)
  <2>1. DOMAIN r = 1..Len(r) /\ Len(r) \in Nat
    OBVIOUS
  <2>2. p = [i \in 1..Len(r) |-> p[i]]
    BY <1>1, <2>1 DEF Postponed
  <2>. QED
    BY <1>3, <2>1, <2>2
<1>5. Stems(f, p, q, P)
  BY <1>2, <1>3 DEF Stems
<1>. QED
  BY <1>1, <1>2, <1>3, <1>4, <1>5

---------------------------------------------------------------------------
(* Epoch boundaries *)

\* Division with remainder.
LEMMA Division ==
  ASSUME NEW h \in Nat, NEW l \in Nat \ {0}
  PROVE  /\ h \div l \in Nat /\ h % l \in 0..(l - 1)
         /\ h = (h \div l) * l + (h % l)
OBVIOUS

\* Quotient and remainder are unique.
LEMMA DivisionUnique ==
  ASSUME NEW l \in Nat \ {0}, NEW a \in Nat, NEW b \in Nat, NEW x \in 0..(l - 1),
         NEW y \in 0..(l - 1), a * l + x = b * l + y
  PROVE  a = b /\ x = y
<1>1. ASSUME NEW c \in Nat, NEW d \in Nat, c < d PROVE c * l + l <= d * l
  <2>1. c + 1 <= d
    BY <1>1
  <2>2. PICK e \in Nat : d = c + 1 + e
    <3>1. d - (c + 1) \in Nat /\ d = c + 1 + (d - (c + 1))
      BY <2>1
    <3>. QED
      BY <3>1
  <2>3. d * l = c * l + l + e * l
    BY <2>2
  <2>4. e * l \in Nat /\ c * l \in Nat
    OBVIOUS
  <2>. QED
    BY <2>3, <2>4
<1>2. a * l \in Nat /\ b * l \in Nat
  OBVIOUS
<1>3. ~(a < b)
  BY <1>1, <1>2
<1>4. ~(b < a)
  BY <1>1, <1>2
<1>5. a = b
  BY <1>3, <1>4
<1>. QED
  BY <1>2, <1>5

\* The next epoch starts after h, at a boundary; it is h + 1 if that is a boundary, and
\* what it is for h + 1 otherwise.
LEMMA EpochStarts ==
  ASSUME NEW s, s.epoch_length \in Nat \ {0}, NEW h \in Nat
  PROVE  /\ next_epoch_start(s, h) \in Nat /\ next_epoch_start(s, h) > h
         /\ is_epoch_boundary(s, next_epoch_start(s, h))
         /\ is_epoch_boundary(s, h + 1) => next_epoch_start(s, h) = h + 1
         /\ ~is_epoch_boundary(s, h + 1) => next_epoch_start(s, h + 1) = next_epoch_start(s, h)
<1>1. PICK l \in Nat \ {0} : l = s.epoch_length
  OBVIOUS
<1>2. PICK k \in Nat, r \in 0..(l - 1) : /\ k = h \div l /\ r = h % l /\ h = k * l + r
  BY Division, Zenon
<1>3. PICK m \in Nat, x \in 0..(l - 1) :
           m = (h + 1) \div l /\ x = (h + 1) % l /\ h + 1 = m * l + x
  <2>1. h + 1 \in Nat
    OBVIOUS
  <2>. QED
    BY <2>1, Division, Zenon
<1>4. next_epoch_start(s, h) = (k + 1) * l /\ next_epoch_start(s, h + 1) = (m + 1) * l
  BY <1>1, <1>2, <1>3 DEF next_epoch_start
<1>5. k * l \in Nat /\ (k + 1) * l = k * l + l /\ (k + 1) * l \in Nat /\ k + 1 \in Nat
  OBVIOUS
<1>6. next_epoch_start(s, h) \in Nat /\ next_epoch_start(s, h) > h
  BY <1>2, <1>4, <1>5
<1>7. is_epoch_boundary(s, next_epoch_start(s, h))
  <2>1. PICK n \in Nat : n = (k + 1) * l
    BY <1>5
  <2>2. PICK b \in Nat, y \in 0..(l - 1) : y = n % l /\ n = b * l + y
    BY Division, Zenon
  <2>3. 0 \in 0..(l - 1) /\ (k + 1) * l + 0 = b * l + y
    BY <1>5, <2>1, <2>2
  <2>4. y = 0
    BY <1>5, <2>3, DivisionUnique
  <2>. QED
    BY <1>1, <1>4, <2>1, <2>2, <2>4 DEF is_epoch_boundary
<1>8. x = 0 <=> is_epoch_boundary(s, h + 1)
  BY <1>1, <1>3 DEF is_epoch_boundary
<1>9. CASE r + 1 = l
  <2>1. (k + 1) * l + 0 = m * l + x /\ 0 \in 0..(l - 1)
    BY <1>2, <1>3, <1>5, <1>9
  <2>2. m = k + 1 /\ x = 0
    BY <1>5, <2>1, DivisionUnique
  <2>. QED
    BY <1>2, <1>4, <1>5, <1>6, <1>7, <1>8, <1>9, <2>2
<1>10. CASE r + 1 # l
  <2>1. r + 1 \in 0..(l - 1) /\ k * l + (r + 1) = m * l + x
    BY <1>2, <1>3, <1>5, <1>10
  <2>2. m = k /\ x = r + 1
    BY <2>1, DivisionUnique
  <2>. QED
    BY <1>4, <1>6, <1>7, <1>8, <2>2
<1>. QED
  BY <1>9, <1>10

---------------------------------------------------------------------------
(* The queue at an epoch boundary *)

\* No addition of an identity is next to another change of that identity.
Consistent(q) ==
    \A i, j \in DOMAIN q : i # j /\ q[i].kind = "add" => q[i].identity # q[j].identity

\* What stems from a consistent queue is consistent.
LEMMA StemsConsistent ==
  ASSUME NEW q, Consistent(q), NEW r, NEW P, NEW f, Stems(f, r, q, P)
  PROVE  Consistent(r)
<1>. SUFFICES ASSUME NEW i \in DOMAIN r, NEW j \in DOMAIN r, i # j, r[i].kind = "add"
              PROVE  r[i].identity # r[j].identity
  BY DEF Consistent
<1>1. f[i] \in DOMAIN q /\ f[j] \in DOMAIN q /\ f[i] # f[j]
  BY DEF Stems
<1>2. q[f[i]].kind = "add"
  BY DEF Stems
<1>3. q[f[i]].identity # q[f[j]].identity
  BY <1>1, <1>2 DEF Consistent
<1>. QED
  BY <1>3 DEF Stems

\* The entries q has at its positions make up ToSet(q).
LEMMA Entries ==
  ASSUME NEW q \in Seq(Change)
  PROVE  /\ \A i \in DOMAIN q : q[i] \in ToSet(q) /\ q[i] \in Change
         /\ \A e \in ToSet(q) : e \in Change /\ \E i \in DOMAIN q : e = q[i]
BY DEF ToSet

\* The end of a sequence of changes is one.
LEMMA QueueEnd ==
  ASSUME NEW a \in Seq(Change), NEW x \in Nat
  PROVE  SubSeq(a, x + 1, Len(a)) \in Seq(Change)
OBVIOUS

\* Two sequences of changes, one after the other.
LEMMA QueuesJoined ==
  ASSUME NEW a \in Seq(Change), NEW b \in Seq(Change), NEW S, NEW h,
         \A i \in DOMAIN a : a[i] \in S, \A i \in DOMAIN b : b[i].effective_height = h
  PROVE  /\ a \o b \in Seq(Change)
         /\ \A i \in DOMAIN (a \o b) : (a \o b)[i].effective_height = h \/ (a \o b)[i] \in S
<1>1. PICK c : c = a \o b
  BY Zenon
<1>2. c \in Seq(Change)
  BY <1>1
<1>3. /\ \A i \in DOMAIN c : i <= Len(a) => i \in DOMAIN a /\ c[i] = a[i]
      /\ \A i \in DOMAIN c : ~(i <= Len(a)) => i - Len(a) \in DOMAIN b /\ c[i] = b[i - Len(a)]
  BY <1>1
<1>4. \A i \in DOMAIN c : c[i].effective_height = h \/ c[i] \in S
  BY <1>3
<1>. QED
  BY <1>1, <1>2, <1>4

\* The changes due at h, all or those of one kind.
DueAt(q, h) == {e \in ToSet(q) : e.effective_height = h}
Due(q, h, kind) == Retain(q, {e \in DueAt(q, h) : e.kind = kind})

\* What a boundary leaves in the queue: the changes that were not due, and those put off.
Left(q, h, next, x, y) ==
    Retain(q, ToSet(q) \ DueAt(q, h))
    \o Postponed(SubSeq(Due(q, h, "remove"), x + 1, Len(Due(q, h, "remove")))
                 \o SubSeq(Due(q, h, "add"), y + 1, Len(Due(q, h, "add"))), next)

\* They are consistent changes, for the next boundary or as they were.
LEMMA LeftInQueue ==
  ASSUME NEW q \in Seq(Change), NEW h \in Nat, NEW next \in Nat, NEW x \in Nat, NEW y \in Nat
  PROVE  /\ Left(q, h, next, x, y) \in Seq(Change)
         /\ Consistent(q) => Consistent(Left(q, h, next, x, y))
         /\ \A i \in DOMAIN Left(q, h, next, x, y) :
              \/ Left(q, h, next, x, y)[i].effective_height = next
              \/ Left(q, h, next, x, y)[i] \in ToSet(q) \ DueAt(q, h)
<1>a. PICK due : due = DueAt(q, h)
  OBVIOUS
<1>b. PICK removals : removals = Due(q, h, "remove")
  OBVIOUS
<1>c. PICK additions : additions = Due(q, h, "add")
  OBVIOUS
<1>1. /\ removals \in Seq(Change) /\ additions \in Seq(Change)
      /\ Retain(q, ToSet(q) \ due) \in Seq(Change)
      /\ \A i \in DOMAIN Retain(q, ToSet(q) \ due) : Retain(q, ToSet(q) \ due)[i] \in ToSet(q) \ due
  BY <1>b, <1>c, RetainPlaces DEF Due
<1>. DEFINE P == {i \in DOMAIN q : q[i] \in {e \in due : e.kind = "remove"}}
            R == {i \in DOMAIN q : q[i] \in {e \in due : e.kind = "add"}}
            K == {i \in DOMAIN q : q[i] \in ToSet(q) \ due}
<1>2. PICK f : Stems(f, removals, q, P)
  BY <1>a, <1>b, RetainStems, Zenon DEF Due
<1>3. PICK g : Stems(g, additions, q, R)
  BY <1>a, <1>c, RetainStems, Zenon DEF Due
<1>4. PICK k : Stems(k, Retain(q, ToSet(q) \ due), q, K)
  BY RetainStems, Zenon
<1>5. P \cap R = {} /\ K \cap (P \cup R) = {}
  OBVIOUS
<1>. HIDE DEF P, R, K
<1>6. PICK a : a = SubSeq(removals, x + 1, Len(removals))
  BY Zenon
<1>7. PICK b : b = SubSeq(additions, y + 1, Len(additions))
  BY Zenon
<1>8. a \in Seq(Change) /\ b \in Seq(Change)
  BY <1>1, <1>6, <1>7, QueueEnd
<1>9. PICK fa : Stems(fa, a, q, P)
  <2>1. x + 1 \in Nat \ {0} /\ Len(removals) \in Nat /\ Len(removals) <= Len(removals)
    BY <1>1
  <2>. QED
    BY <1>1, <1>2, <1>6, <2>1, PartStems, Zenon
<1>10. PICK gb : Stems(gb, b, q, R)
  <2>1. y + 1 \in Nat \ {0} /\ Len(additions) \in Nat /\ Len(additions) <= Len(additions)
    BY <1>1
  <2>. QED
    BY <1>1, <1>3, <1>7, <2>1, PartStems, Zenon
<1>11. PICK late : late = a \o b
  BY Zenon
<1>12. late \in Seq(Change)
  BY <1>8, <1>11
<1>13. PICK l : Stems(l, late, q, P \cup R)
  BY <1>5, <1>8, <1>9, <1>10, <1>11, ConcatStems, Zenon
<1>14. PICK p : p = Postponed(late, next)
  OBVIOUS
<1>15. /\ p \in Seq(Change) /\ Stems(l, p, q, P \cup R)
       /\ \A i \in DOMAIN p : p[i].effective_height = next
  BY <1>12, <1>13, <1>14, PostponedStems, Zenon
<1>16. PICK r \in Seq(Change) : r = Retain(q, ToSet(q) \ due)
  BY <1>1
<1>17. Left(q, h, next, x, y) = r \o p
  BY <1>a, <1>b, <1>c, <1>6, <1>7, <1>11, <1>14, <1>16 DEF Left
<1>18. PICK m : Stems(m, Left(q, h, next, x, y), q, K \cup (P \cup R))
  <2>1. Stems(k, r, q, K)
    BY <1>4, <1>16
  <2>2. \E m : Stems(m, r \o p, q, K \cup (P \cup R))
    BY <1>5, <1>15, <2>1, ConcatStems, Zenon
  <2>. QED
    BY <1>17, <2>2
<1>19. Consistent(q) => Consistent(Left(q, h, next, x, y))
  BY <1>18, StemsConsistent
<1>20. \A i \in DOMAIN r : r[i] \in ToSet(q) \ due
  BY <1>1, <1>16, Zenon
<1>21. /\ r \o p \in Seq(Change)
       /\ \A i \in DOMAIN (r \o p) : \/ (r \o p)[i].effective_height = next
                                     \/ (r \o p)[i] \in ToSet(q) \ due
  BY <1>15, <1>20, QueuesJoined
<1>. QED
  BY <1>a, <1>17, <1>19, <1>21

---------------------------------------------------------------------------
(* The validators at an epoch boundary *)

\* The lesser and the greater of two numbers.
LEMMA LesserAndGreater ==
  ASSUME NEW a \in Nat, NEW b \in Nat
  PROVE  /\ Min({a, b}) \in Nat /\ Min({a, b}) <= a /\ Min({a, b}) <= b
         /\ Max({a, b}) \in Nat /\ Max({a, b}) >= a /\ Max({a, b}) >= b
<1>1. \E x \in {a, b} : \A y \in {a, b} : x <= y
  <2>1. a <= b \/ b <= a
    OBVIOUS
  <2>. QED
    BY <2>1
<1>2. \E x \in {a, b} : \A y \in {a, b} : x >= y
  <2>1. a <= b \/ b <= a
    OBVIOUS
  <2>. QED
    BY <2>1
<1>3. Min({a, b}) \in {a, b} /\ \A y \in {a, b} : Min({a, b}) <= y
  BY <1>1 DEF Min
<1>4. Max({a, b}) \in {a, b} /\ \A y \in {a, b} : Max({a, b}) >= y
  BY <1>2 DEF Max
<1>. QED
  BY <1>3, <1>4

\* The first m changes name at most m identities.
LEMMA FewIdentities ==
  ASSUME NEW r \in Seq(Change), NEW m \in 0..Len(r)
  PROVE  /\ {r[k].identity : k \in 1..m} \in SUBSET Identities
         /\ IsFiniteSet({r[k].identity : k \in 1..m})
         /\ Cardinality({r[k].identity : k \in 1..m}) <= m
<1>1. m \in Nat /\ 1..m \subseteq DOMAIN r
  OBVIOUS
<1>2. PICK S : S = {r[k].identity : k \in 1..m}
  BY Zenon
<1>3. PICK f : f = [k \in 1..m |-> r[k].identity]
  BY Zenon
<1>4. f \in [1..m -> S] /\ \A v \in S : \E k \in 1..m : f[k] = v
  BY <1>2, <1>3
<1>5. f \in Surjection(1..m, S)
  BY <1>4 DEF Surjection
<1>6. IsFiniteSet(1..m) /\ Cardinality(1..m) = m
  BY <1>1, FS_Interval
<1>7. IsFiniteSet(S) /\ Cardinality(S) <= m
  BY <1>5, <1>6, FS_Surjection
<1>8. S \in SUBSET Identities
  <2>1. \A k \in 1..m : r[k] \in Change
    BY <1>1
  <2>. QED
    BY <1>2, <2>1 DEF Change
<1>. QED
  BY <1>2, <1>7, <1>8

\* register_all registers the first additions, some or all.
LEMMA RegistersFirst ==
  ASSUME NEW set, NEW r \in Seq(Change)
  PROVE  \E m \in 0..Len(r) : register_all(set, r).set = set \cup {r[k].identity : k \in 1..m}
<1>. DEFINE After(i) == set \cup {r[k].identity : k \in 1..i}
            Failing  == {i \in DOMAIN r : /\ r[i].identity \notin After(i - 1)
                                          /\ ~can_register(After(i - 1), r[i].identity, r[i].keys)}
            m == IF Failing = {} THEN Len(r) ELSE Min(Failing) - 1
<1>1. register_all(set, r).set = After(m)
  BY DEF register_all
<1>2. Failing \in SUBSET DOMAIN r /\ DOMAIN r = 1..Len(r) /\ Len(r) \in Nat
  OBVIOUS
<1>. HIDE DEF Failing
<1>3. ASSUME Failing # {} PROVE Min(Failing) \in DOMAIN r
  <2>1. Failing \in SUBSET Nat
    BY <1>2
  <2>2. \E i \in Failing : \A j \in Failing : i <= j
    BY <1>3, <2>1, LeastNumber
  <2>3. Min(Failing) \in Failing
    BY <2>2 DEF Min
  <2>. QED
    BY <1>2, <2>3
<1>4. m \in 0..Len(r)
  BY <1>2, <1>3
<1>. QED
  BY <1>1, <1>4

\* The validators that leave and those that join between two sets.
Churn(a, b) == (a \ b) \cup (b \ a)

\* What ApplyDue does to the queue and to the validators, if it takes x of the removals
\* and y of the additions that are due.
Boundary(s, t, h, x, y) ==
    /\ t.pending \in Seq(Change)
    /\ Consistent(s.pending) => Consistent(t.pending)
    /\ \A i \in DOMAIN t.pending :
          \/ t.pending[i].effective_height = next_epoch_start(s, h)
          \/ /\ t.pending[i] \in ToSet(s.pending)
             /\ t.pending[i].effective_height # h
    /\ t.validators \subseteq Identities
    /\ Cardinality(Churn(s.validators, t.validators)) <= x + y

\* The first x of the due changes of one kind.
LEMMA FirstDue ==
  ASSUME NEW s \in Engine, NEW h \in Nat, NEW kind, NEW x \in Nat, x <= DueCount(s, h, kind)
  PROVE  /\ SubSeq(Due(s.pending, h, kind), 1, x) \in Seq(Change)
         /\ Len(SubSeq(Due(s.pending, h, kind), 1, x)) = x
<1>1. s.pending \in Seq(Change)
  BY DEF Engine
<1>2. PICK q \in Seq(Change) : q = s.pending
  BY <1>1
<1>. DEFINE S == {e \in DueAt(q, h) : e.kind = kind}
            r == Due(q, h, kind)
<1>3. r \in Seq(Change) /\ Len(r) = Cardinality({i \in DOMAIN q : q[i] \in S})
  <2>1. r = Retain(q, S)
    BY DEF Due
  <2>. HIDE DEF S, r
  <2>. QED
    BY <2>1, RetainPlaces, RetainLength
<1>4. {i \in DOMAIN q : q[i] \in S} =
        {i \in DOMAIN q : q[i].effective_height = h /\ q[i].kind = kind}
  BY Entries DEF DueAt
<1>. HIDE DEF r, S
<1>5. Len(r) = DueCount(s, h, kind)
  BY <1>2, <1>3, <1>4, Zenon DEF DueCount
<1>6. x \in 0..Len(r)
  BY <1>3, <1>5
<1>7. ASSUME NEW a \in Seq(Change), x \in 0..Len(a)
      PROVE  SubSeq(a, 1, x) \in Seq(Change) /\ Len(SubSeq(a, 1, x)) = x
  BY <1>7
<1>8. SubSeq(r, 1, x) \in Seq(Change) /\ Len(SubSeq(r, 1, x)) = x
  BY <1>3, <1>6, <1>7, Zenon
<1>. QED
  BY <1>2, <1>8 DEF r

\* The boundary's effect.
LEMMA AtBoundary ==
  ASSUME NEW s \in Engine, NEW h \in Nat, NEW x \in Nat, NEW y \in Nat,
         x <= DueCount(s, h, "remove"), y <= DueCount(s, h, "add"),
         next_epoch_start(s, h) \in Nat
  PROVE  \E set, left :
           /\ ApplyDue(s, h, x, y).state = [s EXCEPT !.validators = set, !.pending = left]
           /\ Boundary(s, [s EXCEPT !.validators = set, !.pending = left], h, x, y)
<1>1. PICK q \in Seq(Change) : q = s.pending
  BY DEF Engine
<1>5. PICK next \in Nat : next = next_epoch_start(s, h)
  OBVIOUS
<1>6. PICK left : left = Left(q, h, next, x, y)
  OBVIOUS
<1>7. PICK a : a = SubSeq(Due(q, h, "remove"), 1, x)
  BY Zenon
<1>8. PICK b : b = SubSeq(Due(q, h, "add"), 1, y)
  BY Zenon
<1>9. PICK gone : gone = {e.identity : e \in ToSet(a)}
  BY Zenon
<1>10. PICK set : set = register_all(s.validators \ gone, b).set
  OBVIOUS
<1>11. ApplyDue(s, h, x, y).state = [s EXCEPT !.validators = set, !.pending = left]
  BY <1>1, <1>5, <1>6, <1>7, <1>8, <1>9, <1>10 DEF ApplyDue, Due, DueAt, Left
<1>12. /\ left \in Seq(Change)
       /\ Consistent(q) => Consistent(left)
       /\ \A i \in DOMAIN left : left[i].effective_height = next \/ left[i] \in ToSet(q) \ DueAt(q, h)
  BY <1>6, LeftInQueue, Zenon
<1>13. a \in Seq(Change) /\ Len(a) = x
  BY <1>1, <1>7, FirstDue
<1>14. b \in Seq(Change) /\ Len(b) = y
  BY <1>1, <1>8, FirstDue
<1>15. gone \in SUBSET Identities /\ IsFiniteSet(gone) /\ Cardinality(gone) <= x
  <2>1. gone = {a[k].identity : k \in 1..x}
    BY <1>9, <1>13 DEF ToSet
  <2>2. x \in 0..Len(a)
    BY <1>13
  <2>. QED
    BY <1>13, <2>1, <2>2, FewIdentities, Zenon
<1>16. PICK m \in 0..Len(b) :
            set = (s.validators \ gone) \cup {b[k].identity : k \in 1..m}
  BY <1>10, <1>14, RegistersFirst, Zenon
<1>17. PICK new : new = {b[k].identity : k \in 1..m}
  BY Zenon
<1>18. new \in SUBSET Identities /\ IsFiniteSet(new) /\ Cardinality(new) <= m
  BY <1>14, <1>17, FewIdentities, Zenon
<1>19. s.validators \subseteq Identities
  BY DEF Engine
<1>20. set \subseteq Identities /\ Churn(s.validators, set) \in SUBSET (gone \cup new)
  BY <1>15, <1>16, <1>17, <1>18, <1>19 DEF Churn
<1>21. Cardinality(Churn(s.validators, set)) <= x + y
  <2>1. /\ IsFiniteSet(gone \cup new)
        /\ Cardinality(gone \cup new) =
             Cardinality(gone) + Cardinality(new) - Cardinality(gone \cap new)
    BY <1>15, <1>18, FS_Union
  <2>2. IsFiniteSet(gone \cap new) /\ gone \cap new \in SUBSET gone
    BY <1>15, FS_Subset
  <2>3. /\ Cardinality(gone) \in Nat /\ Cardinality(new) \in Nat
        /\ Cardinality(gone \cap new) \in Nat /\ Cardinality(gone \cup new) \in Nat
    BY <1>15, <1>18, <2>1, <2>2, FS_CardinalityType
  <2>4. /\ Cardinality(Churn(s.validators, set)) <= Cardinality(gone \cup new)
        /\ Cardinality(Churn(s.validators, set)) \in Nat
    BY <1>20, <2>1, FS_Subset, FS_CardinalityType
  <2>5. m \in Nat /\ m <= y
    BY <1>14
  <2>. QED
    BY <1>15, <1>18, <2>1, <2>3, <2>4, <2>5
<1>22. PICK t : t = [s EXCEPT !.validators = set, !.pending = left]
  OBVIOUS
<1>23. t.validators = set /\ t.pending = left
  BY <1>22 DEF Engine
<1>24. Boundary(s, t, h, x, y)
  <2>1. \A i \in DOMAIN left : \/ left[i].effective_height = next
                               \/ left[i] \in ToSet(q) /\ left[i].effective_height # h
    BY <1>12 DEF DueAt
  <2>. QED
    BY <1>1, <1>5, <1>12, <1>20, <1>21, <1>23, <2>1 DEF Boundary
<1>. QED
  BY <1>11, <1>22, <1>24, Zenon

---------------------------------------------------------------------------
(* What every operation keeps of the queue *)

\* Every change waits for the next boundary.
Aimed(s) ==
    /\ \A i \in DOMAIN s.pending :
          s.pending[i].effective_height = next_epoch_start(s, s.height)
    /\ s.epoch_update # None =>
          s.epoch_update.effective_height = next_epoch_start(s, s.height)

\* The inductive invariant of the queue.
QueueOK(s) ==
    /\ s \in Engine
    /\ Consistent(s.pending)
    /\ s.driver = "blocks" => Aimed(s)

\* The validators that leave or join are within the budget.
WithinBudget(s, t) ==
    s.chain_started => Cardinality(Churn(s.validators, t.validators)) <= churn_budget(s.validators)

\* The budget is a number of at least one.
LEMMA BudgetType ==
  ASSUME NEW s \in Engine
  PROVE  churn_budget(s.validators) \in Nat /\ churn_budget(s.validators) >= 1
<1>1. IsFiniteSet(s.validators)
  <2>1. IsFiniteSet(Identities) /\ s.validators \in SUBSET Identities
    BY ValidatorSetAssumption DEF Engine
  <2>. QED
    BY <2>1, FS_Subset
<1>2. PICK n \in Nat : n = Cardinality(s.validators)
  BY <1>1, FS_CardinalityType
<1>3. PICK m \in Nat : m = (n * MAX_CHURN_NUMERATOR) \div MAX_CHURN_DENOMINATOR
  BY DEF MAX_CHURN_NUMERATOR, MAX_CHURN_DENOMINATOR
<1>4. churn_budget(s.validators) = Max({1, m})
  BY <1>2, <1>3 DEF churn_budget
<1>. QED
  BY <1>4, LesserAndGreater

\* A step that leaves the validators alone.
LEMMA NoChurn ==
  ASSUME NEW s \in Engine, NEW t, t.validators = s.validators
  PROVE  WithinBudget(s, t)
<1>1. Churn(s.validators, t.validators) = {}
  BY DEF Churn
<1>. QED
  BY <1>1, BudgetType, FS_EmptySet DEF WithinBudget

\* A step that leaves the queue, the epochs and the validators alone.
LEMMA QueueStays ==
  ASSUME NEW s, QueueOK(s), NEW t \in Engine, t.pending = s.pending,
         t.epoch_update = s.epoch_update, t.epoch_length = s.epoch_length,
         t.driver = s.driver, t.validators = s.validators,
         t.height = s.height \/ s.driver # "blocks"
  PROVE  QueueOK(t) /\ WithinBudget(s, t)
<1>1. s.driver = "blocks" => Aimed(t)
  <2>1. next_epoch_start(t, s.height) = next_epoch_start(s, s.height)
    BY DEF next_epoch_start
  <2>. QED
    BY <2>1 DEF QueueOK, Aimed
<1>2. QueueOK(t)
  BY <1>1 DEF QueueOK
<1>. QED
  BY <1>2, NoChurn DEF QueueOK

\* A snapshot is added to the history, and nothing else happens.
LEMMA SnapshotOnly ==
  ASSUME NEW s \in Engine, NEW h \in Nat, NEW t, t = snapshot_validator_set(s, h)
  PROVE  /\ t \in Engine /\ t.pending = s.pending /\ t.epoch_update = s.epoch_update
         /\ t.epoch_length = s.epoch_length /\ t.driver = s.driver
         /\ t.validators = s.validators /\ t.height = s.height
<1>. DEFINE H == [height : Nat, validators : SUBSET Identities]
<1>1. s.history \in Seq(H) /\ s.validators \in SUBSET Identities
  BY DEF Engine
<1>2. PICK new \in H : new = Snapshot(h, s.validators)
  BY <1>1, Zenon DEF Snapshot
<1>3. PICK grown \in Seq(H) : grown = Append(s.history, new) /\ grown # <<>>
  <2>. HIDE DEF H
  <2>1. PICK old \in Seq(H) : old = s.history
    BY <1>1
  <2>2. Append(old, new) \in Seq(H) /\ Len(Append(old, new)) = Len(old) + 1 /\ Len(old) \in Nat
    OBVIOUS
  <2>3. Append(old, new) # <<>>
    BY <2>2
  <2>. QED
    BY <2>1, <2>2, <2>3, Zenon
<1>4. PICK kept \in Seq(H) : kept = IF Len(grown) > HistoryLimit THEN Tail(grown) ELSE grown
  <2>. HIDE DEF H
  <2>1. Tail(grown) \in Seq(H)
    BY <1>3
  <2>. QED
    BY <2>1, Zenon
<1>5. t = s \/ t = [s EXCEPT !.history = kept]
  BY <1>2, <1>3, <1>4 DEF snapshot_validator_set
<1>. QED
  BY <1>5, Zenon DEF Engine

\* A change at the end of the queue.
LEMMA QueueAppend ==
  ASSUME NEW r \in Seq(Change), NEW c \in Change, NEW p, p = Append(r, c)
  PROVE  /\ p \in Seq(Change)
         /\ \A i \in DOMAIN p : (i \in DOMAIN r /\ p[i] = r[i]) \/ (i = Len(r) + 1 /\ p[i] = c)
<1>1. p \in Seq(Change) /\ DOMAIN p = 1..(Len(r) + 1) /\ p[Len(r) + 1] = c
  OBVIOUS
<1>2. \A i \in DOMAIN r : p[i] = r[i]
  OBVIOUS
<1>3. \A i \in 1..(Len(r) + 1) : i \in DOMAIN r \/ i = Len(r) + 1
  OBVIOUS
<1>. QED
  BY <1>1, <1>2, <1>3

\* An addition replaces what was queued for the identity.
LEMMA AddQueued ==
  ASSUME NEW s, QueueOK(s), NEW v \in Identities, NEW keys \in BOOLEAN,
         NEW t, t = queue_validator_add(s, v, keys)
  PROVE  QueueOK(t) /\ WithinBudget(s, t)
<1>1. CASE v \in s.validators
  <2>1. t = s
    BY <1>1 DEF queue_validator_add
  <2>. QED
    BY <2>1, QueueStays DEF QueueOK
<1>2. CASE v \notin s.validators
  <2>1. PICK q \in Seq(Change) : q = s.pending
    BY DEF QueueOK, Engine
  <2>2. PICK r : r = Retain(q, {e \in ToSet(q) : e.identity # v})
    BY Zenon
  <2>3. PICK n \in Nat : n = next_epoch_start(s, s.height)
    BY EpochStarts, Zenon DEF QueueOK, Engine
  <2>4. PICK c \in Change : c = PendingChange(s, "add", v, keys)
    BY <2>3, Zenon DEF PendingChange, Change
  <2>5. c.effective_height = n /\ c.kind = "add" /\ c.identity = v
    BY <2>3, <2>4 DEF PendingChange
  <2>6. r \in Seq(Change) /\ \A i \in DOMAIN r : r[i] \in {e \in ToSet(q) : e.identity # v}
    BY <2>2, RetainPlaces
  <2>7. Consistent(r)
    <3>1. Consistent(q)
      BY <2>1 DEF QueueOK
    <3>. QED
      BY <2>2, <3>1, RetainStems, StemsConsistent, Zenon
  <2>8. PICK p : p = Append(r, c)
    BY Zenon
  <2>9. /\ p \in Seq(Change)
        /\ \A i \in DOMAIN p : (i \in DOMAIN r /\ p[i] = r[i]) \/ (i = Len(r) + 1 /\ p[i] = c)
    BY <2>6, <2>8, QueueAppend
  <2>10. Consistent(p)
    BY <2>5, <2>6, <2>7, <2>9 DEF Consistent
  <2>11. t = [s EXCEPT !.pending = p]
    BY <1>2, <2>1, <2>2, <2>4, <2>8 DEF queue_validator_add
  <2>12. /\ t \in Engine /\ t.pending = p /\ t.epoch_update = s.epoch_update
         /\ t.epoch_length = s.epoch_length /\ t.driver = s.driver
         /\ t.validators = s.validators /\ t.height = s.height
    BY <2>9, <2>11, Zenon DEF QueueOK, Engine
  <2>13. next_epoch_start(t, t.height) = n
    BY <2>3, <2>12 DEF next_epoch_start
  <2>14. s.driver = "blocks" => Aimed(t)
    <3>. SUFFICES ASSUME s.driver = "blocks" PROVE Aimed(t)
      OBVIOUS
    <3>1. \A e \in ToSet(q) : e.effective_height = n
      BY <2>1, <2>3 DEF QueueOK, Aimed, ToSet
    <3>2. \A i \in DOMAIN p : p[i].effective_height = n
      BY <2>5, <2>6, <2>9, <3>1
    <3>. QED
      BY <2>3, <2>12, <2>13, <3>2 DEF QueueOK, Aimed
  <2>. QED
    BY <2>10, <2>12, <2>14, NoChurn DEF QueueOK
<1>. QED
  BY <1>1, <1>2

\* A departure cancels a queued addition, or is queued.
LEMMA RemovalQueued ==
  ASSUME NEW s, QueueOK(s), NEW v \in Identities, NEW t, t = queue_validator_removal(s, v)
  PROVE  QueueOK(t) /\ WithinBudget(s, t)
<1>1. PICK q \in Seq(Change) : q = s.pending
  BY DEF QueueOK, Engine
<1>2. PICK n \in Nat : n = next_epoch_start(s, s.height)
  BY EpochStarts DEF QueueOK, Engine
<1>3. Consistent(q)
  BY <1>1 DEF QueueOK
<1>4. s.driver = "blocks" => \A e \in ToSet(q) : e.effective_height = n
  BY <1>1, <1>2 DEF QueueOK, Aimed, ToSet
<1>5. ASSUME NEW p \in Seq(Change), Consistent(p), t = [s EXCEPT !.pending = p],
             s.driver = "blocks" => \A i \in DOMAIN p : p[i].effective_height = n
      PROVE  QueueOK(t) /\ WithinBudget(s, t)
  <2>1. /\ t \in Engine /\ t.pending = p /\ t.epoch_update = s.epoch_update
        /\ t.epoch_length = s.epoch_length /\ t.driver = s.driver
        /\ t.validators = s.validators /\ t.height = s.height
    BY <1>5, Zenon DEF QueueOK, Engine
  <2>2. next_epoch_start(t, t.height) = n
    BY <1>2, <2>1 DEF next_epoch_start
  <2>3. s.driver = "blocks" => Aimed(t)
    BY <1>2, <1>5, <2>1, <2>2 DEF QueueOK, Aimed
  <2>. QED
    BY <1>5, <2>1, <2>3, NoChurn, Zenon DEF QueueOK
<1>. DEFINE IsAdd(e) == e.kind = "add" /\ e.identity = v
<1>6. CASE \E e \in ToSet(q) : IsAdd(e)
  <2>1. PICK S : S = {e \in ToSet(q) : ~IsAdd(e)}
    BY Zenon
  <2>2. PICK p : p = Retain(q, S)
    OBVIOUS
  <2>3. t = [s EXCEPT !.pending = p]
    BY <1>1, <1>6, <2>1, <2>2 DEF queue_validator_removal
  <2>4. p \in Seq(Change) /\ \A i \in DOMAIN p : p[i] \in S
    BY <2>2, RetainPlaces
  <2>5. Consistent(p)
    BY <1>3, <2>2, RetainStems, StemsConsistent, Zenon
  <2>6. S \subseteq ToSet(q)
    BY <2>1
  <2>. QED
    BY <1>4, <1>5, <2>3, <2>4, <2>5, <2>6
<1>7. CASE ~(\E e \in ToSet(q) : IsAdd(e)) /\ v \in s.validators
  <2>1. PICK c \in Change : c = PendingChange(s, "remove", v, TRUE)
    BY <1>2, Zenon DEF PendingChange, Change
  <2>2. c.effective_height = n /\ c.kind = "remove" /\ c.identity = v
    BY <1>2, <2>1 DEF PendingChange
  <2>3. PICK p : p = Append(q, c)
    BY Zenon
  <2>4. /\ p \in Seq(Change)
        /\ \A i \in DOMAIN p : (i \in DOMAIN q /\ p[i] = q[i]) \/ (i = Len(q) + 1 /\ p[i] = c)
    BY <2>3, QueueAppend
  <2>5. t = [s EXCEPT !.pending = p]
    BY <1>1, <1>7, <2>1, <2>3 DEF queue_validator_removal
  <2>6. \A i \in DOMAIN q : q[i].kind = "add" => q[i].identity # v
    BY <1>7, Entries
  <2>7. Consistent(p)
    BY <1>3, <2>2, <2>4, <2>6 DEF Consistent
  <2>8. s.driver = "blocks" => \A i \in DOMAIN p : p[i].effective_height = n
    BY <1>4, <2>2, <2>4, Entries
  <2>. QED
    BY <1>5, <2>4, <2>5, <2>7, <2>8
<1>8. CASE ~(\E e \in ToSet(q) : IsAdd(e)) /\ v \notin s.validators
  <2>1. t = s
    BY <1>1, <1>8 DEF queue_validator_removal
  <2>. QED
    BY <2>1, QueueStays DEF QueueOK
<1>. QED
  BY <1>6, <1>7, <1>8

\* A registration takes effect at once, before the chain has started, or is queued.
LEMMA Registered ==
  ASSUME NEW s, QueueOK(s), NEW v \in Identities, NEW keys \in BOOLEAN,
         NEW t, t = register_validator(s, v, keys)
  PROVE  QueueOK(t) /\ WithinBudget(s, t)
<1>1. CASE s.chain_started
  <2>1. t = queue_validator_add(s, v, keys)
    BY <1>1 DEF register_validator
  <2>. QED
    BY <2>1, AddQueued
<1>2. CASE ~s.chain_started
  <2>1. t = s \/ t = [s EXCEPT !.validators = @ \cup {v}]
    BY <1>2 DEF register_validator
  <2>2. CASE t = s
    BY <2>2, QueueStays DEF QueueOK
  <2>3. CASE t = [s EXCEPT !.validators = @ \cup {v}]
    <3>1. s.validators \cup {v} \in SUBSET Identities
      BY DEF QueueOK, Engine
    <3>2. PICK set \in SUBSET Identities : set = s.validators \cup {v}
      BY <3>1, Zenon
    <3>3. t = [s EXCEPT !.validators = set]
      BY <2>3, <3>2
    <3>4. /\ t \in Engine /\ t.pending = s.pending /\ t.epoch_update = s.epoch_update
          /\ t.epoch_length = s.epoch_length /\ t.driver = s.driver /\ t.height = s.height
      BY <3>3, Zenon DEF QueueOK, Engine
    <3>5. next_epoch_start(t, t.height) = next_epoch_start(s, s.height)
      BY <3>4 DEF next_epoch_start
    <3>. QED
      BY <1>2, <3>4, <3>5 DEF QueueOK, Aimed, WithinBudget
  <2>. QED
    BY <2>1, <2>2, <2>3
<1>. QED
  BY <1>1, <1>2

\* The change of the epoch length waits for the next boundary too.
LEMMA LengthScheduled ==
  ASSUME NEW s, QueueOK(s), NEW len \in Nat \ {0}, NEW t, t = schedule_epoch_length_update(s, len)
  PROVE  QueueOK(t) /\ WithinBudget(s, t)
<1>1. PICK n \in Nat : n = next_epoch_start(s, s.height)
  BY EpochStarts DEF QueueOK, Engine
<1>2. PICK u \in [effective_height : Nat, new_length : Nat \ {0}] :
           u = [effective_height |-> n, new_length |-> len]
  BY Zenon
<1>3. u.effective_height = n
  BY <1>2
<1>4. t = [s EXCEPT !.epoch_update = u]
  BY <1>1, <1>2 DEF schedule_epoch_length_update
<1>5. /\ t \in Engine /\ t.pending = s.pending /\ t.epoch_update = u
      /\ t.epoch_length = s.epoch_length /\ t.driver = s.driver
      /\ t.validators = s.validators /\ t.height = s.height
  BY <1>4, Zenon DEF QueueOK, Engine
<1>6. next_epoch_start(t, t.height) = n
  BY <1>1, <1>5 DEF next_epoch_start
<1>7. s.driver = "blocks" => Aimed(t)
  BY <1>1, <1>3, <1>5, <1>6 DEF QueueOK, Aimed
<1>. QED
  BY <1>5, <1>7, NoChurn DEF QueueOK

\* The count of due changes is a number.
LEMMA DueCountType ==
  ASSUME NEW s \in Engine, NEW h, NEW kind
  PROVE  DueCount(s, h, kind) \in Nat
<1>1. PICK q \in Seq(Change) : q = s.pending
  BY DEF Engine
<1>2. PICK P : P = {i \in DOMAIN q : q[i].effective_height = h /\ q[i].kind = kind}
  BY Zenon
<1>3. IsFiniteSet(DOMAIN q) /\ P \in SUBSET DOMAIN q
  <2>1. DOMAIN q = 1..Len(q) /\ Len(q) \in Int /\ 1 \in Int
    OBVIOUS
  <2>. QED
    BY <1>2, <2>1, FS_Interval
<1>4. Cardinality(P) \in Nat
  BY <1>3, FS_Subset, FS_CardinalityType
<1>. QED
  BY <1>1, <1>2, <1>4 DEF DueCount

\* The change of the epoch length, if it is due.
LEMMA LengthUpdated ==
  ASSUME NEW s \in Engine, NEW h, NEW t, t = UpdateLength(s, h)
  PROVE  /\ t \in Engine /\ t.pending = s.pending /\ t.validators = s.validators
         /\ t.height = s.height /\ t.driver = s.driver /\ t.chain_started = s.chain_started
         /\ t.epoch_update # None =>
              t.epoch_update = s.epoch_update /\ t.epoch_update.effective_height # h
<1>1. CASE s.epoch_update # None /\ s.epoch_update.effective_height = h
  <2>1. s.epoch_update.new_length \in Nat \ {0}
    BY <1>1 DEF Engine
  <2>2. PICK l \in Nat \ {0} : l = s.epoch_update.new_length
    BY <2>1
  <2>3. t = [s EXCEPT !.epoch_length = l, !.epoch_update = None]
    BY <1>1, <2>2 DEF UpdateLength
  <2>. QED
    BY <2>3, Zenon DEF Engine
<1>2. CASE ~(s.epoch_update # None /\ s.epoch_update.effective_height = h)
  <2>1. t = s
    BY <1>2 DEF UpdateLength
  <2>. QED
    BY <1>2, <2>1
<1>. QED
  BY <1>1, <1>2

\* apply_epoch_boundary_changes keeps the queue consistent and stays within the budget;
\* at a boundary, what was due there waits for the next one or has left the queue.
LEMMA ChangesApplied ==
  ASSUME NEW s \in Engine, Consistent(s.pending), NEW h \in Nat,
         NEW t, t = apply_epoch_boundary_changes(s, h).state
  PROVE  /\ t \in Engine /\ Consistent(t.pending)
         /\ t.height = s.height /\ t.driver = s.driver /\ t.chain_started = s.chain_started
         /\ Cardinality(Churn(s.validators, t.validators)) <= churn_budget(s.validators)
         /\ ~is_epoch_boundary(s, h) => t = s
         /\ is_epoch_boundary(s, h) =>
              /\ \A i \in DOMAIN t.pending :
                   \/ t.pending[i].effective_height = next_epoch_start(t, h)
                   \/ /\ t.pending[i] \in ToSet(s.pending)
                      /\ t.pending[i].effective_height # h
              /\ t.epoch_update # None =>
                   t.epoch_update = s.epoch_update /\ t.epoch_update.effective_height # h
<1>1. CASE ~is_epoch_boundary(s, h)
  <2>1. t = s
    BY <1>1 DEF apply_epoch_boundary_changes
  <2>2. Churn(s.validators, t.validators) = {}
    BY <2>1 DEF Churn
  <2>3. Cardinality(Churn(s.validators, t.validators)) <= churn_budget(s.validators)
    BY <2>2, BudgetType, FS_EmptySet
  <2>. QED
    BY <1>1, <2>1, <2>3
<1>2. CASE is_epoch_boundary(s, h)
  <2>1. PICK u : u = UpdateLength(s, h)
    OBVIOUS
  <2>2. /\ u \in Engine /\ u.pending = s.pending /\ u.validators = s.validators
        /\ u.height = s.height /\ u.driver = s.driver /\ u.chain_started = s.chain_started
        /\ u.epoch_update # None =>
             u.epoch_update = s.epoch_update /\ u.epoch_update.effective_height # h
    BY <2>1, LengthUpdated
  <2>3. PICK budget \in Nat : budget = churn_budget(s.validators)
    BY BudgetType
  <2>4. PICK d \in Nat, e \in Nat : d = DueCount(s, h, "remove") /\ e = DueCount(s, h, "add")
    BY DueCountType
  <2>5. PICK x \in Nat : x = Min({d, budget}) /\ x <= d /\ x <= budget
    BY LesserAndGreater
  <2>6. PICK y \in Nat : y = Min({e, budget - x}) /\ y <= e /\ y <= budget - x
    <3>1. budget - x \in Nat
      BY <2>5
    <3>. QED
      BY <3>1, LesserAndGreater
  <2>7. t = ApplyDue(u, h, x, y).state
    BY <1>2, <2>1, <2>3, <2>4, <2>5, <2>6 DEF apply_epoch_boundary_changes
  <2>8. d = DueCount(u, h, "remove") /\ e = DueCount(u, h, "add")
    BY <2>2, <2>4 DEF DueCount
  <2>9. next_epoch_start(u, h) \in Nat
    BY <2>2, EpochStarts, Zenon DEF Engine
  <2>10. PICK set, left : /\ t = [u EXCEPT !.validators = set, !.pending = left]
                          /\ Boundary(u, t, h, x, y)
    <3>1. x <= DueCount(u, h, "remove") /\ y <= DueCount(u, h, "add")
      BY <2>5, <2>6, <2>8
    <3>2. PICK set, left :
            /\ ApplyDue(u, h, x, y).state = [u EXCEPT !.validators = set, !.pending = left]
            /\ Boundary(u, [u EXCEPT !.validators = set, !.pending = left], h, x, y)
      BY <2>2, <2>9, <3>1, AtBoundary, Zenon
    <3>3. t = [u EXCEPT !.validators = set, !.pending = left]
      BY <2>7, <3>2
    <3>4. Boundary(u, t, h, x, y)
      BY <3>2, <3>3
    <3>. QED
      BY <3>3, <3>4, Zenon
  <2>11. t.validators = set /\ t.pending = left
    BY <2>2, <2>10 DEF Engine
  <2>12. set \in SUBSET Identities /\ left \in Seq(Change)
    BY <2>10, <2>11 DEF Boundary
  <2>13. /\ t \in Engine /\ t.height = u.height /\ t.driver = u.driver
         /\ t.chain_started = u.chain_started /\ t.epoch_length = u.epoch_length
         /\ t.epoch_update = u.epoch_update
    BY <2>2, <2>10, <2>12, Zenon DEF Engine
  <2>14. next_epoch_start(t, h) = next_epoch_start(u, h)
    BY <2>13 DEF next_epoch_start
  <2>15. Cardinality(Churn(s.validators, t.validators)) <= budget
    <3>1. Cardinality(Churn(s.validators, t.validators)) <= x + y
      BY <2>2, <2>10 DEF Boundary
    <3>2. IsFiniteSet(Churn(s.validators, t.validators))
      <4>1. Churn(s.validators, t.validators) \in SUBSET Identities
        BY <2>11, <2>12 DEF Churn, Engine
      <4>. QED
        BY <4>1, ValidatorSetAssumption, FS_Subset
    <3>3. Cardinality(Churn(s.validators, t.validators)) \in Nat
      BY <3>2, FS_CardinalityType
    <3>4. x + y <= budget
      BY <2>5, <2>6
    <3>. QED
      BY <3>1, <3>3, <3>4
  <2>. QED
    BY <1>2, <2>2, <2>3, <2>10, <2>13, <2>14, <2>15 DEF Boundary
<1>. QED
  BY <1>1, <1>2

\* run_consensus_round, which works on the next height.
LEMMA RoundRun ==
  ASSUME NEW s, QueueOK(s), NEW t, t = run_consensus_round(s)
  PROVE  QueueOK(t) /\ WithinBudget(s, t)
<1>1. PICK h \in Nat : h = s.height + 1
  BY DEF QueueOK, Engine
<1>2. PICK u : u = [s EXCEPT !.height = h, !.chain_started = TRUE]
  OBVIOUS
<1>3. /\ u \in Engine /\ u.pending = s.pending /\ u.epoch_update = s.epoch_update
      /\ u.epoch_length = s.epoch_length /\ u.driver = s.driver
      /\ u.validators = s.validators /\ u.height = h
  BY <1>2, Zenon DEF QueueOK, Engine
<1>4. PICK r : r = apply_epoch_boundary_changes(u, h).state
  OBVIOUS
<1>5. Consistent(u.pending)
  BY <1>3 DEF QueueOK
<1>6. /\ r \in Engine /\ Consistent(r.pending) /\ r.height = h /\ r.driver = s.driver
      /\ Cardinality(Churn(u.validators, r.validators)) <= churn_budget(u.validators)
      /\ ~is_epoch_boundary(u, h) => r = u
      /\ is_epoch_boundary(u, h) =>
           /\ \A i \in DOMAIN r.pending :
                \/ r.pending[i].effective_height = next_epoch_start(r, h)
                \/ /\ r.pending[i] \in ToSet(u.pending)
                   /\ r.pending[i].effective_height # h
           /\ r.epoch_update # None =>
                r.epoch_update = u.epoch_update /\ r.epoch_update.effective_height # h
  BY <1>3, <1>4, <1>5, ChangesApplied
<1>7. ASSUME s.driver = "blocks" PROVE Aimed(r)
  <2>1. PICK n : n = next_epoch_start(s, s.height)
    OBVIOUS
  <2>2. /\ \A e \in ToSet(s.pending) : e.effective_height = n
        /\ s.epoch_update # None => s.epoch_update.effective_height = n
    BY <1>7, <2>1 DEF QueueOK, Aimed, ToSet
  <2>3. /\ is_epoch_boundary(s, h) => n = h
        /\ ~is_epoch_boundary(s, h) => next_epoch_start(s, h) = n
    BY <1>1, <2>1, EpochStarts, Zenon DEF QueueOK, Engine
  <2>4. is_epoch_boundary(u, h) <=> is_epoch_boundary(s, h)
    BY <1>3 DEF is_epoch_boundary
  <2>5. CASE is_epoch_boundary(s, h)
    <3>1. \A i \in DOMAIN r.pending : r.pending[i].effective_height = next_epoch_start(r, h)
      BY <1>3, <1>6, <2>2, <2>3, <2>4, <2>5
    <3>2. r.epoch_update = None
      BY <1>3, <1>6, <2>2, <2>3, <2>4, <2>5
    <3>. QED
      BY <1>6, <3>1, <3>2 DEF Aimed
  <2>6. CASE ~is_epoch_boundary(s, h)
    <3>1. r = u
      BY <1>6, <2>4, <2>6
    <3>2. next_epoch_start(u, h) = next_epoch_start(s, h)
      BY <1>3 DEF next_epoch_start
    <3>3. \A i \in DOMAIN u.pending : u.pending[i].effective_height = n
      BY <1>3, <1>7, <2>1 DEF QueueOK, Aimed
    <3>. QED
      BY <1>3, <2>2, <2>3, <2>6, <3>1, <3>2, <3>3 DEF Aimed
  <2>. QED
    BY <2>5, <2>6
<1>8. QueueOK(r)
  BY <1>6, <1>7 DEF QueueOK
<1>9. t = r \/ t = snapshot_validator_set(r, h)
  BY <1>1, <1>2, <1>4 DEF run_consensus_round
<1>10. QueueOK(t) /\ t.validators = r.validators
  <2>1. CASE t = r
    BY <1>8, <2>1
  <2>2. CASE t = snapshot_validator_set(r, h)
    BY <1>6, <1>8, <2>2, SnapshotOnly, QueueStays
  <2>. QED
    BY <1>9, <2>1, <2>2
<1>. QED
  BY <1>3, <1>6, <1>10 DEF WithinBudget

\* prepare_consensus_round, of an engine that StartRound events drive.
LEMMA RoundPrepared ==
  ASSUME NEW s, QueueOK(s), s.driver # "blocks", NEW h \in Nat, NEW t, t = prepare_consensus_round(s, h)
  PROVE  QueueOK(t) /\ WithinBudget(s, t)
<1>2. PICK u : u = [s EXCEPT !.chain_started = TRUE]
  BY Zenon
<1>3. u \in Engine /\ u.pending = s.pending /\ u.driver = s.driver /\ u.validators = s.validators
  BY <1>2, Zenon DEF QueueOK, Engine
<1>4. PICK r : r = apply_epoch_boundary_changes(u, h).state
  OBVIOUS
<1>5. Consistent(u.pending)
  BY <1>3 DEF QueueOK
<1>6. /\ r \in Engine /\ Consistent(r.pending) /\ r.driver = s.driver
      /\ Cardinality(Churn(u.validators, r.validators)) <= churn_budget(u.validators)
  BY <1>3, <1>4, <1>5, ChangesApplied
<1>7. PICK w : w = [r EXCEPT !.height = h]
  BY Zenon
<1>8. /\ w \in Engine /\ w.pending = r.pending /\ w.driver = r.driver
      /\ w.validators = r.validators
  BY <1>6, <1>7 DEF Engine
<1>9. t = r \/ t = snapshot_validator_set(w, h)
  BY <1>2, <1>4, <1>7 DEF prepare_consensus_round
<1>10. t \in Engine /\ t.pending = r.pending /\ t.driver = s.driver /\ t.validators = r.validators
  <2>1. CASE t = r
    BY <1>6, <2>1
  <2>2. CASE t = snapshot_validator_set(w, h)
    BY <1>6, <1>8, <2>2, SnapshotOnly
  <2>. QED
    BY <1>9, <2>1, <2>2
<1>. QED
  BY <1>3, <1>6, <1>10 DEF WithinBudget, QueueOK

---------------------------------------------------------------------------
(* The queue of changes and the budget *)

\* The inductive invariant.
QueueInv == QueueOK(engine) /\ tip \in Nat

\* The queue is empty at the start.
LEMMA InitQueueInv == Init => QueueInv
<1>. SUFFICES ASSUME Init PROVE QueueInv
  OBVIOUS
<1>1. PICK d \in Drivers :
          engine = [height |-> 0, driver |-> d, running |-> FALSE, chain_started |-> FALSE,
                    epoch_length |-> InitialLength, epoch_update |-> None,
                    pending |-> <<>>, validators |-> Initial, history |-> <<>>]
  BY Zenon DEF Init
<1>2. /\ <<>> \in Seq(Change) /\ <<>> \in Seq([height : Nat, validators : SUBSET Identities])
      /\ Initial \in SUBSET Identities /\ InitialLength \in Nat \ {0}
      /\ d \in {"blocks", "rounds", "loop"}
  BY ValidatorSetAssumption
<1>3. engine \in Engine
  BY <1>1, <1>2 DEF Engine
<1>4. engine.pending = <<>> /\ engine.epoch_update = None
  BY <1>1
<1>5. Consistent(engine.pending) /\ Aimed(engine)
  BY <1>4 DEF Consistent, Aimed
<1>6. tip \in Nat
  BY DEF Init
<1>. QED
  BY <1>3, <1>5, <1>6 DEF QueueInv, QueueOK

\* Every action keeps it, and stays within the budget.
LEMMA NextQueueInv ==
  ASSUME QueueInv, [Next]_vars
  PROVE  QueueInv' /\ WithinBudget(engine, engine')
<1>. DEFINE Fine == QueueOK(engine') /\ WithinBudget(engine, engine')
<1>0. QueueOK(engine) /\ tip \in Nat /\ engine \in Engine /\ tip + 1 \in Nat
  BY DEF QueueInv, QueueOK
<1>1. CASE Register
  <2>1. PICK v \in Identities, keys \in BOOLEAN : engine' = register_validator(engine, v, keys)
    BY <1>1 DEF Register
  <2>2. Fine
    BY <1>0, <2>1, Registered
  <2>. QED
    BY <1>0, <1>1, <2>2 DEF Register, QueueInv
<1>2. CASE ValidatorLeave
  <2>1. PICK v \in Identities : engine' = queue_validator_removal(engine, v)
    BY <1>2 DEF ValidatorLeave
  <2>2. Fine
    BY <1>0, <2>1, RemovalQueued
  <2>. QED
    BY <1>0, <1>2, <2>2 DEF ValidatorLeave, QueueInv
<1>3. CASE ScheduleEpochLength
  <2>1. PICK len \in Lengths : engine' = schedule_epoch_length_update(engine, len)
    BY <1>3 DEF ScheduleEpochLength
  <2>2. len \in Nat \ {0}
    BY ValidatorSetAssumption
  <2>3. Fine
    BY <1>0, <2>1, <2>2, LengthScheduled
  <2>. QED
    BY <1>0, <1>3, <2>3 DEF ScheduleEpochLength, QueueInv
<1>4. CASE NewBlock
  <2>1. engine' = run_consensus_round(engine) /\ tip' = tip
    BY <1>4 DEF NewBlock
  <2>2. Fine
    BY <1>0, <2>1, RoundRun
  <2>. QED
    BY <1>0, <2>1, <2>2 DEF QueueInv
<1>5. CASE StartRound
  <2>1. /\ engine' = prepare_consensus_round(engine, NextHeight) /\ tip' = tip
        /\ engine.driver = "rounds"
    BY <1>5 DEF StartRound
  <2>2. NextHeight \in Nat
    BY <1>0 DEF NextHeight, Engine
  <2>3. Fine
    BY <1>0, <2>1, <2>2, RoundPrepared
  <2>. QED
    BY <1>0, <2>1, <2>3 DEF QueueInv
<1>6. CASE RunLoop \/ FollowChain
  <2>1. PICK s : /\ s = engine \/ s = [engine EXCEPT !.running = TRUE]
                 /\ engine' = SyncHeight(s)
    BY <1>6 DEF RunLoop, FollowChain
  <2>2. engine.driver = "loop" /\ tip' = tip
    BY <1>6 DEF RunLoop, FollowChain
  <2>3. /\ s \in Engine /\ s.pending = engine.pending /\ s.epoch_update = engine.epoch_update
        /\ s.epoch_length = engine.epoch_length /\ s.driver = engine.driver
        /\ s.validators = engine.validators
    BY <1>0, <2>1, Zenon DEF Engine
  <2>4. PICK u : u = [s EXCEPT !.height = tip + 1]
    BY Zenon
  <2>5. /\ u \in Engine /\ u.pending = engine.pending /\ u.epoch_update = engine.epoch_update
        /\ u.epoch_length = engine.epoch_length /\ u.driver = engine.driver
        /\ u.validators = engine.validators
    BY <1>0, <2>3, <2>4, Zenon DEF Engine
  <2>6. engine' = snapshot_validator_set(u, tip + 1)
    BY <2>1, <2>4 DEF SyncHeight
  <2>7. /\ engine' \in Engine /\ engine'.pending = engine.pending
        /\ engine'.epoch_update = engine.epoch_update
        /\ engine'.epoch_length = engine.epoch_length /\ engine'.driver = engine.driver
        /\ engine'.validators = engine.validators
    BY <1>0, <2>5, <2>6, SnapshotOnly
  <2>8. Fine
    BY <1>0, <2>2, <2>7, QueueStays
  <2>. QED
    BY <1>0, <2>2, <2>8 DEF QueueInv
<1>7. CASE ValidatorUpdate
  <2>. DEFINE joined == {e \in PeriodicUpdate :
                            can_register(engine.validators, e.identity, e.keys)}
  <2>1. /\ engine' = snapshot_validator_set(
                        [engine EXCEPT !.validators = @ \cup {e.identity : e \in joined}],
                        engine.height)
        /\ tip' = tip
    BY <1>7 DEF ValidatorUpdate
  <2>2. joined = {}
    BY Zenon DEF can_register, PeriodicUpdate
  <2>3. [engine EXCEPT !.validators = @ \cup {e.identity : e \in joined}] = engine
    BY <1>0, <2>2 DEF Engine
  <2>. HIDE DEF joined
  <2>4. engine' = snapshot_validator_set(engine, engine.height) /\ engine.height \in Nat
    BY <1>0, <2>1, <2>3, Zenon DEF Engine
  <2>5. Fine
    BY <1>0, <2>4, SnapshotOnly, QueueStays
  <2>. QED
    BY <1>0, <2>1, <2>5 DEF QueueInv
<1>8. CASE AddBlock \/ UNCHANGED vars
  <2>1. engine' = engine /\ tip' \in Nat
    BY <1>0, <1>8 DEF AddBlock, vars
  <2>2. Fine
    BY <1>0, <2>1, QueueStays
  <2>. QED
    BY <2>1, <2>2 DEF QueueInv
<1>. QED
  BY <1>1, <1>2, <1>3, <1>4, <1>5, <1>6, <1>7, <1>8 DEF Next

\* The queue stays well formed, whatever drives the engine.
THEOREM QueueInvariant == Spec => []QueueInv
<1>1. QueueInv /\ [Next]_vars => QueueInv'
  BY NextQueueInv
<1>. QED
  BY <1>1, InitQueueInv, PTL DEF Spec

\* For every queue length, epoch length and order of requests, the queue never holds an
\* addition of an identity next to another change of that identity.
THEOREM QueueIsConsistent == Spec => []QueueConsistent
<1>1. QueueInv => QueueConsistent
  BY DEF QueueInv, QueueOK, Consistent, QueueConsistent
<1>. QED
  BY <1>1, QueueInvariant, PTL

\* An engine that NewBlock events drive never has an overdue change: a change waits for
\* the next boundary, and that one stays a boundary when the epoch length changes.
THEOREM NothingIsOverdue == Spec => []NothingOverdue
<1>1. ASSUME QueueInv, engine.driver = "blocks"
      PROVE  NothingOverdue
  <2>1. PICK n \in Nat : n = next_epoch_start(engine, engine.height)
    BY <1>1, EpochStarts DEF QueueInv, QueueOK, Engine
  <2>2. n > engine.height /\ is_epoch_boundary(engine, n)
    BY <1>1, <2>1, EpochStarts DEF QueueInv, QueueOK, Engine
  <2>3. \A e \in ToSet(engine.pending) : e.effective_height = n
    BY <1>1, <2>1 DEF QueueInv, QueueOK, Aimed, ToSet
  <2>4. engine.epoch_update # None => engine.epoch_update.effective_height = n
    BY <1>1, <2>1 DEF QueueInv, QueueOK, Aimed
  <2>. QED
    BY <2>2, <2>3, <2>4 DEF NothingOverdue
<1>2. QueueInv => NothingOverdue
  BY <1>1 DEF NothingOverdue
<1>. QED
  BY <1>2, QueueInvariant, PTL

\* One boundary replaces at most the budget of validators, removals and additions
\* together, whatever was postponed, cancelled or refused.
THEOREM ChurnIsBounded == Spec => ChurnBounded
<1>1. QueueInv /\ [Next]_vars
        => [engine.chain_started =>
              Cardinality((engine.validators \ engine'.validators)
                          \cup (engine'.validators \ engine.validators))
              <= churn_budget(engine.validators)]_vars
  BY NextQueueInv DEF WithinBudget, Churn
<1>. QED
  BY <1>1, QueueInvariant, PTL DEF Spec, ChurnBounded

---------------------------------------------------------------------------
(* The liveness monitor *)

\* What the stall check needs of the monitor's state: a finite set of validators,
\* each responsive or not, and its size.
MonitorInv ==
    /\ DOMAIN validator_states \subseteq Identities
    /\ Me \in DOMAIN validator_states
    /\ validator_states \in [DOMAIN validator_states -> BOOLEAN]
    /\ total_validators = Cardinality(DOMAIN validator_states)

\* If timed-out validators reach the stall threshold, the others are short of
\* has_supermajority: t >= n / 3 + 1 leaves less than two thirds of n.
LEMMA StallLeavesNoQuorum ==
    ASSUME NEW n \in Nat, NEW t \in Nat, t <= n, t >= stall_threshold(n)
    PROVE  ~has_supermajority(n - t, n)
<1>1. PICK k \in Nat : k = n \div 3 /\ n < 3 * k + 3
  OBVIOUS
<1>2. 3 * t > n
  BY <1>1 DEF stall_threshold
<1> QED
  BY <1>2 DEF has_supermajority, meets_threshold, BFT_SUPERMAJORITY_BPS

\* The converse does not hold.  When a third of a set divisible by three is silent,
\* the others are short of has_supermajority by one basis point, and the silent
\* ones are one short of stall_threshold: no quorum, and no stall is reported.
THEOREM StallThresholdGap ==
    ASSUME NEW k \in Nat \ {0}
    PROVE  /\ ~has_supermajority(3 * k - k, 3 * k)
           /\ k < stall_threshold(3 * k)
<1>1. (3 * k) \div 3 = k
  OBVIOUS
<1>2. k < stall_threshold(3 * k)
  BY <1>1 DEF stall_threshold
<1>3. ~has_supermajority(3 * k - k, 3 * k)
  BY DEF has_supermajority, meets_threshold, BFT_SUPERMAJORITY_BPS
<1> QED
  BY <1>2, <1>3

\* The loop starts with every initial validator responsive.
LEMMA InitMonitorInv == MonitorInit => MonitorInv
BY IdentitiesAssumption DEF MonitorInit, MonitorInv

\* Marking a known validator as responsive changes neither the set nor its size.
LEMMA MarkKnown ==
    ASSUME MonitorInv, NEW v \in DOMAIN validator_states,
           validator_states' = mark_responsive(validator_states, v),
           UNCHANGED total_validators
    PROVE  MonitorInv'
<1>1. DOMAIN validator_states \cup {v} = DOMAIN validator_states
  OBVIOUS
<1>2. DOMAIN validator_states' = DOMAIN validator_states
  BY <1>1 DEF mark_responsive
<1>3. \A u \in DOMAIN validator_states : (u = v \/ validator_states[u]) \in BOOLEAN
  BY DEF MonitorInv
<1>4. validator_states' \in [DOMAIN validator_states -> BOOLEAN]
  BY <1>1, <1>3 DEF mark_responsive
<1> QED
  BY <1>2, <1>4 DEF MonitorInv

\* Only heartbeats, ticks and epoch boundaries change the monitor, and they keep
\* its validators and its total in step.
LEMMA NextMonitorInv == MonitorInv /\ [MonitorNext]_monitorVars => MonitorInv'
<1> SUFFICES ASSUME MonitorInv, [MonitorNext]_monitorVars PROVE MonitorInv'
  OBVIOUS
<1>1. CASE UNCHANGED monitor
  BY <1>1 DEF MonitorInv, monitor
<1>2. CASE SendHeartbeat
  BY <1>2, MarkKnown DEF SendHeartbeat, MonitorInv
<1>3. ASSUME NEW v, NEW timestamp, ReceiveHeartbeat(v, timestamp) PROVE MonitorInv'
  BY <1>3, MarkKnown DEF ReceiveHeartbeat, validate_heartbeat
<1>4. CASE LivenessTick
  <2>1. \A v \in DOMAIN validator_states : is_validator_alive(v) \in BOOLEAN
    BY DEF is_validator_alive
  <2>2. validator_states' = watch_timeouts /\ total_validators' = total_validators
    BY <1>4 DEF LivenessTick
  <2> QED
    BY <2>1, <2>2 DEF MonitorInv, watch_timeouts
<1>5. ASSUME NEW set \in Sets, EpochBoundary(set) PROVE MonitorInv'
  <2>1. \A v \in set : (v \in DOMAIN validator_states => validator_states[v]) \in BOOLEAN
    OBVIOUS
  <2>2. validator_states' = update_validator_set(validator_states, set)
        /\ total_validators' = Cardinality(set)
    BY <1>5 DEF EpochBoundary
  <2> QED
    BY <2>1, <2>2, IdentitiesAssumption DEF MonitorInv, update_validator_set
<1>6. ASSUME Clock \/ ReceiveOther \/ HeightAdvances \/ UNCHANGED monitorVars PROVE UNCHANGED monitor
  BY <1>6 DEF Clock, ReceiveOther, HeightAdvances, monitorVars, monitor
<1> QED
  BY <1>1, <1>2, <1>3, <1>4, <1>5, <1>6 DEF MonitorNext

\* At all times the monitor's total is the size of the set it watches.
THEOREM MonitorInvariant == MonitorSpec => []MonitorInv
BY InitMonitorInv, NextMonitorInv, PTL DEF MonitorSpec

\* Responsive and timed-out validators together are all validators.
LEMMA StallIsNoQuorumInInv == MonitorInv => StallIsNoQuorum
<1> SUFFICES ASSUME MonitorInv, is_stalled(validator_states, total_validators)
             PROVE  ~has_supermajority(Cardinality(responsive_validators), total_validators)
  BY DEF StallIsNoQuorum
<1> DEFINE D == DOMAIN validator_states
           T == timed_out_validators(validator_states)
<1>1. IsFiniteSet(D)
  BY FS_Subset, IdentitiesAssumption DEF MonitorInv
<1>2. T \subseteq D /\ responsive_validators = D \ T
  BY DEF timed_out_validators, responsive_validators, MonitorInv
<1>3. /\ Cardinality(D) \in Nat /\ Cardinality(T) \in Nat /\ Cardinality(T) <= Cardinality(D)
      /\ Cardinality(D \ T) = Cardinality(D) - Cardinality(T)
  <2>1. IsFiniteSet(T) /\ Cardinality(T) <= Cardinality(D)
    BY <1>1, <1>2, FS_Subset
  <2>2. Cardinality(D \ T) = Cardinality(D) - Cardinality(D \cap T) /\ D \cap T = T
    BY <1>1, <1>2, <2>1, FS_Difference
  <2> QED
    BY <1>1, <2>1, <2>2, FS_CardinalityType, Zenon
<1>4. total_validators = Cardinality(D) /\ Cardinality(T) >= stall_threshold(total_validators)
  BY DEF MonitorInv, is_stalled
<1> QED
  BY <1>2, <1>3, <1>4, StallLeavesNoQuorum

\* For every number of validators, and whatever heartbeats arrive: when is_stalled
\* holds, the responsive validators cannot make a supermajority.
THEOREM StallsAreReal == MonitorSpec => []StallIsNoQuorum
BY MonitorInvariant, StallIsNoQuorumInInv, PTL

---------------------------------------------------------------------------
(* Time *)

\* The clock is at most one interval past the last tick.  A height that moved was
\* noted within one interval, and every tick since then came within the stuck
\* timeout.  Suspicions are no younger than the last check.
TimeInv ==
    /\ now \in Nat /\ last_tick \in Int /\ last_tick <= now /\ now <= last_tick + TickInterval
    /\ height \in Nat /\ last_height_seen \in Nat /\ last_height_seen <= height
    /\ last_height_advance \in Nat /\ changed \in Nat
    /\ triggered \in Nat /\ triggered <= now
    /\ height # last_height_seen => last_tick <= changed
    /\ height = last_height_seen =>
         /\ \/ last_height_advance <= changed + TickInterval
            \/ last_height_advance <= triggered + TickInterval
         /\ last_tick <= last_height_advance + StuckTimeout
    /\ last_partition_check \in Int /\ last_partition_check <= now
    /\ suspected \subseteq Nat
    /\ \A a \in suspected : a <= last_partition_check
    /\ PartitionsRateLimited

\* The loop starts with a tick due and nothing suspected.
LEMMA InitTimeInv == MonitorInit => TimeInv
BY TimesAssumption DEF MonitorInit, TimeInv, PartitionsRateLimited

\* Every message notes the height; the last tick is not older than one interval.
LEMMA NoteHeightTimeInv ==
    ASSUME TimeInv, NoteHeight, UNCHANGED <<now, last_tick, detector>>
    PROVE  TimeInv'
BY TimesAssumption DEF TimeInv, NoteHeight, detector, PartitionsRateLimited

\* A tick checks for a partition at most once per interval, and restarts the
\* timer of the height when it notes a move or triggers catch-up.
LEMMA TickTimeInv == TimeInv /\ LivenessTick => TimeInv'
<1> SUFFICES ASSUME TimeInv, LivenessTick PROVE TimeInv'
  OBVIOUS
<1>1. now' = now /\ last_tick' = now /\ height' = height /\ changed' = changed
  BY DEF LivenessTick
<1>2. PICK stalled : detect_network_partition(stalled)
  BY DEF LivenessTick
<1>3. /\ last_partition_check' \in Int /\ last_partition_check' <= now
      /\ suspected' \subseteq Nat
      /\ \A a \in suspected' : a <= last_partition_check'
      /\ PartitionsRateLimited'
  <2>1. CASE UNCHANGED <<last_partition_check, suspected>>
    BY <2>1 DEF TimeInv, PartitionsRateLimited
  <2>2. CASE /\ now >= last_partition_check + PartitionInterval
             /\ last_partition_check' = now
             /\ suspected' \in {suspected, suspected \cup {now}}
    BY <2>2, TimesAssumption DEF TimeInv, PartitionsRateLimited
  <2> QED
    BY <1>2, <2>1, <2>2 DEF detect_network_partition
<1>4. PICK announced : trigger_catch_up(announced)
  BY DEF LivenessTick
<1>5. /\ last_height_seen' = height
      /\ triggered' \in {triggered, now}
      /\ \/ height # last_height_seen /\ last_height_advance' = now
         \/ height = last_height_seen /\ last_height_advance' = now /\ triggered' = now
         \/ /\ height = last_height_seen /\ last_height_advance' = last_height_advance
            /\ ~(now >= last_height_advance + StuckTimeout)
  BY <1>4 DEF trigger_catch_up
<1>6. /\ last_height_advance' \in Nat /\ triggered' \in Nat /\ triggered' <= now
      /\ \/ last_height_advance' <= changed + TickInterval
         \/ last_height_advance' <= triggered' + TickInterval
      /\ now <= last_height_advance' + StuckTimeout
  BY <1>5, TimesAssumption DEF TimeInv
<1>7. now' <= last_tick' + TickInterval /\ last_tick' \in Int /\ now' \in Nat
  BY <1>1, TimesAssumption DEF TimeInv
<1>8. height' = last_height_seen'
  BY <1>1, <1>5
<1> QED
  BY <1>1, <1>3, <1>5, <1>6, <1>7, <1>8 DEF TimeInv

\* Every step of the loop keeps the distances between the times it records.
LEMMA NextTimeInv == TimeInv /\ [MonitorNext]_monitorVars => TimeInv'
<1> SUFFICES ASSUME TimeInv, [MonitorNext]_monitorVars PROVE TimeInv'
  OBVIOUS
<1>1. CASE Clock
  BY <1>1, TimesAssumption DEF Clock, TimeInv, detector, progress, PartitionsRateLimited
<1>2. CASE HeightAdvances
  BY <1>2, TimesAssumption DEF HeightAdvances, TimeInv, detector, PartitionsRateLimited
<1>3. CASE LivenessTick
  BY <1>3, TickTimeInv
<1>4. CASE ReceiveOther
  BY <1>4, NoteHeightTimeInv DEF ReceiveOther
<1>5. ASSUME NEW v, NEW timestamp, ReceiveHeartbeat(v, timestamp) PROVE TimeInv'
  BY <1>5, NoteHeightTimeInv DEF ReceiveHeartbeat
<1>6. ASSUME UNCHANGED <<now, detector, progress, last_tick>> PROVE TimeInv'
  BY <1>6 DEF TimeInv, detector, progress, PartitionsRateLimited
<1>7. ASSUME \/ SendHeartbeat \/ UNCHANGED monitorVars \/ \E set \in Sets : EpochBoundary(set)
      PROVE  UNCHANGED <<now, detector, progress, last_tick>>
  BY <1>7 DEF SendHeartbeat, EpochBoundary, monitorVars
<1> QED
  BY <1>1, <1>2, <1>3, <1>4, <1>5, <1>6, <1>7 DEF MonitorNext

\* The times the loop records keep their distances for ever.
THEOREM TimeInvariant == MonitorSpec => []TimeInv
BY InitTimeInv, NextTimeInv, PTL DEF MonitorSpec

\* detect_network_partition never records two suspicions within one interval.
THEOREM PartitionsAreRateLimited == MonitorSpec => []PartitionsRateLimited
<1>1. TimeInv => PartitionsRateLimited
  BY DEF TimeInv
<1> QED
  BY <1>1, TimeInvariant, PTL

\* Whatever messages and epochs do to the loop, a height that stays the same triggers
\* catch-up within the stuck timeout and two ticks, and again each time after that.
THEOREM StuckHeightTriggers == MonitorSpec => []TriggeredWhileStuck
<1>1. TimeInv => TriggeredWhileStuck
  BY TimesAssumption DEF TimeInv, TriggeredWhileStuck
<1> QED
  BY <1>1, TimeInvariant, PTL
=============================================================================
