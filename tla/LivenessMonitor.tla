------------------------- MODULE LivenessMonitor -------------------------
(***************************************************************************)
(* Heartbeats, the liveness monitor and the liveness tick of one engine's  *)
(* consensus loop: who is believed to be responsive, when a stall or a     *)
(* recovery is announced, when a partition is suspected and when catch-up  *)
(* sync is asked for.                                                      *)
(*                                                                         *)
(* Time is discrete.  A peer may send a heartbeat at any time; heartbeats  *)
(* are lost, delayed, reordered and duplicated, so the engine may receive  *)
(* one with any earlier timestamp, or a later one if the peer's clock runs *)
(* ahead.  A heartbeat that fails validation changes nothing.              *)
(***************************************************************************)
EXTENDS Validators, Threshold, FiniteSets

CONSTANTS Me,                \* this engine's validator
          Sets,              \* the validator sets an epoch boundary may install
          LivenessTimeout,   \* age at which a heartbeat no longer counts
          MaxSkew,           \* how far a heartbeat's timestamp may be off
          PartitionInterval, \* time between two checks for a partition
          StuckTimeout,      \* BOOTSTRAP_CATCHUP_TIMEOUT_SECS
          TickInterval,      \* time between two liveness ticks
          MaxTime            \* bound: the clock stops here

\* The engine's own validator is in every set: its heartbeats go unvalidated.
ASSUME IdentitiesAssumption ==
    /\ IsFiniteSet(Identities)
    /\ Me \in Initial /\ \A set \in Sets : Me \in set
    /\ Initial \subseteq Identities /\ Sets \subseteq SUBSET Identities
ASSUME TimesAssumption ==
    /\ LivenessTimeout \in Nat /\ MaxSkew \in Nat /\ PartitionInterval \in Nat
    /\ StuckTimeout \in Nat /\ TickInterval \in Nat \ {0}

VARIABLES
    now,                     \* current_time_secs()
    heartbeat_times,         \* HeartbeatTracker: timestamp per validator, None if absent
    validator_states,        \* LivenessMonitor: per validator, TRUE if Responsive
    last_stall_state,        \* the announced timed-out set, None if no stall is announced
    total_validators,
    last_partition_check,    \* ByzantineFaultDetector
    suspected,               \* when partitions were suspected: the evidence log
    height, last_height_seen, last_height_advance,
    last_tick,               \* when the liveness interval last fired
    event,                   \* what the last tick announced, "-" after another step
    changed, triggered       \* when height last changed, when catch-up was last triggered

monitor == <<validator_states, last_stall_state, total_validators>>
detector == <<last_partition_check, suspected>>
progress == <<height, last_height_seen, last_height_advance, changed, triggered>>
monitorVars == <<now, heartbeat_times, monitor, detector, progress, last_tick, event>>

---------------------------------------------------------------------------
(* HeartbeatTracker and LivenessMonitor *)

saturating_sub(a, b) == IF a >= b THEN a - b ELSE 0

is_validator_alive(v) ==
    heartbeat_times[v] # None /\ saturating_sub(now, heartbeat_times[v]) <= LivenessTimeout

\* Membership and timestamp; the height is within range and the signature well formed.
validate_heartbeat(v, timestamp) ==
    /\ v \in DOMAIN validator_states
    /\ timestamp <= now + MaxSkew /\ now <= timestamp + MaxSkew

\* Fault: one third of the validators is taken for more than one third.
threshold_one_third(total) == total \div 3

stall_threshold(total) == (total \div 3) + 1

timed_out_validators(states) == {v \in DOMAIN states : ~states[v]}

is_stalled(states, total) ==
    Cardinality(timed_out_validators(states)) >= stall_threshold(total)

watch_timeouts == [v \in DOMAIN validator_states |-> is_validator_alive(v)]

mark_responsive(states, v) ==
    [u \in DOMAIN states \cup {v} |-> u = v \/ states[u]]

\* New validators count as responsive.
update_validator_set(states, set) ==
    [v \in set |-> v \in DOMAIN states => states[v]]

---------------------------------------------------------------------------
(* The event loop *)

\* run_consensus_loop up to the loop.  The liveness interval fires at once.
MonitorInit ==
    /\ now = 0
    /\ heartbeat_times = [v \in Identities |-> None]
    /\ validator_states = [v \in Initial |-> TRUE]
    /\ last_stall_state = None
    /\ total_validators = Cardinality(Initial)
    /\ last_partition_check = -PartitionInterval /\ suspected = {}
    /\ height = 1 /\ last_height_seen = 1 /\ last_height_advance = 0
    /\ last_tick = -TickInterval
    /\ event = "-"
    /\ changed = 0 /\ triggered = 0

\* Time passes; the loop takes a tick that is due before it.
Clock ==
    /\ now < MaxTime /\ now < last_tick + TickInterval
    /\ now' = now + 1
    /\ event' = "-"
    /\ UNCHANGED <<heartbeat_times, monitor, detector, progress, last_tick>>

\* The heartbeat interval: the engine's own heartbeat counts at once.
SendHeartbeat ==
    /\ heartbeat_times' = [heartbeat_times EXCEPT ![Me] = now]
    /\ validator_states' = mark_responsive(validator_states, Me)
    /\ event' = "-"
    /\ UNCHANGED <<now, last_stall_state, total_validators, detector, progress, last_tick>>

\* After every message the loop notes whether the height has moved.
NoteHeight ==
    /\ last_height_seen' = height
    /\ last_height_advance' = IF height # last_height_seen THEN now ELSE last_height_advance
    /\ UNCHANGED <<height, changed, triggered>>

ReceiveHeartbeat(v, timestamp) ==
    /\ validate_heartbeat(v, timestamp)
    /\ heartbeat_times' = [heartbeat_times EXCEPT ![v] = timestamp]
    /\ validator_states' = mark_responsive(validator_states, v)
    /\ NoteHeight
    /\ event' = "-"
    /\ UNCHANGED <<now, last_stall_state, total_validators, detector, last_tick>>

\* A proposal or a vote, or a heartbeat that is rejected.
ReceiveOther ==
    /\ height # last_height_seen
    /\ NoteHeight
    /\ event' = "-"
    /\ UNCHANGED <<now, heartbeat_times, monitor, detector, last_tick>>

\* A round timeout finds a longer chain.
HeightAdvances ==
    /\ height < MaxHeight
    /\ height' = height + 1 /\ changed' = now
    /\ event' = "-"
    /\ UNCHANGED <<now, heartbeat_times, monitor, detector, last_height_seen,
                   last_height_advance, triggered, last_tick>>

\* What a tick announces once some validator's state changed: a stall that is
\* new or has other validators, or the end of one.
check_stall_transition(stalled, timed_out) ==
    /\ last_stall_state' = IF stalled THEN timed_out ELSE None
    /\ event' = IF last_stall_state' = last_stall_state THEN "none"
                ELSE IF stalled THEN "stalled" ELSE "recovered"

\* Fault: the time of the last check is not recorded.
detect_without_limit(stalled) ==
    LET suspect == total_validators > 1 /\ stalled
    IN  /\ last_partition_check' = last_partition_check
        /\ suspected' = IF suspect THEN suspected \cup {now} ELSE suspected

detect_network_partition(stalled) ==
    LET check == total_validators > 1 /\ now >= last_partition_check + PartitionInterval
    IN  /\ last_partition_check' = IF check THEN now ELSE last_partition_check
        /\ suspected' = IF check /\ stalled THEN suspected \cup {now} ELSE suspected

\* Fault: the timer of a stuck height restarts with every tick.
catch_up_on_stall_only(stall_announced) ==
    /\ last_height_seen' = height
    /\ last_height_advance' = now
    /\ triggered' = IF stall_announced THEN now ELSE triggered

\* Catch-up sync is triggered by a stall and by a height that has not moved.
trigger_catch_up(stall_announced) ==
    LET moved == height # last_height_seen
        stuck == ~moved /\ now >= last_height_advance + StuckTimeout
    IN  /\ last_height_seen' = height
        /\ last_height_advance' = IF moved \/ stuck THEN now ELSE last_height_advance
        /\ triggered' = IF stall_announced \/ stuck THEN now ELSE triggered

LivenessTick ==
    LET states == watch_timeouts
        stalled == is_stalled(states, total_validators)
    IN  /\ now >= last_tick + TickInterval
        /\ last_tick' = now
        /\ validator_states' = states
        /\ IF states # validator_states
           THEN check_stall_transition(stalled, timed_out_validators(states))
           ELSE event' = "none" /\ UNCHANGED last_stall_state
        /\ detect_network_partition(stalled)
        /\ trigger_catch_up(event' = "stalled")
        /\ UNCHANGED <<now, heartbeat_times, total_validators, height, changed>>

\* apply_epoch_boundary_changes installs another validator set.
EpochBoundary(set) ==
    /\ validator_states' = update_validator_set(validator_states, set)
    /\ total_validators' = Cardinality(set)
    /\ event' = "-"
    /\ UNCHANGED <<now, heartbeat_times, last_stall_state, detector, progress, last_tick>>

MonitorNext ==
    \/ Clock \/ SendHeartbeat \/ ReceiveOther \/ HeightAdvances \/ LivenessTick
    \/ \E v \in Identities \ {Me}, timestamp \in 0..(now + MaxSkew) :
          ReceiveHeartbeat(v, timestamp)
    \/ \E set \in Sets : EpochBoundary(set)

MonitorSpec == MonitorInit /\ [][MonitorNext]_monitorVars

---------------------------------------------------------------------------
responsive_validators == {v \in DOMAIN validator_states : validator_states[v]}

\* When is_stalled holds, the responsive validators are too few for the
\* supermajority that the engine's quorum checks ask for.
StallIsNoQuorum ==
    is_stalled(validator_states, total_validators)
    => ~has_supermajority(Cardinality(responsive_validators), total_validators)

\* Evidence of a partition is at least PartitionInterval apart.
PartitionsRateLimited ==
    \A a, b \in suspected : a < b => a + PartitionInterval <= b

\* While the height does not move, catch-up is triggered again and again: the
\* wait is at most the stuck timeout and the ticks that notice the last change
\* and the timeout.
TriggeredWhileStuck ==
    now <= (IF changed > triggered THEN changed ELSE triggered)
           + StuckTimeout + 2 * TickInterval
=============================================================================
