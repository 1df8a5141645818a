SPECIFICATION MonitorSpec
CONSTANTS
  Me = me
  Identities = {me, p, q, r}
  Initial = {me, p, q}
  Sets = {{me, p, q, r}, {me, p, q}}
  LivenessTimeout = 1
  MaxSkew = 1
  PartitionInterval = 2
  StuckTimeout = 1
  TickInterval = 1
  MaxTime = 4
  MaxHeight = 2
  None = None
SYMMETRY Peers
INVARIANTS
  StallIsNoQuorum
  PartitionsRateLimited
  TriggeredWhileStuck
CHECK_DEADLOCK FALSE
