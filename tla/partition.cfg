SPECIFICATION Spec
CONSTANTS
  N = 4
  None = None
  Running = {1, 2, 3, 4}
  MaxHeight = 1
  MaxRound = 1
  MaxStarts = 1
  Restarting = {}
  Orders <- RoundZeroFirst
  Builds = {TRUE}
  Hasty = {2, 3, 4}
  Slow = {}
  Syncing = {}
INVARIANTS
  Agreement
CONSTRAINT Partition
CHECK_DEADLOCK FALSE
