SPECIFICATION FairSpec
CONSTANTS
  N = 4
  None = None
  Running = {1, 3, 4}
  MaxHeight = 2
  MaxRound = 1
  MaxStarts = 1
  Restarting = {}
  Orders <- RoundZeroFirst
  Builds = {TRUE}
  Hasty = {}
  Slow = {}
  Syncing = {}
PROPERTIES
  EventuallyCommitted
CHECK_DEADLOCK FALSE
