SPECIFICATION Spec
CONSTANTS
  N = 4
  None = None
  Running = {1, 2, 3, 4}
  MaxHeight = 2
  MaxRound = 1
  MaxStarts = 1
  Restarting = {}
  Orders <- RoundZeroFirst
  Builds = {TRUE, FALSE}
  Hasty = {}
  Slow = {1}
  Syncing = {1}
INVARIANTS
  Agreement
PROPERTIES
  ChainsGrow
CONSTRAINT Lagging
ACTION_CONSTRAINT LaggardLast
CHECK_DEADLOCK FALSE
