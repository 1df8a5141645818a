SPECIFICATION SpecWithRestart
CONSTANTS
  N = 3
  None = None
  Running = {1, 2, 3}
  MaxHeight = 1
  MaxRound = 0
  MaxStarts = 2
  Restarting = {2}
  Orders <- RoundZeroFirst
  Builds = {TRUE}
  Hasty = {2}
  Slow = {}
  Syncing = {}
INVARIANTS
  FinalizedByCommitVotes
CHECK_DEADLOCK FALSE
