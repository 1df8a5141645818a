SPECIFICATION Spec
CONSTANTS
  N = 4
  None = None
  Running = {2, 3, 4}
  MaxHeight = 1
  MaxRound = 1
  MaxStarts = 1
  Restarting = {}
  Orders <- RoundZeroFirst
  Builds = {TRUE}
  Hasty = {4}
  Slow = {}
  Syncing = {}
INVARIANTS
  VotesRemembered
  NoEquivocation
  PreCommitAgreement
  MarksBacked
PROPERTIES
  ViewsAdvance
  VotingRulesImplemented
CHECK_DEADLOCK FALSE
