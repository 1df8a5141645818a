SPECIFICATION Spec
CONSTANTS
  Identities = {a, b, c, d, e}
  Initial = {a, b, c}
  Joining = {}
  MaxValidators = 4
  DevelopmentMode = FALSE
  InitialLength = 2
  Lengths = {1, 3}
  HistoryLimit = 2
  Drivers = {"blocks", "rounds", "loop"}
  MaxHeight = 6
  MaxPending = 2
  None = None
SYMMETRY Symmetric
INVARIANTS
  QueueConsistent
  NothingOverdue
PROPERTIES
  CommitteesSealed
  FrozenWithinEpoch
  ChurnBounded
CHECK_DEADLOCK FALSE
