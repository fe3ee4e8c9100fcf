SPECIFICATION Spec
CONSTANTS
  a = a
  b = b
  f = f
  None = None
  NoFence = NoFence
  Templates <- TwoTemplates
  Hash <- DistinctHash
  YamlRoundTrip <- Identity
  Fences <- OneFence
  PlanLengths <- OneOrTwoSteps
  StaleReads = TRUE
  Patient = FALSE
  MaxEdits = 2
  MaxScales = 0
  MaxFaults = 1
INVARIANTS
  RollbackHasTarget
CHECK_DEADLOCK FALSE
