SPECIFICATION Spec
CONSTANTS
  a = a
  b = b
  f = f
  None = None
  NoFence = NoFence
  Templates <- TwoTemplates
  Hash <- DistinctHash
  YamlRoundTrip <- Identity
  Fences <- OneFence
  PlanLengths <- OneOrTwoSteps
  StaleReads = FALSE
  Patient = TRUE
  MaxEdits = 2
  MaxScales = 1
  MaxFaults = 1
INVARIANTS
  TypeOK
  PausedWhileRolling
  StableWasDeployed
  ReleasedWhenCompleted
  StableIsReleased
  StepsApproved
  ScalesOwnRelease
PROPERTIES
  KeepsProtocol
CHECK_DEADLOCK FALSE
