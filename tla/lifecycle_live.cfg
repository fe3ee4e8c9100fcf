SPECIFICATION Spec
CONSTANTS
  a = a
  b = b
  f = f
  None = None
  NoFence = NoFence
  Templates <- TwoTemplates
  Hash <- DistinctHash
  YamlRoundTrip <- Identity
  Fences <- OneFence
  PlanLengths <- OneOrTwoSteps
  StaleReads = FALSE
  Patient = TRUE
  MaxEdits = 1
  MaxScales = 1
  MaxFaults = 1
PROPERTIES
  EventuallyReleased
CHECK_DEADLOCK FALSE
