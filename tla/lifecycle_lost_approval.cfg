SPECIFICATION Spec
CONSTANTS
  a = a
  b = b
  f = f
  None = None
  NoFence = NoFence
  Templates <- TwoTemplates
  Hash <- DistinctHash
  YamlRoundTrip <- Identity
  Fences <- OneFence
  PlanLengths <- OneOrTwoSteps
  StaleReads = FALSE
  Patient = TRUE
  MaxEdits = 0
  MaxScales = 0
  MaxFaults = 0
PROPERTIES
  ApprovalKept
CHECK_DEADLOCK FALSE
