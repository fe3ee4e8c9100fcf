SPECIFICATION Spec
CONSTANTS
  o1 = o1
  o2 = o2
  o3 = o3
  new = new
  New = new
  Olds <- TwoOlds
  Created <- NewLast
  Revision <- AsCreated
  NewExists = FALSE
  Surge <- One
  Unavailable <- One
  Steps <- HalfAll
  Replicas <- Three
  Targets <- TwoToFour
  MaxBehind = 0
  MaxScales = 1
  MaxFailures = 0
  MaxFaults = 0
INVARIANTS
  TypeOK
  SurgeBound
PROPERTIES
  StepsKeepProtocol
CHECK_DEADLOCK FALSE
