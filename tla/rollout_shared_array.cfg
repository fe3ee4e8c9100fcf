SPECIFICATION Spec
CONSTANTS
  o1 = o1
  o2 = o2
  o3 = o3
  new = new
  New = new
  Olds <- ThreeOlds
  Created <- NewFirst
  Revision <- AsCreated
  NewExists = TRUE
  Surge <- One
  Unavailable <- Zero
  Steps <- OneAll
  Replicas <- Four
  Targets <- TwoToFour
  MaxBehind = 0
  MaxScales = 0
  MaxFailures = 0
  MaxFaults = 0
PROPERTIES
  NewNeverShrinks
CHECK_DEADLOCK FALSE
