SPECIFICATION Spec
CONSTANTS
  o1 = o1
  o2 = o2
  o3 = o3
  new = new
  New = new
  Olds <- TwoOlds
  Created <- NewFirst
  Revision <- AsCreated
  NewExists = TRUE
  Surge <- One
  Unavailable <- Zero
  Steps <- HalfAll
  Replicas <- Three
  Targets <- TwoToFour
  MaxBehind = 1
  MaxScales = 0
  MaxFailures = 1
  MaxFaults = 0
INVARIANTS
  NewWithinStep
  SurgeBound
PROPERTIES
  AvailabilityKept
  OldShareKept
  SmallerRevisionLast
  BatchesEnd
CHECK_DEADLOCK FALSE
