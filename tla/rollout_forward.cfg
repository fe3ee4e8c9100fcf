SPECIFICATION Spec
CONSTANTS
  o1 = o1
  o2 = o2
  o3 = o3
  new = new
  New = new
  Olds <- TwoOlds
  Created <- NewLast
  Revision <- AsCreated
  NewExists = FALSE
  Surge <- Zero
  Unavailable <- One
  Steps <- OddPlan
  Replicas <- Three
  Targets <- TwoToFour
  MaxBehind = 1
  MaxScales = 0
  MaxFailures = 0
  MaxFaults = 1
PROPERTIES
  PartitionNeverShrinks
  ReportedReady
  NewBeforeOld
  BatchesEnd
CHECK_DEADLOCK FALSE
