SPECIFICATION Spec
CONSTANTS
  b1 = b1
  b2 = b2
  d1 = d1
  None = None
  Releases <- MCReleases
  Deployments <- MCDeployments
  Target <- MCTarget
  Sizes <- MCSizes
  MaxEvents = 2
INVARIANTS
  TypeOK
  OwnerIsWoken
PROPERTIES
  BeginsWhenAvailable
  ScalingArrives
CHECK_DEADLOCK FALSE
