SPECIFICATION Spec
CONSTANTS
  MaxPods = 3
  Sizes = {1}
  LargestFeasible = 1
  CloudSpecs <- MCCloudSpecs
  InitialSpecs <- MCInitialSpecs
  Replicas = {1, 2, 3}
  RequestedSizes = {1}
  Policies = {"Delete"}
  InitialReplicas = {3}
  InitialSize = 1
  MaxDisturbances = 2
  NoClaim = NoClaim
  AfterScaleUp = AfterScaleUp
  AfterRollingUpdate = AfterRollingUpdate
  UndoFailedScaleDown = UndoFailedScaleDown
  NoMetadata = NoMetadata
  MaxQueue = 3
PROPERTIES WantedClaimsKept
CHECK_DEADLOCK FALSE
