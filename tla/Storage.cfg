SPECIFICATION FairSpec
CONSTANTS
  MaxPods = 2
  Sizes = {1, 2, 3}
  LargestFeasible = 2
  CloudSpecs <- MCCloudSpecs
  InitialSpecs <- MCInitialSpecs
  Replicas = {1, 2}
  RequestedSizes = {1, 2, 3}
  Policies = {"Retain", "Delete"}
  InitialReplicas = {2}
  InitialSize = 1
  MaxDisturbances = 2
  NoClaim = NoClaim
  AfterScaleUp = AfterScaleUp
  AfterRollingUpdate = AfterRollingUpdate
  UndoFailedScaleDown = UndoFailedScaleDown
  NoMetadata = NoMetadata
  MaxQueue = 3
INVARIANTS TypeOK
PROPERTIES UsesLock ClaimsInUseKept ClaimsGoWithCloud OrphansGo ExpandedUnlessHindered
\* A SolrCloud that has the wanted storage is at rest.
CHECK_DEADLOCK FALSE
