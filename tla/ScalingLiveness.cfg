SPECIFICATION FairSpec
CONSTANTS
  MaxPods = 3
  InitialSizes = {1, 2, 3}
  Replicas = {r1}
  r1 = r1
  Specs <- MCSpecs
  Sizes = {1, 2, 3}
  Options = {TRUE}
  BalanceSupported = TRUE
  Bounds <- MCBounds
  Edits = 1
  KubeFaults = 1
  SolrFaults = 1
  FailedMoves = 1
  FailedBalances = 0
  LostPods = 1
  AfterScaleUp = AfterScaleUp
  AfterRollingUpdate = AfterRollingUpdate
  UndoFailedScaleDown = UndoFailedScaleDown
  NoMetadata = NoMetadata
  MaxQueue = 6
PROPERTIES EventuallyScaled
\* A cluster that has its wanted size is at rest.
CHECK_DEADLOCK FALSE
