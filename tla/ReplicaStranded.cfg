SPECIFICATION Spec
CONSTANTS
  MaxPods = 3
  InitialSizes = {2}
  Replicas = {r1}
  r1 = r1
  Specs <- MCSpecs
  Sizes = {1, 2, 3}
  Options = {TRUE}
  BalanceSupported = TRUE
  Bounds <- MCBounds
  Edits = 2
  KubeFaults = 0
  SolrFaults = 0
  FailedMoves = 0
  FailedBalances = 0
  LostPods = 0
  AfterScaleUp = AfterScaleUp
  AfterRollingUpdate = AfterRollingUpdate
  UndoFailedScaleDown = UndoFailedScaleDown
  NoMetadata = NoMetadata
  MaxQueue = 6
INVARIANTS ReplicasOnKeptPods
\* A cluster that has its wanted size is at rest.
CHECK_DEADLOCK FALSE
