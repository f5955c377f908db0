SPECIFICATION Spec
CONSTANTS
  MaxPods = 3
  InitialSizes = {2}
  Replicas = {r1, r2}
  r1 = r1
  r2 = r2
  Specs <- MCSpecs
  Sizes = {0, 1, 2, 3}
  Options = {TRUE, FALSE}
  BalanceSupported = TRUE
  Bounds <- MCBounds
  Edits = 2
  KubeFaults = 1
  SolrFaults = 0
  FailedMoves = 1
  FailedBalances = 1
  LostPods = 0
  AfterScaleUp = AfterScaleUp
  AfterRollingUpdate = AfterRollingUpdate
  UndoFailedScaleDown = UndoFailedScaleDown
  NoMetadata = NoMetadata
  MaxQueue = 6
INVARIANTS TypeOK RequestsAreLocked
PROPERTIES UsesLock PodsAreVacated
\* A cluster that has its wanted size is at rest.
CHECK_DEADLOCK FALSE
