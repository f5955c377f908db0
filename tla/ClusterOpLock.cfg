SPECIFICATION Spec
CONSTANTS
  PodCounts = {1, 2}
  StorageSizes = {s1, s2}
  Migrations = {migrate, keep}
  AfterScaleUp = AfterScaleUp
  AfterRollingUpdate = AfterRollingUpdate
  UndoFailedScaleDown = UndoFailedScaleDown
  NoMetadata = NoMetadata
  MaxQueue = 4
INVARIANTS TypeOK OneOpPerKind
PROPERTIES NothingForgotten
