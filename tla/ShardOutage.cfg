SPECIFICATION Spec
CONSTANTS
  NumPods = 3
  Replicas = {1, 2}
  ShardOf <- MCShardOf
  Nobody = Nobody
  InitialHomes <- MCInitialHomes
  MaxPodsUnavailable <- MCMaxPodsUnavailable
  MaxShardReplicasUnavailable <- MCMaxShardReplicasUnavailable
  PodLimit = 1
  ShardLimit = 1
  MaxRevision = 1
  BadRevisions = {}
  Clusters <- MCPersistent
  MaxFaults = 1
  AfterScaleUp = AfterScaleUp
  AfterRollingUpdate = AfterRollingUpdate
  UndoFailedScaleDown = UndoFailedScaleDown
  NoMetadata = NoMetadata
  MaxQueue = 4
INVARIANTS ShardLimitKept
\* A cluster that is up to date is at rest.
CHECK_DEADLOCK FALSE
