SPECIFICATION FairSpec
CONSTANTS
  NumPods = 2
  Replicas = {1, 2}
  ShardOf <- MCShardOf
  Nobody = Nobody
  InitialHomes <- MCInitialHomes
  MaxPodsUnavailable <- MCMaxPodsUnavailable
  MaxShardReplicasUnavailable <- MCMaxShardReplicasUnavailable
  PodLimit = 1
  ShardLimit = 1
  MaxRevision = 2
  BadRevisions = {1}
  Clusters <- MCClusters
  MaxFaults = 1
  AfterScaleUp = AfterScaleUp
  AfterRollingUpdate = AfterRollingUpdate
  UndoFailedScaleDown = UndoFailedScaleDown
  NoMetadata = NoMetadata
  MaxQueue = 4
INVARIANTS TypeOK ShardsStayUp NoReplicaLost
PROPERTIES UsesLock PodLimitKept UpdatedUnlessHindered
\* A cluster that is up to date is at rest.
CHECK_DEADLOCK FALSE
