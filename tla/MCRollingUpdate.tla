-------------------------- MODULE MCRollingUpdate --------------------------
(* Instances of RollingUpdate for TLC: one shard, limits that are numbers. *)
EXTENDS RollingUpdate

CONSTANTS PodLimit, ShardLimit

MCShardOf == [r \in Replicas |-> "shard1"]
MCMaxPodsUnavailable == [percent |-> FALSE, value |-> PodLimit]
MCMaxShardReplicasUnavailable == [percent |-> FALSE, value |-> ShardLimit]

Ephemeral == <<TRUE, NumPods>>
EphemeralShrinking == <<TRUE, 1>>
Persistent == <<FALSE, NumPods>>
MCEphemeral == {Ephemeral}
MCPersistent == {Persistent}
MCBothStorages == {Ephemeral, Persistent}
MCClusters == {Ephemeral, EphemeralShrinking, Persistent}

\* The replicas are numbers and are on different pods; which is on which does
\* not matter.
MCInitialHomes == {h \in [Replicas -> Pod] : \A r1, r2 \in Replicas : r1 < r2 => h[r1] < h[r2]}

=============================================================================
