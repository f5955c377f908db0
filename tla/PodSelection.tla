--------------------------- MODULE PodSelection ---------------------------
(***************************************************************************)
(* Which running pods a managed rolling update may take down: the pure     *)
(* functions of solr_update_util.go.  A "cluster" is what Solr answers to  *)
(* CLUSTERSTATUS and OVERSEERSTATUS: the live nodes, the node each replica *)
(* is on and its state, the leader of each shard, and the overseer.        *)
(***************************************************************************)
EXTENDS Integers, Sequences, FiniteSetsExt

CONSTANTS
  NumPods,                      \* replicas of the StatefulSet
  Replicas, ShardOf,            \* the replicas, and the shard each belongs to
  MaxPodsUnavailable,           \* the two limits of the update strategy,
  MaxShardReplicasUnavailable,  \* a number or a percentage
  Nobody                        \* no overseer, no leader

Limits == [percent : BOOLEAN, value : Nat]

ASSUME SelectionAssumption ==
  /\ NumPods \in Nat \ {0}
  /\ MaxPodsUnavailable \in Limits
  /\ MaxShardReplicasUnavailable \in Limits
  /\ IsFiniteSet(Replicas)
  /\ Nobody \notin Nat \cup Replicas

Pod == 0..(NumPods - 1)
Shards == {ShardOf[r] : r \in Replicas}
ReplicaStates == {"active", "recovering", "down"}

-----------------------------------------------------------------------------
(* findSolrNodeContents.                                                   *)

ReplicasOn(cluster, p) == {r \in Replicas : cluster.home[r] = p}

InState(cluster, p, shard, state) ==
  {r \in ReplicasOn(cluster, p) : ShardOf[r] = shard /\ cluster.state[r] = state}

\* Replicas of the shard that are not active, or whose node is not live.
ShardReplicasNotActive(cluster, shard) ==
  {r \in Replicas : /\ ShardOf[r] = shard
                    /\ \/ cluster.state[r] # "active"
                       \/ cluster.home[r] \notin cluster.live}

InClusterState(cluster, p) == p = cluster.overseer \/ ReplicasOn(cluster, p) # {}
HasContents(cluster, p) == p \in cluster.live \/ InClusterState(cluster, p)
AllManagedPodsLive(cluster) == Pod \subseteq cluster.live

-----------------------------------------------------------------------------
\* ResolveMaxPodsUnavailable, ResolveMaxShardReplicasUnavailable: zero means no
\* limit, and a percentage is rounded down, but not to zero.
Resolve(limit, total) ==
  IF ~limit.percent /\ limit.value = 0 THEN total
  ELSE LET n == IF limit.percent THEN (limit.value * total) \div 100 ELSE limit.value
       IN  IF n = 0 THEN 1 ELSE n

MaxShardReplicasDown(shard) ==
  Resolve(MaxShardReplicasUnavailable, Cardinality({r \in Replicas : ShardOf[r] = shard}))

\* Mutant: pods that are being deleted for the update do not count.
CalculateMaxPodsToUpdateMutant(running, otherOutOfDate, available) ==
  Resolve(MaxPodsUnavailable, NumPods)
    - (NumPods - available - Cardinality(running) - Cardinality(otherOutOfDate))

\* How many more pods may be taken down: the limit less the updated pods that
\* are not available and the outdated ones that are down or going down.
CalculateMaxPodsToUpdate(running, otherOutOfDate, available) ==
  LET unavailableUpdated ==
        NumPods - available - Cardinality(running) - Cardinality(otherOutOfDate)
  IN  Resolve(MaxPodsUnavailable, NumPods) - unavailableUpdated - Cardinality(otherOutOfDate)

Leaders(cluster, p) == {shard \in Shards : cluster.leader[shard] \in ReplicasOn(cluster, p)}
NotDownReplicas(cluster, p) == {r \in ReplicasOn(cluster, p) : cluster.state[r] # "down"}

\* sortNodePodsBySafety: by what Solr knows of the pods (pods it does not know
\* first, the overseer last), then nodes that are not live first, then by
\* numbers of shard leaders, of replicas not down, of replicas, then by name.
SafetyRank(cluster, p) ==
  <<IF ~HasContents(cluster, p) THEN 0 ELSE IF p = cluster.overseer THEN 2 ELSE 1,
    IF p \in cluster.live THEN 1 ELSE 0,
    Cardinality(Leaders(cluster, p)),
    Cardinality(NotDownReplicas(cluster, p)),
    Cardinality(ReplicasOn(cluster, p)),
    NumPods - p>>

Safer(cluster, p, q) ==
  LET x == SafetyRank(cluster, p)
      y == SafetyRank(cluster, q)
  IN  \E i \in DOMAIN x : x[i] < y[i] /\ \A j \in 1..(i - 1) : x[j] = y[j]

\* The orders in which some pods can be gone through, each pod once.
Orders(pods) == Injection(1..Cardinality(pods), pods)

BySafety(cluster, running) ==
  CHOOSE order \in Orders(running) :
    \A i, j \in DOMAIN order : i < j => Safer(cluster, order[i], order[j])

\* Mutant: the replicas that are down already are not looked at.
ShardSafeMutant(cluster, notActive, p, shard) ==
  Cardinality(InState(cluster, p, shard, "active")) <= MaxShardReplicasDown(shard)

\* May the replicas of this shard go down with the pod?  Yes if they are down
\* already, if they are the only ones to be down, or if the limit allows it.
ShardSafe(cluster, notActive, p, shard) ==
  \/ \A r \in ReplicasOn(cluster, p) : ShardOf[r] = shard => cluster.state[r] = "down"
  \/ notActive[shard] = 0
  \/ notActive[shard] + Cardinality(InState(cluster, p, shard, "active"))
       <= MaxShardReplicasDown(shard)

\* The overseer goes last, alone and when every pod is live.
IsSafeToUpdate(cluster, running, notActive, p) ==
  InClusterState(cluster, p) =>
    /\ p = cluster.overseer => running = {p} /\ AllManagedPodsLive(cluster)
    /\ p \in cluster.live => \A shard \in Shards : ShardSafe(cluster, notActive, p, shard)

\* The number of replicas not active by shard, once these pods are down too.
WithPodsDown(cluster, pods) ==
  [shard \in Shards |->
     Cardinality(ShardReplicasNotActive(cluster, shard)
                   \cup UNION {InState(cluster, p, shard, "active") : p \in pods})]

\* pickPodsToUpdate: greedily, the safest first, up to max pods.
PickPodsToUpdate(cluster, running, scheduled, max) ==
  LET pick(p, chosen) ==
        IF /\ Len(chosen) < max
           /\ IsSafeToUpdate(cluster, running,
                             WithPodsDown(cluster, scheduled \cup Range(chosen)), p)
          THEN Append(chosen, p)
          ELSE chosen
      order == BySafety(cluster, running)
  IN  MapThenFoldSet(pick, <<>>, LAMBDA i : order[i], Max, DOMAIN order)

DeterminePodsSafeToUpdate(cluster, running, scheduled, notStarted, available) ==
  LET max == CalculateMaxPodsToUpdate(running, scheduled \cup notStarted, available)
      pods == IF max <= 0 THEN <<>> ELSE PickPodsToUpdate(cluster, running, scheduled, max)
  IN  [pods |-> pods, retry |-> max <= 0 \/ (pods = <<>> /\ running # {})]

=============================================================================
