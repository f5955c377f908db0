------------------------ MODULE RollingUpdate_proofs ------------------------
(***************************************************************************)
(* Proofs about PodSelection, for any cluster and any limits, and about    *)
(* RollingUpdate, for any number of pods, replicas and shards, any limits  *)
(* of the update strategy, and any number of revisions and faults.         *)
(*                                                                         *)
(* First, the order in which a rolling update looks at the pods is well    *)
(* defined, and the pods it then picks stay within both limits of the      *)
(* update strategy.  Picking is a fold, so the proofs are by induction     *)
(* over the pods in that order.  Induction is stated for a set of numbers  *)
(* here, which takes no operator as a parameter; the fold is first shown   *)
(* to run through a sequence of choices, each made from the one before     *)
(* (PickSteps).                                                            *)
(*                                                                         *)
(* Then the types of RollingUpdate, which hold because what                *)
(* DeterminePodsSafeToUpdate selects are running pods; that the update     *)
(* uses the lock as ClusterOpLock says; and what each kind of step does to *)
(* the pods, on which RollingUpdateLimits_proofs builds.                   *)
(***************************************************************************)
EXTENDS RollingUpdate, FiniteSetTheorems, SequenceTheorems, WellFoundedInduction, TLAPS

-----------------------------------------------------------------------------
(* Induction over the natural numbers, and over those up to a bound.       *)

\* A set of numbers that has 0 and the successor of each of its members has
\* all of them: there is no least number that it lacks.
LEMMA NatSetInduction ==
  ASSUME NEW I, 0 \in I, \A k \in Nat : k \in I => k + 1 \in I
  PROVE  Nat \subseteq I
<1> DEFINE T == Nat \ I
           R == OpToRel(<, Nat)
<1> SUFFICES ASSUME T # {} PROVE FALSE
  OBVIOUS
<1>1. PICK x \in T : \A y \in T : ~(<<y, x>> \in R)
  <2>1. IsWellFoundedOn(R, Nat)
    BY Zenon, NatLessThanWellFounded
  <2>2. T \subseteq Nat
    OBVIOUS
  <2> HIDE DEF T, R
  <2> QED BY Zenon, <2>1, <2>2, WFMin
<1>2. x - 1 \in Nat /\ x - 1 < x
  OBVIOUS
<1>3. x - 1 \in T
  <2>1. x - 1 \in I => x \in I
    BY <1>2
  <2> QED BY <1>2, <2>1
<1>4. <<x - 1, x>> \in R
  BY <1>2 DEF OpToRel
<1> QED BY Zenon, <1>1, <1>3, <1>4

\* The same up to n.
LEMMA BoundedInduction ==
  ASSUME NEW n \in Nat, NEW I, 0 \in I, \A k \in 0..(n - 1) : k \in I => k + 1 \in I
  PROVE  0..n \subseteq I
<1> DEFINE J == {k \in Nat : k <= n => k \in I}
<1>1. 0 \in J
  OBVIOUS
<1>2. \A k \in Nat : k \in J => k + 1 \in J
  OBVIOUS
<1>3. Nat \subseteq J
  <2> HIDE DEF J
  <2> QED BY <1>1, <1>2, NatSetInduction
<1> QED BY <1>3

-----------------------------------------------------------------------------
(* sortNodePodsBySafety: an order of the pods.                             *)

\* The pods, replicas and shards are finitely many.
LEMMA Finite ==
  /\ IsFiniteSet(Pod) /\ Cardinality(Pod) = NumPods
  /\ \A S \in SUBSET Pod : IsFiniteSet(S)
  /\ \A S \in SUBSET Replicas : IsFiniteSet(S)
  /\ \A S \in SUBSET Shards : IsFiniteSet(S)
<1>1. IsFiniteSet(Pod) /\ Cardinality(Pod) = NumPods
  BY SelectionAssumption, FS_Interval DEF Pod
<1>2. IsFiniteSet(Replicas)
  BY SelectionAssumption
<1>3. IsFiniteSet(Shards)
  <2> DEFINE f == [r \in Replicas |-> ShardOf[r]]
  <2>1. f \in Surjection(Replicas, Shards)
    BY DEF Surjection, Shards
  <2> HIDE DEF f
  <2> QED BY <1>2, <2>1, FS_Surjection
<1> QED BY <1>1, <1>2, <1>3, FS_Subset

\* What the order compares are numbers.
LEMMA RankType ==
  ASSUME NEW cluster, NEW p \in Pod
  PROVE  /\ DOMAIN SafetyRank(cluster, p) = 1..6
         /\ \A i \in 1..6 : SafetyRank(cluster, p)[i] \in Int
         /\ SafetyRank(cluster, p)[6] = NumPods - p
<1>1. Cardinality(Leaders(cluster, p)) \in Int
  BY Finite, FS_CardinalityType DEF Leaders
<1>2. Cardinality(NotDownReplicas(cluster, p)) \in Int
  BY Finite, FS_CardinalityType DEF NotDownReplicas, ReplicasOn
<1>3. Cardinality(ReplicasOn(cluster, p)) \in Int
  BY Finite, FS_CardinalityType DEF ReplicasOn
<1>4. NumPods - p \in Int
  BY SelectionAssumption DEF Pod
<1> QED BY <1>1, <1>2, <1>3, <1>4 DEF SafetyRank

\* Of two pods one is safer.
LEMMA SaferTotal ==
  ASSUME NEW cluster, NEW p \in Pod, NEW q \in Pod, p # q
  PROVE  Safer(cluster, p, q) \/ Safer(cluster, q, p)
<1> DEFINE x == SafetyRank(cluster, p)
           y == SafetyRank(cluster, q)
<1>1. /\ DOMAIN x = 1..6 /\ DOMAIN y = 1..6
      /\ \A i \in 1..6 : x[i] \in Int /\ y[i] \in Int
  BY RankType
<1>2. x[6] # y[6]
  BY RankType, SelectionAssumption DEF Pod
<1>3. PICK i \in 1..6 : x[i] # y[i] /\ \A j \in 1..(i - 1) : x[j] = y[j]
  <2>1. CASE x[1] # y[1]
    BY <2>1
  <2>2. CASE x[1] = y[1] /\ x[2] # y[2]
    BY <2>2
  <2>3. CASE x[1] = y[1] /\ x[2] = y[2] /\ x[3] # y[3]
    BY <2>3
  <2>4. CASE x[1] = y[1] /\ x[2] = y[2] /\ x[3] = y[3] /\ x[4] # y[4]
    BY <2>4
  <2>5. CASE x[1] = y[1] /\ x[2] = y[2] /\ x[3] = y[3] /\ x[4] = y[4] /\ x[5] # y[5]
    BY <2>5
  <2>6. CASE x[1] = y[1] /\ x[2] = y[2] /\ x[3] = y[3] /\ x[4] = y[4] /\ x[5] = y[5]
    BY <1>2, <2>6
  <2> QED BY <2>1, <2>2, <2>3, <2>4, <2>5, <2>6
<1>4. x[i] < y[i] \/ y[i] < x[i]
  BY <1>1, <1>3
<1> QED BY <1>1, <1>3, <1>4 DEF Safer

\* No pod is safer than itself, and safer than safer is safer.
LEMMA SaferStrict ==
  ASSUME NEW cluster, NEW p \in Pod
  PROVE  ~Safer(cluster, p, p)
BY RankType DEF Safer

LEMMA SaferTransitive ==
  ASSUME NEW cluster, NEW p \in Pod, NEW q \in Pod, NEW s \in Pod,
         Safer(cluster, p, q), Safer(cluster, q, s)
  PROVE  Safer(cluster, p, s)
<1> DEFINE x == SafetyRank(cluster, p)
           y == SafetyRank(cluster, q)
           z == SafetyRank(cluster, s)
<1>1. /\ DOMAIN x = 1..6 /\ DOMAIN y = 1..6
      /\ \A i \in 1..6 : x[i] \in Int /\ y[i] \in Int /\ z[i] \in Int
  BY RankType
<1>2. PICK i \in 1..6 : x[i] < y[i] /\ \A j \in 1..(i - 1) : x[j] = y[j]
  BY <1>1 DEF Safer
<1>3. PICK k \in 1..6 : y[k] < z[k] /\ \A j \in 1..(k - 1) : y[j] = z[j]
  BY <1>1 DEF Safer
<1> HIDE DEF x, y, z
<1>4. \E m \in 1..6 : x[m] < z[m] /\ \A j \in 1..(m - 1) : x[j] = z[j]
  <2>1. CASE i < k
    BY <1>1, <1>2, <1>3, <2>1
  <2>2. CASE i = k
    BY <1>1, <1>2, <1>3, <2>2
  <2>3. CASE k < i
    BY <1>1, <1>2, <1>3, <2>3
  <2> QED BY <2>1, <2>2, <2>3
<1> QED BY <1>1, <1>4 DEF Safer, x, z

\* Any set of pods can be put in this order: give each pod the number of those
\* that are safer.
LEMMA OrderExists ==
  ASSUME NEW cluster, NEW running \in SUBSET Pod
  PROVE  \E order \in Orders(running) :
           \A i, j \in DOMAIN order : i < j => Safer(cluster, order[i], order[j])
<1> DEFINE n == Cardinality(running)
           Below(p) == {q \in running : Safer(cluster, q, p)}
           place == [p \in running |-> Cardinality(Below(p)) + 1]
<1>1. IsFiniteSet(running) /\ n \in Nat
  BY Finite, FS_CardinalityType
<1>2. \A p \in running : Cardinality(Below(p)) \in 0..(n - 1)
  <2> SUFFICES ASSUME NEW p \in running PROVE Cardinality(Below(p)) \in 0..(n - 1)
    OBVIOUS
  <2>1. Below(p) \in SUBSET running /\ p \notin Below(p)
    BY SaferStrict
  <2> HIDE DEF Below
  <2>2. /\ IsFiniteSet(Below(p)) /\ Cardinality(Below(p)) <= n
        /\ Cardinality(Below(p)) # n
    BY <1>1, <2>1, FS_Subset
  <2>3. Cardinality(Below(p)) \in Nat
    BY <2>2, FS_CardinalityType
  <2> QED BY <1>1, <2>2, <2>3
<1>3. ASSUME NEW p \in running, NEW q \in running, Safer(cluster, p, q)
      PROVE  Cardinality(Below(p)) < Cardinality(Below(q))
  <2>1. Below(p) \in SUBSET Below(q)
    BY <1>3, SaferTransitive
  <2>2. p \in Below(q) /\ p \notin Below(p)
    BY <1>3, SaferStrict
  <2>3. Below(q) \in SUBSET running
    OBVIOUS
  <2> HIDE DEF Below
  <2>4. IsFiniteSet(Below(q))
    BY <1>1, <2>3, FS_Subset
  <2>5. Cardinality(Below(p)) <= Cardinality(Below(q)) /\ Cardinality(Below(p)) # Cardinality(Below(q))
    BY <2>1, <2>2, <2>4, FS_Subset
  <2> QED BY <1>2, <2>5
<1>4. place \in [running -> 1..n]
  BY <1>1, <1>2
<1>5. \A p, q \in running : Safer(cluster, p, q) => place[p] < place[q]
  <2> HIDE DEF Below
  <2> QED BY <1>2, <1>3
<1> HIDE DEF place, Below
<1>6. place \in Injection(running, 1..n)
  <2> SUFFICES ASSUME NEW p \in running, NEW q \in running, p # q PROVE place[p] # place[q]
    BY <1>4 DEF Injection, IsInjective
  <2> QED BY <1>4, <1>5, SaferTotal
<1>7. place \in Surjection(running, 1..n)
  <2>1. IsFiniteSet(1..n) /\ Cardinality(1..n) = n
    BY <1>1, FS_Interval
  <2> QED BY <1>1, <1>6, <2>1, FS_Injection
<1> DEFINE order == [i \in 1..n |-> CHOOSE p \in running : place[p] = i]
<1>8. \A i \in 1..n : order[i] \in running /\ place[order[i]] = i
  BY <1>7 DEF Surjection
<1>9. order \in Orders(running)
  <2> HIDE DEF order
  <2>1. order \in [1..n -> running]
    BY <1>8 DEF order
  <2>2. \A i, j \in 1..n : order[i] = order[j] => i = j
    BY <1>8
  <2> QED BY Zenon, <2>1, <2>2 DEF Orders, Injection, IsInjective
<1>10. ASSUME NEW i \in 1..n, NEW j \in 1..n, i < j
       PROVE  Safer(cluster, order[i], order[j])
  <2> HIDE DEF order
  <2>1. order[i] # order[j] /\ ~Safer(cluster, order[j], order[i])
    BY <1>4, <1>5, <1>8, <1>10
  <2> QED BY <1>8, <2>1, SaferTotal
<1> HIDE DEF order
<1>11. DOMAIN order = 1..n
  BY DEF order
<1> QED BY Zenon, <1>9, <1>10, <1>11

\* A sequence of the members of a finite set, each once.
LEMMA Enumeration ==
  ASSUME NEW S, IsFiniteSet(S), NEW s \in Orders(S)
  PROVE  /\ s \in Seq(S) /\ Len(s) = Cardinality(S)
         /\ Range(s) = S
<1> DEFINE n == Cardinality(S)
<1>1. n \in Nat
  BY FS_CardinalityType
<1>2. s \in [1..n -> S]
  BY Zenon DEF Orders, Injection
<1>3. s \in Injection(1..n, S)
  BY Zenon DEF Orders
<1>4. s \in Surjection(1..n, S)
  <2>1. IsFiniteSet(1..n) /\ Cardinality(1..n) = n
    BY <1>1, FS_Interval
  <2> QED BY <1>3, <2>1, FS_Injection
<1>5. s \in Seq(S) /\ Len(s) = n
  BY <1>1, <1>2
<1> QED BY <1>2, <1>4, <1>5 DEF Surjection, Range

\* sortNodePodsBySafety keeps the running pods, each once.
LEMMA BySafetyType ==
  ASSUME NEW cluster, NEW running \in SUBSET Pod
  PROVE  BySafety(cluster, running) \in Orders(running)
BY Zenon, OrderExists DEF BySafety
-----------------------------------------------------------------------------
(* pickPodsToUpdate: one pod after the other.                              *)

\* What is chosen once pod p has been looked at.
Pick(cluster, running, scheduled, max, chosen, p) ==
  IF /\ Len(chosen) < max
     /\ IsSafeToUpdate(cluster, running, WithPodsDown(cluster, scheduled \cup Range(chosen)), p)
    THEN Append(chosen, p)
    ELSE chosen

\* The largest of some numbers up to n; without it they are up to n - 1.
LEMMA LargestUpTo ==
  ASSUME NEW n \in Nat, NEW S \in SUBSET (1..n), S # {}
  PROVE  /\ Max(S) \in S /\ \A x \in S : x <= Max(S)
         /\ S \ {Max(S)} \in SUBSET (1..(n - 1))
<1> DEFINE I == {k \in 0..n : \A T \in SUBSET (1..k) : T # {} => \E x \in T : \A y \in T : x >= y}
<1>1. 0 \in I
  <2>1. \A T \in SUBSET (1..0) : T = {}
    OBVIOUS
  <2>2. 0 \in 0..n
    OBVIOUS
  <2> QED BY Zenon, <2>1, <2>2
<1>2. ASSUME NEW k \in 0..(n - 1), k \in I
      PROVE  k + 1 \in I
  <2> SUFFICES ASSUME NEW T \in SUBSET (1..(k + 1)), T # {}
               PROVE  \E x \in T : \A y \in T : x >= y
    OBVIOUS
  <2>1. CASE k + 1 \in T
    BY <2>1
  <2>2. CASE k + 1 \notin T
    <3>1. T \in SUBSET (1..k)
      BY <2>2
    <3> QED BY <1>2, <3>1
  <2> QED BY <2>1, <2>2
<1>3. n \in I
  <2> HIDE DEF I
  <2> QED BY <1>1, <1>2, BoundedInduction
<1>4. \E x \in S : \A y \in S : x >= y
  BY <1>3
<1>5. Max(S) \in S /\ \A y \in S : Max(S) >= y
  BY Zenon, <1>4 DEF Max
<1> DEFINE m == Max(S)
<1>6. m \in S /\ \A x \in S : x <= m
  BY <1>5
<1> HIDE DEF m
<1>7. S \ {m} \in SUBSET (1..(n - 1))
  BY <1>6
<1> QED BY <1>6, <1>7 DEF m

\* The fold runs through a sequence of choices.
LEMMA PickSteps ==
  ASSUME NEW cluster, NEW running \in SUBSET Pod, NEW scheduled, NEW max
  PROVE  LET order == BySafety(cluster, running)
         IN  \E chosen :
               /\ chosen[0] = <<>>
               /\ \A k \in 1..Len(order) :
                    chosen[k] = Pick(cluster, running, scheduled, max, chosen[k - 1], order[k])
               /\ PickPodsToUpdate(cluster, running, scheduled, max) = chosen[Len(order)]
<1> DEFINE order == BySafety(cluster, running)
           n == Len(order)
           Step(c, p) == Pick(cluster, running, scheduled, max, c, p)
           Rec(g, k) == [s \in SUBSET (1..k) |->
                           IF s = {} THEN <<>> ELSE Step(g[s \ {Max(s)}], order[Max(s)])]
           iter == CHOOSE g : g = Rec(g, n)
<1>1. order \in Seq(running) /\ n \in Nat /\ DOMAIN order = 1..n
  BY BySafetyType, Finite, Enumeration, LenProperties
<1>2. PickPodsToUpdate(cluster, running, scheduled, max) = iter[1..n]
  <2>1. DOMAIN BySafety(cluster, running) = 1..n
    BY <1>1
  <2> HIDE DEF n
  <2> QED BY Zenon, <2>1 DEF PickPodsToUpdate, MapThenFoldSet, Pick
<1> HIDE DEF order, n, Step
<1> DEFINE I == {k \in 0..n : \E g : g = Rec(g, k)}
<1>3. 0 \in I
  <2> DEFINE h == [s \in SUBSET (1..0) |-> <<>>]
  <2>1. \A s \in SUBSET (1..0) : s = {}
    OBVIOUS
  <2>2. h = Rec(h, 0)
    BY <2>1
  <2> QED BY <1>1, <2>2
<1>4. ASSUME NEW k \in 0..(n - 1), k \in I
      PROVE  k + 1 \in I
  <2>1. PICK g : g = Rec(g, k)
    BY Zenon, <1>4
  <2> DEFINE h == Rec(g, k + 1)
  <2>2. \A s \in SUBSET (1..(k + 1)) : s # {} => s \ {Max(s)} \in SUBSET (1..k)
    <3> SUFFICES ASSUME NEW s \in SUBSET (1..(k + 1)), s # {}
                 PROVE  s \ {Max(s)} \in SUBSET (1..k)
      OBVIOUS
    <3>1. k + 1 \in Nat /\ (k + 1) - 1 = k
      BY <1>1
    <3> QED BY Zenon, <3>1, LargestUpTo
  <2>3. \A s \in SUBSET (1..k) : h[s] = g[s]
    <3> SUFFICES ASSUME NEW s \in SUBSET (1..k) PROVE h[s] = g[s]
      BY Zenon
    <3>1. s \in SUBSET (1..(k + 1))
      OBVIOUS
    <3>2. h[s] = IF s = {} THEN <<>> ELSE Step(g[s \ {Max(s)}], order[Max(s)])
      BY <3>1
    <3>3. g[s] = IF s = {} THEN <<>> ELSE Step(g[s \ {Max(s)}], order[Max(s)])
      BY Zenon, <2>1
    <3> QED BY <3>2, <3>3
  <2>4. h = Rec(h, k + 1)
    <3>1. \A s \in SUBSET (1..(k + 1)) : s # {} => h[s \ {Max(s)}] = g[s \ {Max(s)}]
      BY Zenon, <2>2, <2>3
    <3> QED BY Zenon, <3>1
  <2>5. k + 1 \in 0..n
    BY <1>1
  <2> HIDE DEF h, Rec
  <2> QED BY <2>4, <2>5
<1>5. n \in I
  <2> HIDE DEF I
  <2> QED BY <1>1, <1>3, <1>4, BoundedInduction
<1>6. iter = Rec(iter, n)
  BY Zenon, <1>5
<1> HIDE DEF iter
<1> DEFINE chosen == [k \in 0..n |-> iter[1..k]]
<1>7. chosen[0] = <<>>
  <2>1. 1..0 = {} /\ {} \in SUBSET (1..n)
    OBVIOUS
  <2>2. iter[{}] = <<>>
    BY <1>6, <2>1
  <2> QED BY <1>1, <2>1, <2>2
<1>8. ASSUME NEW k \in 1..n
      PROVE  chosen[k] = Step(chosen[k - 1], order[k])
  <2>1. 1..k \in SUBSET (1..n) /\ 1..k # {}
    BY <1>1
  <2>2. Max(1..k) = k
    <3>1. Max(1..k) \in 1..k /\ \A x \in 1..k : x <= Max(1..k)
      BY Zenon, <1>1, <2>1, LargestUpTo
    <3> QED BY <1>1, <3>1
  <2>3. (1..k) \ {k} = 1..(k - 1)
    BY <1>1
  <2>4. iter[1..k] = Step(iter[(1..k) \ {Max(1..k)}], order[Max(1..k)])
    BY Zenon, <1>6, <2>1
  <2> QED BY <1>1, <2>2, <2>3, <2>4
<1>9. PickPodsToUpdate(cluster, running, scheduled, max) = chosen[n]
  BY <1>1, <1>2
<1> HIDE DEF chosen
<1> QED BY <1>7, <1>8, <1>9 DEF order, n, Step
-----------------------------------------------------------------------------
(* ResolveMaxPodsUnavailable, ResolveMaxShardReplicasUnavailable.          *)

\* A limit of a total that is not zero allows for at least one.
LEMMA ResolveType ==
  ASSUME NEW limit \in Limits, NEW total \in Nat
  PROVE  Resolve(limit, total) \in Nat /\ (total > 0 => Resolve(limit, total) > 0)
<1>1. limit.value \in Nat /\ limit.percent \in BOOLEAN
  BY DEF Limits
<1>2. limit.value * total \in Nat
  BY <1>1
<1>3. (limit.value * total) \div 100 \in Nat
  <2> DEFINE m == limit.value * total
  <2> HIDE DEF m
  <2>1. m \in Nat
    BY <1>2 DEF m
  <2>2. m \div 100 \in Nat
    BY <2>1
  <2> QED BY <2>2 DEF m
<1> DEFINE part == (limit.value * total) \div 100
<1> HIDE DEF part
<1>4. part \in Nat
  BY <1>3 DEF part
<1> QED BY <1>1, <1>4 DEF Resolve, part

\* The limits are numbers of pods and of replicas.
LEMMA PodLimitType == Resolve(MaxPodsUnavailable, NumPods) \in Nat
BY ResolveType, SelectionAssumption

LEMMA ShardLimitType ==
  ASSUME NEW shard
  PROVE  MaxShardReplicasDown(shard) \in Nat
<1>1. {r \in Replicas : ShardOf[r] = shard} \in SUBSET Replicas
  OBVIOUS
<1>2. Cardinality({r \in Replicas : ShardOf[r] = shard}) \in Nat
  BY <1>1, Finite, FS_CardinalityType
<1> QED BY <1>2, ResolveType, SelectionAssumption DEF MaxShardReplicasDown
-----------------------------------------------------------------------------
(* The pods that are picked stay within the limits.                        *)

\* The replicas of the shard that are not active once these pods are down.
Down(cluster, pods, shard) ==
  ShardReplicasNotActive(cluster, shard)
    \cup UNION {InState(cluster, p, shard, "active") : p \in pods}

\* Taking these pods down, besides those that are scheduled for deletion, leaves
\* every shard as it is, or with no more replicas out of service than
\* maxShardReplicasUnavailable, or with all those of one pod.
WithinShardLimit(cluster, scheduled, pods) ==
  \A shard \in Shards :
    LET down == Down(cluster, scheduled \cup pods, shard)
    IN  \/ down = Down(cluster, scheduled, shard)
        \/ Cardinality(down) <= MaxShardReplicasDown(shard)
        \/ \E p \in pods : down \subseteq ReplicasOn(cluster, p)

\* The overseer goes alone and when every pod is live.
OverseerAlone(cluster, running, pods) ==
  cluster.overseer \in pods => running = {cluster.overseer} /\ AllManagedPodsLive(cluster)

LEMMA DownType ==
  ASSUME NEW cluster, NEW pods, NEW p, NEW shard \in Shards
  PROVE  /\ IsFiniteSet(Down(cluster, pods, shard))
         /\ IsFiniteSet(InState(cluster, p, shard, "active"))
         /\ Cardinality(Down(cluster, pods, shard)) \in Nat
         /\ Cardinality(InState(cluster, p, shard, "active")) \in Nat
         /\ Down(cluster, pods \cup {p}, shard)
              = Down(cluster, pods, shard) \cup InState(cluster, p, shard, "active")
         /\ WithPodsDown(cluster, pods)[shard] = Cardinality(Down(cluster, pods, shard))
<1>1. \A q : InState(cluster, q, shard, "active") \in SUBSET Replicas
  BY DEF InState, ReplicasOn
<1>2. Down(cluster, pods, shard) \in SUBSET Replicas
  BY <1>1 DEF Down, ShardReplicasNotActive
<1>3. /\ IsFiniteSet(Down(cluster, pods, shard))
      /\ IsFiniteSet(InState(cluster, p, shard, "active"))
  BY <1>1, <1>2, Finite
<1>4. Down(cluster, pods \cup {p}, shard)
        = Down(cluster, pods, shard) \cup InState(cluster, p, shard, "active")
  BY DEF Down
<1>5. WithPodsDown(cluster, pods)[shard] = Cardinality(Down(cluster, pods, shard))
  BY DEF WithPodsDown, Down
<1> QED BY Zenon, <1>3, <1>4, <1>5, FS_CardinalityType

\* A pod that is safe to update may be added.
LEMMA SafePodKeepsLimit ==
  ASSUME NEW cluster, NEW running, NEW scheduled, NEW pods, NEW p,
         IsSafeToUpdate(cluster, running, WithPodsDown(cluster, scheduled \cup pods), p),
         WithinShardLimit(cluster, scheduled, pods)
  PROVE  WithinShardLimit(cluster, scheduled, pods \cup {p})
<1> SUFFICES ASSUME NEW shard \in Shards
             PROVE  LET down == Down(cluster, scheduled \cup (pods \cup {p}), shard)
                    IN  \/ down = Down(cluster, scheduled, shard)
                        \/ Cardinality(down) <= MaxShardReplicasDown(shard)
                        \/ \E q \in pods \cup {p} : down \subseteq ReplicasOn(cluster, q)
  BY Zenon DEF WithinShardLimit
<1> DEFINE old == Down(cluster, scheduled \cup pods, shard)
           new == InState(cluster, p, shard, "active")
           down == Down(cluster, scheduled \cup (pods \cup {p}), shard)
<1>1. /\ IsFiniteSet(old) /\ IsFiniteSet(new)
      /\ Cardinality(old) \in Nat /\ Cardinality(new) \in Nat
      /\ down = old \cup new
      /\ WithPodsDown(cluster, scheduled \cup pods)[shard] = Cardinality(old)
  <2> DEFINE all == scheduled \cup pods
  <2>1. scheduled \cup (pods \cup {p}) = all \cup {p}
    OBVIOUS
  <2> HIDE DEF all
  <2>2. /\ IsFiniteSet(Down(cluster, all, shard)) /\ IsFiniteSet(new)
        /\ Cardinality(Down(cluster, all, shard)) \in Nat /\ Cardinality(new) \in Nat
        /\ Down(cluster, all \cup {p}, shard) = Down(cluster, all, shard) \cup new
        /\ WithPodsDown(cluster, all)[shard] = Cardinality(Down(cluster, all, shard))
    BY Zenon, DownType
  <2> QED BY Zenon, <2>1, <2>2 DEF all
<1>2. new \subseteq ReplicasOn(cluster, p)
  BY DEF InState
<1>3. \/ old = Down(cluster, scheduled, shard)
      \/ Cardinality(old) <= MaxShardReplicasDown(shard)
      \/ \E q \in pods : old \subseteq ReplicasOn(cluster, q)
  BY DEF WithinShardLimit
<1>4. CASE new \subseteq old
  <2>1. down = old
    BY <1>1, <1>4
  <2> HIDE DEF old, new, down
  <2> QED BY Zenon, <1>3, <2>1 DEF old, down
<1>5. CASE ~(new \subseteq old)
  <2>1. InClusterState(cluster, p)
    BY <1>2, <1>5 DEF InClusterState
  <2>2. p \in cluster.live
    BY <1>5 DEF InState, Down, ShardReplicasNotActive, ReplicasOn
  <2>3. ShardSafe(cluster, WithPodsDown(cluster, scheduled \cup pods), p, shard)
    BY <2>1, <2>2 DEF IsSafeToUpdate
  <2>4. ~(\A r \in ReplicasOn(cluster, p) : ShardOf[r] = shard => cluster.state[r] = "down")
    BY <1>5 DEF InState
  <2>5. CASE Cardinality(old) = 0
    <3>1. old = {}
      BY <1>1, <2>5, FS_EmptySet
    <3> QED BY Zenon, <1>1, <1>2, <3>1
  <2>6. CASE Cardinality(old) + Cardinality(new) <= MaxShardReplicasDown(shard)
    <3> HIDE DEF old, new, down
    <3>1. IsFiniteSet(old \cap new)
      BY <1>1, FS_Intersection
    <3>2. Cardinality(old \cap new) \in Nat
      BY <3>1, FS_CardinalityType
    <3>3. Cardinality(down) = Cardinality(old) + Cardinality(new) - Cardinality(old \cap new)
      BY <1>1, FS_Union
    <3>4. MaxShardReplicasDown(shard) \in Nat
      BY ShardLimitType
    <3>5. Cardinality(down) <= MaxShardReplicasDown(shard)
      BY <1>1, <2>6, <3>2, <3>3, <3>4
    <3> QED BY <3>5 DEF down
  <2> HIDE DEF down
  <2> QED BY Zenon, <1>1, <2>3, <2>4, <2>5, <2>6 DEF ShardSafe
<1> QED BY Zenon, <1>4, <1>5

\* The elements of a sequence.
LEMMA ElementsOf ==
  ASSUME NEW S, NEW s \in Seq(S)
  PROVE  /\ Range(s) \subseteq S
         /\ IsFiniteSet(Range(s)) /\ Cardinality(Range(s)) <= Len(s)
         /\ \A x \in S : Range(Append(s, x)) = Range(s) \cup {x}
<1>1. s \in [1..Len(s) -> S] /\ Len(s) \in Nat /\ DOMAIN s = 1..Len(s)
  BY LenProperties
<1>2. Range(s) \subseteq S
  BY <1>1 DEF Range
<1>3. IsFiniteSet(Range(s)) /\ Cardinality(Range(s)) <= Len(s)
  <2>1. s \in Surjection(1..Len(s), Range(s))
    BY <1>1 DEF Surjection, Range
  <2> DEFINE n == Len(s)
  <2>2. n \in Nat
    BY <1>1
  <2> HIDE DEF n
  <2>3. IsFiniteSet(1..n) /\ Cardinality(1..n) = n
    BY <2>2, FS_Interval
  <2> QED BY <2>1, <2>3, FS_Surjection DEF n
<1>4. ASSUME NEW x \in S
      PROVE  Range(Append(s, x)) = Range(s) \cup {x}
  <2> DEFINE t == Append(s, x)
  <2>1. /\ DOMAIN t = 1..(Len(s) + 1)
        /\ \A i \in 1..Len(s) : t[i] = s[i]
        /\ t[Len(s) + 1] = x
    BY <1>1, AppendProperties, LenProperties
  <2> HIDE DEF t
  <2>2. Range(t) = Range(s) \cup {x}
    BY <1>1, <2>1 DEF Range
  <2> QED BY <2>2 DEF t
<1> QED BY <1>2, <1>3, <1>4

\* What is chosen at any time is within the limits.
PickInv(cluster, running, scheduled, max, chosen) ==
  /\ chosen \in Seq(running)
  /\ Len(chosen) <= max
  /\ WithinShardLimit(cluster, scheduled, Range(chosen))
  /\ OverseerAlone(cluster, running, Range(chosen))

LEMMA PickKeepsInv ==
  ASSUME NEW cluster, NEW running, NEW scheduled, NEW max \in Nat, NEW chosen, NEW p \in running,
         PickInv(cluster, running, scheduled, max, chosen)
  PROVE  PickInv(cluster, running, scheduled, max,
                 Pick(cluster, running, scheduled, max, chosen, p))
<1>1. CASE Pick(cluster, running, scheduled, max, chosen, p) = chosen
  BY <1>1
<1>2. CASE /\ Pick(cluster, running, scheduled, max, chosen, p) = Append(chosen, p)
           /\ Len(chosen) < max
           /\ IsSafeToUpdate(cluster, running,
                             WithPodsDown(cluster, scheduled \cup Range(chosen)), p)
  <2>1. chosen \in Seq(running) /\ Len(chosen) \in Nat
    BY LenProperties DEF PickInv
  <2>2. Append(chosen, p) \in Seq(running) /\ Len(Append(chosen, p)) <= max
    BY <1>2, <2>1, AppendProperties
  <2>3. Range(Append(chosen, p)) = Range(chosen) \cup {p}
    BY <2>1, ElementsOf
  <2>4. WithinShardLimit(cluster, scheduled, Range(chosen) \cup {p})
    BY <1>2, SafePodKeepsLimit DEF PickInv
  <2>5. OverseerAlone(cluster, running, Range(chosen) \cup {p})
    BY <1>2 DEF PickInv, OverseerAlone, IsSafeToUpdate, InClusterState
  <2> QED BY <1>2, <2>2, <2>3, <2>4, <2>5 DEF PickInv
<1> QED BY Zenon, <1>1, <1>2 DEF Pick

\* pickPodsToUpdate picks running pods, at most as many as it is allowed, that
\* may all be down at once: greedy as it is, and although it counts the replicas
\* of a shard pod by pod, it never takes a shard over its limit.  It does not
\* pick the overseer while other pods are to be updated.
THEOREM PickedPodsAreSafe ==
  ASSUME NEW cluster, NEW running \in SUBSET Pod, NEW scheduled, NEW max \in Nat
  PROVE  LET picked == PickPodsToUpdate(cluster, running, scheduled, max)
         IN  /\ picked \in Seq(running)
             /\ Len(picked) <= max
             /\ WithinShardLimit(cluster, scheduled, Range(picked))
             /\ OverseerAlone(cluster, running, Range(picked))
<1> DEFINE order == BySafety(cluster, running)
           n == Len(order)
<1>1. order \in Seq(running) /\ n \in Nat /\ \A k \in 1..n : order[k] \in running
  BY BySafetyType, Finite, Enumeration, LenProperties, ElementOfSeq
<1>2. PICK chosen :
        /\ chosen[0] = <<>>
        /\ \A k \in 1..n :
             chosen[k] = Pick(cluster, running, scheduled, max, chosen[k - 1], order[k])
        /\ PickPodsToUpdate(cluster, running, scheduled, max) = chosen[n]
  BY PickSteps
<1> HIDE DEF order, n
<1> DEFINE I == {k \in 0..n : PickInv(cluster, running, scheduled, max, chosen[k])}
<1>3. 0 \in I
  <2>1. <<>> \in Seq(running) /\ Len(<<>>) = 0 /\ Range(<<>>) = {}
    BY EmptySeq DEF Range
  <2>2. scheduled \cup {} = scheduled
    OBVIOUS
  <2>3. WithinShardLimit(cluster, scheduled, {}) /\ OverseerAlone(cluster, running, {})
    BY <2>2 DEF WithinShardLimit, OverseerAlone
  <2>4. PickInv(cluster, running, scheduled, max, <<>>)
    BY <2>1, <2>3 DEF PickInv
  <2> QED BY <1>1, <1>2, <2>4
<1>4. ASSUME NEW k \in 0..(n - 1), k \in I
      PROVE  k + 1 \in I
  <2>1. k + 1 \in 1..n /\ k + 1 \in 0..n /\ (k + 1) - 1 = k
    BY <1>1
  <2>2. PickInv(cluster, running, scheduled, max, chosen[k])
    BY <1>4
  <2>3. chosen[k + 1] = Pick(cluster, running, scheduled, max, chosen[k], order[k + 1])
    BY <1>2, <2>1
  <2>4. order[k + 1] \in running
    BY <1>1, <2>1
  <2>5. PickInv(cluster, running, scheduled, max, chosen[k + 1])
    BY <2>2, <2>3, <2>4, PickKeepsInv
  <2> QED BY <2>1, <2>5
<1>5. n \in I
  <2> HIDE DEF I
  <2>1. n \in Nat
    BY <1>1
  <2>2. \A k \in 0..(n - 1) : k \in I => k + 1 \in I
    BY <1>4
  <2>3. 0..n \subseteq I
    BY <1>3, <2>1, <2>2, BoundedInduction
  <2> QED BY <2>1, <2>3
<1> QED BY <1>2, <1>5 DEF PickInv

\* determinePodsSafeToUpdate: the pods it selects, together with those that are
\* unavailable already, are no more than maxPodsUnavailable, and no shard is
\* taken over its limit.
THEOREM SelectedPodsAreSafe ==
  ASSUME NEW cluster, NEW running \in SUBSET Pod, NEW scheduled \in SUBSET Pod,
         NEW notStarted \in SUBSET Pod, NEW available \in Nat
  PROVE  LET selected == DeterminePodsSafeToUpdate(cluster, running, scheduled, notStarted, available)
         IN  /\ selected.pods \in Seq(running)
             /\ selected.retry \in BOOLEAN
             /\ \/ selected.pods = <<>>
                \/ (NumPods - available - Cardinality(running)) + Len(selected.pods)
                     <= Resolve(MaxPodsUnavailable, NumPods)
             /\ WithinShardLimit(cluster, scheduled, Range(selected.pods))
             /\ OverseerAlone(cluster, running, Range(selected.pods))
<1> DEFINE max == CalculateMaxPodsToUpdate(running, scheduled \cup notStarted, available)
           pods == IF max <= 0 THEN <<>> ELSE PickPodsToUpdate(cluster, running, scheduled, max)
           unavailable == NumPods - available - Cardinality(running)
<1>1. /\ Cardinality(running) \in Nat /\ Cardinality(scheduled \cup notStarted) \in Nat
      /\ Resolve(MaxPodsUnavailable, NumPods) \in Nat /\ NumPods \in Nat
  BY Finite, FS_CardinalityType, PodLimitType, SelectionAssumption
<1>2. max = Resolve(MaxPodsUnavailable, NumPods) - unavailable /\ max \in Int /\ unavailable \in Int
  BY <1>1 DEF CalculateMaxPodsToUpdate
<1> DEFINE selected == DeterminePodsSafeToUpdate(cluster, running, scheduled, notStarted, available)
<1>3. selected.pods = pods /\ selected.retry \in BOOLEAN
  <2> HIDE DEF max, pods
  <2>1. selected = [pods |-> pods, retry |-> max <= 0 \/ (pods = <<>> /\ running # {})]
    BY Zenon DEF DeterminePodsSafeToUpdate, max, pods
  <2> HIDE DEF selected
  <2> QED BY <2>1
<1> HIDE DEF max, unavailable, selected
<1>4. CASE max <= 0
  <2>1. <<>> \in Seq(running) /\ Range(<<>>) = {}
    BY EmptySeq DEF Range
  <2>2. scheduled \cup {} = scheduled
    OBVIOUS
  <2>3. WithinShardLimit(cluster, scheduled, {}) /\ OverseerAlone(cluster, running, {})
    BY <2>2 DEF WithinShardLimit, OverseerAlone
  <2>4. pods = <<>>
    BY <1>4
  <2> HIDE DEF pods
  <2> QED BY <1>3, <2>1, <2>3, <2>4 DEF selected
<1>5. CASE ~(max <= 0)
  <2>1. max \in Nat /\ pods = PickPodsToUpdate(cluster, running, scheduled, max)
    BY <1>2, <1>5
  <2> HIDE DEF pods
  <2>2. /\ pods \in Seq(running)
        /\ Len(pods) <= max
        /\ WithinShardLimit(cluster, scheduled, Range(pods))
        /\ OverseerAlone(cluster, running, Range(pods))
    BY <2>1, PickedPodsAreSafe
  <2>3. unavailable + Len(pods) <= Resolve(MaxPodsUnavailable, NumPods)
    BY <1>1, <1>2, <2>2, LenProperties
  <2> QED BY <1>3, <2>2, <2>3 DEF unavailable, selected
<1> QED BY <1>4, <1>5

-----------------------------------------------------------------------------
(* What a reconcile remembers.                                             *)

\* What a reconcile remembers.
Views ==
  [listed : SUBSET Pod, scheduled : SUBSET Pod, notStarted : SUBSET Pod, running : SUBSET Pod,
   available : Nat, hasReady : BOOLEAN, todo : Seq(Pod), occupied : SUBSET Pod,
   inProgress : BOOLEAN, failed : BOOLEAN, retry : BOOLEAN]

\* The inductive invariant of the types.
IInv == TypeOK /\ view \in Views

LEMMA NoViewType == NoView \in Views
<1>1. <<>> \in Seq(Pod)
  BY EmptySeq
<1> QED BY <1>1 DEF NoView, Views

LEMMA ReadViewType == ReadView \in Views
<1> DEFINE available == Cardinality({p \in Ready : pod[p].revision = revision})
<1>1. available \in Nat
  <2>1. {p \in Ready : pod[p].revision = revision} \in SUBSET Pod
    BY DEF Ready
  <2> QED BY <2>1, Finite, FS_CardinalityType
<1> HIDE DEF available
<1>2. /\ OutOfDate \in SUBSET Pod /\ ScheduledForDeletion \in SUBSET Pod
      /\ NotStarted \in SUBSET Pod /\ Running \in SUBSET Pod
      /\ {p \in Pod : Exists(p)} \in SUBSET Pod
  BY DEF OutOfDate, ScheduledForDeletion, NotStarted, Running
<1>3. ReadView = [NoView EXCEPT !.listed = {p \in Pod : Exists(p)},
                                !.scheduled = ScheduledForDeletion, !.notStarted = NotStarted,
                                !.running = Running, !.available = available,
                                !.hasReady = Ready # {}]
  BY Zenon DEF ReadView, available
<1> QED BY Zenon, <1>1, <1>2, <1>3, NoViewType DEF Views

\* What is known of the pods to work on.
LEMMA ViewToUpdateType ==
  ASSUME view \in Views, NEW todo \in Seq(Pod)
  PROVE  /\ ViewToUpdate(todo) \in Views
         /\ ViewToUpdate(todo).todo = todo
         /\ ViewToUpdate(todo).scheduled = view.scheduled
         /\ ViewToUpdate(todo).notStarted = view.notStarted
         /\ ViewToUpdate(todo).listed \subseteq view.listed
         /\ ViewToUpdate(todo).occupied = {} /\ ViewToUpdate(todo).running = {}
<1>1. NoView.occupied = {} /\ NoView.running = {}
  BY Zenon DEF NoView
<1> QED BY Zenon, <1>1, NoViewType DEF ViewToUpdate, Views

\* One pod less is left to work on.
LEMMA PodHandledType ==
  ASSUME view \in Views, NEW p \in Pod, Handling(p),
         NEW inProgress \in BOOLEAN, NEW failed \in BOOLEAN, NEW retry \in BOOLEAN,
         PodHandled(p, inProgress, failed, retry)
  PROVE  /\ view' \in Views
         /\ view'.todo = Tail(view.todo)
         /\ p \in Range(view.todo) /\ Range(view'.todo) \subseteq Range(view.todo)
         /\ view'.scheduled = view.scheduled /\ view'.notStarted = view.notStarted
         /\ view'.listed = view.listed /\ view'.occupied = view.occupied
         /\ view'.running = view.running
<1>1. view.todo \in Seq(Pod) /\ view.todo # <<>> /\ p = Head(view.todo)
  BY DEF Views, Handling
<1>2. Tail(view.todo) \in Seq(Pod)
  BY <1>1, HeadTailProperties
<1>3. p \in Range(view.todo) /\ Range(Tail(view.todo)) \subseteq Range(view.todo)
  BY <1>1 DEF Range
<1>4. view' = [view EXCEPT !.todo = Tail(view.todo),
                           !.inProgress = view.inProgress \/ inProgress,
                           !.failed = view.failed \/ failed, !.retry = view.retry \/ retry]
  BY Zenon DEF PodHandled
<1> DEFINE rest == Tail(view.todo)
<1> HIDE DEF rest
<1>5. /\ view' \in Views /\ view'.todo = rest
      /\ view'.scheduled = view.scheduled /\ view'.notStarted = view.notStarted
      /\ view'.listed = view.listed /\ view'.occupied = view.occupied
      /\ view'.running = view.running
  BY Zenon, <1>2, <1>4 DEF Views, rest
<1> QED BY <1>3, <1>5 DEF rest

-----------------------------------------------------------------------------
(* The steps, by what they do to the pods.                                 *)

\* The reconcile works on pod p.
HandlesPod(p) ==
  \/ CannotStopPod(p) \/ DeletePersistentPod(p) \/ EvictOnlyPod(p) \/ EvictionUnknown(p)
  \/ StartMove(p) \/ AwaitMove(p) \/ DeleteEmptyPod(p) \/ EndMove(p)

\* The pod is out of traffic, and is deleted or not.
StopsPod(p) ==
  /\ Stoppable(p)
  /\ \/ pod' = Stopped(p)
     \/ p \in view.listed /\ pod' = [Stopped(p) EXCEPT ![p].terminating = TRUE]

\* With ephemeral storage a pod is deleted only if it was found empty and Solr is
\* not moving its replicas, and Solr is asked to move them if it was not.
EvictsPod(p) ==
  /\ ephemeral => \/ UNCHANGED pod \/ pod' = Stopped(p)
                  \/ p \notin view.occupied /\ (OnlyPod(p) \/ task[p] # "running")
  /\ \/ UNCHANGED <<task, moving>>
     \/ /\ ephemeral /\ ~OnlyPod(p)
        /\ \/ SubmitMove(p) /\ p \in view.occupied /\ pod' = Stopped(p)
           \/ ForgetMove(p) /\ task[p] # "running"

\* What such a step does.
HandlesPodStep(p) ==
  /\ Handling(p)
  /\ \E inProgress, failed, retry \in BOOLEAN : PodHandled(p, inProgress, failed, retry)
  /\ UNCHANGED pod \/ StopsPod(p)
  /\ UNCHANGED <<task, moving>> \/ SubmitMove(p) \/ ForgetMove(p)
  /\ EvictsPod(p)
  /\ wake' = wake \/ wake' = (wake \/ (p \in Ready /\ p \notin view.scheduled))
  /\ past' = past \/ past' = past \cup {"misdirected"}
  /\ faults' = faults \/ Fault
  /\ UNCHANGED <<fixed, revision, home, state, leader, overseer, lockVars, pc>>

LEMMA StopPodStep ==
  ASSUME NEW p, StopPod(p)
  PROVE  /\ wake' = wake \/ wake' = (wake \/ (p \in Ready /\ p \notin view.scheduled))
         /\ past' = past \/ past' = past \cup {"misdirected"}
<1>1. past \cup {} = past
  OBVIOUS
<1> QED BY Zenon, <1>1 DEF StopPod

LEMMA DeletePodStep ==
  ASSUME NEW p, Stoppable(p), DeletePod(p, Stopped(p))
  PROVE  /\ \E inProgress, failed, retry \in BOOLEAN : PodHandled(p, inProgress, failed, retry)
         /\ UNCHANGED pod \/ StopsPod(p)
         /\ faults' = faults \/ Fault
BY Zenon DEF DeletePod, StopsPod

LEMMA EvictingStep ==
  ASSUME NEW p, Evicting(p)
  PROVE  /\ Handling(p) /\ ephemeral /\ Stoppable(p) /\ StopPod(p)
         /\ UNCHANGED <<fixed, revision, home, state, leader, overseer, lockVars, pc>>
BY Zenon DEF Evicting

LEMMA EvictingPods ==
  ASSUME NEW p, HandlesPod(p)
  PROVE  EvictsPod(p)
<1>1. CASE CannotStopPod(p)
  BY Zenon, <1>1 DEF CannotStopPod, EvictsPod, solrVars
<1>2. CASE DeletePersistentPod(p)
  BY Zenon, <1>2 DEF DeletePersistentPod, EvictsPod, solrVars
<1>3. CASE EvictOnlyPod(p)
  BY Zenon, <1>3 DEF EvictOnlyPod, EvictsPod
<1>4. CASE EvictionUnknown(p)
  <2>1. ephemeral /\ ~OnlyPod(p) /\ pod' = Stopped(p)
    BY Zenon, <1>4, EvictingStep DEF EvictionUnknown, Moving
  <2>2. \/ UNCHANGED <<task, moving>>
        \/ p \in view.occupied /\ SubmitMove(p)
        \/ task[p] \in {"completed", "failed"} /\ ForgetMove(p)
    BY Zenon, <1>4 DEF EvictionUnknown
  <2>3. task[p] \in {"completed", "failed"} => task[p] # "running"
    OBVIOUS
  <2> QED BY Zenon, <2>1, <2>2, <2>3 DEF EvictsPod
<1>5. CASE StartMove(p) \/ AwaitMove(p)
  <2>1. ephemeral /\ ~OnlyPod(p) /\ pod' = Stopped(p)
    BY Zenon, <1>5, EvictingStep DEF StartMove, AwaitMove, Moving
  <2> QED BY Zenon, <1>5, <2>1 DEF StartMove, AwaitMove, EvictsPod
<1>6. CASE DeleteEmptyPod(p)
  <2>1. /\ p \notin view.occupied /\ task[p] = "notfound"
        /\ UNCHANGED <<task, moving>>
    BY Zenon, <1>6 DEF DeleteEmptyPod
  <2>2. task[p] # "running"
    BY <2>1
  <2> QED BY Zenon, <2>1, <2>2 DEF EvictsPod
<1>7. CASE EndMove(p)
  <2>1. /\ ephemeral /\ ~OnlyPod(p) /\ ForgetMove(p)
        /\ p \notin view.occupied \/ pod' = Stopped(p)
    BY Zenon, <1>7, EvictingStep DEF EndMove, Moving
  <2>2. task[p] # "running"
    BY <1>7 DEF EndMove
  <2> QED BY Zenon, <2>1, <2>2 DEF EvictsPod
<1> QED BY Zenon, <1>1, <1>2, <1>3, <1>4, <1>5, <1>6, <1>7 DEF HandlesPod

LEMMA HandlingSteps ==
  ASSUME NEW p, HandlesPod(p)
  PROVE  HandlesPodStep(p)
<1>0. EvictsPod(p)
  BY EvictingPods
<1>1. CASE CannotStopPod(p)
  BY Zenon, <1>0, <1>1 DEF CannotStopPod, HandlesPodStep, solrVars
<1>2. CASE DeletePersistentPod(p)
  BY Zenon, <1>0, <1>2, StopPodStep, DeletePodStep DEF DeletePersistentPod, HandlesPodStep, solrVars
<1>3. CASE EvictOnlyPod(p)
  <2>1. \/ DeletePod(p, Stopped(p))
        \/ pod' = Stopped(p) /\ PodHandled(p, FALSE, FALSE, TRUE) /\ UNCHANGED faults
    BY Zenon, <1>3 DEF EvictOnlyPod
  <2>2. Evicting(p) /\ UNCHANGED <<task, moving>>
    BY Zenon, <1>3 DEF EvictOnlyPod
  <2> QED BY Zenon, <1>0, <2>1, <2>2, EvictingStep, StopPodStep, DeletePodStep DEF HandlesPodStep, StopsPod
<1>4. CASE EvictionUnknown(p)
  <2>1. Evicting(p) /\ pod' = Stopped(p) /\ PodHandled(p, TRUE, TRUE, FALSE)
    BY Zenon, <1>4 DEF EvictionUnknown, Moving
  <2>2. /\ UNCHANGED <<task, moving>> \/ SubmitMove(p) \/ ForgetMove(p)
        /\ faults' = faults \/ Fault
    BY Zenon, <1>4 DEF EvictionUnknown
  <2> QED BY Zenon, <1>0, <2>1, <2>2, EvictingStep, StopPodStep DEF HandlesPodStep, StopsPod
<1>5. CASE StartMove(p) \/ AwaitMove(p)
  <2>1. /\ Evicting(p) /\ pod' = Stopped(p) /\ PodHandled(p, TRUE, FALSE, TRUE)
        /\ UNCHANGED faults
        /\ UNCHANGED <<task, moving>> \/ SubmitMove(p)
    BY Zenon, <1>5 DEF StartMove, AwaitMove, Moving
  <2> QED BY Zenon, <1>0, <2>1, EvictingStep, StopPodStep DEF HandlesPodStep, StopsPod
<1>6. CASE DeleteEmptyPod(p)
  <2>1. Evicting(p) /\ DeletePod(p, Stopped(p)) /\ UNCHANGED <<task, moving>>
    BY Zenon, <1>6 DEF DeleteEmptyPod, Moving
  <2> QED BY Zenon, <1>0, <2>1, EvictingStep, StopPodStep, DeletePodStep DEF HandlesPodStep
<1>7. CASE EndMove(p)
  <2>1. /\ Evicting(p) /\ ForgetMove(p)
        /\ \/ DeletePod(p, Stopped(p))
           \/ pod' = Stopped(p) /\ PodHandled(p, FALSE, FALSE, TRUE) /\ UNCHANGED faults
    BY Zenon, <1>7 DEF EndMove, Moving
  <2> QED BY Zenon, <1>0, <2>1, EvictingStep, StopPodStep, DeletePodStep DEF HandlesPodStep, StopsPod
<1> QED BY Zenon, <1>1, <1>2, <1>3, <1>4, <1>5, <1>6, <1>7 DEF HandlesPod

\* The steps of the reconcile that end it: it leaves the pods alone, or gives
\* pods that it had scheduled for deletion back to the traffic.
EndsReconcile ==
  /\ pc' = "idle" /\ view' = NoView /\ wake' \in BOOLEAN
  /\ faults' = faults \/ Fault
  /\ \/ UNCHANGED <<pod, past>>
     \/ /\ \E pods \in SUBSET Pod : pod' = WithTraffic(pods, "started")
        /\ past' = past \cup {"paused"}
  /\ UNCHANGED <<fixed, revision, solrVars>>

LEMMA PauseOrKeepLock ==
  ASSUME IInv, NEW requeue \in BOOLEAN, Pause \/ KeepLock(requeue),
         UNCHANGED <<fixed, revision, solrVars>>
  PROVE  EndsReconcile
<1>1. CASE Pause
  <2>1. view.scheduled \in SUBSET Pod /\ wake \in BOOLEAN
    BY DEF IInv, Views, TypeOK
  <2>2. \E pods \in SUBSET view.scheduled : pod' = WithTraffic(pods, "started")
    BY Zenon, <1>1 DEF Pause
  <2>3. /\ past' = past \cup {"paused"} /\ pc' = "idle" /\ view' = NoView
        /\ wake' = (wake \/ TRUE)
        /\ faults' = faults \/ Fault
    BY Zenon, <1>1 DEF Pause, Finish
  <2> QED BY Zenon, <2>1, <2>2, <2>3 DEF EndsReconcile
<1>2. CASE KeepLock(requeue)
  BY Zenon, <1>2 DEF KeepLock, Finish, EndsReconcile, IInv, TypeOK
<1> QED BY <1>1, <1>2

LEMMA EndingSteps ==
  ASSUME IInv,
         \/ DetermineClusterOp \/ UpdateCompletes \/ AwaitPods \/ ClusterStateUnknown
         \/ EndUpdate \/ BalanceReplicas \/ OperatorRestarts
  PROVE  EndsReconcile
<1>1. CASE DetermineClusterOp
  BY Zenon, <1>1 DEF DetermineClusterOp, Finish, EndsReconcile
<1>2. CASE UpdateCompletes
  BY Zenon, <1>2 DEF UpdateCompletes, Finish, EndsReconcile
<1>3. CASE AwaitPods
  BY Zenon, <1>3, PauseOrKeepLock DEF AwaitPods
<1>4. CASE ClusterStateUnknown
  BY Zenon, <1>4 DEF ClusterStateUnknown, Finish, EndsReconcile
<1>5. CASE EndUpdate
  BY Zenon, <1>5, PauseOrKeepLock DEF EndUpdate
<1>6. CASE BalanceReplicas
  BY Zenon, <1>6 DEF BalanceReplicas, Finish, EndsReconcile
<1>7. CASE OperatorRestarts
  BY Zenon, <1>7 DEF OperatorRestarts, EndsReconcile
<1> QED BY Zenon, <1>1, <1>2, <1>3, <1>4, <1>5, <1>6, <1>7

\* The pods to work on are those that have not started or are scheduled for
\* deletion, and perhaps some of the running ones.  With those there are no more
\* pods unavailable, and of no shard more replicas, than the limits allow.  Which
\* pods hold replicas is known, unless only pods that have not started are left.
SelectsPods ==
  /\ pc = "reconcile" /\ pc' = "update"
  /\ view' \in Views
  /\ view'.scheduled = view.scheduled /\ view'.notStarted = view.notStarted
  /\ view'.listed \subseteq view.listed /\ view'.running = {}
  /\ \E picked \in SUBSET Pod :
       /\ Range(view'.todo) \subseteq view.notStarted \cup view.scheduled \cup picked
       /\ \/ picked = {}
          \/ NumPods - view.available - Cardinality(view.running) + Cardinality(picked)
               <= Resolve(MaxPodsUnavailable, NumPods)
       /\ WithinShardLimit(Cluster, view.scheduled, picked)
  /\ \/ Range(view'.todo) \subseteq view.notStarted /\ view'.occupied = {}
     \/ view'.occupied = {p \in Pod : ReplicasOn(Cluster, p) # {}}
  /\ UNCHANGED <<fixed, revision, pod, solrVars, lockVars, wake, past, faults>>

LEMMA ConcatElements ==
  ASSUME NEW S, NEW s \in Seq(S), NEW t \in Seq(S)
  PROVE  s \o t \in Seq(S) /\ Range(s \o t) \subseteq Range(s) \cup Range(t)
<1>1. /\ s \o t \in Seq(S) /\ Len(s) \in Nat /\ Len(t) \in Nat
      /\ DOMAIN s = 1..Len(s) /\ DOMAIN t = 1..Len(t)
      /\ DOMAIN (s \o t) = 1..(Len(s) + Len(t))
      /\ \A i \in 1..(Len(s) + Len(t)) : (s \o t)[i] = IF i <= Len(s) THEN s[i] ELSE t[i - Len(s)]
  BY ConcatProperties, LenProperties
<1> DEFINE u == s \o t
<1> HIDE DEF u
<1>2. \A i \in DOMAIN u : u[i] \in Range(s) \cup Range(t)
  <2> SUFFICES ASSUME NEW i \in DOMAIN u PROVE u[i] \in Range(s) \cup Range(t)
    OBVIOUS
  <2>1. CASE i <= Len(s)
    BY <1>1, <2>1 DEF u, Range
  <2>2. CASE ~(i <= Len(s))
    <3>1. i - Len(s) \in 1..Len(t) /\ u[i] = t[i - Len(s)]
      BY <1>1, <2>2 DEF u
    <3> QED BY <1>1, <3>1 DEF Range
  <2> QED BY <2>1, <2>2
<1>3. Range(u) \subseteq Range(s) \cup Range(t)
  BY <1>2 DEF Range
<1> QED BY <1>1, <1>3 DEF u

LEMMA SelectNotStartedStep ==
  ASSUME IInv, SelectNotStarted
  PROVE  SelectsPods
<1>1. PICK todo \in Orders(view.notStarted) : view' = [ViewToUpdate(todo) EXCEPT !.retry = TRUE]
  BY Zenon DEF SelectNotStarted
<1>2. view \in Views /\ view.notStarted \in SUBSET Pod
  BY DEF IInv, Views
<1>3. todo \in Seq(view.notStarted) /\ Range(todo) = view.notStarted
  BY <1>2, Finite, Enumeration
<1>4. todo \in Seq(Pod)
  BY <1>2, <1>3, SeqMonotonic
<1> DEFINE v == ViewToUpdate(todo)
<1>5. /\ v \in Views /\ v.todo = todo /\ v.scheduled = view.scheduled
      /\ v.notStarted = view.notStarted /\ v.listed \subseteq view.listed
      /\ v.occupied = {} /\ v.running = {}
  BY <1>2, <1>4, ViewToUpdateType
<1> HIDE DEF v
<1>6. /\ view' \in Views /\ view'.todo = todo /\ view'.scheduled = view.scheduled
      /\ view'.notStarted = view.notStarted /\ view'.listed \subseteq view.listed
      /\ view'.occupied = {} /\ view'.running = {}
  BY Zenon, <1>1, <1>5 DEF Views, v
<1>7. /\ pc = "reconcile" /\ pc' = "update"
      /\ UNCHANGED <<fixed, revision, pod, solrVars, lockVars, wake, past, faults>>
  BY Zenon DEF SelectNotStarted, PodsToUpdate, Updating
<1>8. WithinShardLimit(Cluster, view.scheduled, {})
  <2>1. view.scheduled \cup {} = view.scheduled
    OBVIOUS
  <2> QED BY <2>1 DEF WithinShardLimit
<1>9. /\ {} \in SUBSET Pod /\ Range(view'.todo) \subseteq view.notStarted
      /\ Range(view'.todo) \subseteq view.notStarted \cup view.scheduled \cup {}
  BY <1>3, <1>6
<1> QED BY Zenon, <1>6, <1>7, <1>8, <1>9 DEF SelectsPods

LEMMA SelectPodsStep ==
  ASSUME IInv, SelectPods
  PROVE  SelectsPods
<1> DEFINE selected == DeterminePodsSafeToUpdate(Cluster, view.running, view.scheduled,
                                                 view.notStarted, view.available)
           occupied == {p \in Pod : ReplicasOn(Cluster, p) # {}}
<1>1. PICK first \in Orders(view.notStarted), then \in Orders(view.scheduled) :
        view' = [ViewToUpdate(first \o then \o selected.pods) EXCEPT
                   !.occupied = occupied, !.retry = selected.retry]
  BY Zenon DEF SelectPods
<1>2. /\ view \in Views /\ view.notStarted \in SUBSET Pod /\ view.scheduled \in SUBSET Pod
      /\ view.running \in SUBSET Pod /\ view.available \in Nat
  BY DEF IInv, Views
<1>3. /\ selected.pods \in Seq(view.running) /\ selected.retry \in BOOLEAN
      /\ \/ selected.pods = <<>>
         \/ (NumPods - view.available - Cardinality(view.running)) + Len(selected.pods)
              <= Resolve(MaxPodsUnavailable, NumPods)
      /\ WithinShardLimit(Cluster, view.scheduled, Range(selected.pods))
  BY <1>2, SelectedPodsAreSafe
<1>4. occupied \in SUBSET Pod
  OBVIOUS
<1> DEFINE pods == selected.pods
           retry == selected.retry
           todo == first \o then \o pods
<1> HIDE DEF selected, occupied
<1>5. /\ first \in Seq(view.notStarted) /\ Range(first) = view.notStarted
      /\ then \in Seq(view.scheduled) /\ Range(then) = view.scheduled
  BY <1>2, Finite, Enumeration
<1>6. first \in Seq(Pod) /\ then \in Seq(Pod) /\ pods \in Seq(Pod)
  BY <1>2, <1>3, <1>5, SeqMonotonic
<1>7. first \o then \in Seq(Pod) /\ Range(first \o then) \subseteq view.notStarted \cup view.scheduled
  BY <1>5, <1>6, ConcatElements
<1>8. todo \in Seq(Pod) /\ Range(todo) \subseteq view.notStarted \cup view.scheduled \cup Range(pods)
  BY Zenon, <1>6, <1>7, ConcatElements
<1>9. Range(pods) \in SUBSET Pod
  BY <1>6, ElementsOf
<1>10. \/ Range(pods) = {}
       \/ NumPods - view.available - Cardinality(view.running) + Cardinality(Range(pods))
            <= Resolve(MaxPodsUnavailable, NumPods)
  <2>1. CASE pods = <<>>
    BY <2>1 DEF Range
  <2>2. CASE (NumPods - view.available - Cardinality(view.running)) + Len(pods)
                <= Resolve(MaxPodsUnavailable, NumPods)
    <3>1. IsFiniteSet(Range(pods)) /\ Cardinality(Range(pods)) <= Len(pods) /\ Len(pods) \in Nat
      BY <1>6, ElementsOf, LenProperties
    <3>2. /\ Cardinality(view.running) \in Nat /\ Cardinality(Range(pods)) \in Nat
          /\ NumPods \in Nat /\ Resolve(MaxPodsUnavailable, NumPods) \in Nat
      BY <1>2, <3>1, Finite, FS_CardinalityType, PodLimitType, SelectionAssumption
    <3> HIDE DEF pods
    <3> QED BY <1>2, <2>2, <3>1, <3>2
  <2> QED BY <1>3, <2>1, <2>2
<1> HIDE DEF todo, pods
<1> DEFINE v == ViewToUpdate(todo)
<1>11. /\ v \in Views /\ v.todo = todo /\ v.scheduled = view.scheduled
       /\ v.notStarted = view.notStarted /\ v.listed \subseteq view.listed
       /\ v.running = {}
  BY <1>2, <1>8, ViewToUpdateType
<1>12. view' = [v EXCEPT !.occupied = occupied, !.retry = retry]
  BY Zenon, <1>1 DEF todo, pods
<1>13. retry \in BOOLEAN
  BY <1>3
<1> HIDE DEF v, retry
<1>14. /\ view' \in Views /\ view'.todo = todo /\ view'.scheduled = view.scheduled
       /\ view'.notStarted = view.notStarted /\ view'.listed \subseteq view.listed
       /\ view'.occupied = occupied /\ view'.running = {}
  BY Zenon, <1>4, <1>11, <1>12, <1>13 DEF Views
<1>15. /\ pc = "reconcile" /\ pc' = "update"
       /\ UNCHANGED <<fixed, revision, pod, solrVars, lockVars, wake, past, faults>>
  BY Zenon DEF SelectPods, PodsToUpdate, Updating
<1>16. WithinShardLimit(Cluster, view.scheduled, Range(pods))
  BY Zenon, <1>3 DEF pods
<1> QED BY Zenon, <1>8, <1>9, <1>10, <1>14, <1>15, <1>16 DEF SelectsPods, occupied
-----------------------------------------------------------------------------
(* The update uses the lock as ClusterOpLock says.                         *)

LEMMA PauseIsLockStep ==
  ASSUME IInv, NEW requeue, Pause \/ KeepLock(requeue)
  PROVE  Lock!Next \/ UNCHANGED Lock!vars
<1>1. view.failed \in BOOLEAN
  BY DEF IInv, Views
<1>2. Lock!EnqueueClusterOp(view.failed) \/ UNCHANGED lockVars
  BY Zenon DEF Pause, KeepLock
<1> QED BY Zenon, <1>1, <1>2 DEF lockVars, Lock!Next, Lock!vars

\* Every step is a step of the lock or leaves it alone.
LEMMA LockStep ==
  ASSUME IInv, [Next]_vars
  PROVE  [Lock!Next]_Lock!vars
<1>1. CASE DetermineClusterOp
  <2>1. \/ Lock!StartClusterOp(UpdateNeeded, Lock!NoOp, Lock!NoOp)
        \/ Lock!RetryNextQueuedClusterOp(UpdateNeeded, Lock!NoOp, Lock!NoOp)
        \/ UNCHANGED lockVars
    BY Zenon, <1>1 DEF DetermineClusterOp
  <2>2. /\ UpdateNeeded \in Lock!DeterminedUpdates
        /\ Lock!NoOp \in Lock!DeterminedExpansions /\ Lock!NoOp \in Lock!DeterminedScales
    BY Zenon DEF UpdateNeeded, Lock!DeterminedUpdates, Lock!DeterminedExpansions,
           Lock!DeterminedScales, Lock!Updates
  <2> QED BY Zenon, <2>1, <2>2 DEF lockVars, Lock!Next, Lock!vars
<1>2. CASE UpdateCompletes
  <2>1. PICK next \in {Lock!Balance(AfterRollingUpdate), Lock!NoOp} :
          Lock!CompleteClusterOp(next) \/ UNCHANGED lockVars
    BY Zenon, <1>2 DEF UpdateCompletes
  <2>2. next \in Lock!Balances \cup {Lock!NoOp}
    BY DEF Lock!Balances, Lock!BalanceReasons
  <2> QED BY Zenon, <2>1, <2>2 DEF lockVars, Lock!Next, Lock!vars
<1>3. CASE AwaitPods
  BY Zenon, <1>3, PauseIsLockStep DEF AwaitPods
<1>4. CASE EndUpdate
  BY Zenon, <1>4, PauseIsLockStep DEF EndUpdate
<1>5. CASE BalanceReplicas
  <2>1. Lock!CompleteClusterOp(Lock!NoOp)
    BY Zenon, <1>5 DEF BalanceReplicas
  <2>2. Lock!NoOp \in Lock!Balances \cup {Lock!NoOp}
    OBVIOUS
  <2> QED BY Zenon, <2>1, <2>2 DEF Lock!Next
<1>6. CASE TimePasses
  BY Zenon, <1>6 DEF TimePasses, Lock!Next
<1>7. CASE UNCHANGED lockVars
  BY Zenon, <1>7 DEF lockVars, Lock!vars
<1>8. ASSUME NEW p \in Pod, HandlesPod(p)
      PROVE  UNCHANGED lockVars
  BY Zenon, <1>8, HandlingSteps DEF HandlesPodStep
<1>9. ASSUME \/ Begin \/ SelectNotStarted \/ ClusterStateUnknown \/ SelectPods
             \/ OperatorRestarts \/ UserEdits
      PROVE  UNCHANGED lockVars
  BY Zenon, <1>9 DEF Begin, SelectNotStarted, ClusterStateUnknown, SelectPods, OperatorRestarts, UserEdits
<1>10. ASSUME NEW p \in Pod,
              \/ PodCreated(p) \/ SolrStarts(p) \/ PodReady(p)
              \/ PodDeleted(p) \/ PodLost(p) \/ TaskEnds(p)
       PROVE  UNCHANGED lockVars
  BY Zenon, <1>10 DEF PodCreated, SolrStarts, PodReady, PodDeleted, PodLost, PodGone, TaskEnds
<1>11. ASSUME NEW p, NEW r, NEW q, ReplicaMoves(p, r, q) \/ ReplicaRecovers(r) \/ LeaderElected(r)
       PROVE  UNCHANGED lockVars
  BY Zenon, <1>11 DEF ReplicaMoves, ReplicaRecovers, LeaderElected
<1>12. CASE UNCHANGED vars
  BY Zenon, <1>7, <1>12 DEF vars
<1> QED BY Zenon, <1>1, <1>2, <1>3, <1>4, <1>5, <1>6, <1>7, <1>8, <1>9, <1>10, <1>11, <1>12
        DEF Next, ReconcileStep, HandlesPod
-----------------------------------------------------------------------------
(* The types.                                                              *)

Traffics == {"unset", "started", "stopped"}
PodMaps == [Pod -> PodStates]

\* What a patch of the readiness condition does to a pod.
LEMMA TrafficFields ==
  ASSUME pod \in PodMaps, NEW pods, NEW value \in Traffics
  PROVE  /\ WithTraffic(pods, value) \in PodMaps
         /\ \A p \in Pod :
              /\ WithTraffic(pods, value)[p].phase = pod[p].phase
              /\ WithTraffic(pods, value)[p].revision = pod[p].revision
              /\ WithTraffic(pods, value)[p].terminating = pod[p].terminating
              /\ WithTraffic(pods, value)[p].traffic = IF p \in pods THEN value ELSE pod[p].traffic
<1> DEFINE w == WithTraffic(pods, value)
<1>1. w = [p \in Pod |-> IF p \in pods THEN [pod[p] EXCEPT !.traffic = value] ELSE pod[p]]
  BY Zenon DEF WithTraffic
<1> HIDE DEF w
<1>2. ASSUME NEW p \in Pod
      PROVE  /\ w[p] \in PodStates
             /\ w[p].phase = pod[p].phase /\ w[p].revision = pod[p].revision
             /\ w[p].terminating = pod[p].terminating
             /\ w[p].traffic = IF p \in pods THEN value ELSE pod[p].traffic
  <2>1. pod[p] \in PodStates
    BY DEF PodMaps
  <2>2. w[p] = IF p \in pods THEN [pod[p] EXCEPT !.traffic = value] ELSE pod[p]
    BY <1>1
  <2> QED BY <2>1, <2>2 DEF PodStates, Traffics
<1>3. w \in PodMaps
  BY <1>1, <1>2 DEF PodMaps
<1> QED BY <1>2, <1>3 DEF w

\* The pods once p is out of traffic.
LEMMA StoppedFields ==
  ASSUME pod \in PodMaps, NEW p \in Pod, NEW w, w = Stopped(p)
  PROVE  /\ w \in PodMaps
         /\ \A q \in Pod : w[q].phase = pod[q].phase /\ w[q].revision = pod[q].revision
         /\ \A q \in Pod \ {p} : w[q] = pod[q]
         /\ w[p].traffic = IF p \in view.scheduled THEN pod[p].traffic ELSE "stopped"
         /\ w[p].terminating = pod[p].terminating
<1>1. CASE p \in view.scheduled
  BY <1>1 DEF Stopped
<1>2. CASE p \notin view.scheduled
  <2> DEFINE u == WithTraffic({p}, "stopped")
  <2>1. w = u
    BY Zenon, <1>2 DEF Stopped
  <2>2. "stopped" \in Traffics
    BY DEF Traffics
  <2>3. /\ u \in PodMaps
        /\ \A q \in Pod : /\ u[q].phase = pod[q].phase /\ u[q].revision = pod[q].revision
                          /\ u[q].terminating = pod[q].terminating
                          /\ u[q].traffic = IF q \in {p} THEN "stopped" ELSE pod[q].traffic
    BY <2>2, TrafficFields
  <2>4. \A q \in Pod \ {p} : u[q] = pod[q]
    BY DEF WithTraffic
  <2> HIDE DEF u
  <2> QED BY <1>2, <2>1, <2>3, <2>4
<1> QED BY <1>1, <1>2

\* What taking a pod out of traffic, and perhaps deleting it, does.
LEMMA StopsPodFields ==
  ASSUME pod \in PodMaps, NEW p \in Pod, StopsPod(p)
  PROVE  /\ pod' \in PodMaps
         /\ \A q \in Pod : pod'[q].phase = pod[q].phase /\ pod'[q].revision = pod[q].revision
         /\ \A q \in Pod \ {p} : pod'[q] = pod[q]
         /\ pod'[p].traffic = IF p \in view.scheduled THEN pod[p].traffic ELSE "stopped"
         /\ pod'[p].terminating => pod[p].terminating \/ p \in view.listed
<1> DEFINE w == Stopped(p)
<1>1. /\ w \in PodMaps
      /\ \A q \in Pod : w[q].phase = pod[q].phase /\ w[q].revision = pod[q].revision
      /\ \A q \in Pod \ {p} : w[q] = pod[q]
      /\ w[p].traffic = IF p \in view.scheduled THEN pod[p].traffic ELSE "stopped"
      /\ w[p].terminating = pod[p].terminating
  BY StoppedFields
<1> HIDE DEF w
<1>2. CASE pod' = w
  BY <1>1, <1>2
<1>3. CASE p \in view.listed /\ pod' = [w EXCEPT ![p].terminating = TRUE]
  <2>1. w[p] \in PodStates
    BY <1>1 DEF PodMaps
  <2>2. pod'[p] = [w[p] EXCEPT !.terminating = TRUE]
    BY <1>1, <1>3 DEF PodMaps
  <2>3. /\ pod'[p] \in PodStates /\ pod'[p].phase = w[p].phase /\ pod'[p].revision = w[p].revision
        /\ pod'[p].traffic = w[p].traffic
    BY Zenon, <2>1, <2>2 DEF PodStates
  <2>4. \A q \in Pod \ {p} : pod'[q] = w[q]
    BY <1>1, <1>3 DEF PodMaps
  <2>5. pod' \in PodMaps
    BY <1>1, <1>3, <2>3 DEF PodMaps
  <2> QED BY <1>1, <1>3, <2>3, <2>4, <2>5
<1> QED BY Zenon, <1>2, <1>3 DEF StopsPod, w

LEMMA FaultType ==
  ASSUME TypeOK, faults' = faults \/ Fault
  PROVE  faults' \in 0..MaxFaults
BY UpdateAssumption DEF TypeOK, Fault

\* Pods that are new or gone.
LEMMA NewPodType ==
  ASSUME NEW r \in 0..MaxRevision
  PROVE  NewPod(r) \in PodStates /\ AbsentPod \in PodStates
BY UpdateAssumption DEF NewPod, AbsentPod, PodStates, Phases

\* TypeOK, by what a step may do to the parts of the state.
SolrTypes ==
  /\ home \in [Replicas -> Pod] /\ state \in [Replicas -> ReplicaStates]
  /\ leader \in [Shards -> Replicas \cup {Nobody}] /\ overseer \in Pod \cup {Nobody}
  /\ task \in [Pod -> TaskStates] /\ moving \in [Pod -> SUBSET Replicas]

OtherTypes ==
  /\ ephemeral \in BOOLEAN /\ wanted \in Nat
  /\ wake \in BOOLEAN /\ pc \in {"idle", "reconcile", "update"}
  /\ past \subseteq {"paused", "lost", "misdirected"} /\ faults \in 0..MaxFaults

\* A pod that is out of date is listed once.
Apart ==
  /\ view.scheduled \cap view.notStarted = {}
  /\ view.running \cap (view.scheduled \cup view.notStarted) = {}

LEMMA TypeParts ==
  (TypeOK /\ view \in Views)
    <=> (/\ revision \in 0..MaxRevision /\ pod \in PodMaps /\ SolrTypes /\ OtherTypes
         /\ view \in Views /\ Apart)
<1>1. view \in Views => view.todo \in Seq(Pod)
  BY DEF Views
<1> QED BY Zenon, <1>1 DEF TypeOK, PodMaps, SolrTypes, OtherTypes, Apart

\* Changes of Solr's state.
LEMMA HandledSolrTypes ==
  ASSUME SolrTypes, NEW p \in Pod, UNCHANGED <<home, state, leader, overseer>>,
         UNCHANGED <<task, moving>> \/ SubmitMove(p) \/ ForgetMove(p)
  PROVE  SolrTypes'
<1>1. CASE SubmitMove(p)
  <2>1. ReplicasOn(Cluster, p) \in SUBSET Replicas
    BY DEF ReplicasOn
  <2>2. task' = [task EXCEPT ![p] = "running"] /\ moving' = [moving EXCEPT ![p] = ReplicasOn(Cluster, p)]
    BY <1>1 DEF SubmitMove
  <2> QED BY <2>1, <2>2 DEF SolrTypes, TaskStates
<1>2. CASE ForgetMove(p)
  BY <1>2 DEF ForgetMove, SolrTypes, TaskStates
<1>3. CASE UNCHANGED <<task, moving>>
  BY <1>3 DEF SolrTypes
<1> QED BY <1>1, <1>2, <1>3

LEMMA LeadersType ==
  ASSUME SolrTypes, NEW replicas
  PROVE  LeadersWithout(replicas) \in [Shards -> Replicas \cup {Nobody}]
BY DEF SolrTypes, LeadersWithout

LEMMA SolrTypesKept ==
  ASSUME SolrTypes, pod \in PodMaps, NEW p, NEW q, NEW r,
         \/ p \in Pod /\ (SolrStarts(p) \/ PodGone(p) \/ TaskEnds(p))
         \/ r \in Replicas /\ (ReplicaRecovers(r) \/ LeaderElected(r))
         \/ p \in Pod /\ q \in Pod /\ r \in Replicas /\ ReplicaMoves(p, r, q)
  PROVE  SolrTypes'
<1>1. CASE p \in Pod /\ SolrStarts(p)
  <2>1. /\ UNCHANGED <<home, leader, task, moving>>
        /\ state' = [s \in Replicas |-> IF home[s] = p /\ ~ephemeral THEN "recovering" ELSE state[s]]
        /\ overseer' = IF overseer = Nobody THEN p ELSE overseer
    BY Zenon, <1>1 DEF SolrStarts
  <2> QED BY <1>1, <2>1 DEF SolrTypes, ReplicaStates
<1>2. CASE r \in Replicas /\ ReplicaRecovers(r)
  <2>1. UNCHANGED <<home, leader, overseer, task, moving>> /\ state' = [state EXCEPT ![r] = "active"]
    BY Zenon, <1>2 DEF ReplicaRecovers
  <2> QED BY <1>2, <2>1 DEF SolrTypes, ReplicaStates
<1>3. CASE r \in Replicas /\ LeaderElected(r)
  <2>1. UNCHANGED <<home, state, overseer, task, moving>> /\ leader' = [leader EXCEPT ![ShardOf[r]] = r]
    BY Zenon, <1>3 DEF LeaderElected
  <2> QED BY Zenon, <1>3, <2>1 DEF SolrTypes
<1>4. CASE p \in Pod /\ PodGone(p)
  <2>1. /\ UNCHANGED <<home, task, moving>>
        /\ state' = [s \in Replicas |-> IF home[s] = p THEN "down" ELSE state[s]]
        /\ leader' = LeadersWithout(ReplicasOn(Cluster, p))
        /\ overseer' \in IF overseer # p THEN {overseer}
                         ELSE IF Live \ {p} = {} THEN {Nobody} ELSE Live \ {p}
    BY Zenon, <1>4 DEF PodGone
  <2>2. overseer' \in Pod \cup {Nobody}
    BY <1>4, <2>1 DEF SolrTypes, Live
  <2>3. leader' \in [Shards -> Replicas \cup {Nobody}]
    BY <2>1, LeadersType
  <2> QED BY <1>4, <2>1, <2>2, <2>3 DEF SolrTypes, ReplicaStates
<1>5. CASE p \in Pod /\ q \in Pod /\ r \in Replicas /\ ReplicaMoves(p, r, q)
  <2>1. /\ UNCHANGED <<overseer, task>>
        /\ home' = [home EXCEPT ![r] = q] /\ state' = [state EXCEPT ![r] = "active"]
        /\ leader' = LeadersWithout({r})
        /\ moving' = [moving EXCEPT ![p] = moving[p] \ {r}]
    BY Zenon, <1>5 DEF ReplicaMoves
  <2>2. leader' \in [Shards -> Replicas \cup {Nobody}]
    BY <2>1, LeadersType
  <2> QED BY Zenon, <1>5, <2>1, <2>2 DEF SolrTypes, ReplicaStates
<1>6. CASE p \in Pod /\ TaskEnds(p)
  <2>1. /\ UNCHANGED <<home, state, leader, overseer>>
        /\ \E t \in {"completed", "failed"} : task' = [task EXCEPT ![p] = t]
        /\ moving' = [moving EXCEPT ![p] = {}]
    BY Zenon, <1>6 DEF TaskEnds
  <2> QED BY <1>6, <2>1 DEF SolrTypes, TaskStates
<1> QED BY Zenon, <1>1, <1>2, <1>3, <1>4, <1>5, <1>6

\* What is left of the state.
LEMMA PodTypesKept ==
  ASSUME TypeOK, NEW p \in Pod, PodCreated(p) \/ SolrStarts(p) \/ PodReady(p) \/ PodGone(p)
  PROVE  pod' \in PodMaps
<1>1. pod \in PodMaps /\ revision \in 0..MaxRevision
  BY DEF TypeOK, PodMaps
<1>2. CASE pod' = [pod EXCEPT ![p] = NewPod(revision)] \/ pod' = [pod EXCEPT ![p] = AbsentPod]
  BY <1>1, <1>2, NewPodType DEF PodMaps
<1>3. ASSUME NEW phase \in Phases, pod' = [pod EXCEPT ![p].phase = phase]
      PROVE  pod' \in PodMaps
  <2>1. pod[p] \in PodStates
    BY <1>1 DEF PodMaps
  <2>2. [pod[p] EXCEPT !.phase = phase] \in PodStates
    BY <2>1 DEF PodStates
  <2> QED BY <1>1, <1>3, <2>2 DEF PodMaps
<1>4. "live" \in Phases /\ "ready" \in Phases
  BY DEF Phases
<1> QED BY Zenon, <1>2, <1>3, <1>4 DEF PodCreated, SolrStarts, PodReady, PodGone

\* OutOfDatePodSegmentation, and what is kept of its lists.
LEMMA ReadSegments ==
  /\ NoView.scheduled = {} /\ NoView.notStarted = {} /\ NoView.running = {}
  /\ ReadView.scheduled \cap ReadView.notStarted = {}
  /\ ReadView.running \cap (ReadView.scheduled \cup ReadView.notStarted) = {}
<1>1. /\ NoView.scheduled = {} /\ NoView.notStarted = {} /\ NoView.running = {}
      /\ ReadView.scheduled = ScheduledForDeletion /\ ReadView.notStarted = NotStarted
      /\ ReadView.running = Running
  BY Zenon DEF NoView, ReadView
<1>2. /\ ScheduledForDeletion \cap NotStarted = {}
      /\ Running \cap (ScheduledForDeletion \cup NotStarted) = {}
  BY Zenon DEF NotStarted, Running
<1> QED BY Zenon, <1>1, <1>2

LEMMA SegmentsKept ==
  ASSUME IInv, [Next]_vars
  PROVE  Apart'
<1>0. view \in Views /\ Apart
  BY TypeParts DEF IInv
<1>1. ASSUME /\ view'.scheduled = view.scheduled /\ view'.notStarted = view.notStarted
             /\ view'.running = view.running \/ view'.running = {}
      PROVE  Apart'
  BY <1>0, <1>1 DEF Apart
<1>2. ASSUME view' = NoView \/ view' = ReadView \/ view' = view
      PROVE  Apart'
  BY <1>0, <1>2, ReadSegments DEF Apart
<1>3. CASE Begin
  BY Zenon, <1>2, <1>3 DEF Begin
<1>4. CASE EndsReconcile
  BY Zenon, <1>2, <1>4 DEF EndsReconcile
<1>5. CASE SelectsPods
  BY Zenon, <1>1, <1>5 DEF SelectsPods
<1>6. ASSUME NEW p \in Pod, HandlesPodStep(p)
      PROVE  Apart'
  BY Zenon, <1>0, <1>1, <1>6, PodHandledType DEF HandlesPodStep
<1>7. ASSUME NEW p \in Pod, PodDeleted(p) \/ PodLost(p)
      PROVE  Apart'
  <2>1. view' = [view EXCEPT !.listed = view.listed \ {p}]
    BY Zenon, <1>7 DEF PodDeleted, PodLost, PodGone
  <2> QED BY Zenon, <1>0, <1>1, <2>1 DEF Views
<1>8. ASSUME NEW p, NEW r, NEW q,
             \/ r \in Replicas /\ (ReplicaRecovers(r) \/ LeaderElected(r))
             \/ p \in Pod /\ q \in Pod /\ r \in Replicas /\ ReplicaMoves(p, r, q)
             \/ p \in Pod /\ (TaskEnds(p) \/ PodCreated(p) \/ PodReady(p) \/ SolrStarts(p))
             \/ UserEdits \/ TimePasses \/ UNCHANGED vars
      PROVE  Apart'
  <2>1. view' = view
    BY Zenon, <1>8 DEF ReplicaRecovers, LeaderElected, ReplicaMoves, TaskEnds, PodCreated,
           PodReady, SolrStarts, UserEdits, TimePasses, vars
  <2> QED BY <1>2, <2>1
<1> QED BY Zenon, <1>3, <1>4, <1>5, <1>6, <1>7, <1>8, HandlingSteps,
           EndingSteps, SelectNotStartedStep, SelectPodsStep
        DEF Next, ReconcileStep, HandlesPod

LEMMA TypesKept ==
  ASSUME IInv, [Next]_vars
  PROVE  TypeOK' /\ view' \in Views
<1>0. /\ TypeOK /\ view \in Views /\ revision \in 0..MaxRevision /\ pod \in PodMaps
      /\ SolrTypes /\ OtherTypes /\ MaxRevision \in Nat
  BY TypeParts, UpdateAssumption DEF IInv
<1> SUFFICES /\ revision' \in 0..MaxRevision /\ pod' \in PodMaps
             /\ SolrTypes' /\ OtherTypes' /\ view' \in Views
  <2>1. (TypeOK' /\ view' \in Views)
          <=> (/\ revision' \in 0..MaxRevision /\ pod' \in PodMaps
               /\ SolrTypes' /\ OtherTypes' /\ view' \in Views /\ Apart')
    <3>1. view' \in Views => view'.todo \in Seq(Pod)
      BY DEF Views
    <3> QED BY Zenon, <3>1 DEF TypeOK, PodMaps, SolrTypes, OtherTypes, Apart
  <2> QED BY Zenon, <2>1, SegmentsKept
<1>1. ASSUME solrVars' = solrVars
      PROVE  SolrTypes'
  BY <1>0, <1>1 DEF solrVars, SolrTypes
<1>2. CASE Begin
  <2>1. \E pods : pod' = WithTraffic(pods, "started")
    BY Zenon, <1>2 DEF Begin
  <2>2. pod' \in PodMaps
    BY <1>0, <2>1, TrafficFields DEF Traffics
  <2>3. /\ UNCHANGED <<fixed, revision, solrVars, past>>
        /\ faults' = faults \/ Fault
        /\ wake' = wake \/ wake' \in BOOLEAN
        /\ pc' \in {"reconcile", pc}
        /\ view' = ReadView \/ view' = view
    BY Zenon, <1>2 DEF Begin
  <2>4. faults' \in 0..MaxFaults
    BY <1>0, <2>3, FaultType
  <2> QED BY <1>0, <1>1, <2>2, <2>3, <2>4, ReadViewType DEF OtherTypes, fixed
<1>3. CASE EndsReconcile
  <2>1. faults' \in 0..MaxFaults
    BY <1>0, <1>3, FaultType DEF EndsReconcile
  <2>2. pod' \in PodMaps /\ past' \subseteq {"paused", "lost", "misdirected"}
    <3>1. \/ UNCHANGED <<pod, past>>
          \/ /\ \E pods \in SUBSET Pod : pod' = WithTraffic(pods, "started")
             /\ past' = past \cup {"paused"}
      BY Zenon, <1>3 DEF EndsReconcile
    <3>2. pod' \in PodMaps
      BY <1>0, <3>1, TrafficFields DEF Traffics
    <3> QED BY Zenon, <1>0, <3>1, <3>2 DEF OtherTypes
  <2>3. pc' = "idle" /\ view' = NoView /\ wake' \in BOOLEAN /\ UNCHANGED <<fixed, revision, solrVars>>
    BY Zenon, <1>3 DEF EndsReconcile
  <2> QED BY <1>0, <1>1, <2>1, <2>2, <2>3, NoViewType DEF OtherTypes, fixed
<1>4. CASE SelectsPods
  BY <1>0, <1>1, <1>4 DEF SelectsPods, OtherTypes, fixed
<1>5. ASSUME NEW p \in Pod, HandlesPodStep(p)
      PROVE  /\ revision' \in 0..MaxRevision /\ pod' \in PodMaps
             /\ SolrTypes' /\ OtherTypes' /\ view' \in Views
  <2>1. faults' \in 0..MaxFaults
    BY <1>0, <1>5, FaultType DEF HandlesPodStep
  <2>2. pod' \in PodMaps
    BY <1>0, <1>5, StopsPodFields DEF HandlesPodStep
  <2>3. view' \in Views
    BY <1>0, <1>5, PodHandledType DEF HandlesPodStep
  <2>4. SolrTypes'
    BY <1>0, <1>5, HandledSolrTypes DEF HandlesPodStep
  <2>5. /\ wake' = wake \/ wake' = (wake \/ (p \in Ready /\ p \notin view.scheduled))
        /\ past' = past \/ past' = past \cup {"misdirected"}
        /\ UNCHANGED <<fixed, revision, pc>>
    BY Zenon, <1>5 DEF HandlesPodStep
  <2> QED BY Zenon, <1>0, <2>1, <2>2, <2>3, <2>4, <2>5 DEF OtherTypes, fixed
<1>6. CASE UserEdits
  <2>1. /\ revision' \in (revision + 1)..MaxRevision /\ wake' = TRUE
        /\ UNCHANGED <<fixed, pod, solrVars, pc, view, past>>
        /\ faults' = faults \/ Fault
    BY Zenon, <1>6 DEF UserEdits
  <2>2. revision' \in 0..MaxRevision
    BY <1>0, <2>1
  <2>3. faults' \in 0..MaxFaults
    BY <1>0, <2>1, FaultType
  <2> QED BY Zenon, <1>0, <1>1, <2>1, <2>2, <2>3 DEF OtherTypes, fixed
<1>7. ASSUME NEW p \in Pod, PodCreated(p) \/ PodReady(p)
      PROVE  /\ revision' \in 0..MaxRevision /\ pod' \in PodMaps
             /\ SolrTypes' /\ OtherTypes' /\ view' \in Views
  <2>1. /\ UNCHANGED <<fixed, revision, solrVars, pc, view, past, faults>>
        /\ wake' = TRUE \/ wake' = (wake \/ pod[p].traffic = "started")
    BY Zenon, <1>7 DEF PodCreated, PodReady
  <2> QED BY Zenon, <1>0, <1>1, <1>7, <2>1, PodTypesKept DEF OtherTypes, fixed
<1>8. ASSUME NEW p \in Pod, SolrStarts(p)
      PROVE  /\ revision' \in 0..MaxRevision /\ pod' \in PodMaps
             /\ SolrTypes' /\ OtherTypes' /\ view' \in Views
  <2>1. UNCHANGED <<fixed, revision, wake, pc, view, past, faults>>
    BY Zenon, <1>8 DEF SolrStarts
  <2> QED BY <1>0, <1>8, <2>1, PodTypesKept, SolrTypesKept DEF OtherTypes, fixed
<1>9. ASSUME NEW p \in Pod, PodDeleted(p) \/ PodLost(p)
      PROVE  /\ revision' \in 0..MaxRevision /\ pod' \in PodMaps
             /\ SolrTypes' /\ OtherTypes' /\ view' \in Views
  <2>1. /\ PodGone(p)
        /\ past' = past \/ past' = past \cup {"lost"}
        /\ faults' = faults \/ Fault
    BY Zenon, <1>9 DEF PodDeleted, PodLost
  <2>2. /\ UNCHANGED <<fixed, revision, pc>> /\ wake' = TRUE
        /\ view' = [view EXCEPT !.listed = view.listed \ {p}]
    BY Zenon, <2>1 DEF PodGone
  <2>3. faults' \in 0..MaxFaults
    BY <1>0, <2>1, FaultType
  <2>4. view' \in Views
    BY <1>0, <2>2 DEF Views
  <2>5. pod' \in PodMaps /\ SolrTypes'
    BY <1>0, <2>1, PodTypesKept, SolrTypesKept
  <2> QED BY <1>0, <2>1, <2>2, <2>3, <2>4, <2>5 DEF OtherTypes, fixed
<1>10. ASSUME NEW p, NEW r, NEW q,
              \/ r \in Replicas /\ (ReplicaRecovers(r) \/ LeaderElected(r))
              \/ p \in Pod /\ q \in Pod /\ r \in Replicas /\ ReplicaMoves(p, r, q)
              \/ p \in Pod /\ TaskEnds(p)
       PROVE  /\ revision' \in 0..MaxRevision /\ pod' \in PodMaps
              /\ SolrTypes' /\ OtherTypes' /\ view' \in Views
  <2>1. /\ UNCHANGED <<fixed, revision, pod, wake, pc, view, past>>
        /\ faults' = faults \/ Fault
    BY Zenon, <1>10 DEF ReplicaRecovers, LeaderElected, ReplicaMoves, TaskEnds
  <2>2. faults' \in 0..MaxFaults
    BY <1>0, <2>1, FaultType
  <2>3. SolrTypes'
    BY Zenon, <1>0, <1>10, SolrTypesKept
  <2> QED BY <1>0, <2>1, <2>2, <2>3 DEF OtherTypes, fixed
<1>11. CASE TimePasses \/ UNCHANGED vars
  <2>1. UNCHANGED <<fixed, revision, pod, solrVars, wake, pc, view, past, faults>>
    BY Zenon, <1>11 DEF TimePasses, vars
  <2> QED BY <1>0, <1>1, <2>1 DEF OtherTypes, fixed
<1> QED BY Zenon, <1>2, <1>3, <1>4, <1>5, <1>6, <1>7, <1>8, <1>9, <1>10, <1>11, HandlingSteps,
           EndingSteps, SelectNotStartedStep, SelectPodsStep
        DEF Next, ReconcileStep, HandlesPod
-----------------------------------------------------------------------------
(* The types and the lock in every reachable state.                        *)

LEMMA Initially == Init => IInv
<1> SUFFICES ASSUME Init PROVE IInv
  OBVIOUS
<1>1. ephemeral \in BOOLEAN /\ wanted \in Nat
  BY UpdateAssumption DEF Init
<1>2. revision = 0 /\ 0 \in 0..MaxRevision /\ 0 \in 0..MaxFaults
  BY UpdateAssumption DEF Init
<1>3. pod \in PodMaps
  <2>1. NewPod(0) \in PodStates
    BY <1>2, NewPodType
  <2>2. [NewPod(0) EXCEPT !.phase = "ready", !.traffic = "started"] \in PodStates
    BY Zenon, <2>1 DEF PodStates, Phases
  <2>3. pod = [p \in Pod |-> IF 0 \in BadRevisions THEN NewPod(0)
                             ELSE [NewPod(0) EXCEPT !.phase = "ready", !.traffic = "started"]]
    BY Zenon DEF Init
  <2> QED BY <2>1, <2>2, <2>3 DEF PodMaps
<1>4. SolrTypes
  <2>1. home \in [Replicas -> Pod] /\ leader \in [Shards -> Replicas \cup {Nobody}]
    BY UpdateAssumption DEF Init
  <2>2. overseer \in Pod \cup {Nobody}
    BY DEF Init, Live
  <2> QED BY <2>1, <2>2 DEF Init, SolrTypes, ReplicaStates, TaskStates
<1>5. OtherTypes /\ view \in Views /\ Apart
  BY <1>1, <1>2, NoViewType, ReadSegments DEF Init, OtherTypes, Apart
<1> QED BY <1>2, <1>3, <1>4, <1>5, TypeParts DEF IInv

\* Every step preserves it.
LEMMA Inductive == IInv /\ [Next]_vars => IInv'
BY TypesKept DEF IInv

\* It holds in every reachable state.
LEMMA Invariance == Spec => []IInv
BY Initially, Inductive, PTL DEF Spec

\* The state of the pods, of Solr and of the reconcile has its type: the pods a
\* reconcile works on are pods of the StatefulSet, whichever of them
\* DeterminePodsSafeToUpdate has selected.
THEOREM TypeCorrectness == Spec => []TypeOK
<1>1. IInv => TypeOK
  BY DEF IInv
<1> QED BY <1>1, Invariance, PTL

\* The handler of the rolling update implements the cluster-operation lock: each
\* of its steps is one of the lock's, or leaves it alone.
THEOREM UpdateUsesLock == Spec => UsesLock
<1>1. Init => Lock!Init
  BY DEF Init, Lock!Init
<1>2. IInv /\ [Next]_vars => [Lock!Next]_Lock!vars
  BY LockStep
<1>3. Spec => Lock!Spec
  BY <1>1, <1>2, Invariance, PTL DEF Spec, Lock!Spec
<1> QED BY <1>3 DEF UsesLock

-----------------------------------------------------------------------------
(* Which pods are available, and what a reconcile knows of them.           *)

\* No pod was lost and no update paused so far.
Quiet == past \cap {"lost", "paused"} = {}

\* Pods the reconcile has listed are there, and have no revision of the future.
\* In quiet times pods that are being deleted, and those found to be scheduled
\* for deletion, are out of traffic.
PodsInv ==
  /\ \A p \in Pod : pod[p].revision <= revision
  /\ \A p \in Pod : p \in view.listed => pod[p].phase # "absent"
  /\ Quiet => \A p \in Pod :
       pod[p].terminating \/ p \in view.scheduled \cap view.listed => pod[p].traffic = "stopped"

\* Whether a pod is available or not counted, by its own state.
Available(q, r) ==
  \/ q.phase = "ready" /\ q.traffic = "started"
  \/ q.phase \in {"live", "ready"} /\ q.revision # r /\ q.traffic # "stopped"

LEMMA Unavailable ==
  /\ pod \in PodMaps => CountedUnavailable = {p \in Pod : ~Available(pod[p], revision)}
  /\ pod' \in PodMaps => CountedUnavailable' = {p \in Pod : ~Available(pod'[p], revision')}
<1>1. ASSUME pod \in PodMaps, NEW p \in Pod
      PROVE  p \in Ready \cup Running <=> Available(pod[p], revision)
  BY <1>1 DEF PodMaps, PodStates, Phases, Ready, Running, OutOfDate, ScheduledForDeletion,
              NotStarted, Exists, Available
<1>2. ASSUME pod' \in PodMaps, NEW p \in Pod
      PROVE  p \in (Ready \cup Running)' <=> Available(pod'[p], revision')
  BY <1>2 DEF PodMaps, PodStates, Phases, Ready, Running, OutOfDate, ScheduledForDeletion,
              NotStarted, Exists, Available
<1> QED BY <1>1, <1>2 DEF CountedUnavailable

\* Only pods in S may have become unavailable.
LEMMA StaysAvailable ==
  ASSUME pod \in PodMaps, pod' \in PodMaps, NEW S,
         \A p \in Pod \ S : Available(pod[p], revision) => Available(pod'[p], revision')
  PROVE  CountedUnavailable' \subseteq CountedUnavailable \cup S
BY Zenon, Unavailable

\* Larger sets of pods have more elements.
LEMMA MorePods ==
  ASSUME NEW T \in SUBSET Pod, NEW S \in SUBSET T
  PROVE  Cardinality(S) \in Nat /\ Cardinality(T) \in Nat /\ Cardinality(S) <= Cardinality(T)
<1>1. IsFiniteSet(T)
  BY Finite
<1> QED BY <1>1, FS_Subset, FS_CardinalityType

\* What createCloudStatus counts is the number of pods that are unavailable.
LEMMA CountedWhenRead ==
  ASSUME pod \in PodMaps
  PROVE  /\ Cardinality(CountedUnavailable)
              = NumPods - ReadView.available - Cardinality(ReadView.running)
         /\ ReadView.scheduled \cup ReadView.notStarted \subseteq CountedUnavailable
<1> DEFINE upToDate == {p \in Ready : pod[p].revision = revision}
<1>1. /\ ReadView.available = Cardinality(upToDate) /\ ReadView.running = Running
      /\ ReadView.scheduled = ScheduledForDeletion /\ ReadView.notStarted = NotStarted
  BY DEF ReadView, NoView
<1>2. upToDate \subseteq Pod /\ Running \subseteq Pod /\ Ready \subseteq Pod
  BY DEF Ready, Running, OutOfDate
<1>3. Ready \cup Running = upToDate \cup Running
  BY DEF PodMaps, PodStates, Phases, Ready, Running, OutOfDate, ScheduledForDeletion,
         NotStarted, Exists
<1>4. upToDate \cap Running = {}
  BY DEF Running, OutOfDate
<1>5. ScheduledForDeletion \cup NotStarted \subseteq CountedUnavailable
  BY DEF PodMaps, PodStates, Phases, CountedUnavailable, Ready, Running, OutOfDate,
         ScheduledForDeletion, NotStarted, Exists
<1> HIDE DEF upToDate
<1>6. /\ IsFiniteSet(upToDate) /\ IsFiniteSet(Running)
      /\ Cardinality(upToDate) \in Nat /\ Cardinality(Running) \in Nat
  BY <1>2, Finite, FS_CardinalityType
<1>7. Cardinality(upToDate \cup Running) = Cardinality(upToDate) + Cardinality(Running)
  BY <1>4, <1>6, FS_Union, FS_EmptySet
<1>8. Pod \cap (upToDate \cup Running) = upToDate \cup Running
  BY <1>2
<1>9. Cardinality(Pod \ (upToDate \cup Running)) = NumPods - Cardinality(upToDate \cup Running)
  <2>1. IsFiniteSet(Pod) /\ Cardinality(Pod) = NumPods
    BY Finite
  <2>2. \A T : Cardinality(Pod \ T) = Cardinality(Pod) - Cardinality(Pod \cap T)
    BY Zenon, <2>1, FS_Difference
  <2> QED BY Zenon, <1>8, <2>1, <2>2
<1>10. Cardinality(CountedUnavailable) = NumPods - Cardinality(upToDate \cup Running)
  BY <1>3, <1>9 DEF CountedUnavailable
<1> QED BY <1>1, <1>5, <1>6, <1>7, <1>10, SelectionAssumption

\* Solr moves and recovers replicas, or nothing of interest here happens.
SolrWorks ==
  /\ UNCHANGED <<fixed, revision, pod, pc, view, past>>
  /\ \/ UNCHANGED <<home, state, task, moving>>
     \/ \E p \in Pod : TaskEnds(p) \/ \E r \in Replicas, q \in Pod : ReplicaMoves(p, r, q)
     \/ \E r \in Replicas : ReplicaRecovers(r)

\* The steps, by what they mean for the pods.
LEMMA StepKinds ==
  ASSUME IInv, [Next]_vars
  PROVE  \/ Begin \/ EndsReconcile \/ SelectsPods \/ UserEdits \/ SolrWorks
         \/ \E p \in Pod : \/ HandlesPodStep(p) \/ PodCreated(p) \/ SolrStarts(p)
                           \/ PodReady(p) \/ PodDeleted(p) \/ PodLost(p)
<1>1. ASSUME TimePasses \/ UNCHANGED vars \/ \E r \in Replicas : ReplicaRecovers(r) \/ LeaderElected(r)
      PROVE  SolrWorks
  BY Zenon, <1>1 DEF TimePasses, vars, solrVars, ReplicaRecovers, LeaderElected, SolrWorks
<1>2. ASSUME NEW p \in Pod, TaskEnds(p) \/ \E r \in Replicas, q \in Pod : ReplicaMoves(p, r, q)
      PROVE  SolrWorks
  <2>1. UNCHANGED <<fixed, revision, pod, pc, view, past>>
    BY Zenon, <1>2 DEF TaskEnds, ReplicaMoves
  <2> QED BY Zenon, <1>2, <2>1 DEF SolrWorks
<1> QED BY Zenon, <1>1, <1>2, HandlingSteps, EndingSteps, SelectNotStartedStep, SelectPodsStep
        DEF Next, ReconcileStep, HandlesPod

\* What new pods' first patch changes.
LEMMA BeginFields ==
  ASSUME pod \in PodMaps, Begin
  PROVE  /\ \A p \in Pod : /\ pod'[p].phase = pod[p].phase
                           /\ pod'[p].revision = pod[p].revision
                           /\ pod'[p].terminating = pod[p].terminating
                           /\ \/ pod'[p].traffic = pod[p].traffic
                              \/ pod[p].traffic = "unset" /\ pod'[p].traffic = "started"
         /\ \/ view' = ReadView /\ pc' = "reconcile"
            \/ view' = view /\ pc = "idle" /\ pc' = "idle"
         /\ revision' = revision /\ past' = past
<1>1. /\ \E pods \in SUBSET {p \in Pod : pod[p].traffic = "unset"} :
            pod' = WithTraffic(pods, "started")
      /\ \/ view' = ReadView /\ pc' = "reconcile"
         \/ view' = view /\ pc = "idle" /\ pc' = "idle"
      /\ revision' = revision /\ past' = past
  <2> DEFINE new == {p \in Pod : Exists(p) /\ pod[p].traffic = "unset"}
  <2>1. new \in SUBSET {p \in Pod : pod[p].traffic = "unset"}
    OBVIOUS
  <2>2. \/ /\ pod' = WithTraffic(new, "started")
           /\ view' = ReadView /\ pc' = "reconcile"
        \/ /\ \E done \in SUBSET new : pod' = WithTraffic(done, "started")
           /\ view' = view /\ pc = "idle" /\ pc' = "idle"
    BY Zenon DEF Begin
  <2>3. revision' = revision /\ past' = past
    BY Zenon DEF Begin
  <2> HIDE DEF new
  <2> QED BY <2>1, <2>2, <2>3
<1>2. PICK pods \in SUBSET {p \in Pod : pod[p].traffic = "unset"} :
        pod' = WithTraffic(pods, "started")
  BY <1>1
<1>3. \A p \in Pod : /\ pod'[p].phase = pod[p].phase
                     /\ pod'[p].revision = pod[p].revision
                     /\ pod'[p].terminating = pod[p].terminating
                     /\ pod'[p].traffic = IF p \in pods THEN "started" ELSE pod[p].traffic
  BY <1>2, TrafficFields DEF Traffics
<1> QED BY <1>1, <1>2, <1>3

\* What the other steps that are about one pod change.
LEMMA OnePodFields ==
  ASSUME IInv, NEW p \in Pod,
         PodCreated(p) \/ SolrStarts(p) \/ PodReady(p) \/ PodDeleted(p) \/ PodLost(p)
  PROVE  /\ \A q \in Pod \ {p} : pod'[q] = pod[q]
         /\ revision' = revision /\ pc' = pc
         /\ view'.scheduled = view.scheduled /\ view'.notStarted = view.notStarted
         /\ view'.todo = view.todo /\ view'.available = view.available
         /\ view'.running = view.running /\ view'.occupied = view.occupied
         /\ \/ /\ pod[p].phase = "absent" /\ pod'[p] = NewPod(revision)
               /\ view' = view /\ past' = past
            \/ /\ \/ pod[p].phase = "starting" /\ pod'[p].phase = "live"
                  \/ pod[p].phase = "live" /\ pod'[p].phase = "ready"
               /\ pod'[p].revision = pod[p].revision /\ pod'[p].traffic = pod[p].traffic
               /\ pod'[p].terminating = pod[p].terminating
               /\ view' = view /\ past' = past
            \/ /\ pod'[p] = AbsentPod /\ view'.listed = view.listed \ {p}
               /\ \/ pod[p].terminating /\ past' = past
                  \/ past' = past \cup {"lost"}
<1>1. pod \in PodMaps /\ view \in Views /\ pod[p] \in PodStates
  BY DEF IInv, TypeOK, PodMaps
<1>2. CASE PodCreated(p)
  <2>1. /\ pod[p].phase = "absent" /\ pod' = [pod EXCEPT ![p] = NewPod(revision)]
        /\ UNCHANGED <<revision, pc, view, past>>
    BY Zenon, <1>2 DEF PodCreated, Exists
  <2> QED BY Zenon, <1>1, <2>1 DEF PodMaps
<1>3. CASE SolrStarts(p) \/ PodReady(p)
  <2>1. /\ \/ pod[p].phase = "starting" /\ pod' = [pod EXCEPT ![p].phase = "live"]
           \/ pod[p].phase = "live" /\ pod' = [pod EXCEPT ![p].phase = "ready"]
        /\ UNCHANGED <<revision, pc, view, past>>
    BY Zenon, <1>3 DEF SolrStarts, PodReady
  <2>2. \A q \in Pod \ {p} : pod'[q] = pod[q]
    BY <1>1, <2>1 DEF PodMaps
  <2>3. /\ \/ pod[p].phase = "starting" /\ pod'[p] = [pod[p] EXCEPT !.phase = "live"]
           \/ pod[p].phase = "live" /\ pod'[p] = [pod[p] EXCEPT !.phase = "ready"]
    BY <1>1, <2>1 DEF PodMaps
  <2>4. /\ \/ pod[p].phase = "starting" /\ pod'[p].phase = "live"
           \/ pod[p].phase = "live" /\ pod'[p].phase = "ready"
        /\ pod'[p].revision = pod[p].revision /\ pod'[p].traffic = pod[p].traffic
        /\ pod'[p].terminating = pod[p].terminating
    BY <1>1, <2>3 DEF PodStates
  <2> QED BY Zenon, <2>1, <2>2, <2>4
<1>4. CASE PodDeleted(p) \/ PodLost(p)
  <2>1. /\ pod' = [pod EXCEPT ![p] = AbsentPod]
        /\ view' = [view EXCEPT !.listed = view.listed \ {p}]
        /\ UNCHANGED <<revision, pc>>
        /\ \/ pod[p].terminating /\ past' = past
           \/ past' = past \cup {"lost"}
    BY Zenon, <1>4 DEF PodDeleted, PodLost, PodGone
  <2>2. /\ view'.scheduled = view.scheduled /\ view'.notStarted = view.notStarted
        /\ view'.todo = view.todo /\ view'.available = view.available
        /\ view'.running = view.running /\ view'.listed = view.listed \ {p}
        /\ view'.occupied = view.occupied
    BY <1>1, <2>1 DEF Views
  <2> QED BY <1>1, <2>1, <2>2 DEF PodMaps
<1> QED BY Zenon, <1>2, <1>3, <1>4

\* Pods that were available stay so, but for the one the reconcile works on.
LEMMA AvailableKept ==
  ASSUME IInv, IInv', PodsInv, Quiet', [Next]_vars
  PROVE  \/ CountedUnavailable' \subseteq CountedUnavailable
         \/ \E p \in Pod : /\ HandlesPodStep(p)
                           /\ CountedUnavailable' \subseteq CountedUnavailable \cup {p}
<1>1. pod \in PodMaps /\ pod' \in PodMaps /\ revision \in Nat /\ revision' \in Nat
  <2>1. /\ pod \in PodMaps /\ pod' \in PodMaps
        /\ revision \in 0..MaxRevision /\ revision' \in 0..MaxRevision
    BY Zenon DEF IInv, TypeOK, PodMaps
  <2>2. 0..MaxRevision \subseteq Nat
    OBVIOUS
  <2> QED BY Zenon, <2>1, <2>2
<1>2. \A p \in Pod : pod[p] \in PodStates /\ pod'[p] \in PodStates
  BY <1>1 DEF PodMaps
<1>3. ASSUME \A p \in Pod : Available(pod[p], revision) => Available(pod'[p], revision')
      PROVE  CountedUnavailable' \subseteq CountedUnavailable
  BY <1>1, <1>3, Unavailable, Zenon
<1>4. CASE Begin
  <2>1. \A p \in Pod : /\ pod'[p].phase = pod[p].phase /\ pod'[p].revision = pod[p].revision
                       /\ \/ pod'[p].traffic = pod[p].traffic
                          \/ pod[p].traffic = "unset" /\ pod'[p].traffic = "started"
    BY Zenon, <1>1, <1>4, BeginFields
  <2>2. revision' = revision
    BY Zenon, <1>1, <1>4, BeginFields
  <2> QED BY <1>3, <2>1, <2>2 DEF Available
<1>5. CASE EndsReconcile
  <2>1. UNCHANGED <<pod, revision>>
    BY <1>5 DEF EndsReconcile, Quiet
  <2> QED BY Zenon, <1>3, <2>1
<1>6. CASE SelectsPods \/ SolrWorks
  <2>1. UNCHANGED <<pod, revision>>
    BY Zenon, <1>6 DEF SelectsPods, SolrWorks
  <2> QED BY Zenon, <1>3, <2>1
<1>7. CASE UserEdits
  <2>1. revision' \in (revision + 1)..MaxRevision /\ pod' = pod
    BY Zenon, <1>7 DEF UserEdits
  <2>2. \A p \in Pod : pod[p].revision <= revision /\ pod[p].revision \in Nat
    BY <1>2, UpdateAssumption DEF PodsInv, PodStates
  <2>3. \A p \in Pod : pod[p].revision # revision'
    BY <1>1, <2>1, <2>2
  <2> QED BY <1>3, <2>1, <2>3 DEF Available
<1>8. ASSUME NEW p \in Pod, HandlesPodStep(p)
      PROVE  CountedUnavailable' \subseteq CountedUnavailable \cup {p}
  <2>1. \A q \in Pod \ {p} : pod'[q] = pod[q]
    BY Zenon, <1>1, <1>8, StopsPodFields DEF HandlesPodStep
  <2>2. revision' = revision
    BY Zenon, <1>8 DEF HandlesPodStep
  <2>3. \A q \in Pod \ {p} : Available(pod[q], revision) => Available(pod'[q], revision')
    BY Zenon, <2>1, <2>2
  <2> QED BY Zenon, <1>1, <2>3, StaysAvailable
<1>9. ASSUME NEW p \in Pod,
             PodCreated(p) \/ SolrStarts(p) \/ PodReady(p) \/ PodDeleted(p) \/ PodLost(p)
      PROVE  CountedUnavailable' \subseteq CountedUnavailable
  <2>1. (\A q \in Pod \ {p} : pod'[q] = pod[q]) /\ revision' = revision
    BY Zenon, <1>9, OnePodFields
  <2>2. Available(pod[p], revision) => Available(pod'[p], revision')
    <3>1. CASE pod[p].phase = "absent"
      BY <3>1 DEF Available
    <3>2. CASE /\ \/ pod[p].phase = "starting" /\ pod'[p].phase = "live"
                  \/ pod[p].phase = "live" /\ pod'[p].phase = "ready"
               /\ pod'[p].revision = pod[p].revision /\ pod'[p].traffic = pod[p].traffic
      BY <2>1, <3>2 DEF Available
    <3>3. CASE pod[p].terminating /\ past' = past
      <4>1. pod[p].traffic = "stopped"
        BY <3>3 DEF PodsInv, Quiet
      <4> QED BY <4>1 DEF Available
    <3>4. past' # past \cup {"lost"}
      BY DEF Quiet
    <3> QED BY Zenon, <1>9, <3>1, <3>2, <3>3, <3>4, OnePodFields
  <2>3. \A q \in Pod : Available(pod[q], revision) => Available(pod'[q], revision')
    BY Zenon, <2>1, <2>2
  <2> QED BY Zenon, <1>3, <2>3
<1> QED BY Zenon, <1>4, <1>5, <1>6, <1>7, <1>8, <1>9, StepKinds

\* Time does not make up for a pod that was lost or an update that was paused.
LEMMA QuietBefore ==
  ASSUME IInv, [Next]_vars, Quiet'
  PROVE  Quiet
<1>1. past \subseteq past'
  <2>1. ASSUME NEW p \in Pod, \/ HandlesPodStep(p) \/ PodCreated(p) \/ SolrStarts(p)
                              \/ PodReady(p) \/ PodDeleted(p) \/ PodLost(p)
        PROVE  past \subseteq past'
    <3>1. past' = past \/ \E what : past' = past \cup {what}
      BY Zenon, <2>1 DEF HandlesPodStep, PodCreated, SolrStarts, PodReady, PodDeleted, PodLost
    <3> QED BY <3>1
  <2>2. ASSUME Begin \/ EndsReconcile \/ SelectsPods \/ UserEdits \/ SolrWorks
        PROVE  past \subseteq past'
    <3>1. past' = past \/ \E what : past' = past \cup {what}
      BY Zenon, <2>2 DEF Begin, EndsReconcile, SelectsPods, UserEdits, SolrWorks
    <3> QED BY <3>1
  <2> QED BY Zenon, <2>1, <2>2, StepKinds
<1> QED BY <1>1 DEF Quiet

\* What is known of the pods stays true.
LEMMA PodsKept ==
  ASSUME IInv, IInv', PodsInv, [Next]_vars
  PROVE  PodsInv'
<1> DEFINE Chosen(p) == pod[p].terminating \/ p \in view.scheduled \cap view.listed
           Known(p) == /\ pod[p].revision <= revision
                       /\ p \in view.listed => pod[p].phase # "absent"
                       /\ Quiet => (Chosen(p) => pod[p].traffic = "stopped")
<1>0. \A p \in Pod : Known(p)
  BY Zenon DEF PodsInv
<1>1. (\A p \in Pod : Known(p)') => PodsInv'
  BY Zenon DEF PodsInv
<1>2. /\ pod \in PodMaps /\ pod' \in PodMaps /\ view \in Views /\ view' \in Views
      /\ revision \in Nat /\ revision' \in Nat
  <2>1. /\ pod \in PodMaps /\ pod' \in PodMaps /\ view \in Views /\ view' \in Views
        /\ revision \in 0..MaxRevision /\ revision' \in 0..MaxRevision
    BY Zenon DEF IInv, TypeOK, PodMaps
  <2>2. 0..MaxRevision \subseteq Nat
    OBVIOUS
  <2> QED BY Zenon, <2>1, <2>2
<1>3. \A p \in Pod : /\ pod[p] \in PodStates /\ pod'[p] \in PodStates
                     /\ pod[p].revision \in Nat
  BY <1>2, UpdateAssumption DEF PodMaps, PodStates
<1>4. Quiet' => Quiet
  BY Zenon, QuietBefore
<1>5. ASSUME NEW p \in Pod, Begin
      PROVE  Known(p)'
  <2>1. /\ pod'[p].phase = pod[p].phase /\ pod'[p].revision = pod[p].revision
        /\ pod'[p].terminating = pod[p].terminating
        /\ \/ pod'[p].traffic = pod[p].traffic
           \/ pod[p].traffic = "unset" /\ pod'[p].traffic = "started"
        /\ view' = ReadView \/ view' = view
        /\ revision' = revision
    BY Zenon, <1>2, <1>5, BeginFields
  <2>2. /\ ReadView.listed = {q \in Pod : pod[q].phase # "absent"}
        /\ ReadView.scheduled \subseteq {q \in Pod : pod[q].traffic = "stopped"}
    BY DEF ReadView, NoView, Exists, ScheduledForDeletion, OutOfDate
  <2>3. /\ p \in view'.listed => p \in view.listed \/ pod[p].phase # "absent"
        /\ p \in view'.scheduled \cap view'.listed =>
             p \in view.scheduled \cap view.listed \/ pod[p].traffic = "stopped"
    BY <2>1, <2>2
  <2> QED BY <1>0, <1>4, <2>1, <2>3
<1>6. ASSUME NEW p \in Pod, EndsReconcile
      PROVE  Known(p)'
  <2>1. view'.listed = {} /\ revision' = revision
    BY <1>6 DEF EndsReconcile, NoView
  <2>2. pod' = pod \/ ~Quiet'
    BY <1>6 DEF EndsReconcile, Quiet
  <2>3. pod'[p].revision = pod[p].revision
    <3>1. pod' = pod \/ \E pods \in SUBSET Pod : pod' = WithTraffic(pods, "started")
      BY Zenon, <1>6 DEF EndsReconcile
    <3> QED BY <1>2, <3>1, TrafficFields DEF Traffics
  <2> QED BY <1>0, <1>4, <2>1, <2>2, <2>3
<1>7. ASSUME NEW p \in Pod, SelectsPods \/ UserEdits \/ SolrWorks
      PROVE  Known(p)'
  <2>1. /\ pod' = pod /\ (revision' = revision \/ revision' \in (revision + 1)..MaxRevision)
        /\ view'.scheduled = view.scheduled /\ view'.listed \subseteq view.listed
    BY Zenon, <1>7 DEF SelectsPods, UserEdits, SolrWorks
  <2>2. pod'[p].revision <= revision'
    BY <1>0, <1>2, <1>3, <2>1
  <2> QED BY <1>0, <1>4, <2>1, <2>2
<1>8. ASSUME NEW p \in Pod, NEW q \in Pod, HandlesPodStep(q)
      PROVE  Known(p)'
  <2>1. /\ view'.scheduled = view.scheduled /\ view'.listed = view.listed
        /\ revision' = revision
    BY Zenon, <1>2, <1>8, PodHandledType DEF HandlesPodStep
  <2>2. /\ pod'[p].phase = pod[p].phase /\ pod'[p].revision = pod[p].revision
        /\ p # q => pod'[p] = pod[p]
    BY Zenon, <1>2, <1>8, StopsPodFields DEF HandlesPodStep
  <2>3. CASE p # q \/ UNCHANGED pod
    <3>1. pod'[p] = pod[p]
      BY Zenon, <2>2, <2>3
    <3> QED BY <1>0, <1>4, <2>1, <3>1
  <2>4. CASE p = q /\ StopsPod(q)
    <3>1. /\ pod'[p].traffic = IF p \in view.scheduled THEN pod[p].traffic ELSE "stopped"
          /\ pod'[p].terminating => pod[p].terminating \/ p \in view.listed
      BY Zenon, <1>2, <2>4, StopsPodFields
    <3> QED BY <1>0, <1>4, <2>1, <2>2, <3>1
  <2> QED BY Zenon, <1>8, <2>3, <2>4 DEF HandlesPodStep
<1>9. ASSUME NEW p \in Pod, NEW q \in Pod,
             PodCreated(q) \/ SolrStarts(q) \/ PodReady(q) \/ PodDeleted(q) \/ PodLost(q)
      PROVE  Known(p)'
  <2>1. /\ revision' = revision /\ view'.scheduled = view.scheduled
        /\ view'.listed \subseteq view.listed
        /\ p # q => pod'[p] = pod[p]
    BY <1>9, OnePodFields
  <2>2. CASE p # q
    BY <1>0, <1>4, <2>1, <2>2
  <2>3. CASE p = q /\ pod[p].phase = "absent" /\ pod'[p] = NewPod(revision) /\ view' = view
    <3>1. pod'[p].revision = revision /\ pod'[p].terminating = FALSE /\ pod'[p].phase = "starting"
      BY <2>3 DEF NewPod
    <3>2. p \notin view'.listed
      BY <1>0, <2>3
    <3> QED BY <1>2, <2>1, <3>1, <3>2
  <2>4. CASE /\ p = q /\ pod'[p].phase # "absent" /\ pod'[p].revision = pod[p].revision
             /\ pod'[p].traffic = pod[p].traffic /\ pod'[p].terminating = pod[p].terminating
    BY <1>0, <1>4, <2>1, <2>4
  <2>5. CASE p = q /\ pod'[p] = AbsentPod /\ view'.listed = view.listed \ {q}
    <3>1. pod'[p].revision = 0 /\ pod'[p].terminating = FALSE
      BY <2>5 DEF AbsentPod
    <3>2. p \notin view'.listed
      BY <2>5
    <3> QED BY <1>2, <3>1, <3>2
  <2>6. \/ pod[q].phase = "absent" /\ pod'[q] = NewPod(revision) /\ view' = view
        \/ /\ pod'[q].phase # "absent" /\ pod'[q].revision = pod[q].revision
           /\ pod'[q].traffic = pod[q].traffic /\ pod'[q].terminating = pod[q].terminating
        \/ pod'[q] = AbsentPod /\ view'.listed = view.listed \ {q}
    BY Zenon, <1>9, OnePodFields
  <2> QED BY Zenon, <2>2, <2>3, <2>4, <2>5, <2>6
<1> QED BY Zenon, <1>1, <1>5, <1>6, <1>7, <1>8, <1>9, StepKinds
=============================================================================
