----------------------- MODULE ManagedScaling_proofs -----------------------
(***************************************************************************)
(* Proofs about ManagedScaling for any number of pods, replicas and specs, *)
(* and any number of disturbances.                                         *)
(*                                                                         *)
(* The types and the invariant of the lock are inductive together, as in   *)
(* Storage_proofs.  That Solr runs no request the lock does not stand for  *)
(* is true only while Solr answers, no pod is lost, and a scale down finds *)
(* as many pods as it counts on; these are hypotheses of the theorem, and  *)
(* so of the one that rests on it: pods are empty when they are taken away.*)
(***************************************************************************)
EXTENDS ManagedScaling, FiniteSetTheorems, TLAPS

\* The proofs about the lock, for the lock of this SolrCloud.
LockProofs == INSTANCE ClusterOpLock_proofs WITH
                PodCounts <- 0..MaxPods, StorageSizes <- {}, Migrations <- {}

LockInv == LockProofs!IInv

\* The inductive invariant of the types and of the lock.
IInv == TypeOK /\ LockInv

-----------------------------------------------------------------------------
(* The lock as ManagedScaling sees it, and as ClusterOpLock_proofs does.   *)

\* The two instances of ClusterOpLock have the same steps.
LEMMA SameNext == Lock!Next <=> LockProofs!Next
BY Zenon DEF
  Lock!Next, Lock!DeterminedUpdates, Lock!DeterminedExpansions, Lock!DeterminedScales,
  Lock!ScaleDowns, Lock!ScaleUps, Lock!Updates, Lock!Expansions, Lock!NoOp, Lock!Op,
  Lock!Balance, Lock!BalanceReasons, Lock!Balances, Lock!IsQueued, Lock!Unsupported,
  Lock!SupportedOps, Lock!StartClusterOp, Lock!RetryNextQueuedClusterOp, Lock!OpToStart,
  Lock!StillNew, Lock!QueueToRetry, Lock!Requeued, Lock!QueueIndex, Lock!ScaleOpClash,
  Lock!CompleteClusterOp, Lock!NextOps, Lock!EnqueueClusterOp, Lock!TimedOut,
  Lock!ShortTimeout, Lock!RemoveUnsupportedClusterOp, Lock!TimePasses,
  LockProofs!Next, LockProofs!DeterminedUpdates, LockProofs!DeterminedExpansions,
  LockProofs!DeterminedScales, LockProofs!ScaleDowns, LockProofs!ScaleUps,
  LockProofs!Updates, LockProofs!Expansions, LockProofs!NoOp, LockProofs!Op,
  LockProofs!Balance, LockProofs!BalanceReasons, LockProofs!Balances, LockProofs!IsQueued,
  LockProofs!Unsupported, LockProofs!SupportedOps, LockProofs!StartClusterOp,
  LockProofs!RetryNextQueuedClusterOp, LockProofs!OpToStart, LockProofs!StillNew,
  LockProofs!QueueToRetry, LockProofs!Requeued, LockProofs!QueueIndex,
  LockProofs!ScaleOpClash, LockProofs!CompleteClusterOp, LockProofs!NextOps,
  LockProofs!EnqueueClusterOp, LockProofs!TimedOut, LockProofs!ShortTimeout,
  LockProofs!RemoveUnsupportedClusterOp, LockProofs!TimePasses

\* They have the same initial states and the same invariants.
LEMMA SameState ==
  /\ Lock!Init <=> LockProofs!Init
  /\ Lock!vars = LockProofs!vars
  /\ Lock!OneOpPerKind <=> LockProofs!OneOpPerKind
BY Zenon DEF
  Lock!Init, Lock!NoOp, Lock!Op, Lock!Unsupported, Lock!vars, Lock!OneOpPerKind, Lock!Kinds,
  LockProofs!Init, LockProofs!NoOp, LockProofs!Op, LockProofs!Unsupported, LockProofs!vars,
  LockProofs!OneOpPerKind, LockProofs!Kinds

\* A scale up that holds the lock is to a number of pods.
LEMMA LockedScaleUp ==
  ASSUME LockInv, lock.operation = "ScalingUp"
  PROVE  lock.metadata \in 0..MaxPods
BY DEF LockInv, LockProofs!IInv, LockProofs!TypeOK, LockProofs!ClusterOps,
       LockProofs!SupportedOps, LockProofs!ScaleDowns, LockProofs!ScaleUps,
       LockProofs!Updates, LockProofs!Expansions, LockProofs!Balances,
       LockProofs!Balance, LockProofs!Unsupported, LockProofs!NoOp, LockProofs!Op

\* What a reconcile has read of the wanted size.
LEMMA ViewedReplicas ==
  ASSUME TypeOK
  PROVE  view.spec.replicas \in 0..MaxPods /\ view.spec.vacate \in BOOLEAN
<1>1. view.spec \in Specs \cup {NoSpec}
  BY DEF TypeOK
<1>2. CASE view.spec \in Specs
  BY <1>2, ScalingAssumption
<1>3. CASE view.spec = NoSpec
  BY <1>3, ScalingAssumption DEF NoSpec
<1> QED BY <1>1, <1>2, <1>3

\* The scaling a reconcile finds necessary is one that the lock's specification
\* says determineScaleClusterOpLockIfNecessary returns.
LEMMA Determined ==
  ASSUME TypeOK
  PROVE  /\ ScaleNeeded \in Lock!DeterminedScales
         /\ Lock!NoOp \in Lock!DeterminedUpdates
         /\ Lock!NoOp \in Lock!DeterminedExpansions
<1>1. configured \in 0..MaxPods /\ MaxPods \in Nat
  BY ScalingAssumption DEF TypeOK
<1>2. ManagedDown => configured - 1 \in 0..MaxPods
  BY <1>1, ViewedReplicas DEF ManagedDown
<1>3. \/ ScaleNeeded = Lock!NoOp
      \/ ManagedDown /\ ScaleNeeded = Lock!Op("ScalingDown", configured - 1)
      \/ ScaleNeeded = Lock!Op("ScalingUp", view.spec.replicas)
      \/ Lock!IsQueued("ScalingDown") /\ ScaleNeeded = Lock!Balance(UndoFailedScaleDown)
  BY DEF ScaleNeeded
<1> QED BY <1>2, <1>3, ViewedReplicas DEF Lock!DeterminedScales, Lock!ScaleDowns, Lock!ScaleUps,
           Lock!DeterminedUpdates, Lock!DeterminedExpansions

-----------------------------------------------------------------------------
(* What a reconcile does with the result of a handler.                     *)

Budgets == [Disturbances -> Nat]

\* One disturbance is spent.
LEMMA WithoutOne ==
  ASSUME NEW left \in Budgets, NEW kind \in Disturbances, left[kind] > 0
  PROVE  /\ Without(kind, left) \in Budgets
         /\ Without(kind, left)[kind] = left[kind] - 1
         /\ \A k \in Disturbances \ {kind} : Without(kind, left)[k] = left[k]
BY DEF Without, Budgets

\* The result of a handler, as far as the lock looks at it.
Results(r) == r.next \in Lock!Balances \cup {Lock!NoOp} /\ r.failed \in BOOLEAN

\* The results the handlers give.
LEMMA HandlerResults ==
  /\ Results(Complete) /\ Results(InProgress) /\ Results(Wait) /\ Results(RetryLater)
  /\ Results(Failed) /\ Results(FailedInProgress)
  /\ Results(CompleteThen(Lock!Balance(AfterScaleUp)))
BY DEF Results, Complete, InProgress, Wait, RetryLater, Failed, FailedInProgress, CompleteThen,
       Result, Lock!Balances, Lock!BalanceReasons

\* The end of a reconcile.
Ended ==
  /\ pc' = "idle" /\ view' = NoView /\ wake' \in BOOLEAN
  /\ [Lock!Next]_Lock!vars

\* However a result is concluded, the reconcile ends, with a step of the lock or
\* none, and no pod is taken out of traffic that the handler has not.
LEMMA ConcludeEnds ==
  ASSUME NEW r, Results(r), NEW noTraffic, NEW left, Conclude(r, noTraffic, left)
  PROVE  /\ Ended
         /\ stopped' \subseteq noTraffic
         /\ \/ budget' = left
            \/ left["kube"] > 0 /\ budget' = Without("kube", left)
<1>1. \E requeue : Finish(requeue)
  BY Zenon DEF Conclude
<1>2. pc' = "idle" /\ view' = NoView /\ wake' \in BOOLEAN
  BY <1>1 DEF Finish
<1>3. \/ Lock!CompleteClusterOp(r.next)
      \/ Lock!EnqueueClusterOp(r.failed)
      \/ UNCHANGED lockVars
  BY Zenon DEF Conclude
<1>4. [Lock!Next]_Lock!vars
  BY <1>3 DEF Results, Lock!Next, Lock!vars, lockVars
<1>5. stopped' \subseteq noTraffic
  <2>1. \/ stopped' = noTraffic
        \/ stopped' = noTraffic \ Restored
        \/ \E done : stopped' = noTraffic \ done
    BY Zenon DEF Conclude
  <2> QED BY <2>1
<1>6. budget' = left \/ (left["kube"] > 0 /\ budget' = Without("kube", left))
  BY Zenon DEF Conclude
<1> QED BY <1>2, <1>4, <1>5, <1>6 DEF Ended

\* The same after a call that failed.
LEMMA FaultEnds ==
  ASSUME TypeOK, NEW kind \in Disturbances, NEW r, Results(r), NEW noTraffic,
         ConcludeFault(kind, r, noTraffic)
  PROVE  /\ Ended
         /\ stopped' \subseteq noTraffic
         /\ budget' \in Budgets
         /\ budget'[kind] # budget[kind]
<1>1. budget \in Budgets /\ budget[kind] > 0
  BY DEF ConcludeFault, TypeOK, Budgets
<1> DEFINE left == Without(kind, budget)
<1>2. left \in Budgets /\ left[kind] = budget[kind] - 1
  BY <1>1, WithoutOne
<1>3. Conclude(r, noTraffic, left)
  BY DEF ConcludeFault
<1> HIDE DEF left
<1>4. /\ Ended /\ stopped' \subseteq noTraffic
      /\ budget' = left \/ (left["kube"] > 0 /\ budget' = Without("kube", left))
  BY <1>3, ConcludeEnds
<1>5. "kube" \in Disturbances
  BY DEF Disturbances
<1>6. left["kube"] > 0 => /\ Without("kube", left) \in Budgets
                          /\ Without("kube", left)[kind] \in {left[kind], left[kind] - 1}
  BY <1>2, <1>5, WithoutOne
<1>7. budget[kind] \in Nat /\ left[kind] \in Nat
  BY <1>1, <1>2 DEF Budgets
<1> QED BY <1>2, <1>4, <1>6, <1>7

\* And without one.
LEMMA ConcludeKeeps ==
  ASSUME TypeOK, NEW r, Results(r), NEW noTraffic, Conclude(r, noTraffic, budget)
  PROVE  Ended /\ stopped' \subseteq noTraffic /\ budget' \in Budgets
<1>1. budget \in Budgets /\ "kube" \in Disturbances
  BY DEF TypeOK, Budgets, Disturbances
<1> QED BY <1>1, ConcludeEnds, WithoutOne
-----------------------------------------------------------------------------
(* Types: every step of a reconcile ends it, or asks Solr about the pod.   *)

Tasks == [RequestIds -> TaskStates]

\* What the end of a reconcile leaves.
HandlerType ==
  /\ Ended
  /\ UNCHANGED <<spec, pods, ready, home>>
  /\ configured' \in 0..MaxPods
  /\ stopped' \subseteq pods
  /\ task' \in Tasks
  /\ budget' \in Budgets

\* Solr is asked whether there are replicas on the pod.
Reads(to) ==
  /\ pc' = "evict"
  /\ view' = [view EXCEPT !.occupied = \E r \in Replicas : home[r] = to]
  /\ UNCHANGED <<spec, configured, podVars, solrVars, stopped, lockVars, wake, budget>>

\* The pods a handler leaves out of traffic exist.
LEMMA StoppedPods ==
  ASSUME TypeOK, NEW to, Stoppable(to)
  PROVE  NowStopped(to) \subseteq pods
BY DEF TypeOK, Stoppable, NowStopped

\* A request has a new state.
LEMMA TaskType ==
  ASSUME TypeOK, NEW id \in RequestIds, NEW s \in TaskStates
  PROVE  [task EXCEPT ![id] = s] \in Tasks
BY DEF TypeOK, Tasks

\* A handler that changes nothing but what is given ends with the types kept.
LEMMA HandlerKeeps ==
  ASSUME TypeOK, NEW r, Results(r), NEW noTraffic \in SUBSET pods,
         \/ Conclude(r, noTraffic, budget)
         \/ \E kind \in Disturbances : ConcludeFault(kind, r, noTraffic),
         UNCHANGED <<spec, pods, ready, home>>,
         configured' = configured \/ configured' \in 0..MaxPods,
         task' = task \/ task' \in Tasks
  PROVE  HandlerType
<1>1. Ended /\ stopped' \subseteq noTraffic /\ budget' \in Budgets
  BY ConcludeKeeps, FaultEnds
<1> QED BY <1>1 DEF HandlerType, TypeOK, Tasks

\* No lock is held.
LEMMA DetermineTypes ==
  ASSUME TypeOK, DetermineClusterOp
  PROVE  HandlerType
<1>1. /\ UNCHANGED <<spec, pods, ready, home, task, stopped>>
      /\ \E requeue : Finish(requeue)
  BY Zenon DEF DetermineClusterOp, podVars, solrVars
<1>2. pc' = "idle" /\ view' = NoView /\ wake' \in BOOLEAN
  BY <1>1 DEF Finish
<1>3. configured' = configured \/ configured' = view.spec.replicas
  BY Zenon DEF DetermineClusterOp, ScaleUnmanaged
<1>4. UNCHANGED budget \/ Spend("kube")
  BY Zenon DEF DetermineClusterOp, ScaleUnmanaged
<1>5. budget' \in Budgets
  <2>1. budget \in Budgets /\ "kube" \in Disturbances
    BY DEF TypeOK, Budgets, Disturbances
  <2> QED BY <1>4, <2>1, WithoutOne DEF Spend
<1>6. \/ Lock!StartClusterOp(Lock!NoOp, Lock!NoOp, ScaleNeeded)
      \/ Lock!RetryNextQueuedClusterOp(Lock!NoOp, Lock!NoOp, ScaleNeeded)
      \/ UNCHANGED lockVars
  BY Zenon DEF DetermineClusterOp
<1>7. [Lock!Next]_Lock!vars
  <2>1. CASE UNCHANGED lockVars
    BY <2>1 DEF lockVars, Lock!vars
  <2> QED BY <1>6, <2>1, Determined DEF Lock!Next
<1> QED BY <1>1, <1>2, <1>3, <1>5, <1>7, ViewedReplicas DEF HandlerType, Ended, TypeOK, Tasks

\* handleManagedCloudScaleUp
LEMMA ScaleUpTypes ==
  ASSUME IInv, ScaleUp
  PROVE  HandlerType
<1>1. UNCHANGED <<spec, pods, ready, home, task>>
  BY DEF ScaleUp, podVars, solrVars
<1>2. lock.metadata \in 0..MaxPods
  BY LockedScaleUp DEF ScaleUp, IInv
<1>3. configured' = configured \/ configured' \in 0..MaxPods
  BY <1>2 DEF ScaleUp
<1>4. \E r : /\ Results(r)
             /\ \/ Conclude(r, stopped, budget)
                \/ \E kind \in Disturbances : ConcludeFault(kind, r, stopped)
  <2>1. "kube" \in Disturbances
    BY DEF Disturbances
  <2>2. \/ Conclude(RetryLater, stopped, budget)
        \/ ConcludeFault("kube", Failed, stopped)
        \/ Conclude(CompleteThen(Lock!Balance(AfterScaleUp)), stopped, budget)
        \/ Conclude(Wait, stopped, budget)
    BY DEF ScaleUp
  <2> QED BY <2>1, <2>2, HandlerResults
<1>5. stopped \in SUBSET pods /\ TypeOK
  BY DEF IInv, TypeOK
<1> QED BY <1>1, <1>3, <1>4, <1>5, HandlerKeeps
\* The handler's result is concluded, with no more pods out of traffic than
\* these.
Concludes(noTraffic) ==
  \E r : /\ Results(r)
         /\ \/ Conclude(r, noTraffic, budget)
            \/ \E kind \in Disturbances : ConcludeFault(kind, r, noTraffic)

\* handleManagedCloudScaleDown, up to the eviction.
LEMMA ScaleDownTypes ==
  ASSUME TypeOK, NEW to \in Pod,
         ScaleDownWithoutEviction(to) \/ ReadClusterStatus(to) \/ CannotStopPod(to)
  PROVE  HandlerType \/ Reads(to)
<1>1. UNCHANGED <<spec, configured, podVars, solrVars>>
  BY DEF ScaleDownWithoutEviction, ReadClusterStatus, CannotStopPod
<1>2. "kube" \in Disturbances /\ "solr" \in Disturbances
  BY DEF Disturbances
<1>3. stopped \in SUBSET pods
  BY DEF TypeOK
<1>4. Reads(to) \/ Concludes(stopped)
  <2>1. CASE ScaleDownWithoutEviction(to)
    <3>1. Conclude(Complete, stopped, budget) \/ Conclude(RetryLater, stopped, budget)
      BY <2>1 DEF ScaleDownWithoutEviction
    <3> QED BY <3>1, HandlerResults DEF Concludes
  <2>2. CASE ReadClusterStatus(to)
    <3>1. Reads(to) \/ ConcludeFault("solr", Failed, stopped)
      BY <1>1, <2>2 DEF ReadClusterStatus, Reads
    <3> QED BY <1>2, <3>1, HandlerResults DEF Concludes
  <2>3. CASE CannotStopPod(to)
    <3>1. Conclude(Failed, stopped, budget) \/ ConcludeFault("kube", Failed, stopped)
      BY <2>3 DEF CannotStopPod
    <3> QED BY <1>2, <3>1, HandlerResults DEF Concludes
  <2> QED BY <2>1, <2>2, <2>3
<1> QED BY <1>1, <1>3, <1>4, HandlerKeeps DEF Concludes, podVars, solrVars

\* The pod was found empty and is removed, or could not be.
LEMMA RemovePodConcludes ==
  ASSUME NEW to \in Pod, RemovePod(to)
  PROVE  /\ configured' = configured \/ configured' \in 0..MaxPods
         /\ Concludes(NowStopped(to))
<1>1. to \in 0..MaxPods /\ "kube" \in Disturbances
  BY ScalingAssumption DEF Pod, Disturbances
<1> QED BY <1>1, HandlerResults DEF RemovePod, Concludes

\* EvictReplicasForPodIfNecessary
LEMMA EvictTypes ==
  ASSUME TypeOK, NEW to \in Pod,
         \/ MoveStatusUnknown(to) \/ StartMove(to) \/ AwaitMove(to)
         \/ RemoveEmptyPod(to) \/ EndMove(to)
  PROVE  HandlerType
<1>1. UNCHANGED <<spec, pods, ready, home>>
  BY DEF MoveStatusUnknown, StartMove, AwaitMove, RemoveEmptyPod, EndMove, podVars, solrVars
<1>2. to \in RequestIds /\ "solr" \in Disturbances
  BY DEF RequestIds, Disturbances
<1>3. Stoppable(to)
  BY DEF MoveStatusUnknown, StartMove, AwaitMove, RemoveEmptyPod, EndMove, Evicting
<1>4. NowStopped(to) \in SUBSET pods
  BY <1>3, StoppedPods
<1>5. task' = task \/ task' \in Tasks
  <2>1. task[to] \in TaskStates /\ "notfound" \in TaskStates /\ "running" \in TaskStates
    BY <1>2 DEF TypeOK, TaskStates
  <2>2. UNCHANGED task \/ \E s \in {"notfound", "running", task[to]} : task' = [task EXCEPT ![to] = s]
    BY DEF MoveStatusUnknown, StartMove, AwaitMove, RemoveEmptyPod, EndMove, solrVars
  <2> QED BY <1>2, <2>1, <2>2, TaskType
<1>6. /\ configured' = configured \/ configured' \in 0..MaxPods
      /\ Concludes(NowStopped(to))
  <2>1. CASE MoveStatusUnknown(to)
    BY <1>2, <2>1, HandlerResults DEF MoveStatusUnknown, Concludes
  <2>2. CASE StartMove(to)
    BY <1>2, <2>2, HandlerResults DEF StartMove, Concludes
  <2>3. CASE AwaitMove(to)
    BY <2>3, HandlerResults DEF AwaitMove, Concludes
  <2>4. CASE RemoveEmptyPod(to)
    BY <2>4, RemovePodConcludes DEF RemoveEmptyPod
  <2>5. CASE EndMove(to)
    <3>1. \/ RemovePod(to)
          \/ UNCHANGED configured /\ Conclude(RetryLater, NowStopped(to), budget)
          \/ UNCHANGED configured /\ ConcludeFault("solr", FailedInProgress, NowStopped(to))
      BY <2>5 DEF EndMove
    <3> QED BY <1>2, <3>1, RemovePodConcludes, HandlerResults DEF Concludes
  <2> QED BY <2>1, <2>2, <2>3, <2>4, <2>5
<1> QED BY <1>1, <1>4, <1>5, <1>6, HandlerKeeps DEF Concludes

\* BalanceReplicasForCluster
LEMMA BalanceTypes ==
  ASSUME TypeOK, NEW reason \in BalanceReasons,
         \/ BalanceUnneeded(reason) \/ BalanceStatusUnknown(reason) \/ StartBalance(reason)
         \/ AwaitBalance(reason) \/ EndBalance(reason)
  PROVE  HandlerType
<1>1. UNCHANGED <<spec, configured, pods, ready, home>>
  BY DEF BalanceUnneeded, BalanceStatusUnknown, StartBalance, AwaitBalance, EndBalance,
         podVars, solrVars
<1>2. reason \in RequestIds /\ "solr" \in Disturbances
  BY DEF RequestIds, Disturbances
<1>3. stopped \in SUBSET pods
  BY DEF TypeOK
<1>4. task' = task \/ task' \in Tasks
  <2>1. task[reason] \in TaskStates /\ "notfound" \in TaskStates /\ "running" \in TaskStates
    BY <1>2 DEF TypeOK, TaskStates
  <2>2. \/ UNCHANGED task
        \/ \E s \in {"notfound", "running", task[reason]} : task' = [task EXCEPT ![reason] = s]
    BY DEF BalanceUnneeded, BalanceStatusUnknown, StartBalance, AwaitBalance, EndBalance, solrVars
  <2> QED BY <1>2, <2>1, <2>2, TaskType
<1>5. Concludes(stopped)
  <2>1. \/ Conclude(Complete, stopped, budget)
        \/ Conclude(Wait, stopped, budget)
        \/ Conclude(InProgress, stopped, budget)
        \/ ConcludeFault("solr", Failed, stopped)
        \/ ConcludeFault("solr", FailedInProgress, stopped)
    BY DEF BalanceUnneeded, BalanceStatusUnknown, StartBalance, AwaitBalance, EndBalance
  <2> QED BY <1>2, <2>1, HandlerResults DEF Concludes
<1> QED BY <1>1, <1>3, <1>4, <1>5, HandlerKeeps DEF Concludes

\* Every step of a reconcile that has begun.
LEMMA ReconcileTypes ==
  ASSUME IInv, ReconcileStep
  PROVE  HandlerType \/ \E to \in Pod : Reads(to)
<1>1. TypeOK
  BY DEF IInv
<1> QED BY <1>1, DetermineTypes, ScaleUpTypes, ScaleDownTypes, EvictTypes, BalanceTypes
        DEF ReconcileStep
-----------------------------------------------------------------------------
(* The types and the lock are kept.                                        *)

Views == [spec : Specs \cup {NoSpec}, pods : SUBSET Pod, ready : 0..MaxPods,
          stopped : SUBSET Pod, occupied : BOOLEAN]

\* What is read at the start of a reconcile, and nothing.
LEMMA ViewTypes ==
  ASSUME TypeOK
  PROVE  /\ NoView \in Views
         /\ [spec |-> spec, pods |-> pods, ready |-> ReadyReplicas,
             stopped |-> stopped, occupied |-> FALSE] \in Views
         /\ \A b \in BOOLEAN : [view EXCEPT !.occupied = b] \in Views
<1>1. MaxPods \in Nat \ {0}
  BY ScalingAssumption
<1>2. IsFiniteSet(Pod) /\ Cardinality(Pod) = MaxPods
  BY <1>1, FS_Interval DEF Pod
<1>3. ready \ stopped \in SUBSET Pod
  BY DEF TypeOK
<1>4. ReadyReplicas \in 0..MaxPods
  BY <1>1, <1>2, <1>3, FS_Subset, FS_CardinalityType DEF ReadyReplicas
<1>5. NoView \in Views
  BY <1>1 DEF NoView, Views
<1>6. spec \in Specs /\ pods \in SUBSET Pod /\ stopped \in SUBSET Pod /\ view \in Views
  BY DEF TypeOK, Views
<1>7. \A b \in BOOLEAN : [view EXCEPT !.occupied = b] \in Views
  BY <1>6 DEF Views
<1> QED BY <1>4, <1>5, <1>6, <1>7 DEF Views

\* Every step is a step of the lock or leaves it alone.
LEMMA LockStep ==
  ASSUME IInv, [Next]_vars
  PROVE  [Lock!Next]_Lock!vars
<1>1. CASE UNCHANGED lockVars
  BY <1>1 DEF lockVars, Lock!vars
<1>2. CASE ReconcileStep
  <2>1. CASE HandlerType
    BY <2>1 DEF HandlerType, Ended
  <2>2. CASE \E to \in Pod : Reads(to)
    BY <1>1, <2>2 DEF Reads
  <2> QED BY <1>2, <2>1, <2>2, ReconcileTypes
<1>3. CASE TimePasses
  BY <1>3 DEF TimePasses, Lock!Next
<1>4. CASE Begin \/ OperatorRestarts \/ \E s \in Specs : UserEdits(s)
  BY <1>1, <1>4 DEF Begin, OperatorRestarts, UserEdits
<1>5. ASSUME NEW p \in Pod, PodCreated(p) \/ PodReady(p) \/ PodDeleted(p) \/ PodLost(p)
      PROVE  UNCHANGED lockVars
  BY <1>5 DEF PodCreated, PodReady, PodDeleted, PodLost, PodGone
<1>6. ASSUME NEW id \in RequestIds,
             \/ \E r \in Replicas, p \in Pod : ReplicaMoves(id, r, p)
             \/ TaskCompletes(id) \/ TaskFails(id)
      PROVE  UNCHANGED lockVars
  BY <1>6 DEF ReplicaMoves, TaskCompletes, TaskFails
<1>7. CASE UNCHANGED vars
  BY <1>7 DEF vars, Lock!vars
<1> QED BY <1>1, <1>2, <1>3, <1>4, <1>5, <1>6, <1>7 DEF Next

\* So the invariant of the lock is kept.
LEMMA LockInvKept ==
  ASSUME IInv, [Next]_vars
  PROVE  LockInv'
<1>1. [LockProofs!Next]_LockProofs!vars
  BY LockStep, SameNext DEF Lock!vars, LockProofs!vars
<1> QED BY <1>1, ScalingAssumption, LockProofs!NextIInv DEF LockInv, IInv

\* A disturbance leaves a budget.
LEMMA SpendType ==
  ASSUME TypeOK, NEW kind \in Disturbances, Spend(kind)
  PROVE  budget' \in Budgets
BY WithoutOne DEF TypeOK, Spend, Budgets

\* Every step keeps the types.
LEMMA TypesKept ==
  ASSUME IInv, [Next]_vars
  PROVE  TypeOK'
<1> USE DEF IInv
<1>0. {"edit", "kube", "move", "balance", "pod"} \subseteq Disturbances
  BY DEF Disturbances
<1>1. CASE Begin
  <2>1. /\ pc' = "reconcile" /\ wake' = FALSE
        /\ view' = [spec |-> spec, pods |-> pods, ready |-> ReadyReplicas,
                    stopped |-> stopped, occupied |-> FALSE]
        /\ UNCHANGED <<spec, configured, pods, ready, stopped, home, task, budget>>
    BY <1>1 DEF Begin, podVars, solrVars
  <2>2. view' \in Views
    BY <2>1, ViewTypes
  <2> QED BY Zenon, <2>1, <2>2 DEF TypeOK, Views
<1>2. CASE HandlerType
  <2>1. view' \in Views
    BY <1>2, ViewTypes DEF HandlerType, Ended
  <2> QED BY <1>2, <2>1 DEF HandlerType, Ended, TypeOK, Views, Tasks, Budgets
<1>3. ASSUME NEW to \in Pod, Reads(to)
      PROVE  TypeOK'
  <2>1. view' \in Views
    BY Zenon, <1>3, ViewTypes DEF Reads
  <2>2. pc' = "evict" /\ UNCHANGED <<spec, configured, pods, ready, stopped, home, task, wake, budget>>
    BY <1>3 DEF Reads, podVars, solrVars
  <2> QED BY <2>1, <2>2 DEF TypeOK, Views
<1>4. CASE OperatorRestarts
  <2>1. view' \in Views /\ budget' \in Budgets
    BY <1>0, <1>4, ViewTypes, SpendType DEF OperatorRestarts
  <2>2. /\ pc' = "idle" /\ wake' = TRUE
        /\ UNCHANGED <<spec, configured, pods, ready, stopped, home, task>>
    BY <1>4 DEF OperatorRestarts, podVars, solrVars
  <2> QED BY <2>1, <2>2 DEF TypeOK, Views, Budgets
<1>5. CASE TimePasses
  BY <1>5 DEF TimePasses, podVars, solrVars, TypeOK
<1>6. ASSUME NEW s \in Specs, UserEdits(s)
      PROVE  TypeOK'
  <2>1. budget' \in Budgets
    BY <1>0, <1>6, SpendType DEF UserEdits
  <2> QED BY <1>6, <2>1 DEF UserEdits, podVars, solrVars, TypeOK, Budgets
<1>7. ASSUME NEW p \in Pod, PodCreated(p) \/ PodReady(p)
      PROVE  TypeOK'
  BY Zenon, <1>7 DEF PodCreated, PodReady, solrVars, TypeOK
<1>8. ASSUME NEW p \in Pod, PodDeleted(p) \/ PodLost(p)
      PROVE  TypeOK'
  <2>1. budget' \in Budgets
    BY <1>0, <1>8, SpendType DEF PodDeleted, PodLost, TypeOK, Budgets
  <2>2. /\ pods' = pods \ {p} /\ ready' = ready \ {p} /\ stopped' = stopped \ {p} /\ wake' = TRUE
        /\ UNCHANGED <<spec, configured, home, task, pc, view>>
    BY <1>8 DEF PodDeleted, PodLost, PodGone, solrVars
  <2> QED BY <2>1, <2>2 DEF TypeOK, Budgets
<1>9. ASSUME NEW id \in RequestIds, NEW r \in Replicas, NEW p \in Pod, ReplicaMoves(id, r, p)
      PROVE  TypeOK'
  BY <1>9 DEF ReplicaMoves, podVars, TypeOK
<1>10. ASSUME NEW id \in RequestIds, TaskCompletes(id) \/ TaskFails(id)
       PROVE  TypeOK'
  <2>1. budget' \in Budgets
    BY <1>0, <1>10, SpendType DEF TaskCompletes, TaskFails, TypeOK, Budgets
  <2>2. task' \in Tasks
    BY Zenon, <1>10, TaskType DEF TaskCompletes, TaskFails, TaskStates
  <2>3. UNCHANGED <<spec, configured, pods, ready, stopped, home, wake, pc, view>>
    BY <1>10 DEF TaskCompletes, TaskFails, podVars
  <2> QED BY <2>1, <2>2, <2>3 DEF TypeOK, Budgets, Tasks
<1>11. CASE UNCHANGED vars
  BY <1>11 DEF vars, TypeOK
<1>12. CASE ReconcileStep
  BY <1>2, <1>3, <1>12, ReconcileTypes
<1> QED BY <1>1, <1>4, <1>5, <1>6, <1>7, <1>8, <1>9, <1>10, <1>11, <1>12 DEF Next

\* The initial states satisfy the inductive invariant.
LEMMA Initially == Init => IInv
<1> SUFFICES ASSUME Init PROVE IInv
  OBVIOUS
<1>1. configured \in 1..MaxPods /\ MaxPods \in Nat /\ pods = 0..(configured - 1)
  BY ScalingAssumption DEF Init
<1>2. pods \subseteq Pod
  BY <1>1 DEF Pod
<1>3. home \in [Replicas -> Pod]
  BY <1>2 DEF Init
<1>4. task \in [RequestIds -> TaskStates]
  BY DEF Init, TaskStates
<1>5. view \in Views
  BY <1>1 DEF Init, NoView, Views
<1>6. TypeOK
  BY Zenon, <1>1, <1>2, <1>3, <1>4, <1>5, ScalingAssumption DEF Init, TypeOK, Views
<1>7. Lock!Init
  BY DEF Init, Lock!Init
<1>8. LockInv
  BY <1>7, SameState, ScalingAssumption, LockProofs!InitIInv DEF LockInv
<1> QED BY <1>6, <1>8 DEF IInv

\* Every step preserves it.
LEMMA Inductive == IInv /\ [Next]_vars => IInv'
BY TypesKept, LockInvKept DEF IInv

\* It holds in every reachable state.
LEMMA Invariance == Spec => []IInv
BY Initially, Inductive, PTL DEF Spec

\* The state of the cluster and of the reconcile has its type: the pods that
\* are ready or out of traffic exist, and the StatefulSet never has more pods
\* than the user ever asked for.
THEOREM TypeCorrectness == Spec => []TypeOK
<1>1. IInv => TypeOK
  BY DEF IInv
<1> QED BY <1>1, Invariance, PTL

\* The scaling and balancing handlers implement the cluster-operation lock: each
\* of their steps is one of the lock's, or leaves it alone.
THEOREM ScalingUsesLock == Spec => UsesLock
<1>1. Init => Lock!Init
  BY DEF Init, Lock!Init
<1>2. IInv /\ [Next]_vars => [Lock!Next]_Lock!vars
  BY LockStep
<1>3. Spec => Lock!Spec
  BY <1>1, <1>2, Invariance, PTL DEF Spec, Lock!Spec
<1> QED BY <1>3 DEF UsesLock

\* So what is proved of the lock holds of it here: a scale up and a scale down
\* are never locked or queued at once.
THEOREM ScalingsAreExclusive == Spec => []Lock!OneOpPerKind
<1>1. IInv => Lock!OneOpPerKind
  BY SameState DEF IInv, LockInv, LockProofs!IInv
<1> QED BY <1>1, Invariance, PTL
-----------------------------------------------------------------------------
(* Requests and the lock.                                                  *)

\* So far every call to Solr has succeeded and no pod was lost.
Undisturbed == budget["solr"] = Bounds["solr"] /\ budget["pod"] = Bounds["pod"]

\* While the replicas of a pod are moved there are as many pods as there were to
\* be before the scale down.  It does not go without saying: pods are created in
\* any order, so with pods 1 and 2 there, where 0 and 1 should be, the deletion
\* of pod 2 makes the reconcile take the scale down from 2 to 1 for done.
EnoughPods == \A to \in Pod : task[to] = "running" => Cardinality(pods) > to

Calm == Undisturbed /\ EnoughPods

\* A running move is that of the last pod, which the lock and the StatefulSet
\* stand for, and a reconcile that meets it has seen its pod out of traffic.
MoveInv ==
  \A to \in Pod : task[to] = "running" =>
    /\ ScalingDownTo(to)
    /\ configured = to + 1
    /\ to \in stopped
    /\ pc # "idle" => /\ to \in view.stopped /\ to \in view.pods
                      /\ NumPods > to

\* The same of a running balancing.
BalanceInv ==
  \A reason \in BalanceReasons : task[reason] = "running" =>
    lock = Lock!Balance(reason) /\ configured > 1

\* What a reconcile has read of the pods the StatefulSet is to have is true of
\* them until it ends.
ViewInv ==
  pc # "idle" => \A p \in Pod : p < configured =>
    /\ p \in view.stopped => p \in stopped
    /\ p \in view.pods => p \in pods

\* A reconcile that evicts a pod holds the lock for it, and a pod it has found
\* empty is still empty.
EvictInv ==
  pc = "evict" =>
    \E to \in Pod : /\ ScalingDownTo(to)
                    /\ configured = to + 1
                    /\ ~view.occupied => \A r \in Replicas : home[r] # to

RInv == MoveInv /\ BalanceInv /\ ViewInv /\ EvictInv

\* An operation is told from the others by its type and its metadata.
LEMMA DifferentOps ==
  /\ \A m, n : (Lock!Op("ScalingDown", m) = Lock!Op("ScalingDown", n)) => m = n
  /\ \A m, n : (Lock!Balance(m) = Lock!Balance(n)) => m = n
  /\ \A m, n : Lock!Op("ScalingDown", m) # Lock!Balance(n)
  /\ \A m : Lock!Op("ScalingDown", m).operation = "ScalingDown"
  /\ \A n : Lock!Balance(n).operation = "BalanceReplicas"
  /\ Lock!NoOp.operation = "None"
BY DEF Lock!Op, Lock!Balance, Lock!NoOp

\* A running request is that of the operation that holds the lock.
LEMMA RunningIsLocked ==
  ASSUME RInv, NEW id \in RequestIds, task[id] = "running"
  PROVE  \/ id \in Pod /\ ScalingDownTo(id)
         \/ id \in BalanceReasons /\ lock = Lock!Balance(id)
BY DEF RInv, MoveInv, BalanceInv, RequestIds

\* While a scale down is locked no other request runs than its own.
LEMMA OnlyThisMove ==
  ASSUME RInv, NEW to \in Pod, ScalingDownTo(to), NEW id \in RequestIds, task[id] = "running"
  PROVE  id = to
BY RunningIsLocked, DifferentOps DEF ScalingDownTo

\* While a balancing is locked no other request runs than its own.
LEMMA OnlyThisBalance ==
  ASSUME RInv, NEW reason \in BalanceReasons, lock = Lock!Balance(reason),
         NEW id \in RequestIds, task[id] = "running"
  PROVE  id = reason
BY RunningIsLocked, DifferentOps DEF ScalingDownTo

\* While neither is locked none runs.
LEMMA NothingRuns ==
  ASSUME RInv, lock.operation \notin {"ScalingDown", "BalanceReplicas"}, NEW id \in RequestIds
  PROVE  task[id] # "running"
BY RunningIsLocked, DifferentOps DEF ScalingDownTo

\* A reconcile that ends while no request runs keeps the invariant.
LEMMA QuietEnd ==
  ASSUME Ended, \A id \in RequestIds : task'[id] # "running"
  PROVE  RInv'
BY DEF Ended, RInv, MoveInv, BalanceInv, ViewInv, EvictInv, RequestIds

\* So does one that ends while only the move of the locked operation runs.
LEMMA MoveGoesOn ==
  ASSUME Ended, NEW to \in Pod,
         \A id \in RequestIds : task'[id] = "running" => id = to,
         ScalingDownTo(to)', configured' = to + 1, to \in stopped'
  PROVE  RInv'
<1>1. to \notin BalanceReasons
  BY ScalingAssumption
<1> QED BY <1>1 DEF Ended, RInv, MoveInv, BalanceInv, ViewInv, EvictInv, RequestIds

\* So does one that ends while only the balancing of the locked operation runs.
LEMMA BalanceGoesOn ==
  ASSUME Ended, NEW reason \in BalanceReasons,
         \A id \in RequestIds : task'[id] = "running" => id = reason,
         lock' = Lock!Balance(reason), configured' > 1
  PROVE  RInv'
<1>1. reason \notin Pod
  BY ScalingAssumption
<1> QED BY <1>1 DEF Ended, RInv, MoveInv, BalanceInv, ViewInv, EvictInv, RequestIds

\* A request in progress is neither paused nor completed.
LEMMA InProgressGoesOn ==
  ASSUME NEW noTraffic, Conclude(InProgress, noTraffic, budget)
  PROVE  UNCHANGED lockVars /\ stopped' = noTraffic
<1>1. ~InProgress.complete /\ InProgress.inProgress
  BY DEF InProgress, Result
<1>2. ~MayPause(InProgress)
  BY <1>1 DEF MayPause
<1> QED BY Zenon, <1>1, <1>2 DEF Conclude

\* No call to Solr fails.
LEMMA SolrAnswers ==
  ASSUME TypeOK, Calm, Calm', NEW r, Results(r), NEW noTraffic,
         ConcludeFault("solr", r, noTraffic)
  PROVE  FALSE
<1>1. "solr" \in Disturbances
  BY DEF Disturbances
<1>2. budget'["solr"] # budget["solr"]
  BY <1>1, FaultEnds
<1> QED BY <1>2 DEF Calm, Undisturbed

\* One task changes, and does not run.
LEMMA TaskEnds ==
  ASSUME TypeOK, NEW id \in RequestIds, NEW s, s # "running",
         \A i \in RequestIds : task[i] = "running" => i = id,
         task' = [task EXCEPT ![id] = s]
  PROVE  \A i \in RequestIds : task'[i] # "running"
BY DEF TypeOK
\* A step that leaves every request as it is, in a reconcile that ends while
\* none runs.
LEMMA QuietHandler ==
  ASSUME Ended, task' = task, \A id \in RequestIds : task[id] # "running"
  PROVE  RInv'
BY QuietEnd

\* No lock is held, or that of a scale up: no request runs.
LEMMA OtherOpsKeepRequests ==
  ASSUME IInv, RInv, DetermineClusterOp \/ ScaleUp
  PROVE  RInv'
<1>1. lock.operation \notin {"ScalingDown", "BalanceReplicas"}
  BY Zenon, DifferentOps DEF DetermineClusterOp, ScaleUp
<1>2. \A id \in RequestIds : task[id] # "running"
  BY <1>1, NothingRuns
<1>3. Ended
  BY DetermineTypes, ScaleUpTypes DEF IInv, HandlerType
<1>4. task' = task
  BY Zenon DEF DetermineClusterOp, ScaleUp, solrVars
<1> QED BY <1>2, <1>3, <1>4, QuietHandler

\* A scale down that does not evict, or cannot, has no move running.
LEMMA ScaleDownKeepsRequests ==
  ASSUME IInv, RInv, NEW to \in Pod, ScaleDownWithoutEviction(to) \/ CannotStopPod(to)
  PROVE  RInv'
<1>1. ScalingDownTo(to) /\ task' = task
  BY DEF ScaleDownWithoutEviction, CannotStopPod, solrVars
<1>2. task[to] # "running"
  <2> SUFFICES ASSUME task[to] = "running" PROVE FALSE
    OBVIOUS
  <2>1. CASE ScaleDownWithoutEviction(to)
    <3>1. pc # "idle" /\ (NumPods <= to \/ configured # to + 1)
      BY <2>1 DEF ScaleDownWithoutEviction
    <3>2. NumPods > to /\ configured = to + 1
      BY <3>1 DEF RInv, MoveInv
    <3>3. NumPods \in Nat
      <4>1. IsFiniteSet(Pod)
        BY ScalingAssumption, FS_Interval DEF Pod
      <4>2. view.pods \in SUBSET Pod
        BY DEF IInv, TypeOK
      <4> QED BY <4>1, <4>2, FS_Subset, FS_CardinalityType DEF NumPods
    <3>4. to \in Nat
      BY ScalingAssumption DEF Pod
    <3> QED BY <3>1, <3>2, <3>3, <3>4
  <2>2. CASE CannotStopPod(to)
    <3>1. pc # "idle" /\ (~Stoppable(to) \/ to \notin view.stopped)
      BY <2>2 DEF CannotStopPod
    <3>2. to \in view.stopped /\ to \in view.pods
      BY <3>1 DEF RInv, MoveInv
    <3> QED BY <3>1, <3>2 DEF Stoppable
  <2> QED BY <2>1, <2>2
<1>3. \A id \in RequestIds : task[id] # "running"
  BY <1>1, <1>2, OnlyThisMove
<1>4. Ended
  <2>1. pc' = "idle"
    <3>1. \E r, left : Conclude(r, stopped, left)
      BY DEF ScaleDownWithoutEviction, CannotStopPod, ConcludeFault
    <3> QED BY <3>1 DEF Conclude, Finish
  <2>2. ~Reads(to)
    BY <2>1 DEF Reads
  <2> QED BY <2>2, ScaleDownTypes DEF IInv, HandlerType
<1> QED BY <1>1, <1>3, <1>4, QuietHandler

\* Asking Solr about the pod.
LEMMA ReadKeepsRequests ==
  ASSUME IInv, RInv, Calm, Calm', NEW to \in Pod, ReadClusterStatus(to)
  PROVE  RInv'
<1>1. ~ConcludeFault("solr", Failed, stopped)
  BY SolrAnswers, HandlerResults DEF IInv
<1>2. /\ pc = "reconcile" /\ ScalingDownTo(to) /\ configured = to + 1
      /\ pc' = "evict"
      /\ view' = [view EXCEPT !.occupied = \E r \in Replicas : home[r] = to]
      /\ UNCHANGED <<configured, pods, stopped, home, task, lock>>
  BY <1>1 DEF ReadClusterStatus, podVars, solrVars, lockVars
<1>3. /\ view'.pods = view.pods /\ view'.stopped = view.stopped
      /\ view'.occupied = \E r \in Replicas : home[r] = to
  BY <1>2 DEF IInv, TypeOK
<1>4. NumPods' = NumPods
  BY <1>3 DEF NumPods
<1>5. MoveInv'
  BY <1>2, <1>3, <1>4 DEF RInv, MoveInv, ScalingDownTo
<1>6. BalanceInv'
  BY <1>2 DEF RInv, BalanceInv
<1>7. ViewInv'
  BY <1>2, <1>3 DEF RInv, ViewInv
<1>8. EvictInv'
  <2>1. ScalingDownTo(to)'
    BY <1>2 DEF ScalingDownTo
  <2> QED BY <1>2, <1>3, <2>1 DEF EvictInv
<1> QED BY <1>5, <1>6, <1>7, <1>8 DEF RInv

\* The pod that is evicted is the one the invariant speaks of.
LEMMA EvictedPod ==
  ASSUME RInv, NEW to \in Pod, Evicting(to)
  PROVE  /\ configured = to + 1
         /\ ~view.occupied => \A r \in Replicas : home[r] # to
BY DifferentOps DEF RInv, EvictInv, Evicting, ScalingDownTo

\* Evicting a pod: its move starts, goes on or has ended.
LEMMA EvictKeepsRequests ==
  ASSUME IInv, RInv, Calm, Calm', NEW to \in Pod,
         \/ MoveStatusUnknown(to) \/ StartMove(to) \/ AwaitMove(to)
         \/ RemoveEmptyPod(to) \/ EndMove(to)
  PROVE  RInv'
<1>1. Evicting(to)
  BY DEF MoveStatusUnknown, StartMove, AwaitMove, RemoveEmptyPod, EndMove
<1>2. ScalingDownTo(to) /\ pc = "evict" /\ Stoppable(to)
  BY <1>1 DEF Evicting
<1>3. \A id \in RequestIds : task[id] = "running" => id = to
  BY <1>2, OnlyThisMove
<1>4. Ended /\ TypeOK /\ to \in RequestIds
  BY EvictTypes DEF IInv, HandlerType, RequestIds
<1>5. configured = to + 1
  BY <1>1, EvictedPod
<1>6. to \in NowStopped(to)
  <2>1. to < configured
    BY <1>5, ScalingAssumption DEF Pod
  <2> QED BY <1>2, <2>1 DEF RInv, ViewInv, NowStopped
<1>7. /\ ~ConcludeFault("solr", Failed, NowStopped(to))
      /\ ~ConcludeFault("solr", FailedInProgress, NowStopped(to))
  BY <1>4, SolrAnswers, HandlerResults
<1>8. CASE MoveStatusUnknown(to)
  BY <1>7, <1>8 DEF MoveStatusUnknown
<1>9. CASE StartMove(to) \/ AwaitMove(to)
  <2>1. /\ Conclude(InProgress, NowStopped(to), budget)
        /\ UNCHANGED configured
        /\ UNCHANGED task \/ task' = [task EXCEPT ![to] = "running"]
    BY <1>7, <1>9 DEF StartMove, AwaitMove, solrVars
  <2>2. UNCHANGED lock /\ to \in stopped'
    BY <1>6, <2>1, InProgressGoesOn DEF lockVars
  <2>3. \A id \in RequestIds : task'[id] = "running" => id = to
    BY <1>3, <1>4, <2>1 DEF TypeOK
  <2>4. ScalingDownTo(to)'
    BY <1>2, <2>2 DEF ScalingDownTo
  <2> QED BY <1>4, <1>5, <2>1, <2>2, <2>3, <2>4, MoveGoesOn
<1>10. CASE RemoveEmptyPod(to)
  <2>1. task' = task /\ task[to] = "notfound"
    BY <1>10 DEF RemoveEmptyPod, solrVars
  <2> QED BY <1>3, <1>4, <2>1, QuietHandler
<1>11. CASE EndMove(to)
  <2>1. task' = [task EXCEPT ![to] = "notfound"]
    BY <1>7, <1>11 DEF EndMove
  <2>2. \A id \in RequestIds : task'[id] # "running"
    BY Zenon, <1>3, <1>4, <2>1, TaskEnds
  <2> QED BY <1>4, <2>2, QuietEnd
<1> QED BY <1>8, <1>9, <1>10, <1>11
\* Balancing the replicas: the request starts, goes on or has ended.
LEMMA BalanceKeepsRequests ==
  ASSUME IInv, RInv, Calm, Calm', NEW reason \in BalanceReasons,
         \/ BalanceUnneeded(reason) \/ BalanceStatusUnknown(reason) \/ StartBalance(reason)
         \/ AwaitBalance(reason) \/ EndBalance(reason)
  PROVE  RInv'
<1>1. lock = Lock!Balance(reason) /\ UNCHANGED configured
  BY DEF BalanceUnneeded, BalanceStatusUnknown, StartBalance, AwaitBalance, EndBalance, Balancing
<1>2. Ended /\ TypeOK /\ reason \in RequestIds
  BY BalanceTypes DEF IInv, HandlerType, RequestIds
<1>3. \A id \in RequestIds : task[id] = "running" => id = reason
  BY <1>1, OnlyThisBalance
<1>4. /\ ~ConcludeFault("solr", Failed, stopped)
      /\ ~ConcludeFault("solr", FailedInProgress, stopped)
  BY <1>2, SolrAnswers, HandlerResults
<1>5. CASE BalanceUnneeded(reason)
  <2>1. configured <= 1 /\ task' = task
    BY <1>5 DEF BalanceUnneeded, solrVars
  <2>2. configured \in Nat
    BY <1>2, ScalingAssumption DEF TypeOK
  <2>3. task[reason] # "running"
    BY <2>1, <2>2 DEF RInv, BalanceInv
  <2> QED BY <1>2, <1>3, <2>1, <2>3, QuietHandler
<1>6. CASE BalanceStatusUnknown(reason)
  BY <1>4, <1>6 DEF BalanceStatusUnknown
<1>7. CASE \/ StartBalance(reason) /\ UNCHANGED task
           \/ EndBalance(reason)
  <2>1. task[reason] # "running" /\ (UNCHANGED task \/ task' = [task EXCEPT ![reason] = "notfound"])
    BY <1>4, <1>7 DEF StartBalance, EndBalance
  <2>2. \A id \in RequestIds : task'[id] # "running"
    BY <1>2, <1>3, <2>1, TaskEnds
  <2> QED BY <1>2, <2>2, QuietEnd
<1>8. CASE \/ StartBalance(reason) /\ ~UNCHANGED task
           \/ AwaitBalance(reason)
  <2>1. /\ configured > 1
        /\ Conclude(InProgress, stopped, budget)
        /\ UNCHANGED task \/ task' = [task EXCEPT ![reason] = "running"]
    BY <1>4, <1>8 DEF StartBalance, AwaitBalance, solrVars
  <2>2. UNCHANGED lock
    BY <2>1, InProgressGoesOn DEF lockVars
  <2>3. \A id \in RequestIds : task'[id] = "running" => id = reason
    BY <1>2, <1>3, <2>1 DEF TypeOK
  <2> QED BY <1>1, <1>2, <2>1, <2>2, <2>3, BalanceGoesOn
<1> QED BY <1>5, <1>6, <1>7, <1>8

\* A reconcile begins.
LEMMA BeginKeepsRequests ==
  ASSUME IInv, RInv, Calm, Begin
  PROVE  RInv'
<1>1. /\ pc = "idle" /\ pc' = "reconcile"
      /\ view' = [spec |-> spec, pods |-> pods, ready |-> ReadyReplicas,
                  stopped |-> stopped, occupied |-> FALSE]
      /\ UNCHANGED <<configured, pods, stopped, home, task, lock>>
  BY DEF Begin, podVars, solrVars, lockVars
<1>2. view'.pods = pods /\ view'.stopped = stopped
  BY <1>1
<1>3. NumPods' = Cardinality(pods)
  BY <1>2 DEF NumPods
<1>4. MoveInv'
  BY <1>1, <1>2, <1>3 DEF IInv, TypeOK, RInv, MoveInv, ScalingDownTo, Calm, EnoughPods
<1>5. BalanceInv'
  BY <1>1 DEF RInv, BalanceInv
<1>6. ViewInv' /\ EvictInv'
  BY <1>1, <1>2 DEF ViewInv, EvictInv
<1> QED BY <1>4, <1>5, <1>6 DEF RInv

\* A step that takes no pod of the StatefulSet, and starts no request, while
\* the lock stands still and the reconcile too, if it is not cut off.
LEMMA OutsideKeepsRequests ==
  ASSUME RInv, UNCHANGED <<configured, lock>>,
         pc' # "idle" => UNCHANGED <<pc, view>>,
         \A p \in Pod : p < configured /\ p \in pods => p \in pods',
         \A p \in Pod : p < configured /\ p \in stopped => p \in stopped',
         \A id \in RequestIds : task'[id] = "running" => task[id] = "running",
         pc' = "evict" => home' = home
  PROVE  RInv'
<1>1. MoveInv'
  <2> SUFFICES ASSUME NEW to \in Pod, task'[to] = "running"
               PROVE  /\ ScalingDownTo(to)' /\ configured' = to + 1 /\ to \in stopped'
                      /\ pc' # "idle" => /\ to \in view'.stopped /\ to \in view'.pods
                                         /\ NumPods' > to
    BY DEF MoveInv
  <2>1. task[to] = "running"
    BY DEF RequestIds
  <2>2. ScalingDownTo(to) /\ configured = to + 1 /\ to \in stopped
    BY <2>1 DEF RInv, MoveInv
  <2>3. pc' # "idle" => to \in view.stopped /\ to \in view.pods /\ NumPods > to
    BY <2>1 DEF RInv, MoveInv
  <2>4. to < configured
    BY <2>2, ScalingAssumption DEF Pod
  <2>5. ScalingDownTo(to)'
    BY <2>2 DEF ScalingDownTo
  <2>6. pc' # "idle" => NumPods' = NumPods
    BY DEF NumPods
  <2> QED BY <2>2, <2>3, <2>4, <2>5, <2>6
<1>2. BalanceInv'
  BY DEF RInv, BalanceInv, RequestIds
<1>3. ViewInv'
  BY DEF RInv, ViewInv
<1>4. EvictInv'
  BY DEF RInv, EvictInv, ScalingDownTo
<1> QED BY <1>1, <1>2, <1>3, <1>4 DEF RInv

\* A replica moves: not onto a pod that was found empty and is being evicted.
LEMMA MovesKeepRequests ==
  ASSUME IInv, RInv, NEW id \in RequestIds, NEW r \in Replicas, NEW p \in Pod,
         ReplicaMoves(id, r, p)
  PROVE  RInv'
<1>1. /\ task[id] = "running" /\ (id \in Pod => home[r] = id)
      /\ home' = [home EXCEPT ![r] = p]
      /\ UNCHANGED <<configured, lock, view, pc, pods, stopped, task>>
  BY DEF ReplicaMoves, podVars, lockVars
<1>2. MoveInv'
  <2>1. NumPods' = NumPods
    BY <1>1 DEF NumPods
  <2> QED BY <1>1, <2>1 DEF RInv, MoveInv, ScalingDownTo
<1>3. BalanceInv'
  BY <1>1 DEF RInv, BalanceInv
<1>4. ViewInv'
  BY <1>1 DEF RInv, ViewInv
<1>5. EvictInv'
  <2> SUFFICES ASSUME pc = "evict"
               PROVE  \E to \in Pod : /\ ScalingDownTo(to) /\ configured = to + 1
                                      /\ ~view.occupied => \A q \in Replicas : home'[q] # to
    BY <1>1 DEF EvictInv, ScalingDownTo
  <2>1. PICK to \in Pod : /\ ScalingDownTo(to) /\ configured = to + 1
                          /\ ~view.occupied => \A q \in Replicas : home[q] # to
    BY DEF RInv, EvictInv
  <2>2. id = to
    BY <1>1, <2>1, OnlyThisMove
  <2>3. view.occupied
    BY <1>1, <2>1, <2>2
  <2> QED BY <2>1, <2>3
<1> QED BY <1>2, <1>3, <1>4, <1>5 DEF RInv
\* Every step of calm states keeps requests and lock together.
LEMMA RequestsKept ==
  ASSUME IInv, RInv, Calm, Calm', [Next]_vars
  PROVE  RInv'
<1>0. TypeOK
  BY DEF IInv
<1>1. CASE ReconcileStep
  BY <1>1, OtherOpsKeepRequests, ScaleDownKeepsRequests, ReadKeepsRequests, EvictKeepsRequests,
     BalanceKeepsRequests DEF ReconcileStep
<1>2. CASE OperatorRestarts
  BY <1>2, OutsideKeepsRequests DEF OperatorRestarts, podVars, solrVars, lockVars
<1>3. CASE TimePasses
  BY <1>3, OutsideKeepsRequests DEF TimePasses, Lock!TimePasses, podVars, solrVars
<1>4. ASSUME NEW s \in Specs, UserEdits(s)
      PROVE  RInv'
  BY <1>4, OutsideKeepsRequests DEF UserEdits, podVars, solrVars, lockVars
<1>5. ASSUME NEW p \in Pod, PodCreated(p) \/ PodReady(p)
      PROVE  RInv'
  <2>1. /\ pods \subseteq pods'
        /\ UNCHANGED <<configured, stopped, home, task, lock, pc, view>>
    BY <1>5 DEF PodCreated, PodReady, solrVars, lockVars
  <2> QED BY <2>1, OutsideKeepsRequests
<1>6. ASSUME NEW p \in Pod, PodDeleted(p)
      PROVE  RInv'
  <2>1. /\ p >= configured /\ pods' = pods \ {p} /\ stopped' = stopped \ {p}
        /\ UNCHANGED <<configured, home, task, lock, pc, view>>
    BY <1>6 DEF PodDeleted, PodGone, solrVars, lockVars
  <2>2. \A q \in Pod : q < configured => q # p
    BY <1>0, <2>1, ScalingAssumption DEF Pod, TypeOK
  <2> QED BY <2>1, <2>2, OutsideKeepsRequests
<1>7. ASSUME NEW p \in Pod, PodLost(p)
      PROVE  FALSE
  <2>1. "pod" \in Disturbances /\ budget \in Budgets
    BY <1>0 DEF Disturbances, TypeOK, Budgets
  <2>2. budget["pod"] \in Nat /\ budget'["pod"] = budget["pod"] - 1
    BY <1>7, <2>1, WithoutOne DEF PodLost, Spend, Budgets
  <2> QED BY <2>2 DEF Calm, Undisturbed
<1>8. ASSUME NEW id \in RequestIds, TaskCompletes(id) \/ TaskFails(id)
      PROVE  RInv'
  <2>1. /\ task' \in {[task EXCEPT ![id] = "completed"], [task EXCEPT ![id] = "failed"]}
        /\ UNCHANGED <<configured, pods, stopped, home, lock, pc, view>>
    BY <1>8 DEF TaskCompletes, TaskFails, podVars, lockVars
  <2>2. \A i \in RequestIds : task'[i] = "running" => task[i] = "running"
    BY <1>0, <2>1 DEF TypeOK
  <2> QED BY <2>1, <2>2, OutsideKeepsRequests
<1>9. CASE UNCHANGED vars
  BY <1>9, OutsideKeepsRequests DEF vars
<1> QED BY <1>1, <1>2, <1>3, <1>4, <1>5, <1>6, <1>7, <1>8, <1>9, BeginKeepsRequests,
           MovesKeepRequests DEF Next

\* No request runs at the start.
LEMMA RequestsInitially == Init => RInv
<1> SUFFICES ASSUME Init PROVE RInv
  OBVIOUS
<1>1. pc = "idle" /\ \A id \in RequestIds : task[id] # "running"
  BY DEF Init
<1> QED BY <1>1 DEF RInv, MoveInv, BalanceInv, ViewInv, EvictInv, RequestIds

\* The invariant about requests holds as long as the states are calm.
LEMMA RequestsInvariance == Spec /\ []Calm => []RInv
BY RequestsInitially, RequestsKept, Invariance, PTL DEF Spec

\* As long as Solr answers, no pod is lost and a scale down finds the pods it
\* counts on, Solr runs no move and no balancing that the lock does not stand
\* for: no operation is paused, completed or cleared while its request runs,
\* whatever the user edits, however often the API server or a request fails and
\* wherever the operator restarts.
THEOREM CalmRequestsAreLocked == Spec /\ []Calm => []RequestsAreLocked
<1>1. RInv => RequestsAreLocked
  BY RunningIsLocked DEF RequestsAreLocked, ScalingDownTo
<1> QED BY <1>1, RequestsInvariance, PTL

\* In a step of calm states a managed scale down takes away an empty pod.
LEMMA TakenPodsAreEmpty ==
  ASSUME IInv, RInv, [Next]_vars,
         configured' < configured, configured' > 0, view.spec.vacate
  PROVE  \A r \in Replicas : home[r] \notin configured'..(configured - 1)
<1>0. TypeOK /\ configured \in Nat
  BY ScalingAssumption DEF IInv, TypeOK
<1>1. configured' # configured
  BY <1>0
<1>2. CASE DetermineClusterOp
  <2>1. Unmanaged /\ configured' = view.spec.replicas
    BY Zenon, <1>1, <1>2 DEF DetermineClusterOp, ScaleUnmanaged
  <2>2. ManagedDown
    BY <1>0, <2>1, ViewedReplicas DEF ManagedDown
  <2> QED BY <2>1, <2>2 DEF Unmanaged
<1>3. CASE ScaleUp
  <2>1. configured < configured'
    BY <1>1, <1>3 DEF ScaleUp
  <2>2. configured' \in Nat
    BY <1>3, ScaleUpTypes, ScalingAssumption DEF HandlerType
  <2> QED BY <1>0, <2>1, <2>2
<1>4. ASSUME NEW to \in Pod, RemoveEmptyPod(to) \/ EndMove(to)
      PROVE  \A r \in Replicas : home[r] \notin configured'..(configured - 1)
  <2>1. Evicting(to) /\ ~view.occupied /\ RemovePod(to)
    BY <1>1, <1>4 DEF RemoveEmptyPod, EndMove
  <2>2. configured' = to
    BY <1>1, <2>1 DEF RemovePod
  <2>3. configured = to + 1 /\ \A r \in Replicas : home[r] # to
    BY <2>1, EvictedPod
  <2>4. to \in Nat /\ \A r \in Replicas : home[r] \in Nat
    BY <1>0, ScalingAssumption DEF TypeOK, Pod
  <2> QED BY <2>2, <2>3, <2>4
<1>5. ASSUME NEW to \in Pod,
             \/ ScaleDownWithoutEviction(to) \/ ReadClusterStatus(to) \/ CannotStopPod(to)
             \/ MoveStatusUnknown(to) \/ StartMove(to) \/ AwaitMove(to)
      PROVE  UNCHANGED configured
  BY <1>5 DEF ScaleDownWithoutEviction, ReadClusterStatus, CannotStopPod, MoveStatusUnknown,
              StartMove, AwaitMove
<1>6. ASSUME NEW reason \in BalanceReasons,
             \/ BalanceUnneeded(reason) \/ BalanceStatusUnknown(reason) \/ StartBalance(reason)
             \/ AwaitBalance(reason) \/ EndBalance(reason)
      PROVE  UNCHANGED configured
  BY <1>6 DEF BalanceUnneeded, BalanceStatusUnknown, StartBalance, AwaitBalance, EndBalance
<1>7. CASE Begin \/ OperatorRestarts \/ TimePasses \/ \E s \in Specs : UserEdits(s)
  BY <1>1, <1>7 DEF Begin, OperatorRestarts, TimePasses, UserEdits
<1>8. ASSUME NEW p \in Pod, PodCreated(p) \/ PodReady(p) \/ PodDeleted(p) \/ PodLost(p)
      PROVE  UNCHANGED configured
  BY <1>8 DEF PodCreated, PodReady, PodDeleted, PodLost, PodGone
<1>9. ASSUME NEW id \in RequestIds,
             \/ \E r \in Replicas, p \in Pod : ReplicaMoves(id, r, p)
             \/ TaskCompletes(id) \/ TaskFails(id)
      PROVE  UNCHANGED configured
  BY <1>9 DEF ReplicaMoves, TaskCompletes, TaskFails
<1>10. CASE UNCHANGED vars
  BY <1>1, <1>10 DEF vars
<1> QED BY <1>1, <1>2, <1>3, <1>4, <1>5, <1>6, <1>7, <1>8, <1>9, <1>10 DEF Next, ReconcileStep

\* Under the same conditions a scale down to a positive size with
\* vacatePodsOnScaleDown takes away only pods that hold no replica at that
\* moment, although Solr was asked earlier in the reconcile.
THEOREM CalmPodsAreVacated == Spec /\ []Calm => PodsAreVacated
<1>1. IInv /\ RInv /\ [Next]_vars =>
        [configured' < configured /\ configured' > 0 /\ view.spec.vacate =>
           \A r \in Replicas : home[r] \notin configured'..(configured - 1)]_vars
  BY TakenPodsAreEmpty
<1>2. Spec /\ []Calm =>
        [][configured' < configured /\ configured' > 0 /\ view.spec.vacate =>
             \A r \in Replicas : home[r] \notin configured'..(configured - 1)]_vars
  BY <1>1, Invariance, RequestsInvariance, PTL DEF Spec
<1> QED BY <1>2 DEF PodsAreVacated
=============================================================================
