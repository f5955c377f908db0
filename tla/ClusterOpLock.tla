--------------------------- MODULE ClusterOpLock ---------------------------
(***************************************************************************)
(* The cluster-operation lock of a SolrCloud and its retry queue: the      *)
(* section of SolrCloudReconciler.Reconcile that decides which cluster     *)
(* operation runs, and the helpers of solr_cluster_ops_util.go that write  *)
(* the two annotations of the StatefulSet.                                 *)
(*                                                                         *)
(* This is what every cluster operation promises to the others.  What an   *)
(* operation does while it holds the lock is left open: its handler may    *)
(* report any result that handler can report, and what the "determine"     *)
(* functions find necessary is any value they can return.  ManagedScaling  *)
(* fills in the scaling and balancing operations and implements this       *)
(* specification.                                                          *)
(*                                                                         *)
(* A reconcile reads both annotations and writes them with one patch, and  *)
(* reconciles of one SolrCloud never overlap, so each step below is one    *)
(* patch.  A patch that fails leaves both annotations as they were: it is  *)
(* a stuttering step here.                                                 *)
(***************************************************************************)
EXTENDS Naturals, Sequences

CONSTANTS
  PodCounts,            \* targets of scale operations (their metadata)
  StorageSizes,         \* targets of PVC expansions
  Migrations,           \* metadata of rolling updates: does data move?
  AfterScaleUp,         \* reasons for balancing replicas
  AfterRollingUpdate,
  UndoFailedScaleDown,
  NoMetadata,           \* metadata of no operation, or of an unknown one
  MaxQueue              \* model bound: the code does not bound the queue

ASSUME MaxQueueAssumption == MaxQueue \in Nat

VARIABLES
  lock,    \* annotation solr.apache.org/clusterOpsLock
  queue,   \* annotation solr.apache.org/clusterOpsRetryQueue
  age      \* time since the lock's LastStartTime: 0 up to a minute,
           \* 1 over a minute, 2 over ten minutes

vars == <<lock, queue, age>>

-----------------------------------------------------------------------------
(* Operations: SolrClusterOp, an operation with its metadata.              *)

Op(operation, metadata) == [operation |-> operation, metadata |-> metadata]

NoOp == Op("None", NoMetadata)

ScaleDowns == {Op("ScalingDown", n) : n \in PodCounts}
ScaleUps == {Op("ScalingUp", n) : n \in PodCounts}
Updates == {Op("RollingUpdate", m) : m \in Migrations}
Expansions == {Op("PVCExpansion", s) : s \in StorageSizes}
Balance(reason) == Op("BalanceReplicas", reason)
BalanceReasons == {AfterScaleUp, AfterRollingUpdate, UndoFailedScaleDown}
Balances == {Balance(r) : r \in BalanceReasons}
\* An operation only another version of the operator knows.
Unsupported == Op("Unsupported", NoMetadata)

SupportedOps == ScaleDowns \cup ScaleUps \cup Updates \cup Expansions \cup Balances
ClusterOps == SupportedOps \cup {Unsupported}

-----------------------------------------------------------------------------
(* The retry queue, as the section that starts operations looks at it.     *)

IsQueued(operation) == \E i \in DOMAIN queue : queue[i].operation = operation

\* The map queuedRetryOps keeps the last index of each operation type.
QueueIndex(operation) ==
  CHOOSE i \in DOMAIN queue :
    /\ queue[i].operation = operation
    /\ \A j \in DOMAIN queue : queue[j].operation = operation => j <= i

\* Mutant: nothing is necessary, and that takes the place of the queued one.
RequeuedMutant(q, operation, op) ==
  IF IsQueued(operation) THEN [q EXCEPT ![QueueIndex(operation)] = op] ELSE q

\* A newly determined operation takes the place of a queued one of its type.
Requeued(q, operation, op) ==
  IF op # NoOp /\ IsQueued(operation)
    THEN [q EXCEPT ![QueueIndex(operation)] = op]
    ELSE q

\* Mutant: the operation stays to be started although it is queued.
StillNewMutant(operation, op) == op

\* What is left to start once queued operations have been given new values.
StillNew(operation, op) == IF IsQueued(operation) THEN NoOp ELSE op

\* Both kinds of scaling queued at once: *clusterOp is read through nil.
ScaleOpClash == IsQueued("ScalingDown") /\ IsQueued("ScalingUp")

\* The operation to start, given what an update, a PVC expansion and a
\* scaling would need; NoOp when there is none that is not queued already.
OpToStart(update, expansion, scale) ==
  LET newUpdate    == StillNew("RollingUpdate", update)
      newExpansion == StillNew("PVCExpansion", expansion)
  IN  IF newUpdate # NoOp THEN newUpdate
      ELSE IF newExpansion # NoOp THEN newExpansion
      ELSE StillNew("ScalingUp", StillNew("ScalingDown", scale))

\* The queue with the new values of the operations that are queued already.
QueueToRetry(update, expansion, scale) ==
  LET q1 == Requeued(queue, "RollingUpdate", update)
      q2 == Requeued(q1, "PVCExpansion", expansion)
      q3 == Requeued(q2, "ScalingDown", scale)
  IN  Requeued(q3, "ScalingUp", scale)

\* What the three "determine" functions can return.  A scale down that is
\* queued and no longer wanted turns into a balancing of the replicas.
DeterminedUpdates == Updates \cup {NoOp}
DeterminedExpansions == Expansions \cup {NoOp}
DeterminedScales ==
  ScaleDowns \cup ScaleUps \cup {NoOp}
    \cup (IF IsQueued("ScalingDown") THEN {Balance(UndoFailedScaleDown)} ELSE {})

-----------------------------------------------------------------------------
Init ==
  /\ lock \in {NoOp, Unsupported}
  /\ queue \in {<<>>, <<Unsupported>>}
  /\ age = 0

\* No lock is held and something has to be done that is not queued: lock it.
StartClusterOp(update, expansion, scale) ==
  LET op == OpToStart(update, expansion, scale)
  IN  /\ lock = NoOp
      /\ op # NoOp
      /\ lock' = op
      /\ age' = 0
      /\ UNCHANGED queue

\* No lock is held and there is nothing new to do: retry the first queued
\* operation, with the values the queued operations have been given.
RetryNextQueuedClusterOp(update, expansion, scale) ==
  LET q == QueueToRetry(update, expansion, scale)
  IN  /\ lock = NoOp
      /\ OpToStart(update, expansion, scale) = NoOp
      /\ scale # NoOp => ~ScaleOpClash
      /\ queue # <<>>
      /\ lock' = Head(q)
      /\ queue' = Tail(q)
      /\ age' = 0

\* What a completed operation hands the lock to.
NextOps(op) ==
  IF op.operation = "ScalingUp" THEN {Balance(AfterScaleUp)}
  ELSE {NoOp} \cup
       (IF op.operation = "RollingUpdate" THEN {Balance(AfterRollingUpdate)} ELSE {})

\* The operation is complete: the lock is cleared, or passed on to the next
\* operation, in one patch.
CompleteClusterOp(next) ==
  /\ lock' = next
  /\ next \in NextOps(lock)
  /\ lock \in SupportedOps
  /\ age' = 0
  /\ UNCHANGED queue

\* Slow operations may run for ten minutes, the others for one.
ShortTimeout(operation) == operation \notin {"RollingUpdate", "PVCExpansion"}

\* May an operation in a stoppable place be queued for a later retry?
TimedOut(failed) ==
  \/ age >= 1 /\ (failed \/ ShortTimeout(lock.operation))
  \/ age = 2

\* Mutant: the queue annotation is overwritten, not extended.
EnqueueClusterOpMutant(failed) ==
  /\ lock \in SupportedOps
  /\ TimedOut(failed)
  /\ queue' = <<lock>>
  /\ lock' = NoOp
  /\ age' = 0

\* The operation is in a stoppable place and has taken too long: queue it.
EnqueueClusterOp(failed) ==
  /\ TimedOut(failed)
  /\ lock \in SupportedOps
  /\ Len(queue) < MaxQueue
  /\ queue' = Append(queue, lock)
  /\ lock' = NoOp
  /\ age' = 0

\* This version of the operator does not know the operation: drop it.
RemoveUnsupportedClusterOp ==
  /\ lock = Unsupported
  /\ lock' = NoOp
  /\ age' = 0
  /\ UNCHANGED queue

\* The clock passes one minute, then ten minutes, since the lock was taken.
TimePasses ==
  /\ lock # NoOp
  /\ age < 2
  /\ age' = age + 1
  /\ UNCHANGED <<lock, queue>>

Next ==
  \/ \E update \in DeterminedUpdates, expansion \in DeterminedExpansions,
        scale \in DeterminedScales :
       \/ StartClusterOp(update, expansion, scale)
       \/ RetryNextQueuedClusterOp(update, expansion, scale)
  \/ \E next \in Balances \cup {NoOp} : CompleteClusterOp(next)
  \/ \E failed \in BOOLEAN : EnqueueClusterOp(failed)
  \/ RemoveUnsupportedClusterOp
  \/ TimePasses

Spec == Init /\ [][Next]_vars

-----------------------------------------------------------------------------
(* Properties.                                                             *)

\* The two annotations hold operations this operator or another version of
\* it has written (setClusterOpLock, setClusterOpRetryQueue).
TypeOK ==
  /\ lock \in ClusterOps \cup {NoOp}
  /\ queue \in Seq(ClusterOps)
  /\ age \in 0..2

\* The kinds of operation that exclude one another, in the lock and in the
\* queue together.
Kinds == {{"ScalingDown", "ScalingUp"}, {"RollingUpdate"}, {"PVCExpansion"}}

\* However operations are started, paused and retried, the lock and the queue
\* together never hold two operations of one kind.  The reconcile relies on
\* it: with a scale up and a scale down both queued it reads the new
\* operation through a nil pointer (solrcloud_controller.go:625).
OneOpPerKind ==
  \A kind \in Kinds :
    /\ \A i, j \in DOMAIN queue :
         queue[i].operation \in kind /\ queue[j].operation \in kind => i = j
    /\ lock.operation \in kind =>
         \A i \in DOMAIN queue : queue[i].operation \notin kind

\* Is an operation with one of these types locked or queued?
Pending(kind) ==
  \/ lock.operation \in kind
  \/ \E i \in DOMAIN queue : queue[i].operation \in kind

\* Is this balancing of replicas locked or queued?
Owed(reason) ==
  \/ lock = Balance(reason)
  \/ \E i \in DOMAIN queue : queue[i] = Balance(reason)

\* The operation that holds the lock is completed by this step.
Completes(op) == lock = op /\ lock' \in NextOps(op) /\ queue' = queue

\* A rolling update, a PVC expansion or a balancing leaves the lock and the
\* queue only by being completed, and a scaling only by being completed or by
\* turning into a balancing.
Remembers ==
  /\ \A reason \in BalanceReasons :
       Owed(reason) => Owed(reason)' \/ Completes(Balance(reason))
  /\ \A kind \in Kinds :
       Pending(kind) =>
         \/ Pending(kind)'
         \/ lock.operation \in kind /\ Completes(lock)
         \/ "ScalingDown" \in kind /\ Owed(UndoFailedScaleDown)'

\* An operation that was started is carried on, whatever is paused, retried or
\* given new values in between, by reconciles that each look at the lock and
\* the queue only.
NothingForgotten == [][Remembers]_vars
=============================================================================
