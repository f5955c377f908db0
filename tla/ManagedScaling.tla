-------------------------- MODULE ManagedScaling --------------------------
(***************************************************************************)
(* Managed scaling of a SolrCloud: the reconcile that compares the wanted  *)
(* with the configured number of pods, the handlers of the ScalingDown,    *)
(* ScalingUp and BalanceReplicas operations, and the three systems they    *)
(* talk to: the StatefulSet controller, which creates and deletes pods;    *)
(* Solr, which moves replicas in asynchronous tasks; and the user, who     *)
(* edits spec.replicas at any time.                                        *)
(*                                                                         *)
(* The lock and the retry queue are those of ClusterOpLock: each reconcile *)
(* below ends with one of its steps, or leaves both as they are.           *)
(*                                                                         *)
(* A reconcile runs when something wakes it: a change of the SolrCloud or  *)
(* of the StatefulSet, a timer the previous reconcile asked for, or an     *)
(* error it returned.  Nothing that happens inside Solr, and no change of  *)
(* a pod that does not show in the StatefulSet's status, wakes it.  It     *)
(* works on the SolrCloud, the StatefulSet status and the pod list it read *)
(* at its start, which may be out of date by the time they are used.       *)
(***************************************************************************)
EXTENDS Naturals, FiniteSets, Sequences

CONSTANTS
  MaxPods,              \* bound on spec.replicas
  InitialSizes,         \* sizes the cluster may have at the start
  Replicas,             \* the replicas (cores) that live in the cluster
  Specs,                \* the specs the user gives to the SolrCloud
  BalanceSupported,     \* does this Solr version know the balance command?
  Bounds,               \* how often each kind of disturbance happens
  AfterScaleUp, AfterRollingUpdate, UndoFailedScaleDown, NoMetadata, MaxQueue

BalanceReasons == {AfterScaleUp, AfterRollingUpdate, UndoFailedScaleDown}

Pod == 0..(MaxPods - 1)

Disturbances == {"edit", "kube", "solr", "move", "balance", "pod"}

ASSUME ScalingAssumption ==
  /\ MaxPods \in Nat \ {0}
  /\ InitialSizes \subseteq 1..MaxPods
  /\ Specs \subseteq [replicas : 0..MaxPods, vacate : BOOLEAN, populate : BOOLEAN]
  /\ BalanceSupported \in BOOLEAN
  /\ MaxQueue \in Nat
  /\ Bounds \in [Disturbances -> Nat]
  /\ BalanceReasons \cap Pod = {}

VARIABLES
  spec,         \* of the SolrCloud: replicas, scaling.vacatePodsOnScaleDown
                \* and scaling.populatePodsOnScaleUp
  configured,   \* spec.replicas of the StatefulSet
  pods,         \* ordinals of the pods that exist
  ready,        \* of these, the ones in which Solr is up
  stopped,      \* pods whose condition "not stopped" is false: no traffic
  home,         \* the pod each replica lives on
  task,         \* state of Solr's asynchronous request for each request id
  lock, queue, age,
  wake,         \* is a reconcile due?
  pc,           \* where the running reconcile stands
  view,         \* what the running reconcile has read
  budget        \* disturbances left, by kind

lockVars == <<lock, queue, age>>
podVars == <<pods, ready>>
solrVars == <<home, task>>
vars == <<spec, configured, pods, ready, stopped, home, task, lock, queue,
          age, wake, pc, view, budget>>

Lock == INSTANCE ClusterOpLock WITH
          PodCounts <- 0..MaxPods, StorageSizes <- {}, Migrations <- {}

\* Request ids: "move-replicas-<pod>" and "balance-replicas-<reason>".
RequestIds == Pod \cup BalanceReasons
TaskStates == {"notfound", "running", "completed", "failed"}

\* What is left of the disturbances after one of this kind.
Without(kind, left) == [left EXCEPT ![kind] = @ - 1]

Spend(kind) ==
  /\ budget[kind] > 0
  /\ budget' = Without(kind, budget)

\* Readiness gates: a stopped pod is not counted as ready.
ReadyReplicas == Cardinality(ready \ stopped)

NoSpec == [replicas |-> 0, vacate |-> FALSE, populate |-> FALSE]
NoView ==
  [spec |-> NoSpec, pods |-> {}, ready |-> 0, stopped |-> {}, occupied |-> FALSE]

-----------------------------------------------------------------------------
Init ==
  /\ spec \in Specs
  /\ spec.replicas \in InitialSizes
  /\ configured = spec.replicas
  /\ pods = 0..(configured - 1)
  /\ ready = pods
  /\ stopped = {}
  /\ home \in [Replicas -> pods]
  /\ task = [id \in RequestIds |-> "notfound"]
  /\ lock = Lock!NoOp
  /\ queue = <<>>
  /\ age = 0
  /\ wake = FALSE
  /\ pc = "idle"
  /\ view = NoView
  /\ budget = Bounds

-----------------------------------------------------------------------------
(* The reconcile.                                                          *)

\* Reconcile starts: it reads the SolrCloud, the StatefulSet and the pods.
\* createCloudStatus sends it back until pods and StatefulSet status agree.
Begin ==
  /\ pc = "idle"
  /\ wake
  /\ pc' = "reconcile"
  /\ wake' = FALSE
  /\ view' = [spec |-> spec, pods |-> pods, ready |-> ReadyReplicas,
              stopped |-> stopped, occupied |-> FALSE]
  /\ UNCHANGED <<spec, configured, podVars, stopped, solrVars, lockVars, budget>>

\* Reconcile returns, asking to be run again or not.  Pods it has taken out
\* of traffic, or put back, show in the StatefulSet's status.
Finish(requeue) ==
  /\ pc' = "idle"
  /\ view' = NoView
  /\ wake' = (wake \/ requeue \/ Cardinality(ready \ stopped') # ReadyReplicas)

NumPods == Cardinality(view.pods)

\* determineScaleClusterOpLockIfNecessary
ManagedDown == view.spec.replicas \in 1..(configured - 1) /\ view.spec.vacate
ManagedUp == view.spec.replicas > configured /\ view.spec.populate
Unmanaged == view.spec.replicas # configured /\ ~ManagedDown /\ ~ManagedUp
PodsUnsettled ==
  \/ ManagedDown /\ NumPods > configured
  \/ ManagedUp /\ NumPods < configured

ScaleNeeded ==
  CASE PodsUnsettled -> Lock!NoOp
    [] ManagedDown /\ ~PodsUnsettled -> Lock!Op("ScalingDown", configured - 1)
    [] ManagedUp /\ ~PodsUnsettled   -> Lock!Op("ScalingUp", view.spec.replicas)
    [] view.spec.replicas = configured /\ Lock!IsQueued("ScalingDown") ->
         Lock!Balance(UndoFailedScaleDown)
    [] OTHER -> Lock!NoOp

\* An unmanaged scaling patches the StatefulSet on the spot.  The error of
\* that patch is overwritten by the step that follows, and so is lost.
ScaleUnmanaged ==
  \/ configured' = (IF Unmanaged THEN view.spec.replicas ELSE configured) /\ UNCHANGED budget
  \/ Unmanaged /\ Spend("kube") /\ UNCHANGED configured

\* No lock is held: start what has become necessary, or else retry the first
\* queued operation, or else do nothing.
DetermineClusterOp ==
  /\ pc = "reconcile"
  /\ lock = Lock!NoOp
  /\ UNCHANGED <<spec, podVars, stopped, solrVars>>
  /\ \/ /\ Lock!StartClusterOp(Lock!NoOp, Lock!NoOp, ScaleNeeded)
        /\ Finish(TRUE)
        /\ UNCHANGED <<configured, budget>>
     \/ /\ Lock!RetryNextQueuedClusterOp(Lock!NoOp, Lock!NoOp, ScaleNeeded)
        /\ Finish(TRUE)
        /\ ScaleUnmanaged
     \/ /\ Lock!OpToStart(Lock!NoOp, Lock!NoOp, ScaleNeeded) = Lock!NoOp
        /\ queue = <<>>
        /\ ScaleUnmanaged
        /\ Finish(PodsUnsettled \/ configured' # configured)
        /\ UNCHANGED lockVars
     \/ /\ \/ Lock!OpToStart(Lock!NoOp, Lock!NoOp, ScaleNeeded) # Lock!NoOp
           \/ queue # <<>>
        /\ Spend("kube")
        /\ configured' = (IF Unmanaged THEN view.spec.replicas ELSE configured)
        /\ Finish(TRUE)
        /\ UNCHANGED lockVars

-----------------------------------------------------------------------------
(* What the reconcile does with the result of an operation's handler.      *)

Result(complete, next, inProgress, failed, retry) ==
  [complete |-> complete, next |-> next, inProgress |-> inProgress,
   failed |-> failed, retry |-> retry]

\* Mutant: no timer is set while a request runs.
InProgressMutant == Result(FALSE, Lock!NoOp, TRUE, FALSE, FALSE)

Complete == Result(TRUE, Lock!NoOp, FALSE, FALSE, FALSE)
CompleteThen(op) == Result(TRUE, op, FALSE, FALSE, FALSE)
InProgress == Result(FALSE, Lock!NoOp, TRUE, FALSE, TRUE)
Wait == Result(FALSE, Lock!NoOp, FALSE, FALSE, FALSE)
RetryLater == Result(FALSE, Lock!NoOp, FALSE, FALSE, TRUE)
Failed == Result(FALSE, Lock!NoOp, FALSE, TRUE, FALSE)
FailedInProgress == Result(FALSE, Lock!NoOp, TRUE, TRUE, FALSE)

\* cleanupManagedCloudScaleDown: the pods that were out of traffic when the
\* reconcile started take traffic again.
Restored ==
  IF lock.operation = "ScalingDown" THEN view.stopped \cap view.pods ELSE {}

MayPause(r) == ~r.complete /\ ~r.inProgress /\ Lock!TimedOut(r.failed)

\* The lock is released, passed on, queued or kept.  Patching it may fail,
\* which leaves it as it was and makes the reconcile run again.
Conclude(r, noTraffic, left) ==
  \/ /\ r.complete
     /\ Lock!CompleteClusterOp(r.next)
     /\ stopped' = noTraffic
     /\ Finish(TRUE)
     /\ budget' = left
  \/ /\ MayPause(r)
     /\ Restored \subseteq pods
     /\ Lock!EnqueueClusterOp(r.failed)
     /\ stopped' = noTraffic \ Restored
     /\ Finish(TRUE)
     /\ budget' = left
  \/ /\ MayPause(r)
     /\ ~(Restored \subseteq pods)
     /\ stopped' = noTraffic \ Restored
     /\ Finish(TRUE)
     /\ budget' = left
     /\ UNCHANGED lockVars
  \/ /\ r.complete \/ MayPause(r)
     /\ left["kube"] > 0
     /\ budget' = Without("kube", left)
     /\ \E done \in SUBSET (IF r.complete THEN {} ELSE Restored) :
          stopped' = noTraffic \ done
     /\ Finish(TRUE)
     /\ UNCHANGED lockVars
  \/ /\ ~r.complete
     /\ ~MayPause(r)
     /\ stopped' = noTraffic
     /\ Finish(r.retry \/ r.failed)
     /\ budget' = left
     /\ UNCHANGED lockVars

\* The handler could not reach the API server, or Solr.
ConcludeFault(kind, r, noTraffic) ==
  /\ budget[kind] > 0
  /\ Conclude(r, noTraffic, Without(kind, budget))

-----------------------------------------------------------------------------
(* handleManagedCloudScaleUp.                                              *)

\* Mutant: the target is added to the size.
ScaleUpMutant ==
  /\ pc = "reconcile"
  /\ lock.operation = "ScalingUp"
  /\ configured' = configured + lock.metadata
  /\ Conclude(RetryLater, stopped, budget)
  /\ UNCHANGED <<spec, podVars, solrVars>>

ScaleUp ==
  LET to == lock.metadata
  IN  /\ pc = "reconcile"
      /\ lock.operation = "ScalingUp"
      /\ UNCHANGED <<spec, podVars, solrVars>>
      /\ \/ /\ configured < to
            /\ configured' = to
            /\ Conclude(RetryLater, stopped, budget)
         \/ /\ configured < to
            /\ UNCHANGED configured
            /\ ConcludeFault("kube", Failed, stopped)
         \/ /\ configured >= to
            /\ UNCHANGED configured
            /\ Conclude(IF NumPods >= configured
                          THEN CompleteThen(Lock!Balance(AfterScaleUp)) ELSE Wait,
                        stopped, budget)

-----------------------------------------------------------------------------
(* handleManagedCloudScaleDown: one pod at a time, the last one.           *)

ScalingDownTo(to) == lock = Lock!Op("ScalingDown", to)

\* Nothing to evict: the pods are gone, or about to be deleted, or there are
\* more of them than one scale down removes.
ScaleDownWithoutEviction(to) ==
  /\ pc = "reconcile"
  /\ ScalingDownTo(to)
  /\ NumPods <= to \/ configured # to + 1
  /\ Conclude(IF NumPods <= to \/ configured > to + 1 THEN Complete ELSE RetryLater,
              stopped, budget)
  /\ UNCHANGED <<spec, configured, podVars, solrVars>>

\* getReplicasForPod: ask Solr whether the pod holds replicas.
ReadClusterStatus(to) ==
  /\ pc = "reconcile"
  /\ ScalingDownTo(to)
  /\ NumPods > to
  /\ configured = to + 1
  /\ UNCHANGED <<spec, configured, podVars, solrVars>>
  /\ \/ /\ pc' = "evict"
        /\ view' = [view EXCEPT !.occupied = \E r \in Replicas : home[r] = to]
        /\ UNCHANGED <<stopped, lockVars, wake, budget>>
     \/ ConcludeFault("solr", Failed, stopped)

\* Can the pod be taken out of traffic?  It is not patched when the reconcile
\* has read that it is already.
Stoppable(to) == to \in view.pods /\ (to \in view.stopped \/ to \in pods)
NowStopped(to) == IF to \in view.stopped THEN stopped ELSE stopped \cup {to}

\* The pod is not there to be evicted, or could not be taken out of traffic.
CannotStopPod(to) ==
  /\ pc = "evict"
  /\ ScalingDownTo(to)
  /\ \/ ~Stoppable(to) /\ Conclude(Failed, stopped, budget)
     \/ /\ Stoppable(to)
        /\ to \notin view.stopped
        /\ ConcludeFault("kube", Failed, stopped)
  /\ UNCHANGED <<spec, configured, podVars, solrVars>>

Evicting(to) == pc = "evict" /\ ScalingDownTo(to) /\ Stoppable(to)

\* EvictReplicasForPodIfNecessary, by the state of the pod's move request.
MoveStatusUnknown(to) ==
  /\ Evicting(to)
  /\ ConcludeFault("solr", Failed, NowStopped(to))
  /\ UNCHANGED <<spec, configured, podVars, solrVars>>

\* REPLACENODE.  When the answer is lost Solr may or may not have accepted it.
StartMove(to) ==
  /\ Evicting(to)
  /\ task[to] = "notfound"
  /\ view.occupied
  /\ UNCHANGED <<spec, configured, podVars, home>>
  /\ \/ /\ task' = [task EXCEPT ![to] = "running"]
        /\ Conclude(InProgress, NowStopped(to), budget)
     \/ /\ \E accepted \in {"notfound", "running"} : task' = [task EXCEPT ![to] = accepted]
        /\ ConcludeFault("solr", Failed, NowStopped(to))

\* Mutant: a running move is not reported as a request in progress.
AwaitMoveMutant(to) ==
  /\ Evicting(to)
  /\ task[to] = "running"
  /\ Conclude(RetryLater, NowStopped(to), budget)
  /\ UNCHANGED <<spec, configured, podVars, solrVars>>

AwaitMove(to) ==
  /\ Evicting(to)
  /\ task[to] = "running"
  /\ Conclude(InProgress, NowStopped(to), budget)
  /\ UNCHANGED <<spec, configured, podVars, solrVars>>

\* The pod was found empty: the StatefulSet may delete it.
RemovePod(to) ==
  \/ configured' = to /\ Conclude(RetryLater, NowStopped(to), budget)
  \/ UNCHANGED configured /\ ConcludeFault("kube", Failed, NowStopped(to))

RemoveEmptyPod(to) ==
  /\ Evicting(to)
  /\ task[to] = "notfound"
  /\ ~view.occupied
  /\ RemovePod(to)
  /\ UNCHANGED <<spec, podVars, solrVars>>

\* Mutant: a move that has ended is taken for a successful one.
EndMoveMutant(to) ==
  /\ Evicting(to)
  /\ task[to] \in {"completed", "failed"}
  /\ task' = [task EXCEPT ![to] = "notfound"]
  /\ RemovePod(to)
  /\ UNCHANGED <<spec, podVars, home>>

\* The move has ended: its status is deleted, so that a failed move is tried
\* again.  Even after a successful one the pod is removed only if it had no
\* replicas when this reconcile asked.
EndMove(to) ==
  /\ Evicting(to)
  /\ task[to] \in {"completed", "failed"}
  /\ UNCHANGED <<spec, podVars, home>>
  /\ \/ /\ task' = [task EXCEPT ![to] = "notfound"]
        /\ IF task[to] = "completed" /\ ~view.occupied
             THEN RemovePod(to)
             ELSE UNCHANGED configured /\ Conclude(RetryLater, NowStopped(to), budget)
     \/ /\ \E s \in {task[to], "notfound"} : task' = [task EXCEPT ![to] = s]
        /\ UNCHANGED configured
        /\ ConcludeFault("solr", FailedInProgress, NowStopped(to))

-----------------------------------------------------------------------------
(* BalanceReplicasForCluster.                                              *)

Balancing(reason) == pc = "reconcile" /\ lock = Lock!Balance(reason)

\* One pod or none: there is nothing to balance.
BalanceUnneeded(reason) ==
  /\ Balancing(reason)
  /\ configured <= 1
  /\ Conclude(Complete, stopped, budget)
  /\ UNCHANGED <<spec, configured, podVars, solrVars>>

BalanceStatusUnknown(reason) ==
  /\ Balancing(reason)
  /\ configured > 1
  /\ ConcludeFault("solr", Failed, stopped)
  /\ UNCHANGED <<spec, configured, podVars, solrVars>>

\* The command is sent once all pods are ready; until then nothing is done,
\* and no timer is set.  A Solr without the command has nothing to balance.
StartBalance(reason) ==
  /\ Balancing(reason)
  /\ configured > 1
  /\ task[reason] = "notfound"
  /\ UNCHANGED <<spec, configured, podVars, home>>
  /\ \/ /\ configured # view.ready
        /\ UNCHANGED task
        /\ Conclude(Wait, stopped, budget)
     \/ /\ configured = view.ready
        /\ ~BalanceSupported
        /\ UNCHANGED task
        /\ Conclude(Complete, stopped, budget)
     \/ /\ configured = view.ready
        /\ BalanceSupported
        /\ task' = [task EXCEPT ![reason] = "running"]
        /\ Conclude(InProgress, stopped, budget)
     \/ /\ configured = view.ready
        /\ \E accepted \in {"notfound"} \cup (IF BalanceSupported THEN {"running"} ELSE {}) :
             task' = [task EXCEPT ![reason] = accepted]
        /\ ConcludeFault("solr", Failed, stopped)

AwaitBalance(reason) ==
  /\ Balancing(reason)
  /\ configured > 1
  /\ task[reason] = "running"
  /\ Conclude(InProgress, stopped, budget)
  /\ UNCHANGED <<spec, configured, podVars, solrVars>>

\* The balancing has ended and its status is deleted.  A failed one leaves the
\* lock as it is, and sets no timer.
EndBalance(reason) ==
  /\ Balancing(reason)
  /\ configured > 1
  /\ task[reason] \in {"completed", "failed"}
  /\ UNCHANGED <<spec, configured, podVars, home>>
  /\ \/ /\ task' = [task EXCEPT ![reason] = "notfound"]
        /\ Conclude(IF task[reason] = "completed" THEN Complete ELSE Wait, stopped, budget)
     \/ /\ \E s \in {task[reason], "notfound"} : task' = [task EXCEPT ![reason] = s]
        /\ ConcludeFault("solr", FailedInProgress, stopped)

-----------------------------------------------------------------------------
(* The operator process, the user, the StatefulSet controller and Solr.    *)

\* Mutant: the lock is in the memory of the operator.
OperatorRestartsMutant ==
  /\ pc # "idle"
  /\ Spend("kube")
  /\ pc' = "idle"
  /\ view' = NoView
  /\ wake' = TRUE
  /\ lock' = Lock!NoOp
  /\ UNCHANGED <<spec, configured, podVars, stopped, solrVars, queue, age>>

\* The operator restarts in the middle of a reconcile, and then reconciles
\* every SolrCloud.
OperatorRestarts ==
  /\ pc # "idle"
  /\ Spend("kube")
  /\ pc' = "idle"
  /\ view' = NoView
  /\ wake' = TRUE
  /\ UNCHANGED <<spec, configured, podVars, stopped, solrVars, lockVars>>

TimePasses ==
  /\ Lock!TimePasses
  /\ UNCHANGED <<spec, configured, podVars, stopped, solrVars, wake, pc, view, budget>>

UserEdits(s) ==
  /\ s # spec
  /\ Spend("edit")
  /\ spec' = s
  /\ wake' = TRUE
  /\ UNCHANGED <<configured, podVars, stopped, solrVars, lockVars, pc, view>>

PodCreated(p) ==
  /\ p < configured
  /\ p \notin pods
  /\ pods' = pods \cup {p}
  /\ wake' = TRUE
  /\ UNCHANGED <<spec, configured, ready, stopped, solrVars, lockVars, pc, view, budget>>

PodReady(p) ==
  /\ p \in pods \ ready
  /\ ready' = ready \cup {p}
  /\ wake' = TRUE
  /\ UNCHANGED <<spec, configured, pods, stopped, solrVars, lockVars, pc, view, budget>>

\* A deleted pod takes its readiness conditions with it, not its replicas:
\* they stay in Solr's cluster state.
PodGone(p) ==
  /\ p \in pods
  /\ pods' = pods \ {p}
  /\ ready' = ready \ {p}
  /\ stopped' = stopped \ {p}
  /\ wake' = TRUE
  /\ UNCHANGED <<spec, configured, solrVars, lockVars, pc, view>>

PodDeleted(p) == p >= configured /\ PodGone(p) /\ UNCHANGED budget

\* A pod of the StatefulSet is lost, with its machine for example.
PodLost(p) == p < configured /\ PodGone(p) /\ Spend("pod")

\* A running request moves one replica to a pod that is up.
ReplicaMoves(id, r, p) ==
  /\ task[id] = "running"
  /\ id \in Pod => home[r] = id
  /\ p \in ready \ {home[r]}
  /\ home' = [home EXCEPT ![r] = p]
  /\ UNCHANGED <<spec, configured, podVars, stopped, task, lockVars, wake, pc, view, budget>>

TaskCompletes(id) ==
  /\ task[id] = "running"
  /\ id \in Pod => \A r \in Replicas : home[r] # id
  /\ task' = [task EXCEPT ![id] = "completed"]
  /\ UNCHANGED <<spec, configured, podVars, stopped, home, lockVars, wake, pc, view, budget>>

TaskFails(id) ==
  /\ task[id] = "running"
  /\ Spend(IF id \in Pod THEN "move" ELSE "balance")
  /\ task' = [task EXCEPT ![id] = "failed"]
  /\ UNCHANGED <<spec, configured, podVars, stopped, home, lockVars, wake, pc, view>>

-----------------------------------------------------------------------------
\* The steps of a reconcile that has begun.
ReconcileStep ==
  \/ DetermineClusterOp
  \/ ScaleUp
  \/ \E to \in Pod : \/ ScaleDownWithoutEviction(to)
                     \/ ReadClusterStatus(to)
                     \/ CannotStopPod(to)
                     \/ MoveStatusUnknown(to)
                     \/ StartMove(to)
                     \/ AwaitMove(to)
                     \/ RemoveEmptyPod(to)
                     \/ EndMove(to)
  \/ \E reason \in BalanceReasons : \/ BalanceUnneeded(reason)
                                   \/ BalanceStatusUnknown(reason)
                                   \/ StartBalance(reason)
                                   \/ AwaitBalance(reason)
                                   \/ EndBalance(reason)

Next ==
  \/ Begin
  \/ ReconcileStep
  \/ OperatorRestarts
  \/ TimePasses
  \/ \E s \in Specs : UserEdits(s)
  \/ \E p \in Pod : PodCreated(p) \/ PodReady(p) \/ PodDeleted(p) \/ PodLost(p)
  \/ \E id \in RequestIds : \/ \E r \in Replicas, p \in Pod : ReplicaMoves(id, r, p)
                            \/ TaskCompletes(id)
                            \/ TaskFails(id)

Spec == Init /\ [][Next]_vars

\* The work queue runs what is due, timers fire, the StatefulSet controller
\* creates and deletes pods, Solr starts in them, and its tasks go on to an
\* end.  Nothing is assumed of the user and of disturbances.
Fairness ==
  /\ WF_vars(Begin)
  /\ WF_vars(ReconcileStep)
  /\ WF_vars(TimePasses)
  /\ \A p \in Pod : /\ WF_vars(PodCreated(p))
                    /\ WF_vars(PodReady(p))
                    /\ WF_vars(PodDeleted(p))
                    /\ WF_vars(\E r \in Replicas, q \in Pod : ReplicaMoves(p, r, q))
  /\ \A id \in RequestIds : WF_vars(TaskCompletes(id))

FairSpec == Spec /\ Fairness

-----------------------------------------------------------------------------
(* Properties.                                                             *)

\* The state of the cluster and of the reconcile has its type.
TypeOK ==
  /\ spec \in Specs
  /\ configured \in 0..MaxPods
  /\ pods \subseteq Pod
  /\ ready \subseteq pods
  /\ stopped \subseteq pods
  /\ home \in [Replicas -> Pod]
  /\ task \in [RequestIds -> TaskStates]
  /\ wake \in BOOLEAN
  /\ pc \in {"idle", "reconcile", "evict"}
  /\ view \in [spec : Specs \cup {NoSpec}, pods : SUBSET Pod, ready : 0..MaxPods,
               stopped : SUBSET Pod, occupied : BOOLEAN]
  /\ budget \in [Disturbances -> Nat]

\* The scaling and balancing handlers use the lock and the queue as every
\* cluster operation must.
UsesLock == Lock!Spec

\* A scale down to a positive size only takes away pods that hold no replica
\* at that moment, although Solr was asked about them earlier in the
\* reconcile (handleManagedCloudScaleDown, evictSinglePod).
PodsAreVacated ==
  [][configured' < configured /\ configured' > 0 /\ view.spec.vacate =>
       \A r \in Replicas : home[r] \notin configured'..(configured - 1)]_vars

\* Solr never expects a replica on a pod that a scale down has taken away
\* (scaling.adoc: replicas are moved off of the pods about to be deleted).
ReplicasOnKeptPods == \A r \in Replicas : home[r] < configured

\* Solr never runs a move or a balancing that the lock does not stand for: an
\* operation is not paused, nor another one started, while its request runs.
RequestsAreLocked ==
  \A id \in RequestIds :
    task[id] = "running" =>
      lock \in {Lock!Op("ScalingDown", id), Lock!Balance(id)}

\* While a scale down waits in the queue, the pods that are to stay take
\* traffic: it was cleaned up before it was queued
\* (cleanupManagedCloudScaleDown).
PausedScaleDownIsUndone ==
  Lock!IsQueued("ScalingDown") => \A p \in stopped : p >= configured

\* Once the user stops editing and disturbances cease, the cluster has the
\* wanted number of pods for good.
EventuallyScaled == <>[](configured = spec.replicas /\ pods = 0..(spec.replicas - 1))

\* ... all of them take traffic, and no operation is locked or queued.
EventuallySettled ==
  <>[](/\ configured = spec.replicas
       /\ pods = 0..(spec.replicas - 1)
       /\ stopped = {}
       /\ lock = Lock!NoOp
       /\ queue = <<>>)
=============================================================================
