--------------------------- MODULE RollingUpdate ---------------------------
(***************************************************************************)
(* A managed rolling update: the reconcile that finds pods which do not    *)
(* have the StatefulSet's current revision, and the handler of the         *)
(* RollingUpdate operation, which takes such pods out of traffic, has      *)
(* Solr move their replicas away when their storage is ephemeral, and      *)
(* deletes them so that the StatefulSet controller makes them anew.        *)
(*                                                                         *)
(* The handler lists the pods, asks Solr for its cluster state, chooses    *)
(* pods, and then works through them one by one; pods, Solr and the user   *)
(* go on in the meantime.  The size of the StatefulSet does not change.    *)
(* A balancing of replicas that follows an update is a single step here:   *)
(* ManagedScaling has its handler.                                         *)
(***************************************************************************)
EXTENDS PodSelection

CONSTANTS
  MaxRevision,          \* bound on the revisions of the pod template
  BadRevisions,         \* revisions with which Solr does not start
  Clusters,             \* kinds of cluster: is the storage ephemeral, the size wanted
  InitialHomes,         \* where the replicas may be at the start
  MaxFaults,            \* bound on failures of calls, moves, pods and the operator,
                        \* and on edits after the first
  AfterScaleUp, AfterRollingUpdate, UndoFailedScaleDown, NoMetadata, MaxQueue

ASSUME UpdateAssumption ==
  /\ MaxRevision \in Nat
  /\ BadRevisions \subseteq 0..MaxRevision
  /\ Clusters \subseteq BOOLEAN \X Nat
  /\ InitialHomes \subseteq [Replicas -> Pod]
  /\ MaxFaults \in Nat
  /\ MaxQueue \in Nat

VARIABLES
  ephemeral,    \* do pods lose their data when they are deleted?
  wanted,       \* spec.replicas of the SolrCloud; a scaling waits for the update
  revision,     \* status.updateRevision of the StatefulSet
  pod,          \* the pods, by ordinal
  home, state,  \* the pod each replica is on, and its state
  leader,       \* the leader of each shard
  overseer,     \* the pod that is Solr's overseer
  task, moving, \* state of Solr's asynchronous move request for each pod, and the
                \* replicas it has still to move
  lock, queue, age,
  wake,         \* is a reconcile due?
  pc,           \* where the running reconcile stands
  view,         \* what the running reconcile has read and decided
  past,         \* what has happened so far: an update has been "paused", a pod was
                \* "lost", or a patch was "misdirected" to a pod of the same name
  faults        \* faults so far

lockVars == <<lock, queue, age>>
fixed == <<ephemeral, wanted>>
solrVars == <<home, state, leader, overseer, task, moving>>
vars == <<fixed, revision, pod, solrVars, lockVars, wake, pc, view, past, faults>>

Lock == INSTANCE ClusterOpLock WITH
          PodCounts <- {}, StorageSizes <- {}, Migrations <- BOOLEAN

TaskStates == {"notfound", "running", "completed", "failed"}

\* A pod is absent, has no started Solr container, has a live Solr node that
\* is not ready yet, or one that is.
Phases == {"absent", "starting", "live", "ready"}

\* "traffic" is the readiness condition SolrIsNotStopped: not there yet, true
\* with reason PodStarted, or false with reason PodUpdate.  When it turns false
\* SolrReplicasNotEvicted, if the pod has it, is given the reason
\* EvictingReplicas by the same patch, and both are restored together.
PodStates == [phase : Phases, revision : 0..MaxRevision,
              traffic : {"unset", "started", "stopped"}, terminating : BOOLEAN]

NewPod(r) == [phase |-> "starting", revision |-> r, traffic |-> "unset", terminating |-> FALSE]
AbsentPod == [phase |-> "absent", revision |-> 0, traffic |-> "unset", terminating |-> FALSE]

Exists(p) == pod[p].phase # "absent"
Live == {p \in Pod : pod[p].phase \in {"live", "ready"}}
Ready == {p \in Pod : pod[p].phase = "ready" /\ pod[p].traffic = "started"}
Cluster ==
  [live |-> Live, home |-> home, state |-> state, leader |-> leader, overseer |-> overseer]

\* The API is called through the service that has the ready pods as endpoints.
Reachable == Ready # {}

Fault ==
  /\ faults < MaxFaults
  /\ faults' = faults + 1

-----------------------------------------------------------------------------
(* createCloudStatus.                                                      *)

OutOfDate == {p \in Pod : Exists(p) /\ pod[p].revision # revision}
ScheduledForDeletion == {p \in OutOfDate : pod[p].traffic = "stopped"}

\* Mutant: a pod that has not started is listed with these too when it is
\* scheduled for deletion.
NotStartedMutant == {p \in OutOfDate : pod[p].phase = "starting"}

NotStarted == {p \in OutOfDate \ ScheduledForDeletion : pod[p].phase = "starting"}
Running == OutOfDate \ (ScheduledForDeletion \cup NotStarted)

NoView ==
  [listed |-> {}, scheduled |-> {}, notStarted |-> {}, running |-> {},
   available |-> 0, hasReady |-> FALSE, todo |-> <<>>, occupied |-> {},
   inProgress |-> FALSE, failed |-> FALSE, retry |-> FALSE]

ReadView ==
  [NoView EXCEPT !.listed = {p \in Pod : Exists(p)},
                 !.scheduled = ScheduledForDeletion,
                 !.notStarted = NotStarted,
                 !.running = Running,
                 !.available = Cardinality({p \in Ready : pod[p].revision = revision}),
                 !.hasReady = Ready # {}]

ViewOutOfDate == view.scheduled \cup view.notStarted \cup view.running

-----------------------------------------------------------------------------
Init ==
  /\ \E cluster \in Clusters :
       /\ ephemeral = cluster[1]
       /\ wanted = cluster[2]
  /\ revision = 0
  /\ pod = [p \in Pod |-> IF 0 \in BadRevisions THEN NewPod(0)
                         ELSE [NewPod(0) EXCEPT !.phase = "ready", !.traffic = "started"]]
  /\ home \in InitialHomes
  /\ state = [r \in Replicas |-> "active"]
  /\ leader \in [Shards -> Replicas]
  /\ \A shard \in Shards : ShardOf[leader[shard]] = shard
  /\ overseer \in IF Live = {} THEN {Nobody} ELSE Live
  /\ task = [p \in Pod |-> "notfound"]
  /\ moving = [p \in Pod |-> {}]
  /\ lock = Lock!NoOp
  /\ queue = <<>>
  /\ age = 0
  /\ wake = TRUE
  /\ pc = "idle"
  /\ view = NoView
  /\ past = {}
  /\ faults = 0

-----------------------------------------------------------------------------
(* The reconcile.                                                          *)

\* The pods with the condition SolrIsNotStopped changed.  A patch goes
\* to the pod of that name, whichever pod has it now.
WithTraffic(pods, value) ==
  [p \in Pod |-> IF p \in pods THEN [pod[p] EXCEPT !.traffic = value] ELSE pod[p]]

\* initializePods, createCloudStatus: new pods get their readiness condition.
\* What the reconcile knows of them is from before.
Begin ==
  LET new == {p \in Pod : Exists(p) /\ pod[p].traffic = "unset"}
  IN  /\ pc = "idle"
      /\ wake
      /\ \/ /\ pod' = WithTraffic(new, "started")
            /\ pc' = "reconcile"
            /\ view' = ReadView
            /\ wake' = \E p \in new : pod[p].phase = "ready"
            /\ UNCHANGED faults
         \/ /\ new # {}
            /\ \E done \in SUBSET new : pod' = WithTraffic(done, "started")
            /\ Fault
            /\ UNCHANGED <<pc, view, wake>>
      /\ UNCHANGED <<fixed, revision, solrVars, lockVars, past>>

\* A change of readiness shows in the StatefulSet's status, which is watched.
Finish(requeue) ==
  /\ pc' = "idle"
  /\ view' = NoView
  /\ wake' = (wake \/ requeue)

\* determineRollingUpdateClusterOpLockIfNecessary
UpdateNeeded ==
  IF ViewOutOfDate = {} THEN Lock!NoOp
  ELSE Lock!Op("RollingUpdate", ephemeral /\ view.running \cup view.scheduled # {})

DetermineClusterOp ==
  /\ pc = "reconcile"
  /\ lock = Lock!NoOp
  /\ UNCHANGED <<fixed, revision, pod, solrVars, past>>
  /\ \/ /\ \/ Lock!StartClusterOp(UpdateNeeded, Lock!NoOp, Lock!NoOp)
           \/ Lock!RetryNextQueuedClusterOp(UpdateNeeded, Lock!NoOp, Lock!NoOp)
        /\ Finish(TRUE)
        /\ UNCHANGED faults
     \/ /\ UpdateNeeded # Lock!NoOp \/ queue # <<>>
        /\ Fault
        /\ Finish(TRUE)
        /\ UNCHANGED lockVars
     \/ /\ UpdateNeeded = Lock!NoOp
        /\ queue = <<>>
        /\ Finish(FALSE)
        /\ UNCHANGED <<lockVars, faults>>

\* The update has no request in progress, and has failed and taken a minute or
\* has taken ten.
MayPause == ~view.inProgress /\ Lock!TimedOut(view.failed)

\* cleanupManagedCloudRollingUpdate: the pods that were scheduled for deletion
\* when the reconcile began take traffic again, and the operation is queued.
\* It stays locked when one of the patches fails.
Pause ==
  LET missing == {p \in view.scheduled : ~Exists(p)}
  IN  /\ MayPause
      /\ \/ /\ missing = {}
            /\ pod' = WithTraffic(view.scheduled, "started")
            /\ Lock!EnqueueClusterOp(view.failed)
            /\ UNCHANGED faults
         \/ /\ (missing # {} /\ UNCHANGED faults) \/ Fault
            /\ \E done \in SUBSET (view.scheduled \ missing) : pod' = WithTraffic(done, "started")
            /\ UNCHANGED lockVars
      /\ past' = past \cup {"paused"}
      /\ Finish(TRUE)

\* Mutant: the start time of the operation is written anew.
KeepLockMutant(requeue) ==
  /\ ~MayPause
  /\ Finish(requeue)
  /\ age' = 0
  /\ UNCHANGED <<pod, lock, queue, past, faults>>

KeepLock(requeue) ==
  /\ ~MayPause
  /\ Finish(requeue)
  /\ UNCHANGED <<pod, lockVars, past, faults>>

-----------------------------------------------------------------------------
(* handleManagedCloudRollingUpdate.                                        *)

Updating == pc = "reconcile" /\ lock.operation = "RollingUpdate"

\* Every pod is up to date and ready.  Replicas that were moved are balanced.
UpdateCompletes ==
  /\ Updating
  /\ view.available = NumPods
  /\ \/ /\ Lock!CompleteClusterOp(IF lock.metadata /\ wanted <= NumPods
                                     THEN Lock!Balance(AfterRollingUpdate)
                                     ELSE Lock!NoOp)
        /\ UNCHANGED faults
     \/ Fault /\ UNCHANGED lockVars
  /\ Finish(TRUE)
  /\ UNCHANGED <<fixed, revision, pod, solrVars, past>>

\* Every pod is up to date: wait for them to become ready.
AwaitPods ==
  /\ Updating
  /\ view.available # NumPods
  /\ ViewOutOfDate = {}
  /\ Pause \/ KeepLock(FALSE)
  /\ UNCHANGED <<fixed, revision, solrVars>>

PodsToUpdate ==
  /\ Updating
  /\ view.available # NumPods
  /\ ViewOutOfDate # {}

\* What is still used of the view once the pods to work on are known.
ViewToUpdate(todo) ==
  [NoView EXCEPT !.listed = view.listed \cap Range(todo), !.scheduled = view.scheduled,
                 !.notStarted = view.notStarted, !.todo = todo]

\* No pod is ready, so Solr cannot be asked: only pods in which it has not
\* started are updated.
SelectNotStarted ==
  /\ PodsToUpdate
  /\ ~view.hasReady
  /\ pc' = "update"
  /\ \E todo \in Orders(view.notStarted) :
       view' = [ViewToUpdate(todo) EXCEPT !.retry = TRUE]
  /\ UNCHANGED <<fixed, revision, pod, solrVars, lockVars, wake, past, faults>>

\* GetNodeReplicaState fails; this counts as a request in progress.
ClusterStateUnknown ==
  /\ PodsToUpdate
  /\ view.hasReady
  /\ (~Reachable /\ UNCHANGED faults) \/ Fault
  /\ Finish(TRUE)
  /\ UNCHANGED <<fixed, revision, pod, solrVars, lockVars, past>>

\* GetNodeReplicaState, DeterminePodsSafeToUpdate: the pods to work on are
\* those that have not started, those chosen earlier and those chosen now.
\* What Solr answers and what is selected are bound by \E: TLC computes them once.
SelectPods ==
  /\ PodsToUpdate
  /\ view.hasReady
  /\ Reachable
  /\ pc' = "update"
  /\ UNCHANGED <<fixed, revision, pod, solrVars, lockVars, wake, past, faults>>
  /\ \E cluster \in {Cluster} :
       \E selected \in {DeterminePodsSafeToUpdate(cluster, view.running, view.scheduled,
                                                  view.notStarted, view.available)},
          first \in Orders(view.notStarted), then \in Orders(view.scheduled) :
         view' = [ViewToUpdate(first \o then \o selected.pods) EXCEPT
                    !.occupied = {p \in Pod : ReplicasOn(cluster, p) # {}},
                    !.retry = selected.retry]

-----------------------------------------------------------------------------
(* DeletePodForUpdate, for one of the pods after the other.                *)

\* Done with pod p, which had this outcome.
PodHandled(p, inProgress, failed, retry) ==
  view' = [view EXCEPT !.todo = Tail(@), !.inProgress = @ \/ inProgress,
                       !.failed = @ \/ failed, !.retry = @ \/ retry]

Handling(p) == pc = "update" /\ view.todo # <<>> /\ p = Head(view.todo)

\* The pod can be patched, or needs no patch; it is out of traffic then.
Stoppable(p) == p \in view.scheduled \/ Exists(p)
Stopped(p) == IF p \in view.scheduled THEN pod ELSE WithTraffic({p}, "stopped")

\* Taking the pod out of traffic shows in the StatefulSet's status.
StopPod(p) ==
  /\ wake' = (wake \/ (p \in Ready /\ p \notin view.scheduled))
  /\ past' = past \cup (IF p \in view.scheduled \cup view.listed THEN {} ELSE {"misdirected"})

CannotStopPod(p) ==
  /\ Handling(p)
  /\ \/ ~Stoppable(p) /\ UNCHANGED faults
     \/ Stoppable(p) /\ p \notin view.scheduled /\ Fault
  /\ PodHandled(p, FALSE, TRUE, FALSE)
  /\ UNCHANGED <<fixed, revision, pod, solrVars, lockVars, wake, pc, past>>

\* Deleting it fails when the pod is gone or the name has passed to another:
\* "NotFound" has an event of its own, and is returned like any other error.
DeletePod(p, stopped) ==
  \/ /\ p \in view.listed
     /\ pod' = [stopped EXCEPT ![p].terminating = TRUE]
     /\ PodHandled(p, FALSE, FALSE, FALSE)
     /\ UNCHANGED faults
  \/ /\ (p \notin view.listed /\ UNCHANGED faults) \/ Fault
     /\ pod' = stopped
     /\ PodHandled(p, FALSE, TRUE, FALSE)

DeletePersistentPod(p) ==
  /\ Handling(p)
  /\ ~ephemeral
  /\ Stoppable(p)
  /\ DeletePod(p, Stopped(p))
  /\ StopPod(p)
  /\ UNCHANGED <<fixed, revision, solrVars, lockVars, pc>>

\* EvictReplicasForPodIfNecessary, for a pod with ephemeral storage.
Evicting(p) ==
  /\ Handling(p)
  /\ ephemeral
  /\ Stoppable(p)
  /\ StopPod(p)
  /\ UNCHANGED <<fixed, revision, home, state, leader, overseer, lockVars, pc>>

OnlyPod(p) == wanted < 2 /\ p = 0

Moving(p) == Evicting(p) /\ ~OnlyPod(p)

\* There is no other pod to move replicas to.  The pod is deleted if it was
\* found empty.
EvictOnlyPod(p) ==
  /\ Evicting(p)
  /\ OnlyPod(p)
  /\ UNCHANGED <<task, moving>>
  /\ \/ p \notin view.occupied /\ DeletePod(p, Stopped(p))
     \/ /\ p \in view.occupied
        /\ pod' = Stopped(p)
        /\ PodHandled(p, FALSE, FALSE, TRUE)
        /\ UNCHANGED faults

\* REPLACENODE: Solr will move the replicas that are on the pod now.
SubmitMove(p) ==
  /\ task' = [task EXCEPT ![p] = "running"]
  /\ moving' = [moving EXCEPT ![p] = ReplicasOn(Cluster, p)]

\* DELETESTATUS
ForgetMove(p) ==
  /\ task' = [task EXCEPT ![p] = "notfound"]
  /\ UNCHANGED moving

\* Solr cannot be reached through the pods that are left in traffic, or a call
\* fails.  This counts as a request in progress.
EvictionUnknown(p) ==
  /\ Moving(p)
  /\ pod' = Stopped(p)
  /\ PodHandled(p, TRUE, TRUE, FALSE)
  /\ \/ Ready \ {p} = {} /\ UNCHANGED <<task, moving, faults>>
     \/ /\ Fault
        /\ \/ UNCHANGED <<task, moving>>
           \/ task[p] = "notfound" /\ p \in view.occupied /\ SubmitMove(p)
           \/ task[p] \in {"completed", "failed"} /\ ForgetMove(p)

\* The pod holds replicas and no request is known: move them.
StartMove(p) ==
  /\ Moving(p)
  /\ Reachable
  /\ task[p] = "notfound"
  /\ p \in view.occupied
  /\ SubmitMove(p)
  /\ pod' = Stopped(p)
  /\ PodHandled(p, TRUE, FALSE, TRUE)
  /\ UNCHANGED faults

AwaitMove(p) ==
  /\ Moving(p)
  /\ Reachable
  /\ task[p] = "running"
  /\ pod' = Stopped(p)
  /\ PodHandled(p, TRUE, FALSE, TRUE)
  /\ UNCHANGED <<task, moving, faults>>

\* No replicas were found on the pod and no request is known.
DeleteEmptyPod(p) ==
  /\ Moving(p)
  /\ Reachable
  /\ task[p] = "notfound"
  /\ p \notin view.occupied
  /\ DeletePod(p, Stopped(p))
  /\ UNCHANGED <<task, moving>>

\* Mutant: once the move is complete the pod is deleted, whatever the cluster
\* state had said of it.
EndMoveMutant(p) ==
  /\ Moving(p)
  /\ Reachable
  /\ task[p] \in {"completed", "failed"}
  /\ ForgetMove(p)
  /\ DeletePod(p, Stopped(p))

\* The move has ended and its status is deleted.  A pod that was found to hold
\* replicas is looked at again by the next reconcile; so is a failed move.
EndMove(p) ==
  /\ Moving(p)
  /\ Reachable
  /\ task[p] \in {"completed", "failed"}
  /\ ForgetMove(p)
  /\ \/ /\ task[p] = "completed"
        /\ p \notin view.occupied
        /\ DeletePod(p, Stopped(p))
     \/ /\ task[p] = "failed" \/ p \in view.occupied
        /\ pod' = Stopped(p)
        /\ PodHandled(p, FALSE, FALSE, TRUE)
        /\ UNCHANGED faults

\* Mutant: after an error nothing asks for another reconcile.
EndUpdateMutant ==
  /\ pc = "update"
  /\ view.todo = <<>>
  /\ Pause \/ KeepLock(view.retry)
  /\ UNCHANGED <<fixed, revision, solrVars>>

\* All pods have been worked on.
EndUpdate ==
  /\ pc = "update"
  /\ view.todo = <<>>
  /\ Pause \/ KeepLock(view.retry \/ view.failed)
  /\ UNCHANGED <<fixed, revision, solrVars>>

\* The balancing that follows the update, in one step.
BalanceReplicas ==
  /\ pc = "reconcile"
  /\ lock = Lock!Balance(AfterRollingUpdate)
  /\ Lock!CompleteClusterOp(Lock!NoOp)
  /\ Finish(TRUE)
  /\ UNCHANGED <<fixed, revision, pod, solrVars, past, faults>>

-----------------------------------------------------------------------------
(* The operator process, the user, the StatefulSet controller and Solr.    *)

OperatorRestarts ==
  /\ pc # "idle"
  /\ Fault
  /\ pc' = "idle"
  /\ view' = NoView
  /\ wake' = TRUE
  /\ UNCHANGED <<fixed, revision, pod, solrVars, lockVars, past>>

TimePasses ==
  /\ Lock!TimePasses
  /\ UNCHANGED <<fixed, revision, pod, solrVars, wake, pc, view, past, faults>>

\* The user changes the pod template.  Of these edits the first is free, and
\* the others count as faults.
UserEdits ==
  /\ revision' \in (revision + 1)..MaxRevision
  /\ IF revision = 0 THEN UNCHANGED faults ELSE Fault
  /\ wake' = TRUE
  /\ UNCHANGED <<fixed, pod, solrVars, lockVars, pc, view, past>>

PodCreated(p) ==
  /\ ~Exists(p)
  /\ pod' = [pod EXCEPT ![p] = NewPod(revision)]
  /\ wake' = TRUE
  /\ UNCHANGED <<fixed, revision, solrVars, lockVars, pc, view, past, faults>>

\* Solr starts in the pod: its node is live, the replicas it finds on its
\* volume recover, and it may be elected overseer.
SolrStarts(p) ==
  /\ pod[p].phase = "starting"
  /\ ~pod[p].terminating
  /\ pod[p].revision \notin BadRevisions
  /\ pod' = [pod EXCEPT ![p].phase = "live"]
  /\ state' = [r \in Replicas |-> IF home[r] = p /\ ~ephemeral THEN "recovering" ELSE state[r]]
  /\ overseer' = IF overseer = Nobody THEN p ELSE overseer
  /\ UNCHANGED <<fixed, revision, home, leader, task, moving, lockVars, wake, pc, view, past, faults>>

PodReady(p) ==
  /\ pod[p].phase = "live"
  /\ ~pod[p].terminating
  /\ pod' = [pod EXCEPT ![p].phase = "ready"]
  /\ wake' = (wake \/ pod[p].traffic = "started")
  /\ UNCHANGED <<fixed, revision, solrVars, lockVars, pc, view, past, faults>>

ReplicaRecovers(r) ==
  /\ state[r] = "recovering"
  /\ home[r] \in Live
  /\ state' = [state EXCEPT ![r] = "active"]
  /\ UNCHANGED <<fixed, revision, pod, home, leader, overseer, task, moving, lockVars, wake, pc,
                 view, past, faults>>

\* A shard without a leader elects one; a leader that loses its session is
\* replaced.
LeaderElected(r) ==
  /\ leader[ShardOf[r]] # r
  /\ state[r] = "active"
  /\ home[r] \in Live
  /\ (leader[ShardOf[r]] = Nobody /\ UNCHANGED faults) \/ Fault
  /\ leader' = [leader EXCEPT ![ShardOf[r]] = r]
  /\ UNCHANGED <<fixed, revision, pod, home, state, overseer, task, moving, lockVars, wake, pc,
                 view, past>>

\* No replica among these is a leader any more.
LeadersWithout(replicas) ==
  [shard \in Shards |-> IF leader[shard] \in replicas THEN Nobody ELSE leader[shard]]

\* The pod disappears: its replicas are down and another overseer is elected.
PodGone(p) ==
  /\ Exists(p)
  /\ pod' = [pod EXCEPT ![p] = AbsentPod]
  /\ state' = [r \in Replicas |-> IF home[r] = p THEN "down" ELSE state[r]]
  /\ leader' = LeadersWithout(ReplicasOn(Cluster, p))
  /\ overseer' \in IF overseer # p THEN {overseer}
                   ELSE IF Live \ {p} = {} THEN {Nobody} ELSE Live \ {p}
  /\ view' = [view EXCEPT !.listed = @ \ {p}]
  /\ wake' = TRUE
  /\ UNCHANGED <<fixed, revision, home, task, moving, lockVars, pc>>

PodDeleted(p) ==
  /\ pod[p].terminating
  /\ PodGone(p)
  /\ UNCHANGED <<past, faults>>

PodLost(p) ==
  /\ ~pod[p].terminating
  /\ PodGone(p)
  /\ past' = past \cup {"lost"}
  /\ Fault

\* Is there a copy of the replica's data to make a new one from?
HasSource(r) ==
  \/ state[r] # "down"
  \/ \E other \in Replicas :
       /\ ShardOf[other] = ShardOf[r]
       /\ state[other] = "active"
       /\ home[other] \in Live

\* A move request puts a replica on any other live node.
ReplicaMoves(p, r, q) ==
  /\ task[p] = "running"
  /\ r \in moving[p]
  /\ HasSource(r)
  /\ q \in Live \ {p}
  /\ home' = [home EXCEPT ![r] = q]
  /\ state' = [state EXCEPT ![r] = "active"]
  /\ leader' = LeadersWithout({r})
  /\ moving' = [moving EXCEPT ![p] = @ \ {r}]
  /\ UNCHANGED <<fixed, revision, pod, overseer, task, lockVars, wake, pc, view,
                 past, faults>>

TaskEnds(p) ==
  /\ task[p] = "running"
  /\ \/ /\ moving[p] = {}
        /\ task' = [task EXCEPT ![p] = "completed"]
        /\ UNCHANGED faults
     \/ /\ moving[p] # {}
        /\ Live \ {p} = {} \/ \E r \in moving[p] : ~HasSource(r)
        /\ task' = [task EXCEPT ![p] = "failed"]
        /\ UNCHANGED faults
     \/ /\ Fault
        /\ task' = [task EXCEPT ![p] = "failed"]
  /\ moving' = [moving EXCEPT ![p] = {}]
  /\ UNCHANGED <<fixed, revision, pod, home, state, leader, overseer, lockVars, wake, pc,
                 view, past>>

-----------------------------------------------------------------------------
ReconcileStep ==
  \/ DetermineClusterOp
  \/ UpdateCompletes
  \/ AwaitPods
  \/ SelectNotStarted
  \/ ClusterStateUnknown
  \/ SelectPods
  \/ \E p \in Pod : \/ CannotStopPod(p)
                    \/ DeletePersistentPod(p)
                    \/ EvictOnlyPod(p)
                    \/ EvictionUnknown(p)
                    \/ StartMove(p)
                    \/ AwaitMove(p)
                    \/ DeleteEmptyPod(p)
                    \/ EndMove(p)
  \/ EndUpdate
  \/ BalanceReplicas

Next ==
  \/ Begin
  \/ ReconcileStep
  \/ OperatorRestarts
  \/ TimePasses
  \/ UserEdits
  \/ \E p \in Pod : \/ PodCreated(p) \/ SolrStarts(p) \/ PodReady(p)
                    \/ PodDeleted(p) \/ PodLost(p) \/ TaskEnds(p)
                    \/ \E r \in Replicas, q \in Pod : ReplicaMoves(p, r, q)
  \/ \E r \in Replicas : ReplicaRecovers(r) \/ LeaderElected(r)

Spec == Init /\ [][Next]_vars

\* What the StatefulSet controller, the kubelet and Solr have to do: make and
\* remove pods, start Solr in good ones, move and recover replicas.
PodsAndSolrWork ==
  \/ \E p \in Pod : \/ PodCreated(p) \/ SolrStarts(p) \/ PodReady(p)
                    \/ PodDeleted(p) \/ TaskEnds(p)
                    \/ \E r \in Replicas, q \in Pod : ReplicaMoves(p, r, q)
  \/ \E r \in Replicas : ReplicaRecovers(r)

\* The work queue runs what is due, time passes, and as long as pods and Solr have
\* something to do, something of it is done.
Fairness ==
  /\ WF_vars(Begin \/ ReconcileStep)
  /\ WF_vars(TimePasses)
  /\ WF_vars(PodsAndSolrWork)

FairSpec == Spec /\ Fairness

-----------------------------------------------------------------------------
(* Properties.                                                             *)

\* Pods, replicas, requests and what a reconcile remembers of them keep their
\* types, through every order of reconciles, restarts and pods coming and going,
\* and OutOfDatePodSegmentation lists a pod once: none is handled twice or
\* counted twice against the limits.
TypeOK ==
  /\ ephemeral \in BOOLEAN
  /\ wanted \in Nat
  /\ revision \in 0..MaxRevision
  /\ pod \in [Pod -> PodStates]
  /\ home \in [Replicas -> Pod]
  /\ state \in [Replicas -> ReplicaStates]
  /\ leader \in [Shards -> Replicas \cup {Nobody}]
  /\ overseer \in Pod \cup {Nobody}
  /\ task \in [Pod -> TaskStates]
  /\ moving \in [Pod -> SUBSET Replicas]
  /\ wake \in BOOLEAN
  /\ pc \in {"idle", "reconcile", "update"}
  /\ view.todo \in Seq(Pod)
  /\ view.scheduled \cap view.notStarted = {}
  /\ view.running \cap (view.scheduled \cup view.notStarted) = {}
  /\ past \subseteq {"paused", "lost", "misdirected"}
  /\ faults \in 0..MaxFaults

\* Whatever fails or is interrupted, a reconcile that updates pods changes the
\* lock and the queue only as ClusterOpLock allows.
UsesLock == Lock!Spec

\* "If the taking down the replicas hosted in the pod would not violate the
\* given maxShardReplicasUnavailable, then the pod can be updated": while no pod
\* is lost for another reason, of each shard no more replicas than that are out
\* of service, except that all those of one pod may be (pickPodsToUpdate).
ShardLimitKept ==
  "lost" \notin past =>
    \A shard \in Shards :
      LET down == ShardReplicasNotActive(Cluster, shard)
      IN  \/ Cardinality(down) <= MaxShardReplicasDown(shard)
          \/ \A r1, r2 \in down : home[r1] = home[r2]

\* The shard limit is kept, through recoveries, restarts of the operator and
\* failing calls, as long as no update has been paused
\* (cleanupManagedCloudRollingUpdate).
ShardsStayUp == "paused" \notin past => ShardLimitKept

\* Pods that calculateMaxPodsToUpdate counts as unavailable: not those that are
\* out of date, started and not ready for another reason than the update.
CountedUnavailable == Pod \ (Ready \cup Running)

\* A pod is taken out of traffic for an update only if no more than
\* maxPodsUnavailable pods are unavailable then, although DeletePodForUpdate acts
\* on what createCloudStatus counted earlier.  Pods in which Solr had not started
\* then are deleted whatever the limit, and may have become ready since.  The
\* limit is not kept when a pod is lost, or once an update has been paused: a
\* pod that is being deleted takes traffic again then.
PodLimitKept ==
  [][(\E p \in Ready \ view.notStarted : pod'[p].traffic = "stopped")
        /\ past \cap {"lost", "paused"} = {} =>
        Cardinality(CountedUnavailable') <= Resolve(MaxPodsUnavailable, NumPods)]_vars

\* "For ephemeral clusters we are also evicting data before the pod is deleted":
\* no replica goes down with a pod that the operator deletes, as long as no
\* update has been paused (cleanupManagedCloudRollingUpdate).
NoReplicaLost ==
  ephemeral /\ past \cap {"lost", "paused"} = {} => \A r \in Replicas : state[r] # "down"

UpToDate == \A p \in Pod : p \in Ready /\ pod[p].revision = revision

\* The update reaches every pod, also after a revision with which "nothing is
\* running, but we need to do a restart to get a working pod config"
\* (handleManagedCloudRollingUpdate), unless that is the last revision.
EventuallyUpdated == <>[](revision \in BadRevisions \/ UpToDate)

\* What keeps an update from completing: a new pod got the condition meant for
\* the one before it; or, if the storage is ephemeral, there is no pod through
\* which Solr can be asked to move replicas, or none to move them to, or a
\* replica is lost and its shard stays at the limit.
Hindered ==
  \/ "misdirected" \in past
  \/ /\ ephemeral
     /\ Ready = {} \/ wanted < 2 \/ \E r \in Replicas : state[r] = "down"

\* Every update completes, in spite of a failing call, move or pod, of a restart
\* of the operator, and of pauses, unless it is hindered.
UpdatedUnlessHindered == EventuallyUpdated \/ <>Hindered

=============================================================================
