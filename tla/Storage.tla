------------------------------ MODULE Storage ------------------------------
(***************************************************************************)
(* The persistent storage of a SolrCloud: the finalizer, the deletion of   *)
(* claims that are no longer used, and the PVC expansion, a cluster        *)
(* operation.  From solrcloud_controller.go (reconcileStorageFinalizer,    *)
(* cleanupOrphanPVCs, expandPVCs) and solr_cluster_ops_util.go.            *)
(*                                                                         *)
(* Scaling is unmanaged here (ManagedScaling has the managed one) and the  *)
(* rolling update that follows an expansion restarts one pod after another *)
(* (RollingUpdate says how).  The StatefulSet controller, the protection   *)
(* of claims in use and the resizer of the volumes are external.           *)
(***************************************************************************)
EXTENDS Naturals, FiniteSets, Sequences

CONSTANTS
  MaxPods, Sizes,        \* bounds: pods of the cluster, sizes of its claims
  LargestFeasible,       \* the largest size the storage backend can give
  CloudSpecs,            \* the storage options and sizes a user may write
  InitialSpecs,
  MaxDisturbances,       \* bound: edits, failed calls, lost pods and restarts
  NoClaim,
  AfterScaleUp, AfterRollingUpdate, UndoFailedScaleDown, NoMetadata, MaxQueue

\* What is asked for, what the volume has, and what its file system has.
Claims == [request : Sizes, volume : Sizes, capacity : Sizes, deleted : BOOLEAN]

ASSUME StorageAssumption ==
  /\ MaxPods \in Nat /\ MaxDisturbances \in Nat /\ MaxQueue \in Nat
  /\ Sizes \subseteq Nat
  /\ CloudSpecs \subseteq [replicas : 0..MaxPods, size : Sizes, policy : {"Retain", "Delete"}]
  /\ InitialSpecs \subseteq CloudSpecs
  /\ NoClaim \notin Claims

VARIABLES
  spec,              \* the SolrCloud, as the user wrote it
  life,              \* is it "there", to be "deleted", or "gone"?
  finalizer,         \* storage.finalizers.solr.apache.org is on it
  settled,           \* its status has as many ready replicas as replicas
  configured,        \* Spec.Replicas of the StatefulSet
  minimumSize,       \* annotation storageMinimumSize of StatefulSet and template
  templateSize,      \* VolumeClaimTemplates: cannot be changed
  expandable,        \* AllowVolumeExpansion of the storage class
  claims,            \* the claim of each ordinal, or NoClaim
  pods, ready,       \* the pods by ordinal
  outdated,          \* pods made with an older template
  lock, queue, age,  \* the cluster-operation lock
  pc, view, wake,    \* the reconcile, what it has read, whether one is to run
  hindered,          \* history: calls whose failure nobody acts upon
  disturbances       \* disturbances left

cloudVars == <<spec, life, finalizer, settled>>
setVars == <<configured, minimumSize, templateSize, expandable>>
podVars == <<pods, ready, outdated>>
lockVars == <<lock, queue, age>>
runVars == <<pc, view, wake>>
vars == <<cloudVars, setVars, claims, podVars, lockVars, runVars, hindered, disturbances>>

Lock == INSTANCE ClusterOpLock WITH
          PodCounts <- {}, StorageSizes <- Sizes, Migrations <- {NoMetadata}

Pod == 0..(MaxPods - 1)

Claim(size) == [request |-> size, volume |-> size, capacity |-> size, deleted |-> FALSE]
Claimed == {p \in Pod : claims[p] # NoClaim}

\* The SolrCloud as a reconcile reads it, once, at its start.
Seen == [spec |-> spec, life |-> life]

Disturb == disturbances > 0 /\ disturbances' = disturbances - 1

-----------------------------------------------------------------------------
Init ==
  /\ spec \in InitialSpecs
  /\ life = "there"
  /\ finalizer = (spec.policy = "Delete")
  /\ settled = TRUE
  /\ configured = spec.replicas
  /\ minimumSize = spec.size
  /\ templateSize = spec.size
  /\ expandable \in BOOLEAN
  /\ pods = 0..(configured - 1)
  /\ ready = pods
  /\ outdated = {}
  /\ claims = [p \in Pod |-> IF p \in pods THEN Claim(spec.size) ELSE NoClaim]
  /\ lock = Lock!NoOp /\ queue = <<>> /\ age = 0
  /\ pc = "idle" /\ view = Seen /\ wake = FALSE
  /\ hindered = {}
  /\ disturbances = MaxDisturbances

-----------------------------------------------------------------------------
(* Reconcile, up to the storage finalizer.                                 *)

Begin ==
  /\ pc = "idle" /\ wake /\ life # "gone"
  /\ pc' = "storage"
  /\ view' = Seen
  /\ wake' = FALSE
  /\ UNCHANGED <<cloudVars, setVars, claims, podVars, lockVars, hindered, disturbances>>

Marked(ps) ==
  [p \in Pod |-> IF p \in ps /\ claims[p] # NoClaim
                   THEN [claims[p] EXCEPT !.deleted = TRUE] ELSE claims[p]]

\* deletePVC for each of the claims: an error is written to the log.
DeletePVCs(ps) ==
  \/ claims' = Marked(ps) /\ UNCHANGED <<disturbances, hindered>>
  \/ \E failed \in ps \cap Claimed :
       /\ Disturb
       /\ claims' = Marked(ps \ {failed})
       /\ hindered' = hindered \cup {"claim not deleted"}

\* Mutant: the last pod's claim counts as an orphan.
IsPVCOrphanMutant(p) == p + 1 >= configured

IsPVCOrphan(p) == p >= configured

\* Mutant: one claim more than the pods is not looked at.
OrphansMutant ==
  IF settled /\ Cardinality(Claimed) > view.spec.replicas + 1
    THEN {p \in Claimed : IsPVCOrphan(p)} ELSE {}

\* cleanupOrphanPVCs: by the status an earlier reconcile wrote, and by the
\* number of claims.
Orphans ==
  IF settled /\ Cardinality(Claimed) > view.spec.replicas
    THEN {p \in Claimed : IsPVCOrphan(p)} ELSE {}

\* Update of the SolrCloud is refused when the user has edited it meanwhile.
Updatable == view = Seen

Keeping == view.spec.policy = "Delete" /\ view.life = "there"
Deleting == view.spec.policy = "Delete" /\ view.life = "deleted" /\ finalizer
Releasing == view.spec.policy = "Retain" /\ finalizer

\* The policy is Delete: there is a finalizer, and no claim is left over.
CleanupOrphanPVCs ==
  /\ pc = "storage"
  /\ Keeping
  /\ finalizer \/ Updatable
  /\ finalizer' = TRUE
  /\ DeletePVCs(Orphans)
  /\ wake' = (wake \/ ~finalizer)
  /\ pc' = "ops"
  /\ UNCHANGED <<spec, life, settled, setVars, podVars, lockVars, view>>

\* Mutant: the finalizer is removed, and the claims are left to the next reconcile.
CleanUpAllPVCsMutant ==
  /\ pc = "storage"
  /\ Deleting
  /\ life' = "gone" /\ finalizer' = FALSE
  /\ pc' = "ops"
  /\ UNCHANGED <<spec, settled, setVars, claims, podVars, lockVars, view, wake, hindered, disturbances>>

\* The SolrCloud is to be deleted: all claims go, then the finalizer, with
\* which the SolrCloud goes.
CleanUpAllPVCs ==
  /\ pc = "storage"
  /\ Deleting
  /\ DeletePVCs(Pod)
  /\ \/ /\ Updatable
        /\ life' = "gone" /\ finalizer' = FALSE
        /\ UNCHANGED wake
     \/ /\ ~Updatable
        /\ wake' = TRUE
        /\ UNCHANGED <<life, finalizer>>
  /\ pc' = "ops"
  /\ UNCHANGED <<spec, settled, setVars, podVars, lockVars, view>>

\* The policy is Retain: no finalizer is needed any more.
ReleaseStorage ==
  /\ pc = "storage"
  /\ ~Keeping /\ ~Deleting
  /\ Releasing => Updatable
  /\ finalizer' = FALSE
  /\ life' = IF finalizer /\ life = "deleted" THEN "gone" ELSE life
  /\ wake' = (wake \/ finalizer)
  /\ pc' = "ops"
  /\ UNCHANGED <<spec, settled, setVars, claims, podVars, lockVars, view, hindered, disturbances>>

\* The SolrCloud cannot be updated (after the claims were deleted, if it is to
\* go), or the claims not be listed: again in 15 seconds.  The reconcile goes on.
StorageError ==
  /\ pc = "storage"
  /\ \/ ((Keeping /\ ~finalizer) \/ Releasing) /\ ~Updatable /\ UNCHANGED disturbances
     \/ (Keeping \/ Deleting \/ Releasing) /\ Disturb
  /\ claims' \in {claims} \cup (IF Deleting THEN {Marked(Pod)} ELSE {})
  /\ wake' = TRUE
  /\ pc' = "ops"
  /\ UNCHANGED <<cloudVars, setVars, podVars, lockVars, view, hindered>>

-----------------------------------------------------------------------------
(* The cluster operations.  createCloudStatus writes the status at the end *)
(* of a reconcile without an error.                                        *)

End(again) ==
  /\ pc' = "idle"
  /\ view' = Seen
  /\ settled' = (ready = pods)
  /\ wake' = (wake \/ again \/ settled' # settled)

EndWithError ==
  /\ pc' = "idle"
  /\ view' = Seen
  /\ wake' = TRUE
  /\ UNCHANGED settled

UpdateNeeded == IF outdated # {} THEN Lock!Op("RollingUpdate", NoMetadata) ELSE Lock!NoOp

\* determinePvcExpansionClusterOpLockIfNecessary: claims never shrink, and are
\* not touched if the storage class is known not to allow it.
ExpansionNeeded(allowed) ==
  IF view.spec.size > minimumSize /\ (allowed \/ Claimed = {})
    THEN Lock!Op("PVCExpansion", view.spec.size) ELSE Lock!NoOp

\* No lock is held: an update, an expansion or a scaling (without a lock), or
\* what is queued.  A storage class that cannot be read is taken to allow it.
DetermineClusterOp ==
  /\ pc = "ops" /\ lock = Lock!NoOp
  /\ \E allowed \in {expandable, TRUE} :
       LET expansion == ExpansionNeeded(allowed)
           starts == Lock!OpToStart(UpdateNeeded, expansion, Lock!NoOp) # Lock!NoOp
       IN  /\ IF allowed = expandable THEN UNCHANGED <<disturbances, hindered>>
              ELSE Disturb /\ hindered' = hindered \cup {"not expandable"}
           /\ configured' = IF starts THEN configured ELSE view.spec.replicas
           /\ \/ Lock!StartClusterOp(UpdateNeeded, expansion, Lock!NoOp)
              \/ Lock!RetryNextQueuedClusterOp(UpdateNeeded, expansion, Lock!NoOp)
              \/ ~starts /\ queue = <<>> /\ UNCHANGED lockVars
  /\ End(configured' # configured \/ lock' # lock)
  /\ UNCHANGED <<spec, life, finalizer, minimumSize, templateSize, expandable, claims, podVars>>

\* The StatefulSet cannot be patched.
DetermineError ==
  /\ pc = "ops" /\ lock = Lock!NoOp
  /\ Disturb
  /\ EndWithError
  /\ UNCHANGED <<spec, life, finalizer, setVars, claims, podVars, lockVars, hindered>>

\* Mutant: the operation is queued, and the lock is kept.
PauseOrGoOnMutant(failed) ==
  \/ /\ Lock!TimedOut(failed) /\ Len(queue) < MaxQueue
     /\ queue' = Append(queue, lock)
     /\ UNCHANGED <<lock, age>>
  \/ ~Lock!TimedOut(failed) /\ UNCHANGED lockVars

\* An operation that takes too long makes way for others.
PauseOrGoOn(failed) ==
  \/ Lock!EnqueueClusterOp(failed)
  \/ ~Lock!TimedOut(failed) /\ UNCHANGED lockVars

\* Mutant: only the size that is asked for counts.
ExpandedMutant(p, size) == claims[p].request >= size

\* expandPVC: the file system has the size, or it is all that is still to grow.
Expanded(p, size) ==
  \/ claims[p].capacity >= size
  \/ claims[p].volume > claims[p].capacity

\* Mutant: the new size is added to what is asked for.
RequestingMutant(size) ==
  [p \in Pod |-> IF p \in Claimed /\ ~Expanded(p, size)
                   THEN [claims[p] EXCEPT !.request = @ + size] ELSE claims[p]]

\* Claims that are not yet expanded ask for the new size.
Requesting(size) ==
  [p \in Pod |-> IF p \in Claimed /\ ~Expanded(p, size)
                   THEN [claims[p] EXCEPT !.request = size] ELSE claims[p]]

AllExpanded(size) == \A p \in Claimed : Expanded(p, size)

\* handlePvcExpansion.  A claim may still wait for its file system to grow to
\* the size of an earlier expansion.
ExpandPVCs ==
  LET size == lock.metadata
  IN  /\ pc = "ops" /\ lock.operation = "PVCExpansion"
      /\ claims' = Requesting(size)
      /\ \/ /\ AllExpanded(size)
            /\ minimumSize' = size
            /\ outdated' = IF minimumSize = size THEN outdated ELSE pods
            /\ hindered' = hindered
                 \cup (IF \E p \in Claimed : /\ claims[p].capacity < claims[p].volume
                                              /\ claims[p].volume < size
                         THEN {"earlier expansion"} ELSE {})
            /\ Lock!CompleteClusterOp(Lock!NoOp)
         \/ /\ ~AllExpanded(size) /\ expandable
            /\ PauseOrGoOn(FALSE)
            /\ UNCHANGED <<minimumSize, outdated, hindered>>
      /\ End(TRUE)
      /\ UNCHANGED <<spec, life, finalizer, configured, templateSize, expandable, pods, ready,
                     disturbances>>

\* A claim cannot be patched, or not the StatefulSet.
ExpansionError ==
  LET size == lock.metadata
  IN  /\ pc = "ops" /\ lock.operation = "PVCExpansion"
      /\ \/ AllExpanded(size) /\ Disturb /\ UNCHANGED claims
         \/ \E failed \in Claimed :
              /\ ~Expanded(failed, size)
              /\ IF expandable THEN Disturb ELSE UNCHANGED disturbances
              /\ claims' = IF expandable
                             THEN [Requesting(size) EXCEPT ![failed] = claims[failed]] ELSE claims
      /\ PauseOrGoOn(TRUE)
      /\ End(TRUE)
      /\ UNCHANGED <<spec, life, finalizer, setVars, podVars, hindered>>

\* The StatefulSet has the new size, and the lock cannot be released.
ReleaseError ==
  LET size == lock.metadata
  IN  /\ pc = "ops" /\ lock.operation = "PVCExpansion"
      /\ AllExpanded(size)
      /\ Disturb
      /\ minimumSize' = size
      /\ outdated' = IF minimumSize = size THEN outdated ELSE pods
      /\ EndWithError
      /\ UNCHANGED <<spec, life, finalizer, configured, templateSize, expandable, claims, pods,
                     ready, lockVars, hindered>>

\* A rolling update restarts the pods; the file system grows with the volume.
UpdatePods ==
  /\ pc = "ops" /\ lock.operation = "RollingUpdate"
  /\ \/ /\ outdated = {}
        /\ Lock!CompleteClusterOp(Lock!NoOp)
        /\ UNCHANGED podVars
     \/ /\ outdated # {}
        /\ \/ ready # pods /\ UNCHANGED podVars
           \/ /\ ready = pods
              /\ \E p \in outdated : /\ outdated' = outdated \ {p}
                                    /\ pods' = pods \ {p} /\ ready' = ready \ {p}
        /\ PauseOrGoOn(FALSE)
  /\ End(TRUE)
  /\ UNCHANGED <<spec, life, finalizer, setVars, claims, hindered, disturbances>>

\* The operator restarts.
Restart ==
  /\ pc # "idle"
  /\ Disturb
  /\ EndWithError
  /\ UNCHANGED <<spec, life, finalizer, setVars, claims, podVars, lockVars, hindered>>

-----------------------------------------------------------------------------
(* The user, the StatefulSet controller, the storage and the clock.        *)

UserEdits ==
  /\ life # "gone"
  /\ Disturb
  /\ \/ /\ \E s \in CloudSpecs : s # spec /\ spec' = s
        /\ UNCHANGED life
     \/ /\ life = "there"
        /\ life' = IF finalizer THEN "deleted" ELSE "gone"
        /\ UNCHANGED spec
  /\ wake' = TRUE
  /\ view' = IF pc = "idle" THEN Seen' ELSE view
  /\ UNCHANGED <<finalizer, settled, setVars, claims, podVars, lockVars, pc, hindered>>

Wanted == IF life = "gone" THEN {} ELSE 0..(configured - 1)

\* A pod is made anew with its claim, or with a new one of the template's size.
CreatePod(p) ==
  /\ p \in Wanted \ pods
  /\ claims[p] # NoClaim => ~claims[p].deleted
  /\ pods' = pods \cup {p}
  /\ claims' = [claims EXCEPT ![p] =
                  IF @ = NoClaim THEN Claim(templateSize)
                  ELSE [@ EXCEPT !.capacity = claims[p].volume]]
  /\ outdated' = outdated \ {p}
  /\ hindered' = hindered
        \cup (IF life # "there" THEN {"pod made while deleting"} ELSE {})
        \cup (IF claims[p] = NoClaim /\ templateSize < minimumSize THEN {"claim of old size"} ELSE {})
  /\ wake' = TRUE
  /\ UNCHANGED <<cloudVars, setVars, ready, lockVars, pc, view, disturbances>>

PodReady(p) ==
  /\ p \in pods \ ready
  /\ ready' = ready \cup {p}
  /\ wake' = TRUE
  /\ UNCHANGED <<cloudVars, setVars, claims, pods, outdated, lockVars, pc, view, hindered, disturbances>>

\* A pod that is no longer wanted goes, or one is lost.
PodGone(p) ==
  /\ p \in pods
  /\ \/ p \notin Wanted /\ UNCHANGED disturbances
     \/ p \in Wanted /\ Disturb
  /\ pods' = pods \ {p} /\ ready' = ready \ {p} /\ outdated' = outdated \ {p}
  /\ wake' = TRUE
  /\ UNCHANGED <<cloudVars, setVars, claims, lockVars, pc, view, hindered>>

\* A claim that was deleted goes when no pod uses it.
ClaimGone(p) ==
  /\ p \in Claimed \ pods
  /\ claims[p].deleted
  /\ claims' = [claims EXCEPT ![p] = NoClaim]
  /\ UNCHANGED <<cloudVars, setVars, podVars, lockVars, runVars, hindered, disturbances>>

\* The volume grows, and its file system at once or when the pod restarts.
VolumeGrows(p) ==
  /\ p \in Claimed
  /\ claims[p].request \in (claims[p].volume + 1)..LargestFeasible
  /\ \E size \in {claims[p].capacity, claims[p].request} :
       claims' = [claims EXCEPT ![p].volume = claims[p].request, ![p].capacity = size]
  /\ UNCHANGED <<cloudVars, setVars, podVars, lockVars, runVars, hindered, disturbances>>

TimePasses ==
  /\ Lock!TimePasses
  /\ UNCHANGED <<cloudVars, setVars, claims, podVars, runVars, hindered, disturbances>>

ReconcileStep ==
  \/ Begin
  \/ CleanupOrphanPVCs \/ CleanUpAllPVCs \/ ReleaseStorage \/ StorageError
  \/ DetermineClusterOp \/ ExpandPVCs \/ ExpansionError \/ UpdatePods

Next ==
  \/ Begin
  \/ CleanupOrphanPVCs \/ CleanUpAllPVCs \/ ReleaseStorage \/ StorageError
  \/ DetermineClusterOp \/ DetermineError
  \/ ExpandPVCs \/ ExpansionError \/ ReleaseError \/ UpdatePods
  \/ Restart \/ UserEdits \/ TimePasses
  \/ \E p \in Pod : CreatePod(p) \/ PodReady(p) \/ PodGone(p) \/ ClaimGone(p) \/ VolumeGrows(p)

Spec == Init /\ [][Next]_vars

\* The work queue, the clock, the StatefulSet controller and the resizer of the
\* volumes keep going.
Fairness ==
  /\ WF_vars(ReconcileStep) /\ WF_vars(TimePasses)
  /\ \A p \in Pod : /\ WF_vars(CreatePod(p)) /\ WF_vars(PodReady(p))
                    /\ WF_vars(p \notin Wanted /\ PodGone(p))
                    /\ WF_vars(ClaimGone(p)) /\ WF_vars(VolumeGrows(p))

FairSpec == Spec /\ Fairness

-----------------------------------------------------------------------------
(* Properties.                                                             *)

\* The SolrCloud, its StatefulSet, claims, pods and lock have their types.
TypeOK ==
  /\ spec \in CloudSpecs /\ life \in {"there", "deleted", "gone"}
  /\ finalizer \in BOOLEAN /\ settled \in BOOLEAN
  /\ life = "deleted" => finalizer
  /\ configured \in 0..MaxPods
  /\ {minimumSize, templateSize} \subseteq Sizes
  /\ claims \in [Pod -> Claims \cup {NoClaim}]
  /\ pods \subseteq Claimed /\ ready \subseteq pods /\ outdated \subseteq pods
  /\ pc \in {"idle", "storage", "ops"}
  /\ view.spec \in CloudSpecs

\* The storage operations of a SolrCloud are the lock's: each of their steps is
\* one of ClusterOpLock or leaves the lock alone.
UsesLock == Lock!Spec

Deletes(p) ==
  /\ p \in Claimed /\ ~claims[p].deleted
  /\ claims'[p] # NoClaim /\ claims'[p].deleted

\* While the SolrCloud stays, the claim of a pod that the StatefulSet is to have
\* is not deleted, however old the status is that cleanupOrphanPVCs goes by.
ClaimsInUseKept ==
  [][\A p \in Pod : Deletes(p) /\ life = "there" => p >= configured]_vars

\* Nor is a claim that the SolrCloud, as it was read, will use again: "we don't
\* want to delete them if we will eventually scale back up".
WantedClaimsKept ==
  [][\A p \in Pod : Deletes(p) /\ view.life = "there" => p >= view.spec.replicas]_vars

\* Claims of a SolrCloud that is deleted with the finalizer on it, and with the
\* policy Delete, are deleted, unless a call failed or a pod came in between.
ClaimsGoWithCloud ==
  (life = "deleted" /\ spec.policy = "Delete") ~>
    (Claimed = {} \/ spec.policy = "Retain" \/ hindered # {})

\* Under the policy Delete the claims of pods that were scaled away are deleted.
OrphansGo ==
  <>[](life = "there" /\ spec.policy = "Delete" /\ hindered = {}) =>
    <>[](\A p \in Claimed : p < spec.replicas)

\* A size that the storage can give is in the end the size of every pod's
\* volume and file system, unless a claim was made with the old template, or an expansion
\* was taken for complete because an earlier one was waiting for a restart.
ExpandedUnlessHindered ==
  <>[](/\ life = "there" /\ expandable /\ hindered = {}
       /\ spec.size \in minimumSize..LargestFeasible) =>
    <>[](\A p \in pods : claims[p].capacity >= spec.size)

=============================================================================
