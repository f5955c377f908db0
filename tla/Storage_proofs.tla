--------------------------- MODULE Storage_proofs ---------------------------
(***************************************************************************)
(* Proofs about Storage for any number of pods, any set of sizes and any   *)
(* storage options a user may write.                                       *)
(*                                                                         *)
(* The inductive invariant has three parts.  The types of the objects need *)
(* those of the operations in the lock and in the queue, since an          *)
(* expansion writes the size that its metadata says; those are the         *)
(* invariant of ClusterOpLock_proofs, which holds here because every step  *)
(* is a step of the lock; and that a reconcile that saw the SolrCloud      *)
(* being deleted is not working on one that stays, is what keeps the       *)
(* claims that are in use.                                                 *)
(***************************************************************************)
EXTENDS Storage, TLAPS

\* The proofs about the lock, for the lock of this SolrCloud.
LockProofs == INSTANCE ClusterOpLock_proofs WITH
                PodCounts <- {}, StorageSizes <- Sizes, Migrations <- {NoMetadata}

Lives == {"there", "deleted", "gone"}

\* The SolrCloud and what a reconcile has read of it.  It does not come back
\* once it is to be deleted.
CloudInv ==
  /\ spec \in CloudSpecs /\ life \in Lives
  /\ finalizer \in BOOLEAN /\ settled \in BOOLEAN
  /\ life = "deleted" => finalizer
  /\ pc \in {"idle", "storage", "ops"}
  /\ view \in [spec : CloudSpecs, life : Lives]
  /\ view.life # "there" => life # "there"

\* The StatefulSet.
SetInv == configured \in 0..MaxPods /\ minimumSize \in Sizes /\ templateSize \in Sizes

ClaimMaps == [Pod -> Claims \cup {NoClaim}]

\* The pods and their claims.
ClaimInv ==
  /\ claims \in ClaimMaps
  /\ pods \subseteq Claimed /\ ready \subseteq pods /\ outdated \subseteq pods

LockInv == LockProofs!IInv

\* The inductive invariant.
IInv == CloudInv /\ SetInv /\ ClaimInv /\ LockInv

-----------------------------------------------------------------------------
(* The lock as Storage sees it, and as ClusterOpLock_proofs does.          *)

\* The two instances of ClusterOpLock have the same steps.
LEMMA SameNext == Lock!Next <=> LockProofs!Next
BY Zenon DEF
  Lock!Next, Lock!DeterminedUpdates, Lock!DeterminedExpansions, Lock!DeterminedScales,
  Lock!ScaleDowns, Lock!ScaleUps, Lock!Updates, Lock!Expansions, Lock!NoOp, Lock!Op,
  Lock!Balance, Lock!BalanceReasons, Lock!Balances, Lock!IsQueued, Lock!Unsupported,
  Lock!SupportedOps, Lock!StartClusterOp, Lock!RetryNextQueuedClusterOp, Lock!OpToStart,
  Lock!StillNew, Lock!QueueToRetry, Lock!Requeued, Lock!QueueIndex, Lock!ScaleOpClash,
  Lock!CompleteClusterOp, Lock!NextOps, Lock!EnqueueClusterOp, Lock!TimedOut,
  Lock!ShortTimeout, Lock!RemoveUnsupportedClusterOp, Lock!TimePasses,
  LockProofs!Next, LockProofs!DeterminedUpdates, LockProofs!DeterminedExpansions,
  LockProofs!DeterminedScales, LockProofs!ScaleDowns, LockProofs!ScaleUps,
  LockProofs!Updates, LockProofs!Expansions, LockProofs!NoOp, LockProofs!Op,
  LockProofs!Balance, LockProofs!BalanceReasons, LockProofs!Balances, LockProofs!IsQueued,
  LockProofs!Unsupported, LockProofs!SupportedOps, LockProofs!StartClusterOp,
  LockProofs!RetryNextQueuedClusterOp, LockProofs!OpToStart, LockProofs!StillNew,
  LockProofs!QueueToRetry, LockProofs!Requeued, LockProofs!QueueIndex,
  LockProofs!ScaleOpClash, LockProofs!CompleteClusterOp, LockProofs!NextOps,
  LockProofs!EnqueueClusterOp, LockProofs!TimedOut, LockProofs!ShortTimeout,
  LockProofs!RemoveUnsupportedClusterOp, LockProofs!TimePasses

\* They have the same initial states and the same invariants.
LEMMA SameState ==
  /\ Lock!Init <=> LockProofs!Init
  /\ Lock!vars = LockProofs!vars
  /\ Lock!OneOpPerKind <=> LockProofs!OneOpPerKind
BY Zenon DEF
  Lock!Init, Lock!NoOp, Lock!Op, Lock!Unsupported, Lock!vars, Lock!OneOpPerKind, Lock!Kinds,
  LockProofs!Init, LockProofs!NoOp, LockProofs!Op, LockProofs!Unsupported, LockProofs!vars,
  LockProofs!OneOpPerKind, LockProofs!Kinds

\* An expansion that holds the lock is to a size.
LEMMA LockedExpansion ==
  ASSUME LockInv, lock.operation = "PVCExpansion"
  PROVE  lock.metadata \in Sizes
BY DEF LockInv, LockProofs!IInv, LockProofs!TypeOK, LockProofs!ClusterOps,
       LockProofs!SupportedOps, LockProofs!ScaleDowns, LockProofs!ScaleUps,
       LockProofs!Updates, LockProofs!Expansions, LockProofs!Balances,
       LockProofs!Balance, LockProofs!Unsupported, LockProofs!NoOp, LockProofs!Op

\* What a reconcile finds necessary is what the lock's specification says that
\* the "determine" functions return.
LEMMA Determined ==
  ASSUME CloudInv, NEW allowed
  PROVE  /\ UpdateNeeded \in Lock!DeterminedUpdates
         /\ ExpansionNeeded(allowed) \in Lock!DeterminedExpansions
         /\ Lock!NoOp \in Lock!DeterminedScales
<1>1. view.spec.size \in Sizes
  BY StorageAssumption DEF CloudInv
<1> QED BY <1>1 DEF UpdateNeeded, ExpansionNeeded, Lock!DeterminedUpdates,
           Lock!DeterminedExpansions, Lock!DeterminedScales, Lock!Updates, Lock!Expansions

\* An operation that is paused or goes on makes a step of the lock, or none.
LEMMA PauseIsLockStep ==
  ASSUME NEW failed \in BOOLEAN, PauseOrGoOn(failed)
  PROVE  Lock!Next \/ UNCHANGED Lock!vars
BY DEF PauseOrGoOn, lockVars, Lock!Next, Lock!vars

\* Every step is a step of the lock or leaves it alone.
LEMMA LockStep ==
  ASSUME CloudInv, [Next]_vars
  PROVE  [Lock!Next]_Lock!vars
<1>1. CASE DetermineClusterOp
  <2>1. PICK allowed \in {expandable, TRUE} :
          \/ Lock!StartClusterOp(UpdateNeeded, ExpansionNeeded(allowed), Lock!NoOp)
          \/ Lock!RetryNextQueuedClusterOp(UpdateNeeded, ExpansionNeeded(allowed), Lock!NoOp)
          \/ UNCHANGED lockVars
    BY Zenon, <1>1 DEF DetermineClusterOp
  <2>2. CASE UNCHANGED lockVars
    BY <2>2 DEF lockVars, Lock!vars
  <2> QED BY <2>1, <2>2, Determined DEF Lock!Next
<1>2. CASE ExpandPVCs
  <2>1. Lock!CompleteClusterOp(Lock!NoOp) \/ PauseOrGoOn(FALSE)
    BY Zenon, <1>2 DEF ExpandPVCs
  <2> QED BY Zenon, <2>1, PauseIsLockStep DEF Lock!Next
<1>3. CASE ExpansionError
  BY Zenon, <1>3, PauseIsLockStep DEF ExpansionError
<1>4. CASE UpdatePods
  <2>1. Lock!CompleteClusterOp(Lock!NoOp) \/ PauseOrGoOn(FALSE)
    BY Zenon, <1>4 DEF UpdatePods
  <2> QED BY Zenon, <2>1, PauseIsLockStep DEF Lock!Next
<1>5. CASE TimePasses
  BY <1>5 DEF TimePasses, Lock!Next
<1>6. CASE UNCHANGED lockVars
  BY <1>6 DEF lockVars, Lock!vars
<1>7. CASE UNCHANGED vars
  BY <1>6, <1>7 DEF vars
<1>8. ASSUME NEW p \in Pod,
             CreatePod(p) \/ PodReady(p) \/ PodGone(p) \/ ClaimGone(p) \/ VolumeGrows(p)
      PROVE  UNCHANGED lockVars
  BY Zenon, <1>8 DEF CreatePod, PodReady, PodGone, ClaimGone, VolumeGrows
<1>9. CASE \/ Begin \/ CleanupOrphanPVCs \/ CleanUpAllPVCs \/ ReleaseStorage
           \/ StorageError \/ DetermineError \/ ReleaseError \/ Restart \/ UserEdits
  BY <1>6, <1>9 DEF Begin, CleanupOrphanPVCs, CleanUpAllPVCs, ReleaseStorage, StorageError,
                    DetermineError, ReleaseError, Restart, UserEdits
<1> QED BY <1>1, <1>2, <1>3, <1>4, <1>5, <1>6, <1>7, <1>8, <1>9 DEF Next

\* So the invariant of the lock is kept.
LEMMA LockInvKept ==
  ASSUME CloudInv, LockInv, [Next]_vars
  PROVE  LockInv'
<1>1. [LockProofs!Next]_LockProofs!vars
  BY LockStep, SameNext DEF Lock!vars, LockProofs!vars
<1> QED BY <1>1, StorageAssumption, LockProofs!NextIInv DEF LockInv

-----------------------------------------------------------------------------
(* The claims.                                                             *)

\* Claims that are all kept, none of them newly deleted except these.
Keep(new, ps) ==
  /\ new \in ClaimMaps
  /\ \A p \in Pod : claims[p] # NoClaim => new[p] # NoClaim
  /\ \A p \in Pod \ ps :
       claims[p] # NoClaim /\ ~claims[p].deleted => new[p] # NoClaim /\ ~new[p].deleted

\* A change of a claim that leaves it a claim.
LEMMA ClaimFields ==
  ASSUME NEW c \in Claims
  PROVE  /\ [c EXCEPT !.deleted = TRUE] \in Claims
         /\ \A s \in Sizes : /\ [c EXCEPT !.request = s] \in Claims
                             /\ [c EXCEPT !.request = s].deleted = c.deleted
                             /\ [c EXCEPT !.volume = s] \in Claims
                             /\ [c EXCEPT !.volume = s].deleted = c.deleted
                             /\ [c EXCEPT !.capacity = s] \in Claims
                             /\ [c EXCEPT !.capacity = s].deleted = c.deleted
BY Zenon DEF Claims

\* The claims stay as they are.
LEMMA SameKept ==
  ASSUME ClaimInv, NEW ps
  PROVE  Keep(claims, ps)
BY DEF ClaimInv, Keep

\* deletePVC leaves every claim there, and marks the given ones.
LEMMA MarkedKept ==
  ASSUME ClaimInv, NEW ps
  PROVE  Keep(Marked(ps), ps)
<1>1. ASSUME NEW p \in Pod
      PROVE  /\ Marked(ps)[p] \in Claims \cup {NoClaim}
             /\ claims[p] # NoClaim => Marked(ps)[p] # NoClaim
             /\ p \notin ps => Marked(ps)[p] = claims[p]
  <2>1. claims[p] \in Claims \cup {NoClaim}
    BY DEF ClaimInv, ClaimMaps
  <2> QED BY <2>1, ClaimFields, StorageAssumption DEF Marked
<1>2. Marked(ps) \in ClaimMaps
  BY <1>1 DEF Marked, ClaimMaps
<1> QED BY <1>1, <1>2 DEF Keep

\* So does the deletion of several claims, one of which may fail.
LEMMA DeletePVCsKept ==
  ASSUME ClaimInv, NEW ps, DeletePVCs(ps)
  PROVE  Keep(claims', ps)
<1>1. ASSUME NEW failed, claims' = Marked(ps \ {failed})
      PROVE  Keep(claims', ps)
  <2>1. Keep(claims', ps \ {failed})
    BY <1>1, MarkedKept
  <2> QED BY <2>1 DEF Keep
<1>2. CASE claims' = Marked(ps)
  BY <1>2, MarkedKept
<1> QED BY Zenon, <1>1, <1>2 DEF DeletePVCs

\* expandPVC leaves every claim there, and deletes none.
LEMMA RequestingKept ==
  ASSUME ClaimInv, NEW size \in Sizes
  PROVE  Keep(Requesting(size), {})
<1>1. ASSUME NEW p \in Pod
      PROVE  /\ Requesting(size)[p] \in Claims \cup {NoClaim}
             /\ claims[p] # NoClaim => Requesting(size)[p] # NoClaim
             /\ claims[p] # NoClaim => Requesting(size)[p].deleted = claims[p].deleted
  <2>1. claims[p] \in Claims \cup {NoClaim}
    BY DEF ClaimInv, ClaimMaps
  <2>2. CASE Requesting(size)[p] = claims[p]
    BY <2>1, <2>2
  <2>3. CASE p \in Claimed /\ Requesting(size)[p] = [claims[p] EXCEPT !.request = size]
    <3>1. claims[p] \in Claims
      BY <2>1, <2>3 DEF Claimed
    <3> DEFINE c == [claims[p] EXCEPT !.request = size]
    <3>2. c \in Claims /\ c.deleted = claims[p].deleted
      BY Zenon, <3>1, ClaimFields
    <3> HIDE DEF c
    <3>3. c # NoClaim
      BY <3>2, StorageAssumption
    <3>4. Requesting(size)[p] = c
      BY <2>3 DEF c
    <3> QED BY <3>2, <3>3, <3>4
  <2> QED BY <2>2, <2>3 DEF Requesting
<1>2. Requesting(size) \in ClaimMaps
  BY <1>1 DEF Requesting, ClaimMaps
<1> QED BY <1>1, <1>2 DEF Keep

\* Nor does it when one of the claims cannot be patched.
LEMMA RequestingButOneKept ==
  ASSUME ClaimInv, NEW size \in Sizes, NEW failed \in Claimed
  PROVE  Keep([Requesting(size) EXCEPT ![failed] = claims[failed]], {})
<1>1. Keep(Requesting(size), {})
  BY RequestingKept
<1>2. failed \in Pod /\ claims[failed] # NoClaim /\ claims[failed] \in Claims \cup {NoClaim}
  BY DEF Claimed, ClaimInv, ClaimMaps
<1> QED BY <1>1, <1>2 DEF Keep, ClaimMaps

\* Where claims are only kept, pods that stay keep theirs.
LEMMA KeptClaimInv ==
  ASSUME ClaimInv, NEW ps, Keep(claims', ps),
         pods' \subseteq pods, ready' \subseteq pods', outdated' \subseteq pods'
  PROVE  ClaimInv'
BY DEF ClaimInv, Keep, Claimed
-----------------------------------------------------------------------------
(* The inductive invariant.                                                *)

\* The SolrCloud as it is read.
LEMMA SeenType ==
  ASSUME CloudInv
  PROVE  Seen \in [spec : CloudSpecs, life : Lives] /\ Seen.life = life
BY DEF CloudInv, Seen

\* At the end of a reconcile nothing is remembered of what it read.
LEMMA EndCloudInv ==
  ASSUME CloudInv, pc' = "idle", view' = Seen, settled' \in BOOLEAN,
         UNCHANGED <<spec, life, finalizer>>
  PROVE  CloudInv'
BY SeenType DEF CloudInv

\* Every step keeps the types of the SolrCloud, and none brings it back.
LEMMA CloudInvKept ==
  ASSUME CloudInv, [Next]_vars
  PROVE  CloudInv'
<1> USE DEF cloudVars, runVars
<1>1. CASE Begin
  BY <1>1, SeenType DEF Begin, CloudInv
<1>2. CASE CleanupOrphanPVCs
  BY <1>2 DEF CleanupOrphanPVCs, CloudInv
<1>3. CASE CleanUpAllPVCs
  <2>1. /\ pc' = "ops" /\ UNCHANGED <<spec, settled, view>>
        /\ \/ life' = "gone" /\ finalizer' = FALSE
           \/ UNCHANGED <<life, finalizer>>
    BY <1>3 DEF CleanUpAllPVCs
  <2> QED BY Zenon, <2>1 DEF CloudInv, Lives
<1>4. CASE ReleaseStorage
  <2>1. /\ pc' = "ops" /\ UNCHANGED <<spec, settled, view>> /\ finalizer' = FALSE
        /\ life' = IF finalizer /\ life = "deleted" THEN "gone" ELSE life
    BY <1>4 DEF ReleaseStorage
  <2> QED BY Zenon, <2>1 DEF CloudInv, Lives
<1>5. CASE StorageError
  BY <1>5 DEF StorageError, CloudInv
<1>6. CASE DetermineClusterOp \/ ExpandPVCs \/ ExpansionError \/ UpdatePods
  <2>1. \E again : End(again)
    BY Zenon, <1>6 DEF DetermineClusterOp, ExpandPVCs, ExpansionError, UpdatePods
  <2>2. UNCHANGED <<spec, life, finalizer>>
    BY Zenon, <1>6 DEF DetermineClusterOp, ExpandPVCs, ExpansionError, UpdatePods
  <2> QED BY <2>1, <2>2, EndCloudInv DEF End
<1>7. CASE DetermineError \/ ReleaseError \/ Restart
  <2>1. EndWithError /\ UNCHANGED <<spec, life, finalizer>>
    BY <1>7 DEF DetermineError, ReleaseError, Restart
  <2> QED BY <2>1, EndCloudInv DEF EndWithError, CloudInv
<1>8. CASE UserEdits
  <2>1. /\ spec' \in CloudSpecs /\ UNCHANGED <<finalizer, settled, pc>>
        /\ \/ life' = life
           \/ life = "there" /\ life' = IF finalizer THEN "deleted" ELSE "gone"
    BY <1>8 DEF UserEdits, CloudInv
  <2>2. view' = view \/ view' = [spec |-> spec', life |-> life']
    BY <1>8 DEF UserEdits, Seen
  <2>3. life' \in Lives /\ (life' = "deleted" => finalizer') /\ (life # "there" => life' # "there")
    BY <2>1 DEF CloudInv, Lives
  <2>4. view' \in [spec : CloudSpecs, life : Lives] /\ (view'.life # "there" => life' # "there")
    BY <2>1, <2>2, <2>3 DEF CloudInv
  <2> QED BY <2>1, <2>3, <2>4 DEF CloudInv
<1>9. CASE TimePasses
  BY <1>9 DEF TimePasses, CloudInv
<1>10. ASSUME NEW p \in Pod,
              CreatePod(p) \/ PodReady(p) \/ PodGone(p) \/ ClaimGone(p) \/ VolumeGrows(p)
       PROVE  CloudInv'
  BY Zenon, <1>10 DEF CreatePod, PodReady, PodGone, ClaimGone, VolumeGrows, CloudInv
<1>11. CASE UNCHANGED vars
  BY <1>11 DEF vars, CloudInv
<1> QED BY <1>1, <1>2, <1>3, <1>4, <1>5, <1>6, <1>7, <1>8, <1>9, <1>10, <1>11 DEF Next

\* Every step keeps the StatefulSet's number of pods and sizes in range.
LEMMA SetInvKept ==
  ASSUME CloudInv, SetInv, LockInv, [Next]_vars
  PROVE  SetInv'
<1> USE DEF setVars, SetInv
<1>1. CASE DetermineClusterOp
  <2>1. view.spec.replicas \in 0..MaxPods
    BY StorageAssumption DEF CloudInv
  <2>2. configured' \in {configured, view.spec.replicas} /\ UNCHANGED <<minimumSize, templateSize>>
    BY Zenon, <1>1 DEF DetermineClusterOp
  <2> QED BY <2>1, <2>2
<1>2. CASE ExpandPVCs \/ ReleaseError
  <2>1. lock.metadata \in Sizes
    BY Zenon, <1>2, LockedExpansion DEF ExpandPVCs, ReleaseError
  <2>2. minimumSize' \in {minimumSize, lock.metadata} /\ UNCHANGED <<configured, templateSize>>
    BY Zenon, <1>2 DEF ExpandPVCs, ReleaseError
  <2> QED BY <2>1, <2>2
<1>3. CASE UNCHANGED setVars
  BY <1>3
<1>4. CASE \/ Begin \/ CleanupOrphanPVCs \/ CleanUpAllPVCs \/ ReleaseStorage \/ StorageError
           \/ DetermineError \/ ExpansionError \/ UpdatePods \/ Restart \/ UserEdits \/ TimePasses
  BY Zenon, <1>3, <1>4 DEF Begin, CleanupOrphanPVCs, CleanUpAllPVCs, ReleaseStorage, StorageError,
       DetermineError, ExpansionError, UpdatePods, Restart, UserEdits, TimePasses
<1>5. ASSUME NEW p \in Pod,
             CreatePod(p) \/ PodReady(p) \/ PodGone(p) \/ ClaimGone(p) \/ VolumeGrows(p)
      PROVE  UNCHANGED setVars
  BY Zenon, <1>5 DEF CreatePod, PodReady, PodGone, ClaimGone, VolumeGrows
<1>6. CASE UNCHANGED vars
  BY <1>6 DEF vars
<1> QED BY <1>1, <1>2, <1>3, <1>4, <1>5, <1>6 DEF Next
\* The step of a reconcile, of the user or of the clock.
ReconcileOrUser ==
  \/ Begin
  \/ CleanupOrphanPVCs \/ CleanUpAllPVCs \/ ReleaseStorage \/ StorageError
  \/ DetermineClusterOp \/ DetermineError
  \/ ExpandPVCs \/ ExpansionError \/ ReleaseError \/ UpdatePods
  \/ Restart \/ UserEdits \/ TimePasses
  \/ UNCHANGED vars

\* No pod comes, and claims go only where the SolrCloud goes, or beyond the pods
\* that the StatefulSet is to have.
KeepsClaims ==
  /\ pods' \subseteq pods /\ ready' \subseteq pods' /\ outdated' \subseteq pods'
  /\ \E ps : Keep(claims', ps) /\ (life = "there" => \A p \in ps : p >= configured)

\* Every step of a reconcile, of the user or of the clock keeps the claims of
\* pods that are to be there.
LEMMA ReconcileKeepsClaims ==
  ASSUME CloudInv, ClaimInv, LockInv, ReconcileOrUser
  PROVE  KeepsClaims
<1> USE DEF podVars
<1>0. ready \subseteq pods /\ outdated \subseteq pods
  BY DEF ClaimInv
<1>same. ASSUME claims' = claims,
              pods' \subseteq pods, ready' \subseteq pods', outdated' \subseteq pods'
       PROVE  KeepsClaims
  <2>1. Keep(claims', {})
    BY <1>same, SameKept
  <2> QED BY <1>same, <2>1 DEF KeepsClaims
<1>1. CASE CleanupOrphanPVCs
  <2>1. Keep(claims', Orphans) /\ UNCHANGED podVars
    BY <1>1, DeletePVCsKept DEF CleanupOrphanPVCs
  <2>2. \A p \in Orphans : p >= configured
    BY DEF Orphans, IsPVCOrphan
  <2> QED BY <1>0, <2>1, <2>2 DEF KeepsClaims
<1>2. CASE CleanUpAllPVCs
  <2>1. Keep(claims', Pod) /\ UNCHANGED podVars
    BY <1>2, DeletePVCsKept DEF CleanUpAllPVCs
  <2>2. life # "there"
    BY <1>2 DEF CleanUpAllPVCs, Deleting, CloudInv
  <2> QED BY <1>0, <2>1, <2>2 DEF KeepsClaims
<1>3. CASE StorageError
  <2>1. CASE claims' = claims
    BY <1>0, <1>same, <1>3, <2>1 DEF StorageError
  <2>2. CASE Deleting /\ claims' = Marked(Pod)
    <3>1. Keep(claims', Pod)
      BY <2>2, MarkedKept
    <3>2. life # "there"
      BY <2>2 DEF Deleting, CloudInv
    <3> QED BY <1>0, <1>3, <3>1, <3>2 DEF StorageError, KeepsClaims
  <2> QED BY <1>3, <2>1, <2>2 DEF StorageError
<1>4. CASE ExpandPVCs
  <2>1. Keep(claims', {})
    BY Zenon, <1>4, LockedExpansion, RequestingKept DEF ExpandPVCs
  <2>2. UNCHANGED <<pods, ready>> /\ outdated' \in {outdated, pods}
    BY Zenon, <1>4 DEF ExpandPVCs
  <2> QED BY <1>0, <2>1, <2>2 DEF KeepsClaims
<1>5. CASE ExpansionError
  <2>1. lock.metadata \in Sizes
    BY <1>5, LockedExpansion DEF ExpansionError
  <2>2. \/ claims' = claims
        \/ \E failed \in Claimed :
             claims' = [Requesting(lock.metadata) EXCEPT ![failed] = claims[failed]]
    BY <1>5 DEF ExpansionError
  <2>3. Keep(claims', {})
    BY <2>1, <2>2, SameKept, RequestingButOneKept
  <2>4. UNCHANGED podVars
    BY <1>5 DEF ExpansionError
  <2> QED BY <1>0, <2>3, <2>4 DEF KeepsClaims
<1>6. CASE ReleaseError
  <2>1. UNCHANGED <<claims, pods, ready>> /\ outdated' \in {outdated, pods}
    BY <1>6 DEF ReleaseError
  <2> QED BY <1>0, <1>same, <2>1
<1>7. CASE UpdatePods
  <2>1. UNCHANGED claims
    BY <1>7 DEF UpdatePods
  <2>2. \/ UNCHANGED podVars
        \/ \E p \in outdated : /\ outdated' = outdated \ {p} /\ ready = pods
                               /\ pods' = pods \ {p} /\ ready' = ready \ {p}
    BY Zenon, <1>7 DEF UpdatePods
  <2>3. pods' \subseteq pods /\ ready' \subseteq pods' /\ outdated' \subseteq pods'
    BY <1>0, <2>2
  <2> QED BY <1>same, <2>1, <2>3
<1>8. CASE UNCHANGED <<claims, podVars>>
  BY <1>0, <1>same, <1>8
<1>9. CASE \/ Begin \/ ReleaseStorage \/ DetermineClusterOp \/ DetermineError \/ Restart
           \/ UserEdits \/ TimePasses \/ UNCHANGED vars
  BY Zenon, <1>8, <1>9 DEF Begin, ReleaseStorage, DetermineClusterOp, DetermineError, Restart,
                    UserEdits, TimePasses, vars
<1> QED BY <1>1, <1>2, <1>3, <1>4, <1>5, <1>6, <1>7, <1>9 DEF ReconcileOrUser

\* A step of the StatefulSet controller or of the storage: claims keep their
\* types, pods have claims, and none is deleted.
LEMMA PodStepClaims ==
  ASSUME SetInv, ClaimInv, NEW p \in Pod,
         CreatePod(p) \/ PodReady(p) \/ PodGone(p) \/ ClaimGone(p) \/ VolumeGrows(p)
  PROVE  ClaimInv' /\ \A q \in Pod : ~Deletes(q)
<1>0. claims \in ClaimMaps /\ pods \subseteq Claimed /\ ready \subseteq pods /\ outdated \subseteq pods
  BY DEF ClaimInv
<1>1. claims[p] \in Claims \cup {NoClaim}
  BY <1>0 DEF ClaimMaps
\* All but one of the claims stay as they are.
<1>2. ASSUME NEW c \in Claims \cup {NoClaim}, claims' = [claims EXCEPT ![p] = c],
             claims[p] # NoClaim /\ ~claims[p].deleted /\ c # NoClaim => ~c.deleted,
             c = NoClaim => p \notin pods',
             pods' \subseteq pods \cup {p}, ready' \subseteq pods', outdated' \subseteq pods'
      PROVE  ClaimInv' /\ \A q \in Pod : ~Deletes(q)
  <2>1. claims' \in ClaimMaps
    BY <1>0, <1>2 DEF ClaimMaps
  <2>2. \A q \in Pod : claims'[q] = IF q = p THEN c ELSE claims[q]
    BY <1>0, <1>2 DEF ClaimMaps
  <2>3. pods' \subseteq Claimed'
    BY <1>0, <1>2, <2>2 DEF Claimed
  <2>4. \A q \in Pod : ~Deletes(q)
    BY <1>2, <2>2 DEF Deletes, Claimed
  <2> QED BY <1>2, <2>1, <2>3, <2>4 DEF ClaimInv
<1>3. CASE CreatePod(p)
  <2> DEFINE c == IF claims[p] = NoClaim THEN Claim(templateSize)
                  ELSE [claims[p] EXCEPT !.capacity = claims[p].volume]
  <2>1. /\ claims' = [claims EXCEPT ![p] = c]
        /\ pods' = pods \cup {p} /\ outdated' = outdated \ {p} /\ ready' = ready
    BY Zenon, <1>0, <1>3 DEF CreatePod, ClaimMaps
  <2>2. c \in Claims /\ (claims[p] # NoClaim /\ ~claims[p].deleted => ~c.deleted)
    <3>1. CASE claims[p] = NoClaim
      <4>1. Claim(templateSize) \in Claims
        BY DEF Claim, Claims, SetInv
      <4> QED BY <3>1, <4>1
    <3>2. CASE claims[p] # NoClaim
      <4>1. claims[p] \in Claims /\ claims[p].volume \in Sizes
        BY <1>1, <3>2 DEF Claims
      <4>2. /\ [claims[p] EXCEPT !.capacity = claims[p].volume] \in Claims
            /\ [claims[p] EXCEPT !.capacity = claims[p].volume].deleted = claims[p].deleted
        BY Zenon, <4>1, ClaimFields
      <4>3. c = [claims[p] EXCEPT !.capacity = claims[p].volume]
        BY <3>2
      <4> HIDE DEF c
      <4> QED BY <4>2, <4>3
    <3> QED BY <3>1, <3>2
  <2> HIDE DEF c
  <2>3. c # NoClaim
    BY <2>2, StorageAssumption
  <2> QED BY Zenon, <1>0, <1>2, <2>1, <2>2, <2>3
<1>4. CASE PodReady(p)
  <2>1. claims' = claims /\ pods' = pods /\ outdated' = outdated /\ ready' = ready \cup {p}
        /\ p \in pods
    BY <1>4 DEF PodReady
  <2> QED BY <1>0, <2>1 DEF ClaimInv, Claimed, Deletes
<1>5. CASE PodGone(p)
  <2>1. /\ claims' = claims
        /\ pods' = pods \ {p} /\ ready' = ready \ {p} /\ outdated' = outdated \ {p}
    BY <1>5 DEF PodGone
  <2> QED BY <1>0, <2>1 DEF ClaimInv, Claimed, Deletes
<1>6. CASE ClaimGone(p)
  <2>1. /\ claims' = [claims EXCEPT ![p] = NoClaim] /\ p \notin pods
        /\ UNCHANGED <<pods, ready, outdated>>
    BY <1>6 DEF ClaimGone, podVars
  <2> QED BY Zenon, <1>0, <1>2, <2>1
<1>7. CASE VolumeGrows(p)
  <2>1. claims[p] \in Claims /\ claims[p].request \in Sizes
    BY <1>1, <1>7 DEF VolumeGrows, Claimed, Claims
  <2>2. PICK size \in {claims[p].capacity, claims[p].request} :
          claims' = [claims EXCEPT ![p].volume = claims[p].request, ![p].capacity = size]
    BY Zenon, <1>7 DEF VolumeGrows
  <2> DEFINE b == [claims[p] EXCEPT !.volume = claims[p].request]
             c == [b EXCEPT !.capacity = size]
  <2>3. claims' = [claims EXCEPT ![p] = c]
    BY Zenon, <1>0, <2>2 DEF ClaimMaps
  <2>4. size \in Sizes
    BY <2>1, <2>2 DEF Claims
  <2>5. c \in Claims /\ c.deleted = claims[p].deleted
    <3>1. b \in Claims /\ b.deleted = claims[p].deleted
      BY Zenon, <2>1, ClaimFields
    <3> HIDE DEF b
    <3> QED BY Zenon, <2>4, <3>1, ClaimFields
  <2> HIDE DEF c
  <2>6. c # NoClaim
    BY <2>5, StorageAssumption
  <2>7. UNCHANGED <<pods, ready, outdated>>
    BY <1>7 DEF VolumeGrows, podVars
  <2> QED BY Zenon, <1>0, <1>2, <2>3, <2>5, <2>6, <2>7
<1> QED BY <1>3, <1>4, <1>5, <1>6, <1>7
\* Every step keeps the claims' types, and every pod has one.
LEMMA ClaimInvKept ==
  ASSUME CloudInv, SetInv, ClaimInv, LockInv, [Next]_vars
  PROVE  ClaimInv'
<1>1. CASE ReconcileOrUser
  BY <1>1, ReconcileKeepsClaims, KeptClaimInv DEF KeepsClaims
<1>2. ASSUME NEW p \in Pod,
             CreatePod(p) \/ PodReady(p) \/ PodGone(p) \/ ClaimGone(p) \/ VolumeGrows(p)
      PROVE  ClaimInv'
  BY <1>2, PodStepClaims
<1> QED BY <1>1, <1>2 DEF Next, ReconcileOrUser

\* The initial states satisfy the inductive invariant.
LEMMA Initially == Init => IInv
<1> SUFFICES ASSUME Init PROVE IInv
  OBVIOUS
<1>1. /\ spec \in CloudSpecs /\ spec.replicas \in 0..MaxPods /\ spec.size \in Sizes
      /\ Claim(spec.size) \in Claims
  BY StorageAssumption DEF Init, Claim, Claims
<1>2. CloudInv
  BY <1>1 DEF Init, Seen, CloudInv, Lives
<1>3. SetInv
  BY <1>1 DEF Init, SetInv
<1>4. ClaimInv
  <2>1. pods \subseteq Pod
    BY <1>1, StorageAssumption DEF Init, Pod
  <2>2. claims \in ClaimMaps
    BY <1>1 DEF Init, ClaimMaps
  <2>3. \A p \in pods : claims[p] = Claim(spec.size)
    BY <2>1 DEF Init
  <2>4. Claim(spec.size) # NoClaim
    BY <1>1, StorageAssumption
  <2> QED BY <2>1, <2>2, <2>3, <2>4 DEF Init, ClaimInv, Claimed
<1>5. Lock!Init
  BY DEF Init, Lock!Init
<1>6. LockInv
  BY <1>5, SameState, StorageAssumption, LockProofs!InitIInv DEF LockInv
<1> QED BY <1>2, <1>3, <1>4, <1>6 DEF IInv

\* Every step preserves it.
LEMMA Inductive == IInv /\ [Next]_vars => IInv'
BY CloudInvKept, SetInvKept, ClaimInvKept, LockInvKept DEF IInv

\* It holds in every reachable state.
LEMMA Invariance == Spec => []IInv
BY Initially, Inductive, PTL DEF Spec

-----------------------------------------------------------------------------
(* The theorems.                                                           *)

\* The SolrCloud, its StatefulSet, claims and pods have their types: every pod
\* has a claim, and a SolrCloud that is being deleted is held by the finalizer.
THEOREM TypeCorrectness == Spec => []TypeOK
<1>1. IInv => TypeOK
  BY DEF IInv, CloudInv, SetInv, ClaimInv, ClaimMaps, Lives, TypeOK
<1> QED BY <1>1, Invariance, PTL

\* cleanupOrphanPVCs, with a status of any age, and the deletions of a SolrCloud
\* that is to go, never delete the claim of a pod that the StatefulSet of a
\* SolrCloud that stays is to have.
THEOREM UsedClaimsAreKept == Spec => ClaimsInUseKept
<1>1. IInv /\ [Next]_vars =>
        [\A p \in Pod : Deletes(p) /\ life = "there" => p >= configured]_vars
  <2> SUFFICES ASSUME IInv, [Next]_vars, NEW p \in Pod, Deletes(p), life = "there"
               PROVE  p >= configured
    OBVIOUS
  <2>1. CASE ReconcileOrUser
    <3>1. KeepsClaims
      BY <2>1, ReconcileKeepsClaims DEF IInv
    <3>2. PICK ps : Keep(claims', ps) /\ \A q \in ps : q >= configured
      BY <3>1 DEF KeepsClaims
    <3>3. p \in ps
      BY <3>2 DEF Keep, Deletes, Claimed
    <3> QED BY <3>2, <3>3
  <2>2. CASE \E q \in Pod :
               CreatePod(q) \/ PodReady(q) \/ PodGone(q) \/ ClaimGone(q) \/ VolumeGrows(q)
    BY <2>2, PodStepClaims DEF IInv
  <2> QED BY <2>1, <2>2 DEF Next, ReconcileOrUser
<1>2. Spec => [][\A p \in Pod : Deletes(p) /\ life = "there" => p >= configured]_vars
  BY <1>1, Invariance, PTL DEF Spec
<1> QED BY <1>2 DEF ClaimsInUseKept

\* The expansions, updates and scalings of a SolrCloud's storage implement the
\* cluster-operation lock: each step is one of the lock's, or leaves it alone.
THEOREM StorageUsesLock == Spec => UsesLock
<1>1. Init => Lock!Init
  BY DEF Init, Lock!Init
<1>2. IInv /\ [Next]_vars => [Lock!Next]_Lock!vars
  BY LockStep DEF IInv
<1>3. Spec => Lock!Spec
  BY <1>1, <1>2, Invariance, PTL DEF Spec, Lock!Spec
<1> QED BY <1>3 DEF UsesLock

\* So what is proved of the lock holds of it here: an expansion or an update is
\* never locked or queued twice.
THEOREM StorageOpsAreExclusive == Spec => []Lock!OneOpPerKind
<1>1. IInv => Lock!OneOpPerKind
  BY SameState DEF IInv, LockInv, LockProofs!IInv
<1> QED BY <1>1, Invariance, PTL
=============================================================================
