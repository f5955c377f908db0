----------------------- MODULE ClusterOpLock_proofs -----------------------
(***************************************************************************)
(* Proofs about ClusterOpLock for every set of scale targets, storage      *)
(* sizes and update metadata, and for a retry queue of any length.         *)
(*                                                                         *)
(* TypeOK and OneOpPerKind are inductive together: a determined operation  *)
(* takes the place of the queued one of its type only, and which one that  *)
(* is depends on there being only one.                                     *)
(***************************************************************************)
EXTENDS ClusterOpLock, SequenceTheorems, TLAPS

\* The inductive invariant.
IInv == TypeOK /\ OneOpPerKind

\* The three sets of operation types that exclude one another are disjoint
\* from one another and from the other operation types.
LEMMA KindsAreDisjoint ==
  ASSUME NEW k \in Kinds, NEW l \in Kinds, NEW operation \in k, operation \in l
  PROVE  /\ k = l
         /\ operation \notin {"None", "BalanceReplicas", "Unsupported"}
BY DEF Kinds

\* What may become of a queued operation while the queue is given new values.
Carries(old, new) ==
  \/ new = old
  \/ \E kind \in Kinds : old.operation \in kind /\ new.operation \in kind
  \/ old.operation = "ScalingDown" /\ new = Balance(UndoFailedScaleDown)

\* A queue that carries every operation of the retry queue.
CarriesAll(q) ==
  /\ q \in Seq(ClusterOps)
  /\ Len(q) = Len(queue)
  /\ \A i \in DOMAIN queue : Carries(queue[i], q[i])

\* A queue carries itself.
LEMMA QueueCarriesAll ==
  ASSUME TypeOK
  PROVE  CarriesAll(queue)
BY DEF TypeOK, CarriesAll, Carries

\* The map queuedRetryOps finds the queued operation of a type, which is the
\* only one of its kind.
LEMMA QueueIndexIsUnique ==
  ASSUME IInv, NEW kind \in Kinds, NEW operation \in kind, IsQueued(operation)
  PROVE  /\ QueueIndex(operation) \in DOMAIN queue
         /\ queue[QueueIndex(operation)].operation = operation
<1>1. PICK i \in DOMAIN queue : queue[i].operation = operation
  BY DEF IsQueued
<1>2. \A j \in DOMAIN queue : queue[j].operation = operation => j = i
  BY <1>1 DEF IInv, OneOpPerKind
<1>3. i \in Nat
  BY <1>1 DEF IInv, TypeOK
<1>4. \A j \in DOMAIN queue : queue[j].operation = operation => j <= i
  BY <1>2, <1>3
<1> QED BY <1>1, <1>4 DEF QueueIndex

\* Giving the queued operation of one type a new value carries all of them.
LEMMA RequeuedCarriesAll ==
  ASSUME IInv,
         NEW kind \in Kinds, NEW operation \in kind,
         NEW op \in ClusterOps \cup {NoOp},
         op # NoOp /\ IsQueued(operation) =>
           \/ op.operation \in kind
           \/ operation = "ScalingDown" /\ op = Balance(UndoFailedScaleDown),
         NEW q, CarriesAll(q)
  PROVE  CarriesAll(Requeued(q, operation, op))
<1>1. CASE ~(op # NoOp /\ IsQueued(operation))
  BY <1>1 DEF Requeued
<1>2. CASE op # NoOp /\ IsQueued(operation)
  <2> DEFINE k == QueueIndex(operation)
             r == [q EXCEPT ![k] = op]
  <2>1. k \in DOMAIN queue /\ queue[k].operation = operation
    BY <1>2, QueueIndexIsUnique
  <2>2. DOMAIN q = DOMAIN queue /\ q \in Seq(ClusterOps) /\ queue \in Seq(ClusterOps)
    BY DEF CarriesAll, IInv, TypeOK
  <2>3. op \in ClusterOps
    BY <1>2
  <2> HIDE DEF k
  <2>4. r \in Seq(ClusterOps) /\ Len(r) = Len(q) /\ DOMAIN r = DOMAIN q
    BY <2>1, <2>2, <2>3, ExceptSeq
  <2>5. Carries(queue[k], op)
    BY <1>2, <2>1 DEF Carries
  <2>6. \A i \in DOMAIN queue : Carries(queue[i], r[i])
    BY <2>1, <2>2, <2>5 DEF CarriesAll
  <2>7. CarriesAll(r)
    BY <2>4, <2>6 DEF CarriesAll
  <2> QED BY <1>2, <2>7 DEF Requeued, k
<1> QED BY <1>1, <1>2

\* What the "determine" functions return, by operation type.
LEMMA DeterminedTypes ==
  /\ \A op \in DeterminedUpdates :
       op \in ClusterOps \cup {NoOp} /\ (op # NoOp => op.operation = "RollingUpdate")
  /\ \A op \in DeterminedExpansions :
       op \in ClusterOps \cup {NoOp} /\ (op # NoOp => op.operation = "PVCExpansion")
  /\ \A op \in DeterminedScales :
       /\ op \in ClusterOps \cup {NoOp}
       /\ op # NoOp => \/ op.operation \in {"ScalingDown", "ScalingUp"}
                       \/ IsQueued("ScalingDown") /\ op = Balance(UndoFailedScaleDown)
BY DEF DeterminedUpdates, DeterminedExpansions, DeterminedScales, ClusterOps,
       SupportedOps, Updates, Expansions, ScaleDowns, ScaleUps, Balances,
       BalanceReasons, Balance, NoOp, Op

\* The queue that is retried carries every operation of the retry queue.
LEMMA QueueToRetryCarriesAll ==
  ASSUME IInv,
         NEW update \in DeterminedUpdates, NEW expansion \in DeterminedExpansions,
         NEW scale \in DeterminedScales
  PROVE  CarriesAll(QueueToRetry(update, expansion, scale))
<1> DEFINE q1 == Requeued(queue, "RollingUpdate", update)
           q2 == Requeued(q1, "PVCExpansion", expansion)
           q3 == Requeued(q2, "ScalingDown", scale)
           q4 == Requeued(q3, "ScalingUp", scale)
           scaling == {"ScalingDown", "ScalingUp"}
<1>1. {"RollingUpdate"} \in Kinds /\ {"PVCExpansion"} \in Kinds /\ scaling \in Kinds
  BY DEF Kinds
<1>2. ~(IsQueued("ScalingDown") /\ IsQueued("ScalingUp"))
  <2> SUFFICES ASSUME IsQueued("ScalingDown"), IsQueued("ScalingUp") PROVE FALSE
    OBVIOUS
  <2>1. PICK i \in DOMAIN queue : queue[i].operation = "ScalingDown"
    BY DEF IsQueued
  <2>2. PICK j \in DOMAIN queue : queue[j].operation = "ScalingUp"
    BY DEF IsQueued
  <2>3. i = j
    BY <1>1, <2>1, <2>2 DEF IInv, OneOpPerKind
  <2> QED BY <2>1, <2>2, <2>3
<1>3. CarriesAll(queue)
  BY QueueCarriesAll DEF IInv
<1>4. CarriesAll(q1)
  BY <1>1, <1>3, DeterminedTypes, RequeuedCarriesAll
<1> HIDE DEF q1
<1>5. CarriesAll(q2)
  BY <1>1, <1>4, DeterminedTypes, RequeuedCarriesAll
<1> HIDE DEF q2
<1>6. CarriesAll(q3)
  BY <1>1, <1>5, DeterminedTypes, RequeuedCarriesAll
<1> HIDE DEF q3
<1>7. CarriesAll(q4)
  BY <1>1, <1>2, <1>6, DeterminedTypes, RequeuedCarriesAll
<1> QED BY <1>7 DEF QueueToRetry, q1, q2, q3, q4

\* A queue that carries the retry queue has no two operations of one kind.
LEMMA CarriedKinds ==
  ASSUME IInv, NEW q, CarriesAll(q), NEW kind \in Kinds,
         NEW i \in DOMAIN queue, q[i].operation \in kind
  PROVE  queue[i].operation \in kind
<1>1. Balance(UndoFailedScaleDown).operation = "BalanceReplicas"
  BY DEF Balance, Op
<1>2. q[i] # Balance(UndoFailedScaleDown)
  BY <1>1, KindsAreDisjoint
<1>3. CASE q[i] = queue[i]
  BY <1>3
<1>4. CASE \E k \in Kinds : queue[i].operation \in k /\ q[i].operation \in k
  BY <1>4, KindsAreDisjoint
<1> QED BY <1>2, <1>3, <1>4 DEF CarriesAll, Carries

\* The operation that is started is of a kind that is not queued, or of no
\* kind that excludes others.
LEMMA StartedKinds ==
  ASSUME NEW update \in DeterminedUpdates, NEW expansion \in DeterminedExpansions,
         NEW scale \in DeterminedScales,
         OpToStart(update, expansion, scale) # NoOp
  PROVE  /\ OpToStart(update, expansion, scale) \in ClusterOps
         /\ \A kind \in Kinds :
              OpToStart(update, expansion, scale).operation \in kind =>
                \A i \in DOMAIN queue : queue[i].operation \notin kind
<1> DEFINE op == OpToStart(update, expansion, scale)
<1>1. CASE op = update /\ ~IsQueued("RollingUpdate")
  BY <1>1, DeterminedTypes DEF IsQueued, Kinds
<1>2. CASE op = expansion /\ ~IsQueued("PVCExpansion")
  BY <1>2, DeterminedTypes DEF IsQueued, Kinds
<1>3. CASE op = scale /\ ~IsQueued("ScalingUp") /\ ~IsQueued("ScalingDown")
  BY <1>3, DeterminedTypes DEF IsQueued, Kinds
<1> QED BY <1>1, <1>2, <1>3 DEF OpToStart, StillNew

\* Every operation a completed one hands the lock to is a balancing, or none.
LEMMA NextOpsTypes ==
  ASSUME NEW op, NEW next \in NextOps(op)
  PROVE  /\ next \in ClusterOps \cup {NoOp}
         /\ next.operation \in {"None", "BalanceReplicas"}
BY DEF NextOps, ClusterOps, SupportedOps, Balances, BalanceReasons, Balance, NoOp, Op

\* The initial states have their types and hold no operation of any kind.
LEMMA InitIInv == Init => IInv
<1> SUFFICES ASSUME Init PROVE IInv
  OBVIOUS
<1>1. NoOp.operation = "None" /\ Unsupported.operation = "Unsupported"
  BY DEF NoOp, Unsupported, Op
<1>2. <<>> \in Seq(ClusterOps) /\ <<Unsupported>> \in Seq(ClusterOps)
  BY DEF ClusterOps
<1>3. TypeOK
  <2>1. lock \in ClusterOps \cup {NoOp}
    BY DEF Init, ClusterOps
  <2>2. queue \in Seq(ClusterOps)
    BY <1>2 DEF Init
  <2>3. age \in 0..2
    BY DEF Init
  <2> QED BY <2>1, <2>2, <2>3 DEF TypeOK
<1>4. OneOpPerKind
  BY <1>1 DEF Init, OneOpPerKind, Kinds
<1> QED BY <1>3, <1>4 DEF IInv

\* A step that puts no operation of an excluding kind into the lock and leaves
\* the queue alone keeps one operation per kind.
LEMMA NeutralLock ==
  ASSUME OneOpPerKind, queue' = queue, lock'.operation \in {"None", "BalanceReplicas"}
  PROVE  OneOpPerKind'
<1>1. \A kind \in Kinds : lock'.operation \notin kind
  BY KindsAreDisjoint
<1> QED BY <1>1 DEF OneOpPerKind, Kinds

\* Every step preserves the inductive invariant.
LEMMA NextIInv == IInv /\ [Next]_vars => IInv'
<1> SUFFICES ASSUME IInv, [Next]_vars PROVE IInv'
  OBVIOUS
<1> USE DEF IInv
<1>1. ASSUME NEW update \in DeterminedUpdates, NEW expansion \in DeterminedExpansions,
             NEW scale \in DeterminedScales, StartClusterOp(update, expansion, scale)
      PROVE  IInv'
  <2> DEFINE op == OpToStart(update, expansion, scale)
  <2>1. lock' = op /\ queue' = queue /\ age' = 0 /\ op # NoOp
    BY <1>1 DEF StartClusterOp
  <2>2. op \in ClusterOps /\ \A kind \in Kinds : op.operation \in kind =>
          \A i \in DOMAIN queue : queue[i].operation \notin kind
    BY <2>1, StartedKinds
  <2> HIDE DEF op
  <2>3. TypeOK'
    BY <2>1, <2>2 DEF TypeOK
  <2>4. OneOpPerKind'
    BY <2>1, <2>2 DEF OneOpPerKind, Kinds
  <2> QED BY <2>3, <2>4
<1>2. ASSUME NEW update \in DeterminedUpdates, NEW expansion \in DeterminedExpansions,
             NEW scale \in DeterminedScales,
             RetryNextQueuedClusterOp(update, expansion, scale)
      PROVE  IInv'
  <2> DEFINE q == QueueToRetry(update, expansion, scale)
  <2>1. lock' = Head(q) /\ queue' = Tail(q) /\ age' = 0 /\ queue # <<>>
    BY <1>2 DEF RetryNextQueuedClusterOp
  <2>2. CarriesAll(q)
    BY QueueToRetryCarriesAll
  <2> HIDE DEF q
  <2>3. q \in Seq(ClusterOps) /\ q # <<>> /\ DOMAIN q = DOMAIN queue
    BY <2>1, <2>2 DEF CarriesAll, TypeOK
  <2>4. /\ Head(q) = q[1] /\ 1 \in DOMAIN q
        /\ Tail(q) \in Seq(ClusterOps)
        /\ \A i \in DOMAIN Tail(q) : i + 1 \in DOMAIN q /\ Tail(q)[i] = q[i + 1] /\ i \in Nat \ {0}
    BY <2>3
  <2>5. TypeOK'
    BY <2>1, <2>3, <2>4 DEF TypeOK
  <2>6. \A kind \in Kinds : \A i, j \in DOMAIN q :
          q[i].operation \in kind /\ q[j].operation \in kind => i = j
    BY <2>2, <2>3, CarriedKinds DEF OneOpPerKind
  <2>7. OneOpPerKind'
    BY <2>1, <2>4, <2>6 DEF OneOpPerKind, Kinds
  <2> QED BY <2>5, <2>7
<1>3. ASSUME NEW next \in Balances \cup {NoOp}, CompleteClusterOp(next)
      PROVE  IInv'
  <2>1. TypeOK'
    BY <1>3, NextOpsTypes DEF CompleteClusterOp, TypeOK
  <2>2. OneOpPerKind'
    BY <1>3, NextOpsTypes, NeutralLock DEF CompleteClusterOp
  <2> QED BY <2>1, <2>2
<1>4. ASSUME NEW failed \in BOOLEAN, EnqueueClusterOp(failed)
      PROVE  IInv'
  <2>1. lock \in ClusterOps /\ queue' = Append(queue, lock) /\ lock' = NoOp /\ age' = 0
    BY <1>4 DEF EnqueueClusterOp, ClusterOps
  <2>2. TypeOK'
    BY <2>1 DEF TypeOK
  <2>3. NoOp.operation = "None"
    BY DEF NoOp, Op
  <2>4. /\ Len(queue) \in Nat
        /\ DOMAIN queue = 1..Len(queue)
        /\ DOMAIN queue' = 1..(Len(queue) + 1)
        /\ \A i \in DOMAIN queue' :
             queue'[i] = (IF i = Len(queue) + 1 THEN lock ELSE queue[i])
    BY <2>1 DEF TypeOK
  <2>5. ASSUME NEW kind \in Kinds, NEW i \in DOMAIN queue', NEW j \in DOMAIN queue',
               queue'[i].operation \in kind, queue'[j].operation \in kind
        PROVE  i = j
    <3>1. CASE i \in DOMAIN queue /\ j \in DOMAIN queue
      BY <2>4, <2>5, <3>1 DEF OneOpPerKind
    <3>2. CASE i = Len(queue) + 1 \/ j = Len(queue) + 1
      BY <2>4, <2>5, <3>2 DEF OneOpPerKind
    <3> QED BY <2>4, <3>1, <3>2
  <2>6. OneOpPerKind'
    BY <2>1, <2>3, <2>5 DEF OneOpPerKind, Kinds
  <2> QED BY <2>2, <2>6
<1>5. CASE RemoveUnsupportedClusterOp
  <2>1. lock' = NoOp /\ queue' = queue /\ age' = 0 /\ NoOp.operation = "None"
    BY <1>5 DEF RemoveUnsupportedClusterOp, NoOp, Op
  <2> QED BY <2>1, NeutralLock DEF TypeOK
<1>6. CASE TimePasses
  BY <1>6 DEF TimePasses, TypeOK, OneOpPerKind, Kinds
<1>7. CASE UNCHANGED vars
  BY <1>7 DEF vars, TypeOK, OneOpPerKind, Kinds
<1> QED BY <1>1, <1>2, <1>3, <1>4, <1>5, <1>6, <1>7 DEF Next

\* The inductive invariant holds in every reachable state.
THEOREM Invariance == Spec => []IInv
<1> QED BY InitIInv, NextIInv, PTL DEF Spec

\* The lock and the queue always hold operations, whatever is started, paused,
\* retried and given new values (setClusterOpLock, setClusterOpRetryQueue).
THEOREM TypeCorrectness == Spec => []TypeOK
<1>1. IInv => TypeOK
  BY DEF IInv
<1> QED BY <1>1, Invariance, PTL

\* The lock and the queue never hold two operations of one kind, so that the
\* reconcile never reads a determined operation through a nil pointer.
THEOREM ExclusiveKinds == Spec => []OneOpPerKind
<1>1. IInv => OneOpPerKind
  BY DEF IInv
<1> QED BY <1>1, Invariance, PTL

\* A step that leaves what is queued in the queue, and completes the locked
\* operation or queues it, forgets nothing.
LEMMA QueueKeptRemembers ==
  ASSUME \A i \in DOMAIN queue : i \in DOMAIN queue' /\ queue'[i] = queue[i],
         \/ Completes(lock)
         \/ \E i \in DOMAIN queue' : queue'[i] = lock
         \/ lock' = lock
         \/ lock.operation \in {"None", "Unsupported"}
  PROVE  Remembers
<1>1. ASSUME NEW reason \in BalanceReasons, Owed(reason)
      PROVE  Owed(reason)' \/ Completes(Balance(reason))
  <2>1. Balance(reason).operation = "BalanceReplicas"
    BY DEF Balance, Op
  <2>2. CASE lock = Balance(reason)
    BY <2>1, <2>2 DEF Owed
  <2>3. CASE \E i \in DOMAIN queue : queue[i] = Balance(reason)
    BY <2>3 DEF Owed
  <2> QED BY <1>1, <2>2, <2>3 DEF Owed
<1>2. ASSUME NEW kind \in Kinds, Pending(kind)
      PROVE  Pending(kind)' \/ (lock.operation \in kind /\ Completes(lock))
  <2>1. CASE lock.operation \in kind
    BY <2>1, KindsAreDisjoint DEF Pending
  <2>2. CASE \E i \in DOMAIN queue : queue[i].operation \in kind
    BY <2>2 DEF Pending
  <2> QED BY <1>2, <2>1, <2>2 DEF Pending
<1> QED BY <1>1, <1>2 DEF Remembers

\* No step forgets an operation.
LEMMA NextRemembers == IInv /\ [Next]_vars => [Remembers]_vars
<1> SUFFICES ASSUME IInv, Next PROVE Remembers
  OBVIOUS
<1> USE DEF IInv
<1>0. NoOp.operation = "None" /\ Unsupported.operation = "Unsupported"
  BY DEF NoOp, Unsupported, Op
<1>1. ASSUME NEW update \in DeterminedUpdates, NEW expansion \in DeterminedExpansions,
             NEW scale \in DeterminedScales, StartClusterOp(update, expansion, scale)
      PROVE  Remembers
  BY <1>0, <1>1, QueueKeptRemembers DEF StartClusterOp
<1>2. ASSUME NEW update \in DeterminedUpdates, NEW expansion \in DeterminedExpansions,
             NEW scale \in DeterminedScales,
             RetryNextQueuedClusterOp(update, expansion, scale)
      PROVE  Remembers
  <2> DEFINE q == QueueToRetry(update, expansion, scale)
  <2>1. lock = NoOp /\ lock' = Head(q) /\ queue' = Tail(q) /\ queue # <<>>
    BY <1>2 DEF RetryNextQueuedClusterOp
  <2>2. CarriesAll(q)
    BY QueueToRetryCarriesAll
  <2> HIDE DEF q
  <2>3. q \in Seq(ClusterOps) /\ q # <<>> /\ DOMAIN q = DOMAIN queue
    BY <2>1, <2>2 DEF CarriesAll, TypeOK
  \* Every carried operation is in the lock or in the queue afterwards.
  <2>4. \A i \in DOMAIN queue : lock' = q[i] \/ \E j \in DOMAIN queue' : queue'[j] = q[i]
    <3> SUFFICES ASSUME NEW i \in DOMAIN queue, i # 1
                 PROVE  \E j \in DOMAIN queue' : queue'[j] = q[i]
      BY <2>1, <2>3
    <3>1. i - 1 \in DOMAIN Tail(q) /\ Tail(q)[i - 1] = q[i]
      BY <2>3
    <3> QED BY <2>1, <3>1
  <2>5. ASSUME NEW reason \in BalanceReasons, Owed(reason)
        PROVE  Owed(reason)'
    <3>1. Balance(reason).operation = "BalanceReplicas"
      BY DEF Balance, Op
    <3>2. PICK i \in DOMAIN queue : queue[i] = Balance(reason)
      BY <1>0, <2>1, <2>5, <3>1 DEF Owed
    <3>3. \A kind \in Kinds : queue[i].operation \notin kind
      BY <3>1, <3>2, KindsAreDisjoint
    <3>4. q[i] = queue[i]
      BY <2>2, <3>1, <3>2, <3>3 DEF CarriesAll, Carries
    <3> QED BY <2>4, <3>2, <3>4 DEF Owed
  <2>6. ASSUME NEW kind \in Kinds, Pending(kind)
        PROVE  \/ Pending(kind)'
               \/ "ScalingDown" \in kind /\ Owed(UndoFailedScaleDown)'
    <3>1. PICK i \in DOMAIN queue : queue[i].operation \in kind
      BY <1>0, <2>1, <2>6, KindsAreDisjoint DEF Pending
    <3>2. \/ q[i].operation \in kind
          \/ queue[i].operation = "ScalingDown" /\ q[i] = Balance(UndoFailedScaleDown)
      BY <2>2, <3>1, KindsAreDisjoint DEF CarriesAll, Carries
    <3>3. CASE q[i].operation \in kind
      BY <2>4, <3>3 DEF Pending
    <3>4. CASE queue[i].operation = "ScalingDown" /\ q[i] = Balance(UndoFailedScaleDown)
      BY <2>4, <3>1, <3>4 DEF Owed
    <3> QED BY <3>2, <3>3, <3>4
  <2> QED BY <2>5, <2>6 DEF Remembers
<1>3. ASSUME NEW next \in Balances \cup {NoOp}, CompleteClusterOp(next)
      PROVE  Remembers
  BY <1>3, QueueKeptRemembers DEF CompleteClusterOp, Completes
<1>4. ASSUME NEW failed \in BOOLEAN, EnqueueClusterOp(failed)
      PROVE  Remembers
  <2>1. queue' = Append(queue, lock)
    BY <1>4 DEF EnqueueClusterOp
  <2>2. /\ \A i \in DOMAIN queue : i \in DOMAIN queue' /\ queue'[i] = queue[i]
        /\ Len(queue) + 1 \in DOMAIN queue' /\ queue'[Len(queue) + 1] = lock
    BY <2>1 DEF TypeOK
  <2> QED BY <2>2, QueueKeptRemembers
<1>5. CASE RemoveUnsupportedClusterOp
  BY <1>0, <1>5, QueueKeptRemembers DEF RemoveUnsupportedClusterOp
<1>6. CASE TimePasses
  BY <1>6, QueueKeptRemembers DEF TimePasses
<1> QED BY <1>1, <1>2, <1>3, <1>4, <1>5, <1>6 DEF Next

\* Whatever is paused, retried and given new values, an operation leaves the
\* lock and the queue only by being completed, or, if it is a scaling, by
\* turning into a balancing of the replicas.
THEOREM NothingIsForgotten == Spec => NothingForgotten
<1>1. Spec => [][Remembers]_vars
  BY Invariance, NextRemembers, PTL DEF Spec
<1> QED BY <1>1 DEF NothingForgotten
=============================================================================
