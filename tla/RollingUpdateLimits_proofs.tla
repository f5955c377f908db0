--------------------- MODULE RollingUpdateLimits_proofs ---------------------
(***************************************************************************)
(* Proofs that RollingUpdate keeps to the limits of the update strategy,   *)
(* for any number of pods, replicas, shards, revisions and faults.         *)
(*                                                                         *)
(* That the update keeps to maxPodsUnavailable needs the number of pods    *)
(* that may be unavailable to be followed from where a reconcile counts    *)
(* them, through whatever pods do in the meantime, to where it takes the   *)
(* last one out of traffic.                                                *)
(*                                                                         *)
(* An update that takes one pod at a time also keeps the limit of each     *)
(* shard, and loses no replica with ephemeral storage, however the         *)
(* replicas are placed and whatever fails.  Both compare what a reconcile  *)
(* saw with what is so when it acts.  The invariant says which pods it may *)
(* still take down (OneInv), where replicas are being moved (MoveInv),     *)
(* which are out of service or may become so before the next look          *)
(* (RiskInv), and, with ephemeral storage, that a pod which is to be       *)
(* deleted has lost all its replicas and gets no other (HomeInv).          *)
(*                                                                         *)
(* The lock of the cluster operations comes last.                          *)
(***************************************************************************)
EXTENDS RollingUpdate_proofs

-----------------------------------------------------------------------------
(* The number of pods that are unavailable.                                *)

Limit == Resolve(MaxPodsUnavailable, NumPods)

\* A reconcile has counted as unavailable all the pods that are, and those that
\* it may delete without regard to the limit.  Once it has chosen, either it
\* works on these only, or all the pods that are unavailable, or will be when it
\* is done, are within the limit.
CountInv ==
  Quiet =>
    /\ pc = "reconcile" =>
         Cardinality(CountedUnavailable \cup view.scheduled \cup view.notStarted)
           <= NumPods - view.available - Cardinality(view.running)
    /\ pc = "update" =>
         \/ Range(view.todo) \subseteq view.notStarted \cup view.scheduled
         \/ Cardinality(CountedUnavailable \cup Range(view.todo)) <= Limit

\* The count stays true, from where it is made to where the last pod is taken
\* out of traffic.
LEMMA CountKept ==
  ASSUME IInv, IInv', PodsInv, CountInv, [Next]_vars
  PROVE  CountInv'
<1> SUFFICES ASSUME Quiet'
             PROVE  /\ pc' = "reconcile" =>
                         Cardinality(CountedUnavailable' \cup view'.scheduled \cup view'.notStarted)
                           <= NumPods - view'.available - Cardinality(view'.running)
                    /\ pc' = "update" =>
                         \/ Range(view'.todo) \subseteq view'.notStarted \cup view'.scheduled
                         \/ Cardinality(CountedUnavailable' \cup Range(view'.todo)) <= Limit
  BY Zenon DEF CountInv, Limit
<1> DEFINE before == CountedUnavailable
           after == CountedUnavailable'
           exempt == view.scheduled \cup view.notStarted
           counted == NumPods - view.available - Cardinality(view.running)
<1>1. /\ pc = "reconcile" => Cardinality(before \cup exempt) <= counted
      /\ pc = "update" => \/ Range(view.todo) \subseteq exempt
                          \/ Cardinality(before \cup Range(view.todo)) <= Limit
  <2>1. Quiet
    BY QuietBefore
  <2>2. before \cup exempt = CountedUnavailable \cup view.scheduled \cup view.notStarted
    OBVIOUS
  <2>3. view.notStarted \cup view.scheduled = exempt
    OBVIOUS
  <2> HIDE DEF before, exempt
  <2> QED BY Zenon, <2>1, <2>2, <2>3 DEF CountInv, before, counted
<1>2. /\ pod \in PodMaps /\ view \in Views /\ view' \in Views
      /\ exempt \in SUBSET Pod /\ counted \in Int
  <2>1. view \in Views /\ view' \in Views /\ pod \in PodMaps
    BY DEF IInv, TypeOK, PodMaps
  <2>2. exempt \in SUBSET Pod /\ view.running \in SUBSET Pod /\ view.available \in Nat
    BY <2>1 DEF Views
  <2>3. Cardinality(view.running) \in Nat
    BY <2>2, MorePods
  <2> QED BY <2>1, <2>2, <2>3, SelectionAssumption
<1>3. before \in SUBSET Pod /\ after \in SUBSET Pod
  BY DEF CountedUnavailable
<1>4. /\ Range(view.todo) \in SUBSET Pod /\ Range(view'.todo) \in SUBSET Pod
  BY <1>2 DEF Views, Range
<1>5. Limit \in Nat
  BY PodLimitType DEF Limit
<1>6. ASSUME after \subseteq before, pc' = pc,
             view'.scheduled = view.scheduled, view'.notStarted = view.notStarted,
             view'.todo = view.todo, view'.available = view.available,
             view'.running = view.running
      PROVE  /\ pc' = "reconcile" =>
                  Cardinality(CountedUnavailable' \cup view'.scheduled \cup view'.notStarted)
                    <= NumPods - view'.available - Cardinality(view'.running)
             /\ pc' = "update" =>
                  \/ Range(view'.todo) \subseteq view'.notStarted \cup view'.scheduled
                  \/ Cardinality(CountedUnavailable' \cup Range(view'.todo)) <= Limit
  <2>1. /\ Cardinality(after \cup exempt) \in Nat /\ Cardinality(before \cup exempt) \in Nat
        /\ Cardinality(after \cup exempt) <= Cardinality(before \cup exempt)
    <3>1. before \cup exempt \in SUBSET Pod /\ after \cup exempt \in SUBSET (before \cup exempt)
      BY <1>2, <1>3, <1>6
    <3> HIDE DEF before, after, exempt
    <3> QED BY <3>1, MorePods
  <2>2. /\ Cardinality(after \cup Range(view.todo)) \in Nat
        /\ Cardinality(before \cup Range(view.todo)) \in Nat
        /\ Cardinality(after \cup Range(view.todo)) <= Cardinality(before \cup Range(view.todo))
    <3>1. /\ before \cup Range(view.todo) \in SUBSET Pod
          /\ after \cup Range(view.todo) \in SUBSET (before \cup Range(view.todo))
      BY Zenon, <1>3, <1>4, <1>6
    <3> HIDE DEF before, after
    <3> QED BY <3>1, MorePods
  <2>3. /\ CountedUnavailable' \cup view'.scheduled \cup view'.notStarted = after \cup exempt
        /\ view'.notStarted \cup view'.scheduled = exempt
    BY <1>6
  <2>4. NumPods - view'.available - Cardinality(view'.running) = counted
    BY Zenon, <1>6
  <2>5. CountedUnavailable' \cup Range(view'.todo) = after \cup Range(view.todo)
    BY Zenon, <1>6
  <2>6. pc' = "reconcile" => Cardinality(after \cup exempt) <= counted
    <3> HIDE DEF before, after, exempt, counted
    <3> QED BY <1>1, <1>2, <1>6, <2>1
  <2>7. pc' = "update" => \/ Range(view'.todo) \subseteq exempt
                          \/ Cardinality(after \cup Range(view.todo)) <= Limit
    <3> HIDE DEF before, after, exempt, counted
    <3> QED BY <1>1, <1>5, <1>6, <2>2
  <2> HIDE DEF before, after, exempt, counted
  <2> QED BY Zenon, <2>3, <2>4, <2>5, <2>6, <2>7
<1>7. CASE Begin
  <2>1. (view' = ReadView /\ pc' = "reconcile") \/ pc' = "idle"
    BY Zenon, <1>2, <1>7, BeginFields
  <2>2. after \subseteq before
    <3>1. ASSUME NEW p \in Pod PROVE ~HandlesPodStep(p)
      BY <1>7 DEF Begin, HandlesPodStep, Handling
    <3> QED BY Zenon, <3>1, AvailableKept
  <2>3. ASSUME view' = ReadView
        PROVE  Cardinality(CountedUnavailable' \cup view'.scheduled \cup view'.notStarted)
                 <= NumPods - view'.available - Cardinality(view'.running)
    <3>1. /\ Cardinality(before) = NumPods - view'.available - Cardinality(view'.running)
          /\ view'.scheduled \cup view'.notStarted \subseteq before
      BY <1>2, <2>3, CountedWhenRead
    <3>2. CountedUnavailable' \cup view'.scheduled \cup view'.notStarted \in SUBSET before
      BY <2>2, <3>1
    <3> DEFINE now == CountedUnavailable' \cup view'.scheduled \cup view'.notStarted
    <3>3. Cardinality(now) <= Cardinality(before)
      BY <1>3, <3>2, MorePods
    <3> QED BY <3>1, <3>3
  <2> QED BY <2>1, <2>3
<1>8. CASE EndsReconcile
  BY <1>8 DEF EndsReconcile
<1>9. CASE SelectsPods
  <2>1. /\ pc = "reconcile" /\ pc' = "update" /\ after = before
        /\ view'.notStarted \cup view'.scheduled = exempt
    <3>1. /\ pc = "reconcile" /\ pc' = "update" /\ UNCHANGED <<pod, revision>>
          /\ view'.scheduled = view.scheduled /\ view'.notStarted = view.notStarted
      BY Zenon, <1>9 DEF SelectsPods
    <3>2. after = before
      BY Zenon, <3>1 DEF CountedUnavailable, Ready, Running, OutOfDate, ScheduledForDeletion,
                         NotStarted, Exists
    <3> QED BY <3>1, <3>2
  <2>2. ASSUME NEW picked \in SUBSET Pod,
               Range(view'.todo) \subseteq exempt \cup picked,
               counted + Cardinality(picked) <= Limit
        PROVE  Cardinality(after \cup Range(view'.todo)) <= Limit
    <3> DEFINE some == before \cup exempt
               now == after \cup Range(view'.todo)
    <3>1. some \in SUBSET Pod /\ some \cup picked \in SUBSET Pod /\ now \in SUBSET (some \cup picked)
      BY <1>2, <1>3, <2>1, <2>2
    <3>2. Cardinality(some) <= counted
      BY Zenon, <1>1, <2>1
    <3> HIDE DEF some, now, counted
    <3>3. IsFiniteSet(some) /\ IsFiniteSet(picked)
      BY <3>1, Finite
    <3>4. /\ Cardinality(some) \in Nat /\ Cardinality(picked) \in Nat
          /\ Cardinality(some \cap picked) \in Nat
      BY <3>1, MorePods
    <3>5. Cardinality(some \cup picked)
            = Cardinality(some) + Cardinality(picked) - Cardinality(some \cap picked)
      BY <3>3, FS_Union
    <3>6. Cardinality(now) \in Nat /\ Cardinality(now) <= Cardinality(some \cup picked)
      BY <3>1, MorePods
    <3>7. Cardinality(now) <= Limit
      BY <1>2, <1>5, <2>2, <3>2, <3>4, <3>5, <3>6
    <3> QED BY <3>7 DEF now
  <2>3. \/ Range(view'.todo) \subseteq view.notStarted \cup view.scheduled
        \/ \E picked \in SUBSET Pod :
             /\ Range(view'.todo) \subseteq view.notStarted \cup view.scheduled \cup picked
             /\ counted + Cardinality(picked) <= Limit
    <3>1. PICK picked \in SUBSET Pod :
            /\ Range(view'.todo) \subseteq view.notStarted \cup view.scheduled \cup picked
            /\ picked = {} \/ counted + Cardinality(picked) <= Limit
      BY Zenon, <1>9 DEF SelectsPods, Limit
    <3>2. view.notStarted \cup view.scheduled \cup {} = view.notStarted \cup view.scheduled
      OBVIOUS
    <3> QED BY Zenon, <3>1, <3>2
  <2>4. /\ view.notStarted \cup view.scheduled = exempt
        /\ \A picked : view.notStarted \cup view.scheduled \cup picked = exempt \cup picked
    OBVIOUS
  <2>5. \/ Range(view'.todo) \subseteq exempt
        \/ Cardinality(after \cup Range(view'.todo)) <= Limit
    <3> HIDE DEF exempt, counted, after
    <3> QED BY Zenon, <2>2, <2>3, <2>4
  <2> QED BY Zenon, <2>1, <2>5
<1>10. ASSUME NEW p \in Pod, HandlesPodStep(p)
       PROVE  /\ pc' = "update"
              /\ \/ Range(view'.todo) \subseteq view'.notStarted \cup view'.scheduled
                 \/ Cardinality(CountedUnavailable' \cup Range(view'.todo)) <= Limit
  <2>1. /\ pc = "update" /\ pc' = "update" /\ p \in Range(view.todo)
        /\ Range(view'.todo) \subseteq Range(view.todo)
        /\ view'.scheduled = view.scheduled /\ view'.notStarted = view.notStarted
    BY Zenon, <1>2, <1>10, PodHandledType DEF HandlesPodStep, Handling
  <2>2. after \subseteq before \cup Range(view.todo)
    <3>1. ASSUME NEW q \in Pod, HandlesPodStep(q) PROVE q = p
      BY Zenon, <1>10, <3>1 DEF HandlesPodStep, Handling
    <3>2. after \subseteq before \cup {p}
      BY <3>1, AvailableKept
    <3> QED BY <2>1, <3>2
  <2>3. /\ before \cup Range(view.todo) \in SUBSET Pod
        /\ after \cup Range(view'.todo) \in SUBSET (before \cup Range(view.todo))
    BY Zenon, <1>3, <1>4, <2>1, <2>2
  <2>4. /\ Cardinality(before \cup Range(view.todo)) \in Nat
        /\ Cardinality(after \cup Range(view'.todo)) \in Nat
        /\ Cardinality(after \cup Range(view'.todo)) <= Cardinality(before \cup Range(view.todo))
    <3> HIDE DEF before, after
    <3> QED BY <2>3, MorePods
  <2>5. view'.notStarted \cup view'.scheduled = exempt
    BY <2>1
  <2>6. \/ Range(view'.todo) \subseteq exempt
        \/ Cardinality(after \cup Range(view'.todo)) <= Limit
    <3> HIDE DEF before, after, exempt
    <3> QED BY <1>1, <1>5, <2>1, <2>4
  <2> QED BY Zenon, <2>1, <2>5, <2>6
<1>11. ASSUME \/ UserEdits \/ SolrWorks
              \/ \E p \in Pod : \/ PodCreated(p) \/ SolrStarts(p) \/ PodReady(p)
                                \/ PodDeleted(p) \/ PodLost(p),
              \A p \in Pod : ~HandlesPodStep(p)
       PROVE  /\ after \subseteq before /\ pc' = pc
              /\ view'.scheduled = view.scheduled /\ view'.notStarted = view.notStarted
              /\ view'.todo = view.todo /\ view'.available = view.available
              /\ view'.running = view.running
  <2>1. after \subseteq before
    BY Zenon, <1>11, AvailableKept
  <2>2. UserEdits \/ SolrWorks => UNCHANGED <<pc, view>>
    BY Zenon DEF UserEdits, SolrWorks
  <2> QED BY Zenon, <1>11, <2>1, <2>2, OnePodFields
<1>12. pc' = "update" => pc' # "reconcile"
  OBVIOUS
<1> HIDE DEF before, after, exempt, counted
<1> QED BY Zenon, <1>6, <1>7, <1>8, <1>9, <1>10, <1>11, <1>12, StepKinds

LEMMA LimitInitially == Init => PodsInv /\ CountInv
<1> SUFFICES ASSUME Init PROVE PodsInv /\ CountInv
  OBVIOUS
<1>1. /\ revision = 0 /\ pc = "idle" /\ view = NoView
      /\ pod = [p \in Pod |-> IF 0 \in BadRevisions THEN NewPod(0)
                              ELSE [NewPod(0) EXCEPT !.phase = "ready", !.traffic = "started"]]
  BY Zenon DEF Init
<1>2. view.listed = {}
  BY <1>1 DEF NoView
<1>3. \A p \in Pod : pod[p].revision = 0 /\ pod[p].terminating = FALSE
  BY <1>1 DEF NewPod
<1> QED BY <1>1, <1>2, <1>3 DEF PodsInv, CountInv

\* What a reconcile has counted holds for as long as it acts on it.
LEMMA LimitInvariance == Spec => [](PodsInv /\ CountInv)
<1>1. IInv /\ IInv' /\ PodsInv /\ CountInv /\ [Next]_vars => (PodsInv /\ CountInv)'
  BY PodsKept, CountKept
<1> QED BY <1>1, LimitInitially, Invariance, PTL DEF Spec

\* Only a reconcile that works on a pod takes it out of traffic.
LEMMA TakenOutOfTraffic ==
  ASSUME IInv, [Next]_vars, NEW p \in Ready, pod'[p].traffic = "stopped"
  PROVE  HandlesPodStep(p) /\ p \notin view.scheduled
<1>1. p \in Pod /\ pod[p].traffic = "started" /\ pod \in PodMaps /\ pod[p] \in PodStates
  BY DEF Ready, IInv, TypeOK, PodMaps
<1>2. pod'[p] # pod[p]
  BY <1>1
<1>3. ~Begin
  BY <1>1, BeginFields
<1>4. ~EndsReconcile
  <2>1. ASSUME NEW pods, pod' = WithTraffic(pods, "started") PROVE FALSE
    <3>1. pod'[p].traffic = IF p \in pods THEN "started" ELSE pod[p].traffic
      BY <1>1, <2>1, TrafficFields DEF Traffics
    <3> QED BY <1>1, <3>1
  <2> QED BY Zenon, <1>2, <2>1 DEF EndsReconcile
<1>5. ~(SelectsPods \/ UserEdits \/ SolrWorks)
  BY Zenon, <1>2 DEF SelectsPods, UserEdits, SolrWorks
<1>6. ASSUME NEW q \in Pod,
             PodCreated(q) \/ SolrStarts(q) \/ PodReady(q) \/ PodDeleted(q) \/ PodLost(q)
      PROVE  FALSE
  <2>1. p = q
    BY Zenon, <1>1, <1>2, <1>6, OnePodFields
  <2>2. NewPod(revision).traffic # "stopped" /\ AbsentPod.traffic # "stopped"
    BY DEF NewPod, AbsentPod
  <2>3. pod'[p].traffic # pod[p].traffic
    BY <1>1
  <2> QED BY Zenon, <1>6, <2>1, <2>2, <2>3, OnePodFields
<1>7. PICK q \in Pod : HandlesPodStep(q)
  BY Zenon, <1>3, <1>4, <1>5, <1>6, StepKinds
<1>8. StopsPod(q) /\ q = p
  <2>1. StopsPod(q)
    BY Zenon, <1>2, <1>7 DEF HandlesPodStep
  <2> QED BY Zenon, <1>1, <1>2, <2>1, StopsPodFields
<1>9. p \notin view.scheduled
  <2>1. pod'[p].traffic = IF p \in view.scheduled THEN pod[p].traffic ELSE "stopped"
    BY Zenon, <1>1, <1>8, StopsPodFields
  <2> QED BY <1>1, <2>1
<1> QED BY Zenon, <1>7, <1>8, <1>9

\* When it does, the pods that are unavailable then are within the limit.
LEMMA WithinLimit ==
  ASSUME IInv, IInv', PodsInv, CountInv, [Next]_vars, Quiet,
         NEW p \in Ready \ view.notStarted, pod'[p].traffic = "stopped"
  PROVE  Cardinality(CountedUnavailable') <= Limit
<1>1. p \in Pod /\ HandlesPodStep(p) /\ p \notin view.scheduled /\ p \notin view.notStarted
  BY TakenOutOfTraffic DEF Ready
<1>2. Quiet'
  <2>1. past' = past \/ past' = past \cup {"misdirected"}
    BY Zenon, <1>1 DEF HandlesPodStep
  <2> QED BY <2>1 DEF Quiet
<1>3. pc = "update" /\ p \in Range(view.todo)
  <2>1. view \in Views
    BY DEF IInv
  <2> QED BY Zenon, <1>1, <2>1, PodHandledType DEF HandlesPodStep, Handling
<1>4. Cardinality(CountedUnavailable \cup Range(view.todo)) <= Limit
  BY <1>1, <1>3 DEF CountInv
<1>5. CountedUnavailable' \subseteq CountedUnavailable \cup Range(view.todo)
  <2>1. ASSUME NEW q \in Pod, HandlesPodStep(q) PROVE q = p
    BY Zenon, <1>1, <2>1 DEF HandlesPodStep, Handling
  <2>2. CountedUnavailable' \subseteq CountedUnavailable \cup {p}
    BY <1>2, <2>1, AvailableKept
  <2> QED BY <1>3, <2>2
<1>6. CountedUnavailable \in SUBSET Pod /\ Range(view.todo) \in SUBSET Pod
  BY DEF CountedUnavailable, IInv, Views, Range
<1> DEFINE before == CountedUnavailable \cup Range(view.todo)
           after == CountedUnavailable'
<1>7. before \in SUBSET Pod /\ after \in SUBSET before
  BY <1>5, <1>6
<1>8. Cardinality(before) <= Limit /\ Limit \in Nat
  BY <1>4, PodLimitType DEF Limit
<1>9. Cardinality(after) <= Limit
  <2> HIDE DEF before, after
  <2> QED BY <1>7, <1>8, MorePods
<1> QED BY <1>9

\* As long as no pod is lost and no update is paused, a pod in which Solr had
\* started is taken out of traffic for an update only while no more than
\* maxPodsUnavailable pods are unavailable, itself included: for any number of
\* pods and any limit, although the reconcile acts on what it counted earlier and
\* pods start, become ready, are patched and are replaced in the meantime.
THEOREM UpdateKeepsPodLimit == Spec => PodLimitKept
<1>1. IInv /\ IInv' /\ PodsInv /\ CountInv /\ [Next]_vars =>
        [(\E p \in Ready \ view.notStarted : pod'[p].traffic = "stopped")
            /\ past \cap {"lost", "paused"} = {} =>
            Cardinality(CountedUnavailable') <= Resolve(MaxPodsUnavailable, NumPods)]_vars
  BY WithinLimit DEF Quiet, Limit
<1>2. Spec =>
        [][(\E p \in Ready \ view.notStarted : pod'[p].traffic = "stopped")
              /\ past \cap {"lost", "paused"} = {} =>
              Cardinality(CountedUnavailable') <= Resolve(MaxPodsUnavailable, NumPods)]_vars
  BY <1>1, Invariance, LimitInvariance, PTL DEF Spec
<1> QED BY <1>2 DEF PodLimitKept

-----------------------------------------------------------------------------
(* The replicas, when pods are updated one by one.                         *)

\* maxPodsUnavailable allows one pod, as the default of 25% does for up to seven
\* pods, and the first revision is one with which Solr starts.
OneByOne == Limit = 1 /\ 0 \notin BadRevisions

\* The pods that are unavailable, and those that the reconcile may take down.
Taken == CountedUnavailable \cup view.scheduled \cup view.notStarted \cup Range(view.todo)

\* In quiet times there is one at most.
OneInv == Quiet => \A p, q \in Taken : p = q

\* What is taken was taken before, or is the one pod that has been picked when
\* there was none.
LEMMA TakenKept ==
  ASSUME IInv, IInv', PodsInv, CountInv, OneByOne, Quiet', [Next]_vars
  PROVE  \/ Taken' \subseteq Taken
         \/ /\ SelectsPods
            /\ CountedUnavailable \cup view.scheduled \cup view.notStarted = {}
            /\ WithinShardLimit(Cluster, {}, Taken')
            /\ \A p, q \in Taken' : p = q
<1>1. view \in Views /\ view' \in Views /\ pod \in PodMaps
  BY DEF IInv, TypeOK, PodMaps
<1>2. CASE \E p \in Pod : HandlesPodStep(p)
  <2>1. PICK p \in Pod : HandlesPodStep(p)
    BY <1>2
  <2>2. /\ p \in Range(view.todo) /\ Range(view'.todo) \subseteq Range(view.todo)
        /\ view'.scheduled = view.scheduled /\ view'.notStarted = view.notStarted
    BY <1>1, <2>1, PodHandledType DEF HandlesPodStep
  <2>3. ASSUME NEW q \in Pod, HandlesPodStep(q) PROVE q = p
    BY Zenon, <2>1, <2>3 DEF HandlesPodStep, Handling
  <2>4. CountedUnavailable' \subseteq CountedUnavailable \cup {p}
    BY <2>3, AvailableKept
  <2> QED BY <2>2, <2>4 DEF Taken
<1> SUFFICES ASSUME \A p \in Pod : ~HandlesPodStep(p)
             PROVE  \/ Taken' \subseteq Taken
                    \/ /\ SelectsPods
                       /\ CountedUnavailable \cup view.scheduled \cup view.notStarted = {}
                       /\ WithinShardLimit(Cluster, {}, Taken')
                       /\ \A p, q \in Taken' : p = q
  BY <1>2
<1>3. CountedUnavailable' \subseteq CountedUnavailable
  BY Zenon, AvailableKept
<1>4. CASE Begin
  <2>1. view' = ReadView \/ view' = view
    BY Zenon, <1>1, <1>4, BeginFields
  <2>2. ASSUME view' = ReadView PROVE Range(view'.todo) = {}
    <3>1. view'.todo = <<>>
      BY <2>2 DEF ReadView, NoView
    <3> QED BY <3>1 DEF Range
  <2>3. ReadView.scheduled \cup ReadView.notStarted \subseteq CountedUnavailable
    BY <1>1, CountedWhenRead
  <2> QED BY <1>3, <2>1, <2>2, <2>3 DEF Taken
<1>5. CASE EndsReconcile
  <2>1. view' = NoView
    BY Zenon, <1>5 DEF EndsReconcile
  <2>2. view'.scheduled = {} /\ view'.notStarted = {} /\ view'.todo = <<>>
    BY <2>1 DEF NoView
  <2>3. Range(view'.todo) = {}
    BY <2>2 DEF Range
  <2> QED BY <1>3, <2>2, <2>3 DEF Taken
<1>6. CASE SelectsPods
  <2> DEFINE some == CountedUnavailable \cup view.scheduled \cup view.notStarted
             counted == NumPods - view.available - Cardinality(view.running)
  <2>1. PICK picked \in SUBSET Pod :
          /\ Range(view'.todo) \subseteq view.notStarted \cup view.scheduled \cup picked
          /\ picked = {} \/ counted + Cardinality(picked) <= Limit
          /\ WithinShardLimit(Cluster, view.scheduled, picked)
    BY Zenon, <1>6 DEF SelectsPods, Limit
  <2>2. /\ pc = "reconcile" /\ view'.scheduled = view.scheduled /\ view'.notStarted = view.notStarted
    BY Zenon, <1>6 DEF SelectsPods
  <2>3. Taken' \subseteq some \cup picked /\ some \subseteq Taken
    BY <1>3, <2>1, <2>2 DEF Taken
  <2>4. CASE picked = {}
    BY <2>3, <2>4
  <2>5. CASE picked # {}
    <3>1. some \in SUBSET Pod /\ view.running \in SUBSET Pod /\ view.available \in Nat
      BY <1>1 DEF Views, CountedUnavailable
    <3>2. /\ Cardinality(some) \in Nat /\ Cardinality(picked) \in Nat
          /\ Cardinality(view.running) \in Nat
          /\ IsFiniteSet(some) /\ IsFiniteSet(picked)
      <4> HIDE DEF some
      <4> QED BY <3>1, MorePods, Finite
    <3>3. Cardinality(some) <= counted /\ counted \in Int
      <4>1. Quiet
        BY QuietBefore
      <4>2. Cardinality(some) <= counted
        BY Zenon, <2>2, <4>1 DEF CountInv
      <4> QED BY <3>1, <3>2, <4>2, SelectionAssumption
    <3>4. Cardinality(picked) # 0
      BY <2>5, <3>2, FS_EmptySet
    <3>5. Cardinality(some) = 0 /\ Cardinality(picked) = 1
      <4> HIDE DEF some, counted
      <4> QED BY <2>1, <2>5, <3>2, <3>3, <3>4 DEF OneByOne
    <3>6. some = {}
      BY <3>2, <3>5, FS_EmptySet
    <3>7. PICK v : picked = {v}
      BY Zenon, <3>2, <3>5, FS_Singleton
    <3>8. Taken' \subseteq {v} /\ view.scheduled = {}
      BY <2>3, <3>6, <3>7
    <3>9. CASE Taken' = {}
      BY Zenon, <3>9
    <3>10. CASE Taken' # {}
      <4>1. Taken' = {v}
        BY <3>8, <3>10
      <4>2. WithinShardLimit(Cluster, {}, Taken')
        BY Zenon, <2>1, <3>7, <3>8, <4>1
      <4>3. \A p, q \in Taken' : p = q
        BY <4>1
      <4> QED BY Zenon, <1>6, <3>6, <4>2, <4>3
    <3> QED BY Zenon, <3>9, <3>10
  <2> QED BY Zenon, <2>4, <2>5
<1>7. ASSUME \/ UserEdits \/ SolrWorks
             \/ \E p \in Pod : \/ PodCreated(p) \/ SolrStarts(p) \/ PodReady(p)
                               \/ PodDeleted(p) \/ PodLost(p)
      PROVE  Taken' \subseteq Taken
  <2>1. UserEdits \/ SolrWorks => view' = view
    BY Zenon DEF UserEdits, SolrWorks
  <2>2. /\ view'.scheduled = view.scheduled /\ view'.notStarted = view.notStarted
        /\ view'.todo = view.todo
    BY Zenon, <1>7, <2>1, OnePodFields
  <2> QED BY <1>3, <2>2 DEF Taken
<1> QED BY Zenon, <1>4, <1>5, <1>6, <1>7, StepKinds

\* So there is one at most, for as long as the times are quiet.
LEMMA OneKept ==
  ASSUME IInv, IInv', PodsInv, CountInv, OneByOne, OneInv, [Next]_vars
  PROVE  OneInv'
<1> SUFFICES ASSUME Quiet'
             PROVE  \A p, q \in Taken' : p = q
  BY DEF OneInv
<1>1. Quiet
  BY QuietBefore
<1>2. \A p, q \in Taken : p = q
  BY <1>1 DEF OneInv
<1> QED BY Zenon, <1>2, TakenKept

LEMMA OneInitially ==
  ASSUME Init, OneByOne
  PROVE  CountedUnavailable = {} /\ Taken = {}
<1>1. /\ revision = 0 /\ view = NoView
      /\ pod = [p \in Pod |-> [NewPod(0) EXCEPT !.phase = "ready", !.traffic = "started"]]
  BY Zenon DEF Init, OneByOne
<1>2. \A p \in Pod : pod[p].phase = "ready" /\ pod[p].traffic = "started"
  BY Zenon, <1>1 DEF NewPod
<1>3. CountedUnavailable = {}
  BY <1>2 DEF CountedUnavailable, Ready
<1>4. view.scheduled = {} /\ view.notStarted = {} /\ Range(view.todo) = {}
  BY <1>1 DEF NoView, Range
<1> QED BY <1>3, <1>4 DEF Taken

\* The storage and the size wanted do not change.
LEMMA FixedKept ==
  ASSUME IInv, [Next]_vars
  PROVE  UNCHANGED fixed
<1>1. ASSUME NEW p \in Pod, \/ HandlesPodStep(p) \/ PodCreated(p) \/ SolrStarts(p)
                            \/ PodReady(p) \/ PodDeleted(p) \/ PodLost(p)
      PROVE  UNCHANGED fixed
  BY Zenon, <1>1 DEF HandlesPodStep, PodCreated, SolrStarts, PodReady, PodDeleted, PodLost, PodGone
<1>2. ASSUME Begin \/ EndsReconcile \/ SelectsPods \/ UserEdits \/ SolrWorks
      PROVE  UNCHANGED fixed
  BY Zenon, <1>2 DEF Begin, EndsReconcile, SelectsPods, UserEdits, SolrWorks
<1> QED BY Zenon, <1>1, <1>2, StepKinds

\* The steps, by what they do to replicas and to requests to move them.
LEMMA ReplicaSteps ==
  ASSUME IInv, [Next]_vars
  PROVE  /\ \/ UNCHANGED <<home, state>>
            \/ \E p \in Pod : \/ SolrStarts(p) \/ PodDeleted(p) \/ PodLost(p)
                              \/ \E r \in Replicas, q \in Pod : ReplicaMoves(p, r, q)
            \/ \E r \in Replicas : ReplicaRecovers(r)
         /\ \/ UNCHANGED <<task, moving>>
            \/ \E p \in Pod : \/ HandlesPodStep(p) \/ TaskEnds(p)
                              \/ \E r \in Replicas, q \in Pod : ReplicaMoves(p, r, q)
<1>1. ASSUME NEW p \in Pod, PodCreated(p) \/ PodReady(p)
      PROVE  UNCHANGED <<home, state, task, moving>>
  BY Zenon, <1>1 DEF PodCreated, PodReady, solrVars
<1>2. ASSUME Begin \/ EndsReconcile \/ SelectsPods \/ UserEdits
      PROVE  UNCHANGED <<home, state, task, moving>>
  BY Zenon, <1>2 DEF Begin, EndsReconcile, SelectsPods, UserEdits, solrVars
<1>3. ASSUME NEW p \in Pod, SolrStarts(p) \/ PodDeleted(p) \/ PodLost(p)
      PROVE  UNCHANGED <<task, moving>>
  BY Zenon, <1>3 DEF SolrStarts, PodDeleted, PodLost, PodGone
<1>4. ASSUME NEW p \in Pod, HandlesPodStep(p) \/ TaskEnds(p)
      PROVE  UNCHANGED <<home, state>>
  BY Zenon, <1>4 DEF HandlesPodStep, TaskEnds
<1>5. ASSUME NEW r \in Replicas, ReplicaRecovers(r)
      PROVE  UNCHANGED <<task, moving>>
  BY Zenon, <1>5 DEF ReplicaRecovers
<1> QED BY Zenon, <1>1, <1>2, <1>3, <1>4, <1>5, StepKinds DEF SolrWorks

\* Only a request that is running has replicas to move, and only pods with
\* ephemeral storage that are not the only ones are vacated.
MoveInv ==
  \A p \in Pod : /\ task[p] # "running" => moving[p] = {}
                 /\ ~ephemeral \/ OnlyPod(p) => task[p] = "notfound"

LEMMA MovesKept ==
  ASSUME IInv, MoveInv, [Next]_vars
  PROVE  MoveInv'
<1>1. UNCHANGED fixed
  BY FixedKept
<1>2. task \in [Pod -> TaskStates] /\ moving \in [Pod -> SUBSET Replicas]
  BY DEF IInv, TypeOK
<1>3. CASE UNCHANGED <<task, moving>>
  BY <1>1, <1>3 DEF MoveInv, OnlyPod, fixed
<1>4. ASSUME NEW p \in Pod, HandlesPodStep(p)
      PROVE  MoveInv'
  <2>1. EvictsPod(p)
    BY Zenon, <1>4 DEF HandlesPodStep
  <2>2. CASE ephemeral /\ ~OnlyPod(p) /\ SubmitMove(p)
    BY <1>1, <1>2, <2>2 DEF MoveInv, SubmitMove, OnlyPod, fixed
  <2>3. CASE ephemeral /\ ~OnlyPod(p) /\ ForgetMove(p) /\ task[p] # "running"
    BY <1>1, <1>2, <2>3 DEF MoveInv, ForgetMove, OnlyPod, fixed
  <2> QED BY Zenon, <1>3, <2>1, <2>2, <2>3 DEF EvictsPod
<1>5. ASSUME NEW p \in Pod, task[p] = "running", NEW t \in TaskStates, NEW m \in SUBSET Replicas,
             task' = [task EXCEPT ![p] = t], moving' = [moving EXCEPT ![p] = m],
             t = "running" \/ m = {}
      PROVE  MoveInv'
  BY <1>1, <1>2, <1>5 DEF MoveInv, OnlyPod, fixed
<1>6. ASSUME NEW p \in Pod, TaskEnds(p)
      PROVE  MoveInv'
  <2>1. /\ task[p] = "running" /\ moving' = [moving EXCEPT ![p] = {}]
        /\ \/ task' = [task EXCEPT ![p] = "completed"]
           \/ task' = [task EXCEPT ![p] = "failed"]
    BY Zenon, <1>6 DEF TaskEnds
  <2>2. {} \in SUBSET Replicas /\ "completed" \in TaskStates /\ "failed" \in TaskStates
    BY DEF TaskStates
  <2> QED BY Zenon, <1>5, <2>1, <2>2
<1>7. ASSUME NEW p \in Pod, NEW r \in Replicas, NEW q \in Pod, ReplicaMoves(p, r, q)
      PROVE  MoveInv'
  <2>1. /\ task[p] = "running" /\ moving' = [moving EXCEPT ![p] = moving[p] \ {r}]
        /\ task' = task
    BY Zenon, <1>7 DEF ReplicaMoves
  <2>2. task' = [task EXCEPT ![p] = "running"] /\ moving[p] \ {r} \in SUBSET Replicas
    BY <1>2, <2>1
  <2> QED BY Zenon, <1>5, <2>1, <2>2 DEF TaskStates
<1> QED BY Zenon, <1>3, <1>4, <1>6, <1>7, ReplicaSteps

\* A pod whose node is live stays so, unless it is being deleted.
LEMMA LiveKept ==
  ASSUME IInv, Quiet', [Next]_vars, NEW p \in Live, ~pod[p].terminating
  PROVE  p \in Live'
<1>1. p \in Pod /\ pod[p].phase \in {"live", "ready"} /\ pod \in PodMaps /\ Quiet
  BY QuietBefore DEF Live, IInv, TypeOK, PodMaps
<1> SUFFICES pod'[p].phase \in {"live", "ready"}
  BY <1>1 DEF Live
<1>2. CASE Begin
  BY <1>1, <1>2, BeginFields
<1>3. CASE EndsReconcile
  BY <1>1, <1>3 DEF EndsReconcile, Quiet
<1>4. CASE SelectsPods \/ UserEdits \/ SolrWorks
  <2>1. pod' = pod
    BY Zenon, <1>4 DEF SelectsPods, UserEdits, SolrWorks
  <2> QED BY <1>1, <2>1
<1>5. ASSUME NEW q \in Pod, HandlesPodStep(q)
      PROVE  pod'[p].phase \in {"live", "ready"}
  BY <1>1, <1>5, StopsPodFields DEF HandlesPodStep
<1>6. ASSUME NEW q \in Pod,
             PodCreated(q) \/ SolrStarts(q) \/ PodReady(q) \/ PodDeleted(q) \/ PodLost(q)
      PROVE  pod'[p].phase \in {"live", "ready"}
  <2>1. past' # past \cup {"lost"}
    BY DEF Quiet
  <2>2. CASE p # q
    BY <1>1, <1>6, <2>2, OnePodFields
  <2>3. CASE p = q
    BY <1>1, <1>6, <2>1, <2>3, OnePodFields
  <2> QED BY <2>2, <2>3
<1> QED BY Zenon, <1>2, <1>3, <1>4, <1>5, <1>6, StepKinds

\* The replica can serve requests.
InService(r) == state[r] = "active" /\ home[r] \in Live

\* With volumes that stay, replicas stay where they are, and in service unless
\* their pod is unavailable.
LEMMA ServiceKept ==
  ASSUME IInv, IInv', PodsInv, MoveInv, Quiet', ~ephemeral, [Next]_vars
  PROVE  /\ home' = home
         /\ \A r \in Replicas :
              InService(r) /\ home[r] \notin CountedUnavailable => InService(r)'
<1>1. ASSUME NEW p \in Pod, NEW r \in Replicas, NEW q \in Pod, ReplicaMoves(p, r, q)
      PROVE  FALSE
  <2>1. task[p] = "running"
    BY Zenon, <1>1 DEF ReplicaMoves
  <2> QED BY <2>1 DEF MoveInv
<1>2. ASSUME NEW p \in Pod, SolrStarts(p) \/ PodDeleted(p) \/ PodLost(p)
      PROVE  home' = home
  BY Zenon, <1>2 DEF SolrStarts, PodDeleted, PodLost, PodGone
<1>3. ASSUME NEW r \in Replicas, ReplicaRecovers(r)
      PROVE  home' = home
  BY Zenon, <1>3 DEF ReplicaRecovers
<1>4. home' = home
  BY Zenon, <1>1, <1>2, <1>3, ReplicaSteps
<1>5. ASSUME NEW r \in Replicas, InService(r), home[r] \notin CountedUnavailable
      PROVE  InService(r)'
  <2>1. /\ state[r] = "active" /\ home[r] \in Live /\ home[r] \in Pod
        /\ pod[home[r]].phase # "starting"
        /\ pod \in PodMaps /\ state \in [Replicas -> ReplicaStates]
    BY <1>5 DEF InService, Live, IInv, TypeOK, PodMaps
  <2>2. ~pod[home[r]].terminating
    <3>1. Available(pod[home[r]], revision) /\ Quiet
      BY <1>5, <2>1, Unavailable, QuietBefore
    <3> QED BY <2>1, <3>1 DEF PodsInv, Available
  <2>3. home'[r] \in Live'
    BY Zenon, <1>4, <2>1, <2>2, LiveKept
  <2>4. ASSUME NEW p \in Pod, SolrStarts(p)
        PROVE  state'[r] = "active"
    <3>1. /\ pod[p].phase = "starting"
          /\ state' = [s \in Replicas |-> IF home[s] = p /\ ~ephemeral THEN "recovering"
                                                                       ELSE state[s]]
      BY Zenon, <2>4 DEF SolrStarts
    <3>2. home[r] # p
      BY Zenon, <2>1, <3>1
    <3> QED BY <2>1, <3>1, <3>2
  <2>5. ASSUME NEW p \in Pod, PodDeleted(p) \/ PodLost(p)
        PROVE  state'[r] = "active"
    <3>1. /\ pod[p].terminating \/ past' = past \cup {"lost"}
          /\ state' = [s \in Replicas |-> IF home[s] = p THEN "down" ELSE state[s]]
      BY Zenon, <2>5 DEF PodDeleted, PodLost, PodGone
    <3>2. home[r] # p
      BY <2>2, <3>1 DEF Quiet
    <3> QED BY <2>1, <3>1, <3>2
  <2>6. ASSUME NEW s \in Replicas, ReplicaRecovers(s)
        PROVE  state'[r] = "active"
    BY <2>1, <2>6 DEF ReplicaRecovers
  <2>7. state'[r] = "active"
    BY Zenon, <1>1, <2>1, <2>4, <2>5, <2>6, ReplicaSteps
  <2> QED BY <2>3, <2>7 DEF InService
<1> QED BY <1>4, <1>5

\* Replicas of the shard that are out of service, or on a pod that may be taken
\* down.
AtRisk(shard) == {r \in Replicas : ShardOf[r] = shard /\ (InService(r) => home[r] \in Taken)}

\* In quiet times they are within the limit, or on one pod.
RiskInv ==
  Quiet /\ ~ephemeral =>
    \A shard \in Shards :
      \/ Cardinality(AtRisk(shard)) <= MaxShardReplicasDown(shard)
      \/ \A r1, r2 \in AtRisk(shard) : home[r1] = home[r2]

\* A part of a set of replicas that is within the limit is.
LEMMA FewerReplicas ==
  ASSUME NEW limit \in Nat, NEW many \in SUBSET Replicas, NEW few \in SUBSET many,
         \/ Cardinality(many) <= limit
         \/ \A r1, r2 \in many : home[r1] = home[r2]
  PROVE  \/ Cardinality(few) <= limit
         \/ \A r1, r2 \in few : home[r1] = home[r2]
<1>1. IsFiniteSet(many)
  BY Finite, FS_Subset
<1>2. Cardinality(few) \in Nat /\ Cardinality(many) \in Nat /\ Cardinality(few) <= Cardinality(many)
  BY <1>1, FS_Subset, FS_CardinalityType
<1> QED BY <1>2

LEMMA RiskKept ==
  ASSUME IInv, IInv', PodsInv, CountInv, OneByOne, MoveInv, RiskInv, [Next]_vars
  PROVE  RiskInv'
<1>1. UNCHANGED ephemeral
  BY FixedKept DEF fixed
<1> SUFFICES ASSUME Quiet', ~ephemeral, NEW shard \in Shards
             PROVE  \/ Cardinality(AtRisk(shard)') <= MaxShardReplicasDown(shard)
                    \/ \A r1, r2 \in AtRisk(shard)' : home'[r1] = home'[r2]
  BY <1>1 DEF RiskInv
<1> DEFINE before == AtRisk(shard)
           after == AtRisk(shard)'
           limit == MaxShardReplicasDown(shard)
<1>2. /\ home' = home
      /\ \A r \in Replicas : InService(r) /\ home[r] \notin CountedUnavailable => InService(r)'
  BY Zenon, ServiceKept
<1>3. \/ Cardinality(before) <= limit
      \/ \A r1, r2 \in before : home[r1] = home[r2]
  BY QuietBefore DEF RiskInv
<1>4. before \in SUBSET Replicas /\ after \in SUBSET Replicas /\ limit \in Nat
  BY ShardLimitType DEF AtRisk
<1>5. CASE after \subseteq before
  <2> HIDE DEF before, after, limit
  <2>1. \/ Cardinality(after) <= limit
        \/ \A r1, r2 \in after : home[r1] = home[r2]
    BY <1>3, <1>4, <1>5, FewerReplicas
  <2> QED BY Zenon, <1>2, <2>1 DEF after, limit
<1>6. CASE Taken' \subseteq Taken
  <2>1. CountedUnavailable \subseteq Taken
    BY DEF Taken
  <2>2. after \subseteq before
    BY <1>2, <1>6, <2>1 DEF AtRisk
  <2> QED BY <1>5, <2>2
<1>7. ASSUME SelectsPods, WithinShardLimit(Cluster, {}, Taken')
      PROVE  \/ Cardinality(after) <= limit
             \/ \A r1, r2 \in after : home'[r1] = home'[r2]
  <2>1. UNCHANGED <<pod, home, state>>
    BY Zenon, <1>7 DEF SelectsPods, solrVars
  <2>2. after = {r \in Replicas : ShardOf[r] = shard /\ (InService(r) => home[r] \in Taken')}
    BY <2>1 DEF AtRisk, InService, Live
  <2>3. Down(Cluster, Taken', shard) = after
    <3>1. Cluster.home = home /\ Cluster.state = state /\ Cluster.live = Live
      BY DEF Cluster
    <3> HIDE DEF after
    <3> QED BY <2>2, <3>1 DEF Down, ShardReplicasNotActive, InState, ReplicasOn, InService
  <2>4. Down(Cluster, {}, shard) \subseteq before
    <3>1. Cluster.home = home /\ Cluster.state = state /\ Cluster.live = Live
      BY DEF Cluster
    <3> QED BY <3>1 DEF Down, ShardReplicasNotActive, InService, AtRisk
  <2>5. \/ after \subseteq before
        \/ Cardinality(after) <= limit
        \/ \E p \in Taken' : after \subseteq ReplicasOn(Cluster, p)
    <3>1. {} \cup Taken' = Taken'
      OBVIOUS
    <3> HIDE DEF before, after, limit
    <3> QED BY Zenon, <1>7, <2>3, <2>4, <3>1 DEF WithinShardLimit, limit
  <2>6. ASSUME NEW p, after \subseteq ReplicasOn(Cluster, p)
        PROVE  \A r1, r2 \in after : home[r1] = home[r2]
    <3> HIDE DEF after
    <3> QED BY <2>6 DEF ReplicasOn, Cluster
  <2> QED BY Zenon, <1>2, <1>5, <2>5, <2>6
<1> QED BY Zenon, <1>6, <1>7, TakenKept

\* No replica is on the pod.
Vacant(p) == \A r \in Replicas : home[r] # p

\* With ephemeral storage: replicas are moved off a pod that is out of traffic
\* and not yet deleted, and only a pod without replicas is deleted.  A pod in
\* which Solr has not started has none.  One that is to be updated has none, or
\* was seen to have some and is live.
Cared(p) ==
  /\ moving[p] # {} => pod[p].traffic = "stopped" /\ ~pod[p].terminating
  /\ \A r \in moving[p] : home[r] = p
  /\ pod[p].terminating => Vacant(p)
  /\ pc = "reconcile" /\ p \in view.notStarted => Vacant(p)
  /\ p \in view.scheduled => pod[p].traffic = "stopped" \/ Vacant(p)
  /\ pc = "update" /\ p \in Range(view.todo) =>
       \/ p \notin view.occupied /\ Vacant(p)
       \/ /\ p \in view.occupied /\ p \in Live /\ ~pod[p].terminating
          /\ p \in view.scheduled => pod[p].traffic = "stopped"

\* In quiet times every replica is in service then.
Homes == (\A r \in Replicas : InService(r)) /\ \A p \in Pod : Cared(p)
HomeInv == Quiet /\ ephemeral => Homes

\* The pod has replicas, or was seen to have some.
Held(p) == ~Vacant(p) \/ (pc = "update" /\ p \in Range(view.todo) \cap view.occupied)

\* Such a pod is live, and neither it is deleted nor put back in traffic.
LEMMA HeldPods ==
  ASSUME IInv, Homes, Quiet', ephemeral, [Next]_vars, NEW p \in Pod, Held(p)
  PROVE  /\ p \in Live /\ p \in Live' /\ ~pod[p].terminating /\ ~pod'[p].terminating
         /\ pod[p].traffic = "stopped" => pod'[p].traffic = "stopped"
<1>1. p \in Live /\ ~pod[p].terminating /\ Cared(p)
  <2>1. CASE ~Vacant(p)
    BY <2>1 DEF Homes, Cared, Vacant, InService
  <2>2. CASE pc = "update" /\ p \in Range(view.todo) /\ p \in view.occupied
    BY <2>2 DEF Homes, Cared
  <2> QED BY Zenon, <2>1, <2>2 DEF Held
<1>2. p \in Live'
  BY <1>1, LiveKept
<1>3. pod \in PodMaps /\ view \in Views /\ pod[p].phase # "absent" /\ pod[p].phase # "starting"
  BY <1>1 DEF IInv, TypeOK, PodMaps, Live
<1> SUFFICES /\ ~pod'[p].terminating
             /\ pod[p].traffic = "stopped" => pod'[p].traffic = "stopped"
  BY Zenon, <1>1, <1>2
<1>4. CASE pod'[p] = pod[p]
  BY Zenon, <1>1, <1>4
<1>5. CASE Begin
  BY <1>1, <1>3, <1>5, BeginFields
<1>6. CASE EndsReconcile
  BY <1>4, <1>6 DEF EndsReconcile, Quiet
<1>7. CASE SelectsPods \/ UserEdits \/ SolrWorks
  <2>1. pod' = pod
    BY Zenon, <1>7 DEF SelectsPods, UserEdits, SolrWorks
  <2> QED BY <1>4, <2>1
<1>8. ASSUME NEW q \in Pod, HandlesPodStep(q)
      PROVE  /\ ~pod'[p].terminating
             /\ pod[p].traffic = "stopped" => pod'[p].traffic = "stopped"
  <2>1. /\ UNCHANGED pod \/ StopsPod(q)
        /\ UNCHANGED pod \/ pod' = Stopped(q) \/ q \notin view.occupied
        /\ Handling(q) /\ pc = "update"
    BY Zenon, <1>8 DEF HandlesPodStep, EvictsPod, Handling
  <2>2. CASE p # q
    <3>1. pod'[p] = pod[p]
      BY <1>3, <2>1, <2>2, StopsPodFields
    <3> QED BY <1>4, <3>1
  <2>3. CASE pod' = Stopped(p)
    BY <1>1, <1>3, <2>3, StoppedFields
  <2>4. CASE p = q /\ q \notin view.occupied
    <3>1. p \in Range(view.todo)
      BY <1>3, <1>8, <2>4, PodHandledType DEF HandlesPodStep
    <3>2. Vacant(p)
      BY Zenon, <1>1, <2>1, <2>4, <3>1 DEF Cared
    <3> QED BY <2>4, <3>2 DEF Held
  <2> QED BY Zenon, <1>4, <2>1, <2>2, <2>3, <2>4
<1>9. ASSUME NEW q \in Pod,
             PodCreated(q) \/ SolrStarts(q) \/ PodReady(q) \/ PodDeleted(q) \/ PodLost(q)
      PROVE  /\ ~pod'[p].terminating
             /\ pod[p].traffic = "stopped" => pod'[p].traffic = "stopped"
  <2>1. past' # past \cup {"lost"}
    BY DEF Quiet
  <2>2. CASE p # q
    BY <1>4, <1>9, <2>2, OnePodFields
  <2>3. CASE p = q
    BY Zenon, <1>1, <1>3, <1>9, <2>1, <2>3, OnePodFields
  <2> QED BY <2>2, <2>3
<1> QED BY Zenon, <1>5, <1>6, <1>7, <1>8, <1>9, StepKinds

\* What the reconcile knows of a pod was true when it read it.
LEMMA ViewKept ==
  ASSUME IInv, [Next]_vars, NEW p \in Pod
  PROVE  /\ pc' = "reconcile" /\ p \in view'.notStarted =>
              p \notin Live \/ (pc = "reconcile" /\ p \in view.notStarted)
         /\ p \in view'.scheduled => p \in view.scheduled \/ pod'[p].traffic = "stopped"
         /\ pc' = "update" /\ p \in Range(view'.todo) =>
              \/ SelectsPods
              \/ /\ pc = "update" /\ p \in Range(view.todo)
                 /\ view'.occupied = view.occupied /\ view'.scheduled = view.scheduled
<1>1. pod \in PodMaps /\ view \in Views
  BY DEF IInv, TypeOK, PodMaps
<1>2. CASE Begin
  <2>1. /\ \/ view' = ReadView /\ pc' = "reconcile"
           \/ view' = view /\ pc = "idle" /\ pc' = "idle"
        /\ pod[p].traffic = "stopped" => pod'[p].traffic = "stopped"
    BY <1>1, <1>2, BeginFields
  <2>2. ReadView.scheduled = ScheduledForDeletion /\ ReadView.notStarted = NotStarted
    BY DEF ReadView, NoView
  <2>3. /\ p \in NotStarted => p \notin Live
        /\ p \in ScheduledForDeletion => pod[p].traffic = "stopped"
    BY DEF NotStarted, Live, ScheduledForDeletion
  <2> QED BY <2>1, <2>2, <2>3
<1>3. CASE EndsReconcile
  <2>1. pc' = "idle" /\ view' = NoView
    BY Zenon, <1>3 DEF EndsReconcile
  <2>2. view'.scheduled = {}
    BY <2>1 DEF NoView
  <2> QED BY <2>1, <2>2
<1>4. CASE SelectsPods
  <2>1. pc' = "update" /\ view'.scheduled = view.scheduled
    BY Zenon, <1>4 DEF SelectsPods
  <2> QED BY <1>4, <2>1
<1>5. ASSUME pc' = pc, Range(view'.todo) \subseteq Range(view.todo), view'.occupied = view.occupied,
             view'.scheduled = view.scheduled, view'.notStarted = view.notStarted
      PROVE  /\ pc' = "reconcile" /\ p \in view'.notStarted =>
                  p \notin Live \/ (pc = "reconcile" /\ p \in view.notStarted)
             /\ p \in view'.scheduled => p \in view.scheduled \/ pod'[p].traffic = "stopped"
             /\ pc' = "update" /\ p \in Range(view'.todo) =>
                  \/ SelectsPods
                  \/ /\ pc = "update" /\ p \in Range(view.todo)
                     /\ view'.occupied = view.occupied /\ view'.scheduled = view.scheduled
  BY <1>5
<1>6. CASE UserEdits \/ SolrWorks
  <2>1. pc' = pc /\ view' = view
    BY Zenon, <1>6 DEF UserEdits, SolrWorks
  <2> QED BY <1>5, <2>1
<1>7. ASSUME NEW q \in Pod, HandlesPodStep(q)
      PROVE  /\ pc' = pc /\ Range(view'.todo) \subseteq Range(view.todo)
             /\ view'.occupied = view.occupied
             /\ view'.scheduled = view.scheduled /\ view'.notStarted = view.notStarted
  BY <1>1, <1>7, PodHandledType DEF HandlesPodStep
<1>8. ASSUME NEW q \in Pod,
             PodCreated(q) \/ SolrStarts(q) \/ PodReady(q) \/ PodDeleted(q) \/ PodLost(q)
      PROVE  /\ pc' = pc /\ Range(view'.todo) \subseteq Range(view.todo)
             /\ view'.occupied = view.occupied
             /\ view'.scheduled = view.scheduled /\ view'.notStarted = view.notStarted
  <2>1. /\ pc' = pc /\ view'.todo = view.todo /\ view'.occupied = view.occupied
        /\ view'.scheduled = view.scheduled /\ view'.notStarted = view.notStarted
    BY Zenon, <1>8, OnePodFields
  <2> QED BY <2>1
<1> QED BY Zenon, <1>2, <1>3, <1>4, <1>5, <1>6, <1>7, <1>8, StepKinds

\* A step that moves no replica leaves every pod cared for.
LEMMA CaredKept ==
  ASSUME IInv, Homes, MoveInv, Quiet', ephemeral, [Next]_vars, home' = home, NEW p \in Pod
  PROVE  Cared(p)'
<1>1. Cared(p) /\ (Vacant(p)' <=> Vacant(p))
  BY DEF Homes, Vacant
<1>2. Held(p) => /\ p \in Live /\ p \in Live' /\ ~pod[p].terminating /\ ~pod'[p].terminating
                 /\ pod[p].traffic = "stopped" => pod'[p].traffic = "stopped"
  BY Zenon, HeldPods
<1>3. ~Vacant(p) => Held(p)
  BY DEF Held
<1>4. pod \in PodMaps /\ view \in Views /\ moving \in [Pod -> SUBSET Replicas]
  BY DEF IInv, TypeOK, PodMaps
<1>5. /\ moving'[p] # {} => pod'[p].traffic = "stopped" /\ ~pod'[p].terminating
      /\ \A r \in moving'[p] : home'[r] = p
  <2>1. CASE moving'[p] \subseteq moving[p]
    <3>1. moving'[p] # {} => ~Vacant(p) /\ pod[p].traffic = "stopped"
      BY <1>1, <1>4, <2>1 DEF Cared, Vacant
    <3>2. \A r \in moving'[p] : home'[r] = p
      BY <1>1, <2>1 DEF Cared
    <3> QED BY Zenon, <1>2, <1>3, <3>1, <3>2
  <2>2. ASSUME NEW q \in Pod, HandlesPodStep(q), SubmitMove(q), q \in view.occupied,
               pod' = Stopped(q)
        PROVE  /\ moving'[p] # {} => pod'[p].traffic = "stopped" /\ ~pod'[p].terminating
               /\ \A r \in moving'[p] : home'[r] = p
    <3>1. moving' = [moving EXCEPT ![q] = ReplicasOn(Cluster, q)]
      BY Zenon, <2>2 DEF SubmitMove
    <3>2. CASE p # q
      BY <1>4, <2>1, <3>1, <3>2
    <3>3. CASE p = q
      <4>1. p \in Range(view.todo) /\ pc = "update"
        BY <1>4, <2>2, <3>3, PodHandledType DEF HandlesPodStep, Handling
      <4>2. ~pod[p].terminating /\ (p \in view.scheduled => pod[p].traffic = "stopped")
        BY Zenon, <1>1, <2>2, <3>3, <4>1 DEF Cared
      <4>3. pod'[p].traffic = "stopped" /\ ~pod'[p].terminating
        BY <1>4, <2>2, <3>3, <4>2, StoppedFields
      <4>4. \A r \in moving'[p] : home'[r] = p
        BY <1>4, <3>1, <3>3 DEF ReplicasOn, Cluster
      <4> QED BY Zenon, <4>3, <4>4
    <3> QED BY <3>2, <3>3
  <2>3. ASSUME NEW q \in Pod, HandlesPodStep(q), moving' # moving
        PROVE  SubmitMove(q) /\ q \in view.occupied /\ pod' = Stopped(q)
    BY Zenon, <2>3 DEF HandlesPodStep, EvictsPod, ForgetMove
  <2>4. ASSUME NEW q \in Pod,
               TaskEnds(q) \/ \E r \in Replicas, s \in Pod : ReplicaMoves(q, r, s)
        PROVE  moving'[p] \subseteq moving[p]
    <3>1. \/ moving' = [moving EXCEPT ![q] = {}]
          \/ \E r \in Replicas : moving' = [moving EXCEPT ![q] = moving[q] \ {r}]
      BY Zenon, <2>4 DEF TaskEnds, ReplicaMoves
    <3> QED BY <1>4, <3>1
  <2>5. moving' = moving => moving'[p] \subseteq moving[p]
    OBVIOUS
  <2> QED BY Zenon, <2>1, <2>2, <2>3, <2>4, <2>5, ReplicaSteps
<1>6. pod'[p].terminating => Vacant(p)
  BY Zenon, <1>2, <1>3
<1>7. pc' = "reconcile" /\ p \in view'.notStarted => Vacant(p)
  BY Zenon, <1>1, <1>2, <1>3, ViewKept DEF Cared
<1>8. p \in view'.scheduled => pod'[p].traffic = "stopped" \/ Vacant(p)
  BY Zenon, <1>1, <1>2, <1>3, ViewKept DEF Cared
<1>9. pc' = "update" /\ p \in Range(view'.todo) =>
         \/ p \notin view'.occupied /\ Vacant(p)
         \/ /\ p \in view'.occupied /\ p \in Live' /\ ~pod'[p].terminating
            /\ p \in view'.scheduled => pod'[p].traffic = "stopped"
  <2> SUFFICES ASSUME pc' = "update", p \in Range(view'.todo)
               PROVE  \/ p \notin view'.occupied /\ Vacant(p)
                      \/ /\ p \in view'.occupied /\ p \in Live' /\ ~pod'[p].terminating
                         /\ p \in view'.scheduled => pod'[p].traffic = "stopped"
    OBVIOUS
  <2>1. CASE SelectsPods
    <3>1. /\ \/ p \in view.notStarted /\ view'.occupied = {}
             \/ view'.occupied = {q \in Pod : ReplicasOn(Cluster, q) # {}}
          /\ pc = "reconcile" /\ view'.scheduled = view.scheduled
      BY <2>1 DEF SelectsPods
    <3>2. p \in {q \in Pod : ReplicasOn(Cluster, q) # {}} <=> ~Vacant(p)
      BY DEF ReplicasOn, Cluster, Vacant
    <3>3. p \in view'.occupied => ~Vacant(p)
      BY <3>1, <3>2
    <3>4. ~Vacant(p) => p \in view'.occupied
      BY <1>1, <3>1, <3>2 DEF Cared
    <3> QED BY Zenon, <1>1, <1>2, <1>3, <3>1, <3>3, <3>4 DEF Cared
  <2>2. CASE /\ pc = "update" /\ p \in Range(view.todo)
             /\ view'.occupied = view.occupied /\ view'.scheduled = view.scheduled
    <3>1. p \in view.occupied => Held(p)
      BY <2>2 DEF Held
    <3> QED BY Zenon, <1>1, <1>2, <2>2, <3>1 DEF Cared
  <2> QED BY Zenon, <2>1, <2>2, ViewKept
<1> QED BY Zenon, <1>1, <1>5, <1>6, <1>7, <1>8, <1>9 DEF Cared

\* A replica is moved to a pod that is not the one taken down.
LEMMA MovesAreCared ==
  ASSUME IInv, PodsInv, OneInv, Homes, Quiet, NEW p \in Pod, NEW r \in Replicas, NEW q \in Pod,
         ReplicaMoves(p, r, q)
  PROVE  Homes'
<1>1. /\ r \in moving[p] /\ q \in Live /\ q # p
      /\ home' = [home EXCEPT ![r] = q] /\ state' = [state EXCEPT ![r] = "active"]
      /\ moving' = [moving EXCEPT ![p] = moving[p] \ {r}]
      /\ pod' = pod /\ view' = view /\ pc' = pc
  BY Zenon DEF ReplicaMoves
<1>2. /\ pod \in PodMaps /\ home \in [Replicas -> Pod] /\ state \in [Replicas -> ReplicaStates]
      /\ moving \in [Pod -> SUBSET Replicas]
  BY DEF IInv, TypeOK, PodMaps
<1>3. ASSUME NEW s \in Replicas
      PROVE  InService(s)'
  <2>1. InService(s)
    BY DEF Homes
  <2> QED BY <1>1, <1>2, <2>1 DEF InService, Live
<1>4. ASSUME NEW v \in Pod, pod[v].traffic = "stopped"
      PROVE  v \in Taken
  <2>1. ~Available(pod[v], revision)
    BY <1>4 DEF Available
  <2> QED BY <1>2, <2>1, Unavailable DEF Taken
<1>5. p \in Taken
  <2>1. pod[p].traffic = "stopped"
    BY <1>1 DEF Homes, Cared
  <2> QED BY <1>4, <2>1
<1>6. q \notin Taken
  BY <1>1, <1>5 DEF OneInv
<1>7. /\ ~pod[q].terminating /\ q \notin view.scheduled /\ q \notin view.notStarted
      /\ q \notin Range(view.todo)
  BY <1>4, <1>6 DEF PodsInv, Taken
<1>8. ASSUME NEW v \in Pod
      PROVE  Cared(v)'
  <2>1. Cared(v) /\ Cared(p)
    BY DEF Homes
  <2>2. v # q /\ Vacant(v) => Vacant(v)'
    BY <1>1, <1>2 DEF Vacant
  <2>3. \A s \in moving'[v] : s \in moving[v] /\ home'[s] = v
    <3>1. CASE v = p
      BY <1>1, <1>2, <2>1, <3>1 DEF Cared
    <3>2. CASE v # p
      <4>1. moving'[v] = moving[v]
        BY <1>1, <1>2, <3>2
      <4>2. home[r] = p
        BY <1>1, <2>1 DEF Cared
      <4> QED BY <1>1, <1>2, <2>1, <3>2, <4>1, <4>2 DEF Cared
    <3> QED BY <3>1, <3>2
  <2>4. moving'[v] # {} => pod'[v].traffic = "stopped" /\ ~pod'[v].terminating
    BY <1>1, <2>1, <2>3 DEF Cared
  <2>5. v \in Live' <=> v \in Live
    BY <1>1 DEF Live
  <2> QED BY Zenon, <1>1, <1>7, <2>1, <2>2, <2>3, <2>4, <2>5 DEF Cared
<1> QED BY Zenon, <1>3, <1>8 DEF Homes

\* So replicas stay in service, or are moved before their pod is deleted.
LEMMA HomesKept ==
  ASSUME IInv, PodsInv, OneInv, MoveInv, HomeInv, [Next]_vars
  PROVE  HomeInv'
<1> SUFFICES ASSUME Quiet', ephemeral
             PROVE  Homes'
  BY Zenon, FixedKept DEF HomeInv, fixed
<1>1. Quiet /\ Homes
  BY QuietBefore DEF HomeInv
<1>2. ASSUME home' = home, NEW r \in Replicas, state'[r] = "active"
      PROVE  InService(r)'
  <2>1. home[r] \in Live /\ home[r] \in Pod /\ Held(home[r])
    BY <1>1 DEF Homes, InService, Live, Held, Vacant
  <2>2. home[r] \in Live'
    BY Zenon, <1>1, <2>1, HeldPods
  <2> QED BY <1>2, <2>2 DEF InService
<1>3. ASSUME home' = home, \A r \in Replicas : state'[r] = "active"
      PROVE  Homes'
  BY Zenon, <1>1, <1>2, <1>3, CaredKept DEF Homes
<1>4. ASSUME NEW r \in Replicas
      PROVE  state[r] = "active" /\ home[r] \in Live /\ home[r] \in Pod /\ Held(home[r])
  BY <1>1 DEF Homes, InService, Live, Held, Vacant
<1>5. CASE UNCHANGED <<home, state>>
  BY <1>3, <1>4, <1>5
<1>6. ASSUME NEW p \in Pod, SolrStarts(p)
      PROVE  Homes'
  <2>1. /\ home' = home
        /\ state' = [r \in Replicas |-> IF home[r] = p /\ ~ephemeral THEN "recovering"
                                                                     ELSE state[r]]
    BY Zenon, <1>6 DEF SolrStarts
  <2> QED BY <1>3, <1>4, <2>1
<1>7. ASSUME NEW p \in Pod, PodDeleted(p) \/ PodLost(p)
      PROVE  Homes'
  <2>1. /\ home' = home
        /\ state' = [r \in Replicas |-> IF home[r] = p THEN "down" ELSE state[r]]
        /\ pod[p].terminating \/ past' = past \cup {"lost"}
    BY Zenon, <1>7 DEF PodDeleted, PodLost, PodGone
  <2>2. pod[p].terminating
    BY <2>1 DEF Quiet
  <2>3. Vacant(p)
    BY Zenon, <1>1, <2>2 DEF Homes, Cared
  <2> QED BY <1>3, <1>4, <2>1, <2>3 DEF Vacant
<1>8. ASSUME NEW r \in Replicas, ReplicaRecovers(r)
      PROVE  Homes'
  BY <1>4, <1>8 DEF ReplicaRecovers
<1>9. ASSUME NEW p \in Pod, NEW r \in Replicas, NEW q \in Pod, ReplicaMoves(p, r, q)
      PROVE  Homes'
  BY Zenon, <1>1, <1>9, MovesAreCared
<1> QED BY Zenon, <1>5, <1>6, <1>7, <1>8, <1>9, ReplicaSteps

OneByOneInv == OneInv /\ MoveInv /\ RiskInv /\ HomeInv

LEMMA OneByOneInitially ==
  ASSUME Init, OneByOne
  PROVE  OneByOneInv
<1>1. Taken = {}
  BY Zenon, OneInitially
<1>2. IInv
  BY Zenon, Initially
<1>3. /\ view = NoView /\ pc = "idle" /\ revision = 0
      /\ pod = [p \in Pod |-> [NewPod(0) EXCEPT !.phase = "ready", !.traffic = "started"]]
      /\ state = [r \in Replicas |-> "active"] /\ moving = [p \in Pod |-> {}]
      /\ task = [p \in Pod |-> "notfound"]
  BY Zenon DEF Init, OneByOne
<1>4. \A p \in Pod : pod[p].phase = "ready" /\ ~pod[p].terminating
  BY Zenon, <1>3 DEF NewPod
<1>5. \A r \in Replicas : InService(r)
  BY <1>2, <1>3, <1>4 DEF InService, Live, IInv, TypeOK
<1>6. OneInv /\ MoveInv
  BY <1>1, <1>3 DEF OneInv, MoveInv
<1>7. RiskInv
  <2>1. \A shard \in Shards : AtRisk(shard) = {}
    BY <1>1, <1>5 DEF AtRisk
  <2> QED BY <2>1 DEF RiskInv
<1>8. HomeInv
  <2>1. view.scheduled = {} /\ pc = "idle"
    BY <1>3 DEF NoView
  <2>2. \A p \in Pod : moving[p] = {}
    BY <1>3
  <2>3. \A p \in Pod : Cared(p)
    BY <1>4, <2>1, <2>2 DEF Cared
  <2> QED BY Zenon, <1>5, <2>3 DEF HomeInv, Homes
<1> QED BY Zenon, <1>6, <1>7, <1>8 DEF OneByOneInv

LEMMA OneByOneInvariance ==
  ASSUME OneByOne
  PROVE  Spec => []OneByOneInv
<1>1. Init => OneByOneInv
  BY Zenon, OneByOneInitially
<1>2. /\ IInv /\ IInv' /\ PodsInv /\ CountInv /\ OneByOneInv /\ [Next]_vars => OneByOneInv'
  BY Zenon, OneKept, MovesKept, RiskKept, HomesKept DEF OneByOneInv
<1> QED BY <1>1, <1>2, Invariance, LimitInvariance, PTL DEF Spec

\* With one pod at a time, for any number of pods and replicas, however they are
\* placed, and whatever fails: while no pod is lost and no update paused, of each
\* shard no more replicas are out of service than maxShardReplicasUnavailable,
\* or only those of one pod.
THEOREM OneByOneShardsStayUp ==
  ASSUME OneByOne
  PROVE  Spec => []ShardsStayUp
<1>1. ASSUME IInv, OneByOneInv
      PROVE  ShardsStayUp
  <2> SUFFICES ASSUME Quiet, NEW shard \in Shards
               PROVE  \/ Cardinality(ShardReplicasNotActive(Cluster, shard))
                           <= MaxShardReplicasDown(shard)
                      \/ \A r1, r2 \in ShardReplicasNotActive(Cluster, shard) :
                           home[r1] = home[r2]
    BY DEF ShardsStayUp, ShardLimitKept, Quiet
  <2> DEFINE down == ShardReplicasNotActive(Cluster, shard)
  <2>1. down = {r \in Replicas : ShardOf[r] = shard /\ ~InService(r)}
    BY DEF ShardReplicasNotActive, Cluster, InService
  <2>2. CASE ephemeral
    <3>1. down = {}
      BY <1>1, <2>1, <2>2 DEF OneByOneInv, HomeInv, Homes
    <3> QED BY <3>1
  <2>3. CASE ~ephemeral
    <3>1. AtRisk(shard) \in SUBSET Replicas /\ down \in SUBSET AtRisk(shard)
      BY <2>1 DEF AtRisk
    <3>2. \/ Cardinality(AtRisk(shard)) <= MaxShardReplicasDown(shard)
          \/ \A r1, r2 \in AtRisk(shard) : home[r1] = home[r2]
      BY <1>1, <2>3 DEF OneByOneInv, RiskInv
    <3> HIDE DEF down
    <3>3. \/ Cardinality(down) <= MaxShardReplicasDown(shard)
          \/ \A r1, r2 \in down : home[r1] = home[r2]
      BY <3>1, <3>2, ShardLimitType, FewerReplicas
    <3> QED BY Zenon, <3>3 DEF down
  <2> QED BY Zenon, <2>2, <2>3
<1> QED BY <1>1, Invariance, OneByOneInvariance, PTL

\* With one pod at a time and ephemeral storage, no replica goes down with a pod
\* that the operator deletes, although whether the pod has replicas is read before
\* the pods are handled, Solr moves them while the reconcile runs, and requests
\* fail: while no pod is lost and no update paused.
THEOREM OneByOneNoReplicaLost ==
  ASSUME OneByOne
  PROVE  Spec => []NoReplicaLost
<1>1. OneByOneInv => NoReplicaLost
  BY DEF OneByOneInv, HomeInv, Homes, InService, NoReplicaLost, Quiet
<1> QED BY <1>1, OneByOneInvariance, PTL

-----------------------------------------------------------------------------
(* The lock as RollingUpdate sees it, and as ClusterOpLock_proofs does.    *)

\* The proofs about the lock, for the lock of this SolrCloud.
LockProofs == INSTANCE ClusterOpLock_proofs WITH
                PodCounts <- {}, StorageSizes <- {}, Migrations <- BOOLEAN

LockInv == LockProofs!IInv

\* The two instances of ClusterOpLock have the same steps.
LEMMA SameNext == Lock!Next <=> LockProofs!Next
BY Zenon DEF
  Lock!Next, Lock!DeterminedUpdates, Lock!DeterminedExpansions, Lock!DeterminedScales,
  Lock!ScaleDowns, Lock!ScaleUps, Lock!Updates, Lock!Expansions, Lock!NoOp, Lock!Op,
  Lock!Balance, Lock!BalanceReasons, Lock!Balances, Lock!IsQueued, Lock!Unsupported,
  Lock!SupportedOps, Lock!StartClusterOp, Lock!RetryNextQueuedClusterOp, Lock!OpToStart,
  Lock!StillNew, Lock!QueueToRetry, Lock!Requeued, Lock!QueueIndex, Lock!ScaleOpClash,
  Lock!CompleteClusterOp, Lock!NextOps, Lock!EnqueueClusterOp, Lock!TimedOut,
  Lock!ShortTimeout, Lock!RemoveUnsupportedClusterOp, Lock!TimePasses,
  LockProofs!Next, LockProofs!DeterminedUpdates, LockProofs!DeterminedExpansions,
  LockProofs!DeterminedScales, LockProofs!ScaleDowns, LockProofs!ScaleUps,
  LockProofs!Updates, LockProofs!Expansions, LockProofs!NoOp, LockProofs!Op,
  LockProofs!Balance, LockProofs!BalanceReasons, LockProofs!Balances, LockProofs!IsQueued,
  LockProofs!Unsupported, LockProofs!SupportedOps, LockProofs!StartClusterOp,
  LockProofs!RetryNextQueuedClusterOp, LockProofs!OpToStart, LockProofs!StillNew,
  LockProofs!QueueToRetry, LockProofs!Requeued, LockProofs!QueueIndex,
  LockProofs!ScaleOpClash, LockProofs!CompleteClusterOp, LockProofs!NextOps,
  LockProofs!EnqueueClusterOp, LockProofs!TimedOut, LockProofs!ShortTimeout,
  LockProofs!RemoveUnsupportedClusterOp, LockProofs!TimePasses

\* They have the same initial states and the same invariants.
LEMMA SameState ==
  /\ Lock!Init <=> LockProofs!Init
  /\ Lock!vars = LockProofs!vars
  /\ Lock!OneOpPerKind <=> LockProofs!OneOpPerKind
BY Zenon DEF
  Lock!Init, Lock!NoOp, Lock!Op, Lock!Unsupported, Lock!vars, Lock!OneOpPerKind, Lock!Kinds,
  LockProofs!Init, LockProofs!NoOp, LockProofs!Op, LockProofs!Unsupported, LockProofs!vars,
  LockProofs!OneOpPerKind, LockProofs!Kinds

\* Its invariant holds of the lock here.
LEMMA LockInvariance == Spec => []LockInv
<1>1. Init => LockInv
  <2>1. Init => Lock!Init
    BY DEF Init, Lock!Init
  <2> QED BY <2>1, SameState, UpdateAssumption, LockProofs!InitIInv DEF LockInv
<1>2. IInv /\ LockInv /\ [Next]_vars => LockInv'
  <2> SUFFICES ASSUME IInv, LockInv, [Next]_vars PROVE LockInv'
    OBVIOUS
  <2>1. [LockProofs!Next]_LockProofs!vars
    BY LockStep, SameNext DEF Lock!vars, LockProofs!vars
  <2> QED BY <2>1, UpdateAssumption, LockProofs!NextIInv DEF LockInv
<1> QED BY <1>1, <1>2, Invariance, PTL DEF Spec

\* So what is proved of the lock holds of it here: a rolling update that is
\* locked is not in the queue as well, and is there only once.
THEOREM UpdatesAreExclusive == Spec => []Lock!OneOpPerKind
<1>1. LockInv => Lock!OneOpPerKind
  BY SameState DEF LockInv, LockProofs!IInv
<1> QED BY <1>1, LockInvariance, PTL
=============================================================================
