----------------------- MODULE SolrCloudObjects_proofs -----------------------
(***************************************************************************)
(* Four properties of every running pod and of the Ingress, and the types, *)
(* for any set of pods, any families of specifications and any number of   *)
(* edits and faults.                                                       *)
(* Contents: they only become newer, and the reconciliation writes or reads *)
(* one before it announces it.  Security: the secret is made before the    *)
(* template that uses it.  Services: they are made before rules lead to    *)
(* them.  Addresses: they are known before they are advertised, and removed *)
(* when neither a pod nor the template needs them.                         *)
(***************************************************************************)
EXTENDS SolrCloudObjects, TLAPS

WasSetBack == "content set back" \in excused

\* Contents are compared as long as none was set back.
NotNewer(x, y) == WasSetBack \/ x <= y

\* A content is at least as new as the one that is announced, or missing: a pod
\* is not started without it.
Covers(content, announced) == content = 0 \/ NotNewer(announced, content)

\* Contents that users provide are numbered by their edits.
Version == 0..(edits + 1)

\* The reconciliation knows the content that the StatefulSet is to announce.
KnowsContent ==
  IF view.spec.config = "generated"
    THEN view.xml = view.spec.xml /\ Covers(owned.configMap, view.xml)
    ELSE view.xml \in Version /\ Covers(provided.configMap, view.xml)

TemplateFields == {"type", "annotated", "external", "aliases", "source", "xml", "security",
                   "json", "tls", "cert", "restart"}

\* What the template announces is covered by what pods would read now, and by
\* what the running reconciliation is about to write.
TemplateCovered(sts) ==
  /\ DOMAIN sts = TemplateFields
  /\ sts.cert \in Version /\ Covers(provided.tls, sts.cert)
  /\ sts.source \in {"generated", "provided"} /\ sts.xml \in Nat
  /\ IF sts.source = "generated"
       THEN /\ NotNewer(sts.xml, cloud.xml)
            /\ pc # "idle" => NotNewer(sts.xml, view.spec.xml)
            /\ Covers(owned.configMap, sts.xml)
       ELSE sts.xml \in Version /\ Covers(provided.configMap, sts.xml)

ObjectFields == {"zk", "common", "headless", "ip", "configMap", "auth", "bootstrap",
                 "sts", "ingress", "pdb", "nextIP"}
ViewFields == {"spec", "todo", "ips", "blocked", "xml", "json", "cert", "wait",
               "found", "types"}

\* The steps between the one that looks at the ConfigMap and the StatefulSet.
KnowingSteps == {"security", "bootstrap", "tls", "statefulset"}

\* The inductive invariant.
IInv ==
  /\ DOMAIN owned = ObjectFields /\ DOMAIN view = ViewFields
  /\ cloud \in Specs /\ edits \in Nat
  /\ provided \in [{"configMap", "tls", "credentials"} -> Version]
  /\ owned.configMap \in Nat
  /\ pc # "idle" => view.spec \in Specs /\ NotNewer(view.spec.xml, cloud.xml)
  /\ pc \in KnowingSteps => KnowsContent
  /\ pc = "statefulset" => view.cert \in Version /\ Covers(provided.tls, view.cert)
  /\ owned.sts # None => TemplateCovered(owned.sts)
  /\ DOMAIN pods = Pods
  /\ PodsRunAnnouncedContent

-----------------------------------------------------------------------------
\* The objects of a SolrCloud, new or installed by an older version.
LEMMA InitialObjects ==
  ASSUME Init
  PROVE  /\ owned.ip = NoIP /\ owned.nextIP = 1 /\ owned.ingress = None
         /\ owned.bootstrap = FALSE /\ owned.auth = FALSE
         /\ owned.sts = None \/ (owned.sts = OldTemplate(cloud) /\ cloud \in Upgraded)
<1>1. ASSUME NEW services, NEW content, NEW sts, owned = Objects(services, content, sts)
      PROVE  /\ owned.ip = NoIP /\ owned.nextIP = 1 /\ owned.ingress = None
             /\ owned.bootstrap = FALSE /\ owned.auth = FALSE /\ owned.sts = sts
  BY <1>1 DEF Objects
<1>2. CASE cloud \in Upgraded /\ owned = Objects(TRUE, cloud.xml, OldTemplate(cloud))
  BY Zenon, <1>1, <1>2
<1>3. CASE owned = Objects(FALSE, 0, None)
  BY Zenon, <1>1, <1>3
<1> QED  BY <1>2, <1>3 DEF Init

\* The invariant holds in the initial states.
LEMMA ContentInit == Init => IInv
<1> SUFFICES ASSUME Init PROVE IInv
  OBVIOUS
<1> USE DEF WasSetBack
<1>1. /\ DOMAIN view = ViewFields /\ pc = "idle" /\ edits \in Nat
      /\ provided \in [{"configMap", "tls", "credentials"} -> Version]
      /\ provided.tls = 1 /\ 0 \in Version
  BY DEF Init, Version, NoView, ViewFields
<1>2. CASE /\ cloud \in UNION Families /\ owned = Objects(FALSE, 0, None)
           /\ pods = [p \in Pods |-> None]
  <2>1. /\ DOMAIN owned = ObjectFields /\ owned.configMap = 0 /\ owned.sts = None
        /\ cloud \in Specs /\ DOMAIN pods = Pods /\ Running = {}
    BY <1>2, ObjectsAssumption DEF Objects, ObjectFields, Running
  <2> QED  BY <1>1, <2>1 DEF IInv, KnowingSteps, PodsRunAnnouncedContent
<1>3. CASE /\ cloud \in Upgraded /\ owned = Objects(TRUE, cloud.xml, OldTemplate(cloud))
           /\ pods = [p \in Pods |-> Started(OldTemplate(cloud), cloud.xml, 0)]
  <2>1. cloud \in Specs /\ cloud.xml \in Nat
    BY <1>3, ObjectsAssumption DEF Specs
  <2>2. /\ DOMAIN owned = ObjectFields /\ owned.configMap = cloud.xml
        /\ owned.sts = OldTemplate(cloud)
    BY <1>3 DEF Objects, ObjectFields
  <2>3. /\ DOMAIN OldTemplate(cloud) = TemplateFields
        /\ OldTemplate(cloud).cert = 0 /\ OldTemplate(cloud).source = "generated"
        /\ OldTemplate(cloud).xml = cloud.xml /\ OldTemplate(cloud).tls = FALSE
    BY DEF OldTemplate, TemplateFields
  <2>4. TemplateCovered(owned.sts)
    <3> HIDE DEF WasSetBack
    <3> QED  BY <1>1, <2>1, <2>2, <2>3 DEF TemplateCovered, Covers, NotNewer
  <2>5. PodsRunAnnouncedContent
    <3> SUFFICES ASSUME NEW p \in Pods
                 PROVE  pods[p].readXml >= pods[p].xml /\ pods[p].tls = FALSE
      BY DEF PodsRunAnnouncedContent, Running
    <3>1. pods[p] = Started(OldTemplate(cloud), cloud.xml, 0)
      BY <1>3
    <3>2. pods[p].readXml = cloud.xml /\ pods[p].xml = cloud.xml /\ pods[p].tls = FALSE
      BY <2>3, <3>1 DEF Started, TemplateFields
    <3> QED  BY <2>1, <3>2
  <2> QED  BY <1>1, <1>3, <2>1, <2>2, <2>4, <2>5 DEF IInv, KnowingSteps
<1> QED  BY <1>2, <1>3 DEF Init

\* A step of the reconciliation that writes neither ConfigMap nor StatefulSet and
\* does not forget what it knows preserves the invariant.
LEMMA OtherObjects ==
  ASSUME IInv, UNCHANGED <<cloud, provided, pods, edits>>, WasSetBack => WasSetBack',
         DOMAIN owned' = ObjectFields, DOMAIN view' = ViewFields,
         owned'.configMap = owned.configMap, owned'.sts = owned.sts,
         pc' # "idle" => pc # "idle" /\ view'.spec = view.spec,
         pc' \in KnowingSteps => pc \in KnowingSteps /\ view'.xml = view.xml,
         pc' = "statefulset" => view'.cert \in Version /\ Covers(provided.tls, view'.cert)
  PROVE  IInv'
<1>1. (owned.sts # None => TemplateCovered(owned.sts))'
  BY DEF IInv, TemplateCovered, Version, Covers, NotNewer
<1>2. (pc \in KnowingSteps => KnowsContent)'
  BY DEF IInv, KnowsContent, Version, Covers, NotNewer, KnowingSteps
<1>3. PodsRunAnnouncedContent'
  BY DEF IInv, PodsRunAnnouncedContent, Running, WasSetBack
<1>4. (pc = "statefulset" => view.cert \in Version /\ Covers(provided.tls, view.cert))'
  BY DEF Version, Covers, NotNewer
<1> QED  BY <1>1, <1>2, <1>3, <1>4 DEF IInv, Version, NotNewer

\* A reconciliation that is over knows nothing.
LEMMA NoViewFields == DOMAIN NoView = ViewFields
BY DEF NoView, ViewFields

\* The steps of the reconciliation that lead to the OtherObjects lemma.
LEMMA QuietSteps ==
  ASSUME IInv,
         \/ ReconcileZk \/ CommonService \/ ReconcileNodeService \/ HeadlessService
         \/ ReconcileSecurity \/ BootstrapSecret \/ ReconcileTLS
         \/ Ingress \/ ListPods \/ PodDisruptionBudget
         \/ CleanupUnconfiguredServices \/ Fails \/ DeleteFails
         \/ OverlookIngress \/ StatusDisagrees
  PROVE  IInv'
<1> USE NoViewFields DEF Goes, Ends, Quiet, Unheard, KnowingSteps, WasSetBack
<1>0. DOMAIN owned = ObjectFields /\ DOMAIN view = ViewFields
  BY DEF IInv
<1> SUFFICES /\ UNCHANGED <<cloud, provided, pods, edits>>
             /\ WasSetBack => WasSetBack'
             /\ DOMAIN owned' = ObjectFields /\ DOMAIN view' = ViewFields
             /\ owned'.configMap = owned.configMap /\ owned'.sts = owned.sts
             /\ pc' # "idle" => pc # "idle" /\ view'.spec = view.spec
             /\ pc' \in KnowingSteps => pc \in KnowingSteps /\ view'.xml = view.xml
             /\ pc' = "statefulset" =>
                  view'.cert \in Version /\ Covers(provided.tls, view'.cert)
  BY OtherObjects
<1>1. CASE ReconcileZk
  BY <1>0, <1>1 DEF ReconcileZk, ObjectFields, ViewFields
<1>2. CASE CommonService
  BY <1>0, <1>2 DEF CommonService, ObjectFields, ViewFields
<1>3. CASE ReconcileNodeService
  BY <1>0, <1>3 DEF ReconcileNodeService, ObjectFields, ViewFields
<1>4. CASE HeadlessService
  BY <1>0, <1>4 DEF HeadlessService, ObjectFields, ViewFields
<1>5. CASE ReconcileSecurity
  <2>1. view.spec.security \in {"none", "bootstrap", "user"}
    BY <1>5 DEF ReconcileSecurity, IInv, Specs
  <2> QED
    BY Zenon, <1>0, <1>5, <2>1 DEF ReconcileSecurity, ObjectFields, ViewFields
<1>6. CASE BootstrapSecret
  BY <1>0, <1>6 DEF BootstrapSecret, ObjectFields, ViewFields
<1>7. CASE ReconcileTLS
  <2>1. provided.tls \in Version /\ 0 \in Version
    BY DEF IInv, Version
  <2>2. Covers(provided.tls, provided.tls) /\ Covers(provided.tls, 0)
    <3> HIDE DEF WasSetBack
    <3> QED  BY <2>1 DEF Covers, NotNewer, Version
  <2> QED
    BY Zenon, <1>0, <1>7, <2>1, <2>2 DEF ReconcileTLS, CertMd5, ObjectFields, ViewFields
<1>8. CASE Ingress \/ OverlookIngress
  BY Zenon, <1>0, <1>8
  DEF Ingress, OverlookIngress, GoesOnAfterIngress, ObjectFields, ViewFields
<1>9. CASE ListPods
  BY <1>0, <1>9 DEF ListPods, ObjectFields, ViewFields
<1>10. CASE PodDisruptionBudget
  BY <1>0, <1>10 DEF PodDisruptionBudget, ObjectFields, ViewFields
<1>11. CASE CleanupUnconfiguredServices
  BY Zenon, <1>0, <1>11 DEF CleanupUnconfiguredServices, ObjectFields, ViewFields
<1>12. CASE Fails \/ StatusDisagrees
  BY Zenon, <1>0, <1>12 DEF Fails, StatusDisagrees, ObjectFields, ViewFields
<1>13. CASE DeleteFails
  BY Zenon, <1>0, <1>13 DEF DeleteFails, ObjectFields, ViewFields
<1> QED
  BY <1>1, <1>2, <1>3, <1>4, <1>5, <1>6, <1>7, <1>8, <1>9, <1>10, <1>11, <1>12, <1>13

\* The reconciliation reads the SolrCloud, which is as new as it gets, and fills in
\* defaults without touching the content.
LEMMA SpecIsRead == ASSUME IInv, Start \/ Defaults PROVE IInv'
<1>1. CASE Start
  <2>1. /\ DOMAIN view' = ViewFields /\ view'.spec = cloud
        /\ pc' \notin KnowingSteps
        /\ UNCHANGED <<cloud, provided, owned, pods, edits, excused>>
    BY <1>1 DEF Start, NoView, ViewFields, KnowingSteps
  <2>2. (owned.sts # None => TemplateCovered(owned.sts))'
    BY <2>1 DEF IInv, TemplateCovered, Version, Covers, NotNewer, WasSetBack
  <2>3. NotNewer(cloud.xml, cloud.xml)'
    BY <2>1 DEF IInv, Specs, NotNewer
  <2>4. PodsRunAnnouncedContent'
    BY <2>1 DEF IInv, PodsRunAnnouncedContent, Running, WasSetBack
  <2> QED  BY <2>1, <2>2, <2>3, <2>4 DEF IInv, Version, KnowingSteps
<1>2. CASE Defaults /\ ~DefaultsMissing(view.spec)
  <2>1. /\ UNCHANGED <<cloud, provided, owned, view, pods, edits, excused>>
        /\ pc # "idle" /\ pc' \notin KnowingSteps
    BY <1>2 DEF Defaults, Goes, KnowingSteps
  <2> QED  BY <2>1, OtherObjects DEF IInv, KnowingSteps, WasSetBack
<1>3. CASE Defaults /\ DefaultsMissing(view.spec)
  <2>1. /\ pc' = "idle" /\ view' = NoView
        /\ UNCHANGED <<provided, owned, pods, edits, excused>>
        /\ cloud' \in {cloud, WithDefaults(cloud)}
    BY <1>3 DEF Defaults, Ends
  <2>2. cloud' \in Specs /\ cloud'.xml = cloud.xml
    <3>1. cloud \in Specs
      BY DEF IInv
    <3>2. WithDefaults(cloud).xml = cloud.xml
      BY <3>1 DEF WithDefaults, Specs
    <3>3. WithDefaults(cloud) \in Specs
      BY Zenon, <3>1 DEF WithDefaults, Specs
    <3> QED  BY <2>1, <3>1, <3>2, <3>3
  <2>3. (owned.sts # None => TemplateCovered(owned.sts))'
    BY <2>1, <2>2 DEF IInv, TemplateCovered, Version, Covers, NotNewer, WasSetBack
  <2>4. PodsRunAnnouncedContent'
    BY <2>1 DEF IInv, PodsRunAnnouncedContent, Running, WasSetBack
  <2> QED  BY <2>1, <2>2, <2>3, <2>4, NoViewFields DEF IInv, Version, KnowingSteps
<1> QED  BY <1>1, <1>2, <1>3

\* A generated ConfigMap is written with a content no older than the template
\* announces; the content of a provided one is noted.
LEMMA ContentIsWritten == ASSUME IInv, ConfigMap PROVE IInv'
<1> USE DEF ConfigMap, Goes, Ends, Quiet, Unheard
<1>0. /\ UNCHANGED <<cloud, provided, pods, edits>> /\ excused' = excused
      /\ WasSetBack => WasSetBack'
      /\ view.spec \in Specs /\ view.spec.xml \in Nat
      /\ DOMAIN owned = ObjectFields /\ DOMAIN view = ViewFields
  BY DEF IInv, Specs, WasSetBack
<1>1. CASE pc' = "idle"
  <2>1. owned' = owned /\ view' = NoView
    BY <1>1
  <2> QED  BY <1>0, <1>1, <2>1, OtherObjects, NoViewFields DEF KnowingSteps
<1>2. CASE view.spec.config = "provided" /\ pc' # "idle"
  <2>1. /\ pc # "idle" /\ pc' = "security" /\ owned' = owned
        /\ DOMAIN view' = ViewFields
        /\ view'.spec = view.spec /\ view'.xml = provided.configMap
    BY <1>0, <1>2 DEF ViewFields
  <2>2. (owned.sts # None => TemplateCovered(owned.sts))'
    BY <1>0, <2>1 DEF IInv, TemplateCovered, Version, Covers, NotNewer
  <2>3. KnowsContent'
    BY <1>0, <1>2, <2>1 DEF IInv, KnowsContent, Version, Covers, NotNewer
  <2>4. PodsRunAnnouncedContent'
    BY <1>0 DEF IInv, PodsRunAnnouncedContent, Running, WasSetBack
  <2> QED  BY <1>0, <2>1, <2>2, <2>3, <2>4 DEF IInv, Version, NotNewer
<1>3. CASE view.spec.config # "provided"
  <2>1. /\ pc # "idle" /\ pc' = "security"
        /\ DOMAIN owned' = ObjectFields /\ owned'.configMap = view.spec.xml
        /\ owned'.sts = owned.sts
        /\ DOMAIN view' = ViewFields
        /\ view'.spec = view.spec /\ view'.xml = view.spec.xml
    BY <1>0, <1>3 DEF ViewFields, ObjectFields, GeneratedConfigMap
  <2>2. (owned.sts # None => TemplateCovered(owned.sts))'
    BY <1>0, <2>1 DEF IInv, TemplateCovered, Version, Covers, NotNewer
  <2>3. KnowsContent'
    BY <1>0, <1>3, <2>1 DEF KnowsContent, Covers, NotNewer, Specs
  <2>4. PodsRunAnnouncedContent'
    BY <1>0 DEF IInv, PodsRunAnnouncedContent, Running, WasSetBack
  <2> QED  BY <1>0, <2>1, <2>2, <2>3, <2>4 DEF IInv, Version, NotNewer
<1> QED  BY <1>1, <1>2, <1>3

\* The StatefulSet announces a content that is there, or is newer by now.
LEMMA ContentIsAnnounced == ASSUME IInv, StatefulSet PROVE IInv'
<1> DEFINE old == IF owned.sts = None THEN NoTemplate ELSE owned.sts
<1>0. /\ UNCHANGED <<cloud, provided, pods, edits>> /\ excused' = excused
      /\ WasSetBack <=> WasSetBack'
      /\ pc = "statefulset" /\ pc' = "ingress"
      /\ view.spec \in Specs /\ NotNewer(view.spec.xml, cloud.xml)
      /\ DOMAIN owned = ObjectFields /\ DOMAIN view = ViewFields
      /\ KnowsContent /\ view.cert \in Version /\ Covers(provided.tls, view.cert)
  BY DEF StatefulSet, Goes, Quiet, Unheard, IInv, KnowingSteps, WasSetBack
<1>1. DOMAIN view' = ViewFields /\ view'.spec = view.spec
  BY Zenon, <1>0 DEF StatefulSet, Goes, ViewFields
<1>2. CASE view.blocked
  <2>1. owned' = owned
    BY <1>2 DEF StatefulSet, Goes
  <2> QED  BY <1>0, <1>1, <2>1, OtherObjects DEF KnowingSteps
<1>3. CASE ~view.blocked
  <2>1. /\ DOMAIN owned' = ObjectFields /\ owned'.sts = Template(old)
        /\ owned'.configMap = owned.configMap
    BY <1>0, <1>3 DEF StatefulSet, Goes, ObjectFields
  <2>2. old.cert \in Version /\ Covers(provided.tls, old.cert)
    BY DEF IInv, TemplateCovered, NoTemplate, Version, Covers, NotNewer
  <2> HIDE DEF old
  <2>3. /\ DOMAIN Template(old) = TemplateFields
        /\ Template(old).source = view.spec.config /\ Template(old).xml = view.xml
        /\ Template(old).cert \in {view.cert, old.cert}
    BY DEF Template, TemplateFields
  <2>4. TemplateCovered(owned.sts)'
    <3>1. (owned.sts.cert \in Version /\ Covers(provided.tls, owned.sts.cert))'
      <4>1. provided' = provided /\ Version' = Version
        BY <1>0 DEF Version
      <4> QED  BY <1>0, <2>1, <2>2, <2>3, <4>1 DEF Covers, NotNewer
    <3>2. CASE view.spec.config = "generated"
      BY <1>0, <1>1, <2>1, <2>3, <3>1, <3>2 DEF TemplateCovered, KnowsContent, Covers, NotNewer, Specs
    <3>3. CASE view.spec.config = "provided"
      BY <1>0, <1>1, <2>1, <2>3, <3>1, <3>3
      DEF TemplateCovered, KnowsContent, Covers, NotNewer, Version, IInv
    <3> QED  BY <1>0, <3>2, <3>3 DEF Specs
  <2>5. PodsRunAnnouncedContent'
    BY <1>0 DEF IInv, PodsRunAnnouncedContent, Running, WasSetBack
  <2> QED  BY <1>0, <1>1, <2>1, <2>4, <2>5 DEF IInv, Version, KnowingSteps, NotNewer
<1> QED  BY <1>2, <1>3

\* A new specification or a new version of a provided content is newer than
\* everything that has been announced; a deleted one starts no pod.
LEMMA ContentsGrow ==
  ASSUME IInv, EditCloud \/ EditProvided \/ DeleteOwned
  PROVE  IInv'
<1>1. CASE EditCloud
  <2>1. /\ UNCHANGED <<provided, owned, pods, pc, view>> /\ edits' = edits + 1
        /\ cloud' \in Specs /\ excused' = excused \cup SetBack(cloud.xml, cloud'.xml)
    BY <1>1, ObjectsAssumption DEF EditCloud, Idles, operator
  <2>2. /\ cloud.xml \in Nat /\ cloud'.xml \in Nat /\ edits' \in Nat
        /\ pc # "idle" => view.spec.xml \in Nat
        /\ WasSetBack => WasSetBack'
        /\ WasSetBack' \/ cloud'.xml >= cloud.xml
    <3>1. (WasSetBack => WasSetBack') /\ (cloud'.xml < cloud.xml => WasSetBack')
      BY Zenon, <2>1 DEF SetBack, WasSetBack
    <3> QED  BY <2>1, <3>1 DEF IInv, Specs
  <2>3. (owned.sts # None => TemplateCovered(owned.sts))'
    BY <2>1, <2>2 DEF IInv, TemplateCovered, Version, Covers, NotNewer
  <2>4. (pc \in KnowingSteps => KnowsContent)'
    BY <2>1, <2>2 DEF IInv, KnowsContent, Version, Covers, NotNewer
  <2>5. provided' \in [{"configMap", "tls", "credentials"} -> Version']
    BY <2>1 DEF IInv, Version
  <2>6. PodsRunAnnouncedContent'
    BY <2>1, <2>2 DEF IInv, PodsRunAnnouncedContent, Running, WasSetBack
  <2> QED  BY <2>1, <2>2, <2>3, <2>4, <2>5, <2>6 DEF IInv, Version, Covers, NotNewer
<1>2. CASE EditProvided
  <2>1. PICK thing \in DOMAIN provided : \E content \in {0, 1, edits + 2} :
          /\ provided' = [provided EXCEPT ![thing] = content]
          /\ WasSetBack => WasSetBack'
          /\ content = 1 => WasSetBack'
    <3>1. PICK thing \in DOMAIN provided : \E content \in {0, 1, edits + 2} :
            /\ provided' = [provided EXCEPT ![thing] = content]
            /\ excused' = IF content = 1 THEN excused \cup {"content set back"} ELSE excused
      BY <1>2 DEF EditProvided
    <3>2. PICK content \in {0, 1, edits + 2} :
            /\ provided' = [provided EXCEPT ![thing] = content]
            /\ excused' = IF content = 1 THEN excused \cup {"content set back"} ELSE excused
      BY <3>1
    <3>3. (WasSetBack => WasSetBack') /\ (content = 1 => WasSetBack')
      BY Zenon, <3>2 DEF WasSetBack
    <3> QED  BY Zenon, <3>2, <3>3
  <2>2. UNCHANGED <<cloud, owned, pods, pc, view>> /\ edits' = edits + 1 /\ edits' \in Nat
    <3>1. UNCHANGED <<cloud, owned, pods, pc, view>> /\ edits' = edits + 1
      BY Zenon, <1>2 DEF EditProvided, Idles, operator
    <3> QED  BY <3>1 DEF IInv
  <2>3. provided' \in [{"configMap", "tls", "credentials"} -> Version']
    BY <2>1, <2>2 DEF IInv, Version
  <2>4. \A f \in {"configMap", "tls"} : \A v \in Version :
          Covers(provided[f], v) => Covers(provided[f], v)' /\ v \in Version'
    BY <2>1, <2>2 DEF IInv, Version, Covers, NotNewer
  <2>5. (owned.sts # None => TemplateCovered(owned.sts))'
    BY <2>1, <2>2, <2>4 DEF IInv, TemplateCovered, Covers, NotNewer
  <2>6. (pc \in KnowingSteps => KnowsContent)'
    BY <2>1, <2>2, <2>4 DEF IInv, KnowsContent, Covers, NotNewer
  <2>7. (pc = "statefulset" => view.cert \in Version /\ Covers(provided.tls, view.cert))'
    BY <2>2, <2>4 DEF IInv
  <2>8. PodsRunAnnouncedContent'
    BY <2>1, <2>2 DEF IInv, PodsRunAnnouncedContent, Running, WasSetBack
  <2> QED  BY <2>1, <2>2, <2>3, <2>5, <2>6, <2>7, <2>8 DEF IInv, NotNewer
<1>3. CASE DeleteOwned
  <2>1. /\ UNCHANGED <<cloud, provided, pods, pc, view>> /\ edits' = edits + 1
        /\ DOMAIN owned' = ObjectFields /\ owned'.sts = owned.sts
        /\ owned'.configMap \in {0, owned.configMap}
        /\ WasSetBack => WasSetBack'
    BY Zenon, <1>3 DEF DeleteOwned, Idles, operator, IInv, ObjectFields, WasSetBack
  <2>2. (owned.sts # None => TemplateCovered(owned.sts))'
    BY <2>1 DEF IInv, TemplateCovered, Version, Covers, NotNewer
  <2>3. (pc \in KnowingSteps => KnowsContent)'
    BY <2>1 DEF IInv, KnowsContent, Version, Covers, NotNewer
  <2>4. provided' \in [{"configMap", "tls", "credentials"} -> Version']
    BY <2>1 DEF IInv, Version
  <2>5. PodsRunAnnouncedContent'
    BY <2>1 DEF IInv, PodsRunAnnouncedContent, Running, WasSetBack
  <2> QED  BY <2>1, <2>2, <2>3, <2>4, <2>5 DEF IInv, Version, Covers, NotNewer
<1> QED  BY <1>1, <1>2, <1>3

\* A pod reads what is there when it starts, and what is there covers what its
\* template announces.
LEMMA PodsStartAndStop ==
  ASSUME IInv, NEW p \in Pods, Starts(p) \/ ReplacePod(p) \/ LosePod(p)
  PROVE  IInv'
<1>1. /\ UNCHANGED <<cloud, provided, owned, pc, view, edits, excused>>
      /\ DOMAIN pods' = Pods
  BY DEF Starts, ReplacePod, LosePod, StopPod, Idles, operator, IInv
<1>2. /\ (owned.sts # None => TemplateCovered(owned.sts))'
      /\ (pc \in KnowingSteps => KnowsContent)'
  BY <1>1 DEF IInv, TemplateCovered, KnowsContent, Version, Covers, NotNewer, WasSetBack
<1>3. PodsRunAnnouncedContent'
  <2> SUFFICES ASSUME ~WasSetBack, NEW q \in Pods, pods'[q] # None
               PROVE  /\ pods'[q].readXml >= pods'[q].xml
                      /\ pods'[q].tls => pods'[q].readCert >= pods'[q].cert
    BY <1>1 DEF PodsRunAnnouncedContent, Running, WasSetBack
  <2>1. CASE pods'[q] = pods[q]
    BY <2>1 DEF IInv, PodsRunAnnouncedContent, Running, WasSetBack
  <2>2. CASE pods'[q] # pods[q]
    <3>1. Starts(p) /\ q = p
      BY <2>2 DEF ReplacePod, LosePod, StopPod, Starts, IInv
    <3>2. TemplateCovered(owned.sts) /\ Content(owned.sts.source) # 0
      BY <3>1 DEF Starts, IInv
    <3>3. /\ pods'[q].xml = owned.sts.xml /\ pods'[q].cert = owned.sts.cert
          /\ pods'[q].tls = owned.sts.tls
          /\ pods'[q].readXml = Content(owned.sts.source)
          /\ pods'[q].readCert = IF owned.sts.tls THEN provided.tls ELSE 0
      BY <3>1, <3>2 DEF Starts, Started, IInv, TemplateCovered, TemplateFields
    <3>4. Content(owned.sts.source) >= owned.sts.xml
      BY <3>2 DEF TemplateCovered, Content, Covers, NotNewer
    <3>5. owned.sts.tls => provided.tls >= owned.sts.cert
      BY <3>1, <3>2 DEF Starts, TemplateCovered, Covers, NotNewer
    <3> QED  BY <3>3, <3>4, <3>5
  <2> QED  BY <2>1, <2>2
<1> QED  BY <1>1, <1>2, <1>3 DEF IInv, Version, Covers, NotNewer, WasSetBack

\* Every step preserves the invariant.
LEMMA ContentNext == IInv /\ [Next]_vars => IInv'
<1> SUFFICES ASSUME IInv, [Next]_vars PROVE IInv'
  OBVIOUS
<1>1. CASE Reconcile \/ Fails \/ DeleteFails \/ OverlookIngress \/ StatusDisagrees
  BY <1>1, SpecIsRead, QuietSteps, ContentIsWritten, ContentIsAnnounced DEF Reconcile
<1>2. CASE EditCloud \/ EditProvided \/ DeleteOwned
  BY <1>2, ContentsGrow
<1>3. CASE \E p \in Pods : StartPod(p) \/ StartPodWithoutPut(p) \/ ReplacePod(p) \/ LosePod(p)
  BY <1>3, PodsStartAndStop DEF StartPod, StartPodWithoutPut
<1>4. CASE TimePasses \/ TimerFires \/ UNCHANGED vars
  <2>1. UNCHANGED <<cloud, provided, owned, pods, pc, view, edits, excused>>
    BY <1>4 DEF TimePasses, TimerFires, Idles, operator, vars
  <2> QED
    BY <2>1 DEF IInv, TemplateCovered, KnowsContent, Version, Covers, NotNewer, WasSetBack,
                PodsRunAnnouncedContent, Running
<1> QED  BY <1>1, <1>2, <1>3, <1>4 DEF Next

\* Whatever is edited, deleted, lost or fails in between: a pod never runs with a
\* solr.xml or a certificate older than its template's checksums announce
\* (Reconcile comes to the ConfigMap and the TLS secret before the StatefulSet), so
\* that no pod is taken for up to date that is not.  Contents that are set back to
\* an earlier one are excepted.
THEOREM NoPodIsLeftBehind == Spec => []PodsRunAnnouncedContent
<1>1. IInv => PodsRunAnnouncedContent
  BY DEF IInv
<1> QED  BY ContentInit, ContentNext, <1>1, PTL DEF Spec

-----------------------------------------------------------------------------
(* Security.                                                               *)

Lost == "bootstrap secret lost" \in excused

\* Unless the secret was lost, whoever relies on security.json gets it from a secret
\* that exists, or it is in ZooKeeper already.
SecurityKnown ==
  /\ owned.auth /\ pc # "bootstrap" => owned.bootstrap \/ zkJson
  /\ pc \in {"tls", "statefulset"} /\ view.spec.security = "bootstrap" =>
       zkJson \/ (view.json /\ owned.bootstrap)
  /\ owned.sts # None /\ owned.sts.security = "bootstrap" =>
       zkJson \/ (owned.sts.json /\ owned.bootstrap)
  /\ \A p \in Running : pods[p].security = "bootstrap" =>
                          zkJson \/ (pods[p].json /\ owned.bootstrap)

\* The inductive invariant.  The fields and the domains are those of IInv.
SInv == IInv /\ (~Lost => SecurityKnown)

\* A step that leaves the secrets, the template and the pods alone, and is not
\* the failure between the two secrets, preserves what is known.
LEMMA OtherThanSecurity ==
  ASSUME ~Lost => SecurityKnown, UNCHANGED <<pods, zkJson>>, Lost => Lost',
         owned'.auth = owned.auth, owned'.bootstrap = owned.bootstrap,
         owned'.sts = owned.sts,
         pc = "bootstrap" => pc' = "bootstrap" \/ owned.bootstrap \/ Lost',
         pc' \in {"tls", "statefulset"} =>
           /\ pc \in {"tls", "statefulset"}
           /\ view'.spec = view.spec /\ view'.json = view.json
  PROVE  (~Lost => SecurityKnown)'
BY DEF SecurityKnown, Running

\* The steps to which it applies.
LEMMA StepsOtherThanSecurity ==
  ASSUME SInv,
         \/ Start \/ Defaults \/ ReconcileZk \/ CommonService \/ ReconcileNodeService
         \/ HeadlessService \/ ConfigMap \/ ReconcileTLS \/ Ingress \/ ListPods
         \/ PodDisruptionBudget \/ CleanupUnconfiguredServices \/ Fails \/ DeleteFails
         \/ OverlookIngress \/ StatusDisagrees
         \/ EditCloud \/ EditProvided \/ TimePasses \/ TimerFires
  PROVE  (~Lost => SecurityKnown)'
<1> USE DEF Goes, Ends, Quiet, Unheard, Idles, operator, Lost
<1>0. DOMAIN owned = ObjectFields /\ DOMAIN view = ViewFields
  BY Zenon DEF SInv, IInv
<1> SUFFICES /\ UNCHANGED <<pods, zkJson>>
             /\ Lost => Lost'
             /\ owned'.auth = owned.auth /\ owned'.bootstrap = owned.bootstrap
             /\ owned'.sts = owned.sts
             /\ pc = "bootstrap" => pc' = "bootstrap" \/ owned.bootstrap \/ Lost'
             /\ pc' \in {"tls", "statefulset"} =>
                  /\ pc \in {"tls", "statefulset"}
                  /\ view'.spec = view.spec /\ view'.json = view.json
  BY Zenon, OtherThanSecurity DEF SInv
<1>1. CASE Start \/ Defaults
  BY Zenon, <1>0, <1>1 DEF Start, Defaults
<1>2. CASE ReconcileZk \/ CommonService \/ HeadlessService \/ ConfigMap
  BY Zenon, <1>0, <1>2 DEF ReconcileZk, CommonService, HeadlessService, ConfigMap, ObjectFields
<1>3. CASE ReconcileNodeService
  BY Zenon, <1>0, <1>3 DEF ReconcileNodeService, ObjectFields
<1>4. CASE ReconcileTLS
  BY Zenon, <1>0, <1>4 DEF ReconcileTLS, ViewFields
<1>5. CASE Ingress \/ OverlookIngress \/ ListPods \/ PodDisruptionBudget
  BY Zenon, <1>0, <1>5
  DEF Ingress, OverlookIngress, GoesOnAfterIngress, ListPods, PodDisruptionBudget, ObjectFields
<1>6. CASE CleanupUnconfiguredServices \/ DeleteFails
  BY Zenon, <1>0, <1>6 DEF CleanupUnconfiguredServices, DeleteFails, ObjectFields
<1>7. CASE Fails \/ StatusDisagrees
  BY Zenon, <1>7 DEF Fails, StatusDisagrees
<1>8. CASE EditCloud \/ EditProvided \/ TimePasses \/ TimerFires
  BY Zenon, <1>8 DEF EditCloud, EditProvided, TimePasses, TimerFires
<1> QED
  BY Zenon, <1>1, <1>2, <1>3, <1>4, <1>5, <1>6, <1>7, <1>8

\* The secrets are made together, or found; the StatefulSet and then its pods rely
\* on what was made or found.
LEMMA SecuritySteps ==
  ASSUME SInv,
         \/ ReconcileSecurity \/ BootstrapSecret \/ StatefulSet \/ DeleteOwned
         \/ \E p \in Pods : \/ StartPod(p) \/ StartPodWithoutPut(p)
                            \/ ReplacePod(p) \/ LosePod(p)
  PROVE  (~Lost => SecurityKnown)'
<1> USE DEF Goes, Ends, Quiet, Unheard, Idles, operator
<1>0. DOMAIN owned = ObjectFields /\ DOMAIN view = ViewFields /\ DOMAIN pods = Pods
  BY DEF SInv, IInv
<1>1. CASE ReconcileSecurity
  <2>1. view.spec.security \in {"none", "bootstrap", "user"}
    BY <1>1 DEF ReconcileSecurity, SInv, IInv, Specs
  <2>2. UNCHANGED <<pods, zkJson, excused>> /\ pc = "security"
    BY <1>1 DEF ReconcileSecurity
  <2>3. CASE view.spec.security = "bootstrap" /\ ~owned.auth
    <3>1. /\ pc' = "bootstrap" /\ owned'.bootstrap = owned.bootstrap
          /\ owned'.sts = owned.sts
      BY <1>0, <1>1, <2>3 DEF ReconcileSecurity, ObjectFields
    <3> QED  BY Zenon, <2>2, <3>1 DEF SInv, SecurityKnown, Running, Lost
  <2>4. CASE view.spec.security = "bootstrap" /\ owned.auth
    <3>1. /\ pc' = "tls" /\ owned' = owned /\ view'.spec = view.spec
          /\ view'.json = owned.bootstrap
      BY <1>0, <1>1, <2>4 DEF ReconcileSecurity, ViewFields, BootstrapSecretFound
    <3> QED  BY Zenon, <2>2, <2>4, <3>1 DEF SInv, SecurityKnown, Running, Lost
  <2>5. CASE view.spec.security # "bootstrap"
    <3>1. owned' = owned /\ ((pc' = "tls" /\ view'.spec = view.spec) \/ pc' = "idle")
      BY Zenon, <1>0, <1>1, <2>1, <2>5 DEF ReconcileSecurity, ViewFields
    <3> QED  BY Zenon, <2>2, <2>5, <3>1 DEF SInv, SecurityKnown, Running, Lost
  <2> QED  BY <2>3, <2>4, <2>5
<1>2. CASE BootstrapSecret
  <2>1. UNCHANGED <<pods, zkJson, excused>> /\ owned'.sts = owned.sts
    BY <1>0, <1>2 DEF BootstrapSecret, ObjectFields
  <2>2. owned'.bootstrap /\ ((pc' = "tls" /\ view'.json) \/ pc' = "idle")
    BY <1>0, <1>2 DEF BootstrapSecret, ObjectFields, ViewFields
  <2> QED  BY Zenon, <2>1, <2>2 DEF SInv, SecurityKnown, Running, Lost
<1>3. CASE StatefulSet
  <2>1. /\ UNCHANGED <<pods, zkJson, excused>> /\ pc = "statefulset" /\ pc' = "ingress"
        /\ owned'.auth = owned.auth /\ owned'.bootstrap = owned.bootstrap
    BY <1>0, <1>3 DEF StatefulSet, ObjectFields
  <2>2. \/ owned'.sts = owned.sts
        \/ \E old : owned'.sts = Template(old)
    BY <1>0, <1>3 DEF StatefulSet, ObjectFields
  <2>3. \A old : Template(old).security = view.spec.security /\ Template(old).json = view.json
    BY DEF Template
  <2> QED  BY Zenon, <2>1, <2>2, <2>3 DEF SInv, SecurityKnown, Running, Lost
<1>4. CASE DeleteOwned
  <2>1. /\ UNCHANGED <<pods, zkJson, pc, view>> /\ owned'.auth = owned.auth
        /\ owned'.sts = owned.sts
        /\ Lost => Lost'
        /\ owned'.bootstrap = owned.bootstrap \/ zkJson \/ Lost'
    BY Zenon, <1>0, <1>4 DEF DeleteOwned, ObjectFields, Lost
  <2> QED  BY <2>1 DEF SInv, SecurityKnown, Running
<1>5. ASSUME NEW p \in Pods, StartPod(p) \/ StartPodWithoutPut(p)
      PROVE  (~Lost => SecurityKnown)'
  <2>1. /\ UNCHANGED <<owned, pc, view, excused>> /\ owned.sts # None
        /\ zkJson => zkJson'
        /\ \A q \in Pods : q # p => pods'[q] = pods[q]
    BY Zenon, <1>0, <1>5 DEF StartPod, StartPodWithoutPut, Starts, CmdToPutSecurityJsonInZk
  <2>2. pods'[p].security = owned.sts.security /\ pods'[p].json = owned.sts.json
    BY <1>0, <1>5, <2>1
    DEF StartPod, StartPodWithoutPut, Starts, Started, SInv, IInv, TemplateCovered, TemplateFields
  <2> QED  BY Zenon, <2>1, <2>2 DEF SInv, SecurityKnown, Running, Lost
<1>6. ASSUME NEW p \in Pods, ReplacePod(p) \/ LosePod(p) PROVE (~Lost => SecurityKnown)'
  <2>1. /\ UNCHANGED <<owned, pc, view, excused, zkJson>>
        /\ \A q \in Pods : pods'[q] \in {pods[q], None}
    BY <1>0, <1>6 DEF ReplacePod, LosePod, StopPod
  <2> QED  BY Zenon, <2>1 DEF SInv, SecurityKnown, Running, Lost
<1> QED  BY <1>1, <1>2, <1>3, <1>4, <1>5, <1>6

\* Security that the operator bootstraps is not lost: Reconcile makes the secret with
\* security.json before the StatefulSet that uses it, so that a pod that runs with it
\* has put it into ZooKeeper or, if that failed, puts it there at the next start;
\* only then may templates go without (the comment "perhaps the user deleted it
\* after security was bootstrapped").  Excepted is a secret that was deleted before,
\* or that a failed call left unmade.
THEOREM SecurityOutlivesFailures == Spec => []SecurityJsonIsKept
<1>1. Init => SInv
  <2> SUFFICES ASSUME Init PROVE SecurityKnown
    BY ContentInit DEF SInv
  <2>1. pc = "idle" /\ owned.auth = FALSE
    BY InitialObjects DEF Init
  <2>2. /\ owned.sts # None => owned.sts.security = "none"
        /\ \A p \in Running : pods[p].security = "none"
    BY DEF Init, Objects, Running, OldTemplate, Started
  <2> QED  BY <2>1, <2>2 DEF SecurityKnown
<1>2. SInv /\ [Next]_vars => SInv'
  <2> SUFFICES ASSUME SInv, [Next]_vars PROVE (~Lost => SecurityKnown)'
    BY ContentNext DEF SInv
  <2>1. CASE UNCHANGED vars
    BY Zenon, <2>1 DEF vars, SInv, SecurityKnown, Running, Lost
  <2> QED  BY <2>1, StepsOtherThanSecurity, SecuritySteps DEF Next, Reconcile
<1>3. SInv => SecurityJsonIsKept
  BY Zenon DEF SInv, SecurityKnown, SecurityJsonIsKept, Lost
<1> QED  BY <1>1, <1>2, <1>3, PTL DEF Spec

-----------------------------------------------------------------------------
(* Services, and the rules of the Ingress.                                 *)

ServiceDeleted == "service deleted" \in excused
Overlooked == "ingress overlooked" \in excused

NodeServices == \A q \in Pods : owned.ip[q] # 0

\* The steps before any service is made; those from the ConfigMap to the end, when
\* the services of the specification have been created; and those after the step
\* of the Ingress.
BeforeServices == {"defaults", "zk", "common"}
AfterServices == {"config", "security", "bootstrap", "tls", "statefulset",
                  "ingress", "pods", "pdb", "cleanup"}
AfterIngress == {"pods", "pdb", "cleanup"}

\* The services that the running reconciliation has made are there; and unless an
\* Ingress was overlooked, its rules are those of the Ingress, and every rule has its
\* service.
ServicesMade ==
  /\ pc = "nodes" =>
       /\ UsesIndividualNodeServices(view.spec)
       /\ \A q \in Pods \ view.todo : owned.ip[q] # 0
  /\ pc \in AfterServices =>
       IF UsesIndividualNodeServices(view.spec) THEN NodeServices ELSE owned.headless
  /\ pc \in AfterServices \cup {"nodes", "headless"} => owned.common
  /\ pc \in AfterIngress /\ ~Overlooked =>
       owned.ingress = IF view.spec.method = "Ingress"
                         THEN CreateSolrIngressRules(view.spec) ELSE None
  /\ owned.ingress # None /\ ~Overlooked => \A s \in owned.ingress : ServiceExists(s)

\* The inductive invariant, with the types it needs.
ServicesKept ==
  /\ DOMAIN owned.ip = Pods /\ DOMAIN view.ips = Pods
  /\ owned.nextIP \in Nat \ {0}
  /\ pc \in BeforeServices => view.todo = Pods
  /\ pc = "headless" => ~UsesIndividualNodeServices(view.spec)
  /\ ~ServiceDeleted => ServicesMade

NInv == IInv /\ ServicesKept

\* A step that leaves services and Ingress alone preserves what was made.
LEMMA OtherThanServices ==
  ASSUME NInv,
         owned'.ip = owned.ip, owned'.headless = owned.headless,
         owned'.common = owned.common, owned'.ingress = owned.ingress,
         owned'.nextIP = owned.nextIP, DOMAIN view'.ips = Pods,
         ServiceDeleted => ServiceDeleted', Overlooked => Overlooked',
         pc' \in BeforeServices => view'.todo = Pods,
         pc' \in {"nodes", "headless"} => pc' = pc /\ view' = view,
         pc' \in AfterServices => pc \in AfterServices /\ view'.spec = view.spec,
         pc' \in AfterIngress => pc \in AfterIngress
  PROVE  ServicesKept'
<1>1. (~ServiceDeleted => ServicesMade)'
  BY DEF NInv, ServicesKept, ServicesMade, NodeServices, ServiceExists, UsesIndividualNodeServices,
         CreateSolrIngressRules, AfterServices, AfterIngress
<1> QED  BY <1>1 DEF NInv, ServicesKept, UsesIndividualNodeServices

\* The steps to which it applies.
LEMMA StepsOtherThanServices ==
  ASSUME NInv,
         \/ Start \/ Defaults \/ ReconcileZk \/ ConfigMap \/ ReconcileSecurity
         \/ BootstrapSecret \/ ReconcileTLS \/ StatefulSet \/ ListPods
         \/ PodDisruptionBudget \/ Fails \/ StatusDisagrees \/ EditCloud \/ EditProvided
         \/ \E p \in Pods : Starts(p) \/ ReplacePod(p) \/ LosePod(p)
         \/ TimePasses \/ TimerFires
  PROVE  ServicesKept'
<1> USE DEF Goes, Ends, Quiet, Unheard, Idles, operator, ServiceDeleted, Overlooked,
            BeforeServices, AfterServices, AfterIngress
<1>0. /\ DOMAIN owned = ObjectFields /\ DOMAIN view = ViewFields
      /\ DOMAIN view.ips = Pods /\ DOMAIN NoView.ips = Pods
      /\ pc \in BeforeServices => view.todo = Pods
  BY Zenon DEF NInv, ServicesKept, IInv, NoView, NoIP
<1> SUFFICES /\ owned'.ip = owned.ip /\ owned'.headless = owned.headless
             /\ owned'.common = owned.common /\ owned'.ingress = owned.ingress
             /\ owned'.nextIP = owned.nextIP /\ DOMAIN view'.ips = Pods
             /\ ServiceDeleted => ServiceDeleted'
             /\ Overlooked => Overlooked'
             /\ pc' \in BeforeServices => view'.todo = Pods
             /\ pc' \in {"nodes", "headless"} => pc' = pc /\ view' = view
             /\ pc' \in AfterServices => pc \in AfterServices /\ view'.spec = view.spec
             /\ pc' \in AfterIngress => pc \in AfterIngress
  BY Zenon, OtherThanServices
<1>1. CASE Start
  <2>1. view'.ips = NoView.ips /\ view'.todo = Pods
    BY <1>1 DEF Start, NoView
  <2> QED  BY Zenon, <1>0, <1>1, <2>1 DEF Start
<1>2. CASE Defaults \/ ReconcileZk
  BY Zenon, <1>0, <1>2 DEF Defaults, ReconcileZk, ObjectFields
<1>3. CASE ConfigMap
  BY Zenon, <1>0, <1>3 DEF ConfigMap, ObjectFields, ViewFields
<1>4. CASE ReconcileSecurity
  <2>1. view.spec.security \in {"none", "bootstrap", "user"}
    BY <1>4 DEF ReconcileSecurity, NInv, IInv, Specs
  <2> QED  BY Zenon, <1>0, <1>4, <2>1 DEF ReconcileSecurity, ObjectFields, ViewFields
<1>5. CASE BootstrapSecret
  BY Zenon, <1>0, <1>5 DEF BootstrapSecret, ObjectFields, ViewFields
<1>6. CASE ReconcileTLS
  BY Zenon, <1>0, <1>6 DEF ReconcileTLS, ViewFields
<1>7. CASE StatefulSet
  BY Zenon, <1>0, <1>7 DEF StatefulSet, ObjectFields, ViewFields
<1>8. CASE ListPods \/ PodDisruptionBudget
  BY Zenon, <1>0, <1>8 DEF ListPods, PodDisruptionBudget, ObjectFields, ViewFields
<1>9. CASE Fails \/ StatusDisagrees
  BY Zenon, <1>0, <1>9 DEF Fails, StatusDisagrees
<1>10. CASE EditCloud \/ EditProvided \/ TimePasses \/ TimerFires
  BY Zenon, <1>0, <1>10 DEF EditCloud, EditProvided, TimePasses, TimerFires
<1>11. CASE \E p \in Pods : Starts(p) \/ ReplacePod(p) \/ LosePod(p)
  BY Zenon, <1>0, <1>11 DEF Starts, ReplacePod, LosePod, StopPod
<1> QED
  BY Zenon, <1>1, <1>2, <1>3, <1>4, <1>5, <1>6, <1>7, <1>8, <1>9, <1>10, <1>11

\* Services are made before the rules, and taken away only when the rules of the
\* same specification do without them.
LEMMA ServiceSteps ==
  ASSUME NInv,
         \/ CommonService \/ ReconcileNodeService \/ HeadlessService \/ Ingress
         \/ OverlookIngress \/ CleanupUnconfiguredServices \/ DeleteFails \/ DeleteOwned
  PROVE  ServicesKept'
<1> USE DEF Goes, Ends, Quiet, Unheard, Idles, operator, BeforeServices
<1>0. /\ DOMAIN owned = ObjectFields /\ DOMAIN view = ViewFields
      /\ DOMAIN owned.ip = Pods /\ DOMAIN view.ips = Pods /\ DOMAIN NoView.ips = Pods
      /\ DOMAIN NoIP = Pods /\ owned.nextIP \in Nat \ {0}
      /\ ~ServiceDeleted => ServicesMade
  BY DEF NInv, ServicesKept, IInv, NoView, NoIP
<1>1. CASE CommonService
  <2>1. /\ pc' = IF UsesIndividualNodeServices(view.spec) THEN "nodes" ELSE "headless"
        /\ view' = view /\ excused' = excused /\ pc = "common"
        /\ owned'.common /\ owned'.ip = owned.ip /\ owned'.ingress = owned.ingress
        /\ owned'.nextIP = owned.nextIP
    BY <1>0, <1>1 DEF CommonService, ObjectFields
  <2>2. \A q \in Pods \ view.todo : owned.ip[q] # 0
    BY <2>1 DEF NInv, ServicesKept
  <2>3. (~ServiceDeleted => ServicesMade)'
    BY Zenon, <1>0, <2>1, <2>2
    DEF ServicesMade, ServiceExists, ServiceDeleted, Overlooked, UsesIndividualNodeServices,
        AfterServices, AfterIngress
  <2> QED  BY <1>0, <2>1, <2>3 DEF ServicesKept, UsesIndividualNodeServices
<1>2. CASE ReconcileNodeService
  <2> DEFINE n == Min(view.todo)
  <2>1. /\ pc = "nodes" /\ pc' \in {"nodes", "config"} /\ excused' = excused
        /\ view'.spec = view.spec /\ view'.todo = view.todo \ {n}
        /\ pc' = "config" => view'.todo = {}
        /\ DOMAIN view'.ips = Pods
    BY <1>0, <1>2 DEF ReconcileNodeService, ViewFields
  <2>2. /\ owned'.common = owned.common /\ owned'.ingress = owned.ingress
        /\ DOMAIN owned'.ip = Pods /\ owned'.nextIP \in Nat \ {0}
        /\ \A q \in Pods : owned.ip[q] # 0 => owned'.ip[q] = owned.ip[q]
        /\ n \in Pods => owned'.ip[n] # 0
    BY <1>0, <1>2 DEF ReconcileNodeService, ObjectFields
  <2> HIDE DEF n
  <2>3. (~ServiceDeleted => ServicesMade)'
    BY Zenon, <1>0, <2>1, <2>2
    DEF ServicesMade, NodeServices, ServiceExists, ServiceDeleted, Overlooked,
        UsesIndividualNodeServices, AfterServices, AfterIngress
  <2> QED  BY <2>1, <2>2, <2>3 DEF ServicesKept
<1>3. CASE HeadlessService
  <2>1. /\ pc = "headless" /\ pc' = "config" /\ view' = view /\ excused' = excused
        /\ owned'.headless /\ owned'.common = owned.common /\ owned'.ip = owned.ip
        /\ owned'.ingress = owned.ingress /\ owned'.nextIP = owned.nextIP
        /\ ~UsesIndividualNodeServices(view.spec)
    BY <1>0, <1>3 DEF HeadlessService, ObjectFields, NInv, ServicesKept
  <2>2. (~ServiceDeleted => ServicesMade)'
    BY Zenon, <1>0, <2>1
    DEF ServicesMade, ServiceExists, ServiceDeleted, Overlooked, UsesIndividualNodeServices,
        AfterServices, AfterIngress
  <2> QED  BY <1>0, <2>1, <2>2 DEF ServicesKept
<1>4. CASE Ingress
  <2> DEFINE rules == IF view.spec.method = "Ingress"
                        THEN CreateSolrIngressRules(view.spec) ELSE None
  <2>1. /\ pc = "ingress" /\ owned'.ingress = rules /\ (ServiceDeleted' <=> ServiceDeleted)
        /\ owned'.common = owned.common /\ owned'.ip = owned.ip
        /\ owned'.headless = owned.headless /\ owned'.nextIP = owned.nextIP
        /\ \/ pc' = "pods" /\ view' = view
           \/ pc' = "idle" /\ view' = NoView
    BY Zenon, <1>0, <1>4 DEF Ingress, GoesOnAfterIngress, ObjectFields, ServiceDeleted
  <2>2. ~ServiceDeleted /\ rules # None =>
          \A s \in rules : IF s \in Pods THEN owned.ip[s] # 0 ELSE owned.common
    <3> SUFFICES ASSUME ~ServiceDeleted, rules # None, NEW s \in rules
                 PROVE  IF s \in Pods THEN owned.ip[s] # 0 ELSE owned.common
      OBVIOUS
    <3>1. /\ owned.common
          /\ UsesIndividualNodeServices(view.spec) => NodeServices
      BY <1>0, <2>1 DEF ServicesMade, AfterServices
    <3>2. view.spec.method = "Ingress" /\ s \in CreateSolrIngressRules(view.spec)
      OBVIOUS
    <3>3. s \in Pods => ~view.spec.hideNodes
      <4>1. CommonServiceName \notin Pods
        BY ObjectsAssumption DEF CommonServiceName
      <4> QED  BY <3>2, <4>1 DEF CreateSolrIngressRules
    <3> QED  BY <3>1, <3>2, <3>3 DEF UsesIndividualNodeServices, NodeServices
  <2>3. (~ServiceDeleted => ServicesMade)'
    BY Zenon, <1>0, <2>1, <2>2
    DEF ServicesMade, NodeServices, ServiceExists, UsesIndividualNodeServices,
        CreateSolrIngressRules, AfterServices, AfterIngress
  <2> QED  BY <1>0, <2>1, <2>3 DEF ServicesKept
<1>5. CASE CleanupUnconfiguredServices \/ DeleteFails
  <2>1. /\ pc = "cleanup" /\ pc' = "idle" /\ view' = NoView
        /\ ServiceDeleted => ServiceDeleted'
        /\ Overlooked => Overlooked'
        /\ owned'.common = owned.common /\ owned'.ingress = owned.ingress
        /\ owned'.nextIP = owned.nextIP /\ DOMAIN owned'.ip = Pods
        /\ UsesIndividualNodeServices(view.spec) => owned'.ip = owned.ip
    BY Zenon, <1>0, <1>5
    DEF CleanupUnconfiguredServices, DeleteFails, UsesHeadlessService, ObjectFields,
        ServiceDeleted, Overlooked
  <2>2. CASE UsesIndividualNodeServices(view.spec)
    <3>1. (~ServiceDeleted => ServicesMade)'
      BY <1>0, <2>1, <2>2 DEF ServicesMade, ServiceExists, AfterServices, AfterIngress
    <3> QED  BY <1>0, <2>1, <3>1 DEF ServicesKept
  <2>3. CASE ~UsesIndividualNodeServices(view.spec)
    <3>1. ~ServiceDeleted /\ ~Overlooked /\ owned.ingress # None =>
            owned.ingress \cap Pods = {} /\ owned.common
      BY <1>0, <2>1, <2>3, ObjectsAssumption
      DEF ServicesMade, UsesIndividualNodeServices, CreateSolrIngressRules,
          CommonServiceName, AfterIngress, AfterServices
    <3>2. (~ServiceDeleted => ServicesMade)'
      BY <1>0, <2>1, <3>1 DEF ServicesMade, ServiceExists, AfterServices, AfterIngress
    <3> QED  BY <1>0, <2>1, <3>2 DEF ServicesKept
  <2> QED  BY <2>2, <2>3
<1>6. CASE DeleteOwned
  <2>1. /\ UNCHANGED <<pc, view>> /\ DOMAIN owned'.ip = Pods
        /\ owned'.nextIP = owned.nextIP
        /\ ServiceDeleted => ServiceDeleted'
        /\ Overlooked => Overlooked'
        /\ \/ ServiceDeleted'
           \/ /\ owned'.ip = owned.ip /\ owned'.headless = owned.headless
              /\ owned'.common = owned.common /\ owned'.ingress = owned.ingress
    BY Zenon, <1>0, <1>6 DEF DeleteOwned, ObjectFields, ServiceDeleted, Overlooked
  <2>2. (~ServiceDeleted => ServicesMade)'
    BY <1>0, <2>1 DEF ServicesMade, NodeServices, ServiceExists
  <2> QED  BY <1>0, <2>1, <2>2 DEF NInv, ServicesKept
<1>7. CASE OverlookIngress
  <2>1. /\ pc = "ingress" /\ owned' = owned /\ (ServiceDeleted' <=> ServiceDeleted)
        /\ view.spec.method # "Ingress"
        /\ owned.ingress = None \/ Overlooked'
        /\ \/ pc' = "pods" /\ view' = view
           \/ pc' = "idle" /\ view' = NoView
    BY Zenon, <1>0, <1>7 DEF OverlookIngress, GoesOnAfterIngress, ServiceDeleted, Overlooked
  <2>2. (~ServiceDeleted => ServicesMade)'
    BY Zenon, <1>0, <2>1
    DEF ServicesMade, NodeServices, UsesIndividualNodeServices, AfterServices, AfterIngress
  <2> QED  BY <1>0, <2>1, <2>2 DEF ServicesKept
<1> QED  BY <1>1, <1>2, <1>3, <1>4, <1>5, <1>6, <1>7

\* NInv is inductive.
LEMMA ServicesInit == Init => NInv
<1> SUFFICES ASSUME Init PROVE ServicesKept
  BY ContentInit DEF NInv
<1>1. /\ owned.ip = NoIP /\ owned.nextIP = 1 /\ owned.ingress = None
      /\ view = NoView /\ pc = "idle"
  BY InitialObjects DEF Init
<1>2. ServicesMade
  BY <1>1 DEF ServicesMade, AfterServices, AfterIngress
<1> QED  BY <1>1, <1>2 DEF ServicesKept, BeforeServices, NoView, NoIP

LEMMA ServicesNext == NInv /\ [Next]_vars => NInv'
<1> SUFFICES ASSUME NInv, [Next]_vars PROVE ServicesKept'
  BY ContentNext DEF NInv
<1>1. CASE UNCHANGED vars
  BY Zenon, <1>1, OtherThanServices DEF vars, NInv, ServicesKept, ServiceDeleted, Overlooked
<1> QED
  BY <1>1, StepsOtherThanServices, ServiceSteps
  DEF Next, Reconcile, StartPod, StartPodWithoutPut

\* No rule of the Ingress leads nowhere, whatever the number of pods and however
\* the specification changes between the two types of service: reconcileNodeService
\* comes before the Ingress, and cleanupUnconfiguredServices after the rules for
\* the services it removes are gone.  That it is an Ingress it could not read which
\* Reconcile leaves with rules that lead nowhere, and only until it reads it again, is
\* the exception that shows in the invariant.
THEOREM RulesHaveServices == Spec => []IngressHasBackends
<1>1. NInv => IngressHasBackends
  BY Zenon DEF NInv, ServicesKept, ServicesMade, IngressHasBackends, ServiceDeleted, Overlooked
<1> QED  BY <1>1, ServicesInit, ServicesNext, PTL DEF Spec

-----------------------------------------------------------------------------
(* Addresses.                                                              *)

\* The steps with the addresses gathered and not yet written.
Gathered == {"config", "security", "bootstrap", "tls", "statefulset"}

Excused == excused \cap {"service deleted", "old template stays"} # {}

\* A pod of this template can be reached, and so can all the others through it.
Resolves(t) ==
  IF t.type = "headless" THEN owned.headless
  ELSE \A q \in Pods : owned.ip[q] # 0 /\ (t.external => t.aliases[q] = owned.ip[q])

TemplateResolves == owned.sts # None => Resolves(owned.sts)
PodsResolve == \A p \in Running : Resolves(pods[p])

\* The template and all running pods resolve; the reconciliation has noted the
\* addresses it will write, and after it has written them the pods are those it
\* listed or are made from its template.
AddressesKnown ==
  /\ TemplateResolves /\ PodsResolve
  /\ pc = "nodes" /\ ~view.blocked /\ view.spec.useExternal =>
       \A q \in Pods \ view.todo : view.ips[q] = owned.ip[q]
  /\ /\ pc \in Gathered
     /\ UsesIndividualNodeServices(view.spec) /\ ~view.blocked /\ view.spec.useExternal
     => \A q \in Pods : view.ips[q] = owned.ip[q]
  /\ pc \in {"ingress"} \cup AfterIngress /\ ~view.blocked /\ owned.sts # None =>
       owned.sts.type = ServiceType(view.spec)
  /\ pc \in {"pdb", "cleanup"} =>
       \A p \in Running : \/ Annotation(pods[p]) \in view.types
                          \/ owned.sts # None /\ pods[p].type = owned.sts.type

\* The inductive invariant.
AInv == NInv /\ (~Excused => AddressesKnown)

\* What resolves still does if no service is removed.
LEMMA TemplateStillResolves ==
  ASSUME TemplateResolves, owned'.sts = owned.sts, owned.headless => owned'.headless,
         \A q \in Pods : owned.ip[q] # 0 => owned'.ip[q] = owned.ip[q]
  PROVE  TemplateResolves'
BY DEF TemplateResolves, Resolves

LEMMA PodsStillResolve ==
  ASSUME PodsResolve, \A q \in Pods : pods'[q] \in {pods[q], None},
         owned.headless => owned'.headless,
         \A q \in Pods : owned.ip[q] # 0 => owned'.ip[q] = owned.ip[q]
  PROVE  PodsResolve'
<1> SUFFICES ASSUME NEW p \in Pods, pods'[p] # None PROVE Resolves(pods[p])'
  BY DEF PodsResolve, Running
<1>1. pods'[p] = pods[p] /\ Resolves(pods[p])
  BY DEF PodsResolve, Running
<1> QED  BY <1>1 DEF Resolves

\* A step that removes no service and leaves the template alone, and starts no pod.
LEMMA OtherThanAddresses ==
  ASSUME AInv,
         owned'.sts = owned.sts, owned'.ip = owned.ip,
         owned.headless => owned'.headless,
         \A q \in Pods : pods'[q] \in {pods[q], None},
         Excused => Excused',
         pc' = "nodes" => view'.todo = Pods \/ (pc = "nodes" /\ view' = view),
         pc' \in Gathered =>
           \/ ~UsesIndividualNodeServices(view'.spec)
           \/ /\ pc \in Gathered /\ view'.spec = view.spec /\ view'.ips = view.ips
              /\ view.blocked => view'.blocked,
         pc' \in {"ingress"} \cup AfterIngress =>
           /\ pc \in {"ingress"} \cup AfterIngress /\ view'.spec = view.spec
           /\ view'.blocked = view.blocked,
         pc' \in {"pdb", "cleanup"} =>
           pc \in {"pdb", "cleanup"} /\ view'.types = view.types
  PROVE  (~Excused => AddressesKnown)'
<1> SUFFICES ASSUME ~Excused' PROVE AddressesKnown'
  OBVIOUS
<1>1. AddressesKnown
  BY Zenon DEF AInv
<1>2. TemplateResolves'
  BY <1>1, TemplateStillResolves DEF AddressesKnown
<1>3. PodsResolve'
  BY <1>1, PodsStillResolve DEF AddressesKnown
<1>4. (pc = "nodes" /\ ~view.blocked /\ view.spec.useExternal =>
         \A q \in Pods \ view.todo : view.ips[q] = owned.ip[q])'
  BY <1>1 DEF AddressesKnown
<1>5. (/\ pc \in Gathered
       /\ UsesIndividualNodeServices(view.spec) /\ ~view.blocked /\ view.spec.useExternal
       => \A q \in Pods : view.ips[q] = owned.ip[q])'
  BY <1>1 DEF AddressesKnown, UsesIndividualNodeServices
<1>6. (pc \in {"ingress"} \cup AfterIngress /\ ~view.blocked /\ owned.sts # None =>
         owned.sts.type = ServiceType(view.spec))'
  BY <1>1 DEF AddressesKnown, ServiceType, UsesIndividualNodeServices
<1>7. (pc \in {"pdb", "cleanup"} =>
         \A p \in Running : \/ Annotation(pods[p]) \in view.types
                            \/ owned.sts # None /\ pods[p].type = owned.sts.type)'
  <2>1. \A p \in Pods : pods'[p] # None => p \in Running /\ pods'[p] = pods[p]
    BY DEF Running
  <2>2. pc \in {"pdb", "cleanup"} =>
          \A p \in Running : \/ Annotation(pods[p]) \in view.types
                             \/ owned.sts # None /\ pods[p].type = owned.sts.type
    BY <1>1 DEF AddressesKnown
  <2> QED  BY <2>1, <2>2 DEF Running
<1> QED  BY <1>2, <1>3, <1>4, <1>5, <1>6, <1>7 DEF AddressesKnown

\* The steps to which it applies.
LEMMA StepsOtherThanAddresses ==
  ASSUME AInv,
         \/ Start \/ Defaults \/ ReconcileZk \/ CommonService \/ HeadlessService
         \/ ConfigMap \/ ReconcileSecurity \/ BootstrapSecret \/ ReconcileTLS
         \/ Ingress \/ OverlookIngress \/ StatusDisagrees
         \/ PodDisruptionBudget \/ Fails \/ EditCloud \/ EditProvided
         \/ \E p \in Pods : ReplacePod(p) \/ LosePod(p)
         \/ TimePasses \/ TimerFires
  PROVE  (~Excused => AddressesKnown)'
<1> USE DEF Goes, Ends, Quiet, Unheard, Idles, operator, Gathered, AfterIngress
<1>e. Excused => Excused'
  <2>1. \/ excused \subseteq excused'
        \/ excused' = excused \ {"ingress overlooked"}
    BY Zenon DEF Start, Defaults, ReconcileZk, CommonService, HeadlessService, ConfigMap,
       ReconcileSecurity, BootstrapSecret, ReconcileTLS, Ingress, OverlookIngress,
       StatusDisagrees, PodDisruptionBudget, Fails, EditCloud, EditProvided, ReplacePod,
       LosePod, StopPod, TimePasses, TimerFires
  <2> QED  BY <2>1 DEF Excused
<1>0. /\ DOMAIN owned = ObjectFields /\ DOMAIN view = ViewFields /\ DOMAIN pods = Pods
      /\ pc = "common" => view.todo = Pods
      /\ pc = "headless" => ~UsesIndividualNodeServices(view.spec)
  BY Zenon DEF AInv, NInv, ServicesKept, IInv, BeforeServices
<1> SUFFICES /\ owned'.sts = owned.sts /\ owned'.ip = owned.ip
             /\ owned.headless => owned'.headless
             /\ \A q \in Pods : pods'[q] \in {pods[q], None}
             /\ pc' = "nodes" => view'.todo = Pods \/ (pc = "nodes" /\ view' = view)
             /\ pc' \in Gathered =>
                  \/ ~UsesIndividualNodeServices(view'.spec)
                  \/ /\ pc \in Gathered /\ view'.spec = view.spec /\ view'.ips = view.ips
                     /\ view.blocked => view'.blocked
             /\ pc' \in {"ingress"} \cup AfterIngress =>
                  /\ pc \in {"ingress"} \cup AfterIngress /\ view'.spec = view.spec
                  /\ view'.blocked = view.blocked
             /\ pc' \in {"pdb", "cleanup"} =>
                  pc \in {"pdb", "cleanup"} /\ view'.types = view.types
  BY Zenon, <1>e, OtherThanAddresses
<1>1. CASE Start
  BY <1>0, <1>1 DEF Start
<1>2. CASE Defaults \/ ReconcileZk
  BY <1>0, <1>2 DEF Defaults, ReconcileZk, ObjectFields
<1>3. CASE CommonService
  BY <1>0, <1>3 DEF CommonService, ObjectFields
<1>4. CASE HeadlessService
  <2>1. view' = view /\ ~UsesIndividualNodeServices(view.spec)
    BY <1>0, <1>4 DEF HeadlessService
  <2>2. ~UsesIndividualNodeServices(view'.spec)
    BY <2>1 DEF UsesIndividualNodeServices
  <2> QED  BY <1>0, <1>4, <2>2 DEF HeadlessService, ObjectFields
<1>5. CASE ConfigMap
  BY <1>0, <1>5 DEF ConfigMap, ObjectFields, ViewFields
<1>6. CASE ReconcileSecurity
  <2>1. view.spec.security \in {"none", "bootstrap", "user"}
    BY <1>6 DEF ReconcileSecurity, AInv, NInv, IInv, Specs
  <2> QED  BY Zenon, <1>0, <1>6, <2>1 DEF ReconcileSecurity, ObjectFields, ViewFields
<1>7. CASE BootstrapSecret
  BY <1>0, <1>7 DEF BootstrapSecret, ObjectFields, ViewFields
<1>8. CASE ReconcileTLS
  BY Zenon, <1>0, <1>8 DEF ReconcileTLS, ViewFields
<1>9. CASE Ingress \/ OverlookIngress
  BY Zenon, <1>0, <1>9 DEF Ingress, OverlookIngress, GoesOnAfterIngress, ObjectFields
<1>10. CASE PodDisruptionBudget
  BY <1>0, <1>10 DEF PodDisruptionBudget, ObjectFields
<1>11. CASE Fails \/ StatusDisagrees
  BY Zenon, <1>0, <1>11 DEF Fails, StatusDisagrees
<1>12. CASE EditCloud \/ EditProvided \/ TimePasses \/ TimerFires
  BY Zenon, <1>0, <1>12 DEF EditCloud, EditProvided, TimePasses, TimerFires
<1>13. CASE \E p \in Pods : ReplacePod(p) \/ LosePod(p)
  BY <1>0, <1>13 DEF ReplacePod, LosePod, StopPod
<1> QED
  BY Zenon, <1>1, <1>2, <1>3, <1>4, <1>5, <1>6, <1>7, <1>8, <1>9, <1>10, <1>11, <1>12, <1>13

\* The steps that gather addresses, write them and start pods with them.
LEMMA AddressSteps ==
  ASSUME AInv,
         \/ ReconcileNodeService \/ StatefulSet \/ ListPods
         \/ \E p \in Pods : Starts(p)
  PROVE  (~Excused => AddressesKnown)'
<1> USE DEF Goes, Quiet, Unheard, Idles, operator, Gathered, AfterIngress
<1>0. /\ DOMAIN owned = ObjectFields /\ DOMAIN view = ViewFields /\ DOMAIN pods = Pods
      /\ DOMAIN owned.ip = Pods /\ DOMAIN view.ips = Pods /\ owned.nextIP # 0
  BY DEF AInv, NInv, ServicesKept, IInv
<1> SUFFICES ASSUME ~Excused' PROVE AddressesKnown'
  OBVIOUS
<1>e. excused' = excused
  BY DEF ReconcileNodeService, StatefulSet, ListPods, Starts
<1>k. AddressesKnown /\ ServicesMade
  BY Zenon, <1>e DEF AInv, NInv, ServicesKept, Excused, ServiceDeleted
<1>r. TemplateResolves /\ PodsResolve
  BY <1>k DEF AddressesKnown
<1>1. CASE ReconcileNodeService
  <2> DEFINE n == Min(view.todo)
  <2>1. /\ pc = "nodes" /\ pc' \in {"nodes", "config"} /\ pods' = pods
        /\ view'.spec = view.spec /\ view'.todo = view.todo \ {n}
        /\ pc' = "config" => view'.todo = {}
        /\ view.blocked => view'.blocked
        /\ view.spec.useExternal /\ ~view'.blocked => owned.ip[n] # 0
        /\ view.spec.useExternal /\ n \in Pods => view'.ips[n] = owned.ip[n]
        /\ \A q \in Pods : q # n => view'.ips[q] = view.ips[q]
    BY Zenon, <1>0, <1>1 DEF ReconcileNodeService, AddressPending, ViewFields
  <2>2. /\ owned'.sts = owned.sts /\ owned'.headless = owned.headless
        /\ \A q \in Pods : owned.ip[q] # 0 \/ q # n => owned'.ip[q] = owned.ip[q]
    BY <1>0, <1>1 DEF ReconcileNodeService, ObjectFields
  <2> HIDE DEF n
  <2>3. TemplateResolves'
    BY <1>r, <2>2, TemplateStillResolves
  <2>4. PodsResolve'
    BY <1>r, <2>1, <2>2, PodsStillResolve
  <2>5. (~view.blocked /\ view.spec.useExternal =>
           \A q \in Pods \ view.todo : view.ips[q] = owned.ip[q])'
    BY <1>k, <2>1, <2>2 DEF AddressesKnown
  <2> QED  BY <2>1, <2>3, <2>4, <2>5 DEF AddressesKnown
<1>2. CASE StatefulSet
  <2>1. /\ pc = "statefulset" /\ pc' = "ingress" /\ pods' = pods
        /\ view'.spec = view.spec /\ view'.blocked = view.blocked
        /\ owned'.headless = owned.headless /\ owned'.ip = owned.ip
        /\ view.blocked => owned'.sts = owned.sts
    BY Zenon, <1>0, <1>2 DEF StatefulSet, ObjectFields, ViewFields
  <2>2. IF UsesIndividualNodeServices(view.spec) THEN NodeServices ELSE owned.headless
    BY <1>k, <2>1 DEF ServicesMade, AfterServices
  <2>3. PodsResolve'
    BY <1>r, <2>1, PodsStillResolve
  <2>4. CASE view.blocked
    <3>1. TemplateResolves'
      BY <1>r, <2>1, <2>4, TemplateStillResolves
    <3> QED  BY <2>1, <2>3, <2>4, <3>1 DEF AddressesKnown
  <2>5. CASE ~view.blocked
    <3>1. PICK old : owned'.sts = Template(old)
      BY <1>0, <1>2, <2>5 DEF StatefulSet, ObjectFields
    <3>2. /\ owned'.sts.type = ServiceType(view.spec)
          /\ owned'.sts.external = view.spec.useExternal
          /\ \A q \in Pods : view.ips[q] # 0 => owned'.sts.aliases[q] = view.ips[q]
      <4>1. /\ Template(old).type = ServiceType(view.spec)
            /\ Template(old).external = view.spec.useExternal
        BY Zenon DEF Template
      <4>2. Template(old).aliases =
              [p \in Pods |-> IF view.ips[p] # 0 THEN view.ips[p] ELSE old.aliases[p]]
        BY DEF Template
      <4> QED  BY <3>1, <4>1, <4>2
    <3>3. UsesIndividualNodeServices(view.spec) /\ view.spec.useExternal =>
            \A q \in Pods : view.ips[q] = owned.ip[q]
      BY <1>k, <2>1, <2>5 DEF AddressesKnown
    <3>4. TemplateResolves'
      <4>1. CASE UsesIndividualNodeServices(view.spec)
        BY <2>1, <2>2, <3>2, <3>3, <4>1
        DEF TemplateResolves, Resolves, ServiceType, NodeServices
      <4>2. CASE ~UsesIndividualNodeServices(view.spec)
        BY <2>1, <2>2, <3>2, <4>2 DEF TemplateResolves, Resolves, ServiceType
      <4> QED  BY <4>1, <4>2
    <3>5. (owned.sts.type = ServiceType(view.spec))'
      BY <2>1, <3>2 DEF ServiceType, UsesIndividualNodeServices
    <3> QED  BY <2>1, <2>3, <3>4, <3>5 DEF AddressesKnown
  <2> QED  BY <2>4, <2>5
<1>3. CASE ListPods
  <2>1. /\ pc = "pods" /\ pc' = "pdb" /\ owned' = owned /\ pods' = pods
        /\ view'.spec = view.spec /\ view'.blocked = view.blocked
        /\ view'.types = {Annotation(pods[p]) : p \in Running}
    BY <1>0, <1>3 DEF ListPods, ViewFields
  <2>2. (\A p \in Running : Annotation(pods[p]) \in view.types)'
    BY <2>1 DEF Running, Annotation
  <2>3. TemplateResolves' /\ PodsResolve'
    BY <1>r, <2>1, TemplateStillResolves, PodsStillResolve
  <2>4. (~view.blocked /\ owned.sts # None => owned.sts.type = ServiceType(view.spec))'
    BY <1>k, <2>1 DEF AddressesKnown, ServiceType, UsesIndividualNodeServices
  <2> QED  BY <2>1, <2>2, <2>3, <2>4 DEF AddressesKnown
<1>4. ASSUME NEW p \in Pods, Starts(p) PROVE AddressesKnown'
  <2>1. /\ UNCHANGED <<owned, pc, view>> /\ owned.sts # None
        /\ \A q \in Pods : q # p => pods'[q] = pods[q]
    BY <1>0, <1>4 DEF Starts
  <2>2. /\ pods'[p].type = owned.sts.type /\ pods'[p].external = owned.sts.external
        /\ pods'[p].aliases = owned.sts.aliases
    BY <1>0, <1>4, <2>1
    DEF Starts, Started, AInv, NInv, IInv, TemplateCovered, TemplateFields
  <2>3. PodsResolve'
    <3> SUFFICES ASSUME NEW q \in Pods, pods'[q] # None PROVE Resolves(pods[q])'
      BY DEF PodsResolve, Running
    <3>1. CASE q = p
      BY <1>r, <2>1, <2>2, <3>1 DEF TemplateResolves, Resolves
    <3>2. CASE q # p
      <4>1. pods'[q] = pods[q] /\ Resolves(pods[q])
        BY <1>r, <2>1, <3>2 DEF PodsResolve, Running
      <4> QED  BY <2>1, <4>1 DEF Resolves
    <3> QED  BY <3>1, <3>2
  <2>4. TemplateResolves'
    BY <1>r, <2>1, TemplateStillResolves
  <2>5. (pc \in {"pdb", "cleanup"} =>
           \A q \in Running : \/ Annotation(pods[q]) \in view.types
                              \/ owned.sts # None /\ pods[q].type = owned.sts.type)'
    BY <1>k, <2>1, <2>2 DEF AddressesKnown, Running, Annotation
  <2>6. (pc \in {"ingress"} \cup AfterIngress /\ ~view.blocked /\ owned.sts # None =>
           owned.sts.type = ServiceType(view.spec))'
    BY <1>k, <2>1 DEF AddressesKnown, ServiceType, UsesIndividualNodeServices
  <2> QED  BY <1>k, <2>1, <2>3, <2>4, <2>5, <2>6 DEF AddressesKnown, UsesIndividualNodeServices
<1> QED  BY <1>1, <1>2, <1>3, <1>4

\* The clean-up removes a type of service only if no listed pod uses it, and the
\* pods started since the list come from a template of the type that stays.
LEMMA RemovalSteps ==
  ASSUME AInv, CleanupUnconfiguredServices \/ DeleteFails \/ DeleteOwned
  PROVE  (~Excused => AddressesKnown)'
<1> USE DEF Ends, Unheard, Idles, operator, Gathered, AfterIngress
<1>0. DOMAIN owned = ObjectFields
  BY DEF AInv, NInv, IInv
<1> SUFFICES ASSUME ~Excused' PROVE AddressesKnown'
  OBVIOUS
<1>1. CASE CleanupUnconfiguredServices \/ DeleteFails
  <2> DEFINE type == ServiceType(view.spec)
  <2>1. /\ pc = "cleanup" /\ pc' = "idle" /\ pods' = pods /\ owned'.sts = owned.sts
        /\ ~OldTemplateStays /\ ~Excused
    BY Zenon, <1>0, <1>1 DEF CleanupUnconfiguredServices, DeleteFails, ObjectFields, Excused
  <2>2. AddressesKnown
    BY <2>1 DEF AInv
  <2>3. CASE owned' = owned
    <3>1. TemplateResolves' /\ PodsResolve'
      BY <2>1, <2>2, <2>3, TemplateStillResolves, PodsStillResolve DEF AddressesKnown
    <3> QED  BY <2>1, <3>1 DEF AddressesKnown
  <2>4. CASE owned' # owned
    <3>1. /\ ~InTransition(view.types, view.spec)
          /\ type = "headless" => owned'.headless = owned.headless
          /\ type # "headless" => owned'.ip = owned.ip
      BY Zenon, <1>0, <1>1, <2>4
      DEF CleanupUnconfiguredServices, DeleteFails, ObjectFields, UsesHeadlessService,
          ServiceType
    <3>2. owned.sts # None => owned.sts.type = type
      BY <2>1, <2>2 DEF AddressesKnown, OldTemplateStays
    <3>3. \A p \in Running : pods[p].type = type
      <4>1. type # "none"
        BY DEF ServiceType
      <4> QED
        BY <2>1, <2>2, <3>1, <3>2, <4>1 DEF AddressesKnown, InTransition, Annotation
    <3> HIDE DEF type
    <3>4. TemplateResolves /\ PodsResolve
      BY <2>2 DEF AddressesKnown
    <3>5. TemplateResolves'
      BY <2>1, <3>1, <3>2, <3>4 DEF TemplateResolves, Resolves
    <3>6. PodsResolve'
      <4> SUFFICES ASSUME NEW p \in Pods, pods'[p] # None PROVE Resolves(pods[p])'
        BY DEF PodsResolve, Running
      <4>1. pods'[p] = pods[p] /\ Resolves(pods[p]) /\ pods[p].type = type
        BY <2>1, <3>3, <3>4 DEF PodsResolve, Running
      <4> QED  BY <3>1, <4>1 DEF Resolves
    <3> QED  BY <2>1, <3>5, <3>6 DEF AddressesKnown
  <2> QED  BY <2>3, <2>4
<1>2. CASE DeleteOwned
  <2>1. /\ UNCHANGED <<pc, view, pods>> /\ (Excused => Excused')
        /\ owned'.sts = owned.sts /\ owned'.ip = owned.ip
        /\ owned'.headless = owned.headless
    BY Zenon, <1>0, <1>2 DEF DeleteOwned, ObjectFields, Excused
  <2> QED  BY <2>1, OtherThanAddresses
<1> QED  BY <1>1, <1>2

\* Every pod that runs can be reached where it says it can, for every number of
\* pods and every sequence of changes of the specification: reconcileNodeService
\* makes the StatefulSet wait for addresses it does not know yet, and
\* cleanupUnconfiguredServices for the pods that use the other type of service.
\* The list of pods it goes by may be out of date, which does no harm unless an
\* old template stayed behind.
THEOREM AdvertisedPodsAreReachable == Spec => []AdvertisedAddressResolves
<1>1. Init => AInv
  <2> SUFFICES ASSUME Init PROVE AddressesKnown
    BY ServicesInit DEF AInv
  <2>1. pc = "idle"
    BY DEF Init
  <2>2. CASE owned = Objects(FALSE, 0, None) /\ pods = [p \in Pods |-> None]
    <3>1. owned.sts = None /\ Running = {}
      BY <2>2 DEF Objects, Running
    <3> QED
      BY <2>1, <3>1 DEF AddressesKnown, TemplateResolves, PodsResolve, Gathered, AfterIngress
  <2>3. CASE /\ owned = Objects(TRUE, cloud.xml, OldTemplate(cloud))
             /\ pods = [p \in Pods |-> Started(OldTemplate(cloud), cloud.xml, 0)]
    <3>1. owned.headless /\ owned.sts.type = "headless"
      BY <2>3 DEF Objects, OldTemplate
    <3>2. \A p \in Pods : pods[p].type = "headless"
      BY <2>3 DEF OldTemplate, Started
    <3>3. TemplateResolves /\ PodsResolve
      BY <3>1, <3>2 DEF TemplateResolves, PodsResolve, Resolves, Running
    <3> QED  BY <2>1, <3>3 DEF AddressesKnown, Gathered, AfterIngress
  <2> QED  BY <2>2, <2>3 DEF Init
<1>2. AInv /\ [Next]_vars => AInv'
  <2> SUFFICES ASSUME AInv, [Next]_vars PROVE (~Excused => AddressesKnown)'
    BY ServicesNext DEF AInv
  <2>1. CASE UNCHANGED vars
    BY <2>1, OtherThanAddresses DEF vars, Excused
  <2> QED
    BY <2>1, StepsOtherThanAddresses, AddressSteps, RemovalSteps
    DEF Next, Reconcile, StartPod, StartPodWithoutPut
<1>3. AInv => AdvertisedAddressResolves
  BY Zenon DEF AInv, AddressesKnown, PodsResolve, AdvertisedAddressResolves, Excused, Resolves,
         Running
<1> QED  BY <1>1, <1>2, <1>3, PTL DEF Spec


-----------------------------------------------------------------------------
(* Types, and the specification that the objects are written from.         *)

\* What the steps of the reconciliation read and write.
ObjectsTyped ==
  /\ owned.ip \in [Pods -> Nat] /\ owned.nextIP \in Nat /\ owned.bootstrap \in BOOLEAN
  /\ owned.sts \in Templates \cup {None}
  /\ owned.ingress \in (SUBSET (Pods \cup {CommonServiceName})) \cup {None}

ViewTyped ==
  /\ view.spec \in Specs \cup {None}
  /\ view.ips \in [Pods -> Nat] /\ view.xml \in Nat /\ view.cert \in Nat /\ view.wait \in Nat
  /\ view.json \in BOOLEAN

StepTyped == pc \in Steps /\ (pc \notin {"idle", "defaults"} => view.spec.complete)
ClockTyped == timer \in Nat /\ now \in 1..MaxTime

\* The inductive invariant.
TInv == IInv /\ ObjectsTyped /\ ViewTyped /\ StepTyped /\ ClockTyped

LEMMA TypesInit == Init => TInv
<1> SUFFICES ASSUME Init PROVE TInv
  OBVIOUS
<1>1. IInv
  BY ContentInit
<1>2. ObjectsTyped
  <2>1. /\ owned.ip = NoIP /\ owned.nextIP = 1 /\ owned.bootstrap = FALSE
        /\ owned.ingress = None
        /\ \/ owned.sts = None
           \/ owned.sts = OldTemplate(cloud) /\ cloud \in Upgraded
    BY InitialObjects
  <2>2. NoIP \in [Pods -> Nat]
    BY DEF NoIP
  <2>3. 1 \in Nat
    OBVIOUS
  <2>4. /\ FALSE \in BOOLEAN /\ None \in Templates \cup {None}
        /\ None \in (SUBSET (Pods \cup {CommonServiceName})) \cup {None}
    BY Zenon
  <2>5. cloud \in Upgraded => OldTemplate(cloud) \in Templates
    <3> SUFFICES ASSUME cloud \in Upgraded PROVE OldTemplate(cloud) \in Templates
      OBVIOUS
    <3>1. cloud.xml \in Nat
      BY ObjectsAssumption DEF Specs
    <3> QED  BY <2>2, <3>1 DEF OldTemplate, Templates
  <2>6. owned.sts \in Templates \cup {None}
    BY Zenon, <2>1, <2>4, <2>5
  <2> QED BY Zenon, <2>1, <2>2, <2>3, <2>4, <2>6 DEF ObjectsTyped
<1>3. ViewTyped /\ StepTyped
  BY DEF Init, ViewTyped, StepTyped, NoView, NoIP, Steps
<1>4. ClockTyped
  BY ObjectsAssumption DEF Init, ClockTyped
<1> QED BY <1>1, <1>2, <1>3, <1>4 DEF TInv

\* A reconciliation that is over holds nothing of another type.
LEMMA NoViewTyped ==
  ASSUME view' = NoView
  PROVE  ViewTyped'
BY DEF ViewTyped, NoView, NoIP

\* The annotation and the delay are times.
LEMMA ScheduleType ==
  ASSUME now \in Nat, NEW schedule, NEW annotation \in Nat
  PROVE  /\ ScheduleNextRestart(schedule, annotation).next \in Nat
         /\ ScheduleNextRestart(schedule, annotation).wait \in Nat
BY DEF ScheduleNextRestart, NoSchedule

\* The template is one, whatever the old one held.
LEMMA TemplateType ==
  ASSUME now \in Nat, view.spec \in Specs, ViewTyped,
         NEW old, old.aliases \in [Pods -> Nat], old.cert \in Nat, old.restart \in Nat
  PROVE  Template(old) \in Templates
<1> DEFINE next == ScheduleNextRestart(view.spec.schedule, old.restart).next
           aliases == [p \in Pods |-> IF view.ips[p] # 0 THEN view.ips[p] ELSE old.aliases[p]]
           cert == IF view.cert # 0 THEN view.cert ELSE old.cert
           restart == IF next # 0 THEN next ELSE old.restart
           tls == view.spec.tls = "server"
           type == ServiceType(view.spec)
           external == view.spec.useExternal
           source == view.spec.config
           security == view.spec.security
           xml == view.xml
           json == view.json
<1>1. next \in Nat
  BY ScheduleType
<1>2. aliases \in [Pods -> Nat] /\ cert \in Nat /\ tls \in BOOLEAN
  BY DEF ViewTyped
<1>3. restart \in Nat
  <2> HIDE DEF next
  <2> QED BY <1>1
<1>4. /\ type \in {"headless", "node"}
      /\ external \in BOOLEAN /\ source \in {"generated", "provided"}
      /\ security \in {"none", "bootstrap", "user"}
      /\ xml \in Nat /\ json \in BOOLEAN
  BY DEF ServiceType, Specs, ViewTyped
<1>5. Template(old) = [type |-> type, annotated |-> TRUE, external |-> external,
                       aliases |-> aliases, source |-> source, xml |-> xml,
                       security |-> security, json |-> json, tls |-> tls,
                       cert |-> cert, restart |-> restart]
  BY Zenon DEF Template
<1> HIDE DEF aliases, cert, restart, tls, type, external, source, security, xml, json
<1>6. [type |-> type, annotated |-> TRUE, external |-> external,
       aliases |-> aliases, source |-> source, xml |-> xml,
       security |-> security, json |-> json, tls |-> tls,
       cert |-> cert, restart |-> restart] \in Templates
  BY ONLY <1>2, <1>3, <1>4 DEF Templates
<1> QED BY ONLY <1>5, <1>6, Zenon

\* Steps of the reconciliation that write services, secrets or the Ingress.
LEMMA ObjectsStayTyped ==
  ASSUME TInv, \/ ReconcileZk \/ CommonService \/ ReconcileNodeService \/ HeadlessService
               \/ ConfigMap \/ ReconcileSecurity \/ BootstrapSecret \/ ReconcileTLS
               \/ Ingress \/ ListPods \/ PodDisruptionBudget
               \/ CleanupUnconfiguredServices \/ Fails \/ DeleteFails \/ DeleteOwned
               \/ OverlookIngress \/ StatusDisagrees
  PROVE  ObjectsTyped'
<1> USE DEF Goes, Ends
<1>0. DOMAIN owned = ObjectFields
  BY Zenon DEF TInv, IInv
<1>1. /\ owned.ip \in [Pods -> Nat] /\ owned.nextIP \in Nat /\ owned.bootstrap \in BOOLEAN
      /\ owned.sts \in Templates \cup {None}
      /\ owned.ingress \in (SUBSET (Pods \cup {CommonServiceName})) \cup {None}
  BY DEF TInv, ObjectsTyped
<1>2. ASSUME owned'.ip \in [Pods -> Nat], owned'.nextIP \in Nat,
             owned'.bootstrap \in {owned.bootstrap, TRUE, FALSE}, owned'.sts = owned.sts,
             \/ owned'.ingress = owned.ingress
             \/ owned'.ingress \in {CreateSolrIngressRules(view.spec), None}
      PROVE  ObjectsTyped'
  <2> DEFINE rules == (SUBSET (Pods \cup {CommonServiceName})) \cup {None}
  <2>1. CreateSolrIngressRules(view.spec) \in rules /\ None \in rules
    <3>1. CreateSolrIngressRules(view.spec) \in SUBSET (Pods \cup {CommonServiceName})
      BY DEF CreateSolrIngressRules
    <3> QED BY Zenon, <3>1
  <2>2. owned'.ingress \in rules
    <3>1. owned.ingress \in rules
      BY <1>1
    <3> HIDE DEF rules
    <3> QED BY Zenon, <1>2, <2>1, <3>1
  <2>3. owned'.bootstrap \in BOOLEAN
    BY Zenon, <1>1, <1>2
  <2> QED BY Zenon, <1>1, <1>2, <2>2, <2>3 DEF ObjectsTyped
<1>3. ASSUME owned'.ip = owned.ip, owned'.nextIP = owned.nextIP,
             owned'.bootstrap \in {owned.bootstrap, TRUE, FALSE}, owned'.sts = owned.sts,
             \/ owned'.ingress = owned.ingress
             \/ owned'.ingress \in {CreateSolrIngressRules(view.spec), None}
      PROVE  ObjectsTyped'
  BY Zenon, <1>1, <1>2, <1>3
<1>4. CASE ReconcileZk \/ CommonService \/ HeadlessService \/ ConfigMap
  BY Zenon, <1>0, <1>4, <1>3 DEF ReconcileZk, CommonService, HeadlessService, ConfigMap, ObjectFields
<1>5. CASE ReconcileNodeService
  <2> DEFINE p == Min(view.todo)
  <2>1. \/ owned' = owned
        \/ owned' = [owned EXCEPT !.ip[p] = owned.nextIP, !.nextIP = @ + 1]
    BY Zenon, <1>5 DEF ReconcileNodeService
  <2> HIDE DEF p
  <2>2. /\ owned'.sts = owned.sts /\ owned'.bootstrap = owned.bootstrap
        /\ owned'.ingress = owned.ingress
        /\ \/ owned'.ip = owned.ip /\ owned'.nextIP = owned.nextIP
           \/ /\ owned'.ip = [owned.ip EXCEPT ![p] = owned.nextIP]
              /\ owned'.nextIP = owned.nextIP + 1
    BY Zenon, <1>0, <2>1 DEF ObjectFields
  <2>3. owned'.ip \in [Pods -> Nat] /\ owned'.nextIP \in Nat
    BY <1>1, <2>2
  <2> QED BY <1>2, <2>2, <2>3
<1>6. CASE ReconcileSecurity
  <2>1. view.spec.security \in {"none", "bootstrap", "user"}
    BY <1>6 DEF ReconcileSecurity, TInv, IInv, Specs
  <2> QED BY Zenon, <1>0, <1>3, <1>6, <2>1 DEF ReconcileSecurity, ObjectFields
<1>7. CASE BootstrapSecret \/ ReconcileTLS \/ ListPods \/ PodDisruptionBudget
  BY Zenon, <1>0, <1>3, <1>7 DEF BootstrapSecret, ReconcileTLS, ListPods, PodDisruptionBudget, ObjectFields
<1>8. CASE Ingress \/ OverlookIngress
  BY Zenon, <1>0, <1>3, <1>8 DEF Ingress, OverlookIngress, GoesOnAfterIngress, ObjectFields
<1>9. CASE CleanupUnconfiguredServices \/ DeleteFails
  <2>1. /\ owned'.sts = owned.sts /\ owned'.bootstrap = owned.bootstrap
        /\ owned'.ingress = owned.ingress /\ owned'.nextIP = owned.nextIP
        /\ \/ owned'.ip = owned.ip
           \/ owned'.ip = NoIP
           \/ \E p \in Pods : owned'.ip = [NoIP EXCEPT ![p] = owned.ip[p]]
    BY Zenon, <1>0, <1>9 DEF CleanupUnconfiguredServices, DeleteFails, ObjectFields
  <2>2. /\ NoIP \in [Pods -> Nat]
        /\ \A p \in Pods : [NoIP EXCEPT ![p] = owned.ip[p]] \in [Pods -> Nat]
    BY <1>1 DEF NoIP
  <2> QED BY Zenon, <1>1, <1>2, <2>1, <2>2
<1>10. CASE Fails \/ StatusDisagrees
  BY Zenon, <1>3, <1>10 DEF Fails, StatusDisagrees
<1>11. CASE DeleteOwned
  <2>1. /\ owned'.sts = owned.sts /\ owned'.ingress = owned.ingress
        /\ owned'.nextIP = owned.nextIP
        /\ owned'.bootstrap \in {owned.bootstrap, TRUE, FALSE}
        /\ \/ owned'.ip = owned.ip
           \/ \E p \in Pods : owned'.ip = [owned.ip EXCEPT ![p] = 0]
    BY Zenon, <1>0, <1>11 DEF DeleteOwned, ObjectFields
  <2>2. \A p \in Pods : [owned.ip EXCEPT ![p] = 0] \in [Pods -> Nat]
    BY <1>1
  <2> QED BY Zenon, <1>1, <1>2, <2>1, <2>2
<1> QED BY <1>4, <1>5, <1>6, <1>7, <1>8, <1>9, <1>10, <1>11

\* What the reconciliation gathers has its type.
LEMMA ViewStaysTyped ==
  ASSUME TInv, \/ Start \/ Defaults \/ ReconcileZk \/ CommonService \/ ReconcileNodeService
               \/ HeadlessService \/ ConfigMap \/ ReconcileSecurity \/ BootstrapSecret
               \/ ReconcileTLS \/ Ingress \/ ListPods \/ PodDisruptionBudget
               \/ CleanupUnconfiguredServices \/ Fails \/ DeleteFails
               \/ OverlookIngress \/ StatusDisagrees
  PROVE  ViewTyped'
<1> USE DEF Goes, Ends
<1>0. DOMAIN view = ViewFields
  BY DEF TInv, IInv
<1>1. /\ view.spec \in Specs \cup {None} /\ view.ips \in [Pods -> Nat]
      /\ view.xml \in Nat /\ view.cert \in Nat /\ view.wait \in Nat /\ view.json \in BOOLEAN
  BY DEF TInv, ViewTyped
<1>2. /\ provided.configMap \in Nat /\ provided.tls \in Nat /\ cloud \in Specs
      /\ owned.bootstrap \in BOOLEAN /\ owned.ip \in [Pods -> Nat]
      /\ pc # "idle" => view.spec.xml \in Nat /\ view.spec.security \in {"none", "bootstrap", "user"}
  BY DEF TInv, IInv, Version, Specs, ObjectsTyped
<1>3. ASSUME view'.spec = view.spec, view'.ips \in [Pods -> Nat], view'.xml \in Nat,
             view'.cert \in Nat, view'.wait = view.wait, view'.json \in BOOLEAN
      PROVE  ViewTyped'
  BY Zenon, <1>1, <1>3 DEF ViewTyped
<1>4. CASE view' = NoView
  BY <1>4, NoViewTyped
<1>5. CASE Start
  <2>1. view' = [NoView EXCEPT !.spec = cloud, !.todo = Pods]
    BY Zenon, <1>5 DEF Start
  <2>2. /\ view'.spec = cloud /\ view'.ips = NoIP /\ view'.xml = 0 /\ view'.cert = 0
        /\ view'.wait = 0 /\ view'.json = FALSE
    BY <2>1 DEF NoView
  <2>3. NoIP \in [Pods -> Nat] /\ 0 \in Nat /\ FALSE \in BOOLEAN /\ cloud \in Specs \cup {None}
    BY <1>2 DEF NoIP
  <2> QED BY Zenon, <2>2, <2>3 DEF ViewTyped
<1>6. CASE view' = view
  BY <1>1, <1>3, <1>6
<1>7. CASE ReconcileNodeService
  <2> DEFINE p == Min(view.todo)
             ip == IF view.spec.useExternal THEN owned.ip[p] ELSE 0
             todo == view.todo \ {p}
             blocked == view.blocked \/ AddressPending(p)
  <2>1. view' = [view EXCEPT !.todo = todo, !.ips[p] = ip, !.blocked = blocked]
    BY <1>7 DEF ReconcileNodeService
  <2>2. p \in Pods => ip \in Nat
    BY <1>2
  <2> HIDE DEF p, ip, todo, blocked
  <2>3. /\ view'.spec = view.spec /\ view'.ips = [view.ips EXCEPT ![p] = ip]
        /\ view'.xml = view.xml /\ view'.cert = view.cert /\ view'.wait = view.wait
        /\ view'.json = view.json
    BY <1>0, <2>1 DEF ViewFields
  <2>4. [view.ips EXCEPT ![p] = ip] \in [Pods -> Nat]
    BY Zenon, <1>1, <2>2
  <2> QED BY Zenon, <1>1, <1>3, <2>3, <2>4
<1>8. CASE ConfigMap
  <2>1. \/ view' = NoView
        \/ \E v \in Nat : view' = [view EXCEPT !.xml = v]
    BY <1>2, <1>8 DEF ConfigMap
  <2>2. ASSUME NEW v \in Nat, view' = [view EXCEPT !.xml = v]
        PROVE  ViewTyped'
    <3>1. /\ view'.spec = view.spec /\ view'.ips = view.ips /\ view'.xml = v
          /\ view'.cert = view.cert /\ view'.wait = view.wait /\ view'.json = view.json
      BY <1>0, <2>2 DEF ViewFields
    <3> QED BY Zenon, <1>1, <1>3, <3>1
  <2> QED BY Zenon, <1>4, <2>1, <2>2
<1>9. CASE ReconcileSecurity \/ BootstrapSecret
  <2>1. \/ view' = NoView \/ view' = view
        \/ \E b \in BOOLEAN : view' = [view EXCEPT !.json = b]
    BY Zenon, <1>2, <1>9 DEF ReconcileSecurity, BootstrapSecret, BootstrapSecretFound
  <2>2. ASSUME NEW b \in BOOLEAN, view' = [view EXCEPT !.json = b]
        PROVE  ViewTyped'
    <3>1. /\ view'.spec = view.spec /\ view'.ips = view.ips /\ view'.xml = view.xml
          /\ view'.cert = view.cert /\ view'.wait = view.wait /\ view'.json = b
      BY <1>0, <2>2 DEF ViewFields
    <3> QED BY Zenon, <1>1, <1>3, <3>1
  <2> QED BY Zenon, <1>4, <1>6, <2>1, <2>2
<1>10. CASE ReconcileTLS
  <2>1. \/ view' = NoView
        \/ \E b, c : c \in Nat /\ view' = [view EXCEPT !.blocked = b, !.cert = c]
    BY Zenon, <1>2, <1>10 DEF ReconcileTLS, CertMd5
  <2>2. ASSUME NEW b, NEW c \in Nat, view' = [view EXCEPT !.blocked = b, !.cert = c]
        PROVE  ViewTyped'
    <3>1. /\ view'.spec = view.spec /\ view'.ips = view.ips /\ view'.xml = view.xml
          /\ view'.cert = c /\ view'.wait = view.wait /\ view'.json = view.json
      BY <1>0, <2>2 DEF ViewFields
    <3> QED BY Zenon, <1>1, <1>3, <3>1
  <2> QED BY Zenon, <1>4, <2>1, <2>2
<1>11. CASE ListPods
  <2>1. /\ view'.spec = view.spec /\ view'.ips = view.ips /\ view'.xml = view.xml
        /\ view'.cert = view.cert /\ view'.wait = view.wait /\ view'.json = view.json
    BY <1>0, <1>11 DEF ListPods, ViewFields
  <2> QED BY Zenon, <1>1, <1>3, <2>1
<1>12. CASE \/ Defaults \/ ReconcileZk \/ CommonService \/ HeadlessService \/ Ingress
            \/ PodDisruptionBudget \/ CleanupUnconfiguredServices \/ Fails \/ DeleteFails
            \/ OverlookIngress \/ StatusDisagrees
  <2>1. view' = view \/ view' = NoView
    BY Zenon, <1>12 DEF Defaults, ReconcileZk, CommonService, HeadlessService, Ingress,
                        PodDisruptionBudget, CleanupUnconfiguredServices, Fails, DeleteFails,
                        OverlookIngress, GoesOnAfterIngress, StatusDisagrees
  <2> QED BY Zenon, <1>4, <1>6, <2>1
<1> QED BY Zenon, <1>5, <1>7, <1>8, <1>9, <1>10, <1>11, <1>12

\* The StatefulSet gets a template, and the reconciliation a delay.
LEMMA TemplateIsTyped ==
  ASSUME TInv, StatefulSet
  PROVE  ObjectsTyped' /\ ViewTyped'
<1> DEFINE old == IF owned.sts = None THEN NoTemplate ELSE owned.sts
           wait == ScheduleNextRestart(view.spec.schedule, old.restart).wait
           found == owned.sts # None
<1>0. DOMAIN owned = ObjectFields /\ DOMAIN view = ViewFields
  BY DEF TInv, IInv
<1>1. /\ owned.ip \in [Pods -> Nat] /\ owned.nextIP \in Nat /\ owned.bootstrap \in BOOLEAN
      /\ owned.sts \in Templates \cup {None}
      /\ owned.ingress \in (SUBSET (Pods \cup {CommonServiceName})) \cup {None}
  BY DEF TInv, ObjectsTyped
<1>2. /\ view.spec \in Specs \cup {None} /\ view.ips \in [Pods -> Nat]
      /\ view.xml \in Nat /\ view.cert \in Nat /\ view.wait \in Nat /\ view.json \in BOOLEAN
  BY DEF TInv, ViewTyped
<1>3. pc = "statefulset" /\ view.spec \in Specs /\ now \in Nat
  BY DEF StatefulSet, TInv, IInv, ClockTyped
<1>4. old.aliases \in [Pods -> Nat] /\ old.cert \in Nat /\ old.restart \in Nat
  <2>1. CASE owned.sts = None
    <3>1. NoTemplate.aliases = NoIP /\ NoTemplate.cert = 0 /\ NoTemplate.restart = 0
      BY DEF NoTemplate
    <3>2. NoIP \in [Pods -> Nat]
      BY DEF NoIP
    <3> QED BY <2>1, <3>1, <3>2
  <2>2. CASE owned.sts # None
    <3>1. owned.sts \in Templates
      BY Zenon, <1>1, <2>2
    <3> QED BY <2>2, <3>1 DEF Templates
  <2> QED BY <2>1, <2>2
<1>5. \/ owned' = owned /\ view' = [view EXCEPT !.found = found]
      \/ /\ owned' = [owned EXCEPT !.sts = Template(old)]
         /\ view' = [view EXCEPT !.found = found, !.wait = wait]
  BY DEF StatefulSet, Goes
<1> HIDE DEF old, found
<1>6. wait \in Nat
  BY <1>3, <1>4, ScheduleType
<1> HIDE DEF wait
<1>7. Template(old) \in Templates
  BY <1>3, <1>4, TemplateType DEF TInv
<1>8. ObjectsTyped'
  <2>1. /\ owned'.ip = owned.ip /\ owned'.nextIP = owned.nextIP
        /\ owned'.bootstrap = owned.bootstrap /\ owned'.ingress = owned.ingress
        /\ owned'.sts = owned.sts \/ owned'.sts = Template(old)
    BY <1>0, <1>5 DEF ObjectFields
  <2> QED BY Zenon, <1>1, <1>7, <2>1 DEF ObjectsTyped
<1>9. ViewTyped'
  <2>1. /\ view'.spec = view.spec /\ view'.ips = view.ips /\ view'.xml = view.xml
        /\ view'.cert = view.cert /\ view'.json = view.json
        /\ view'.wait = view.wait \/ view'.wait = wait
    BY Zenon, <1>0, <1>5 DEF ViewFields
  <2> QED BY Zenon, <1>2, <1>6, <2>1 DEF ViewTyped
<1> QED BY <1>8, <1>9

\* The reconciliation goes on only with a specification that has its defaults.
LEMMA StepsStayTyped ==
  ASSUME TInv, Reconcile \/ Fails \/ DeleteFails \/ OverlookIngress \/ StatusDisagrees
  PROVE  StepTyped' /\ ClockTyped'
<1> USE DEF Goes, Ends, Quiet, Unheard, Steps
<1>0. DOMAIN view = ViewFields /\ (pc \notin {"idle", "defaults"} => view.spec.complete)
  BY DEF TInv, IInv, StepTyped
<1>1. timer \in Nat /\ now \in 1..MaxTime /\ view.wait \in Nat
  BY DEF TInv, ClockTyped, ViewTyped
<1>2. ASSUME \/ pc' \in {"idle", "defaults"}
             \/ pc' \in Steps /\ pc \notin {"idle", "defaults"} /\ view'.spec = view.spec
      PROVE  StepTyped'
  BY <1>0, <1>2 DEF StepTyped
<1>3. ASSUME timer' = timer \/ timer' = view.wait, now' = now
      PROVE  ClockTyped'
  BY <1>1, <1>3 DEF ClockTyped
<1>4. CASE Start \/ Fails \/ DeleteFails \/ StatusDisagrees
  BY Zenon, <1>2, <1>3, <1>4 DEF Start, Fails, DeleteFails, StatusDisagrees
<1>5. CASE Defaults
  <2>1. CASE DefaultsMissing(view.spec)
    BY <1>2, <1>3, <1>5, <2>1 DEF Defaults
  <2>2. CASE ~DefaultsMissing(view.spec)
    <3>1. pc = "defaults" /\ pc' = "zk" /\ view' = view /\ timer' = timer /\ now' = now
      BY <1>5, <2>2 DEF Defaults
    <3>2. view.spec \in Specs /\ WithDefaults(view.spec) = view.spec
      BY <2>2, <3>1 DEF TInv, IInv, DefaultsMissing
    <3>3. view.spec.complete
      BY Zenon, <3>2 DEF WithDefaults, Specs
    <3> QED BY <1>3, <3>1, <3>3 DEF StepTyped
  <2> QED BY <2>1, <2>2
<1>6. CASE ReconcileZk \/ CommonService \/ HeadlessService \/ ConfigMap
  BY <1>0, <1>2, <1>3, <1>6
  DEF ReconcileZk, CommonService, HeadlessService, ConfigMap, ViewFields
<1>7. CASE ReconcileNodeService
  BY <1>0, <1>2, <1>3, <1>7 DEF ReconcileNodeService, ViewFields
<1>8. CASE ReconcileSecurity
  <2>1. view.spec.security \in {"none", "bootstrap", "user"}
    BY <1>8 DEF ReconcileSecurity, TInv, IInv, Specs
  <2> QED BY Zenon, <1>0, <1>2, <1>3, <1>8, <2>1 DEF ReconcileSecurity, ViewFields
<1>9. CASE BootstrapSecret \/ ReconcileTLS
  BY Zenon, <1>0, <1>2, <1>3, <1>9 DEF BootstrapSecret, ReconcileTLS, ViewFields
<1>10. CASE StatefulSet \/ Ingress \/ OverlookIngress
  BY Zenon, <1>0, <1>2, <1>3, <1>10
  DEF StatefulSet, Ingress, OverlookIngress, GoesOnAfterIngress, ViewFields
<1>11. CASE ListPods \/ PodDisruptionBudget \/ CleanupUnconfiguredServices
  BY Zenon, <1>0, <1>2, <1>3, <1>11
  DEF ListPods, PodDisruptionBudget, CleanupUnconfiguredServices, ViewFields
<1> QED BY <1>4, <1>5, <1>6, <1>7, <1>8, <1>9, <1>10, <1>11 DEF Reconcile

LEMMA TypesNext == TInv /\ [Next]_vars => TInv'
<1> SUFFICES ASSUME TInv, [Next]_vars PROVE TInv'
  OBVIOUS
<1>1. IInv'
  BY ContentNext DEF TInv
<1>2. CASE Reconcile \/ Fails \/ DeleteFails \/ OverlookIngress \/ StatusDisagrees
  <2>1. StepTyped' /\ ClockTyped'
    BY Zenon, <1>2, StepsStayTyped
  <2>2. CASE Start \/ Defaults
    <3>1. owned' = owned
      BY <2>2 DEF Start, Defaults, Goes, Ends
    <3>2. ObjectsTyped'
      BY Zenon, <3>1 DEF TInv, ObjectsTyped
    <3> QED BY Zenon, <1>1, <2>1, <2>2, <3>2, ViewStaysTyped DEF TInv
  <2>3. CASE StatefulSet
    BY Zenon, <1>1, <2>1, <2>3, TemplateIsTyped DEF TInv
  <2> QED
    BY Zenon, <1>1, <1>2, <2>1, <2>2, <2>3, ObjectsStayTyped, ViewStaysTyped DEF TInv, Reconcile
<1>3. ASSUME UNCHANGED <<pc, view>>, ObjectsTyped', ClockTyped'
      PROVE  TInv'
  BY Zenon, <1>1, <1>3 DEF TInv, ViewTyped, StepTyped
<1>4. CASE DeleteOwned
  <2>1. UNCHANGED <<pc, view>> /\ UNCHANGED <<timer, now>>
    BY Zenon, <1>4 DEF DeleteOwned, Idles, operator
  <2>2. ClockTyped'
    BY Zenon, <2>1 DEF TInv, ClockTyped
  <2> QED BY Zenon, <1>3, <1>4, <2>1, <2>2, ObjectsStayTyped
<1>5. CASE \/ EditCloud \/ EditProvided \/ TimePasses \/ TimerFires \/ UNCHANGED vars
           \/ \E p \in Pods : Starts(p) \/ ReplacePod(p) \/ LosePod(p)
  <2>1. /\ UNCHANGED <<pc, view>> /\ owned' = owned
        /\ timer' \in {timer, 0}
        /\ now' = now \/ (now < MaxTime /\ now' = now + 1)
    BY Zenon, <1>5 DEF EditCloud, EditProvided, TimePasses, TimerFires, vars, Starts, ReplacePod, LosePod,
                StopPod, Idles, operator
  <2>2. ObjectsTyped'
    BY Zenon, <2>1 DEF TInv, ObjectsTyped
  <2>3. ClockTyped'
    BY <2>1, ObjectsAssumption DEF TInv, ClockTyped
  <2> QED BY Zenon, <1>3, <2>1, <2>2, <2>3
<1> QED BY Zenon, <1>2, <1>4, <1>5 DEF Next, StartPod, StartPodWithoutPut

\* The objects, the reconciliation and the clock have their types, through every
\* edit and failure; and after the first steps of Reconcile, StatefulSet and
\* services are only ever made from a specification in which withDefaults finds
\* nothing left to fill in.
THEOREM TypeCorrectness == Spec => []TypeOK
<1>1. TInv => TypeOK
  <2> SUFFICES ASSUME TInv PROVE TypeOK
    OBVIOUS
  <2>1. provided \in [{"configMap", "tls", "credentials"} -> Nat]
    BY DEF TInv, IInv, Version
  <2> QED
    BY Zenon, <2>1 DEF TInv, IInv, ObjectsTyped, ViewTyped, StepTyped, ClockTyped, TypeOK
<1> QED  BY TypesInit, TypesNext, <1>1, PTL DEF Spec
=============================================================================
