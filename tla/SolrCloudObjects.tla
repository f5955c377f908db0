-------------------------- MODULE SolrCloudObjects --------------------------
(***************************************************************************)
(* One SolrCloud from its specification to its pods: the SolrCloud         *)
(* reconciler walks through ZooKeeper, the services, the ConfigMap, the    *)
(* security secrets, TLS, the StatefulSet, the Ingress, the disruption     *)
(* budget and the removal of services, one API call after the other, from  *)
(* a specification it read at the beginning.  Meanwhile users edit the     *)
(* SolrCloud and what it refers to, calls fail, and pods are started from  *)
(* whatever the StatefulSet and the ConfigMap hold at that moment.         *)
(*                                                                         *)
(* How one object is compared and updated is in OwnedObjects, what the pod *)
(* template holds in PodTemplate, which pods are replaced when in          *)
(* RollingUpdate, the number of pods in ManagedScaling; here an object is  *)
(* what the rest of the reconciliation can tell apart.                     *)
(***************************************************************************)
EXTENDS Integers, FiniteSetsExt

CONSTANTS
  Pods,        \* the pods of the StatefulSet, 0..n
  Families,    \* sets of specifications between which a user may change
  Upgraded,    \* specifications whose pods an older version of the operator started
  MaxEdits,    \* bound on what users and outsiders do
  MaxFaults,   \* bound on failed API calls and lost pods
  MaxTime,     \* bound on the clock
  None

VARIABLES
  cloud,       \* the specification of the SolrCloud
  provided,    \* versions of what the user provides: ConfigMap, secrets (0: missing)
  owned,       \* the objects the operator writes
  pods,        \* the running pods: the template of each and what it read at its start
  zkJson,      \* is there a security.json in ZooKeeper?
  pc, view,    \* the reconciliation: the next call, and what it has gathered
  awake,       \* a request for the SolrCloud is in the work queue
  timer,       \* when the work queue delivers the next delayed request (0: never)
  now,
  edits, faults,
  excused      \* named events that some property excepts

vars == <<cloud, provided, owned, pods, zkJson, pc, view, awake, timer, now,
          edits, faults, excused>>

operator == <<pc, view>>

Methods == {"none", "Ingress", "LoadBalancer", "ExternalDNS"}

Specs ==
  [complete : BOOLEAN, zk : {"none", "hostless", "info", "provided"},
   method : Methods, hideCommon : BOOLEAN, hideNodes : BOOLEAN, useExternal : BOOLEAN,
   config : {"generated", "provided"}, xml : Nat,
   security : {"none", "bootstrap", "user"}, tls : {"none", "server", "clientOnly"},
   restartOnTLS : BOOLEAN, schedule : {"none", "cron", "invalid"}, pdb : BOOLEAN]

ASSUME ObjectsAssumption ==
  /\ Pods # {} /\ Pods \subseteq Nat
  /\ \A F \in Families : F \subseteq Specs
  /\ \A spec \in Upgraded : /\ spec \in Specs /\ spec.method = "none"
                            /\ spec.config = "generated" /\ spec.xml # 0
                            /\ spec.security = "none" /\ spec.tls = "none"
  /\ MaxEdits \in Nat /\ MaxFaults \in Nat /\ MaxTime \in Nat \ {0}

Steps ==
  {"idle", "defaults", "zk", "common", "nodes", "headless", "config", "security",
   "bootstrap", "tls", "statefulset", "ingress", "pods", "pdb", "cleanup"}

Templates ==
  [type : {"headless", "node"}, annotated : BOOLEAN, external : BOOLEAN,
   aliases : [Pods -> Nat],
   source : {"generated", "provided"}, xml : Nat,
   security : {"none", "bootstrap", "user"}, json : BOOLEAN,
   tls : BOOLEAN, cert : Nat, restart : Nat]

-----------------------------------------------------------------------------
(* What the specification asks for: solrcloud_types.go and the generators. *)

UsesIndividualNodeServices(spec) ==
  ~spec.hideNodes /\ spec.method \in {"Ingress", "LoadBalancer"}

UsesHeadlessService(spec) == ~UsesIndividualNodeServices(spec)

ServiceType(spec) == IF UsesIndividualNodeServices(spec) THEN "node" ELSE "headless"

\* The external address cannot be advertised when the nodes are hidden (nor when
\* the Ingress terminates TLS, which is left out).
WithDefaults(spec) ==
  [spec EXCEPT !.complete = TRUE, !.useExternal = @ /\ ~spec.hideNodes]

\* Mutant: what was filled in is not reported as a change.
DefaultsMissingMutant(spec) == FALSE

DefaultsMissing(spec) == WithDefaults(spec) # spec

\* The service for the whole cloud, beside those named after the pods.
CommonServiceName == -1

\* Mutant: node rules whether or not the nodes are hidden.
CreateSolrIngressRulesMutant(spec) ==
  (IF spec.hideCommon THEN {} ELSE {CommonServiceName}) \cup Pods

\* The services the rules of the Ingress lead to.
CreateSolrIngressRules(spec) ==
  (IF spec.hideCommon THEN {} ELSE {CommonServiceName}) \cup (IF spec.hideNodes THEN {} ELSE Pods)

NoIP == [p \in Pods |-> 0]

ServiceExists(s) == IF s \in Pods THEN owned.ip[s] # 0 ELSE owned.common

Running == {p \in Pods : pods[p] # None}

NoSchedule == [next |-> 0, wait |-> 0]

\* Mutant: no reconciliation is asked for when a new time is set.
ScheduleNextRestartMutant(schedule, annotation) ==
  IF schedule = "cron" /\ (annotation = 0 \/ annotation < now)
    THEN [next |-> IF annotation = 0 THEN now ELSE annotation + 1, wait |-> 0]
    ELSE NoSchedule

\* The schedule fires once between any two readings of the clock, at the time t
\* between t and t + 1 (times are whole seconds, a reading is finer than that).
\* The annotation holds the time of the next restart; when it is over a new one
\* is set, and that change of the template is what restarts the pods.  "wait" is
\* the time at which to reconcile again, if it is still to come.  A schedule that
\* cannot be parsed is an error, and nothing is scheduled.
ScheduleNextRestart(schedule, annotation) ==
  LET due  == annotation = 0 \/ annotation < now
      next == IF annotation = 0 THEN now ELSE annotation + 1
      wait == IF due THEN next ELSE annotation
  IN  IF schedule = "none" \/ (schedule = "invalid" /\ due)
        THEN NoSchedule
        ELSE [next |-> IF due THEN next ELSE 0, wait |-> IF wait >= now THEN wait ELSE 0]

-----------------------------------------------------------------------------
NoView == [spec |-> None, todo |-> {}, ips |-> NoIP, blocked |-> FALSE, xml |-> 0,
           json |-> FALSE, cert |-> 0, wait |-> 0, found |-> FALSE,
           types |-> {}]

Objects(services, content, sts) ==
  [zk |-> FALSE, common |-> services, headless |-> services, ip |-> NoIP,
   configMap |-> content, auth |-> FALSE, bootstrap |-> FALSE, sts |-> sts,
   ingress |-> None, pdb |-> FALSE, nextIP |-> 1]

\* A template of a version of the operator that did not yet annotate the type of
\* service.
OldTemplate(spec) ==
  [type |-> "headless", annotated |-> FALSE, external |-> FALSE, aliases |-> NoIP,
   source |-> "generated", xml |-> spec.xml, security |-> "none", json |-> FALSE,
   tls |-> FALSE, cert |-> 0, restart |-> 0]

\* A pod: its template, and the contents it read when it started.
Started(template, xml, cert) ==
  [field \in DOMAIN template \cup {"readXml", "readCert"} |->
     CASE field = "readXml" -> xml [] field = "readCert" -> cert [] OTHER -> template[field]]

Init ==
  /\ \/ /\ cloud \in UNION Families
        /\ owned = Objects(FALSE, 0, None)
        /\ pods = [p \in Pods |-> None]
     \/ /\ cloud \in Upgraded
        /\ owned = Objects(TRUE, cloud.xml, OldTemplate(cloud))
        /\ pods = [p \in Pods |-> Started(OldTemplate(cloud), cloud.xml, 0)]
  /\ provided = [configMap |-> 1, tls |-> 1, credentials |-> 1]
  /\ zkJson = FALSE
  /\ pc = "idle" /\ view = NoView
  /\ awake = TRUE /\ timer = 0 /\ now = 1
  /\ edits = 0 /\ faults = 0
  /\ excused = {}

\* A call went well: the objects it leaves, what the reconciliation knows now,
\* and the next call.  Writing an owned object is an event that the controller
\* watches for.
Goes(next, objects, known) ==
  /\ pc' = next
  /\ owned' = objects
  /\ view' = known
  /\ awake' = (awake \/ objects # owned)

\* The reconciliation is over; an error puts the request back in the queue.
Ends(objects, again) ==
  /\ pc' = "idle"
  /\ owned' = objects
  /\ view' = NoView
  /\ awake' = (awake \/ again \/ objects # owned)

Unheard == UNCHANGED <<cloud, provided, pods, zkJson, now, edits, faults>>
Quiet == Unheard /\ UNCHANGED <<timer, excused>>

\* Reconcile begins: the SolrCloud is read, once.
Start ==
  /\ pc = "idle" /\ awake
  /\ pc' = "defaults"
  /\ view' = [NoView EXCEPT !.spec = cloud, !.todo = Pods]
  /\ awake' = FALSE
  /\ UNCHANGED <<cloud, provided, owned, pods, zkJson, timer, now, edits, faults, excused>>

\* Defaults are written back, unless the SolrCloud was changed in between; either
\* way the reconciliation starts again.
Defaults ==
  /\ pc = "defaults"
  /\ IF DefaultsMissing(view.spec)
       THEN /\ Ends(owned, TRUE)
            /\ cloud' = IF cloud = view.spec THEN WithDefaults(cloud) ELSE cloud
       ELSE Goes("zk", owned, view) /\ UNCHANGED cloud
  /\ UNCHANGED <<provided, pods, zkJson, now, edits, faults, timer, excused>>

ReconcileZk ==
  /\ pc = "zk"
  /\ IF view.spec.zk = "none"
       THEN Ends(owned, TRUE)
       ELSE Goes("common", [owned EXCEPT !.zk = @ \/ view.spec.zk = "provided"], view)
  /\ Quiet

CommonService ==
  /\ pc = "common"
  /\ Goes(IF UsesIndividualNodeServices(view.spec) THEN "nodes" ELSE "headless",
          [owned EXCEPT !.common = TRUE], view)
  /\ Quiet

\* The address of a service that is created by this reconciliation is not known
\* to it; if it is to be advertised, the StatefulSet has to wait.
AddressPending(p) == view.spec.useExternal /\ owned.ip[p] = 0

ReconcileNodeService ==
  LET p     == Min(view.todo)
      todo  == view.todo \ {p}
  IN  /\ pc = "nodes"
      /\ Goes(IF todo = {} THEN "config" ELSE "nodes",
              IF owned.ip[p] = 0
                THEN [owned EXCEPT !.ip[p] = owned.nextIP, !.nextIP = @ + 1]
                ELSE owned,
              [view EXCEPT !.todo = todo,
                           !.ips[p] = IF view.spec.useExternal THEN owned.ip[p] ELSE 0,
                           !.blocked = @ \/ AddressPending(p)])
      /\ Quiet

HeadlessService ==
  /\ pc = "headless"
  /\ Goes("config", [owned EXCEPT !.headless = TRUE], view)
  /\ Quiet

\* Mutant: a generated ConfigMap that exists is left as it is.
GeneratedConfigMapMutant == IF owned.configMap = 0 THEN view.spec.xml ELSE owned.configMap

GeneratedConfigMap == view.spec.xml

\* A provided ConfigMap must exist; a generated one is written here, before the
\* StatefulSet that announces its content.
ConfigMap ==
  /\ pc = "config"
  /\ IF view.spec.config = "provided"
       THEN IF provided.configMap = 0
              THEN Ends(owned, TRUE)
              ELSE Goes("security", owned, [view EXCEPT !.xml = provided.configMap])
       ELSE Goes("security", [owned EXCEPT !.configMap = GeneratedConfigMap],
                 [view EXCEPT !.xml = view.spec.xml])
  /\ Quiet

\* Mutant: the bootstrap secret of an earlier reconciliation is not looked up.
BootstrapSecretFoundMutant == FALSE

\* The secret may have been deleted once security was bootstrapped.
BootstrapSecretFound == owned.bootstrap

\* The user's credentials must exist.  Otherwise two secrets are generated, unless
\* there is one with credentials already: then the other one is read, and may be
\* missing.
ReconcileSecurity ==
  /\ pc = "security"
  /\ CASE view.spec.security = "none" -> Goes("tls", owned, view)
       [] view.spec.security = "user" ->
            IF provided.credentials = 0
              THEN Ends(owned, TRUE)
              ELSE Goes("tls", owned, [view EXCEPT !.json = TRUE])
       [] view.spec.security = "bootstrap" ->
            IF owned.auth
              THEN Goes("tls", owned, [view EXCEPT !.json = BootstrapSecretFound])
              ELSE Goes("bootstrap", [owned EXCEPT !.auth = TRUE], view)
  /\ Quiet

\* The second secret; creating it fails if it exists.
BootstrapSecret ==
  /\ pc = "bootstrap"
  /\ IF owned.bootstrap
       THEN Ends(owned, TRUE)
       ELSE Goes("tls", [owned EXCEPT !.bootstrap = TRUE], [view EXCEPT !.json = TRUE])
  /\ Quiet

\* The checksum of the certificate is taken if a new one is to restart the pods.
CertMd5(spec) == IF spec.tls = "server" /\ spec.restartOnTLS THEN provided.tls ELSE 0

\* Without a ZooKeeper host the StatefulSet has to wait.  TLS is looked at only
\* if it has not; the secret must exist.
ReconcileTLS ==
  LET blocked == view.blocked \/ view.spec.zk = "hostless"
  IN  /\ pc = "tls"
      /\ IF \/ view.spec.tls = "clientOnly"
            \/ ~blocked /\ view.spec.tls = "server" /\ provided.tls = 0
           THEN Ends(owned, TRUE)
           ELSE Goes("statefulset", owned,
                     [view EXCEPT !.blocked = blocked,
                                  !.cert = IF blocked THEN 0 ELSE CertMd5(view.spec)])
      /\ Quiet

\* The template that is written: the annotations and host aliases of the old one
\* stay where nothing new is set.
Template(old) ==
  LET next == ScheduleNextRestart(view.spec.schedule, old.restart).next
  IN  [type |-> ServiceType(view.spec), annotated |-> TRUE,
       external |-> view.spec.useExternal,
       aliases |-> [p \in Pods |-> IF view.ips[p] # 0 THEN view.ips[p] ELSE old.aliases[p]],
       source |-> view.spec.config, xml |-> view.xml,
       security |-> view.spec.security, json |-> view.json,
       tls |-> view.spec.tls = "server",
       cert |-> IF view.cert # 0 THEN view.cert ELSE old.cert,
       restart |-> IF next # 0 THEN next ELSE old.restart]

NoTemplate == [aliases |-> NoIP, cert |-> 0, restart |-> 0]

\* After it created the StatefulSet the reconciliation goes on as if there were
\* none (see the Ingress step); a blocked one only looks whether there is one.
StatefulSet ==
  LET old  == IF owned.sts = None THEN NoTemplate ELSE owned.sts
      wait == ScheduleNextRestart(view.spec.schedule, old.restart).wait
  IN  /\ pc = "statefulset"
      /\ IF view.blocked
           THEN Goes("ingress", owned, [view EXCEPT !.found = owned.sts # None])
           ELSE Goes("ingress", [owned EXCEPT !.sts = Template(old)],
                     [view EXCEPT !.found = owned.sts # None, !.wait = wait])
      /\ Quiet

\* Nothing after the Ingress is done without a StatefulSet.
GoesOnAfterIngress(objects) ==
  IF view.found
    THEN Goes("pods", objects, view) /\ UNCHANGED timer
    ELSE Ends(objects, FALSE) /\ timer' = IF view.wait # 0 THEN view.wait ELSE timer

\* The rules are made for the replicas of the StatefulSet; the number of pods does
\* not change here.
Ingress ==
  /\ pc = "ingress"
  /\ GoesOnAfterIngress([owned EXCEPT !.ingress = IF view.spec.method = "Ingress"
                                                  THEN CreateSolrIngressRules(view.spec)
                                                  ELSE None])
  /\ excused' = excused \ {"ingress overlooked"}
  /\ Unheard

\* An Ingress that is to be deleted cannot be read: the error is dropped, the
\* Ingress stays, and the reconciliation goes on.
OverlookIngress ==
  /\ pc = "ingress" /\ view.spec.method # "Ingress" /\ faults < MaxFaults
  /\ GoesOnAfterIngress(owned)
  /\ faults' = faults + 1
  /\ excused' = IF owned.ingress = None THEN excused ELSE excused \cup {"ingress overlooked"}
  /\ UNCHANGED <<cloud, provided, pods, zkJson, now, edits>>

\* The type of service that a pod is annotated with, if it is.
Annotation(pod) == IF pod.annotated THEN pod.type ELSE "none"

\* The pods are listed.
ListPods ==
  /\ pc = "pods"
  /\ Goes("pdb", owned, [view EXCEPT !.types = {Annotation(pods[p]) : p \in Running}])
  /\ Quiet

\* The StatefulSet's status does not agree with the pods that were listed: the
\* reconciliation is given up, to be done again a second later.
StatusDisagrees ==
  /\ pc = "pods" /\ faults < MaxFaults
  /\ Ends(owned, TRUE)
  /\ faults' = faults + 1
  /\ UNCHANGED <<cloud, provided, pods, zkJson, timer, now, edits, excused>>

PodDisruptionBudget ==
  /\ pc = "pdb"
  /\ Goes("cleanup", [owned EXCEPT !.pdb = view.spec.pdb], view)
  /\ Quiet

\* Mutant: one pod of the configured type is enough.
InTransitionMutant(types, spec) == types # {} /\ ServiceType(spec) \notin types

\* Some pod still uses the other type of service, or does not say which.
InTransition(types, spec) == \E type \in types : type # ServiceType(spec)

\* Pods will still be started from a template for the other type of service,
\* because the StatefulSet had to wait.
OldTemplateStays ==
  view.blocked /\ owned.sts # None /\ owned.sts.type # ServiceType(view.spec)

\* The services of the other type go when no listed pod uses them; then the
\* status is written, and the reconciliation is over.
CleanupUnconfiguredServices ==
  /\ pc = "cleanup"
  /\ Ends(IF InTransition(view.types, view.spec) THEN owned
          ELSE IF UsesHeadlessService(view.spec) THEN [owned EXCEPT !.ip = NoIP]
          ELSE [owned EXCEPT !.headless = FALSE],
          FALSE)
  /\ timer' = IF view.wait # 0 THEN view.wait ELSE timer
  /\ excused' = IF OldTemplateStays THEN excused \cup {"old template stays"} ELSE excused
  /\ Unheard

\* Any call fails, or the operator restarts: what was done stays, and the whole
\* reconciliation is done again.
Fails ==
  /\ pc # "idle" /\ faults < MaxFaults
  /\ faults' = faults + 1
  /\ pc' = "idle" /\ view' = NoView /\ awake' = TRUE
  /\ excused' = IF pc = "bootstrap" THEN excused \cup {"bootstrap secret lost"} ELSE excused
  /\ UNCHANGED <<cloud, provided, owned, pods, zkJson, timer, now, edits>>

\* Not every service is deleted.
DeleteFails ==
  /\ pc = "cleanup" /\ faults < MaxFaults
  /\ UsesHeadlessService(view.spec) /\ ~InTransition(view.types, view.spec)
  /\ \E p \in Pods : Ends([owned EXCEPT !.ip = [NoIP EXCEPT ![p] = owned.ip[p]]], TRUE)
  /\ faults' = faults + 1
  /\ excused' = IF OldTemplateStays THEN excused \cup {"old template stays"} ELSE excused
  /\ UNCHANGED <<cloud, provided, pods, zkJson, timer, now, edits>>

-----------------------------------------------------------------------------
(* The user, Kubernetes and the clock.                                     *)

Idles == UNCHANGED operator

\* Contents are numbered in the order they are first used.  When one is set back to
\* an earlier one, a pod may have started with the content in between, which was
\* never announced.
SetBack(old, new) == IF new < old THEN {"content set back"} ELSE {}

EditCloud ==
  /\ edits < MaxEdits
  /\ \E F \in Families :
       /\ cloud \in F \cup {WithDefaults(c) : c \in F}
       /\ \E c \in F : c # cloud /\ cloud' = c
  /\ excused' = excused \cup SetBack(cloud.xml, cloud'.xml)
  /\ edits' = edits + 1
  /\ awake' = TRUE
  /\ UNCHANGED <<provided, owned, pods, zkJson, timer, now, faults>> /\ Idles

\* Mutant: nobody watches the provided ConfigMap.
WatchedMutant(thing) == thing = "tls" /\ cloud.tls = "server"

\* Which of the provided objects the controller watches for this SolrCloud.
Watched(thing) ==
  \/ thing = "configMap" /\ cloud.config = "provided"
  \/ thing = "tls" /\ cloud.tls = "server"

\* A provided object is deleted, gets a new content, or the first one again.
EditProvided ==
  /\ edits < MaxEdits
  /\ \E thing \in DOMAIN provided :
       /\ CASE thing = "configMap"   -> cloud.config = "provided"
            [] thing = "tls"         -> cloud.tls = "server"
            [] thing = "credentials" -> cloud.security = "user"
       /\ \E content \in {0, 1, edits + 2} \ {provided[thing]} :
            /\ provided' = [provided EXCEPT ![thing] = content]
            /\ excused' = IF content = 1 THEN excused \cup {"content set back"} ELSE excused
       /\ awake' = (awake \/ Watched(thing))
  /\ edits' = edits + 1
  /\ UNCHANGED <<cloud, owned, pods, zkJson, timer, now, faults>> /\ Idles

\* Somebody else deletes an owned object.
DeleteOwned ==
  /\ edits < MaxEdits
  /\ \/ \E p \in Pods : /\ owned.ip[p] # 0
                        /\ owned' = [owned EXCEPT !.ip[p] = 0]
                        /\ excused' = excused \cup {"service deleted"}
     \/ /\ owned.headless
        /\ owned' = [owned EXCEPT !.headless = FALSE]
        /\ excused' = excused \cup {"service deleted"}
     \/ /\ owned.bootstrap
        /\ owned' = [owned EXCEPT !.bootstrap = FALSE]
        /\ excused' = IF zkJson THEN excused ELSE excused \cup {"bootstrap secret lost"}
     \/ /\ owned.configMap # 0
        /\ owned' = [owned EXCEPT !.configMap = 0]
        /\ UNCHANGED excused
  /\ edits' = edits + 1
  /\ awake' = TRUE
  /\ UNCHANGED <<cloud, provided, pods, zkJson, timer, now, faults>> /\ Idles

\* The pod's template, less what it noted when it started.
Revision(pod) == [field \in DOMAIN owned.sts |-> pod[field]]

Content(source) == IF source = "generated" THEN owned.configMap ELSE provided.configMap

\* A pod is started, and reads the ConfigMap and the certificate.
Starts(p) ==
  /\ owned.sts # None /\ pods[p] = None
  /\ Content(owned.sts.source) # 0
  /\ owned.sts.tls => provided.tls # 0
  /\ owned.sts.json /\ owned.sts.security = "bootstrap" => owned.bootstrap
  /\ pods' = [pods EXCEPT ![p] = Started(owned.sts, Content(owned.sts.source),
                                        IF owned.sts.tls THEN provided.tls ELSE 0)]
  /\ awake' = TRUE
  /\ UNCHANGED <<cloud, provided, owned, timer, now, edits, excused>> /\ Idles

\* The command of the pod's init container: if there is no security.json in
\* ZooKeeper, or a blank one, the one the pod was given is put there.
CmdToPutSecurityJsonInZk == zkJson \/ owned.sts.json

StartPod(p) ==
  /\ Starts(p)
  /\ zkJson' = CmdToPutSecurityJsonInZk
  /\ UNCHANGED faults

\* The command could not look, or could not put: that is not an error to it, and
\* the pod starts all the same.
StartPodWithoutPut(p) ==
  /\ Starts(p)
  /\ owned.sts.json /\ ~zkJson /\ faults < MaxFaults
  /\ faults' = faults + 1
  /\ UNCHANGED zkJson

StopPod(p) ==
  /\ pods' = [pods EXCEPT ![p] = None]
  /\ awake' = TRUE
  /\ UNCHANGED <<cloud, provided, owned, zkJson, timer, now, edits, excused>> /\ Idles

\* The rolling update takes down a pod that is out of date, sooner or later or
\* never: which one and when is in RollingUpdate.
ReplacePod(p) ==
  /\ pods[p] # None /\ Revision(pods[p]) # owned.sts
  /\ StopPod(p) /\ UNCHANGED faults

LosePod(p) ==
  /\ pods[p] # None /\ faults < MaxFaults
  /\ StopPod(p) /\ faults' = faults + 1

TimePasses ==
  /\ now < MaxTime /\ cloud.schedule # "none"
  /\ now' = now + 1
  /\ UNCHANGED <<cloud, provided, owned, pods, zkJson, awake, timer, edits, faults, excused>>
  /\ Idles

\* The work queue delivers the delayed request; the clock is read after that.
TimerFires ==
  /\ timer # 0 /\ timer < now
  /\ timer' = 0 /\ awake' = TRUE
  /\ UNCHANGED <<cloud, provided, owned, pods, zkJson, now, edits, faults, excused>> /\ Idles

Reconcile ==
  \/ Start \/ Defaults \/ ReconcileZk \/ CommonService \/ ReconcileNodeService
  \/ HeadlessService \/ ConfigMap \/ ReconcileSecurity \/ BootstrapSecret \/ ReconcileTLS
  \/ StatefulSet \/ Ingress \/ ListPods \/ PodDisruptionBudget
  \/ CleanupUnconfiguredServices

Next ==
  \/ Reconcile \/ Fails \/ DeleteFails \/ OverlookIngress \/ StatusDisagrees
  \/ EditCloud \/ EditProvided \/ DeleteOwned
  \/ \E p \in Pods : StartPod(p) \/ StartPodWithoutPut(p) \/ ReplacePod(p) \/ LosePod(p)
  \/ TimePasses \/ TimerFires

\* The operator works off its queue, the timer of the queue fires, and pods are
\* started.  That the rolling update goes on is not assumed.
Spec ==
  /\ Init /\ [][Next]_vars
  /\ WF_vars(Reconcile) /\ WF_vars(TimerFires)
  /\ \A p \in Pods : WF_vars(StartPod(p))

-----------------------------------------------------------------------------
(* Properties.                                                             *)

\* The state has its type; in particular a StatefulSet is only ever written from
\* a specification with all its defaults.
TypeOK ==
  /\ cloud \in Specs
  /\ provided \in [{"configMap", "tls", "credentials"} -> Nat]
  /\ owned.sts \in Templates \cup {None}
  /\ owned.ip \in [Pods -> Nat]
  /\ owned.ingress \in (SUBSET (Pods \cup {CommonServiceName})) \cup {None}
  /\ pc \in Steps
  /\ view.spec \in Specs \cup {None}
  /\ pc \notin {"idle", "defaults"} => view.spec.complete
  /\ timer \in Nat /\ now \in 1..MaxTime

\* A pod can be reached under the address it advertises: the service behind it
\* exists, and an external address leads to that service's IP, for every pod,
\* through every change of the type of service (reconcileNodeService, the wait
\* for addresses, cleanupUnconfiguredServices).  Excepted is a service deleted
\* by somebody else, and a clean-up while the StatefulSet waits with a template
\* of the other type: it removes services that pods of this template need, if
\* none of them is listed.
AdvertisedAddressResolves ==
  excused \cap {"service deleted", "old template stays"} = {} =>
    \A p \in Running :
      IF pods[p].type = "headless"
        THEN owned.headless
        ELSE /\ owned.ip[p] # 0
             /\ pods[p].external => \A q \in Pods : pods[p].aliases[q] = owned.ip[q]

\* Every rule of the Ingress leads to a service: services are created before the
\* rules and removed after them.  Excepted is a service deleted by somebody else,
\* and an Ingress that the operator could not read when it was to be deleted, until
\* it is read again: the services its rules lead to are removed all the same.
IngressHasBackends ==
  owned.ingress # None /\ excused \cap {"service deleted", "ingress overlooked"} = {} =>
    \A s \in owned.ingress : ServiceExists(s)

\* A pod runs with a configuration and a certificate at least as new as the ones
\* its template announces (the md5 annotations): otherwise it would count as up
\* to date and never be restarted with the new content.  Excepted is a content that
\* was set back to an earlier one.
PodsRunAnnouncedContent ==
  "content set back" \notin excused =>
    \A p \in Running : /\ pods[p].readXml >= pods[p].xml
                       /\ pods[p].tls => pods[p].readCert >= pods[p].cert

\* Whether or not the init container of a pod could put it there, the bootstrapped
\* security.json is in ZooKeeper, or the pod has it and can put it there when it
\* starts the next time, from a secret that exists.  Excepted is a bootstrap secret
\* that was never made, because the call after the creation of the credentials
\* failed, or was deleted before its use.
SecurityJsonIsKept ==
  "bootstrap secret lost" \notin excused =>
    \A p \in Running : pods[p].security = "bootstrap" =>
                          zkJson \/ (pods[p].json /\ owned.bootstrap)

Reconcilable ==
  /\ cloud.zk \in {"info", "provided"}
  /\ cloud.config = "provided" => provided.configMap # 0
  /\ cloud.tls # "clientOnly"
  /\ cloud.tls = "server" => provided.tls # 0
  /\ cloud.security = "user" => provided.credentials # 0

\* The objects that do not wait for the pods.
ObjectsConverged ==
  /\ cloud = WithDefaults(cloud)
  /\ owned.common
  /\ UsesHeadlessService(cloud) => owned.headless
  /\ UsesIndividualNodeServices(cloud) => \A p \in Pods : owned.ip[p] # 0
  /\ \/ owned.ingress = IF cloud.method = "Ingress" THEN CreateSolrIngressRules(cloud) ELSE None
     \/ cloud.method # "Ingress" /\ "ingress overlooked" \in excused
  /\ owned.sts # None
  /\ owned.sts.type = ServiceType(cloud) /\ owned.sts.source = cloud.config
  /\ owned.sts.xml = Content(cloud.config)
  /\ cloud.config = "generated" => owned.configMap = cloud.xml
  /\ cloud.tls = "server" /\ cloud.restartOnTLS => owned.sts.cert = provided.tls
  /\ cloud.useExternal /\ UsesIndividualNodeServices(cloud) => owned.sts.aliases = owned.ip
  /\ owned.pdb = cloud.pdb

AllUpdated == \A p \in Pods : pods[p] # None /\ Revision(pods[p]) = owned.sts

\* What is left to do when all pods have been replaced.
PodsConverged ==
  /\ UsesHeadlessService(cloud) => owned.ip = NoIP
  /\ UsesIndividualNodeServices(cloud) => ~owned.headless
  /\ "content set back" \notin excused =>
       \A p \in Pods :
         /\ pods[p].readXml = Content(cloud.config)
         /\ cloud.tls = "server" /\ cloud.restartOnTLS => pods[p].readCert = provided.tls

\* Once users and faults leave it alone, and if what the SolrCloud refers to
\* exists, the objects become as the last specification asks, and so they stay.
\* If the rolling update replaces all pods, unused services are gone then, and
\* every pod runs with the present contents, unless they were set back.  Excepted
\* is an Ingress that is not wanted and could not be read.
Converges == <>[](Reconcilable => ObjectsConverged /\ (AllUpdated => PodsConverged))

\* A restart schedule is kept: when a scheduled time has passed, the template has a
\* later one, so that every pod is out of date.
RestartsRecur ==
  <>[](Reconcilable /\ cloud.schedule = "cron" => owned.sts # None /\ owned.sts.restart >= now)

=============================================================================
