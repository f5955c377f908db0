---------------------------- MODULE ObjectCopy ----------------------------
(***************************************************************************)
(* How the operator brings an object of Kubernetes up to date with the one *)
(* it generates: the Copy...Fields functions of common.go and zk_util.go.  *)
(*                                                                         *)
(* An object has fields, and lists of items with fields of their own.  A   *)
(* Copy function is a table that gives each field its rule; the fields of  *)
(* an object that no function mentions and that matter here are "kept".    *)
(***************************************************************************)
EXTENDS Naturals, Sequences

CONSTANT Unset   \* nil, the empty string

DefaultAccount == "default"   \* the service account the ZooKeeper operator fills in

\* The host aliases of CopyPodTemplates: added and changed, never removed.
Merge(from, to) ==
  [k \in DOMAIN from \cup DOMAIN to |-> IF k \in DOMAIN from THEN from[k] ELSE to[k]]

\* A key a map does not have reads as the empty string.
Lookup(map, k) == IF k \in DOMAIN map THEN map[k] ELSE Unset

\* Mutant: labels and annotations that are no longer generated are removed.
CopyLabelsAndAnnotationsMutant(from, to) == from

\* Entries are added and changed, never removed; one with an empty value that is
\* not there already does not differ, and is not added.
CopyLabelsAndAnnotations(from, to) ==
  LET changed == {k \in DOMAIN from : Lookup(to, k) # from[k]} IN
  [k \in changed \cup DOMAIN to |-> IF k \in changed THEN from[k] ELSE to[k]]

Absent(structure) == DOMAIN structure = {}   \* a nil pointer

\* The persistence of a ZooKeeper cluster: what the code copies field by field
\* (resources, access modes, storage class, reclaim policy, annotations), and the
\* rest of the claim, which only a whole copy brings along.
CopyPersistence(from, to) ==
  IF Absent(from) \/ Absent(to) THEN from ELSE [copied |-> from.copied, rest |-> to.rest]

\* Does the field ask for an update?
Requires(rule, from, to) ==
  \/ rule = "always" /\ from # to
  \/ rule \in {"ifSet", "lazily"} /\ from # Unset /\ from # to
  \/ rule = "ifStored" /\ to # Unset /\ from # to
  \/ rule = "notDefault" /\ from # to /\ (from # Unset \/ to # DefaultAccount)
  \/ rule = "aliases" /\ Merge(from, to) # to
  \/ rule = "merged" /\ \E k \in DOMAIN from : Lookup(to, k) # from[k]
  \/ rule = "persistence" /\ \/ ~(Absent(from) <=> Absent(to))
                             \/ ~Absent(from) /\ from.copied # to.copied

\* The field afterwards.
Copied(rule, from, to) ==
  CASE rule = "aliases"     -> Merge(from, to)
    [] rule = "merged"      -> CopyLabelsAndAnnotations(from, to)
    [] rule = "persistence" -> CopyPersistence(from, to)
    [] OTHER ->
         IF \/ rule = "kept"
            \/ rule = "ifSet" /\ from = Unset
            \/ rule = "ifStored" /\ to = Unset
            \/ rule = "notDefault" /\ from = Unset /\ to = DefaultAccount
           THEN to
           ELSE from

RuleNames == {"always", "ifSet", "ifStored", "lazily", "notDefault", "aliases", "merged",
              "persistence", "kept"}

CopyFields(rules, from, to) == [f \in DOMAIN rules |-> Copied(rules[f], from[f], to[f])]
FieldsRequire(rules, from, to) == \E f \in DOMAIN rules : Requires(rules[f], from[f], to[f])

\* CopyPodContainers, CopyPodVolumes, CopyIngressFields: a list of another
\* length is replaced, else the items are copied one by one.
CopyList(rules, from, to) ==
  IF Len(from) # Len(to) THEN from
  ELSE [i \in DOMAIN from |-> CopyFields(rules, from[i], to[i])]

ListRequires(rules, from, to) ==
  Len(from) = Len(to) => \E i \in DOMAIN from : FieldsRequire(rules, from[i], to[i])

CopyObject(schema, from, to) ==
  [fields |-> CopyFields(schema.fields, from.fields, to.fields),
   lists |-> [l \in DOMAIN schema.lists |->
                CopyList(schema.lists[l], from.lists[l], to.lists[l])]]


RequireUpdate(schema, from, to) ==
  \/ FieldsRequire(schema.fields, from.fields, to.fields)
  \/ \E l \in DOMAIN schema.lists :
       ListRequires(schema.lists[l], from.lists[l], to.lists[l])

-----------------------------------------------------------------------------
(* The tables.                                                             *)

Fields(rule, names) == [f \in names |-> rule]
NoLists == [l \in {} |-> Fields("always", {})]

Metadata == Fields("merged", {"labels", "annotations"})

CopyConfigMapFields ==
  [fields |-> Merge(Metadata, Fields("always", {"data"})), lists |-> NoLists]

\* "we can't overwrite the clusterIp field"
CopyServiceFields ==
  [fields |-> Merge(Merge(Metadata,
                    Fields("always", {"selector", "ports", "externalName",
                                      "publishNotReadyAddresses", "sessionAffinityConfig"})),
              Merge(Fields("ifSet", {"sessionAffinity"}), Fields("kept", {"clusterIP"}))),
   lists |-> NoLists]

\* Each generated rule has one path.
IngressRules ==
  Merge(Fields("always", {"host", "path", "service", "resource"}),
        Fields("ifStored", {"pathType"}))

CopyIngressFields ==
  [fields |-> Merge(Merge(Metadata, Fields("always", {"tls"})),
                    Fields("ifSet", {"ingressClassName"})),
   lists |-> [l \in {"rules"} |-> IngressRules]]

CopyPodDisruptionBudgetFields ==
  [fields |-> Merge(Metadata, Fields("always", {"minAvailable", "maxUnavailable", "selector"})),
   lists |-> NoLists]

\* CopyResources is part of it: quantities are compared by their amount.
CopyPodContainers ==
  Merge(Fields("always", {"name", "image", "command", "args", "env", "requests", "limits",
                          "volumeMounts", "ports", "lifecycle", "livenessProbe",
                          "readinessProbe", "startupProbe", "securityContext"}),
  Merge(Fields("lazily", {"imagePullPolicy"}),
        Fields("ifSet", {"terminationMessagePath", "terminationMessagePolicy"})))

CopyPodVolumes == Fields("always", {"name", "volumeSource"})

\* The labels and annotations of a template are replaced as a whole.
CopyPodTemplates ==
  [fields |-> Merge(Fields("aliases", {"hostAliases"}),
                    Fields("always", {"template.labels", "template.annotations",
                                      "imagePullSecrets", "affinity", "securityContext",
                                      "nodeSelector", "tolerations", "priorityClassName",
                                      "terminationGracePeriodSeconds", "serviceAccountName",
                                      "topologySpreadConstraints", "readinessGates",
                                      "shareProcessNamespace", "enableServiceLinks"})),
   lists |-> [containers |-> CopyPodContainers, initContainers |-> CopyPodContainers,
              volumes |-> CopyPodVolumes]]

\* "Kubernetes does not currently support updates to these fields"; and before
\* the copy MaintainPreservedStatefulSetFields makes the found replicas the
\* generated ones: scaling is left to the cluster operations.
CopyStatefulSetFields ==
  [fields |-> Merge(Merge(Metadata, CopyPodTemplates.fields),
              Merge(Fields("always", {"updateStrategy"}),
                    Fields("kept", {"spec.selector", "podManagementPolicy",
                                    "volumeClaimTemplates", "statefulSet.replicas"}))),
   lists |-> CopyPodTemplates.lists]

CopyDeploymentFields ==
  [fields |-> Merge(Merge(Metadata, CopyPodTemplates.fields),
                    Fields("always", {"replicas", "selector"})),
   lists |-> CopyPodTemplates.lists]

\* Mutant: what nobody asked for is removed.
ZookeeperOperatorSetsMutant ==
  Fields("always", {"image.tag", "pod.affinity", "kubernetesClusterDomain",
                    "pod.serviceAccountName"})

\* "The Zookeeper operator defaults the pod affinity", and three more fields.
ZookeeperOperatorSets ==
  Merge(Fields("lazily", {"image.tag", "pod.affinity", "kubernetesClusterDomain"}),
        Fields("notDefault", {"pod.serviceAccountName"}))

CopyZookeeperClusterFields ==
  [fields |-> Merge(Merge(Metadata,
                    Fields("always", {"spec.replicas", "spec.labels", "image.repository",
                                      "image.pullPolicy", "storageType", "ephemeral",
                                      "pod.requests", "pod.limits", "pod.env",
                                      "pod.tolerations", "pod.nodeSelector", "pod.labels",
                                      "pod.annotations", "pod.securityContext",
                                      "pod.terminationGracePeriodSeconds",
                                      "pod.imagePullSecrets",
                                      "pod.topologySpreadConstraints", "probes", "conf",
                                      "containers", "initContainers", "volumes",
                                      "volumeMounts", "adminServerService", "clientService",
                                      "headlessService", "maxUnavailableReplicas"})),
              Merge(ZookeeperOperatorSets, Fields("persistence", {"persistence"}))),
   lists |-> NoLists]

Kinds == {"ConfigMap", "Service", "Ingress", "PodDisruptionBudget", "StatefulSet",
          "Deployment", "ZookeeperCluster"}

Schema(kind) ==
  CASE kind = "ConfigMap"           -> CopyConfigMapFields
    [] kind = "Service"             -> CopyServiceFields
    [] kind = "Ingress"             -> CopyIngressFields
    [] kind = "PodDisruptionBudget" -> CopyPodDisruptionBudgetFields
    [] kind = "StatefulSet"         -> CopyStatefulSetFields
    [] kind = "Deployment"          -> CopyDeploymentFields
    [] kind = "ZookeeperCluster"    -> CopyZookeeperClusterFields
=============================================================================
