------------------------ MODULE OwnedObjects_proofs ------------------------
(***************************************************************************)
(* What the copy of the generated fields guarantees, for every table of    *)
(* rules, every object and every sequence of writes by others.             *)
(***************************************************************************)
EXTENDS OwnedObjects, TLAPS

-----------------------------------------------------------------------------
(* One field.                                                              *)

\* Merging an entry twice is merging it once.
LEMMA MergeAgain ==
  ASSUME NEW from, NEW to
  PROVE  Merge(from, Merge(from, to)) = Merge(from, to)
BY DEF Merge

\* After the copy every entry reads as generated, one with an empty value too.
LEMMA EntriesCopied ==
  ASSUME NEW from, NEW to, NEW k \in DOMAIN from
  PROVE  Lookup(CopyLabelsAndAnnotations(from, to), k) = from[k]
<1> DEFINE changed == {x \in DOMAIN from : Lookup(to, x) # from[x]}
           copy == CopyLabelsAndAnnotations(from, to)
<1>1. /\ DOMAIN copy = changed \cup DOMAIN to
      /\ \A x \in DOMAIN copy : copy[x] = IF x \in changed THEN from[x] ELSE to[x]
  BY DEF CopyLabelsAndAnnotations
<1> QED  BY <1>1 DEF Lookup

\* A field that has been copied asks for no other update, whatever its rule.
LEMMA CopiedField ==
  ASSUME NEW rule \in RuleNames, NEW from, NEW to
  PROVE  ~Requires(rule, from, Copied(rule, from, to))
<1>1. CASE rule = "aliases"
  BY <1>1, MergeAgain DEF Requires, Copied
<1>2. CASE rule = "merged"
  BY <1>2, EntriesCopied DEF Requires, Copied
<1>3. CASE rule = "persistence"
  <2>1. \A c, r : ~Absent([copied |-> c, rest |-> r])
    BY DEF Absent
  <2> DEFINE copy == CopyPersistence(from, to)
  <2>2. Absent(copy) <=> Absent(from)
    BY <2>1 DEF CopyPersistence
  <2>3. ~Absent(from) => copy.copied = from.copied
    BY DEF CopyPersistence
  <2>4. Copied(rule, from, to) = copy
    BY <1>3 DEF Copied
  <2> HIDE DEF copy
  <2> QED  BY <1>3, <2>2, <2>3, <2>4 DEF Requires
<1>4. CASE rule \in RuleNames \ {"aliases", "merged", "persistence"}
  <2>1. Copied(rule, from, to) = from \/ Copied(rule, from, to) = to
    BY <1>4 DEF Copied, RuleNames
  <2> QED  BY <1>4, <2>1 DEF Requires, Copied, RuleNames
<1> QED  BY <1>1, <1>2, <1>3, <1>4

\* A field that is as generated asks for no update.
LEMMA SameField ==
  ASSUME NEW rule \in RuleNames, NEW from,
         rule # "aliases"
  PROVE  ~Requires(rule, from, from)
BY DEF Requires, RuleNames, Lookup

-----------------------------------------------------------------------------
(* An object.                                                              *)

Rules(rules) == \A f \in DOMAIN rules : rules[f] \in RuleNames
NoAliases(rules) == \A f \in DOMAIN rules : rules[f] # "aliases"

\* A schema as in common.go: the items of its lists have no host aliases.
IsSchema(s) ==
  /\ Rules(s.fields)
  /\ \A l \in DOMAIN s.lists : Rules(s.lists[l]) /\ NoAliases(s.lists[l])

\* Copying the fields of a table a second time requires no update.
LEMMA CopiedFields ==
  ASSUME NEW rules, Rules(rules), NEW from, NEW to
  PROVE  ~FieldsRequire(rules, from, CopyFields(rules, from, to))
BY CopiedField DEF FieldsRequire, CopyFields, Rules

\* The same of a list.
LEMMA CopiedList ==
  ASSUME NEW rules, Rules(rules), NoAliases(rules), NEW S,
         NEW from \in Seq(S), NEW to \in Seq(S)
  PROVE  ~ListRequires(rules, from, CopyList(rules, from, to))
<1>1. CASE Len(from) # Len(to)
  <2>1. CopyList(rules, from, to) = from
    BY <1>1 DEF CopyList
  <2>2. \A i \in DOMAIN from : ~FieldsRequire(rules, from[i], from[i])
    BY SameField DEF FieldsRequire, Rules, NoAliases
  <2> QED  BY <2>1, <2>2 DEF ListRequires
<1>2. CASE Len(from) = Len(to)
  <2> DEFINE copy == [i \in DOMAIN from |-> CopyFields(rules, from[i], to[i])]
  <2>1. CopyList(rules, from, to) = copy
    BY <1>2 DEF CopyList
  <2>2. Len(copy) = Len(from)
    <3>1. DOMAIN from = 1..Len(from) /\ Len(from) \in Nat
      OBVIOUS
    <3> QED  BY <3>1
  <2>3. \A i \in DOMAIN from : ~FieldsRequire(rules, from[i], copy[i])
    BY CopiedFields
  <2> QED  BY <2>1, <2>2, <2>3 DEF ListRequires
<1> QED  BY <1>1, <1>2

\* The rules of two tables are the rules of the merged one.
LEMMA MergedRules ==
  ASSUME NEW x, NEW y, Rules(x), Rules(y)
  PROVE  /\ Rules(Merge(x, y))
         /\ NoAliases(x) /\ NoAliases(y) => NoAliases(Merge(x, y))
BY DEF Merge, Rules, NoAliases

\* The tables of common.go and zk_util.go are schemas.
LEMMA SchemasAreSchemas ==
  ASSUME NEW kind \in Kinds
  PROVE  IsSchema(Schema(kind))
<1>1. \A rule \in RuleNames : \A names :
        /\ Rules(Fields(rule, names))
        /\ rule # "aliases" => NoAliases(Fields(rule, names))
  BY DEF Rules, NoAliases, Fields
<1>2. \A names : /\ Rules(Fields("always", names)) /\ NoAliases(Fields("always", names))
                 /\ Rules(Fields("ifSet", names)) /\ NoAliases(Fields("ifSet", names))
                 /\ Rules(Fields("ifStored", names)) /\ NoAliases(Fields("ifStored", names))
                 /\ Rules(Fields("lazily", names)) /\ NoAliases(Fields("lazily", names))
                 /\ Rules(Fields("notDefault", names)) /\ Rules(Fields("kept", names))
                 /\ Rules(Fields("merged", names)) /\ Rules(Fields("aliases", names))
                 /\ Rules(Fields("persistence", names))
  BY <1>1 DEF RuleNames
<1>3. Rules(Metadata)
  BY <1>2 DEF Metadata
<1>4. Rules(CopyPodContainers) /\ NoAliases(CopyPodContainers)
  BY <1>2, MergedRules DEF CopyPodContainers
<1>5. Rules(CopyPodVolumes) /\ NoAliases(CopyPodVolumes)
  BY <1>2 DEF CopyPodVolumes
<1>6. Rules(CopyPodTemplates.fields)
  BY <1>2, MergedRules DEF CopyPodTemplates
<1>7. \A l \in DOMAIN CopyPodTemplates.lists :
        Rules(CopyPodTemplates.lists[l]) /\ NoAliases(CopyPodTemplates.lists[l])
  BY <1>4, <1>5 DEF CopyPodTemplates
<1>8. IsSchema(CopyConfigMapFields)
  BY <1>2, <1>3, MergedRules DEF IsSchema, CopyConfigMapFields, NoLists
<1>9. IsSchema(CopyServiceFields)
  BY <1>2, <1>3, MergedRules DEF IsSchema, CopyServiceFields, NoLists
<1>10. IsSchema(CopyIngressFields)
  <2>1. Rules(IngressRules) /\ NoAliases(IngressRules)
    BY <1>2, MergedRules DEF IngressRules
  <2> QED  BY <1>2, <1>3, <2>1, MergedRules DEF IsSchema, CopyIngressFields
<1>11. IsSchema(CopyPodDisruptionBudgetFields)
  BY <1>2, <1>3, MergedRules DEF IsSchema, CopyPodDisruptionBudgetFields, NoLists
<1>12. IsSchema(CopyStatefulSetFields)
  BY <1>2, <1>3, <1>6, <1>7, MergedRules DEF IsSchema, CopyStatefulSetFields
<1>13. IsSchema(CopyDeploymentFields)
  BY <1>2, <1>3, <1>6, <1>7, MergedRules DEF IsSchema, CopyDeploymentFields
<1>14. IsSchema(CopyZookeeperClusterFields)
  <2>1. Rules(ZookeeperOperatorSets)
    BY <1>2, MergedRules DEF ZookeeperOperatorSets
  <2> QED  BY <1>2, <1>3, <2>1, MergedRules DEF IsSchema, CopyZookeeperClusterFields, NoLists
<1> QED
  BY <1>8, <1>9, <1>10, <1>11, <1>12, <1>13, <1>14 DEF Schema, Kinds

\* After the Copy...Fields function of a kind has brought an object up to date,
\* it finds nothing to update in it: no rule fights with itself, so that a
\* reconcile of an object nobody else has written to is the last one.
THEOREM CopyLeavesNothingToUpdate ==
  ASSUME NEW kind \in Kinds, NEW from, NEW to, NEW S,
         \A l \in DOMAIN Schema(kind).lists :
           from.lists[l] \in Seq(S) /\ to.lists[l] \in Seq(S)
  PROVE  ~RequireUpdate(Schema(kind), from, CopyObject(Schema(kind), from, to))
<1> DEFINE s == Schema(kind)
<1>0. IsSchema(s)
  BY SchemasAreSchemas
<1> HIDE DEF s
<1>1. ~FieldsRequire(s.fields, from.fields, CopyFields(s.fields, from.fields, to.fields))
  BY <1>0, CopiedFields DEF IsSchema
<1>2. \A l \in DOMAIN s.lists :
        ~ListRequires(s.lists[l], from.lists[l],
                      CopyList(s.lists[l], from.lists[l], to.lists[l]))
  BY <1>0, CopiedList DEF IsSchema, s
<1>3. ~RequireUpdate(s, from, CopyObject(s, from, to))
  BY <1>1, <1>2 DEF RequireUpdate, CopyObject
<1> QED  BY <1>3 DEF s
-----------------------------------------------------------------------------
(* The tables of the operator.                                             *)

\* What the tables say of the maps and of the fields that are not copied.
MapsAndPreserved(rules) ==
  \A f \in DOMAIN rules :
    /\ f \in Entries => rules[f] = "merged"
    /\ f = "hostAliases" => rules[f] = "aliases"
    /\ f \in Preserved => rules[f] = "kept"

\* Two tables that treat them so make one that does.
LEMMA MergedMaps ==
  ASSUME NEW x, NEW y, MapsAndPreserved(x), MapsAndPreserved(y)
  PROVE  MapsAndPreserved(Merge(x, y))
BY DEF Merge, MapsAndPreserved

\* In every kind of object the maps are merged, the preserved fields kept.
LEMMA SchemaMaps ==
  ASSUME NEW kind \in Kinds
  PROVE  MapsAndPreserved(Schema(kind).fields)
<1> DEFINE P(rules) == MapsAndPreserved(rules)
<1>1. \A names : names \cap (Maps \cup Preserved) = {} =>
        /\ P(Fields("always", names)) /\ P(Fields("ifSet", names))
        /\ P(Fields("lazily", names)) /\ P(Fields("notDefault", names))
        /\ P(Fields("persistence", names))
  BY DEF MapsAndPreserved, Fields, Maps
<1>2. P(Metadata)
  BY DEF MapsAndPreserved, Fields, Metadata, Maps, Entries, Preserved
<1>3. P(CopyConfigMapFields.fields)
  <2>1. P(Fields("always", {"data"}))
    BY <1>1 DEF Maps, Entries, Preserved
  <2> QED  BY <1>2, <2>1, MergedMaps DEF CopyConfigMapFields
<1>4. P(CopyServiceFields.fields)
  <2>1. P(Fields("always", {"selector", "ports", "externalName",
                            "publishNotReadyAddresses", "sessionAffinityConfig"}))
    BY <1>1 DEF Maps, Entries, Preserved
  <2>2. P(Fields("ifSet", {"sessionAffinity"}))
    BY <1>1 DEF Maps, Entries, Preserved
  <2>3. P(Fields("kept", {"clusterIP"}))
    BY DEF MapsAndPreserved, Fields, Maps, Entries, Preserved
  <2> QED  BY <1>2, <2>1, <2>2, <2>3, MergedMaps DEF CopyServiceFields
<1>5. P(CopyIngressFields.fields)
  <2>1. P(Fields("always", {"tls"})) /\ P(Fields("ifSet", {"ingressClassName"}))
    BY <1>1 DEF Maps, Entries, Preserved
  <2> QED  BY <1>2, <2>1, MergedMaps DEF CopyIngressFields
<1>6. P(CopyPodDisruptionBudgetFields.fields)
  <2>1. P(Fields("always", {"minAvailable", "maxUnavailable", "selector"}))
    BY <1>1 DEF Maps, Entries, Preserved
  <2> QED  BY <1>2, <2>1, MergedMaps DEF CopyPodDisruptionBudgetFields
<1>7. P(CopyPodTemplates.fields)
  <2>1. P(Fields("aliases", {"hostAliases"}))
    BY DEF MapsAndPreserved, Fields, Maps, Entries, Preserved
  <2>2. P(Fields("always", {"template.labels", "template.annotations",
                            "imagePullSecrets", "affinity", "securityContext",
                            "nodeSelector", "tolerations", "priorityClassName",
                            "terminationGracePeriodSeconds", "serviceAccountName",
                            "topologySpreadConstraints", "readinessGates",
                            "shareProcessNamespace", "enableServiceLinks"}))
    BY <1>1 DEF Maps, Entries, Preserved
  <2> QED  BY <2>1, <2>2, MergedMaps DEF CopyPodTemplates
<1>8. P(CopyStatefulSetFields.fields)
  <2>1. P(Fields("always", {"updateStrategy"}))
    BY <1>1 DEF Maps, Entries, Preserved
  <2>2. P(Fields("kept", {"spec.selector", "podManagementPolicy", "volumeClaimTemplates",
                          "statefulSet.replicas"}))
    BY DEF MapsAndPreserved, Fields, Maps, Entries, Preserved
  <2> QED  BY <1>2, <1>7, <2>1, <2>2, MergedMaps DEF CopyStatefulSetFields
<1>9. P(CopyDeploymentFields.fields)
  <2>1. P(Fields("always", {"replicas", "selector"}))
    BY <1>1 DEF Maps, Entries, Preserved
  <2> QED  BY <1>2, <1>7, <2>1, MergedMaps DEF CopyDeploymentFields
<1>10. P(CopyZookeeperClusterFields.fields)
  <2>1. P(ZookeeperOperatorSets)
    <3>1. /\ P(Fields("lazily", {"image.tag", "pod.affinity", "kubernetesClusterDomain"}))
          /\ P(Fields("notDefault", {"pod.serviceAccountName"}))
      BY <1>1 DEF Maps, Entries, Preserved
    <3> QED  BY <3>1, MergedMaps DEF ZookeeperOperatorSets
  <2> DEFINE copied == {"spec.replicas", "spec.labels", "image.repository",
                        "image.pullPolicy", "storageType", "ephemeral",
                        "pod.requests", "pod.limits", "pod.env",
                        "pod.tolerations", "pod.nodeSelector", "pod.labels",
                        "pod.annotations", "pod.securityContext",
                        "pod.terminationGracePeriodSeconds", "pod.imagePullSecrets",
                        "pod.topologySpreadConstraints", "probes", "conf",
                        "containers", "initContainers", "volumes", "volumeMounts",
                        "adminServerService", "clientService", "headlessService",
                        "maxUnavailableReplicas"}
  <2>2. copied \cap (Maps \cup Preserved) = {}
    BY DEF Maps, Entries, Preserved
  <2>3. P(Fields("always", copied))
    BY <1>1, <2>2
  <2>4. P(Fields("persistence", {"persistence"}))
    BY <1>1 DEF Maps, Entries, Preserved
  <2> QED  BY <1>2, <2>1, <2>3, <2>4, MergedMaps DEF CopyZookeeperClusterFields
<1> QED
  BY <1>3, <1>4, <1>5, <1>6, <1>8, <1>9, <1>10 DEF Schema, Kinds
-----------------------------------------------------------------------------
(* The inductive invariant: an object that is there has the fields of its  *)
(* kind, with the API server's defaults, and what the reconcile has read   *)
(* is what is there unless somebody has written to it since.               *)

HasDefaults(object) ==
  /\ DOMAIN object.fields = DOMAIN schema.fields
  /\ \A f \in ServerDefaults \cap DOMAIN object.fields : object.fields[f] # Unset

ViewIsFresh ==
  pc = "read" /\ ~stale => view.found = stored /\ view.by = controller

IInv ==
  /\ family \in Families
  /\ wanted \in Generated[family]
  /\ view.wanted \in Generated[family]
  /\ stored # NoObject => HasDefaults(stored)
  /\ ViewIsFresh

\* What the API server stores has its defaults.
LEMMA DefaultedHasDefaults ==
  ASSUME NEW object, DOMAIN object.fields = DOMAIN schema.fields
  PROVE  HasDefaults(Defaulted(object))
BY OwnedAssumption DEF HasDefaults, Defaulted, FillIn, AffinityDefaulted

\* The invariant holds in the initial states.
LEMMA InvariantInit == Init => IInv
BY DEF Init, IInv, ViewIsFresh

\* Every step preserves the invariant.
LEMMA InvariantNext == IInv /\ [Next]_vars => IInv'
<1> SUFFICES ASSUME IInv, [Next]_vars PROVE IInv'
  OBVIOUS
<1> USE DEF IInv
<1>1. CASE Get
  BY <1>1 DEF Get, ViewIsFresh, HasDefaults, schema
<1>2. CASE Create
  <2>1. DOMAIN view.wanted.fields = DOMAIN schema.fields
    BY OwnedAssumption DEF schema
  <2>2. HasDefaults(Defaulted(view.wanted))
    BY <2>1, DefaultedHasDefaults
  <2> QED
    BY <1>2, <2>2 DEF Create, Refused, Done, ViewIsFresh, HasDefaults, schema
<1>3. CASE Update
  <2>1. HasDefaults(Defaulted(CopyObject(schema, view.wanted, view.found)))
    BY DefaultedHasDefaults DEF CopyObject, CopyFields
  <2> QED
    BY <1>3, <2>1 DEF Update, Write, Refused, Done, ViewIsFresh, HasDefaults, schema
<1>4. CASE UpToDate
  BY <1>4 DEF UpToDate, Done, ViewIsFresh, HasDefaults, schema
<1>5. CASE Fails
  BY <1>5 DEF Fails, ViewIsFresh, HasDefaults, schema
<1>6. CASE UserEdits
  BY <1>6 DEF UserEdits, ViewIsFresh, HasDefaults, schema
<1>7. CASE AddForeignKey
  <2>1. PICK f \in {"labels", "annotations"}, k \in ForeignKeys :
          /\ stored # NoObject
          /\ ForeignWrite([stored EXCEPT !.fields[f] = Merge([x \in {k} |-> "theirs"], @)])
    BY <1>7 DEF AddForeignKey
  <2>2. HasDefaults(stored')
    BY <2>1 DEF ForeignWrite, HasDefaults, ServerDefaults
  <2> QED
    BY <1>7, <2>1, <2>2 DEF AddForeignKey, ForeignWrite, ViewIsFresh, HasDefaults, schema
<1>8. CASE TakeOver
  BY <1>8 DEF TakeOver, ForeignWrite, ViewIsFresh, HasDefaults, schema
<1>9. CASE DeleteObject
  BY <1>9 DEF DeleteObject, ViewIsFresh, HasDefaults, schema
<1>10. CASE ZookeeperOperator
  <2>1. stored # NoObject /\ stored' = [stored EXCEPT !.fields = FillIn(ForeignDefaults, @)]
    BY <1>10 DEF ZookeeperOperator, ForeignWrite
  <2>2. HasDefaults(stored')
    BY <2>1, OwnedAssumption DEF HasDefaults, FillIn
  <2> QED
    BY <1>10, <2>1, <2>2 DEF ZookeeperOperator, ForeignWrite, ViewIsFresh, HasDefaults, schema
<1>11. CASE UNCHANGED vars
  BY <1>11 DEF vars, ViewIsFresh, HasDefaults, schema
<1> QED
  BY <1>1, <1>2, <1>3, <1>4, <1>5, <1>6, <1>7, <1>8, <1>9, <1>10, <1>11
  DEF Next, ReconcileStep

\* The reconcile never works from an object that has changed without the API
\* server knowing: the view is the object, or the update will be refused.
LEMMA ReadIsFresh == Spec => []ViewIsFresh
<1>1. IInv => ViewIsFresh
  BY DEF IInv
<1> QED  BY InvariantInit, InvariantNext, <1>1, PTL DEF Spec

\* An update keeps the labels, annotations and host aliases of others and the
\* fields that cannot be changed, for every kind of object of the operator.
THEOREM UpdateKeepsWhatIsNotOurs == Spec => KeepsWhatIsNotOurs
<1> DEFINE Kept(f) ==
      /\ f \in Preserved => stored'.fields[f] = stored.fields[f]
      /\ f \in Maps =>
           \A k \in DOMAIN stored.fields[f] \ DOMAIN view.wanted.fields[f] :
             /\ k \in DOMAIN stored'.fields[f]
             /\ stored'.fields[f][k] = stored.fields[f][k]
<1>1. ASSUME IInv, [Next]_vars
      PROVE  [Update /\ stored # NoObject => \A f \in DOMAIN stored.fields : Kept(f)]_vars
  <2> SUFFICES ASSUME Update, stored # NoObject, NEW f \in DOMAIN stored.fields
               PROVE  Kept(f)
    OBVIOUS
  <2>1. CASE stored' = stored
    BY <2>1
  <2>2. CASE stored' # stored
    <3>1. /\ ~stale
          /\ stored' = Defaulted(CopyObject(schema, view.wanted, view.found))
      BY <2>2 DEF Update, Write, Refused
    <3>2. view.found = stored
      BY <3>1, <1>1 DEF Update, IInv, ViewIsFresh
    <3>3. DOMAIN stored.fields = DOMAIN schema.fields
      BY <1>1 DEF IInv, HasDefaults
    <3> DEFINE copied == Copied(schema.fields[f], view.wanted.fields[f], stored.fields[f])
    <3>4. f # "sessionAffinityConfig" =>
            stored'.fields[f] =
              IF f \in ServerDefaults /\ copied = Unset THEN DefaultAccount ELSE copied
      BY <3>1, <3>2, <3>3 DEF Defaulted, FillIn, AffinityDefaulted, CopyObject, CopyFields
    <3>5. MapsAndPreserved(schema.fields)
      BY <1>1, SchemaMaps, OwnedAssumption DEF IInv, schema
    <3>6. CASE f \in Preserved
      <4>1. copied = stored.fields[f]
        BY <3>3, <3>5, <3>6 DEF MapsAndPreserved, Copied
      <4>2. f \in ServerDefaults => stored.fields[f] # Unset
        BY <1>1 DEF IInv, HasDefaults
      <4>3. f \notin Maps /\ f # "sessionAffinityConfig"
        BY <3>6 DEF Preserved, Maps, Entries
      <4> QED  BY <3>4, <4>1, <4>2, <4>3
    <3>7. CASE f \in Maps
      <4>1. \/ copied = Merge(view.wanted.fields[f], stored.fields[f])
            \/ copied = CopyLabelsAndAnnotations(view.wanted.fields[f], stored.fields[f])
        BY <3>3, <3>5, <3>7 DEF MapsAndPreserved, Copied, Maps
      <4>2. f \notin ServerDefaults /\ f \notin Preserved /\ f # "sessionAffinityConfig"
        BY <3>7 DEF Maps, Entries, ServerDefaults, Preserved
      <4> QED  BY <3>4, <4>1, <4>2 DEF Merge, CopyLabelsAndAnnotations
    <3> QED  BY <3>6, <3>7
  <2> QED  BY <2>1, <2>2
<1> QED
  BY InvariantInit, InvariantNext, <1>1, PTL DEF Spec, KeepsWhatIsNotOurs
=============================================================================
