--------------------------- MODULE OwnedObjects ---------------------------
(***************************************************************************)
(* One object the operator owns: the service, config map, ingress,         *)
(* disruption budget, StatefulSet, deployment or ZooKeeper cluster that    *)
(* Reconcile generates, reads, and creates or updates.  The API server     *)
(* fills in defaults and refuses an update of what has changed since it    *)
(* was read; users and other controllers write to the object too.          *)
(***************************************************************************)
EXTENDS ObjectCopy

CONSTANTS
  Families,       \* pairs of a kind and the objects a user's edits may generate
  Generated,      \* the objects of a family
  ForeignKeys,    \* labels and annotations others add
  Us, Other,      \* controllers
  NoObject,
  MaxEdits, MaxFaults   \* bounds: edits of the resource, other disturbances

ASSUME OwnedAssumption ==
  /\ MaxEdits \in Nat /\ MaxFaults \in Nat
  /\ Us # Other
  /\ Unset # DefaultAccount
  /\ \A x \in Families :
       /\ x.kind \in Kinds
       /\ \A object \in Generated[x] : DOMAIN object.fields = DOMAIN Schema(x.kind).fields

VARIABLES
  family,       \* fixed: the kind and the objects that may be generated
  wanted,       \* what Reconcile would generate now
  stored,       \* the object, or NoObject
  controller,   \* who controls it
  pc, view,     \* the reconcile, and what it generated and read
  stale,        \* the object has been written since
  wake,         \* a reconcile is to run
  edits, faults

vars == <<family, wanted, stored, controller, pc, view, stale, wake, edits, faults>>

schema == Schema(family.kind)

ClientIP == "ClientIP"

\* What the API server fills in: comments in CopyServiceFields, CopyPodContainers.
ServerDefaults == {"sessionAffinity", "clusterIP", "imagePullPolicy",
                   "terminationMessagePath", "terminationMessagePolicy"}
\* What the ZooKeeper operator writes: comments in CopyZookeeperClusterFields.
ForeignDefaults == {"image.tag", "pod.affinity", "kubernetesClusterDomain",
                    "pod.serviceAccountName"}

FillIn(names, fields) ==
  [f \in DOMAIN fields |->
     IF f \in names /\ fields[f] = Unset THEN DefaultAccount ELSE fields[f]]

\* The configuration of a session affinity is filled in where there is one.
AffinityDefaulted(fields) ==
  IF "sessionAffinity" \in DOMAIN fields /\ fields["sessionAffinity"] = ClientIP
    THEN FillIn({"sessionAffinityConfig"}, fields)
    ELSE fields

Defaulted(object) ==
  [fields |-> AffinityDefaulted(FillIn(ServerDefaults, object.fields)),
   lists |-> [l \in DOMAIN object.lists |->
                [i \in DOMAIN object.lists[l] |->
                   FillIn(ServerDefaults, object.lists[l][i])]]]

-----------------------------------------------------------------------------
Init ==
  /\ family \in Families
  /\ wanted \in Generated[family]
  /\ stored = NoObject
  /\ controller = Us
  /\ pc = "idle" /\ view = [wanted |-> wanted, found |-> NoObject, by |-> Us] /\ stale = FALSE
  /\ wake = TRUE
  /\ edits = MaxEdits /\ faults = MaxFaults

\* Generate the object that should exist, and read the one that does.
Get ==
  /\ pc = "idle" /\ wake
  /\ pc' = "read"
  /\ view' = [wanted |-> wanted, found |-> stored, by |-> controller]
  /\ stale' = FALSE
  /\ wake' = FALSE
  /\ UNCHANGED <<family, wanted, stored, controller, edits, faults>>

Done == pc' = "idle" /\ UNCHANGED <<family, wanted, view, edits, faults>>

\* The call fails, and the reconcile is queued again.
Refused == wake' = TRUE /\ Done /\ UNCHANGED <<stored, controller, stale>>

Create ==
  /\ pc = "read" /\ view.found = NoObject
  /\ IF stored = NoObject
       THEN /\ stored' = Defaulted(view.wanted)
            /\ controller' = Us
            /\ wake' = TRUE
            /\ UNCHANGED stale
            /\ Done
       ELSE Refused

NothingToDo == ~RequireUpdate(schema, view.wanted, view.found) /\ view.by = Us

\* An update that changes nothing raises no event.
Write(object) ==
  IF stale \/ stored = NoObject
    THEN Refused
    ELSE /\ stored' = Defaulted(object)
         /\ controller' = Us
         /\ wake' = (wake \/ stored' # stored \/ controller # Us)
         /\ UNCHANGED stale
         /\ Done

\* OvertakeControllerRef and the copy of the fields, in one update.
Update ==
  /\ pc = "read" /\ view.found # NoObject
  /\ ~NothingToDo
  /\ Write(CopyObject(schema, view.wanted, view.found))

\* Neither asks for an update: what the copy assigned is not written.
UpToDate ==
  /\ pc = "read" /\ view.found # NoObject
  /\ NothingToDo
  /\ Done
  /\ UNCHANGED <<stored, controller, stale, wake>>

Fails == pc = "read" /\ faults > 0 /\ faults' = faults - 1 /\ pc' = "idle" /\ wake' = TRUE
         /\ UNCHANGED <<family, wanted, stored, controller, view, stale, edits>>

-----------------------------------------------------------------------------
(* Others.  The operator watches what it owns, whoever writes to it.       *)

UserEdits ==
  /\ edits > 0 /\ edits' = edits - 1
  /\ wanted' \in Generated[family] \ {wanted}
  /\ wake' = TRUE
  /\ UNCHANGED <<family, stored, controller, pc, view, stale, faults>>

ForeignWrite(object) ==
  /\ stored # NoObject
  /\ stored' = object
  /\ stale' = TRUE
  /\ wake' = TRUE

AddForeignKey ==
  /\ faults > 0 /\ faults' = faults - 1
  /\ \E f \in {"labels", "annotations"}, k \in ForeignKeys :
       /\ stored # NoObject
       /\ k \notin DOMAIN stored.fields[f]
       /\ ForeignWrite([stored EXCEPT !.fields[f] = Merge([x \in {k} |-> "theirs"], @)])
  /\ UNCHANGED <<family, wanted, controller, pc, view, edits>>

TakeOver ==
  /\ faults > 0 /\ faults' = faults - 1
  /\ controller # Other
  /\ controller' = Other
  /\ ForeignWrite(stored)
  /\ UNCHANGED <<family, wanted, pc, view, edits>>

DeleteObject ==
  /\ faults > 0 /\ faults' = faults - 1
  /\ stored # NoObject
  /\ stored' = NoObject
  /\ controller' = Us
  /\ stale' = TRUE /\ wake' = TRUE
  /\ UNCHANGED <<family, wanted, pc, view, edits>>

\* The operator of the ZooKeeper clusters sets what is not set.
ZookeeperOperator ==
  /\ stored # NoObject
  /\ FillIn(ForeignDefaults, stored.fields) # stored.fields
  /\ ForeignWrite([stored EXCEPT !.fields = FillIn(ForeignDefaults, @)])
  /\ UNCHANGED <<family, wanted, controller, pc, view, edits, faults>>

ReconcileStep == Get \/ Create \/ Update \/ UpToDate

Next ==
  \/ ReconcileStep \/ Fails
  \/ UserEdits \/ AddForeignKey \/ TakeOver \/ DeleteObject
  \/ ZookeeperOperator

Spec == Init /\ [][Next]_vars

\* The queue runs a reconcile that is due, and the other operator runs too.
FairSpec == Spec /\ WF_vars(ReconcileStep) /\ WF_vars(ZookeeperOperator)

-----------------------------------------------------------------------------
(* Properties.                                                             *)

Entries == {"labels", "annotations"}
Maps == Entries \cup {"hostAliases"}
\* What this reconcile never writes: fields that cannot be changed, and the
\* replicas of a StatefulSet.
Preserved == {"clusterIP", "spec.selector", "podManagementPolicy", "volumeClaimTemplates",
              "statefulSet.replicas"}
\* Fields that keep what they have once they are no longer generated.
Sticky == ServerDefaults \cup ForeignDefaults \cup {"ingressClassName", "sessionAffinityConfig"}

\* An update of the operator keeps what it does not own: the labels, the
\* annotations and the host aliases it does not generate, even those added
\* after it read the object, the fields that cannot be changed, and the
\* replicas of a StatefulSet, which the scaling sets
\* (CopyLabelsAndAnnotations: "Additional Labels and Annotations in the 'to'
\* object will not be removed").
KeepsWhatIsNotOurs ==
  [][Update /\ stored # NoObject =>
       \A f \in DOMAIN stored.fields :
         /\ f \in Preserved => stored'.fields[f] = stored.fields[f]
         /\ f \in Maps =>
              \A k \in DOMAIN stored.fields[f] \ DOMAIN view.wanted.fields[f] :
                /\ k \in DOMAIN stored'.fields[f]
                /\ stored'.fields[f][k] = stored.fields[f][k]]_vars

\* Nobody writes to the object for ever: the operator does not remove what the
\* API server or the ZooKeeper operator fill in again (the comments on
\* ImagePullPolicy, SessionAffinity and Affinity).
WritesEnd == <>[][stored' = stored]_vars

\* The type of a path is left out: the API server does not let it be unset.
Agrees(from, to) ==
  \A f \in DOMAIN from \ (Preserved \cup {"pathType"}) :
    CASE f \in Entries       -> \A k \in DOMAIN from[f] : Lookup(to[f], k) = from[f][k]
      [] f = "hostAliases"   -> \A k \in DOMAIN from[f] : k \in DOMAIN to[f] /\ to[f][k] = from[f][k]
      [] f = "persistence"   -> ~Requires("persistence", from[f], to[f])
      [] OTHER               -> to[f] = from[f] \/ (from[f] = Unset /\ f \in Sticky)

=============================================================================
