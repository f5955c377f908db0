-------------------------- MODULE MCOwnedObjects --------------------------
(* A small instance of OwnedObjects for TLC: in each family one field of   *)
(* one kind of object varies, so that edits of it meet every disturbance.  *)
(* Containers and init containers, and the templates of a StatefulSet and  *)
(* of a deployment, are copied by the same tables: one of each is enough.  *)
EXTENDS OwnedObjects

Ours(v) == [k \in {"ours"} |-> v]
More(v) == [k \in {"more"} |-> v]
NotThere == [k \in {} |-> Unset]
Values(f) ==
  CASE f \in Maps           -> {Ours("a"), Merge(Ours(Unset), More("b")), Merge(Ours("b"), More(Unset))}
    [] f = "persistence"     -> {NotThere} \cup [copied : {"a", "b"}, rest : {"a", "b"}]
    [] f = "sessionAffinity" -> {Unset, "None", ClientIP}
    [] OTHER                 -> {Unset, "a", "b"}

Item(rules) == [f \in DOMAIN rules |-> Unset]
Base(kind) ==
  [fields |-> [f \in DOMAIN Schema(kind).fields |->
                 CASE f \in Maps -> Ours("a")
                   [] f = "sessionAffinity" -> ClientIP
                   [] f = "persistence" -> NotThere
                   [] OTHER -> Unset],
   lists |-> [l \in DOMAIN Schema(kind).lists |-> <<Item(Schema(kind).lists[l])>>]]

FieldFamilies ==
  UNION {{[kind |-> k, list |-> "", field |-> f] :
            f \in DOMAIN Schema(k).fields
                  \ IF k = "Deployment" THEN DOMAIN CopyPodTemplates.fields ELSE {}} : k \in Kinds}
ListFamilies ==
  UNION {UNION {{[kind |-> k, list |-> l, field |-> f] : f \in DOMAIN Schema(k).lists[l]} :
                  l \in DOMAIN Schema(k).lists \ {"initContainers"}} : k \in {"Ingress", "StatefulSet"}}

MCFamilies == FieldFamilies \cup ListFamilies

MCGenerated ==
  [x \in MCFamilies |->
     IF x.list = ""
       THEN {[Base(x.kind) EXCEPT !.fields[x.field] = v] : v \in Values(x.field)}
       ELSE {[Base(x.kind) EXCEPT !.lists[x.list][1][x.field] = v] : v \in Values(x.field)}
            \cup {[Base(x.kind) EXCEPT !.lists[x.list] = Append(@, [@[1] EXCEPT ![x.field] = "a"])]}]
=============================================================================
