-------------------------- MODULE WorkloadPlanCore --------------------------
(* The decisions of workload_operator/core.py that the handlers take on the
   plan as a whole: which phase the children add up to, and which recorded
   children have lost their component.

   A child is what one ChildStatus says of a component: the coordinates of its
   object (apiVersion, kind, namespace and name, here one value) and its health,
   one of three because `ready` and `failed` are never both true.  Notes are
   left out.  A list of children is a function on the components in which None
   marks a component that has no entry: the CRD keys the list by name.        *)

CONSTANTS
    Components,     \* the component names a plan may use
    Objects,        \* coordinates of cluster objects
    None            \* the absent manifest, child or object

Healths == {"pending", "ready", "failed"}

Child == [object : Objects, health : Healths]

ASSUME CoreAssumption == None \notin Components \cup Objects \cup Child

NoChildren == [c \in Components |-> None]

ChildList == [Components -> Child \cup {None}]

Listed(children) == {c \in Components : children[c] # None}

(* compute_phase: failed wins; ready needs a child and every child ready. *)
Phase(children) ==
    LET healths == {children[c].health : c \in Listed(children)}
    IN  IF "failed" \in healths THEN "Failed"
        ELSE IF healths = {"ready"} THEN "Ready" ELSE "Pending"

(* The conditions of plan_status_digest: NeedsAttention names the failed ones. *)
NeedsAttention(children) ==
    {c \in Listed(children) : children[c].health = "failed"}

(* orphaned_children: the entries whose component left the desired names. *)
Orphaned(desired, children) == Listed(children) \ desired
=============================================================================
