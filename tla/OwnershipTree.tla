--------------------------- MODULE OwnershipTree ---------------------------
(* What the operator promises of the children of a plan, whatever its threads,
   retries and restarts do: "The CR is the root of an ownership tree"
   (docs/designs/spec-01-crd-operator.md).  A child appears only while the plan
   stands and only if some version of the plan's spec has asked for it; once the
   plan is gone children only go.  When and why a child goes is left open.    *)
CONSTANT Objects

VARIABLES
    standing,   \* the plan exists
    asked,      \* objects the specs of the plan so far have named
    owned       \* objects that carry the ownerReference of a plan

vars == <<standing, asked, owned>>

Init == standing = FALSE /\ asked = {} /\ owned = {}

Plant(named) ==
    /\ ~standing
    /\ standing' = TRUE /\ asked' = named /\ owned' = owned

Ask(named) ==
    /\ standing
    /\ asked' = asked \cup named
    /\ UNCHANGED <<standing, owned>>

Grow(o) ==
    /\ standing /\ o \in asked
    /\ owned' = owned \cup {o}
    /\ UNCHANGED <<standing, asked>>

Shed(o) ==
    /\ owned' = owned \ {o}
    /\ UNCHANGED <<standing, asked>>

Fell ==
    /\ standing
    /\ standing' = FALSE
    /\ UNCHANGED <<asked, owned>>

Next ==
    \/ \E named \in SUBSET Objects : Plant(named) \/ Ask(named)
    \/ \E o \in Objects : Grow(o) \/ Shed(o)
    \/ Fell

Spec == Init /\ [][Next]_vars
=============================================================================
