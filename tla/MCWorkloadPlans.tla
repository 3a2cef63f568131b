-------------------------- MODULE MCWorkloadPlans ---------------------------
(* Small values of the constants of WorkloadOperator for TLC: two components, one
   or two manifests each.                                                     *)
EXTENDS WorkloadOperator

CONSTANTS web, cfg, o1, o2, m1, m1v2, m2

MCComponents == {web, cfg}
MCObjects == {o1, o2}

(* A manifest of object o1, its edited form, and one of object o2. *)
MCManifests == {m1, m1v2, m2}
MCObjectOf == [m \in MCManifests |-> IF m = m2 THEN o2 ELSE o1]

Plan2(w, c) == [x \in MCComponents |-> IF x = web THEN w ELSE c]

(* web always has an object of its own, and so has cfg. *)
OwnObjects == {Plan2(m1, None), Plan2(m1, m2), Plan2(m1v2, None), Plan2(None, m2)}

(* A component edited in place while another one is added or dropped, and one
   that takes over the object of another, or moves to an object of its own.   *)
MovingSpecs == {Plan2(m1, None), Plan2(m1v2, m2), Plan2(None, m1)}

NoForeign == {}
=============================================================================
