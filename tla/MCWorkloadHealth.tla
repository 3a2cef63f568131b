-------------------------- MODULE MCWorkloadHealth --------------------------
(* A Deployment next to a ConfigMap that another controller holds, or a Job in
   its place.                                                                 *)
EXTENDS WorkloadHealth

CONSTANTS web, cfg, o1, o2, o3, m1, m2, m3, other

MCComponents == {web, cfg}
MCObjects == {o1, o2, o3}
MCManifests == {m1, m2, m3}
MCObjectOf == [m \in MCManifests |-> IF m = m1 THEN o1 ELSE IF m = m2 THEN o2 ELSE o3]
MCKindOf == [o \in MCObjects |-> IF o = o1 THEN "Deployment" ELSE IF o = o2 THEN "Job" ELSE "ConfigMap"]

Plan2(w, c) == [x \in MCComponents |-> IF x = web THEN w ELSE c]

MCSpecs == {Plan2(m1, m3), Plan2(m2, None)}
MCForeign == {o3}
MCNamePrefixed == {<<o2, o1>>}
=============================================================================
