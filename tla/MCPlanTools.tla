---------------------------- MODULE MCPlanTools ----------------------------
(* Small instances of PlanTools for TLC: what two overlapping tool calls may ask
   for, with every way a request can be refused.                              *)
EXTENDS PlanTools, MCWorkloadPlans, TLC

CONSTANT m1bare

(* m1bare is m1 without a namespace. *)
BareManifests == MCManifests \cup {m1bare}
BareObjectOf == [m \in BareManifests |-> IF m = m2 THEN o2 ELSE o1]
MCPlaced == [k \in Callers |-> [m \in BareManifests |-> IF m = m1bare THEN m1 ELSE m]]

Ask(tool, c, m, d) == [tool |-> tool, component |-> c, manifest |-> m, draft |-> d]

(* Two components with an object each; web is edited, cfg comes and goes. *)
MCRequests ==
    {Ask("declare_plan", None, None, d) : d \in {Plan2(m1bare, m2), None}}
    \cup {Ask("update_component", web, m, None) : m \in {m1v2, None}}
    \cup {Ask("update_component", cfg, m2, None)}
    \cup {Ask("update_plan", None, None, d) : d \in {Plan2(None, m2), None}}
    \cup {Ask("delete_component", cfg, None, None),
          Ask("delete_component", web, None, None),
          Ask("delete_plan", None, None, None),
          Ask("get_plan_status", None, None, None)}

(* The callers are interchangeable. *)
CallerSymmetry == Permutations(Callers)
=============================================================================
