----------------------------- MODULE PlanTools -----------------------------
(* The plan tools of the infrastructure agent (infra_agent/tools): declare_plan,
   update_plan, delete_plan and get_plan_status, beside the operator that works
   on the same plan.

   A tool call reads the plan with get_cr and writes it later with apply_cr, two
   requests to the API server; what it read may be stale when it writes.  Calls
   overlap: the tool node runs the calls of one message together, and threads
   share a cluster.  apply_cr is a server-side apply of the whole plan by one
   field manager for all callers, so it replaces the list of components; it
   takes no note of the version that was read, and creates a missing plan.

   The plan, its generations and the operator are those of WorkloadOperator.  In
   this module the tools are the only agents that create, edit or delete it.   *)
EXTENDS WorkloadOperator

CONSTANTS
    Callers,    \* tool calls that may be in flight at a time
    Requests,   \* what the model may ask the tools for
    Placed      \* a manifest as a caller sends it: in a namespace

(* A list of components, or None for one that Gate 1 (PlanModel) rejects: no
   component, a name twice, a manifest without apiVersion, kind or name.      *)
Drafts == AllSpecs \cup {None}

Tools == {"declare_plan", "update_component", "update_plan", "delete_component",
          "delete_plan", "get_plan_status"}

(* A request carries what its tool takes, None for the rest. *)
RequestType == [tool : Tools, component : Components \cup {None},
                manifest : Manifests \cup {None}, draft : Drafts]

ASSUME ToolsAssumption ==
    /\ Specs = AllSpecs
    /\ Requests \subseteq RequestType
    /\ \A r \in Requests : r.tool \in {"update_component", "delete_component"}
                              => r.component # None
    /\ Placed \in [Callers -> [Manifests -> Manifests]]

(* A manifest that has a namespace keeps it, and every caller's environment has
   one to give (Environment and ThreadConfig default to "default").           *)
ASSUME PlacingAssumption ==
    \A j, k \in Callers : \A m \in Manifests : Placed[j][Placed[k][m]] = Placed[k][m]

VARIABLES
    call,       \* the tool calls: what they want to write and what they read
    answer      \* the last answer of each caller

toolVars == <<call, answer>>
allVars == <<vars, toolVars>>

NoCall == [pc |-> "idle", want |-> NoSpec, request |-> None, uid |-> 0, gen |-> 0]

ToolInit ==
    /\ Init
    /\ call = [k \in Callers |-> NoCall]
    /\ answer = [k \in Callers |-> "none"]

Answers(k, a) ==
    /\ answer' = [answer EXCEPT ![k] = a]
    /\ call' = [call EXCEPT ![k] = NoCall]
    /\ UNCHANGED vars

Unanswered(k) == answer' = [answer EXCEPT ![k] = "none"] /\ UNCHANGED vars

(* build_workload_plan: the whole list, each manifest in its namespace. *)
Built(k, s) ==
    [c \in Components |-> IF s[c] = None THEN None ELSE Placed[k][s[c]]]

Continues(k, pc, want) ==
    /\ call' = [call EXCEPT ![k].pc = pc, ![k].want = want,
                            ![k].uid = plan.uid, ![k].gen = plan.generation]
    /\ UNCHANGED answer /\ UNCHANGED vars
-----------------------------------------------------------------------------
(* Mutant: what Gate 1 says is not heeded. *)
DeclareUnchecked(k, r) ==
    /\ call[k].pc = "idle" /\ r.tool = "declare_plan"
    /\ call' = [call EXCEPT ![k] = [NoCall EXCEPT !.pc = "apply",
                                       !.want = r.draft, !.request = r]]
    /\ Unanswered(k)

(* declare_plan goes straight to the apply, once Gate 1 has passed. *)
Declare(k, r) ==
    /\ call[k].pc = "idle" /\ r.tool = "declare_plan"
    /\ \/ r.draft = None /\ Answers(k, "invalid")
       \/ /\ r.draft # None
          /\ call' = [call EXCEPT ![k] = [NoCall EXCEPT !.pc = "apply",
                                    !.want = Built(k, r.draft), !.request = r]]
          /\ Unanswered(k)

Begin(k, r) ==
    /\ call[k].pc = "idle" /\ r.tool # "declare_plan"
    /\ call' = [call EXCEPT ![k] = [NoCall EXCEPT !.pc = "read", !.request = r]]
    /\ Unanswered(k)

Reads(k, tool) == call[k].pc = "read" /\ call[k].request.tool = tool

(* get_cr fails, or finds no plan: every tool answers at once. *)
ReadFails(k) == call[k].pc = "read" /\ Answers(k, "error")

ReadNothing(k) ==
    /\ call[k].pc = "read" /\ plan.life = "gone"
    /\ Answers(k, "missing")

(* Mutant: the edited component is sent alone. *)
MergedAlone(r) == [NoSpec EXCEPT ![r.component] = r.manifest]

(* [c for c in existing if c.name != comp.name] + [comp] *)
Merged(r) == [Current EXCEPT ![r.component] = r.manifest]

ReadForUpdateComponent(k) ==
    LET r == call[k].request
    IN  /\ Reads(k, "update_component") /\ plan.life # "gone"
        /\ \/ r.manifest = None /\ Answers(k, "invalid")
           \/ r.manifest # None /\ Continues(k, "apply", Built(k, Merged(r)))

ReadForUpdatePlan(k) ==
    LET r == call[k].request
    IN  /\ Reads(k, "update_plan") /\ plan.life # "gone"
        /\ \/ r.draft = None /\ Answers(k, "invalid")
           \/ r.draft # None /\ Continues(k, "apply", Built(k, r.draft))

(* Mutant: the last component may go, and the plan with no component stays. *)
ReadForDeleteUnguarded(k) ==
    LET c == call[k].request.component
    IN  /\ Reads(k, "delete_component") /\ plan.life # "gone"
        /\ \/ Current[c] = None /\ Answers(k, "component_missing")
           \/ Current[c] # None /\ Continues(k, "apply", [Current EXCEPT ![c] = None])

(* [component for component in existing if component.name != component_name] *)
ReadForDeleteComponent(k) ==
    LET c == call[k].request.component
    IN  /\ Reads(k, "delete_component") /\ plan.life # "gone"
        /\ \/ Current[c] = None /\ Answers(k, "component_missing")
           \/ Names(Current) = {c} /\ Answers(k, "last_component")
           \/ /\ Current[c] # None /\ Names(Current) # {c}
              /\ Continues(k, "apply", Built(k, [Current EXCEPT ![c] = None]))

ReadForDeletePlan(k) ==
    /\ Reads(k, "delete_plan") /\ plan.life # "gone"
    /\ Continues(k, "delete", NoSpec)

(* _reconcile_behind: no reconcile of the current generation is on record. *)
Behind == plan.status.observed < plan.generation

(* Mutant: one generation behind passes for up to date. *)
VerdictWithin1 ==
    IF Phase(plan.status.children) = "Failed" \/ plan.status.observed + 1 < plan.generation
    THEN "stuck" ELSE "converging"

(* What the plan by itself says of a phase that is not Ready. *)
Verdict ==
    IF Phase(plan.status.children) = "Failed" \/ Behind THEN "stuck" ELSE "converging"

ReadForStatus(k) ==
    /\ Reads(k, "get_plan_status") /\ plan.life # "gone"
    /\ \/ plan.status = NoStatus /\ Answers(k, "no_status")
       \/ /\ plan.status # NoStatus
          /\ \/ Phase(plan.status.children) = "Ready" /\ Answers(k, "ready")
             \/ /\ Phase(plan.status.children) # "Ready"
                /\ Continues(k, Verdict, NoSpec)

(* _gather_diagnostics lists the events after that, in requests of their own; the
   plan is not read again.  An event list that fails counts as empty.         *)
EventsForStatus(k) ==
    /\ call[k].pc \in {"stuck", "converging"}
    /\ \E warned \in BOOLEAN : Answers(k, IF warned THEN "stuck" ELSE call[k].pc)
-----------------------------------------------------------------------------
(* The API server takes the apply: a plan that is missing is created, one that
   says the same keeps its generation.                                        *)
Written(spec) ==
    \/ plan.life = "gone" /\ CreatePlan(spec)
    \/ plan.life # "gone" /\ spec # Current /\ EditPlan(spec)
    \/ plan.life # "gone" /\ spec = Current /\ UNCHANGED vars

(* apply_cr.  The answer may get lost: an error is reported of what was done. *)
ApplyPlan(k) ==
    /\ call[k].pc = "apply"
    /\ Written(call[k].want)
    /\ call' = [call EXCEPT ![k] = NoCall]
    /\ \E a \in {"ok", "error"} : answer' = [answer EXCEPT ![k] = a]

(* delete_cr: the plan waits for its finalizer; a missing one is an error. *)
RemovePlan(k) ==
    /\ call[k].pc = "delete" /\ plan.life # "gone"
    /\ \/ DeletePlan
       \/ plan.life = "terminating" /\ UNCHANGED vars
    /\ call' = [call EXCEPT ![k] = NoCall]
    /\ \E a \in {"ok", "error"} : answer' = [answer EXCEPT ![k] = a]

WriteFails(k) ==
    /\ call[k].pc \in {"apply", "delete"}
    /\ Answers(k, "error")
-----------------------------------------------------------------------------
ToolStep(k) ==
    \/ ReadFails(k) \/ ReadNothing(k)
    \/ ReadForUpdateComponent(k) \/ ReadForUpdatePlan(k)
    \/ ReadForDeleteComponent(k) \/ ReadForDeletePlan(k)
    \/ ReadForStatus(k) \/ EventsForStatus(k)
    \/ ApplyPlan(k) \/ RemovePlan(k) \/ WriteFails(k)
    \/ \E r \in Requests : Declare(k, r) \/ Begin(k, r)

ClusterStep ==
    \/ ReconcileNext \/ SweepNext \/ PlatformNext \/ Crash
    \/ \E o \in Objects : Lose(o) \/ \E h \in Outcomes : ChangeHealth(o, h)

ToolNext ==
    \/ \E k \in Callers : ToolStep(k)
    \/ ClusterStep /\ UNCHANGED toolVars

ToolSpec == ToolInit /\ [][ToolNext]_allVars
-----------------------------------------------------------------------------
AnswerType == {"none", "ok", "error", "missing", "invalid", "component_missing",
               "last_component", "no_status", "ready", "stuck", "converging"}

CallType == [pc : {"idle", "read", "stuck", "converging", "apply", "delete"},
             want : AllSpecs \cup {NoSpec}, request : Requests \cup {None},
             uid : 0 .. MaxPlans, gen : Generations]

(* The calls have their shape, a plan that stands has a spec Gate 1 accepts, and
   what a call is about to apply is one as well, whoever else has written to the
   plan since the call read it.                                               *)
GateHolds ==
    /\ call \in [Callers -> CallType]
    /\ answer \in [Callers -> AnswerType]
    /\ plan.life # "gone" => Current \in AllSpecs
    /\ \A k \in Callers :
          /\ call[k].pc = "apply" => call[k].want \in AllSpecs
          /\ call[k].pc # "idle" => call[k].request \in Requests

(* The tools drive the operator only as its own specification allows: all that
   is checked and proved of WorkloadOperator holds of plans made by the tools. *)
OperatorSpec == Spec

(* update_plan: "leaving every other component untouched", delete_plan: "leaves
   the rest of the plan running".  An edit of one component that meets the plan
   as it read it changes that component and no other.                         *)
EditIsLocal ==
    [][\A k \in Callers :
          /\ call[k].pc = "apply" /\ call'[k].pc = "idle" /\ plan' # plan
          /\ call[k].request.tool \in {"update_component", "delete_component"}
          /\ call[k].uid = plan.uid /\ call[k].gen = plan.generation
          => \A c \in Components :
                c = call[k].request.component \/ Current'[c] = Current[c]]_allVars

(* "a Pending plan with no warnings is still converging, so poll again".  The
   plan has been read some requests before that is answered.  Whatever handlers
   and other calls have written since, the operator has recorded the generation
   the plan has when it is answered - unless the plan has been edited, deleted or
   created anew in between.                                                   *)
PollingIsSound ==
    [][\A k \in Callers :
          /\ answer[k] # "converging" /\ answer'[k] = "converging"
          /\ plan.life # "gone"
          /\ call[k].uid = plan.uid /\ call[k].gen = plan.generation
          => plan.status.observed = plan.generation]_allVars

(* get_plan_status: "When the plan has failed, is behind on reconcile, or has
   surfaced Warning events on the plan or a child, it renders the stuck view
   instead."  Ready is never the answer for a plan that is behind.            *)
ReadyIsNotBehind ==
    [][\A k \in Callers :
          answer[k] # "ready" /\ answer'[k] = "ready" => ~Behind]_allVars
=============================================================================
