--------------------------- MODULE WorkloadHealth ---------------------------
(* How a child gets its health, and how a failure gets to a human: the health
   adapters and the pod digest of workload_operator/core.py, the two reads of
   the sweep, and the tools that read the status (workload_plan.py).

   WorkloadOperator lets the health of an object change by itself.  Here an
   object has the status its own controller writes, the adapters judge it, and
   the pods of a Deployment are listed in a second call, which may fail or come
   after the pods have changed.  The `health` field of the cluster is not used.
   Deleted plans, crashes and lost children are left to WorkloadOperator.  An
   object whose manifest is edited keeps its status until its controller
   writes another one.                                                        *)
EXTENDS WorkloadOperator, FiniteSets

CONSTANTS
    KindOf,             \* the kind of an object
    Replicas,           \* pods a Deployment asks for
    BackoffLimit,       \* failed attempts a Job may have
    RestartThreshold,   \* RESTART_THRESHOLD
    DiagnosticLimit,    \* lines a diagnosis may have, one for an object
    NamePrefixed,       \* pairs <<a, b>>: the name of b begins with that of a and "-"
    OtherTargets        \* kubernetes environments besides the plan's own

ASSUME HealthAssumption ==
    /\ Replicas \in Nat /\ BackoffLimit \in Nat
    /\ RestartThreshold \in Nat \ {0} /\ DiagnosticLimit \in Nat \ 0 .. 2
    /\ NamePrefixed \subseteq Objects \X Objects

VARIABLES
    workload,   \* what the controllers have written of each object and its pods
    probe       \* the sweep has judged an object and is about to list its pods

healthVars == <<vars, workload, probe>>
-----------------------------------------------------------------------------
(* Kubernetes: a container starts, is ready or waits (CrashLoopBackOff,
   ImagePullBackOff ...); its restart count stops counting at the threshold.  *)
NewPod == [state |-> "starting", restarts |-> 0]

Fresh(o) ==
    CASE KindOf[o] = "Deployment" -> [stalled |-> FALSE, pods |-> [p \in 1 .. Replicas |-> NewPod]]
      [] KindOf[o] = "Job"        -> [succeeded |-> 0, failed |-> 0]
      [] KindOf[o] = "Pod"        -> [phase |-> "Pending", ready |-> FALSE]
      [] OTHER                    -> "exists"

Restarted(k) == IF k.restarts < RestartThreshold THEN k.restarts + 1 ELSE k.restarts

(* An image that cannot be pulled stops the first start; later a container only
   waits after it has crashed; a replaced pod counts from zero again.         *)
PodMoves(k) ==
    {NewPod}
    \cup (IF k.state = "waiting" THEN {[k EXCEPT !.state = "starting"]}
          ELSE {[k EXCEPT !.state = s] : s \in {"starting", "ready"}}
               \cup [state : {"starting", "waiting"}, restarts : {Restarted(k)}])
    \cup (IF k = NewPod THEN {[k EXCEPT !.state = "waiting"]} ELSE {})

Moves(o) ==
    LET w == workload[o]
    IN  CASE KindOf[o] = "Deployment" ->
                {[w EXCEPT !.stalled = b] : b \in BOOLEAN}
                \cup UNION {{[w EXCEPT !.pods[p] = k] : k \in PodMoves(w.pods[p])} :
                               p \in 1 .. Replicas}
          [] KindOf[o] = "Job" ->
                IF w.succeeded = 1 \/ w.failed > BackoffLimit THEN {}
                ELSE {[w EXCEPT !.succeeded = 1], [w EXCEPT !.failed = @ + 1]}
          [] KindOf[o] = "Pod" ->
                [phase : {"Running", "Succeeded", "Failed"}, ready : BOOLEAN]
          [] OTHER -> {}
-----------------------------------------------------------------------------
(* The adapters: one health per kind, from the object alone. *)
ReadyReplicas(w) == Cardinality({p \in 1 .. Replicas : w.pods[p].state = "ready"})

(* Mutant: the rollout deadline is not looked at. *)
DeploymentCounts(w) == IF ReadyReplicas(w) >= Replicas THEN "ready" ELSE "pending"

DeploymentHealth(w) ==
    IF w.stalled THEN "failed"
    ELSE IF ReadyReplicas(w) >= Replicas THEN "ready" ELSE "pending"

JobHealth(w) ==
    IF w.succeeded >= 1 THEN "ready"
    ELSE IF w.failed > BackoffLimit THEN "failed" ELSE "pending"

PodHealth(w) ==
    IF w.phase = "Running" /\ w.ready THEN "ready"
    ELSE IF w.phase = "Failed" THEN "failed" ELSE "pending"

(* HEALTH_ADAPTERS and is_ready: a kind without an adapter is ready. *)
IsReady(o) ==
    CASE KindOf[o] = "Deployment" -> DeploymentHealth(workload[o])
      [] KindOf[o] = "Job"        -> JobHealth(workload[o])
      [] KindOf[o] = "Pod"        -> PodHealth(workload[o])
      [] OTHER                    -> "ready"

PodOwning(o) == KindOf[o] = "Deployment"

(* list_pods: the pods that carry the labels of the object's selector. *)
PodsOf(o) ==
    IF Live(o) /\ PodOwning(o) THEN {workload[o].pods[p] : p \in 1 .. Replicas} ELSE {}

(* Mutant: only what a container waits for counts, not how often it restarted. *)
FatalWaiting(pods) == \E k \in pods : k.state = "waiting"

(* fatal_pod_reason finds one. *)
FatalPod(pods) ==
    \E k \in pods : k.state = "waiting" \/ k.restarts >= RestartThreshold
-----------------------------------------------------------------------------
Judged(c, h) ==
    /\ sweep' = [sweep EXCEPT !.todo = @ \ {c}, !.done[c] = Entry(sweep.gen, c, h)]
    /\ probe' = None
    /\ SweepLocal /\ UNCHANGED <<cluster, workload>>

(* get_object: the object settles its health, or its pods are asked next. *)
GetObject(c) ==
    LET o == ObjectOf[plan.spec[sweep.gen][c]]
        h == IsReady(o)
    IN  /\ Turn(c) /\ probe = None /\ Live(o)
        /\ IF PodOwning(o) /\ h # "ready"
           THEN /\ probe' = [component |-> c, health |-> h]
                /\ SweepLocal /\ UNCHANGED <<sweep, cluster, workload>>
           ELSE Judged(c, h)
        /\ UNCHANGED budget

(* The pods of the object as they are by now; gone with it, none are listed. *)
ListPods ==
    /\ probe # None
    /\ LET c == probe.component
       IN  Judged(c, IF FatalPod(PodsOf(ObjectOf[plan.spec[sweep.gen][c]]))
                     THEN "failed" ELSE probe.health)
    /\ UNCHANGED budget

(* Either call fails: the child is recorded as failed, with the error. *)
GetObjectFails(c) == Turn(c) /\ probe = None /\ CallFails /\ Judged(c, "failed")

ListPodsFails == probe # None /\ CallFails /\ Judged(probe.component, "failed")

(* An object that goes takes its status and its pods with it. *)
Settled == workload' = [o \in Objects |-> IF cluster'[o] = None THEN Fresh(o) ELSE workload[o]]

HealthSweepNext ==
    \/ StartSweep /\ Settled /\ UNCHANGED probe
    \/ FinishSweep /\ Settled /\ UNCHANGED probe
    \/ ListPods \/ ListPodsFails
    \/ \E c \in Components :
          \/ GetObject(c) \/ GetObjectFails(c)
          \/ /\ probe = None
             /\ SweepMisses(c) \/ SweepHeal(c) \/ SweepHealFails(c)
             /\ Settled /\ UNCHANGED probe

(* The controllers of the cluster write the status of a live object. *)
WorkloadMoves(o) ==
    /\ Live(o)
    /\ \E w \in Moves(o) \ {workload[o]} : workload' = [workload EXCEPT ![o] = w]
    /\ UNCHANGED <<vars, probe>>

HealthInit ==
    /\ Init
    /\ workload = [o \in Objects |-> Fresh(o)]
    /\ probe = None

HealthReconcileNext == ReconcileNext /\ Settled /\ UNCHANGED probe

HealthNext ==
    \/ HealthSweepNext \/ HealthReconcileNext
    \/ \E s \in Specs : (CreatePlan(s) \/ EditPlan(s)) /\ Settled /\ UNCHANGED probe
    \/ \E o \in Objects : WorkloadMoves(o)

(* The two threads keep running; nothing is asked of the workloads or of the
   network.                                                                   *)
HealthSpec ==
    /\ HealthInit /\ [][HealthNext]_healthVars
    /\ WF_healthVars(HealthReconcileNext)
    /\ WF_healthVars(HealthSweepNext)
-----------------------------------------------------------------------------
(* The tools that read the status.  A Warning event lies on an object or on one
   of its pods, and names it; the API server keeps those of pods that failed to
   start or crashed.                                                          *)
WarnedObjects ==
    {o \in Objects : \E k \in PodsOf(o) : k.state = "waiting" \/ k.restarts > 0}

(* _owns: a pod's name is the child's and a hash, and so is that of a child
   whose name only begins alike.                                              *)
Owns(child, involved) == child = involved \/ <<child, involved>> \in NamePrefixed

(* _gather_diagnostics: first at most two warnings on the plan object itself,
   which the operator's failed calls leave there and anybody else may; then the
   events of every child that is not ready, whatever order they come in, and in
   all no more than the limit.                                                *)
OnPlan == 0 .. 2

Unready(children) == {c \in Listed(children) : children[c].health # "ready"}

Explaining(children) ==
    {o \in WarnedObjects : \E c \in Unready(children) : Owns(children[c].object, o)}

Diagnoses(children) ==
    LET all == Explaining(children)
    IN  {d \in [onPlan : OnPlan, objects : SUBSET all] :
            d.objects = all \/ d.onPlan + Cardinality(d.objects) = DiagnosticLimit}

(* get_plan_status renders the stuck view, with n warnings on the plan object. *)
ShownStuck(n) ==
    LET children == plan.status.children
    IN  /\ Phase(children) # "Ready"
        /\ \/ NeedsAttention(children) # {} \/ n > 0 \/ Explaining(children) # {}
           \/ plan.status.observed < plan.generation

(* _format_plan_components: a component the status does not list is pending. *)
ListedState(c) ==
    IF plan.status.children[c] = None THEN "pending" ELSE plan.status.children[c].health

(* Mutant: a target that does not answer ends the scan. *)
ErrorEndsScan(down) ==
    IF down # {} THEN "error"
    ELSE IF NeedsAttention(plan.status.children) # {} THEN "found" ELSE "none"

(* check_escalations over all targets, those in `down` not answering.  Each target
   is one request that lists its plans, so of this plan one state is read.    *)
CheckEscalations(down) ==
    IF NeedsAttention(plan.status.children) # {} THEN "found"
    ELSE IF down # {} THEN "error" ELSE "none"
-----------------------------------------------------------------------------
ChildObject(c) == ObjectOf[Current[c]]

(* Component c is in the plan and its object lives. *)
Deployed(c) == plan.life = "active" /\ c \in Names(Current) /\ Live(ChildObject(c))

(* The controller of the object of c has given up on it; or the object is not
   ready and a pod of it is terminal.                                         *)
FailingByObject(c) ==
    LET o == ChildObject(c)
    IN  /\ Deployed(c)
        /\ \/ KindOf[o] = "Deployment" /\ workload[o].stalled
           \/ KindOf[o] = "Job" /\ workload[o].failed > BackoffLimit
           \/ KindOf[o] = "Pod" /\ workload[o].phase = "Failed"

FailingByPods(c) ==
    /\ Deployed(c) /\ IsReady(ChildObject(c)) # "ready"
    /\ FatalPod(PodsOf(ChildObject(c)))

(* c stays stuck for one reason; one that changes its reason between the two
   reads of a sweep, in every sweep, could slip through.                      *)
StaysStuck(c) == <>[]FailingByObject(c) \/ <>[]FailingByPods(c)

(* The escalation channel (core.py: "status-as-queue"): a child that stays
   terminally stuck ends up, and stays, in the phase, whichever thread writes
   the status last and however the two reads of a sweep fall between the
   changes of the workload.                                                   *)
FailureEscalates ==
    \A c \in Components : StaysStuck(c) => <>[](Phase(plan.status.children) = "Failed")

(* fatal_pod_reason: "to escalate a crash loop instead of reporting pending
   forever".  A container that crashes again and again is not always waiting
   when the pods are listed; the alarm must not flap with it.                 *)
CrashLoopEscalates ==
    \A c \in Components : \A p \in 1 .. Replicas :
        LET Looping == /\ Deployed(c) /\ PodOwning(ChildObject(c)) /\ IsReady(ChildObject(c)) # "ready"
                       /\ workload[ChildObject(c)].pods[p].restarts > 0
            Waiting == Looping /\ workload[ChildObject(c)].pods[p].state = "waiting"
        IN  <>[]Looping /\ []<>Waiting /\ []<>~Waiting
                => <>[](Phase(plan.status.children) = "Failed")

(* Failed is no trap: a plan whose children stay ready becomes Ready and stays
   so, whatever failures and refusals were reported on the way.               *)
AlarmsClear ==
    <>[](/\ plan.life = "active"
         /\ \A c \in Names(Current) : Deployed(c) /\ IsReady(ChildObject(c)) = "ready")
    => <>[](Phase(plan.status.children) = "Ready")

(* From the container to the human: a child that stays stuck is in the end found
   by every scan of the targets, also when others do not answer; the plan is
   shown stuck and the child failed; and if its pods are to blame, a diagnosis
   that is not full has their warnings.  As all this holds for good from some
   state on, it does so too when the events are listed in requests after the one
   that read the status.                                                      *)
EscalationReaches ==
    \A c \in Components :
        StaysStuck(c) =>
            <>[](/\ \A down \in SUBSET OtherTargets : CheckEscalations(down) = "found"
                 /\ \A n \in OnPlan : ShownStuck(n)
                 /\ ListedState(c) = "failed"
                 /\ \A d \in Diagnoses(plan.status.children) :
                        \/ d.onPlan + Cardinality(d.objects) >= DiagnosticLimit
                        \/ FailingByPods(c) => ChildObject(c) \in d.objects)
=============================================================================
