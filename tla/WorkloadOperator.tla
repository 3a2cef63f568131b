-------------------------- MODULE WorkloadOperator --------------------------
(* The WorkloadPlan operator (workload_operator/handlers.py and k8s.py): the
   reconcile handler and the health sweep working on one plan object and its
   children through the API server.

   The two handlers are two threads.  Kopf runs a plan's change handlers one at
   a time, on the body of the event that woke them, and the timer beside them.
   Every call a handler makes to the API server is a step of its own; what a
   handler read earlier stays in its local state and may be stale when it is
   used.  Kopf, the API server and the garbage collector are outside the
   repository: their part is modelled from what handlers.py relies on.

   A spec is a function from component names to manifests, None where the plan
   has no such component.  Specs are referred to by generation: plan.spec[g] is
   the spec of generation g, so a handler that took dict(spec) remembers g.   *)
EXTENDS Naturals, WorkloadPlanCore

CONSTANTS
    Manifests,      \* manifests an agent may put in a component
    ObjectOf,       \* the object a manifest names: kind, namespace and name
    Specs,          \* the specs agents submit
    Foreign,        \* objects that exist beforehand, under another controller
    Outcomes,       \* what the health of a workload may change to
    HealthTimer,    \* FALSE: the change handlers alone, without the timer
    MaxPlans,       \* bound: plans created one after the other under the name
    MaxGeneration,  \* bound: spec generations of a plan
    MaxFaults,      \* bound: calls to the API server that fail
    MaxCrashes,     \* bound: operator crashes
    MaxLosses       \* bound: children deleted behind the operator's back

AllSpecs == {s \in [Components -> Manifests \cup {None}] :
                \E c \in Components : s[c] # None}      \* minItems: 1

Slot == [owner : 0 .. MaxPlans, component : Components \cup {None},
         manifest : Manifests \cup {None}, health : Healths]

ASSUME OperatorAssumption ==
    /\ None \notin Manifests \cup Slot
    /\ ObjectOf \in [Manifests -> Objects]
    /\ Specs \subseteq AllSpecs
    /\ Foreign \subseteq Objects
    /\ Outcomes \subseteq Healths
    /\ HealthTimer \in BOOLEAN
    /\ MaxPlans \in Nat /\ MaxGeneration \in Nat \ {0}
    /\ MaxFaults \in Nat /\ MaxCrashes \in Nat /\ MaxLosses \in Nat

VARIABLES
    plan,       \* the plan object on the API server
    handled,    \* generation last reconciled to the end (Kopf's annotation)
    cluster,    \* the child objects on the API server
    up,         \* the operator process runs
    resuming,   \* the resume handler is due since the last start
    seen,       \* generation of the last plan event the process took in, 0: none
    rec,        \* the reconcile handler in flight
    sweep,      \* the health sweep in flight
    budget      \* faults, crashes and losses so far

vars == <<plan, handled, cluster, up, resuming, seen, rec, sweep, budget>>
-----------------------------------------------------------------------------
Generations == 0 .. MaxGeneration
NoSpec      == [c \in Components |-> None]
NoStatus    == [children |-> NoChildren, observed |-> 0]
Names(s)    == {c \in Components : s[c] # None}
Current     == plan.spec[plan.generation]
Foreigner   == 0        \* the owner of objects another controller holds

Unreconciled == [pc |-> "idle", gen |-> 0, recorded |-> NoChildren,
                 todo |-> {}, done |-> NoChildren]
Unswept      == [pc |-> "idle", gen |-> 0, todo |-> {}, healing |-> None,
                 done |-> NoChildren]

(* What has been applied by whom: no plan yet, only the foreign objects. *)
Init ==
    /\ plan = [life |-> "gone", uid |-> 0, generation |-> 0,
               spec |-> [g \in Generations |-> NoSpec], status |-> NoStatus]
    /\ handled = 0
    /\ cluster = [o \in Objects |->
                    IF o \in Foreign
                    THEN [owner |-> Foreigner, component |-> None,
                          manifest |-> None, health |-> "ready"]
                    ELSE None]
    /\ up = TRUE /\ resuming = FALSE /\ seen = 0
    /\ rec = Unreconciled /\ sweep = Unswept
    /\ budget = [faults |-> 0, crashes |-> 0, losses |-> 0]

Live(o) == cluster[o] # None

(* One call to the API server fails: its own error, a lost connection. *)
CallFails ==
    /\ budget.faults < MaxFaults
    /\ budget' = [budget EXCEPT !.faults = @ + 1]

(* A server-side apply of build_child(component, owner): the object is created
   or taken over, with the plan as its controller.  An object that has another
   controller keeps it: the API server refuses a second one.                  *)
Refuses(o) == Live(o) /\ cluster[o].owner = Foreigner

Apply(c, m) ==
    LET o == ObjectOf[m]
    IN  /\ ~Refuses(o)
        /\ cluster' = [cluster EXCEPT ![o] =
               [owner |-> plan.uid, component |-> c, manifest |-> m,
                health |-> IF Live(o) THEN cluster[o].health ELSE "pending"]]
        /\ UNCHANGED budget

ApplyFails(m) ==
    /\ \/ Refuses(ObjectOf[m]) /\ UNCHANGED budget
       \/ CallFails
    /\ UNCHANGED cluster

(* Mutant: a child is recorded without its objectName (models.py defaults it). *)
EntryWithoutObject(g, c, h) == [object |-> None, health |-> h]

(* The `base` of a ChildStatus: the coordinates are recorded whatever happened. *)
Entry(g, c, h) == [object |-> ObjectOf[plan.spec[g][c]], health |-> h]
-----------------------------------------------------------------------------
(* reconcile (create, update, resume).  Kopf calls it when the spec differs
   from the last one handled, or once after a start of the operator.          *)
Due == Current # plan.spec[handled] \/ resuming

StartReconcile ==
    /\ up /\ plan.life = "active"
    /\ rec.pc \in {"idle", "backoff"}
    /\ Due
    /\ rec' = [pc |-> "apply", gen |-> plan.generation,
               recorded |-> plan.status.children,
               todo |-> Names(Current), done |-> NoChildren]
    /\ seen' = plan.generation
    /\ UNCHANGED <<plan, handled, cluster, up, resuming, sweep, budget>>

(* Mutant: a component whose apply fails is skipped, not recorded. *)
ReconciledUnlessFailed(c, h) ==
    /\ rec.pc = "apply" /\ c \in rec.todo
    /\ rec' = [rec EXCEPT !.todo = @ \ {c},
                          !.done[c] = IF h = "failed" THEN None ELSE Entry(rec.gen, c, h),
                          !.pc = IF rec.todo = {c} THEN "prune" ELSE "apply"]
    /\ UNCHANGED <<plan, handled, up, resuming, seen, sweep>>

(* The body of the loop over the components, each with its own try. *)
Reconciled(c, h) ==
    /\ rec.pc = "apply" /\ c \in rec.todo
    /\ rec' = [rec EXCEPT !.todo = @ \ {c},
                          !.done[c] = Entry(rec.gen, c, h),
                          !.pc = IF rec.todo = {c} THEN "prune" ELSE "apply"]
    /\ UNCHANGED <<plan, handled, up, resuming, seen, sweep>>

ReconcileApply(c) ==
    /\ Reconciled(c, "pending")
    /\ Apply(c, plan.spec[rec.gen][c])

(* Mutant: the failed apply is noted but the child not marked failed. *)
RefusalSwallowed(c) ==
    /\ Reconciled(c, "pending")
    /\ ApplyFails(plan.spec[rec.gen][c])

ReconcileApplyFails(c) ==
    /\ Reconciled(c, "failed")
    /\ ApplyFails(plan.spec[rec.gen][c])

(* _prune_orphans: delete what the status held of components since dropped.  A
   missing object is no error; any other one leaves the handler, which Kopf
   calls again later.                                                         *)
Orphans == Orphaned(Names(plan.spec[rec.gen]), rec.recorded)

Prune(c) ==
    /\ rec.pc = "prune" /\ c \in Orphans
    /\ cluster' = [cluster EXCEPT ![rec.recorded[c].object] = None]
    /\ rec' = [rec EXCEPT !.recorded[c] = None]
    /\ UNCHANGED <<plan, handled, up, resuming, seen, sweep, budget>>

(* Mutant: the failed delete is swallowed like the failed apply. *)
PruneErrorSwallowed ==
    /\ rec.pc = "prune" /\ CallFails
    /\ \E c \in Orphans : rec' = [rec EXCEPT !.recorded[c] = None]
    /\ UNCHANGED <<plan, handled, cluster, up, resuming, seen, sweep>>

PruneFails ==
    /\ rec.pc = "prune" /\ Orphans # {}
    /\ CallFails
    /\ rec' = [Unreconciled EXCEPT !.pc = "backoff"]
    /\ UNCHANGED <<plan, handled, cluster, up, resuming, seen, sweep>>

(* Mutant: the spec noted is the one the plan has when the handler returns. *)
FinishNotesLiveSpec ==
    /\ rec.pc = "prune" /\ Orphans = {}
    /\ plan' = [plan EXCEPT !.status = [children |-> rec.done,
                                        observed |-> rec.gen]]
    /\ handled' = plan.generation
    /\ resuming' = FALSE
    /\ rec' = Unreconciled
    /\ UNCHANGED <<cluster, up, seen, sweep, budget>>

(* Return: Kopf patches the digest into the status and notes the spec handled. *)
FinishReconcile ==
    /\ rec.pc = "prune" /\ Orphans = {}
    /\ plan' = [plan EXCEPT !.status = [children |-> rec.done,
                                        observed |-> rec.gen]]
    /\ handled' = rec.gen
    /\ resuming' = FALSE
    /\ rec' = Unreconciled
    /\ UNCHANGED <<cluster, up, seen, sweep, budget>>

(* Kopf takes in a plan event that calls no change handler: the spec is back to
   the one handled, a failed handler is waiting for its retry, or the plan is
   being deleted.                                                             *)
Observe ==
    /\ up /\ plan.life # "gone"
    /\ \/ rec.pc = "backoff"
       \/ rec.pc = "idle" /\ (~Due \/ plan.life = "terminating")
    /\ seen # plan.generation
    /\ seen' = plan.generation
    /\ UNCHANGED <<plan, handled, cluster, up, resuming, rec, sweep, budget>>
-----------------------------------------------------------------------------
(* Mutant: the sweep reads the plan from the API server, ahead of the events. *)
StartSweepAhead ==
    /\ HealthTimer
    /\ up /\ plan.life = "active" /\ seen # 0
    /\ sweep.pc = "idle"
    /\ sweep' = [Unswept EXCEPT !.pc = "assess", !.gen = plan.generation,
                                !.todo = Names(Current)]
    /\ UNCHANGED <<plan, handled, cluster, up, resuming, seen, rec, budget>>

(* health_sweep.  Kopf starts the timer with the first event of the plan and
   hands it a view of the last event taken in: the spec is read at the start
   (dict(spec)), the generation only at the end (meta.get).                   *)
StartSweep ==
    /\ HealthTimer
    /\ up /\ plan.life = "active" /\ seen # 0
    /\ sweep.pc = "idle"
    /\ sweep' = [Unswept EXCEPT !.pc = "assess", !.gen = seen,
                                !.todo = Names(plan.spec[seen])]
    /\ UNCHANGED <<plan, handled, cluster, up, resuming, seen, rec, budget>>

SweepLocal == UNCHANGED <<plan, handled, up, resuming, seen, rec>>

Turn(c) == sweep.pc = "assess" /\ sweep.healing = None /\ c \in sweep.todo

(* get_object finds the child: is_ready and the pods decide its health (in
   WorkloadHealth: in two calls).                                             *)
SweepAssess(c) ==
    LET o == ObjectOf[plan.spec[sweep.gen][c]]
    IN  /\ Turn(c) /\ Live(o)
        /\ sweep' = [sweep EXCEPT !.todo = @ \ {c},
                         !.done[c] = Entry(sweep.gen, c, cluster[o].health)]
        /\ SweepLocal /\ UNCHANGED <<cluster, budget>>

(* Mutant: a missing child is reported, not healed. *)
MissingReported(c) ==
    /\ Turn(c) /\ ~Live(ObjectOf[plan.spec[sweep.gen][c]])
    /\ sweep' = [sweep EXCEPT !.todo = @ \ {c},
                              !.done[c] = Entry(sweep.gen, c, "pending")]
    /\ SweepLocal /\ UNCHANGED <<cluster, budget>>

(* get_object returns None: the apply comes in a later call. *)
SweepMisses(c) ==
    /\ Turn(c) /\ ~Live(ObjectOf[plan.spec[sweep.gen][c]])
    /\ sweep' = [sweep EXCEPT !.todo = @ \ {c}, !.healing = c]
    /\ SweepLocal /\ UNCHANGED <<cluster, budget>>

SweepReadFails(c) ==
    /\ Turn(c) /\ CallFails
    /\ sweep' = [sweep EXCEPT !.todo = @ \ {c},
                              !.done[c] = Entry(sweep.gen, c, "failed")]
    /\ SweepLocal /\ UNCHANGED cluster

Healed(c, h) ==
    /\ sweep.healing = c
    /\ sweep' = [sweep EXCEPT !.healing = None,
                              !.done[c] = Entry(sweep.gen, c, h)]
    /\ SweepLocal

SweepHeal(c) == Healed(c, "pending") /\ Apply(c, plan.spec[sweep.gen][c])

SweepHealFails(c) == Healed(c, "failed") /\ ApplyFails(plan.spec[sweep.gen][c])

(* Mutant: the sweep labels its digest with the generation it started from. *)
FinishWithOwnGeneration ==
    /\ sweep.pc = "assess" /\ sweep.todo = {} /\ sweep.healing = None
    /\ plan' = [plan EXCEPT !.status = [children |-> sweep.done,
                                        observed |-> sweep.gen]]
    /\ sweep' = Unswept
    /\ UNCHANGED <<handled, cluster, up, resuming, seen, rec, budget>>

(* Mutant: Failed is final, a sweep no longer writes over it. *)
FinishUnlessFailed ==
    /\ sweep.pc = "assess" /\ sweep.todo = {} /\ sweep.healing = None
    /\ plan' = IF Phase(plan.status.children) = "Failed" THEN plan
               ELSE [plan EXCEPT !.status = [children |-> sweep.done,
                                             observed |-> seen]]
    /\ sweep' = Unswept
    /\ UNCHANGED <<handled, cluster, up, resuming, seen, rec, budget>>

FinishSweep ==
    /\ sweep.pc = "assess" /\ sweep.todo = {} /\ sweep.healing = None
    /\ plan' = [plan EXCEPT !.status = [children |-> sweep.done,
                                        observed |-> seen]]
    /\ sweep' = Unswept
    /\ UNCHANGED <<handled, cluster, up, resuming, seen, rec, budget>>
-----------------------------------------------------------------------------
(* Mutant: the plan goes without waiting for a sweep about to heal a child. *)
OnDeleteAtOnce ==
    /\ up /\ plan.life = "terminating"
    /\ rec.pc \in {"idle", "backoff"}
    /\ sweep.pc = "idle" \/ sweep.healing # None
    /\ plan' = [plan EXCEPT !.life = "gone", !.status = NoStatus]
    /\ rec' = Unreconciled
    /\ seen' = 0 /\ handled' = 0 /\ resuming' = FALSE
    /\ UNCHANGED <<cluster, up, sweep, budget>>

(* Mutant: a reconcile waiting for its retry holds the finalizer. *)
OnDeleteAfterRetry ==
    /\ up /\ plan.life = "terminating"
    /\ rec.pc = "idle" /\ sweep.pc = "idle"
    /\ plan' = [plan EXCEPT !.life = "gone", !.status = NoStatus]
    /\ rec' = Unreconciled
    /\ seen' = 0 /\ handled' = 0 /\ resuming' = FALSE
    /\ UNCHANGED <<cluster, up, sweep, budget>>

(* on_delete only logs: the finalizer Kopf put on the plan goes once the
   handlers in flight have returned, and the plan with it.                    *)
OnDelete ==
    /\ up /\ plan.life = "terminating"
    /\ rec.pc \in {"idle", "backoff"} /\ sweep.pc = "idle"
    /\ plan' = [plan EXCEPT !.life = "gone", !.status = NoStatus]
    /\ rec' = Unreconciled
    /\ seen' = 0 /\ handled' = 0 /\ resuming' = FALSE
    /\ UNCHANGED <<cluster, up, sweep, budget>>

(* The garbage collector deletes an object whose controller is gone. *)
Ownerless(o) ==
    /\ Live(o) /\ cluster[o].owner # Foreigner
    /\ plan.life = "gone" \/ cluster[o].owner # plan.uid

Collect(o) ==
    /\ Ownerless(o)
    /\ cluster' = [cluster EXCEPT ![o] = None]
    /\ UNCHANGED <<plan, handled, up, resuming, seen, rec, sweep, budget>>

(* What the handlers had in memory dies with the process. *)
Crash ==
    /\ up /\ budget.crashes < MaxCrashes
    /\ budget' = [budget EXCEPT !.crashes = @ + 1]
    /\ up' = FALSE
    /\ seen' = 0 /\ rec' = Unreconciled /\ sweep' = Unswept
    /\ UNCHANGED <<plan, handled, cluster, resuming>>

Restart ==
    /\ ~up
    /\ up' = TRUE
    /\ resuming' = (plan.life = "active")
    /\ UNCHANGED <<plan, handled, cluster, seen, rec, sweep, budget>>
-----------------------------------------------------------------------------
(* The agent and the cluster.  An edit that changes nothing has no generation;
   a plan that waits for its finalizer can still be edited.                   *)
CreatePlan(s) ==
    /\ plan.life = "gone" /\ plan.uid < MaxPlans
    /\ plan' = [life |-> "active", uid |-> plan.uid + 1, generation |-> 1,
                spec |-> [g \in Generations |-> IF g = 1 THEN s ELSE NoSpec],
                status |-> NoStatus]
    /\ UNCHANGED <<handled, cluster, up, resuming, seen, rec, sweep, budget>>

EditPlan(s) ==
    /\ plan.life # "gone" /\ plan.generation < MaxGeneration
    /\ s # Current
    /\ plan' = [plan EXCEPT !.generation = @ + 1,
                            !.spec[plan.generation + 1] = s]
    /\ UNCHANGED <<handled, cluster, up, resuming, seen, rec, sweep, budget>>

DeletePlan ==
    /\ plan.life = "active"
    /\ plan' = [plan EXCEPT !.life = "terminating"]
    /\ UNCHANGED <<handled, cluster, up, resuming, seen, rec, sweep, budget>>

Lose(o) ==
    /\ Live(o) /\ cluster[o].owner # Foreigner
    /\ budget.losses < MaxLosses
    /\ budget' = [budget EXCEPT !.losses = @ + 1]
    /\ cluster' = [cluster EXCEPT ![o] = None]
    /\ UNCHANGED <<plan, handled, up, resuming, seen, rec, sweep>>

ChangeHealth(o, h) ==
    /\ Live(o) /\ cluster[o].health # h
    /\ cluster' = [cluster EXCEPT ![o].health = h]
    /\ UNCHANGED <<plan, handled, up, resuming, seen, rec, sweep, budget>>
-----------------------------------------------------------------------------
ReconcileNext ==
    \/ StartReconcile \/ PruneFails \/ FinishReconcile \/ Observe
    \/ \E c \in Components :
          ReconcileApply(c) \/ ReconcileApplyFails(c) \/ Prune(c)

SweepNext ==
    \/ StartSweep \/ FinishSweep
    \/ \E c \in Components :
          \/ SweepAssess(c) \/ SweepMisses(c) \/ SweepReadFails(c)
          \/ SweepHeal(c) \/ SweepHealFails(c)

PlatformNext == OnDelete \/ Restart \/ \E o \in Objects : Collect(o)

EnvironmentNext ==
    \/ DeletePlan \/ Crash
    \/ \E s \in Specs : CreatePlan(s) \/ EditPlan(s)
    \/ \E o \in Objects : Lose(o) \/ \E h \in Outcomes : ChangeHealth(o, h)

Next == ReconcileNext \/ SweepNext \/ PlatformNext \/ EnvironmentNext

(* Kopf keeps running a plan's handlers and its timer, a crashed pod is started
   again (Deployment, restartPolicy Always), and the garbage collector takes one
   object after the other; nothing is asked of the agent, the network or the
   cluster's workloads.                                                       *)
Fairness ==
    /\ WF_vars(ReconcileNext)
    /\ WF_vars(SweepNext)
    /\ WF_vars(OnDelete) /\ WF_vars(Restart)
    /\ WF_vars(\E o \in Objects : Collect(o))

Spec == Init /\ [][Next]_vars

FairSpec == Spec /\ Fairness
-----------------------------------------------------------------------------
(* The types of the state. *)
PlanType == [life : {"gone", "active", "terminating"}, uid : 0 .. MaxPlans,
             generation : Generations, spec : [Generations -> AllSpecs \cup {NoSpec}],
             status : [children : ChildList, observed : Generations]]

RecType == [pc : {"idle", "apply", "prune", "backoff"}, gen : Generations,
            recorded : ChildList, todo : SUBSET Components, done : ChildList]

SweepType == [pc : {"idle", "assess"}, gen : Generations,
              todo : SUBSET Components, healing : Components \cup {None},
              done : ChildList]

BudgetType == [faults : 0 .. MaxFaults, crashes : 0 .. MaxCrashes,
               losses : 0 .. MaxLosses]

(* Every variable has the shape its description says; in particular no handler
   ever records a child whose coordinates are missing.                        *)
TypeOK ==
    /\ plan \in PlanType
    /\ handled \in Generations
    /\ cluster \in [Objects -> Slot \cup {None}]
    /\ up \in BOOLEAN /\ resuming \in BOOLEAN
    /\ seen \in Generations
    /\ rec \in RecType
    /\ sweep \in SweepType
    /\ budget \in BudgetType

(* The children are those of the spec of generation g, one for each component. *)
Reflects(children, g) ==
    \A c \in Components :
        IF plan.spec[g][c] = None THEN children[c] = None
        ELSE children[c] # None /\ children[c].object = ObjectOf[plan.spec[g][c]]

(* However reconciles, sweeps, failures and restarts interleave, the status is
   always the whole of one spec the plan has had, never a mixture of two and
   never part of one, and that spec is no newer than observedGeneration says:
   an agent that finds observedGeneration behind is right to call the operator
   behind (_reconcile_behind).                                                *)
StatusIsOneSpec ==
    \E g \in 0 .. plan.status.observed :
        plan.status.observed <= plan.generation /\ Reflects(plan.status.children, g)

(* Two threads write status.observedGeneration, each from what it saw, yet it
   never goes back while the plan lives: a poller that saw the operator catch
   up with an edit never sees it behind that edit again.                      *)
ObservedNeverRegresses ==
    [][plan'.uid = plan.uid /\ plan'.life # "gone"
          => plan'.status.observed >= plan.status.observed]_vars

(* The tree of children as the plan, its specs and the ownerReferences show it. *)
Asked ==
    {ObjectOf[m] : m \in {plan.spec[g][c] : g \in Generations, c \in Components} \ {None}}

Children == {o \in Objects : Live(o) /\ cluster[o].owner # Foreigner}

Tree == INSTANCE OwnershipTree
            WITH standing <- plan.life # "gone", asked <- Asked, owned <- Children

(* The operator implements the ownership tree.  on_delete does nothing, so this
   fails as soon as a handler still in flight applies a child of a plan that is
   gone, or applies one no version of the plan has named.                     *)
TreeSpec == Tree!Spec

(* All handlers are back, the operator is up and has handled the last edit. *)
AtRest ==
    /\ up /\ plan.life = "active" /\ ~Due
    /\ rec.pc = "idle" /\ sweep.pc = "idle"

Owned(o) == Live(o) /\ cluster[o].owner = plan.uid

(* reconcile: "Pruning diffs the previously recorded children against the
   current spec, so a component dropped from the plan has its child deleted."
   At rest, and as long as no call has failed and the operator has not crashed,
   no object of a component that left the spec is alive.                      *)
DroppedComponentPruned ==
    AtRest /\ budget.faults = 0 /\ budget.crashes = 0 =>
        \A o \in Objects : Owned(o) => cluster[o].component \in Names(Current)

(* The escalation channel, "the status-as-queue escalation channel the agent
   reads": at rest the object of every component runs the manifest of the spec,
   or else the status counts the component failed.                            *)
RefusalIsReported ==
    AtRest => \A c \in Names(Current) :
        LET o == ObjectOf[Current[c]]
        IN  \/ Live(o) /\ cluster[o].manifest = Current[c]
            \/ c \in NeedsAttention(plan.status.children)

(* models.py: observedGeneration is "The spec generation this status reflects,
   to detect stale status."                                                   *)
ObservedIsReflected ==
    Reflects(plan.status.children, plan.status.observed)

(* Self-heal, resume and retry together: once the agents leave the plan alone
   and calls stop failing, every component of the spec has its object, for
   good, and the status shows the current generation.                         *)
Converged ==
    plan.life = "active" =>
        /\ plan.status.observed = plan.generation
        /\ Reflects(plan.status.children, plan.generation)
        /\ \A c \in Names(Current) : Live(ObjectOf[Current[c]])

Converges == <>[]Converged

(* Cascade: a deleted plan goes, and its children go with it - again and again
   there is neither a plan waiting to go nor an object left of one that went.   *)
CascadeCompletes ==
    []<>(plan.life # "terminating" /\ \A o \in Objects : ~Ownerless(o))

-----------------------------------------------------------------------------
(* The inductive invariant behind TypeOK, StatusIsOneSpec, TreeSpec and
   ObservedNeverRegresses, in parts.                                          *)

(* Handlers are at work only on a plan that exists and that they have seen. *)
WorkHasPlan ==
    /\ plan.life # "gone" => plan.uid >= 1 /\ plan.generation >= 1
    /\ plan.life = "gone" => seen = 0 /\ handled = 0
    /\ seen = 0 => rec.pc = "idle" /\ sweep.pc = "idle"

(* Nobody is ahead of the plan, nobody's view is behind its own status, and the
   spec a reconcile works on is the last one the process took in.             *)
ViewsAgree ==
    /\ seen <= plan.generation
    /\ handled <= plan.generation
    /\ plan.status.observed <= plan.generation
    /\ seen # 0 => plan.status.observed <= seen
    /\ rec.pc \in {"apply", "prune"} => rec.gen = seen
    /\ sweep.pc = "assess" => sweep.gen <= seen

(* Generations are written once; generation 0 and those to come name nothing. *)
HistoryIsWrittenOnce ==
    \A g \in Generations :
        g = 0 \/ g > plan.generation => plan.spec[g] = NoSpec

(* What a handler has done, has to do and has in hand make up its whole spec. *)
Accounts(done, todo, g) ==
    \A c \in Components :
        IF plan.spec[g][c] = None THEN c \notin todo /\ done[c] = None
        ELSE c \notin todo =>
                done[c] # None /\ done[c].object = ObjectOf[plan.spec[g][c]]

WorkAddsUp ==
    /\ rec.pc \in {"apply", "prune"} => Accounts(rec.done, rec.todo, rec.gen)
    /\ rec.pc = "prune" => rec.todo = {}
    /\ IF sweep.pc = "assess"
       THEN Accounts(sweep.done, sweep.todo \cup ({sweep.healing} \ {None}), sweep.gen)
       ELSE sweep.healing = None

(* The strengthening of StatusIsOneSpec that every step of the operator keeps. *)
IInv ==
    /\ TypeOK
    /\ WorkHasPlan
    /\ ViewsAgree
    /\ HistoryIsWrittenOnce
    /\ WorkAddsUp
    /\ StatusIsOneSpec
=============================================================================
