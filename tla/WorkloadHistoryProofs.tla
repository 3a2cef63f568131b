------------------------ MODULE WorkloadHistoryProofs ------------------------
(* Proofs about what reconcile promises while the health sweep runs beside it
   (WorkloadHistory), for every set of components, manifests and specs and every
   value of the bounds.                                                       *)
EXTENDS WorkloadHistory, WorkloadOperatorProofs

USE CoreAssumption, OperatorAssumption

(* What a step may do to the objects without an apply. *)
Shrinks ==
    \A o \in Objects :
        \/ cluster'[o] = None
        \/ /\ cluster[o] # None /\ cluster'[o].owner = cluster[o].owner
           /\ cluster'[o].component = cluster[o].component
           /\ cluster'[o].manifest = cluster[o].manifest

Quiet == UNCHANGED <<plan, handled, up, resuming, seen>>

Loops(c) == ReconcileApply(c) \/ ReconcileApplyFails(c)

SweepLooks(c) ==
    SweepAssess(c) \/ SweepMisses(c) \/ SweepReadFails(c) \/ SweepHealFails(c)

ClusterMoves(o) == Collect(o) \/ Lose(o) \/ \E h \in Outcomes : ChangeHealth(o, h)

(* The steps of the operator one by one. *)
LEMMA StepCases ==
    ASSUME Next
    PROVE  \/ StartReconcile \/ PruneFails \/ FinishReconcile \/ Observe
           \/ StartSweep \/ FinishSweep
           \/ OnDelete \/ Crash \/ Restart \/ DeletePlan
           \/ \E c \in Components : Loops(c) \/ Prune(c) \/ SweepLooks(c) \/ SweepHeal(c)
           \/ \E s \in Specs : CreatePlan(s) \/ EditPlan(s)
           \/ \E o \in Objects : ClusterMoves(o)
  BY DEF Next, ReconcileNext, SweepNext, PlatformNext, EnvironmentNext, Loops, SweepLooks,
         ClusterMoves

(* The steps that change the plan or the process' view of it. *)
LEMMA QuietCases ==
    ASSUME Next
    PROVE  \/ Quiet
           \/ StartReconcile \/ FinishReconcile \/ Observe \/ FinishSweep
           \/ OnDelete \/ Crash \/ Restart \/ DeletePlan
           \/ \E s \in Specs : CreatePlan(s) \/ EditPlan(s)
<1>1. ASSUME NEW c \in Components, Loops(c) \/ Prune(c) \/ SweepLooks(c) \/ SweepHeal(c)
      PROVE  Quiet
  BY <1>1 DEF Quiet, Loops, ReconcileApply, ReconcileApplyFails, Reconciled, Prune,
              SweepLooks, SweepAssess, SweepMisses, SweepReadFails, SweepHealFails,
              SweepHeal, Healed, SweepLocal
<1>2. ASSUME NEW o \in Objects, ClusterMoves(o) PROVE Quiet
  BY <1>2 DEF Quiet, ClusterMoves, Collect, Lose, ChangeHealth
<1>3. PruneFails \/ StartSweep => Quiet
  BY DEF Quiet, PruneFails, StartSweep
<1> QED
  BY <1>1, <1>2, <1>3, StepCases

(* What a step of the loop over the components does to the handler. *)
LEMMA LoopStep ==
    ASSUME IInv, NEW c \in Components, NEW h \in Healths, Reconciled(c, h)
    PROVE  /\ rec.pc = "apply" /\ c \in rec.todo
           /\ rec'.pc \in {"apply", "prune"} /\ rec'.gen = rec.gen
           /\ rec'.recorded = rec.recorded /\ rec'.todo = rec.todo \ {c}
           /\ rec'.done = [rec.done EXCEPT ![c] = Entry(rec.gen, c, h)]
           /\ plan.spec[rec.gen][c] \in Manifests
           /\ Entry(rec.gen, c, h) \in Child
           /\ Entry(rec.gen, c, h).object = ObjectOf[plan.spec[rec.gen][c]]
           /\ UNCHANGED <<plan, handled, up, resuming, seen, sweep>>
<1>1. /\ rec.pc = "apply" /\ c \in rec.todo /\ rec \in RecType
      /\ UNCHANGED <<plan, handled, up, resuming, seen, sweep>>
  BY DEF Reconciled, IInv, TypeOK
<1>2. plan.spec[rec.gen][c] # None /\ rec.gen \in Generations
  BY <1>1 DEF IInv, WorkAddsUp, Accounts, RecType
<1>3. rec' = [rec EXCEPT !.todo = @ \ {c}, !.done[c] = Entry(rec.gen, c, h),
                         !.pc = IF rec.todo = {c} THEN "prune" ELSE "apply"]
  BY DEF Reconciled
<1>4. /\ rec'.pc \in {"apply", "prune"} /\ rec'.gen = rec.gen
      /\ rec'.recorded = rec.recorded /\ rec'.todo = rec.todo \ {c}
      /\ rec'.done = [rec.done EXCEPT ![c] = Entry(rec.gen, c, h)]
  BY <1>1, <1>3 DEF RecType
<1>5. /\ plan.spec[rec.gen][c] \in Manifests
      /\ Entry(rec.gen, c, h) \in Child
      /\ Entry(rec.gen, c, h).object = ObjectOf[plan.spec[rec.gen][c]]
  BY <1>2, EntryType DEF IInv
<1> QED
  BY <1>1, <1>4, <1>5

(* What a prune does: one recorded object goes, and its record. *)
LEMMA PruneStep ==
    ASSUME IInv, NEW c \in Components, Prune(c)
    PROVE  /\ rec.pc = "prune" /\ c \notin Names(plan.spec[rec.gen])
           /\ rec.recorded[c] \in Child /\ rec.recorded[c].object \in Objects
           /\ cluster' = [cluster EXCEPT ![rec.recorded[c].object] = None]
           /\ rec'.pc = "prune" /\ rec'.gen = rec.gen /\ rec'.todo = rec.todo
           /\ rec'.done = rec.done
           /\ rec'.recorded = [rec.recorded EXCEPT ![c] = None]
           /\ UNCHANGED <<plan, handled, up, resuming, seen, sweep, budget>>
<1>1. rec.pc = "prune" /\ rec \in RecType
      /\ c \in Listed(rec.recorded) /\ c \notin Names(plan.spec[rec.gen])
  BY DEF Prune, Orphans, Orphaned, IInv, TypeOK
<1>2. rec.recorded[c] \in Child
  BY <1>1 DEF Listed, RecType, ChildList
<1>3. rec.recorded[c].object \in Objects
  BY <1>2 DEF Child
<1> QED
  BY <1>1, <1>2, <1>3 DEF Prune, RecType

(* What the return of the handler does to the plan. *)
LEMMA ReturnStep ==
    ASSUME IInv, FinishReconcile
    PROVE  /\ rec.pc = "prune" /\ rec.todo = {}
           /\ Listed(rec.recorded) \subseteq Names(plan.spec[rec.gen])
           /\ plan'.life = plan.life /\ plan'.uid = plan.uid
           /\ plan'.generation = plan.generation /\ plan'.spec = plan.spec
           /\ plan'.status.children = rec.done /\ plan'.status.observed = rec.gen
           /\ handled' = rec.gen /\ resuming' = FALSE /\ rec' = Unreconciled
           /\ UNCHANGED <<cluster, up, seen, sweep, budget>>
<1>1. rec.pc = "prune" /\ plan \in PlanType
  BY DEF FinishReconcile, IInv, TypeOK
<1>2. rec.todo = {}
  BY <1>1 DEF IInv, WorkAddsUp
<1>3. Listed(rec.recorded) \subseteq Names(plan.spec[rec.gen])
  BY DEF FinishReconcile, Orphans, Orphaned
<1> QED
  BY <1>1, <1>2, <1>3 DEF FinishReconcile, PlanType

(* What an edit does to the plan. *)
LEMMA EditStep ==
    ASSUME IInv, NEW s \in Specs, EditPlan(s)
    PROVE  /\ plan'.life = plan.life /\ plan'.uid = plan.uid
           /\ plan'.status = plan.status
           /\ plan.generation + 1 \in Generations
           /\ plan'.spec = [plan.spec EXCEPT ![plan.generation + 1] = s]
           /\ \A g \in Generations :
                 g <= plan.generation => plan'.spec[g] = plan.spec[g]
           /\ UNCHANGED <<handled, cluster, up, resuming, seen, rec, sweep, budget>>
<1>1. plan \in PlanType /\ plan.generation + 1 \in Generations
  BY DEF EditPlan, IInv, TypeOK, PlanType, Generations
<1>2. plan' = [plan EXCEPT !.generation = @ + 1, !.spec[plan.generation + 1] = s]
  BY DEF EditPlan
<1>3. plan'.spec = [plan.spec EXCEPT ![plan.generation + 1] = s]
  BY <1>1, <1>2 DEF PlanType
<1>4. \A g \in Generations : g <= plan.generation => plan'.spec[g] = plan.spec[g]
  BY <1>1, <1>3 DEF PlanType, Generations
<1>5. plan'.life = plan.life /\ plan'.uid = plan.uid /\ plan'.status = plan.status
  BY <1>1, <1>2 DEF PlanType
<1> QED
  BY <1>1, <1>3, <1>4, <1>5 DEF EditPlan

(* What an apply that goes through does to the objects. *)
LEMMA ApplyStep ==
    ASSUME IInv, NEW c \in Components, NEW m \in Manifests, Apply(c, m)
    PROVE  /\ ObjectOf[m] \in Objects /\ budget' = budget
           /\ cluster'[ObjectOf[m]] # None
           /\ cluster'[ObjectOf[m]].owner = plan.uid
           /\ cluster'[ObjectOf[m]].component = c
           /\ cluster'[ObjectOf[m]].manifest = m
           /\ \A p \in Objects : p # ObjectOf[m] => cluster'[p] = cluster[p]
<1> DEFINE applied == [owner |-> plan.uid, component |-> c, manifest |-> m,
                       health |-> IF Live(ObjectOf[m]) THEN cluster[ObjectOf[m]].health
                                  ELSE "pending"]
<1>1. TypeOK /\ ObjectOf[m] \in Objects
  BY DEF IInv
<1>2. applied \in Slot
  BY <1>1 DEF TypeOK, PlanType, Slot, Live, Healths
<1>3. cluster' = [cluster EXCEPT ![ObjectOf[m]] = applied] /\ budget' = budget
  BY DEF Apply
<1>4. cluster'[ObjectOf[m]] = applied
  BY <1>1, <1>3 DEF TypeOK
<1>5. applied # None
  BY <1>2
<1> QED
  BY <1>1, <1>3, <1>4, <1>5 DEF TypeOK

(* A call that fails leaves the objects alone, and a trace in the budget unless
   another controller was the reason.                                         *)
LEMMA FailStep ==
    ASSUME IInv, NEW m \in Manifests, ApplyFails(m)
    PROVE  /\ cluster' = cluster
           /\ budget' = budget \/ budget'.faults # 0
           /\ budget'.crashes = budget.crashes /\ budget'.losses = budget.losses
  BY DEF ApplyFails, CallFails, IInv, TypeOK, BudgetType

-----------------------------------------------------------------------------
LEMMA FreshStartKept == IInv /\ FreshStart /\ Next => FreshStart'
<1> SUFFICES ASSUME IInv, FreshStart, Next PROVE FreshStart'
  OBVIOUS
<1>1. plan \in PlanType /\ plan.generation \in Nat /\ seen \in Nat
  BY DEF IInv, TypeOK, PlanType, Generations
<1>2. /\ plan.life # "gone" => plan.generation # 0
      /\ plan.life = "gone" => seen = 0 /\ handled = 0
      /\ seen = 0 => rec.pc = "idle" /\ sweep.pc = "idle"
  BY <1>1 DEF IInv, WorkHasPlan
<1> USE DEF FreshStart
<1>3. CASE Quiet
  BY <1>3 DEF Quiet
<1>4. CASE StartReconcile \/ Observe
  BY <1>2, <1>4 DEF StartReconcile, Observe
<1>5. CASE FinishReconcile
  BY <1>1, <1>2, <1>5 DEF FinishReconcile, PlanType
<1>6. CASE FinishSweep
  BY <1>1, <1>2, <1>6 DEF FinishSweep, PlanType
<1>7. CASE OnDelete
  BY <1>1, <1>7 DEF OnDelete, PlanType
<1>8. CASE Crash \/ Restart
  BY <1>2, <1>8 DEF Crash, Restart
<1>9. CASE DeletePlan
  BY <1>1, <1>9 DEF DeletePlan, PlanType
<1>10. ASSUME NEW s \in Specs, CreatePlan(s) PROVE FreshStart'
  BY <1>2, <1>10 DEF CreatePlan
<1>11. ASSUME NEW s \in Specs, EditPlan(s) PROVE FreshStart'
  BY <1>1, <1>2, <1>11 DEF EditPlan, PlanType
<1> QED
  BY <1>3, <1>4, <1>5, <1>6, <1>7, <1>8, <1>9, <1>10, <1>11, QuietCases

LEMMA SpecsKept == IInv /\ SpecsAreGiven /\ Next => SpecsAreGiven'
<1> SUFFICES ASSUME IInv, SpecsAreGiven, Next PROVE SpecsAreGiven'
  OBVIOUS
<1>1. plan \in PlanType /\ plan.generation \in Generations
  BY DEF IInv, TypeOK, PlanType
<1>2. ASSUME plan'.spec = plan.spec, plan'.generation = plan.generation PROVE SpecsAreGiven'
  BY <1>2 DEF SpecsAreGiven
<1>3. CASE Quiet \/ StartReconcile \/ Observe \/ Crash \/ Restart
  BY <1>2, <1>3 DEF Quiet, StartReconcile, Observe, Crash, Restart
<1>4. CASE FinishReconcile \/ FinishSweep \/ OnDelete \/ DeletePlan
  BY <1>1, <1>2, <1>4 DEF FinishReconcile, FinishSweep, OnDelete, DeletePlan, PlanType
<1>5. ASSUME NEW s \in Specs, CreatePlan(s) PROVE SpecsAreGiven'
  BY <1>5 DEF CreatePlan, SpecsAreGiven, Generations
<1>6. ASSUME NEW s \in Specs, EditPlan(s) PROVE SpecsAreGiven'
  <2>1. /\ plan'.spec = [plan.spec EXCEPT ![plan.generation + 1] = s]
        /\ plan'.generation = plan.generation + 1
        /\ plan.generation + 1 \in Generations
    BY <1>1, <1>6, EditStep DEF EditPlan, PlanType
  <2> SUFFICES ASSUME NEW g \in 1 .. plan.generation + 1 PROVE plan'.spec[g] \in Specs
    BY <2>1 DEF SpecsAreGiven
  <2>2. g = plan.generation + 1 \/ g \in 1 .. plan.generation
    BY <1>1 DEF Generations
  <2> QED
    BY <1>1, <2>1, <2>2 DEF SpecsAreGiven, PlanType, Generations
<1> QED
  BY <1>3, <1>4, <1>5, <1>6, QuietCases

(* The steps that put something into an object. *)
LEMMA ShrinkCases ==
    ASSUME IInv, Next
    PROVE  Shrinks \/ \E c \in Components : ReconcileApply(c) \/ SweepHeal(c)
<1>1. cluster \in [Objects -> Slot \cup {None}]
  BY DEF IInv, TypeOK
<1>2. cluster' = cluster => Shrinks
  BY DEF Shrinks
<1>3. ASSUME NEW o \in Objects, cluster' = [cluster EXCEPT ![o] = None] PROVE Shrinks
  BY <1>1, <1>3 DEF Shrinks
<1>4. ASSUME NEW c \in Components, Prune(c) PROVE Shrinks
  BY <1>3, <1>4, PruneStep
<1>5. ASSUME NEW c \in Components, ReconcileApplyFails(c) \/ SweepLooks(c) PROVE Shrinks
  BY <1>2, <1>5 DEF ReconcileApplyFails, SweepLooks, SweepAssess, SweepMisses,
                    SweepReadFails, SweepHealFails, ApplyFails
<1>6. ASSUME NEW o \in Objects, ClusterMoves(o) PROVE Shrinks
  <2>1. CASE Collect(o) \/ Lose(o)
    BY <1>3, <2>1 DEF Collect, Lose
  <2>2. ASSUME NEW h \in Outcomes, ChangeHealth(o, h) PROVE Shrinks
    <3>1. cluster[o] \in Slot /\ cluster[o] # None
      BY <1>1, <2>2 DEF ChangeHealth, Live
    <3>2. cluster' = [cluster EXCEPT ![o] = [cluster[o] EXCEPT !.health = h]]
      BY <1>1, <2>2 DEF ChangeHealth
    <3>3. /\ cluster'[o].owner = cluster[o].owner
          /\ cluster'[o].component = cluster[o].component
          /\ cluster'[o].manifest = cluster[o].manifest
      BY <1>1, <3>1, <3>2 DEF Slot
    <3>4. \A p \in Objects : p # o => cluster'[p] = cluster[p]
      BY <1>1, <3>2
    <3> QED
      BY <3>1, <3>3, <3>4 DEF Shrinks
  <2> QED
    BY <1>6, <2>1, <2>2 DEF ClusterMoves
<1>7. CASE \/ StartReconcile \/ PruneFails \/ FinishReconcile \/ Observe \/ StartSweep
           \/ FinishSweep \/ OnDelete \/ Crash \/ Restart \/ DeletePlan
           \/ \E s \in Specs : CreatePlan(s) \/ EditPlan(s)
  BY <1>2, <1>7 DEF StartReconcile, PruneFails, FinishReconcile, Observe, StartSweep,
         FinishSweep, OnDelete, Crash, Restart, DeletePlan, CreatePlan, EditPlan
<1> QED
  BY <1>4, <1>5, <1>6, <1>7, StepCases DEF Loops

(* A handler puts what generation g of its plan says of component c in place. *)
Puts(c, g) ==
    LET m == plan.spec[g][c]
        o == ObjectOf[m]
    IN  /\ g \in Generations /\ g \in 1 .. plan.generation
        /\ m # None /\ m \in Manifests /\ o \in Objects
        /\ cluster'[o] # None /\ cluster'[o].owner = plan.uid
        /\ cluster'[o].component = c /\ cluster'[o].manifest = m
        /\ \A p \in Objects : p # o => cluster'[p] = cluster[p]

(* A component of a generation at work on is one the plan has been given. *)
LEMMA AtWorkOn ==
    ASSUME IInv, NEW g \in Generations, g <= plan.generation, NEW c \in Components,
           plan.spec[g][c] # None
    PROVE  /\ g \in 1 .. plan.generation
           /\ plan.spec[g][c] \in Manifests /\ ObjectOf[plan.spec[g][c]] \in Objects
<1>1. plan.spec[g] \in AllSpecs \cup {NoSpec} /\ plan.spec[g] # NoSpec
  BY DEF IInv, TypeOK, PlanType, NoSpec
<1>2. g # 0
  BY <1>1 DEF IInv, HistoryIsWrittenOnce
<1>3. plan.spec[g][c] \in Manifests
  BY <1>1 DEF AllSpecs
<1>4. plan.generation \in Nat /\ g \in Nat
  BY DEF IInv, TypeOK, PlanType, Generations
<1> QED
  BY <1>2, <1>3, <1>4

LEMMA ReconcilePuts ==
    ASSUME IInv, NEW c \in Components, ReconcileApply(c)
    PROVE  Puts(c, rec.gen) /\ budget' = budget
<1>1. plan.spec[rec.gen][c] \in Manifests /\ rec.pc = "apply"
  BY LoopStep DEF ReconcileApply, Healths
<1>2. rec.gen \in Generations /\ rec.gen <= plan.generation
  BY <1>1 DEF IInv, TypeOK, RecType, ViewsAgree
<1>3. plan.spec[rec.gen][c] # None
  BY <1>1
<1> QED
  BY <1>1, <1>2, <1>3, AtWorkOn, ApplyStep DEF ReconcileApply, Puts

LEMMA SweepPuts ==
    ASSUME IInv, NEW c \in Components, SweepHeal(c)
    PROVE  /\ Puts(c, sweep.gen) /\ budget' = budget /\ Quiet /\ rec' = rec
           /\ sweep.pc = "assess" /\ sweep'.pc = "assess" /\ sweep'.gen = sweep.gen
<1>1. sweep.pc = "assess" /\ sweep.healing = c
  BY DEF SweepHeal, Healed, IInv, WorkAddsUp
<1>2. /\ sweep.gen \in Generations /\ sweep.gen <= plan.generation /\ sweep \in SweepType
  BY <1>1 DEF IInv, TypeOK, SweepType, ViewsAgree, PlanType, Generations
<1>3. plan.spec[sweep.gen][c] # None
  BY <1>1 DEF IInv, WorkAddsUp, Accounts
<1>4. plan.spec[sweep.gen][c] \in Manifests
  BY <1>2, <1>3, AtWorkOn
<1>5. Quiet /\ rec' = rec
  BY DEF SweepHeal, Healed, SweepLocal, Quiet
<1>6. sweep'.pc = "assess" /\ sweep'.gen = sweep.gen
  BY <1>1, <1>2 DEF SweepHeal, Healed, SweepType
<1> QED
  BY <1>1, <1>2, <1>3, <1>4, <1>5, <1>6, AtWorkOn, ApplyStep DEF SweepHeal, Puts
-----------------------------------------------------------------------------
(* But for its creation a plan stays the same one, and does not come back. *)
LEMMA PlanStays ==
    ASSUME IInv, Next
    PROVE  \/ plan'.uid = plan.uid /\ (plan'.life # "gone" => plan.life # "gone")
           \/ \E s \in Specs : CreatePlan(s)
<1>1. plan \in PlanType
  BY DEF IInv, TypeOK
<1>2. CASE \/ Quiet \/ StartReconcile \/ FinishReconcile \/ Observe \/ FinishSweep
           \/ OnDelete \/ Crash \/ Restart \/ DeletePlan
  BY <1>1, <1>2 DEF Quiet, StartReconcile, FinishReconcile, Observe, FinishSweep,
         OnDelete, Crash, Restart, DeletePlan, PlanType
<1>3. ASSUME NEW s \in Specs, EditPlan(s)
      PROVE  plan'.uid = plan.uid /\ (plan'.life # "gone" => plan.life # "gone")
  BY <1>3, EditStep
<1> QED
  BY <1>2, <1>3, QuietCases

(* The generations written stay as they are. *)
LEMMA GenerationsStay ==
    ASSUME IInv, Next, plan'.uid = plan.uid
    PROVE  /\ plan.generation \in Nat /\ plan'.generation \in Nat
           /\ plan'.generation >= plan.generation
           /\ \A g \in Generations : g <= plan.generation => plan'.spec[g] = plan.spec[g]
<1>1. plan \in PlanType /\ plan.generation \in Nat /\ plan.generation \in Generations
  BY DEF IInv, TypeOK, PlanType, Generations
<1>2. CASE \/ Quiet \/ StartReconcile \/ FinishReconcile \/ Observe \/ FinishSweep
           \/ OnDelete \/ Crash \/ Restart \/ DeletePlan
  <2>1. plan'.generation = plan.generation /\ plan'.spec = plan.spec
    BY <1>1, <1>2 DEF Quiet, StartReconcile, FinishReconcile, Observe, FinishSweep,
         OnDelete, Crash, Restart, DeletePlan, PlanType
  <2> QED
    BY <1>1, <2>1
<1>3. ASSUME NEW s \in Specs, CreatePlan(s) PROVE FALSE
  BY <1>1, <1>3 DEF CreatePlan, PlanType
<1>4. ASSUME NEW s \in Specs, EditPlan(s)
      PROVE  /\ plan'.generation = plan.generation + 1
             /\ \A g \in Generations : g <= plan.generation => plan'.spec[g] = plan.spec[g]
  BY <1>1, <1>4, EditStep DEF EditPlan, PlanType
<1> QED
  BY <1>1, <1>2, <1>3, <1>4, QuietCases

LEMMA NamedStays ==
    ASSUME IInv, Next, plan'.uid = plan.uid, NEW c \in Components, NEW o, Named(c, o)
    PROVE  Named(c, o)'
<1>1. PICK g \in 1 .. plan.generation : plan.spec[g][c] # None /\ ObjectOf[plan.spec[g][c]] = o
  BY DEF Named
<1>2. plan.generation \in Generations
  BY DEF IInv, TypeOK, PlanType
<1>3. g \in Generations /\ g <= plan.generation
  BY <1>2 DEF Generations
<1>4. plan'.spec[g] = plan.spec[g] /\ g \in 1 .. plan'.generation
  BY <1>3, GenerationsStay DEF Generations
<1> QED
  BY <1>1, <1>4 DEF Named

LEMMA OwnersKept ==
    ASSUME IInv, Next, \A o \in Objects : Live(o) => cluster[o].owner <= plan.uid
    PROVE  \A o \in Objects : Live(o)' => cluster'[o].owner <= plan'.uid
<1>1. plan.uid \in Nat /\ plan'.uid \in Nat
  BY NextInvariant DEF IInv, TypeOK, PlanType
<1>2. plan'.uid >= plan.uid
  BY <1>1, PlanStays DEF CreatePlan
<1>3. \A o \in Objects : Live(o) => cluster[o].owner \in Nat
  BY DEF IInv, TypeOK, Slot, Live
<1>4. CASE Shrinks
  BY <1>1, <1>2, <1>3, <1>4 DEF Shrinks, Live
<1>5. ASSUME NEW c \in Components, NEW g, Puts(c, g)
      PROVE  \A o \in Objects : Live(o)' => cluster'[o].owner <= plan'.uid
  BY <1>1, <1>2, <1>3, <1>5 DEF Puts, Live
<1> QED
  BY <1>4, <1>5, ShrinkCases, ReconcilePuts, SweepPuts

(* The plan's objects are named by its specs. *)
LEMMA OwnedKept ==
    ASSUME IInv, ObjectsAreNamed, Next, plan'.life # "gone",
           NEW o \in Objects, Owned(o)'
    PROVE  cluster'[o].component \in Components /\ Named(cluster[o].component, o)'
<1>1. plan.uid \in Nat
  BY DEF IInv, TypeOK, PlanType
<1>2. ASSUME NEW s \in Specs, CreatePlan(s) PROVE FALSE
  <2>1. plan'.uid = plan.uid + 1 /\ cluster' = cluster
    BY <1>2 DEF CreatePlan
  <2>2. cluster[o].owner = plan.uid + 1 /\ Live(o)
    BY <2>1 DEF Owned, Live
  <2> QED
    BY <1>1, <2>2 DEF ObjectsAreNamed
<1>3. plan'.uid = plan.uid /\ plan.life # "gone"
  BY <1>2, PlanStays
<1>4. ASSUME Owned(o), cluster'[o].component = cluster[o].component
      PROVE  cluster'[o].component \in Components /\ Named(cluster[o].component, o)'
  <2> DEFINE c == cluster[o].component
  <2>1. c \in Components /\ Named(c, o)
    BY <1>3, <1>4 DEF ObjectsAreNamed
  <2>2. PICK d \in Components : d = c
    BY <2>1
  <2>3. Named(d, o)'
    BY <1>3, <2>1, <2>2, NamedStays
  <2> QED
    BY <1>4, <2>2, <2>3 DEF Named
<1>5. CASE Shrinks
  BY <1>3, <1>4, <1>5 DEF Shrinks, Owned, Live
<1>6. ASSUME NEW c \in Components, NEW g, Puts(c, g)
      PROVE  cluster'[o].component \in Components /\ Named(cluster[o].component, o)'
  <2>1. CASE o = ObjectOf[plan.spec[g][c]]
    <3>1. Named(c, o) /\ cluster'[o].component = c
      BY <1>6, <2>1 DEF Puts, Named
    <3>2. Named(c, o)'
      BY <1>3, <3>1, NamedStays
    <3> QED
      BY <3>1, <3>2 DEF Named
  <2>2. CASE o # ObjectOf[plan.spec[g][c]]
    BY <1>3, <1>4, <1>6, <2>2 DEF Puts, Owned, Live
  <2> QED
    BY <2>1, <2>2
<1> QED
  BY <1>5, <1>6, ShrinkCases, ReconcilePuts, SweepPuts

(* What the status lists is of some spec of the plan. *)
LEMMA StatusIsNamed ==
    ASSUME IInv, NEW c \in Listed(plan.status.children)
    PROVE  Named(c, plan.status.children[c].object)
<1>1. PICK g \in 0 .. plan.status.observed :
         plan.status.observed <= plan.generation /\ Reflects(plan.status.children, g)
  BY DEF IInv, StatusIsOneSpec
<1>2. c \in Components /\ plan.status.children[c] # None
  BY DEF Listed
<1>3. plan.spec[g][c] # None /\ plan.status.children[c].object = ObjectOf[plan.spec[g][c]]
  BY <1>1, <1>2 DEF Reflects
<1>4. g \in Generations /\ g <= plan.generation
  BY <1>1 DEF IInv, TypeOK, PlanType, Generations
<1>5. g \in 1 .. plan.generation
  BY <1>2, <1>3, <1>4, AtWorkOn
<1> QED
  BY <1>3, <1>5 DEF Named

(* So is all a reconcile has on record. *)
LEMMA RecordKept ==
    ASSUME IInv, ObjectsAreNamed, Next, Working', NEW c \in Listed(rec'.recorded)
    PROVE  Named(c, rec.recorded[c].object)'
<1>1. c \in Components /\ rec'.recorded[c] # None
  BY DEF Listed
<1>2. rec'.pc # "idle" /\ rec'.pc # "backoff"
  BY DEF Working
<1>3. plan'.uid = plan.uid
  <2>1. ASSUME NEW s \in Specs, CreatePlan(s) PROVE FALSE
    BY <1>2, <2>1 DEF CreatePlan, IInv, WorkHasPlan
  <2> QED
    BY <2>1, PlanStays
<1>4. ASSUME NEW o, o = rec'.recorded[c].object, Named(c, o)
      PROVE  Named(c, rec.recorded[c].object)'
  <2>1. Named(c, o)'
    BY <1>1, <1>3, <1>4, NamedStays
  <2> QED
    BY <1>4, <2>1 DEF Named
<1>5. CASE StartReconcile
  BY <1>1, <1>4, <1>5, StatusIsNamed DEF StartReconcile, Listed
<1>6. ASSUME Working, rec'.recorded = rec.recorded \/ rec'.recorded[c] = rec.recorded[c]
      PROVE  Named(c, rec.recorded[c].object)'
  BY <1>1, <1>4, <1>6 DEF ObjectsAreNamed, Listed
<1>7. ASSUME NEW d \in Components, Loops(d) PROVE Named(c, rec.recorded[c].object)'
  BY <1>6, <1>7, LoopStep DEF Loops, ReconcileApply, ReconcileApplyFails, Healths, Working
<1>8. ASSUME NEW d \in Components, Prune(d) PROVE Named(c, rec.recorded[c].object)'
  <2>1. rec.pc = "prune" /\ rec'.recorded = [rec.recorded EXCEPT ![d] = None]
    BY <1>8, PruneStep
  <2>2. rec'.recorded[c] = rec.recorded[c]
    BY <1>1, <2>1 DEF IInv, TypeOK, RecType, ChildList
  <2> QED
    BY <1>6, <2>1, <2>2 DEF Working
<1>9. CASE rec' = rec
  BY <1>6, <1>9 DEF Working
<1>10. CASE PruneFails \/ FinishReconcile \/ OnDelete \/ Crash
  BY <1>2, <1>10 DEF PruneFails, FinishReconcile, OnDelete, Crash, Unreconciled
<1>11. CASE Observe \/ StartSweep \/ FinishSweep \/ Restart \/ DeletePlan
  BY <1>9, <1>11 DEF Observe, StartSweep, FinishSweep, Restart, DeletePlan
<1>12. ASSUME NEW d \in Components, SweepLooks(d) \/ SweepHeal(d) PROVE rec' = rec
  BY <1>12 DEF SweepLooks, SweepAssess, SweepMisses, SweepReadFails, SweepHealFails,
               SweepHeal, Healed, SweepLocal
<1>13. ASSUME NEW s \in Specs, CreatePlan(s) \/ EditPlan(s) PROVE rec' = rec
  BY <1>13 DEF CreatePlan, EditPlan
<1>14. ASSUME NEW p \in Objects, ClusterMoves(p) PROVE rec' = rec
  BY <1>14 DEF ClusterMoves, Collect, Lose, ChangeHealth
<1> QED
  BY <1>5, <1>7, <1>8, <1>9, <1>10, <1>11, <1>12, <1>13, <1>14, StepCases

LEMMA NamesKept == IInv /\ ObjectsAreNamed /\ Next => ObjectsAreNamed'
<1> SUFFICES ASSUME IInv, ObjectsAreNamed, Next PROVE ObjectsAreNamed'
  OBVIOUS
<1>1. \A o \in Objects : Live(o)' => cluster'[o].owner <= plan'.uid
  BY OwnersKept DEF ObjectsAreNamed
<1> QED
  BY <1>1, OwnedKept, RecordKept DEF ObjectsAreNamed
-----------------------------------------------------------------------------
(* A step of a plan whose sweeps no edit has overtaken. *)
Met ==
    /\ HInv /\ Next /\ plan'.life # "gone"
    /\ ~past.straddled /\ ~Straddles /\ past' = Noted

LEMMA MetOrNot ==
    ASSUME HInv, HistoryNext, plan'.life # "gone", ~past'.straddled
    PROVE  Met
<1>1. Next /\ past' = IF past.straddled \/ Straddles THEN [Unmet EXCEPT !.straddled = TRUE]
                      ELSE Noted
  BY DEF HistoryNext
<1>2. ~(past.straddled \/ Straddles)
  BY <1>1 DEF Unmet
<1> QED
  BY <1>1, <1>2 DEF Met

LEMMA MetParts ==
    ASSUME Met
    PROVE  /\ IInv /\ IInv' /\ Next /\ FreshStart /\ FreshStart'
           /\ SpecsAreGiven /\ ObjectsAreNamed /\ ObjectsAreNamed'
           /\ SweepIsCurrent /\ RecordIsKept /\ RestAgrees /\ RefusalsAreNoted
           /\ NothingIsLost /\ plan'.life # "gone"
           /\ sweep'.pc = "assess" => sweep'.gen = seen'
  BY FreshStartKept, NamesKept, NextInvariant DEF Met, HInv, Straddles

(* What becomes of the history. *)
LEMMA MetNotes ==
    ASSUME Met
    PROVE  /\ past'.replaced <=>
                 /\ ~ReconcileBegins /\ up /\ ~ReconcileReturns
                 /\ past.replaced \/ (SweepReturns /\ rec.pc # "idle")
           /\ ReconcileBegins => past'.refused = {} /\ past'.masked = {}
           /\ ~ReconcileBegins /\ up =>
                 /\ past'.refused = past.refused
                                    \cup {c \in Components : ReconcileApplyFails(c)}
                 /\ past'.masked = IF SweepReturns /\ rec.pc = "idle" THEN past.refused
                                   ELSE past.masked
           /\ ~up => past'.refused = {} /\ past'.masked = {}
  BY DEF Met, Noted

(* While the reconcile is at work the spec it is at work on stays what it is. *)
LEMMA AtWork ==
    ASSUME IInv, FreshStart, Next, Working, Working'
    PROVE  /\ up /\ seen # 0 /\ rec.gen = seen /\ plan'.uid = plan.uid
           /\ plan.life # "gone"
           /\ rec.gen \in Generations /\ rec.gen <= plan.generation
           /\ rec'.gen = rec.gen /\ plan'.spec[rec.gen] = plan.spec[rec.gen]
           /\ \/ \E c \in Components : Loops(c) \/ Prune(c)
              \/ rec' = rec
           /\ \/ FinishSweep
              \/ plan'.status = plan.status /\ sweep'.pc = sweep.pc
              \/ plan'.status = plan.status /\ StartSweep
<1>1. /\ rec.pc \in {"apply", "prune"} /\ rec'.pc # "idle" /\ rec'.pc # "backoff"
      /\ rec \in RecType /\ plan \in PlanType /\ sweep \in SweepType
  BY DEF Working, IInv, TypeOK
<1>2. up /\ seen # 0 /\ rec.gen = seen /\ plan.life # "gone"
  BY <1>1 DEF FreshStart, IInv, WorkHasPlan, ViewsAgree
<1>3. rec.gen \in Generations /\ rec.gen <= plan.generation
  BY <1>1, <1>2 DEF IInv, ViewsAgree, RecType
<1>4. plan'.uid = plan.uid
  BY <1>2, PlanStays DEF CreatePlan
<1>5. plan'.spec[rec.gen] = plan.spec[rec.gen]
  BY <1>3, <1>4, GenerationsStay
<1>6. ~StartReconcile /\ ~PruneFails /\ ~FinishReconcile /\ ~OnDelete /\ ~Crash /\ ~Restart
  <2>1. Unreconciled.pc = "idle"
    BY DEF Unreconciled
  <2>2. PruneFails => rec'.pc = "backoff"
    BY DEF PruneFails, Unreconciled
  <2>3. FinishReconcile \/ OnDelete \/ Crash => rec'.pc = "idle"
    BY <2>1 DEF FinishReconcile, OnDelete, Crash
  <2>4. ~StartReconcile /\ ~Restart
    BY <1>1, <1>2 DEF StartReconcile, Restart
  <2> QED
    BY <1>1, <2>2, <2>3, <2>4
<1> DEFINE Fine == /\ rec'.gen = rec.gen
                   /\ \/ \E c \in Components : Loops(c) \/ Prune(c)
                      \/ rec' = rec
                   /\ \/ FinishSweep
                      \/ plan'.status = plan.status /\ sweep'.pc = sweep.pc
                      \/ plan'.status = plan.status /\ StartSweep
<1>7. ASSUME NEW c \in Components, Loops(c) PROVE Fine
  BY <1>7, LoopStep DEF Loops, ReconcileApply, ReconcileApplyFails, Healths
<1>8. ASSUME NEW c \in Components, Prune(c) PROVE Fine
  BY <1>8, PruneStep
<1>9. ASSUME NEW c \in Components, SweepLooks(c) \/ SweepHeal(c) PROVE Fine
  <2>1. rec' = rec /\ plan' = plan
    BY <1>9 DEF SweepLooks, SweepAssess, SweepMisses, SweepReadFails, SweepHealFails,
                SweepHeal, Healed, SweepLocal
  <2>2. sweep'.pc = sweep.pc
    BY <1>1, <1>9 DEF SweepLooks, SweepAssess, SweepMisses, SweepReadFails, SweepHealFails,
                SweepHeal, Healed, SweepType
  <2> QED
    BY <2>1, <2>2
<1>10. ASSUME Observe \/ StartSweep \/ FinishSweep PROVE Fine
  <2>1. rec' = rec
    BY <1>10 DEF Observe, StartSweep, FinishSweep
  <2>2. Observe => plan' = plan /\ sweep' = sweep
    BY DEF Observe
  <2>3. StartSweep => plan' = plan
    BY DEF StartSweep
  <2> QED
    BY <1>10, <2>1, <2>2, <2>3
<1>11. ASSUME DeletePlan PROVE Fine
  <2>1. rec' = rec /\ sweep' = sweep /\ plan' = [plan EXCEPT !.life = "terminating"]
    BY <1>11 DEF DeletePlan
  <2>2. plan'.status = plan.status
    BY <1>1, <2>1 DEF PlanType
  <2> QED
    BY <2>1, <2>2
<1>12. ASSUME NEW s \in Specs, CreatePlan(s) \/ EditPlan(s) PROVE Fine
  BY <1>2, <1>12, EditStep DEF CreatePlan
<1>13. ASSUME NEW o \in Objects, ClusterMoves(o) PROVE Fine
  BY <1>13 DEF ClusterMoves, Collect, Lose, ChangeHealth
<1>14. Fine
  BY <1>6, <1>7, <1>8, <1>9, <1>10, <1>11, <1>12, <1>13, StepCases
<1> QED
  BY <1>2, <1>3, <1>4, <1>5, <1>14
(* Beside a reconcile at work nothing is put in place but what its own spec says:
   a sweep that heals has the same spec before it.                            *)
LEMMA WorkMoves ==
    ASSUME Met, Working, Working'
    PROVE  \/ Shrinks
           \/ \E c \in Components : Puts(c, rec.gen) /\ (ReconcileApply(c) \/ rec' = rec)
<1>1. IInv /\ Next /\ SweepIsCurrent /\ rec.gen = seen
  BY MetParts, AtWork
<1>2. ASSUME NEW c \in Components, SweepHeal(c) PROVE Puts(c, rec.gen) /\ rec' = rec
  <2>1. Puts(c, sweep.gen) /\ rec' = rec /\ sweep.pc = "assess"
    BY <1>1, <1>2, SweepPuts
  <2>2. sweep.gen = rec.gen
    BY <1>1, <2>1 DEF SweepIsCurrent
  <2> QED
    BY <2>1, <2>2
<1>3. ASSUME NEW c \in Components, ReconcileApply(c) PROVE Puts(c, rec.gen)
  BY <1>1, <1>3, ReconcilePuts
<1> QED
  BY <1>1, <1>2, <1>3, ShrinkCases

(* A reconcile at work keeps the history, but for a sweep that writes. *)
LEMMA ReplacedAtWork ==
    ASSUME Met, Working, Working'
    PROVE  /\ FinishSweep => past'.replaced
           /\ ~FinishSweep => (past'.replaced <=> past.replaced)
<1>1. up /\ up' /\ seen' # 0
  <2>1. IInv /\ IInv' /\ FreshStart' /\ FreshStart /\ Next
    BY MetParts
  <2>2. seen' # 0
    BY <2>1 DEF IInv, WorkHasPlan, Working
  <2> QED
    BY <2>1, <2>2, AtWork DEF FreshStart
<1>2. ~ReconcileBegins /\ ~ReconcileReturns /\ rec.pc # "idle"
  BY DEF ReconcileBegins, ReconcileReturns, Working
<1>3. FinishSweep => SweepReturns
  BY <1>1 DEF FinishSweep, SweepReturns, Unswept
<1>4. ~FinishSweep => ~SweepReturns
  <2>1. StartSweep => sweep.pc = "idle"
    BY DEF StartSweep
  <2> QED
    BY <2>1, MetParts, AtWork DEF SweepReturns
<1> QED
  BY <1>1, <1>2, <1>3, <1>4, MetNotes

(* The status a sweep writes is the whole of the spec taken in last. *)
LEMMA SweepWrites ==
    ASSUME Met, FinishSweep
    PROVE  /\ seen # 0 /\ sweep.pc = "assess" /\ sweep.gen = seen
           /\ plan'.status.children = sweep.done
           /\ \A c \in Components :
                 (plan.spec[seen][c] # None) <=> (sweep.done[c] # None)
           /\ plan'.life = plan.life /\ plan'.uid = plan.uid
           /\ plan'.generation = plan.generation /\ plan'.spec = plan.spec
           /\ Reflects(plan.status.children, seen)'
           /\ UNCHANGED <<handled, cluster, up, resuming, seen, rec, budget>>
<1>1. /\ sweep.pc = "assess" /\ sweep.todo = {} /\ sweep.healing = None
      /\ plan \in PlanType /\ IInv
      /\ UNCHANGED <<handled, cluster, up, resuming, seen, rec, budget>>
  BY MetParts DEF FinishSweep, IInv, TypeOK
<1>2. sweep.gen = seen /\ seen # 0
  BY <1>1, MetParts DEF SweepIsCurrent, IInv, WorkHasPlan
<1>3. Accounts(sweep.done, {}, seen)
  <2>1. sweep.todo \cup ({sweep.healing} \ {None}) = {}
    BY <1>1
  <2> QED
    BY <1>1, <1>2, <2>1 DEF IInv, WorkAddsUp
<1>4. /\ plan'.status.children = sweep.done
      /\ plan'.life = plan.life /\ plan'.uid = plan.uid
      /\ plan'.generation = plan.generation /\ plan'.spec = plan.spec
  BY <1>1 DEF FinishSweep, PlanType
<1>5. Reflects(plan.status.children, seen)'
  <2>1. Reflects(sweep.done, seen)
    BY <1>3, AccountIsReflected
  <2> QED
    BY <1>1, <1>4, <2>1 DEF Reflects
<1> QED
  BY <1>1, <1>2, <1>3, <1>4, <1>5 DEF Accounts

(* A reconcile not at work gets there by the start of the handler. *)
LEMMA Begins ==
    ASSUME IInv, Next, ~Working, Working' PROVE StartReconcile
<1>1. \A c \in Components : ~Loops(c) /\ ~Prune(c)
  BY LoopStep DEF Loops, ReconcileApply, ReconcileApplyFails, Reconciled, Prune, Working
<1>2. \A c \in Components : SweepLooks(c) \/ SweepHeal(c) => rec' = rec
  BY DEF SweepLooks, SweepAssess, SweepMisses, SweepReadFails, SweepHealFails,
         SweepHeal, Healed, SweepLocal
<1>3. ~PruneFails /\ ~FinishReconcile
  BY DEF PruneFails, FinishReconcile, Working
<1>4. ~OnDelete /\ ~Crash
  BY DEF OnDelete, Crash, Unreconciled, Working
<1>5. Observe \/ StartSweep \/ FinishSweep \/ Restart \/ DeletePlan => rec' = rec
  BY DEF Observe, StartSweep, FinishSweep, Restart, DeletePlan
<1>6. \A s \in Specs : CreatePlan(s) \/ EditPlan(s) => rec' = rec
  BY DEF CreatePlan, EditPlan
<1>7. \A o \in Objects : ClusterMoves(o) => rec' = rec
  BY DEF ClusterMoves, Collect, Lose, ChangeHealth
<1>8. rec' # rec
  BY DEF Working
<1> QED
  BY <1>1, <1>2, <1>3, <1>4, <1>5, <1>6, <1>7, <1>8, StepCases

LEMMA RecordIsKeptStill ==
    ASSUME Met PROVE RecordIsKept'
<1> SUFFICES ASSUME Working' PROVE RecordIsKept'
  BY DEF RecordIsKept
<1>0. IInv /\ Next /\ FreshStart /\ RecordIsKept
  BY MetParts
<1>1. CASE ~Working
  <2>1. StartReconcile
    BY <1>0, <1>1, Begins
  <2>2. rec'.recorded = plan.status.children /\ plan' = plan /\ rec'.pc = "apply"
    BY <2>1 DEF StartReconcile
  <2>3. ~past'.replaced
    BY <1>1, <2>2, MetNotes DEF ReconcileBegins
  <2> QED
    BY <2>2, <2>3 DEF RecordIsKept, Listed
<1>2. CASE Working /\ FinishSweep
  <2>1. past'.replaced
    BY <1>2, ReplacedAtWork
  <2>2. rec'.gen = seen /\ Reflects(plan.status.children, seen)' /\ seen' = seen
    BY <1>0, <1>2, AtWork, SweepWrites
  <2>3. Reflects(plan.status.children, rec.gen)'
    BY <2>2 DEF Reflects
  <2> QED
    BY <2>1, <2>3 DEF RecordIsKept
<1>3. CASE Working /\ ~FinishSweep
  <2>1. /\ plan'.status = plan.status /\ rec'.gen = rec.gen
        /\ plan'.spec[rec.gen] = plan.spec[rec.gen]
        /\ past'.replaced <=> past.replaced
    BY <1>0, <1>3, AtWork, ReplacedAtWork
  <2>2. CASE past.replaced
    BY <1>0, <1>3, <2>1, <2>2 DEF RecordIsKept, Reflects
  <2>3. CASE ~past.replaced
    <3>1. \A c \in Listed(rec.recorded) : rec.recorded[c] = plan.status.children[c]
      BY <1>0, <1>3, <2>3 DEF RecordIsKept
    <3>2. \A c \in Listed(plan.status.children) \ Listed(rec.recorded) :
             LET o == plan.status.children[c].object
             IN  /\ plan.spec[rec.gen][c] = None
                 /\ cluster[o] = None \/ cluster[o].component # c
      BY <1>0, <1>3, <2>3 DEF RecordIsKept
    <3>3. \A c \in Listed(plan.status.children) :
             plan.status.children[c].object \in Objects
      BY <1>0 DEF IInv, TypeOK, PlanType, ChildList, Child, Listed
    <3>4. ASSUME rec'.recorded = rec.recorded,
                 \A c \in Listed(plan.status.children) \ Listed(rec.recorded) :
                     LET o == plan.status.children[c].object
                     IN  \/ cluster'[o] = cluster[o]
                         \/ cluster'[o] = None
                         \/ cluster'[o].component # c
                         \/ /\ cluster[o] # None
                            /\ cluster'[o].component = cluster[o].component
          PROVE  RecordIsKept'
      BY <2>1, <2>3, <3>1, <3>2, <3>4 DEF RecordIsKept, Listed
    <3>5. ASSUME NEW c \in Components, Prune(c) PROVE RecordIsKept'
      <4>1. /\ rec'.recorded = [rec.recorded EXCEPT ![c] = None]
            /\ plan.spec[rec.gen][c] = None
            /\ rec.recorded[c].object \in Objects /\ rec.recorded[c] # None
            /\ cluster' = [cluster EXCEPT ![rec.recorded[c].object] = None]
        BY <1>0, <3>5, PruneStep DEF Names
      <4>2. c \in Listed(rec.recorded) /\ rec.recorded[c] = plan.status.children[c]
        BY <3>1, <4>1 DEF Listed
      <4>3. \A d \in Components : rec'.recorded[d] = IF d = c THEN None ELSE rec.recorded[d]
        BY <1>0, <4>1 DEF IInv, TypeOK, RecType, ChildList
      <4>4. \A o \in Objects : cluster'[o] = None \/ cluster'[o] = cluster[o]
        BY <1>0, <4>1 DEF IInv, TypeOK
      <4>5. cluster'[rec.recorded[c].object] = None
        BY <1>0, <4>1 DEF IInv, TypeOK
      <4>6. \A d \in Listed(rec.recorded)' : rec'.recorded[d] = plan'.status.children[d]
        BY <2>1, <3>1, <4>3 DEF Listed
      <4>7. ASSUME NEW d \in Listed(plan.status.children), rec'.recorded[d] = None
            PROVE  /\ plan'.spec[rec.gen][d] = None
                   /\ \/ cluster'[plan.status.children[d].object] = None
                      \/ cluster'[plan.status.children[d].object].component # d
        <5>1. CASE d = c
          BY <2>1, <4>1, <4>2, <4>5, <5>1
        <5>2. CASE d # c
          BY <2>1, <3>2, <3>3, <4>3, <4>4, <4>7, <5>2 DEF Listed
        <5> QED
          BY <5>1, <5>2
      <4> QED
        BY <2>1, <2>3, <4>6, <4>7 DEF RecordIsKept, Listed
    <3>6. ASSUME NEW c \in Components, Loops(c) PROVE rec'.recorded = rec.recorded
      BY <1>0, <3>6, LoopStep DEF Loops, ReconcileApply, ReconcileApplyFails, Healths
    <3>7. CASE rec'.recorded = rec.recorded /\ Shrinks
      BY <3>3, <3>4, <3>7 DEF Shrinks
    <3>8. ASSUME rec'.recorded = rec.recorded, NEW c \in Components, Puts(c, rec.gen)
          PROVE  RecordIsKept'
      <4>1. \A d \in Listed(plan.status.children) \ Listed(rec.recorded) : d # c
        BY <3>2, <3>8 DEF Puts
      <4> QED
        BY <3>3, <3>4, <3>8, <4>1 DEF Puts
    <3> QED
      BY <1>0, <1>3, <3>5, <3>6, <3>7, <3>8, AtWork, WorkMoves
  <2> QED
    BY <2>2, <2>3
<1> QED
  BY <1>1, <1>2, <1>3
-----------------------------------------------------------------------------
(* Between reconciles: what neither comes back nor is taken in stays. *)
Rests ==
    /\ seen' = seen /\ handled' = handled /\ plan'.status = plan.status
    /\ plan'.life = "active" => plan.life = "active"
    /\ sweep'.pc = "assess" => sweep.pc = "assess" \/ plan.life = "active"
    /\ ~SweepReturns

LEMMA RestStep ==
    ASSUME Met, rec'.pc = "idle", seen' # 0
    PROVE  /\ up /\ up' /\ plan.life # "gone"
           /\ \/ FinishReconcile
              \/ rec.pc = "idle" /\ rec' = rec /\ (Observe \/ FinishSweep \/ Rests)
<1>0. /\ IInv /\ IInv' /\ Next /\ FreshStart /\ FreshStart'
      /\ plan \in PlanType /\ rec \in RecType /\ sweep \in SweepType
  BY MetParts DEF IInv, TypeOK
<1>1. up' /\ plan'.life # "gone"
  BY <1>0, MetParts DEF FreshStart
<1> DEFINE Fine == \/ FinishReconcile
                   \/ rec.pc = "idle" /\ rec' = rec /\ (Observe \/ FinishSweep \/ Rests)
<1>2. ASSUME Restart PROVE FALSE
  BY <1>0, <1>2 DEF Restart, FreshStart
<1>3. ASSUME NEW s \in Specs, CreatePlan(s) PROVE FALSE
  BY <1>0, <1>3 DEF CreatePlan, IInv, WorkHasPlan
<1>4. up /\ plan.life # "gone"
  <2>1. plan.life # "gone"
    BY <1>0, <1>1, <1>3, PlanStays
  <2>2. StartReconcile \/ Observe \/ Crash \/ OnDelete => up
    BY DEF StartReconcile, Observe, Crash, OnDelete
  <2>3. FinishReconcile \/ FinishSweep \/ DeletePlan => seen' = seen
    BY DEF FinishReconcile, FinishSweep, DeletePlan
  <2>4. \A s \in Specs : CreatePlan(s) \/ EditPlan(s) => seen' = seen
    BY DEF CreatePlan, EditPlan
  <2>5. Quiet => seen' = seen
    BY DEF Quiet
  <2>6. ~up => seen = 0
    BY <1>0 DEF FreshStart
  <2> QED
    BY <1>0, <1>2, <2>1, <2>2, <2>3, <2>4, <2>5, <2>6, QuietCases
<1>5. ~OnDelete /\ ~Crash
  BY DEF OnDelete, Crash
<1>6. ~StartReconcile /\ ~PruneFails
  BY DEF StartReconcile, PruneFails, Unreconciled
<1>7. \A c \in Components : ~Loops(c) /\ ~Prune(c)
  BY <1>0, LoopStep, PruneStep DEF Loops, ReconcileApply, ReconcileApplyFails, Healths
<1>8. ASSUME Observe PROVE Fine
  <2>1. rec' = rec
    BY <1>8 DEF Observe
  <2> QED
    BY <1>8, <2>1
<1>9. ASSUME FinishSweep PROVE Fine
  <2>1. rec' = rec
    BY <1>9 DEF FinishSweep
  <2> QED
    BY <1>9, <2>1
<1>10. ASSUME rec' = rec, Rests PROVE Fine
  BY <1>10
<1> HIDE DEF Fine
<1>11. ASSUME StartSweep PROVE Fine
  <2>1. rec' = rec /\ Rests
    BY <1>11 DEF StartSweep, Rests, SweepReturns
  <2> QED
    BY <1>10, <2>1
<1>12. ASSUME NEW c \in Components, SweepLooks(c) \/ SweepHeal(c) PROVE Fine
  <2>1. rec' = rec /\ plan' = plan /\ seen' = seen /\ handled' = handled
    BY <1>12 DEF SweepLooks, SweepAssess, SweepMisses, SweepReadFails, SweepHealFails,
                SweepHeal, Healed, SweepLocal
  <2>2. sweep'.pc = sweep.pc
    BY <1>0, <1>12 DEF SweepLooks, SweepAssess, SweepMisses, SweepReadFails, SweepHealFails,
                SweepHeal, Healed, SweepType
  <2>3. Rests
    BY <2>1, <2>2 DEF Rests, SweepReturns
  <2> QED
    BY <1>10, <2>1, <2>3
<1>13. ASSUME DeletePlan PROVE Fine
  <2>1. /\ rec' = rec /\ sweep' = sweep /\ seen' = seen /\ handled' = handled
        /\ plan' = [plan EXCEPT !.life = "terminating"]
    BY <1>13 DEF DeletePlan
  <2>2. plan'.status = plan.status /\ plan'.life = "terminating"
    BY <1>0, <2>1 DEF PlanType
  <2>3. Rests
    BY <2>1, <2>2 DEF Rests, SweepReturns
  <2> QED
    BY <1>10, <2>1, <2>3
<1>14. ASSUME NEW s \in Specs, EditPlan(s) PROVE Fine
  <2>1. /\ rec' = rec /\ sweep' = sweep /\ seen' = seen /\ handled' = handled
        /\ plan'.status = plan.status /\ plan'.life = plan.life
    BY <1>0, <1>14, EditStep
  <2>2. Rests
    BY <2>1 DEF Rests, SweepReturns
  <2> QED
    BY <1>10, <2>1, <2>2
<1>15. ASSUME NEW o \in Objects, ClusterMoves(o) PROVE Fine
  <2>1. /\ rec' = rec /\ sweep' = sweep /\ seen' = seen /\ handled' = handled
        /\ plan' = plan
    BY <1>15 DEF ClusterMoves, Collect, Lose, ChangeHealth
  <2>2. Rests
    BY <2>1 DEF Rests, SweepReturns
  <2> QED
    BY <1>10, <2>1, <2>2
<1>16. FinishReconcile => Fine
  BY DEF Fine
<1>17. Fine
  BY <1>0, <1>2, <1>3, <1>5, <1>6, <1>7, <1>8, <1>9, <1>11, <1>12, <1>13, <1>14, <1>15,
     <1>16, StepCases
<1> QED
  BY <1>1, <1>4, <1>17 DEF Fine

(* A plan that has been handled and is not being deleted is taken in anew only
   when its spec is back to the one handled.                                  *)
LEMMA TakenInAnew ==
    ASSUME Met, rec.pc = "idle", Observe, seen' # 0,
           plan'.life = "active" \/ sweep'.pc = "assess"
    PROVE  /\ plan.life = "active" /\ seen # 0
           /\ plan.spec[seen'] = plan.spec[handled] /\ plan.spec[seen] = plan.spec[handled]
           /\ Reflects(plan.status.children, seen')
<1>0. /\ IInv /\ FreshStart /\ SpecsAreGiven /\ RestAgrees /\ SweepIsCurrent
      /\ sweep'.pc = "assess" => sweep'.gen = seen'
  BY MetParts
<1>1. /\ up /\ plan.life # "gone" /\ seen' = plan.generation /\ seen # plan.generation
      /\ ~Due \/ plan.life = "terminating"
      /\ plan' = plan /\ sweep' = sweep
  BY DEF Observe
<1>2. sweep'.pc # "assess"
  BY <1>0, <1>1 DEF SweepIsCurrent
<1>3. plan.life = "active" /\ ~Due
  BY <1>1, <1>2
<1>4. plan.spec[plan.generation] = plan.spec[handled] /\ ~resuming
  BY <1>3 DEF Due, Current
<1>5. seen # 0
  <2> SUFFICES ASSUME seen = 0 PROVE FALSE
    OBVIOUS
  <2>1. handled = 0
    BY <1>0, <1>1, <1>3, <1>4 DEF FreshStart
  <2>2. plan.spec[0] = NoSpec
    BY <1>0 DEF IInv, HistoryIsWrittenOnce, Generations
  <2>3. plan.generation \in 1 .. plan.generation
    BY <1>0, <1>1 DEF IInv, WorkHasPlan, TypeOK, PlanType, Generations
  <2>4. plan.spec[plan.generation] \in AllSpecs
    BY <1>0, <2>3 DEF SpecsAreGiven
  <2>5. NoSpec \notin AllSpecs
    BY DEF NoSpec, AllSpecs
  <2> QED
    BY <1>4, <2>1, <2>2, <2>4, <2>5
<1>6. plan.spec[seen] = plan.spec[handled] /\ Reflects(plan.status.children, seen)
  BY <1>0, <1>3, <1>5 DEF RestAgrees
<1> QED
  BY <1>1, <1>3, <1>4, <1>5, <1>6 DEF Reflects

(* What the handler leaves when it is back. *)
LEMMA ReconcileLeaves ==
    ASSUME Met, FinishReconcile
    PROVE  /\ handled' = seen /\ seen' = seen /\ rec.gen = seen /\ plan'.spec = plan.spec
           /\ Reflects(plan.status.children, seen)'
           /\ \A c \in Components : plan.spec[seen][c] # None => rec.done[c] # None
<1>1. IInv /\ rec.pc = "prune" /\ rec.todo = {}
  BY MetParts, ReturnStep
<1>2. Accounts(rec.done, {}, rec.gen) /\ rec.gen = seen
  BY <1>1 DEF IInv, WorkAddsUp, ViewsAgree
<1>3. Reflects(rec.done, seen)
  BY <1>2, AccountIsReflected
<1>4. /\ plan'.spec = plan.spec /\ plan'.status.children = rec.done
      /\ handled' = rec.gen /\ seen' = seen
  BY <1>1, ReturnStep
<1> QED
  BY <1>2, <1>3, <1>4 DEF Reflects

LEMMA RestAgreesStill ==
    ASSUME Met PROVE RestAgrees'
<1> SUFFICES ASSUME rec'.pc = "idle", seen' # 0,
                    plan'.life = "active" \/ sweep'.pc = "assess"
             PROVE  RestAgrees'
  BY DEF RestAgrees
<1>0. IInv /\ Next /\ RestAgrees
  BY MetParts
<1>1. CASE FinishReconcile
  BY <1>1, ReconcileLeaves DEF RestAgrees
<1>2. CASE rec.pc = "idle" /\ Observe
  <2>1. plan' = plan /\ handled' = handled
    BY <1>2 DEF Observe
  <2> QED
    BY <1>2, <2>1, TakenInAnew DEF RestAgrees, Reflects
<1>3. CASE rec.pc = "idle" /\ FinishSweep
  <2>1. plan.spec[seen] = plan.spec[handled]
    BY <1>0, <1>3, SweepWrites DEF RestAgrees
  <2>2. /\ seen' = seen /\ handled' = handled /\ plan'.spec = plan.spec
        /\ Reflects(plan.status.children, seen)'
    BY <1>3, SweepWrites
  <2> QED
    BY <2>1, <2>2 DEF RestAgrees
<1>4. CASE rec.pc = "idle" /\ Rests
  <2>1. plan'.uid = plan.uid
    <3>1. ASSUME NEW s \in Specs, CreatePlan(s) PROVE FALSE
      BY <3>1, RestStep DEF CreatePlan
    <3> QED
      BY <1>0, <3>1, PlanStays
  <2>2. /\ seen \in Generations /\ handled \in Generations
        /\ seen <= plan.generation /\ handled <= plan.generation
    BY <1>0 DEF IInv, TypeOK, ViewsAgree
  <2>3. plan'.spec[seen] = plan.spec[seen] /\ plan'.spec[handled] = plan.spec[handled]
    BY <1>0, <2>1, <2>2, GenerationsStay
  <2>4. plan.spec[seen] = plan.spec[handled] /\ Reflects(plan.status.children, seen)
    BY <1>0, <1>4 DEF RestAgrees, Rests
  <2> QED
    BY <1>4, <2>3, <2>4 DEF RestAgrees, Rests, Reflects
<1> QED
  BY <1>1, <1>2, <1>3, <1>4, RestStep
-----------------------------------------------------------------------------
LEMMA SamePlan ==
    ASSUME IInv, Next, plan.life # "gone" PROVE plan'.uid = plan.uid
<1>1. ASSUME NEW s \in Specs, CreatePlan(s) PROVE FALSE
  BY <1>1 DEF CreatePlan
<1> QED
  BY <1>1, PlanStays

(* A component whose apply fails is the one the loop has just been through. *)
LEMMA FailsAlone ==
    ASSUME IInv, NEW c \in Components, ReconcileApplyFails(c)
    PROVE  /\ c \in rec.todo /\ rec'.todo = rec.todo \ {c} /\ rec' # rec
           /\ c \in NeedsAttention(rec'.done) /\ cluster' = cluster
<1>1. Reconciled(c, "failed") /\ "failed" \in Healths /\ cluster' = cluster
  BY DEF ReconcileApplyFails, ApplyFails, Healths
<1>2. /\ c \in rec.todo /\ rec'.todo = rec.todo \ {c}
      /\ rec'.done = [rec.done EXCEPT ![c] = Entry(rec.gen, c, "failed")]
      /\ Entry(rec.gen, c, "failed") \in Child
  BY <1>1, LoopStep
<1>3. rec.done \in ChildList /\ Entry(rec.gen, c, "failed") # None
  BY <1>2 DEF IInv, TypeOK, RecType
<1>4. rec'.done[c] = Entry(rec.gen, c, "failed")
  BY <1>2, <1>3 DEF ChildList
<1> QED
  BY <1>1, <1>2, <1>3, <1>4 DEF NeedsAttention, Listed, Entry

LEMMA AppliesAlone ==
    ASSUME IInv, NEW c \in Components, ReconcileApply(c)
    PROVE  \A d \in Components : ~ReconcileApplyFails(d)
<1> SUFFICES ASSUME NEW d \in Components, ReconcileApplyFails(d) PROVE FALSE
  OBVIOUS
<1>1. Reconciled(c, "pending") /\ "pending" \in Healths
  BY DEF ReconcileApply, Healths
<1>2. /\ c \in rec.todo /\ rec'.todo = rec.todo \ {c}
      /\ rec'.done = [rec.done EXCEPT ![c] = Entry(rec.gen, c, "pending")]
  BY <1>1, LoopStep
<1>3. /\ d \in rec.todo /\ rec'.todo = rec.todo \ {d} /\ d \in NeedsAttention(rec'.done)
  BY FailsAlone
<1>4. c = d
  BY <1>2, <1>3
<1>5. rec'.done[c] = Entry(rec.gen, c, "pending")
  BY <1>2 DEF IInv, TypeOK, RecType, ChildList
<1> QED
  BY <1>3, <1>4, <1>5 DEF NeedsAttention, Entry

(* What is served stays so until something else is put in its place. *)
LEMMA ServedStays ==
    ASSUME IInv, Next, NEW g \in Generations, g <= plan.generation,
           plan'.spec[g] = plan.spec[g],
           Shrinks \/ \E c \in Components : Puts(c, g),
           NEW d \in Components, plan.spec[g][d] # None, Served(d, g)
    PROVE  Served(d, g)'
<1> DEFINE o == ObjectOf[plan.spec[g][d]]
<1>1. o \in Objects
  BY AtWorkOn
<1>2. Live(o) => cluster[o].manifest \in Wants(g, o)
  BY DEF Served
<1>3. Wants(g, o)' = Wants(g, o)
  BY DEF Wants
<1>4. Live(o)' => cluster'[o].manifest \in Wants(g, o)
  <2>1. CASE Shrinks
    BY <1>1, <1>2, <2>1 DEF Shrinks, Live
  <2>2. ASSUME NEW c \in Components, Puts(c, g)
        PROVE  Live(o)' => cluster'[o].manifest \in Wants(g, o)
    <3>1. CASE o = ObjectOf[plan.spec[g][c]]
      <4>1. plan.spec[g][c] # None /\ cluster'[o].manifest = plan.spec[g][c]
        BY <2>2, <3>1 DEF Puts
      <4>2. plan.spec[g][c] \in Wants(g, o)
        BY <3>1, <4>1 DEF Wants
      <4> QED
        BY <4>1, <4>2
    <3>2. CASE o # ObjectOf[plan.spec[g][c]]
      BY <1>1, <1>2, <2>2, <3>2 DEF Puts, Live
    <3> QED
      BY <3>1, <3>2
  <2> QED
    BY <2>1, <2>2
<1> QED
  BY <1>3, <1>4 DEF Served, Live, Wants

(* A component the loop has just applied is served. *)
LEMMA ServedNow ==
    ASSUME NEW g \in Generations, NEW c \in Components, Puts(c, g),
           plan'.spec[g] = plan.spec[g]
    PROVE  Served(c, g)'
<1>1. plan.spec[g][c] # None /\ cluster'[ObjectOf[plan.spec[g][c]]].manifest = plan.spec[g][c]
  BY DEF Puts
<1>2. plan.spec[g][c] \in Wants(g, ObjectOf[plan.spec[g][c]])'
  BY <1>1 DEF Wants
<1> QED
  BY <1>1, <1>2 DEF Served

(* The first part: what is noted as masked is noted as refused, and nothing a
   reconcile has still to do is.                                              *)
LEMMA NotesAddUp ==
    ASSUME Met
    PROVE  /\ past'.masked \subseteq past'.refused
           /\ Working' => past'.refused \cap rec'.todo = {}
<1>0. IInv /\ Next /\ FreshStart /\ past.masked \subseteq past.refused
  BY MetParts DEF RefusalsAreNoted
<1>1. past'.masked \subseteq past'.refused
  BY <1>0, MetNotes
<1>2. ASSUME Working', ~Working PROVE past'.refused \cap rec'.todo = {}
  <2>1. CASE rec'.pc = "apply"
    BY <1>2, <2>1, MetNotes DEF ReconcileBegins
  <2>2. CASE ~up
    BY <2>2, MetNotes
  <2>3. CASE rec'.pc = "prune"
    BY <2>3, MetParts DEF IInv, WorkAddsUp
  <2> QED
    BY <1>2, <2>1, <2>3 DEF Working
<1>3. ASSUME Working', Working PROVE past'.refused \cap rec'.todo = {}
  <2>1. past.refused \cap rec.todo = {}
    BY <1>3, MetParts DEF RefusalsAreNoted
  <2>2. past'.refused = past.refused \cup {c \in Components : ReconcileApplyFails(c)}
    BY <1>0, <1>3, MetNotes, AtWork DEF ReconcileBegins
  <2>3. \A c \in Components : ReconcileApplyFails(c) => c \notin rec'.todo
    BY <1>0, FailsAlone
  <2>4. rec'.todo \subseteq rec.todo
    <3>1. \A c \in Components : Loops(c) => rec'.todo = rec.todo \ {c}
      BY <1>0, LoopStep DEF Loops, ReconcileApply, ReconcileApplyFails, Healths
    <3>2. \A c \in Components : Prune(c) => rec'.todo = rec.todo
      BY <1>0, PruneStep
    <3> QED
      BY <1>0, <1>3, <3>1, <3>2, AtWork
  <2> QED
    BY <2>1, <2>2, <2>3, <2>4
<1> QED
  BY <1>1, <1>2, <1>3

(* The second part: all a reconcile has been through is served or refused. *)
LEMMA WorkIsNoted ==
    ASSUME Met, Working', NEW d \in Names(plan'.spec[rec'.gen]) \ rec'.todo
    PROVE  IF d \in past'.refused THEN d \in NeedsAttention(rec'.done)
           ELSE Served(d, rec.gen)'
<1>0. IInv /\ Next /\ FreshStart /\ d \in Components
  BY MetParts DEF Names
<1>1. CASE ~Working
  <2>2. StartReconcile
    BY <1>0, <1>1, Begins
  <2> QED
    BY <2>2 DEF StartReconcile, Names, Current
<1>2. CASE Working
  <2> DEFINE g == rec.gen
  <2>1. /\ g \in Generations /\ g <= plan.generation /\ rec'.gen = g
        /\ plan'.spec[g] = plan.spec[g] /\ up
        /\ (\E c \in Components : Loops(c) \/ Prune(c)) \/ rec' = rec
    BY <1>0, <1>2, AtWork
  <2>2. past'.refused = past.refused \cup {c \in Components : ReconcileApplyFails(c)}
    BY <1>2, <2>1, MetNotes DEF ReconcileBegins
  <2>3. \A c \in Names(plan.spec[g]) \ rec.todo :
           IF c \in past.refused THEN c \in NeedsAttention(rec.done) ELSE Served(c, g)
    BY <1>2, MetParts DEF RefusalsAreNoted
  <2>4. d \in Names(plan.spec[g]) /\ plan.spec[g][d] # None /\ d \notin rec'.todo
    BY <2>1 DEF Names
  <2>5. Shrinks \/ \E c \in Components : Puts(c, g)
    BY <1>2, WorkMoves
  <2>6. Served(d, g) => Served(d, g)'
    BY <1>0, <2>1, <2>4, <2>5, ServedStays
  <2>7. Served(d, g)' => Served(d, rec.gen)'
    BY <2>1 DEF Served, Wants
  <2> HIDE DEF g
  <2>8. ASSUME d \notin rec.todo, rec'.done[d] = rec.done[d], ~ReconcileApplyFails(d)
        PROVE  IF d \in past'.refused THEN d \in NeedsAttention(rec'.done)
               ELSE Served(d, rec.gen)'
    BY <1>0, <2>2, <2>3, <2>4, <2>6, <2>7, <2>8 DEF NeedsAttention, Listed
  <2>9. ASSUME NEW c \in Components, ReconcileApply(c)
        PROVE  IF d \in past'.refused THEN d \in NeedsAttention(rec'.done)
               ELSE Served(d, rec.gen)'
    <3>1. /\ c \in rec.todo /\ rec'.todo = rec.todo \ {c}
          /\ rec'.done = [rec.done EXCEPT ![c] = Entry(rec.gen, c, "pending")]
      BY <1>0, <2>9, LoopStep DEF ReconcileApply, Healths
    <3>2. ~ReconcileApplyFails(d)
      BY <1>0, <2>9, AppliesAlone
    <3>3. CASE d = c
      <4>1. d \notin past'.refused
        <5>1. d \notin past.refused
          BY <1>2, <3>1, <3>3, MetParts DEF RefusalsAreNoted
        <5> QED
          BY <2>2, <3>2, <5>1
      <4>2. Served(d, g)'
        BY <1>0, <2>1, <2>9, <3>3, ReconcilePuts, ServedNow DEF g
      <4> QED
        BY <2>7, <4>1, <4>2
    <3>4. CASE d # c
      <4>1. rec'.done[d] = rec.done[d]
        BY <1>0, <3>1, <3>4 DEF IInv, TypeOK, RecType, ChildList
      <4> QED
        BY <2>4, <2>8, <3>1, <3>2, <3>4, <4>1
    <3> QED
      BY <3>3, <3>4
  <2>10. ASSUME NEW c \in Components, ReconcileApplyFails(c)
         PROVE  IF d \in past'.refused THEN d \in NeedsAttention(rec'.done)
                ELSE Served(d, rec.gen)'
    <3>1. /\ c \in rec.todo /\ rec'.todo = rec.todo \ {c}
          /\ rec'.done = [rec.done EXCEPT ![c] = Entry(rec.gen, c, "failed")]
      BY <1>0, <2>10, LoopStep DEF ReconcileApplyFails, Healths
    <3>2. CASE d = c
      <4>1. d \in past'.refused /\ d \in NeedsAttention(rec'.done)
        BY <1>0, <2>2, <2>10, <3>2, FailsAlone
      <4> QED
        BY <4>1
    <3>3. CASE d # c
      <4>1. rec'.done[d] = rec.done[d] /\ d \notin rec.todo
        BY <1>0, <2>4, <3>1, <3>3 DEF IInv, TypeOK, RecType, ChildList
      <4>2. ~ReconcileApplyFails(d)
        BY <1>0, <4>1, FailsAlone
      <4> QED
        BY <2>8, <4>1, <4>2
    <3> QED
      BY <3>2, <3>3
  <2>11. ASSUME rec' = rec \/ \E c \in Components : Prune(c)
         PROVE  IF d \in past'.refused THEN d \in NeedsAttention(rec'.done)
                ELSE Served(d, rec.gen)'
    <3>1. rec'.todo = rec.todo /\ rec'.done = rec.done
      BY <1>0, <2>11, PruneStep
    <3>2. ~ReconcileApplyFails(d)
      BY <1>0, <3>1, FailsAlone
    <3> QED
      BY <2>4, <2>8, <3>1, <3>2
  <2> QED
    BY <2>1, <2>9, <2>10, <2>11 DEF Loops
<1> QED
  BY <1>1, <1>2
(* The third part: so it stays when the reconcile is back. *)
LEMMA RestIsNoted ==
    ASSUME Met, rec'.pc = "idle", seen' # 0, plan'.life = "active",
           NEW d \in Names(plan'.spec[seen']) \ past'.masked
    PROVE  IF d \in past'.refused THEN d \in NeedsAttention(plan'.status.children)
           ELSE Served(d, seen)'
<1>0. /\ IInv /\ IInv' /\ Next /\ FreshStart /\ RestAgrees /\ RefusalsAreNoted
      /\ d \in Components /\ plan \in PlanType
  BY MetParts DEF Names, IInv, TypeOK
<1>1. up /\ up' /\ plan.life # "gone" /\ plan'.uid = plan.uid /\ ~ReconcileBegins
  BY <1>0, RestStep, SamePlan DEF ReconcileBegins
<1>2. /\ past'.refused = past.refused \cup {c \in Components : ReconcileApplyFails(c)}
      /\ past'.masked = IF SweepReturns /\ rec.pc = "idle" THEN past.refused
                        ELSE past.masked
  BY <1>1, MetNotes
<1>3. \A c \in Components : ~ReconcileApplyFails(c)
  BY <1>0, LoopStep DEF ReconcileApplyFails, Healths
<1>4. past'.refused = past.refused
  BY <1>2, <1>3
<1> DEFINE Fine == IF d \in past'.refused THEN d \in NeedsAttention(plan'.status.children)
                   ELSE Served(d, seen)'
<1>5. CASE FinishReconcile
  <2>1. /\ rec.pc = "prune" /\ rec.todo = {} /\ plan'.status.children = rec.done
        /\ rec.gen = seen /\ seen' = seen /\ plan'.spec = plan.spec /\ cluster' = cluster
    BY <1>0, <1>5, ReturnStep, ReconcileLeaves
  <2>2. d \in Names(plan.spec[rec.gen]) \ rec.todo
    BY <2>1 DEF Names
  <2>3. IF d \in past.refused THEN d \in NeedsAttention(rec.done) ELSE Served(d, rec.gen)
    BY <1>0, <2>1, <2>2 DEF RefusalsAreNoted, Working
  <2>4. Served(d, rec.gen) => Served(d, seen)'
    BY <2>1 DEF Served, Wants, Live
  <2>5. NeedsAttention(rec.done) = NeedsAttention(plan'.status.children)
    BY <2>1
  <2> QED
    BY <1>4, <2>3, <2>4, <2>5
<1>6. CASE rec.pc = "idle" /\ Observe
  <2>1. plan' = plan /\ cluster' = cluster /\ sweep' = sweep
    BY <1>6 DEF Observe
  <2>2. plan.life = "active" /\ seen # 0 /\ plan.spec[seen'] = plan.spec[seen]
    BY <1>6, TakenInAnew
  <2>3. ~SweepReturns
    BY <2>1 DEF SweepReturns
  <2>4. d \in Names(plan.spec[seen]) \ past.masked
    BY <1>2, <2>1, <2>2, <2>3 DEF Names
  <2>5. IF d \in past.refused THEN d \in NeedsAttention(plan.status.children)
        ELSE Served(d, seen)
    BY <1>0, <1>6, <2>2, <2>4 DEF RefusalsAreNoted
  <2>6. Served(d, seen) => Served(d, seen)'
    BY <2>1, <2>2 DEF Served, Wants, Live
  <2> QED
    BY <1>4, <2>1, <2>5, <2>6
<1>7. CASE rec.pc = "idle" /\ FinishSweep
  <2>1. /\ seen # 0 /\ seen' = seen /\ plan'.spec = plan.spec /\ cluster' = cluster
        /\ plan'.life = plan.life
    BY <1>7, SweepWrites
  <2>2. SweepReturns
    BY <1>1, <1>7 DEF FinishSweep, SweepReturns, Unswept
  <2>3. d \notin past.refused /\ d \notin past.masked
    BY <1>0, <1>2, <1>7, <2>2 DEF RefusalsAreNoted
  <2>4. Served(d, seen)
    BY <1>0, <1>7, <2>1, <2>3 DEF RefusalsAreNoted, Names
  <2>5. Served(d, seen)'
    BY <2>1, <2>4 DEF Served, Wants, Live
  <2> QED
    BY <1>4, <2>3, <2>5
<1>8. CASE rec.pc = "idle" /\ rec' = rec /\ Rests
  <2>1. /\ seen' = seen /\ plan.life = "active" /\ plan'.status = plan.status
        /\ ~SweepReturns /\ seen # 0
    BY <1>8 DEF Rests
  <2>2. seen \in Generations /\ seen <= plan.generation
    BY <1>0 DEF IInv, TypeOK, ViewsAgree
  <2>3. plan'.spec[seen] = plan.spec[seen]
    BY <1>0, <1>1, <2>2, GenerationsStay
  <2>4. d \in Names(plan.spec[seen]) \ past.masked /\ plan.spec[seen][d] # None
    BY <1>2, <2>1, <2>3 DEF Names
  <2>5. IF d \in past.refused THEN d \in NeedsAttention(plan.status.children)
        ELSE Served(d, seen)
    BY <1>0, <1>8, <2>1, <2>4 DEF RefusalsAreNoted
  <2>6. Shrinks \/ \E c \in Components : Puts(c, seen)
    <3>1. ASSUME NEW c \in Components, SweepHeal(c) PROVE Puts(c, seen)
      BY <1>0, <3>1, SweepPuts, MetParts DEF SweepIsCurrent
    <3>2. \A c \in Components : ~ReconcileApply(c)
      BY <1>0, <1>8, LoopStep DEF ReconcileApply, Healths
    <3> QED
      BY <1>0, <3>1, <3>2, ShrinkCases
  <2>7. Served(d, seen) => \A g \in Generations : g = seen => Served(d, g)'
    BY <1>0, <2>2, <2>3, <2>4, <2>6, ServedStays
  <2>8. Served(d, seen) => Served(d, seen)'
    BY <2>1, <2>2, <2>7 DEF Served, Wants
  <2> QED
    BY <1>4, <2>1, <2>5, <2>8
<1> QED
  BY <1>5, <1>6, <1>7, <1>8, RestStep

LEMMA RefusalsAreNotedStill ==
    ASSUME Met PROVE RefusalsAreNoted'
<1>1. ASSUME Working', NEW d \in Names(plan'.spec[rec'.gen]) \ rec'.todo
      PROVE  IF d \in past'.refused THEN d \in NeedsAttention(rec'.done)
             ELSE Served(d, rec.gen)'
  BY <1>1, WorkIsNoted
<1>2. ASSUME rec'.pc = "idle", seen' # 0, plan'.life = "active",
             NEW d \in Names(plan'.spec[seen']) \ past'.masked
      PROVE  IF d \in past'.refused THEN d \in NeedsAttention(plan'.status.children)
             ELSE Served(d, seen)'
  BY <1>2, RestIsNoted
<1>3. /\ past'.masked \subseteq past'.refused
      /\ Working' => past'.refused \cap rec'.todo = {}
  BY NotesAddUp
<1> QED
  BY <1>1, <1>2, <1>3 DEF RefusalsAreNoted, NeedsAttention, Listed, Names
-----------------------------------------------------------------------------
(* What has failed has failed, and crashes are counted. *)
LEMMA BudgetKept ==
    ASSUME IInv, Next, budget'.faults = 0, budget'.crashes = 0
    PROVE  /\ budget.faults = 0 /\ budget.crashes = 0
           /\ ~PruneFails /\ ~Crash
<1>1. budget \in BudgetType
  BY DEF IInv, TypeOK
<1>2. ~CallFails
  BY <1>1 DEF CallFails, BudgetType
<1>3. ~PruneFails
  BY <1>2 DEF PruneFails
<1>4. ~Crash
  BY <1>1 DEF Crash, BudgetType
<1>5. budget' = budget => budget.faults = 0 /\ budget.crashes = 0
  OBVIOUS
<1>6. ASSUME NEW c \in Components, Loops(c) \/ SweepLooks(c)
      PROVE  budget' = budget
  BY <1>2, <1>6 DEF Loops, ReconcileApply, Apply, ReconcileApplyFails, ApplyFails,
         SweepLooks, SweepAssess, SweepMisses, SweepReadFails, SweepHealFails
<1>7. \A c \in Components : Prune(c) \/ SweepHeal(c) => budget' = budget
  BY DEF Prune, SweepHeal, Apply
<1>8. ASSUME NEW o \in Objects, ClusterMoves(o)
      PROVE  budget'.faults = budget.faults /\ budget'.crashes = budget.crashes
  BY <1>1, <1>8 DEF ClusterMoves, Collect, Lose, ChangeHealth, BudgetType
<1>9. \/ StartReconcile \/ FinishReconcile \/ Observe \/ StartSweep \/ FinishSweep
      \/ OnDelete \/ Restart \/ DeletePlan
      \/ \E s \in Specs : CreatePlan(s) \/ EditPlan(s)
      => budget' = budget
  BY DEF StartReconcile, FinishReconcile, Observe, StartSweep, FinishSweep, OnDelete,
         Restart, DeletePlan, CreatePlan, EditPlan
<1> QED
  BY <1>3, <1>4, <1>5, <1>6, <1>7, <1>8, <1>9, StepCases

LEMMA MovedStays ==
    ASSUME IInv, Next, plan'.uid = plan.uid PROVE Moved \subseteq Moved'
<1> SUFFICES ASSUME NEW c \in Components, c \in Moved PROVE c \in Moved'
  BY DEF Moved
<1>1. PICK g, h \in 1 .. plan.generation :
        /\ plan.spec[g][c] # None /\ plan.spec[h][c] # None
        /\ ObjectOf[plan.spec[g][c]] # ObjectOf[plan.spec[h][c]]
  BY DEF Moved
<1>2. plan.generation \in Generations
  BY DEF IInv, TypeOK, PlanType
<1>3. g \in Generations /\ g <= plan.generation /\ h \in Generations /\ h <= plan.generation
  BY <1>2 DEF Generations
<1>4. /\ plan'.spec[g] = plan.spec[g] /\ plan'.spec[h] = plan.spec[h]
      /\ g \in 1 .. plan'.generation /\ h \in 1 .. plan'.generation
  BY <1>3, GenerationsStay DEF Generations
<1> QED
  BY <1>1, <1>4 DEF Moved

LEMMA TwoNames ==
    ASSUME NEW c \in Components, NEW o, NEW p, Named(c, o), Named(c, p), o # p
    PROVE  c \in Moved
  BY DEF Named, Moved

(* A reconcile at work is over when it comes back, fails to prune or dies. *)
LEMMA LeavesWork ==
    ASSUME IInv, Next, Working, ~Working'
    PROVE  FinishReconcile \/ PruneFails \/ Crash
<1>1. ASSUME rec' = rec PROVE FALSE
  BY <1>1 DEF Working
<1>2. \A d \in Components : ~Loops(d) /\ ~Prune(d)
  BY LoopStep, PruneStep DEF Loops, ReconcileApply, ReconcileApplyFails, Healths, Working
<1>3. \A d \in Components : SweepLooks(d) \/ SweepHeal(d) => rec' = rec
  BY DEF SweepLooks, SweepAssess, SweepMisses, SweepReadFails, SweepHealFails,
         SweepHeal, Healed, SweepLocal
<1>4. ~StartReconcile /\ ~OnDelete
  BY DEF StartReconcile, OnDelete, Working
<1>5. Observe \/ StartSweep \/ FinishSweep \/ Restart \/ DeletePlan => rec' = rec
  BY DEF Observe, StartSweep, FinishSweep, Restart, DeletePlan
<1>6. \A s \in Specs : CreatePlan(s) \/ EditPlan(s) => rec' = rec
  BY DEF CreatePlan, EditPlan
<1>7. \A o \in Objects : ClusterMoves(o) => rec' = rec
  BY DEF ClusterMoves, Collect, Lose, ChangeHealth
<1> QED
  BY <1>1, <1>2, <1>3, <1>4, <1>5, <1>6, <1>7, StepCases

(* What is on record stays so, but for what a prune deletes. *)
LEMMA RecordStays ==
    ASSUME Met, budget'.faults = 0, budget'.crashes = 0, plan.life # "gone",
           NEW c \in Components, OnRecord(c), ~Prune(c)
    PROVE  OnRecord(c)'
<1>0. /\ IInv /\ Next /\ FreshStart /\ RestAgrees /\ plan \in PlanType
      /\ plan'.life # "gone"
  BY MetParts DEF IInv, TypeOK
<1>1. budget.faults = 0 /\ budget.crashes = 0 /\ ~PruneFails /\ ~Crash
  BY <1>0, BudgetKept
<1>2. CASE Working /\ Working'
  <2>1. rec'.gen = rec.gen /\ plan'.spec[rec.gen] = plan.spec[rec.gen]
    BY <1>0, <1>2, AtWork
  <2>2. rec'.recorded[c] = rec.recorded[c]
    <3>1. ASSUME NEW d \in Components, Loops(d) PROVE rec'.recorded = rec.recorded
      BY <1>0, <3>1, LoopStep DEF Loops, ReconcileApply, ReconcileApplyFails, Healths
    <3>2. ASSUME NEW d \in Components, Prune(d) PROVE rec'.recorded[c] = rec.recorded[c]
      <4>1. rec'.recorded = [rec.recorded EXCEPT ![d] = None] /\ d # c
        BY <1>0, <3>2, PruneStep
      <4> QED
        BY <1>0, <4>1 DEF IInv, TypeOK, RecType, ChildList
    <3> QED
      BY <1>0, <1>2, <3>1, <3>2, AtWork
  <2> QED
    BY <1>2, <2>1, <2>2 DEF OnRecord
<1>3. CASE ~Working /\ Working'
  <2>1. rec'.recorded = plan.status.children
    BY <1>0, <1>3, Begins DEF StartReconcile
  <2> QED
    BY <1>3, <2>1 DEF OnRecord
<1>4. CASE Working /\ ~Working'
  <2>1. FinishReconcile
    BY <1>0, <1>1, <1>4, LeavesWork
  <2>2. /\ Listed(rec.recorded) \subseteq Names(plan.spec[rec.gen])
        /\ plan'.status.children = rec.done /\ rec.gen = seen
    BY <1>0, <2>1, ReturnStep, ReconcileLeaves
  <2>3. plan.spec[rec.gen][c] # None
    BY <1>4, <2>2 DEF OnRecord, Listed, Names
  <2>4. rec.done[c] # None
    BY <2>1, <2>2, <2>3, ReconcileLeaves
  <2> QED
    BY <1>4, <2>2, <2>4 DEF OnRecord
<1>5. CASE ~Working /\ ~Working'
  <2>1. plan.status.children[c] # None /\ ~FinishReconcile
    BY <1>5 DEF OnRecord, Working, FinishReconcile
  <2>2. CASE FinishSweep
    <3>1. rec.pc = "idle"
      BY <1>0, <1>1, <1>5, MetParts DEF NothingIsLost, Working, IInv, TypeOK, RecType
    <3>2. /\ seen # 0 /\ sweep.pc = "assess" /\ plan'.status.children = sweep.done
          /\ plan.spec[seen][c] # None => sweep.done[c] # None
      BY <2>2, SweepWrites
    <3>3. Reflects(plan.status.children, seen)
      BY <1>0, <3>1, <3>2 DEF RestAgrees
    <3>4. plan.spec[seen][c] # None
      BY <2>1, <3>3 DEF Reflects
    <3> QED
      BY <1>5, <3>2, <3>4 DEF OnRecord
  <2>3. CASE ~FinishSweep
    <3>1. CASE Quiet \/ StartReconcile \/ Observe \/ Restart
      BY <1>5, <2>1, <3>1 DEF Quiet, StartReconcile, Observe, Restart, OnRecord
    <3>2. CASE DeletePlan
      BY <1>0, <1>5, <2>1, <3>2 DEF DeletePlan, PlanType, OnRecord
    <3>3. ~OnDelete
      BY <1>0 DEF OnDelete, PlanType
    <3>4. ASSUME NEW s \in Specs, CreatePlan(s) \/ EditPlan(s) PROVE OnRecord(c)'
      BY <1>0, <1>5, <2>1, <3>4, EditStep DEF CreatePlan, OnRecord
    <3> QED
      BY <1>0, <1>1, <2>1, <2>3, <3>1, <3>2, <3>3, <3>4, QuietCases
  <2> QED
    BY <2>2, <2>3
<1> QED
  BY <1>2, <1>3, <1>4, <1>5
(* What is put in place is on record. *)
LEMMA PutIsOnRecord ==
    ASSUME Met, budget'.faults = 0, budget'.crashes = 0, plan.life # "gone",
           NEW c \in Components, ReconcileApply(c) \/ SweepHeal(c)
    PROVE  OnRecord(c)
<1>0. IInv /\ Next /\ RestAgrees /\ SweepIsCurrent /\ NothingIsLost
  BY MetParts
<1>1. CASE ReconcileApply(c)
  <2>1. rec.pc = "apply" /\ plan.spec[rec.gen][c] # None
    BY <1>0, <1>1, ReconcilePuts DEF Puts, ReconcileApply, Reconciled
  <2> QED
    BY <2>1 DEF OnRecord, Working
<1>2. CASE SweepHeal(c)
  <2>1. sweep.pc = "assess" /\ sweep.gen = seen /\ plan.spec[seen][c] # None
    BY <1>0, <1>2, SweepPuts DEF Puts, SweepIsCurrent
  <2>2. CASE Working
    BY <1>0, <2>1, <2>2 DEF OnRecord, Working, IInv, ViewsAgree
  <2>3. CASE ~Working
    <3>1. rec.pc = "idle"
      BY <1>0, <2>3, BudgetKept DEF NothingIsLost, Working, IInv, TypeOK, RecType
    <3>2. Reflects(plan.status.children, seen)
      BY <1>0, <2>1, <3>1 DEF RestAgrees, IInv, WorkHasPlan
    <3> QED
      BY <2>1, <2>3, <3>2 DEF OnRecord, Reflects
  <2> QED
    BY <2>2, <2>3
<1> QED
  BY <1>1, <1>2

(* An object of the plan that lives after a step was one before, of the same
   component, or has just been put in place.                                  *)
LEMMA OwnedBefore ==
    ASSUME Met, plan.life # "gone", NEW o \in Objects, Owned(o)'
    PROVE  \/ Owned(o) /\ cluster[o].component = cluster'[o].component
           \/ \E c \in Components : /\ ReconcileApply(c) \/ SweepHeal(c)
                                    /\ cluster'[o].component = c
<1>0. IInv /\ Next /\ plan'.uid = plan.uid
  BY MetParts, SamePlan
<1>1. CASE Shrinks
  BY <1>0, <1>1 DEF Shrinks, Owned, Live
<1>2. ASSUME NEW c \in Components, NEW g, Puts(c, g)
      PROVE  \/ Owned(o) /\ cluster[o].component = cluster'[o].component
             \/ cluster'[o].component = c
  BY <1>0, <1>2 DEF Puts, Owned, Live
<1> QED
  BY <1>0, <1>1, <1>2, ShrinkCases, ReconcilePuts, SweepPuts

LEMMA NothingIsLostStill ==
    ASSUME Met PROVE NothingIsLost'
<1> SUFFICES ASSUME budget'.faults = 0, budget'.crashes = 0 PROVE NothingIsLost'
  BY DEF NothingIsLost
<1>0. /\ IInv /\ Next /\ ObjectsAreNamed /\ ObjectsAreNamed' /\ NothingIsLost
      /\ plan'.life # "gone"
  BY MetParts
<1>1. budget.faults = 0 /\ budget.crashes = 0 /\ ~PruneFails
  BY <1>0, BudgetKept
<1>2. CASE plan.life = "gone"
  <2>1. PICK s \in Specs : CreatePlan(s)
    BY <1>0, <1>2, PlanStays
  <2>2. rec' = rec /\ rec.pc = "idle" /\ cluster' = cluster /\ plan'.uid = plan.uid + 1
    BY <1>0, <1>2, <2>1 DEF CreatePlan, IInv, WorkHasPlan
  <2>3. \A o \in Objects : ~Owned(o)'
    BY <1>0, <2>2 DEF ObjectsAreNamed, Owned, Live, IInv, TypeOK, PlanType
  <2> QED
    BY <2>2, <2>3 DEF NothingIsLost
<1>3. CASE plan.life # "gone"
  <2>1. rec.pc # "backoff" /\ plan'.uid = plan.uid
    BY <1>0, <1>1, <1>3, SamePlan DEF NothingIsLost
  <2>2. rec'.pc # "backoff"
    <3>1. \A c \in Components : Loops(c) => rec'.pc # "backoff"
      BY <1>0, LoopStep DEF Loops, ReconcileApply, ReconcileApplyFails, Healths
    <3>2. \A c \in Components : Prune(c) => rec'.pc # "backoff"
      BY <1>0, PruneStep
    <3>3. \A c \in Components : SweepLooks(c) \/ SweepHeal(c) => rec' = rec
      BY DEF SweepLooks, SweepAssess, SweepMisses, SweepReadFails, SweepHealFails,
             SweepHeal, Healed, SweepLocal
    <3>4. StartReconcile \/ FinishReconcile \/ OnDelete \/ Crash => rec'.pc # "backoff"
      BY DEF StartReconcile, FinishReconcile, OnDelete, Crash, Unreconciled
    <3>5. Observe \/ StartSweep \/ FinishSweep \/ Restart \/ DeletePlan => rec' = rec
      BY DEF Observe, StartSweep, FinishSweep, Restart, DeletePlan
    <3>6. \A s \in Specs : CreatePlan(s) \/ EditPlan(s) => rec' = rec
      BY DEF CreatePlan, EditPlan
    <3>7. \A o \in Objects : ClusterMoves(o) => rec' = rec
      BY DEF ClusterMoves, Collect, Lose, ChangeHealth
    <3> QED
      BY <1>0, <1>1, <2>1, <3>1, <3>2, <3>3, <3>4, <3>5, <3>6, <3>7, StepCases
  <2>3. ASSUME NEW o \in Objects, Owned(o)'
        PROVE  (cluster[o].component \in Moved \/ OnRecord(cluster[o].component))'
    <3>1. PICK c \in Components : c = cluster'[o].component
      BY <1>0, <2>3 DEF ObjectsAreNamed
    <3> SUFFICES (c \in Moved \/ OnRecord(c))'
      BY <3>1 DEF OnRecord
    <3>2. c \in Moved => c \in Moved'
      BY <1>0, <2>1, MovedStays
    <3>3. ASSUME OnRecord(c), ~Prune(c) PROVE OnRecord(c)'
      BY <1>1, <1>3, <3>3, RecordStays
    <3>4. CASE \E d \in Components : /\ ReconcileApply(d) \/ SweepHeal(d)
                                     /\ cluster'[o].component = d
      <4>1. ReconcileApply(c) \/ SweepHeal(c)
        BY <3>1, <3>4
      <4>2. OnRecord(c)
        BY <1>3, <4>1, PutIsOnRecord
      <4>3. ~Prune(c)
        <5>1. ReconcileApply(c) => rec.pc = "apply"
          BY DEF ReconcileApply, Reconciled
        <5>2. SweepHeal(c) => rec' = rec
          BY <1>0, SweepPuts
        <5>3. Prune(c) => rec.pc = "prune" /\ rec' # rec
          <6> SUFFICES ASSUME Prune(c) PROVE rec.pc = "prune" /\ rec' # rec
            OBVIOUS
          <6>1. /\ rec.pc = "prune" /\ rec.recorded[c] # None
                /\ rec'.recorded = [rec.recorded EXCEPT ![c] = None]
            BY <1>0, PruneStep
          <6>2. rec'.recorded[c] = None
            BY <1>0, <6>1 DEF IInv, TypeOK, RecType, ChildList
          <6> QED
            BY <6>1, <6>2
        <5> QED
          BY <4>1, <5>1, <5>2, <5>3
      <4> QED
        BY <3>3, <4>2, <4>3
    <3>5. CASE Owned(o) /\ cluster[o].component = cluster'[o].component
      <4>1. c \in Moved \/ OnRecord(c)
        BY <1>0, <1>1, <1>3, <3>1, <3>5 DEF NothingIsLost
      <4>2. ASSUME Prune(c) PROVE c \in Moved
        <5>1. /\ rec.pc = "prune" /\ rec.recorded[c] # None
              /\ rec.recorded[c].object \in Objects
              /\ cluster' = [cluster EXCEPT ![rec.recorded[c].object] = None]
          BY <1>0, <4>2, PruneStep
        <5>2. o # rec.recorded[c].object
          BY <1>0, <2>3, <5>1 DEF Owned, Live, IInv, TypeOK
        <5>3. Named(c, o)
          BY <1>0, <1>3, <3>1, <3>5 DEF ObjectsAreNamed
        <5>4. Named(c, rec.recorded[c].object)
          BY <1>0, <5>1 DEF ObjectsAreNamed, Working, Listed
        <5> QED
          BY <5>2, <5>3, <5>4, TwoNames
      <4> QED
        BY <3>2, <3>3, <4>1, <4>2
    <3> QED
      BY <1>3, <2>3, <3>4, <3>5, OwnedBefore
  <2> QED
    BY <2>2, <2>3 DEF NothingIsLost
<1> QED
  BY <1>2, <1>3
-----------------------------------------------------------------------------
LEMMA HInit == HistoryInit => HInv
<1> SUFFICES ASSUME HistoryInit PROVE HInv
  OBVIOUS
<1>1. Init /\ past = Unmet /\ IInv
  BY InitInvariant DEF HistoryInit
<1>2. /\ plan.life = "gone" /\ plan.generation = 0 /\ plan.status = NoStatus
      /\ seen = 0 /\ handled = 0 /\ up /\ rec.pc = "idle" /\ sweep.pc = "idle"
      /\ past.masked = {} /\ plan.uid = 0
      /\ \A o \in Objects : Live(o) => cluster[o].owner = 0
  BY <1>1 DEF Init, Unmet, Unreconciled, Unswept, Live, Foreigner
<1>3. FreshStart /\ SpecsAreGiven /\ ObjectsAreNamed
  BY <1>2 DEF FreshStart, SpecsAreGiven, ObjectsAreNamed, Working
<1>4. SweepIsCurrent /\ RecordIsKept /\ RestAgrees /\ RefusalsAreNoted /\ NothingIsLost
  BY <1>2 DEF SweepIsCurrent, RecordIsKept, RestAgrees, RefusalsAreNoted, NothingIsLost,
              Working
<1> QED
  BY <1>1, <1>3, <1>4 DEF HInv

LEMMA HStep == HInv /\ [HistoryNext]_histVars => HInv'
<1> SUFFICES ASSUME HInv, [HistoryNext]_histVars PROVE HInv'
  OBVIOUS
<1>1. CASE UNCHANGED histVars
  <2>1. /\ UNCHANGED past /\ UNCHANGED <<plan, handled, cluster, up>>
        /\ UNCHANGED <<resuming, seen, rec, sweep, budget>>
    BY <1>1 DEF histVars, vars
  <2>2. IInv'
    BY <2>1, NextInvariant DEF HInv, vars
  <2>3. FreshStart' /\ SpecsAreGiven' /\ ObjectsAreNamed'
    BY <2>1 DEF HInv, FreshStart, SpecsAreGiven, ObjectsAreNamed, Live, Owned, Named,
                Working, Listed
  <2>4. ASSUME ~past'.straddled
        PROVE  SweepIsCurrent' /\ RecordIsKept' /\ RestAgrees'
    BY <2>1, <2>4 DEF HInv, SweepIsCurrent, RecordIsKept, RestAgrees, Working, Listed,
                      Reflects
  <2>5. ASSUME ~past'.straddled PROVE RefusalsAreNoted'
    <3>1. RefusalsAreNoted
      BY <2>1, <2>5 DEF HInv
    <3>2. \A c \in Components :
             /\ Served(c, rec.gen) => Served(c, rec.gen)'
             /\ Served(c, seen) => Served(c, seen)'
      BY <2>1 DEF Served, Wants, Live
    <3> QED
      BY <2>1, <3>1, <3>2 DEF RefusalsAreNoted, Working, Names, NeedsAttention, Listed
  <2>6. ASSUME ~past'.straddled PROVE NothingIsLost'
    BY <2>1, <2>6 DEF HInv, NothingIsLost, Owned, Live, Moved, OnRecord, Working
  <2> QED
    BY <2>2, <2>3, <2>4, <2>5, <2>6 DEF HInv
<1>2. CASE HistoryNext
  <2>1. IInv /\ Next /\ FreshStart /\ SpecsAreGiven /\ ObjectsAreNamed
    BY <1>2 DEF HInv, HistoryNext
  <2>2. IInv' /\ FreshStart' /\ SpecsAreGiven' /\ ObjectsAreNamed'
    BY <2>1, NextInvariant, FreshStartKept, SpecsKept, NamesKept
  <2>3. CASE plan'.life = "gone"
    <3>1. seen' = 0 /\ rec'.pc = "idle" /\ sweep'.pc = "idle" /\ past'.masked = {}
      BY <1>2, <2>2, <2>3 DEF IInv, WorkHasPlan, HistoryNext, Unmet
    <3> QED
      BY <2>2, <2>3, <3>1 DEF HInv, SweepIsCurrent, RecordIsKept, RestAgrees,
             RefusalsAreNoted, NothingIsLost, Working
  <2>4. ASSUME plan'.life # "gone", ~past'.straddled
        PROVE  /\ SweepIsCurrent' /\ RecordIsKept' /\ RestAgrees' /\ RefusalsAreNoted'
               /\ NothingIsLost'
    <3>1. Met
      BY <1>2, <2>4, MetOrNot
    <3>2. SweepIsCurrent'
      BY <3>1, MetParts DEF SweepIsCurrent
    <3> QED
      BY <3>1, <3>2, RecordIsKeptStill, RestAgreesStill, RefusalsAreNotedStill,
         NothingIsLostStill
  <2> QED
    BY <2>2, <2>3, <2>4 DEF HInv
<1> QED
  BY <1>1, <1>2
(* The records of the reconcile and of the status agree, on every behaviour. *)
THEOREM RecordHolds == HistorySpec => []HInv
<1> QED
  BY HInit, HStep, PTL DEF HistorySpec

(* At rest the spec taken in last is the plan's own, and the status is of it. *)
LEMMA AtRestAgrees ==
    ASSUME HInv, AtRest, ~past.straddled
    PROVE  /\ seen # 0 /\ plan.spec[seen] = Current /\ ~Working /\ rec.pc = "idle"
           /\ plan.life = "active" /\ Reflects(plan.status.children, seen)
           /\ RefusalsAreNoted /\ NothingIsLost
<1>1. /\ up /\ plan.life = "active" /\ rec.pc = "idle" /\ ~resuming
      /\ Current = plan.spec[handled]
      /\ FreshStart /\ SpecsAreGiven /\ IInv /\ RestAgrees
      /\ RefusalsAreNoted /\ NothingIsLost
  BY DEF AtRest, Due, HInv
<1>2. seen # 0
  <2> SUFFICES ASSUME seen = 0 PROVE FALSE
    OBVIOUS
  <2>1. handled = 0
    BY <1>1 DEF FreshStart
  <2>2. plan.spec[0] = NoSpec
    BY <1>1 DEF IInv, HistoryIsWrittenOnce, Generations
  <2>3. plan.generation \in 1 .. plan.generation
    BY <1>1 DEF IInv, WorkHasPlan, TypeOK, PlanType, Generations
  <2>4. Current \in AllSpecs
    BY <1>1, <2>3 DEF SpecsAreGiven, Current
  <2>5. NoSpec \notin AllSpecs
    BY DEF NoSpec, AllSpecs
  <2> QED
    BY <1>1, <2>1, <2>2, <2>4, <2>5
<1> QED
  BY <1>1, <1>2 DEF RestAgrees, Working

(* reconcile's docstring ("so a component dropped from the plan has its child
   deleted"), with the health sweep at work beside it: until an edit overtakes a
   sweep, a call fails or the operator crashes, nothing is left at rest of a
   component the spec has dropped, but for one that has been in two objects.   *)
THEOREM DroppedIsPruned == HistorySpec => []PrunedUnlessOvertaken
<1>1. HInv => PrunedUnlessOvertaken
  <2> SUFFICES ASSUME HInv, AtRest, ~past.straddled, budget.faults = 0, budget.crashes = 0,
                      NEW o \in Objects, Owned(o), cluster[o].component \notin Moved
               PROVE  cluster[o].component \in Names(Current)
    BY DEF PrunedUnlessOvertaken
  <2>1. /\ plan.spec[seen] = Current /\ ~Working /\ NothingIsLost
        /\ plan.life = "active" /\ Reflects(plan.status.children, seen)
    BY AtRestAgrees
  <2>2. OnRecord(cluster[o].component) /\ cluster[o].component \in Components
    BY <2>1 DEF NothingIsLost, HInv, ObjectsAreNamed
  <2> QED
    BY <2>1, <2>2 DEF OnRecord, Reflects, Names
<1> QED
  BY <1>1, RecordHolds, PTL

(* The escalation channel, with the health sweep at work beside the reconcile: a
   component whose object does not run what the spec wants is counted failed,
   until an edit overtakes a sweep or a sweep has judged the refused ones.     *)
THEOREM RefusalIsNoted == HistorySpec => []ReportedUntilSwept
<1>1. HInv => ReportedUntilSwept
  <2> SUFFICES ASSUME HInv, AtRest, ~past.straddled,
                      NEW c \in Names(Current) \ past.masked
               PROVE  LET o == ObjectOf[Current[c]]
                      IN  IF c \in past.refused
                          THEN c \in NeedsAttention(plan.status.children)
                          ELSE Live(o) => cluster[o].manifest \in Wanted(o)
    BY DEF ReportedUntilSwept
  <2>1. /\ seen # 0 /\ plan.spec[seen] = Current /\ rec.pc = "idle"
        /\ plan.life = "active" /\ RefusalsAreNoted
    BY AtRestAgrees
  <2>2. IF c \in past.refused THEN c \in NeedsAttention(plan.status.children)
        ELSE Served(c, seen)
    BY <2>1 DEF RefusalsAreNoted
  <2>3. Wants(seen, ObjectOf[Current[c]]) = Wanted(ObjectOf[Current[c]])
    BY <2>1 DEF Wants, Wanted, Names
  <2> QED
    BY <2>1, <2>2, <2>3 DEF Served
<1> QED
  BY <1>1, RecordHolds, PTL

(* Only the two handlers write the status of a plan. *)
LEMMA StatusStays ==
    ASSUME IInv, Next, plan.life # "gone", plan'.life # "gone",
           ~FinishReconcile, ~FinishSweep
    PROVE  plan'.status = plan.status
<1>1. plan \in PlanType
  BY DEF IInv, TypeOK
<1>2. Quiet \/ StartReconcile \/ Observe \/ Crash \/ Restart => plan' = plan
  BY DEF Quiet, StartReconcile, Observe, Crash, Restart
<1>3. DeletePlan => plan'.status = plan.status
  BY <1>1 DEF DeletePlan, PlanType
<1>4. ~OnDelete
  BY <1>1 DEF OnDelete, PlanType
<1>5. \A s \in Specs : CreatePlan(s) \/ EditPlan(s) => plan'.status = plan.status
  BY EditStep DEF CreatePlan
<1> QED
  BY <1>2, <1>3, <1>4, <1>5, QuietCases

(* What somebody remembers of component c. *)
LEMMA RememberedIs ==
    ASSUME NEW c \in Components
    PROVE  /\ \A o \in Remembered(c) :
                 \/ plan.status.children[c] # None /\ o = plan.status.children[c].object
                 \/ Working /\ rec.recorded[c] # None /\ o = rec.recorded[c].object
           /\ Remembered(c)' = {} =>
                 /\ plan'.status.children[c] = None
                 /\ Working' => rec'.recorded[c] = None
<1>1. ASSUME NEW o \in Remembered(c)
      PROVE  \/ plan.status.children[c] # None /\ o = plan.status.children[c].object
             \/ Working /\ rec.recorded[c] # None /\ o = rec.recorded[c].object
  BY <1>1 DEF Remembered
<1>2. ASSUME plan'.status.children[c] # None PROVE Remembered(c)' # {}
  <2>1. plan'.status.children[c].object \in Remembered(c)'
    BY <1>2 DEF Remembered
  <2> QED
    BY <2>1
<1>3. ASSUME Working', rec'.recorded[c] # None PROVE Remembered(c)' # {}
  <2>1. rec'.recorded[c].object \in Remembered(c)'
    BY <1>3 DEF Remembered
  <2> QED
    BY <2>1
<1> QED
  BY <1>1, <1>2, <1>3

LEMMA ForgetStep ==
    ASSUME Met, ~past'.replaced, NEW c \in Components,
           Remembered(c)' = {}, NEW o \in Remembered(c)
    PROVE  cluster'[o] = None \/ cluster'[o].component # c
<1>0. /\ IInv /\ Next /\ FreshStart /\ RecordIsKept /\ RestAgrees
      /\ plan'.life # "gone"
  BY MetParts
<1>1. /\ \/ plan.status.children[c] # None /\ o = plan.status.children[c].object
         \/ Working /\ rec.recorded[c] # None /\ o = rec.recorded[c].object
      /\ plan'.status.children[c] = None
      /\ Working' => rec'.recorded[c] = None
  BY RememberedIs
<1>2. plan.life # "gone"
  <2> SUFFICES ASSUME plan.life = "gone" PROVE FALSE
    OBVIOUS
  <2>1. plan.status.children[c] = None
    BY <1>0 DEF FreshStart, NoStatus, NoChildren
  <2>2. ~Working
    BY <1>0 DEF IInv, WorkHasPlan, Working
  <2> QED
    BY <1>1, <2>1, <2>2
<1>3. ASSUME Working, ~past.replaced, plan'.status = plan.status PROVE FALSE
  <2>1. plan.status.children[c] = None
    BY <1>1, <1>3
  <2>2. rec.recorded[c] = plan.status.children[c]
    BY <1>0, <1>1, <1>3, <2>1 DEF RecordIsKept, Listed
  <2> QED
    BY <1>1, <2>1, <2>2
<1>4. CASE Working /\ Working'
  <2>1. ~FinishSweep /\ ~past.replaced
    BY <1>4, ReplacedAtWork
  <2>2. ~FinishReconcile
    BY <1>4 DEF FinishReconcile, Unreconciled, Working
  <2> QED
    BY <1>0, <1>2, <1>3, <1>4, <2>1, <2>2, StatusStays
<1>5. CASE Working /\ ~Working' /\ ~FinishReconcile
  <2>1. PruneFails \/ Crash
    BY <1>0, <1>5, LeavesWork
  <2>2. ~ReconcileBegins /\ up /\ ~ReconcileReturns
    <3>1. Crash => ~up'
      BY DEF Crash
    <3>2. PruneFails => rec'.pc = "backoff"
      BY DEF PruneFails, Unreconciled
    <3>3. up
      BY <1>0, <1>5 DEF FreshStart, IInv, WorkHasPlan, Working
    <3> QED
      BY <1>5, <2>1, <3>1, <3>2, <3>3 DEF ReconcileBegins, ReconcileReturns
  <2>3. ~past.replaced
    BY <2>2, MetNotes
  <2>4. plan' = plan
    BY <2>1 DEF PruneFails, Crash
  <2> QED
    BY <1>3, <1>5, <2>3, <2>4
<1>6. CASE FinishReconcile
  <2>1. /\ rec.pc = "prune" /\ cluster' = cluster /\ rec.gen = seen
        /\ Listed(rec.recorded) \subseteq Names(plan.spec[rec.gen])
        /\ plan'.status.children = rec.done
        /\ plan.spec[seen][c] # None => rec.done[c] # None
    BY <1>0, <1>6, ReturnStep, ReconcileLeaves
  <2>2. plan.spec[rec.gen][c] = None /\ rec.recorded[c] = None
    BY <1>1, <2>1 DEF Names, Listed
  <2>3. plan.status.children[c] # None /\ o = plan.status.children[c].object
    BY <1>1, <2>2
  <2>4. CASE past.replaced
    BY <1>0, <2>1, <2>2, <2>3, <2>4 DEF RecordIsKept, Reflects, Working
  <2>5. CASE ~past.replaced
    BY <1>0, <2>1, <2>2, <2>3, <2>5 DEF RecordIsKept, Working, Listed
  <2> QED
    BY <2>4, <2>5
<1>7. CASE ~Working /\ ~FinishReconcile
  <2>1. plan.status.children[c] # None
    BY <1>1, <1>7
  <2>2. FinishSweep
    BY <1>0, <1>1, <1>2, <1>7, <2>1, StatusStays
  <2>3. /\ seen # 0 /\ sweep.pc = "assess" /\ plan'.status.children = sweep.done
        /\ plan.spec[seen][c] # None <=> sweep.done[c] # None
        /\ up' = up /\ rec' = rec
    BY <2>2, SweepWrites
  <2>4. CASE rec.pc = "idle"
    BY <1>0, <1>1, <2>1, <2>3, <2>4 DEF RestAgrees, Reflects
  <2>5. CASE rec.pc # "idle"
    <3>1. up /\ up'
      BY <1>0, <2>3 DEF FreshStart
    <3>2. ~ReconcileBegins /\ ~ReconcileReturns
      BY <1>7, <2>3 DEF ReconcileBegins, ReconcileReturns, Working
    <3>3. SweepReturns
      BY <2>2, <2>3, <3>1 DEF FinishSweep, SweepReturns, Unswept
    <3> QED
      BY <2>5, <3>1, <3>2, <3>3, MetNotes
  <2> QED
    BY <2>4, <2>5
<1> QED
  BY <1>4, <1>5, <1>6, <1>7

(* _prune_orphans before the status that forgets, with the health sweep at work
   beside it: until an edit overtakes a sweep, and but for a status a sweep has
   written since the reconcile began, no child goes out of what the status or
   the reconcile has on record before its object is gone or another's.         *)
THEOREM PruneComesFirst == HistorySpec => PrunedBeforeForgotten
<1> DEFINE Keeps ==
      plan'.life # "gone" /\ ~past'.straddled /\ ~past'.replaced =>
          \A c \in Components : Remembered(c) # {} /\ Remembered(c)' = {} =>
              \A o \in Remembered(c) :
                  cluster'[o] = None \/ cluster'[o].component # c
<1>1. HInv /\ [HistoryNext]_histVars => [Keeps]_histVars
  <2> SUFFICES ASSUME HInv, HistoryNext, plan'.life # "gone", ~past'.straddled,
                      ~past'.replaced, NEW c \in Components, Remembered(c)' = {},
                      NEW o \in Remembered(c)
               PROVE  cluster'[o] = None \/ cluster'[o].component # c
    OBVIOUS
  <2> QED
    BY MetOrNot, ForgetStep
<1> QED
  BY <1>1, RecordHolds, PTL DEF HistorySpec, PrunedBeforeForgotten
=============================================================================
