------------------------ MODULE WorkloadHealthProofs ------------------------
(* Proofs about WorkloadHealth: what is proved of the operator in
   WorkloadOperatorProofs, where a child is assessed in one step, holds with the
   two calls of the code, between which the status of the plan, its spec and the
   pods may change.                                                           *)
EXTENDS WorkloadHealth, WorkloadOperatorProofs

USE CoreAssumption, OperatorAssumption

(* While the pods of an object are to be listed, the sweep stands still at its
   component, and knows that the object is not ready.                         *)
ProbeOwn ==
    probe # None =>
        /\ sweep.pc = "assess" /\ sweep.healing = None
        /\ probe.component \in sweep.todo
        /\ probe.health \in {"pending", "failed"}

HealthInv == IInv /\ ProbeOwn

(* What a call of the sweep settles: one component that was to do, in a health
   that nothing is known of.                                                  *)
Judging(c, h) ==
    /\ Turn(c) /\ Judged(c, h)
    /\ UNCHANGED budget \/ CallFails

(* The adapters know three healths. *)
LEMMA AdapterHealth == ASSUME NEW o PROVE IsReady(o) \in Healths
  BY DEF IsReady, DeploymentHealth, JobHealth, PodHealth, Healths

(* A step of the system with its workloads is a step of the operator's system,
   or the settling of one component, or leaves the operator's variables alone. *)
LEMMA HealthSteps ==
    ASSUME HealthInv, [HealthNext]_healthVars
    PROVE  \/ [Next]_vars
           \/ \E c \in Components, h \in Healths : Judging(c, h)
<1> USE DEF HealthInv, IInv
<1>0. sweep.todo \in SUBSET Components
  BY DEF TypeOK, SweepType
<1>1. ASSUME NEW c \in Components, GetObject(c)
      PROVE  [Next]_vars \/ \E h \in Healths : Judging(c, h)
  <2> DEFINE o == ObjectOf[plan.spec[sweep.gen][c]]
  <2>1. CASE PodOwning(o) /\ IsReady(o) # "ready"
    BY <1>1, <2>1 DEF GetObject, SweepLocal, vars
  <2>2. CASE ~(PodOwning(o) /\ IsReady(o) # "ready")
    BY <1>1, <2>2, AdapterHealth DEF GetObject, Judging
  <2> QED
    BY <2>1, <2>2
<1>2. ASSUME NEW c \in Components, GetObjectFails(c) PROVE Judging(c, "failed")
  BY <1>2 DEF GetObjectFails, Judging
<1>3. CASE ListPods
  <2> DEFINE c == probe.component
             h == IF FatalPod(PodsOf(ObjectOf[plan.spec[sweep.gen][c]]))
                  THEN "failed" ELSE probe.health
  <2>1. Turn(c) /\ c \in Components /\ h \in Healths
    BY <1>0, <1>3 DEF ListPods, ProbeOwn, Turn, Healths
  <2>2. Judging(c, h)
    BY <1>3, <2>1 DEF ListPods, Judging
  <2> QED
    BY <2>1, <2>2
<1>4. CASE ListPodsFails
  <2>1. Turn(probe.component) /\ probe.component \in Components
    BY <1>0, <1>4 DEF ListPodsFails, ProbeOwn, Turn
  <2>2. Judging(probe.component, "failed")
    BY <1>4, <2>1 DEF ListPodsFails, Judging
  <2> QED
    BY <2>1, <2>2 DEF Healths
<1>5. ASSUME NEW c \in Components, SweepMisses(c) \/ SweepHeal(c) \/ SweepHealFails(c)
      PROVE  Next
  BY <1>5 DEF Next, SweepNext
<1>6. CASE HealthSweepNext
  BY <1>1, <1>2, <1>3, <1>4, <1>5, <1>6 DEF HealthSweepNext, Next, SweepNext, Healths
<1>7. CASE HealthReconcileNext \/ \E s \in Specs : CreatePlan(s) \/ EditPlan(s)
  BY <1>7 DEF HealthReconcileNext, Next, EnvironmentNext
<1>8. CASE (\E o \in Objects : WorkloadMoves(o)) \/ UNCHANGED healthVars
  BY <1>8 DEF WorkloadMoves, healthVars
<1> QED
  BY <1>6, <1>7, <1>8 DEF HealthNext

(* Whatever health a component is given, the sweep's account stays straight. *)
LEMMA JudgingInvariant ==
    ASSUME IInv, NEW c \in Components, NEW h \in Healths, Judging(c, h)
    PROVE  IInv'
<1> USE DEF IInv
<1> DEFINE found == Entry(sweep.gen, c, h)
<1>1. /\ sweep.pc = "assess" /\ sweep.healing = None /\ c \in sweep.todo
      /\ sweep.gen \in Generations /\ sweep.done \in ChildList
      /\ sweep.todo \in SUBSET Components
      /\ Accounts(sweep.done, sweep.todo, sweep.gen)
  <2>1. sweep.pc = "assess" /\ sweep.healing = None /\ c \in sweep.todo
    BY DEF Judging, Turn
  <2>2. sweep.todo \cup ({sweep.healing} \ {None}) = sweep.todo
    BY <2>1
  <2> QED
    BY <2>1, <2>2 DEF WorkAddsUp, TypeOK, SweepType
<1>2. /\ [sweep.done EXCEPT ![c] = found] \in ChildList
      /\ Accounts([sweep.done EXCEPT ![c] = found], sweep.todo \ {c}, sweep.gen)
  BY <1>1, EntryAccounts
<1>3. sweep' = [sweep EXCEPT !.todo = @ \ {c}, !.done[c] = found]
  BY DEF Judging, Judged
<1>4. /\ sweep'.pc = "assess" /\ sweep'.gen = sweep.gen /\ sweep'.healing = None
      /\ sweep'.todo = sweep.todo \ {c}
      /\ sweep'.done = [sweep.done EXCEPT ![c] = found]
      /\ sweep' \in SweepType
  BY <1>1, <1>2, <1>3 DEF TypeOK, SweepType
<1>5. sweep'.todo \cup ({sweep'.healing} \ {None}) = sweep.todo \ {c}
  BY <1>4
<1>6. SweepLocal /\ cluster' = cluster /\ budget' \in BudgetType
  BY CallFailsType DEF Judging, Judged, TypeOK
<1> QED
  BY <1>1, <1>2, <1>4, <1>5, <1>6, SweepStepInvariant DEF TypeOK

(* Between the two calls nobody else moves the sweep. *)
LEMMA ProbeStaysOwn == HealthInv /\ [HealthNext]_healthVars => ProbeOwn'
<1> SUFFICES ASSUME HealthInv, [HealthNext]_healthVars, probe' # None PROVE ProbeOwn'
  BY DEF ProbeOwn
<1>1. ASSUME NEW c \in Components, GetObject(c) PROVE ProbeOwn'
  <2> DEFINE o == ObjectOf[plan.spec[sweep.gen][c]]
  <2>1. /\ Turn(c) /\ PodOwning(o) /\ IsReady(o) # "ready" /\ sweep' = sweep
        /\ probe' = [component |-> c, health |-> IsReady(o)]
    BY <1>1 DEF GetObject, Judged
  <2>2. IsReady(o) \in {"pending", "failed"}
    BY <2>1, AdapterHealth DEF Healths
  <2> QED
    BY <2>1, <2>2 DEF ProbeOwn, Turn
<1>2. ASSUME probe' = probe, sweep' = sweep PROVE ProbeOwn'
  BY <1>2 DEF HealthInv, ProbeOwn
<1>3. ASSUME StartSweep \/ FinishSweep, probe' = probe PROVE FALSE
  BY <1>3 DEF StartSweep, FinishSweep, HealthInv, ProbeOwn
<1>4. ASSUME HealthReconcileNext PROVE probe' = probe /\ sweep' = sweep
  BY <1>4 DEF HealthReconcileNext, ReconcileNext, StartReconcile, Reconciled,
              ReconcileApply, ReconcileApplyFails, Prune, PruneFails, FinishReconcile,
              Observe
<1>5. ASSUME NEW s \in Specs, CreatePlan(s) \/ EditPlan(s), UNCHANGED probe
      PROVE  probe' = probe /\ sweep' = sweep
  BY <1>5 DEF CreatePlan, EditPlan
<1>6. CASE HealthSweepNext
  BY <1>1, <1>3, <1>6 DEF HealthSweepNext, ListPods, ListPodsFails, GetObjectFails, Judged
<1>7. CASE (\E o \in Objects : WorkloadMoves(o)) \/ UNCHANGED healthVars
  BY <1>2, <1>7 DEF WorkloadMoves, vars, healthVars
<1> QED
  BY <1>2, <1>4, <1>5, <1>6, <1>7 DEF HealthNext

(* The inductive invariant of the operator, and the sweep between its calls. *)
THEOREM HealthInvariant == HealthSpec => []HealthInv
<1>1. HealthInit => HealthInv
  BY InitInvariant DEF HealthInit, HealthInv, ProbeOwn
<1>2. HealthInv /\ [HealthNext]_healthVars => HealthInv'
  BY HealthSteps, JudgingInvariant, NextInvariant, ProbeStaysOwn DEF HealthInv
<1> QED
  BY <1>1, <1>2, PTL DEF HealthSpec

(* The status is the whole of one spec also when each child is assessed in two
   calls and either may fail (health_sweep).                                  *)
THEOREM AssessedStatusIsWhole == HealthSpec => []StatusIsOneSpec
<1>1. HealthInv => StatusIsOneSpec
  BY DEF HealthInv, IInv
<1> QED
  BY <1>1, HealthInvariant, PTL

(* observedGeneration never goes back, however long an assessment takes. *)
THEOREM AssessedObservedMonotone == HealthSpec => ObservedNeverRegresses
<1>1. ASSUME NEW c \in Components, NEW h \in Healths, Judging(c, h), IInv
      PROVE  plan' = plan /\ plan.status.observed \in Nat
  BY <1>1 DEF Judging, Judged, SweepLocal, IInv, TypeOK, PlanType, Generations
<1>2. HealthInv /\ [HealthNext]_healthVars
         => [plan'.uid = plan.uid /\ plan'.life # "gone"
                => plan'.status.observed >= plan.status.observed]_vars
  BY <1>1, HealthSteps, ObservedStep DEF HealthInv
<1> QED
  BY <1>2, HealthInvariant, PTL DEF HealthSpec, ObservedNeverRegresses

(* The tree of children: listing pods neither plants nor grows anything, and what
   a sweep heals after its calls is still of a plan that stands.              *)
THEOREM AssessedImplementsTree == HealthSpec => TreeSpec
<1>1. HealthInit => Tree!Init
  BY InitTree DEF HealthInit
<1>2. ASSUME NEW c \in Components, NEW h \in Healths, Judging(c, h)
      PROVE  UNCHANGED Tree!vars
  BY <1>2 DEF Judging, Judged, SweepLocal, Tree!vars, Asked, Children, Live
<1>3. HealthInv /\ [HealthNext]_healthVars => [Tree!Next]_(Tree!vars)
  BY <1>2, HealthSteps, NextTree DEF HealthInv
<1> QED
  BY <1>1, <1>3, HealthInvariant, PTL DEF HealthSpec, TreeSpec, Tree!Spec
=============================================================================
