----------------------- MODULE WorkloadOperatorProofs -----------------------
(* Proofs about WorkloadOperator for every set of components, manifests and
   specs and every value of the bounds.                                       *)
EXTENDS WorkloadOperator, TLAPS

USE CoreAssumption, OperatorAssumption

(* The initial state satisfies the inductive invariant: nothing has happened,
   and an empty status is the whole of generation 0.                          *)
LEMMA InitInvariant == Init => IInv
<1> SUFFICES ASSUME Init PROVE IInv
  OBVIOUS
<1> USE DEF Init
<1>1. TypeOK
  <2>1. NoSpec \in AllSpecs \cup {NoSpec} /\ NoChildren \in ChildList
    BY DEF NoChildren, ChildList
  <2>2. 0 \in Generations
    BY DEF Generations
  <2>3. plan \in PlanType
    BY <2>1, <2>2 DEF PlanType, NoStatus
  <2>4. cluster \in [Objects -> Slot \cup {None}]
    BY DEF Slot, Foreigner, Healths
  <2>5. rec \in RecType /\ sweep \in SweepType
    BY <2>1, <2>2 DEF RecType, SweepType, Unreconciled, Unswept
  <2>6. budget \in BudgetType
    BY DEF BudgetType
  <2> QED
    BY <2>2, <2>3, <2>4, <2>5, <2>6 DEF TypeOK
<1>2. WorkHasPlan /\ ViewsAgree /\ HistoryIsWrittenOnce /\ WorkAddsUp
  BY DEF WorkHasPlan, ViewsAgree, HistoryIsWrittenOnce, WorkAddsUp,
         NoStatus, Generations, Unreconciled, Unswept
<1>3. StatusIsOneSpec
  <2>1. plan.status.observed = 0 /\ plan.generation = 0
    BY DEF NoStatus
  <2>2. plan.spec[0] = NoSpec /\ plan.status.children = NoChildren
    BY DEF NoStatus, Generations
  <2>3. Reflects(plan.status.children, 0)
    BY <2>2 DEF Reflects, NoSpec, NoChildren
  <2> QED
    BY <2>1, <2>3 DEF StatusIsOneSpec
<1> QED
  BY <1>1, <1>2, <1>3 DEF IInv

LEMMA StartReconcileInvariant == IInv /\ StartReconcile => IInv'
<1> SUFFICES ASSUME IInv, StartReconcile PROVE IInv'
  OBVIOUS
<1> USE DEF IInv
<1>1. TypeOK'
  BY DEF StartReconcile, TypeOK, PlanType, RecType, ChildList, NoChildren,
         Generations, Names
<1>2. WorkHasPlan'
  BY DEF StartReconcile, WorkHasPlan, TypeOK, PlanType, Generations
<1>3. ViewsAgree'
  BY DEF StartReconcile, ViewsAgree, WorkHasPlan, TypeOK, PlanType, SweepType, Generations
<1>4. HistoryIsWrittenOnce'
  BY DEF StartReconcile, HistoryIsWrittenOnce
<1>5. WorkAddsUp'
  BY DEF StartReconcile, WorkAddsUp, Accounts, Names, Current, NoChildren
<1>6. StatusIsOneSpec'
  BY DEF StartReconcile, StatusIsOneSpec, Reflects
<1> QED
  BY <1>1, <1>2, <1>3, <1>4, <1>5, <1>6

(* A call that fails only spends from the budget. *)
LEMMA CallFailsType == TypeOK /\ CallFails => budget' \in BudgetType
  BY DEF TypeOK, CallFails, BudgetType

(* An apply, done or refused, keeps the shape of the cluster and the budget. *)
LEMMA ApplyType ==
    ASSUME TypeOK, NEW c \in Components, NEW m \in Manifests,
           Apply(c, m) \/ ApplyFails(m)
    PROVE  cluster' \in [Objects -> Slot \cup {None}] /\ budget' \in BudgetType
<1>1. CASE Apply(c, m)
  <2> DEFINE o == ObjectOf[m]
             applied == [owner |-> plan.uid, component |-> c, manifest |-> m,
                         health |-> IF Live(o) THEN cluster[o].health ELSE "pending"]
  <2>1. o \in Objects /\ plan.uid \in 0 .. MaxPlans
    BY DEF TypeOK, PlanType
  <2>2. applied \in Slot
    BY <2>1 DEF TypeOK, Slot, Live, Healths
  <2>3. cluster' = [cluster EXCEPT ![o] = applied] /\ budget' = budget
    BY <1>1 DEF Apply
  <2> QED
    BY <2>1, <2>2, <2>3 DEF TypeOK
<1>2. CASE ApplyFails(m)
  BY <1>2, CallFailsType DEF ApplyFails, TypeOK
<1> QED
  BY <1>1, <1>2

(* The entry a handler records for a component of its spec is a child. *)
LEMMA EntryType ==
    ASSUME TypeOK, NEW g \in Generations, NEW c \in Components, NEW h \in Healths,
           plan.spec[g][c] # None
    PROVE  /\ plan.spec[g][c] \in Manifests
           /\ Entry(g, c, h) \in Child
           /\ Entry(g, c, h) # None
           /\ Entry(g, c, h).object = ObjectOf[plan.spec[g][c]]
<1>1. plan.spec[g] \in AllSpecs \cup {NoSpec}
  BY DEF TypeOK, PlanType
<1>2. plan.spec[g][c] \in Manifests
  BY <1>1 DEF AllSpecs, NoSpec
<1> QED
  BY <1>2 DEF Entry, Child

(* Recording one component of what is left keeps the account straight. *)
LEMMA EntryAccounts ==
    ASSUME TypeOK, NEW g \in Generations, NEW c \in Components, NEW h \in Healths,
           NEW done \in ChildList, NEW todo \in SUBSET Components, c \in todo,
           Accounts(done, todo, g)
    PROVE  /\ [done EXCEPT ![c] = Entry(g, c, h)] \in ChildList
           /\ Accounts([done EXCEPT ![c] = Entry(g, c, h)], todo \ {c}, g)
<1>1. plan.spec[g][c] # None
  BY DEF Accounts
<1>2. /\ Entry(g, c, h) \in Child /\ Entry(g, c, h) # None
      /\ Entry(g, c, h).object = ObjectOf[plan.spec[g][c]]
  BY <1>1, EntryType
<1> QED
  BY <1>1, <1>2 DEF ChildList, Accounts

(* The loop of reconcile, whatever became of the apply. *)
LEMMA ReconciledInvariant ==
    ASSUME IInv, NEW c \in Components, NEW h \in Healths, Reconciled(c, h),
           Apply(c, plan.spec[rec.gen][c]) \/ ApplyFails(plan.spec[rec.gen][c])
    PROVE  IInv'
<1> USE DEF IInv
<1>0. /\ rec.pc = "apply" /\ c \in rec.todo /\ rec.gen \in Generations
      /\ rec.done \in ChildList /\ rec.todo \in SUBSET Components
      /\ Accounts(rec.done, rec.todo, rec.gen)
  BY DEF Reconciled, TypeOK, RecType, WorkAddsUp
<1>1. plan.spec[rec.gen][c] \in Manifests
  <2>1. plan.spec[rec.gen][c] # None
    BY <1>0 DEF Accounts
  <2> QED
    BY <1>0, <2>1, EntryType
<1>2. cluster' \in [Objects -> Slot \cup {None}] /\ budget' \in BudgetType
  BY <1>1, ApplyType
<1>3. /\ [rec.done EXCEPT ![c] = Entry(rec.gen, c, h)] \in ChildList
      /\ Accounts([rec.done EXCEPT ![c] = Entry(rec.gen, c, h)], rec.todo \ {c}, rec.gen)
  BY <1>0, EntryAccounts
<1>4. /\ rec'.pc = IF rec.todo = {c} THEN "prune" ELSE "apply"
      /\ rec'.gen = rec.gen /\ rec'.recorded = rec.recorded
      /\ rec'.todo = rec.todo \ {c}
      /\ rec'.done = [rec.done EXCEPT ![c] = Entry(rec.gen, c, h)]
      /\ rec' \in RecType
  BY <1>0, <1>3 DEF Reconciled, TypeOK, RecType
<1>5. UNCHANGED <<plan, handled, up, resuming, seen, sweep>>
  BY DEF Reconciled
<1>6. TypeOK'
  BY <1>2, <1>4, <1>5 DEF TypeOK
<1>7. WorkHasPlan' /\ ViewsAgree' /\ HistoryIsWrittenOnce' /\ StatusIsOneSpec'
  BY <1>0, <1>4, <1>5 DEF WorkHasPlan, ViewsAgree, HistoryIsWrittenOnce,
                          StatusIsOneSpec, Reflects
<1>8. WorkAddsUp'
  BY <1>0, <1>3, <1>4, <1>5 DEF WorkAddsUp, Accounts
<1> QED
  BY <1>6, <1>7, <1>8

(* Deleting an orphan touches the cluster and the handler's own snapshot. *)
LEMMA PruneInvariant ==
    ASSUME IInv, NEW c \in Components, Prune(c) PROVE IInv'
<1> USE DEF IInv
<1>1. rec.recorded[c] \in Child
  BY DEF Prune, Orphans, Orphaned, Listed, TypeOK, RecType, ChildList
<1>2. TypeOK'
  BY <1>1 DEF Prune, TypeOK, RecType, ChildList, Child
<1>3. /\ rec'.pc = rec.pc /\ rec'.gen = rec.gen /\ rec'.done = rec.done
      /\ rec'.todo = rec.todo
      /\ UNCHANGED <<plan, handled, up, resuming, seen, sweep>>
  BY DEF Prune, TypeOK, RecType
<1> QED
  BY <1>2, <1>3 DEF WorkHasPlan, ViewsAgree, HistoryIsWrittenOnce, WorkAddsUp,
                    Accounts, StatusIsOneSpec, Reflects

(* A reconcile given up leaves nothing behind but its applies. *)
LEMMA PruneFailsInvariant == IInv /\ PruneFails => IInv'
<1> SUFFICES ASSUME IInv, PruneFails PROVE IInv'
  OBVIOUS
<1> USE DEF IInv
<1>1. TypeOK'
  BY CallFailsType DEF PruneFails, TypeOK, RecType, Unreconciled, NoChildren,
                       ChildList, Generations
<1>2. rec'.pc = "backoff" /\ UNCHANGED <<plan, handled, up, resuming, seen, sweep>>
  BY DEF PruneFails, Unreconciled
<1>3. WorkHasPlan'
  BY <1>2 DEF PruneFails, WorkHasPlan
<1> QED
  BY <1>1, <1>2, <1>3 DEF ViewsAgree, HistoryIsWrittenOnce, WorkAddsUp, Accounts,
                          StatusIsOneSpec, Reflects

(* A finished account of a spec is a status that reflects the spec. *)
LEMMA AccountIsReflected ==
    ASSUME NEW done, NEW g, Accounts(done, {}, g) PROVE Reflects(done, g)
  BY DEF Accounts, Reflects

(* The digest of a reconcile is its whole spec, under that spec's generation. *)
LEMMA FinishReconcileInvariant == IInv /\ FinishReconcile => IInv'
<1> SUFFICES ASSUME IInv, FinishReconcile PROVE IInv'
  OBVIOUS
<1> USE DEF IInv
<1>1. /\ rec.pc = "prune" /\ rec.gen \in Generations /\ rec.done \in ChildList
      /\ rec.gen = seen /\ rec.gen <= plan.generation
      /\ Accounts(rec.done, {}, rec.gen)
  BY DEF FinishReconcile, TypeOK, RecType, WorkAddsUp, ViewsAgree
<1>2. /\ plan'.status = [children |-> rec.done, observed |-> rec.gen]
      /\ plan'.spec = plan.spec /\ plan'.generation = plan.generation
      /\ plan'.life = plan.life /\ plan'.uid = plan.uid /\ plan' \in PlanType
  BY <1>1 DEF FinishReconcile, TypeOK, PlanType
<1>3. rec' = Unreconciled /\ rec'.pc = "idle" /\ rec' \in RecType
  BY DEF FinishReconcile, Unreconciled, RecType, NoChildren, ChildList, Generations
<1>4. UNCHANGED <<cluster, up, seen, sweep, budget>> /\ handled' = rec.gen /\ resuming' = FALSE
  BY DEF FinishReconcile
<1>5. TypeOK'
  BY <1>1, <1>2, <1>3, <1>4 DEF TypeOK
<1>6. WorkHasPlan' /\ ViewsAgree' /\ HistoryIsWrittenOnce'
  BY <1>1, <1>2, <1>3, <1>4 DEF WorkHasPlan, ViewsAgree, HistoryIsWrittenOnce,
                                TypeOK, Generations
<1>7. WorkAddsUp'
  BY <1>2, <1>3, <1>4 DEF WorkAddsUp, Accounts
<1>8. StatusIsOneSpec'
  <2>1. Reflects(rec.done, rec.gen)
    BY <1>1, AccountIsReflected
  <2>2. plan'.status.children = rec.done /\ plan'.status.observed = rec.gen
    BY <1>2
  <2>3. \A c \in Components :
          IF plan'.spec[rec.gen][c] = None THEN plan'.status.children[c] = None
          ELSE /\ plan'.status.children[c] # None
               /\ plan'.status.children[c].object = ObjectOf[plan'.spec[rec.gen][c]]
    BY <1>2, <2>1, <2>2 DEF Reflects
  <2>4. rec.gen \in 0 .. plan'.status.observed /\ plan'.status.observed <= plan'.generation
    BY <1>1, <1>2, <2>2 DEF Generations
  <2> QED
    BY <2>3, <2>4 DEF StatusIsOneSpec, Reflects
<1> QED
  BY <1>5, <1>6, <1>7, <1>8

(* Taking in an event moves the view forward only. *)
LEMMA ObserveInvariant == IInv /\ Observe => IInv'
<1> SUFFICES ASSUME IInv, Observe PROVE IInv'
  OBVIOUS
<1> USE DEF IInv
<1>1. TypeOK' /\ WorkHasPlan'
  BY DEF Observe, TypeOK, PlanType, WorkHasPlan, Generations
<1>2. ViewsAgree'
  BY DEF Observe, ViewsAgree, WorkHasPlan, TypeOK, PlanType, SweepType, Generations
<1> QED
  BY <1>1, <1>2 DEF Observe, HistoryIsWrittenOnce, WorkAddsUp, Accounts,
                    StatusIsOneSpec, Reflects

(* A sweep starts on the spec the process took in last. *)
LEMMA StartSweepInvariant == IInv /\ StartSweep => IInv'
<1> SUFFICES ASSUME IInv, StartSweep PROVE IInv'
  OBVIOUS
<1> USE DEF IInv
<1>1. /\ sweep'.pc = "assess" /\ sweep'.gen = seen /\ sweep'.healing = None
      /\ sweep'.todo = Names(plan.spec[seen]) /\ sweep'.done = NoChildren
      /\ seen # 0 /\ UNCHANGED <<plan, handled, cluster, up, resuming, seen, rec, budget>>
  BY DEF StartSweep, Unswept
<1>2. TypeOK'
  BY DEF StartSweep, TypeOK, SweepType, Unswept, NoChildren, ChildList, Names
<1>3. WorkHasPlan' /\ ViewsAgree'
  BY <1>1 DEF WorkHasPlan, ViewsAgree, TypeOK, Generations
<1>4. WorkAddsUp'
  BY <1>1 DEF WorkAddsUp, Accounts, Names, NoChildren
<1> QED
  BY <1>1, <1>2, <1>3, <1>4 DEF HistoryIsWrittenOnce, StatusIsOneSpec, Reflects

(* A step of the sweep that leaves it running on the same spec, with a straight
   account, keeps the invariant.                                              *)
LEMMA SweepStepInvariant ==
    ASSUME IInv, SweepLocal,
           sweep.pc = "assess", sweep' \in SweepType,
           sweep'.pc = "assess", sweep'.gen = sweep.gen,
           Accounts(sweep'.done, sweep'.todo \cup ({sweep'.healing} \ {None}), sweep.gen),
           cluster' \in [Objects -> Slot \cup {None}], budget' \in BudgetType
    PROVE  IInv'
<1> USE DEF IInv
<1>1. UNCHANGED <<plan, handled, up, resuming, seen, rec>>
  BY DEF SweepLocal
<1>2. TypeOK'
  BY <1>1 DEF TypeOK
<1>3. WorkHasPlan' /\ ViewsAgree' /\ HistoryIsWrittenOnce' /\ StatusIsOneSpec'
  BY <1>1 DEF WorkHasPlan, ViewsAgree, HistoryIsWrittenOnce, StatusIsOneSpec, Reflects
<1>4. WorkAddsUp'
  BY <1>1 DEF WorkAddsUp, Accounts
<1> QED
  BY <1>2, <1>3, <1>4

(* What the sweep finds of a component goes into its account. *)
LEMMA SweepReadInvariant ==
    ASSUME IInv, NEW c \in Components, SweepAssess(c) \/ SweepReadFails(c)
    PROVE  IInv'
<1> USE DEF IInv
<1> DEFINE o == ObjectOf[plan.spec[sweep.gen][c]]
<1>1. /\ sweep.pc = "assess" /\ sweep.healing = None /\ c \in sweep.todo
      /\ sweep.gen \in Generations /\ sweep.done \in ChildList
      /\ sweep.todo \in SUBSET Components
      /\ Accounts(sweep.done, sweep.todo, sweep.gen)
  <2>1. sweep.pc = "assess" /\ sweep.healing = None /\ c \in sweep.todo
    BY DEF SweepAssess, SweepReadFails, Turn
  <2>2. sweep.todo \cup ({sweep.healing} \ {None}) = sweep.todo
    BY <2>1
  <2> QED
    BY <2>1, <2>2 DEF WorkAddsUp, TypeOK, SweepType
<1>2. plan.spec[sweep.gen][c] # None
  BY <1>1 DEF Accounts
<1>3. o \in Objects
  BY <1>1, <1>2, EntryType DEF Healths
<1>4. CASE SweepReadFails(c)
  <2>1. /\ [sweep.done EXCEPT ![c] = Entry(sweep.gen, c, "failed")] \in ChildList
        /\ Accounts([sweep.done EXCEPT ![c] = Entry(sweep.gen, c, "failed")],
                    sweep.todo \ {c}, sweep.gen)
    BY <1>1, EntryAccounts DEF Healths
  <2>2. sweep' = [sweep EXCEPT !.todo = @ \ {c},
                               !.done[c] = Entry(sweep.gen, c, "failed")]
    BY <1>4 DEF SweepReadFails
  <2>3. /\ sweep'.pc = "assess" /\ sweep'.gen = sweep.gen /\ sweep'.healing = None
        /\ sweep'.todo = sweep.todo \ {c}
        /\ sweep'.done = [sweep.done EXCEPT ![c] = Entry(sweep.gen, c, "failed")]
        /\ sweep' \in SweepType
    BY <1>1, <2>1, <2>2 DEF TypeOK, SweepType
  <2>4. sweep'.todo \cup ({sweep'.healing} \ {None}) = sweep.todo \ {c}
    BY <2>3
  <2>5. SweepLocal /\ budget' \in BudgetType /\ cluster' = cluster
    BY <1>4, CallFailsType DEF SweepReadFails
  <2> QED
    BY <1>1, <2>1, <2>3, <2>4, <2>5, SweepStepInvariant DEF TypeOK
<1>5. CASE SweepAssess(c)
  <2> DEFINE found == Entry(sweep.gen, c, cluster[o].health)
  <2>0. cluster[o].health \in Healths
    BY <1>3, <1>5 DEF SweepAssess, Live, TypeOK, Slot
  <2>1. /\ [sweep.done EXCEPT ![c] = found] \in ChildList
        /\ Accounts([sweep.done EXCEPT ![c] = found], sweep.todo \ {c}, sweep.gen)
    BY <1>1, <2>0, EntryAccounts
  <2>2. sweep' = [sweep EXCEPT !.todo = @ \ {c}, !.done[c] = found]
    BY <1>5 DEF SweepAssess
  <2>3. /\ sweep'.pc = "assess" /\ sweep'.gen = sweep.gen /\ sweep'.healing = None
        /\ sweep'.todo = sweep.todo \ {c}
        /\ sweep'.done = [sweep.done EXCEPT ![c] = found]
        /\ sweep' \in SweepType
    BY <1>1, <2>1, <2>2 DEF TypeOK, SweepType
  <2>4. sweep'.todo \cup ({sweep'.healing} \ {None}) = sweep.todo \ {c}
    BY <2>3
  <2>5. SweepLocal /\ UNCHANGED <<cluster, budget>>
    BY <1>5 DEF SweepAssess
  <2> QED
    BY <1>1, <2>1, <2>3, <2>4, <2>5, SweepStepInvariant DEF TypeOK
<1> QED
  BY <1>4, <1>5

(* A missing child stays in the account while its apply is due. *)
LEMMA SweepMissesInvariant ==
    ASSUME IInv, NEW c \in Components, SweepMisses(c) PROVE IInv'
<1> USE DEF IInv
<1>1. /\ sweep.pc = "assess" /\ sweep.healing = None /\ c \in sweep.todo
      /\ sweep.todo \in SUBSET Components
      /\ SweepLocal /\ UNCHANGED <<cluster, budget>>
  BY DEF SweepMisses, Turn, TypeOK, SweepType
<1>2. /\ sweep'.pc = "assess" /\ sweep'.gen = sweep.gen /\ sweep'.healing = c
      /\ sweep'.todo = sweep.todo \ {c} /\ sweep'.done = sweep.done
      /\ sweep' \in SweepType
  BY <1>1 DEF SweepMisses, TypeOK, SweepType
<1>3. /\ sweep'.todo \cup ({sweep'.healing} \ {None}) = sweep.todo
      /\ sweep.todo \cup ({sweep.healing} \ {None}) = sweep.todo
  BY <1>1, <1>2
<1>4. Accounts(sweep'.done, sweep'.todo \cup ({sweep'.healing} \ {None}), sweep.gen)
  BY <1>1, <1>2, <1>3 DEF WorkAddsUp
<1> QED
  BY <1>1, <1>2, <1>4, SweepStepInvariant DEF TypeOK

(* The self-heal, whatever became of the apply. *)
LEMMA HealedInvariant ==
    ASSUME IInv, NEW c \in Components, NEW h \in Healths, Healed(c, h),
           \/ Apply(c, plan.spec[sweep.gen][c])
           \/ ApplyFails(plan.spec[sweep.gen][c])
    PROVE  IInv'
<1> USE DEF IInv
<1> DEFINE left == sweep.todo \cup {c}
<1>1. /\ sweep.pc = "assess" /\ sweep.healing = c /\ c # None
      /\ sweep.gen \in Generations /\ sweep.done \in ChildList
      /\ sweep.todo \in SUBSET Components /\ SweepLocal
  BY DEF Healed, WorkAddsUp, TypeOK, SweepType
<1>2. Accounts(sweep.done, left, sweep.gen)
  <2>1. sweep.todo \cup ({sweep.healing} \ {None}) = left
    BY <1>1
  <2> QED
    BY <1>1, <2>1 DEF WorkAddsUp
<1>3. plan.spec[sweep.gen][c] \in Manifests
  <2>1. plan.spec[sweep.gen][c] # None
    BY <1>2 DEF Accounts
  <2> QED
    BY <1>1, <2>1, EntryType
<1>4. cluster' \in [Objects -> Slot \cup {None}] /\ budget' \in BudgetType
  BY <1>3, ApplyType
<1>5. /\ [sweep.done EXCEPT ![c] = Entry(sweep.gen, c, h)] \in ChildList
      /\ Accounts([sweep.done EXCEPT ![c] = Entry(sweep.gen, c, h)], left \ {c}, sweep.gen)
  <2>1. left \in SUBSET Components /\ c \in left
    BY <1>1
  <2> HIDE DEF left
  <2> QED
    BY <1>1, <1>2, <2>1, EntryAccounts
<1>6. /\ sweep'.pc = "assess" /\ sweep'.gen = sweep.gen /\ sweep'.healing = None
      /\ sweep'.todo = sweep.todo
      /\ sweep'.done = [sweep.done EXCEPT ![c] = Entry(sweep.gen, c, h)]
      /\ sweep' \in SweepType
  <2>1. sweep' = [sweep EXCEPT !.healing = None, !.done[c] = Entry(sweep.gen, c, h)]
    BY DEF Healed
  <2> QED
    BY <1>1, <1>5, <2>1 DEF TypeOK, SweepType
<1>7. Accounts(sweep'.done, sweep'.todo \cup ({sweep'.healing} \ {None}), sweep.gen)
  <2>1. sweep'.todo \cup ({sweep'.healing} \ {None}) = sweep.todo
    BY <1>6
  <2> QED
    BY <1>2, <1>5, <1>6, <2>1 DEF Accounts
<1> QED
  BY <1>1, <1>4, <1>6, <1>7, SweepStepInvariant

(* The digest of a sweep is its whole spec; the generation it is given is that
   of the last event taken in, which is no older than the spec.               *)
LEMMA FinishSweepInvariant == IInv /\ FinishSweep => IInv'
<1> SUFFICES ASSUME IInv, FinishSweep PROVE IInv'
  OBVIOUS
<1> USE DEF IInv
<1>1. /\ sweep.pc = "assess" /\ sweep.gen \in Generations /\ sweep.done \in ChildList
      /\ sweep.gen <= seen /\ seen <= plan.generation /\ seen # 0
      /\ Accounts(sweep.done, {}, sweep.gen)
  <2>1. sweep.pc = "assess" /\ sweep.todo \cup ({sweep.healing} \ {None}) = {}
    BY DEF FinishSweep
  <2> QED
    BY <2>1 DEF TypeOK, SweepType, WorkAddsUp, ViewsAgree, WorkHasPlan
<1>2. /\ plan'.status = [children |-> sweep.done, observed |-> seen]
      /\ plan'.spec = plan.spec /\ plan'.generation = plan.generation
      /\ plan'.life = plan.life /\ plan'.uid = plan.uid /\ plan' \in PlanType
  BY <1>1 DEF FinishSweep, TypeOK, PlanType
<1>3. /\ sweep' = Unswept /\ sweep'.pc = "idle" /\ sweep'.healing = None
      /\ sweep' \in SweepType
  BY DEF FinishSweep, Unswept, SweepType, NoChildren, ChildList, Generations
<1>4. UNCHANGED <<handled, cluster, up, resuming, seen, rec, budget>>
  BY DEF FinishSweep
<1>5. TypeOK'
  BY <1>2, <1>3, <1>4 DEF TypeOK
<1>6. WorkHasPlan' /\ ViewsAgree' /\ HistoryIsWrittenOnce'
  BY <1>1, <1>2, <1>3, <1>4 DEF WorkHasPlan, ViewsAgree, HistoryIsWrittenOnce,
                                TypeOK, Generations
<1>7. WorkAddsUp'
  BY <1>2, <1>3, <1>4 DEF WorkAddsUp, Accounts
<1>8. StatusIsOneSpec'
  <2>1. Reflects(sweep.done, sweep.gen)
    BY <1>1, AccountIsReflected
  <2>2. plan'.status.children = sweep.done /\ plan'.status.observed = seen
    BY <1>2
  <2>3. \A c \in Components :
          IF plan'.spec[sweep.gen][c] = None THEN plan'.status.children[c] = None
          ELSE /\ plan'.status.children[c] # None
               /\ plan'.status.children[c].object = ObjectOf[plan'.spec[sweep.gen][c]]
    BY <1>2, <2>1, <2>2 DEF Reflects
  <2>4. sweep.gen \in 0 .. plan'.status.observed /\ plan'.status.observed <= plan'.generation
    BY <1>1, <1>2, <2>2 DEF Generations, TypeOK
  <2> QED
    BY <2>3, <2>4 DEF StatusIsOneSpec, Reflects
<1> QED
  BY <1>5, <1>6, <1>7, <1>8

(* With every handler back and nothing seen, only the plan itself counts. *)
LEMMA QuietInvariant ==
    ASSUME IInv, TypeOK', seen' = 0, rec'.pc = "idle", sweep'.pc = "idle",
           sweep'.healing = None, handled' <= plan'.generation,
           plan'.life = "gone" => handled' = 0,
           plan'.spec = plan.spec, plan'.generation = plan.generation,
           plan'.uid = plan.uid, plan'.life \in {plan.life, "gone"},
           plan'.status \in {plan.status, NoStatus}
    PROVE  IInv'
<1> USE DEF IInv
<1>1. WorkHasPlan' /\ HistoryIsWrittenOnce' /\ WorkAddsUp'
  BY DEF WorkHasPlan, HistoryIsWrittenOnce, WorkAddsUp, Accounts
<1>2. ViewsAgree' /\ StatusIsOneSpec'
  <2>1. CASE plan'.status = plan.status
    BY <2>1 DEF ViewsAgree, StatusIsOneSpec, Reflects, TypeOK, PlanType, Generations
  <2>2. CASE plan'.status = NoStatus
    <3>1. plan'.spec[0] = NoSpec
      BY DEF HistoryIsWrittenOnce, Generations
    <3>2. plan'.status.children = NoChildren /\ plan'.status.observed = 0
      BY <2>2 DEF NoStatus
    <3>3. ViewsAgree'
      BY <3>2 DEF ViewsAgree, TypeOK, PlanType, Generations
    <3>4. \A c \in Components : plan'.spec[0][c] = None /\ plan'.status.children[c] = None
      BY <3>1, <3>2 DEF NoSpec, NoChildren
    <3> QED
      BY <3>2, <3>3, <3>4 DEF StatusIsOneSpec, Reflects, ViewsAgree
  <2> QED
    BY <2>1, <2>2
<1> QED
  BY <1>1, <1>2

LEMMA OnDeleteInvariant == IInv /\ OnDelete => IInv'
<1> SUFFICES ASSUME IInv, OnDelete PROVE IInv'
  OBVIOUS
<1>1. /\ plan' = [plan EXCEPT !.life = "gone", !.status = NoStatus]
      /\ rec' = Unreconciled /\ seen' = 0 /\ handled' = 0 /\ resuming' = FALSE
      /\ sweep.pc = "idle" /\ UNCHANGED <<cluster, up, sweep, budget>>
  BY DEF OnDelete
<1>2. TypeOK /\ WorkAddsUp
  BY DEF IInv
<1>3. NoStatus \in [children : ChildList, observed : Generations]
  BY DEF NoStatus, NoChildren, ChildList, Generations
<1>4. rec' \in RecType
  BY <1>1 DEF Unreconciled, RecType, NoChildren, ChildList, Generations
<1>5. TypeOK'
  <2>1. plan' \in PlanType
    BY <1>1, <1>2, <1>3 DEF TypeOK, PlanType
  <2>2. handled' \in Generations /\ seen' \in Generations
    BY <1>1 DEF Generations
  <2>3. up' \in BOOLEAN /\ resuming' \in BOOLEAN
    BY <1>1, <1>2 DEF TypeOK
  <2> QED
    BY <1>1, <1>2, <1>4, <2>1, <2>2, <2>3 DEF TypeOK
<1>6. /\ plan'.spec = plan.spec /\ plan'.generation = plan.generation
      /\ plan'.uid = plan.uid /\ plan'.life = "gone" /\ plan'.status = NoStatus
      /\ 0 <= plan.generation
  BY <1>1, <1>2 DEF TypeOK, PlanType, Generations
<1>7. rec'.pc = "idle" /\ sweep'.pc = "idle" /\ sweep'.healing = None
  BY <1>1, <1>2 DEF Unreconciled, WorkAddsUp
<1> QED
  BY <1>1, <1>5, <1>6, <1>7, QuietInvariant

LEMMA CrashInvariant == IInv /\ Crash => IInv'
<1> SUFFICES ASSUME IInv, Crash PROVE IInv'
  OBVIOUS
<1>1. /\ TypeOK /\ handled <= plan.generation
      /\ plan.life = "gone" => handled = 0
  BY DEF IInv, ViewsAgree, WorkHasPlan
<1>2. /\ rec' = Unreconciled /\ sweep' = Unswept /\ seen' = 0 /\ up' = FALSE
      /\ UNCHANGED <<plan, handled, cluster, resuming>>
  BY DEF Crash
<1>3. /\ rec' \in RecType /\ rec'.pc = "idle"
      /\ sweep' \in SweepType /\ sweep'.pc = "idle" /\ sweep'.healing = None
  BY <1>2 DEF Unreconciled, Unswept, RecType, SweepType, NoChildren, ChildList, Generations
<1>4. budget' \in BudgetType
  BY <1>1 DEF Crash, TypeOK, BudgetType
<1>5. TypeOK'
  <2>1. seen' \in Generations
    BY <1>2 DEF Generations
  <2>2. up' \in BOOLEAN /\ resuming' \in BOOLEAN
    BY <1>1, <1>2 DEF TypeOK
  <2> QED
    BY <1>1, <1>2, <1>3, <1>4, <2>1, <2>2 DEF TypeOK
<1> QED
  BY <1>1, <1>2, <1>3, <1>5, QuietInvariant

LEMMA RestartInvariant == IInv /\ Restart => IInv'
<1> SUFFICES ASSUME IInv, Restart PROVE IInv'
  OBVIOUS
<1> USE DEF IInv
<1>1. /\ up' = TRUE /\ resuming' \in BOOLEAN
      /\ UNCHANGED <<plan, handled, cluster, seen, rec, sweep, budget>>
  BY DEF Restart
<1>2. TypeOK'
  BY <1>1 DEF TypeOK
<1> QED
  BY <1>1, <1>2 DEF WorkHasPlan, ViewsAgree, HistoryIsWrittenOnce, WorkAddsUp,
                    Accounts, StatusIsOneSpec, Reflects

(* Steps of the cluster alone: no part of the invariant but TypeOK reads it. *)
LEMMA ClusterStepInvariant ==
    ASSUME IInv, cluster' \in [Objects -> Slot \cup {None}], budget' \in BudgetType,
           UNCHANGED <<plan, handled, up, resuming, seen, rec, sweep>>
    PROVE  IInv'
<1> USE DEF IInv
<1>1. TypeOK'
  BY DEF TypeOK
<1> QED
  BY <1>1 DEF WorkHasPlan, ViewsAgree, HistoryIsWrittenOnce, WorkAddsUp,
              Accounts, StatusIsOneSpec, Reflects

LEMMA ClusterInvariant ==
    ASSUME IInv, NEW o \in Objects,
           Collect(o) \/ Lose(o) \/ \E h \in Outcomes : ChangeHealth(o, h)
    PROVE  IInv'
<1>1. TypeOK
  BY DEF IInv
<1>2. CASE Collect(o) \/ Lose(o)
  <2>1. cluster' \in [Objects -> Slot \cup {None}] /\ budget' \in BudgetType
    BY <1>1, <1>2 DEF Collect, Lose, TypeOK, BudgetType
  <2> QED
    BY <1>2, <2>1, ClusterStepInvariant DEF Collect, Lose
<1>3. ASSUME NEW h \in Outcomes, ChangeHealth(o, h) PROVE IInv'
  <2>1. cluster[o] \in Slot
    BY <1>1, <1>3 DEF TypeOK, ChangeHealth, Live
  <2>2. [cluster[o] EXCEPT !.health = h] \in Slot
    BY <2>1 DEF Slot
  <2>3. cluster' = [cluster EXCEPT ![o] = [cluster[o] EXCEPT !.health = h]]
    BY <1>1, <1>3 DEF ChangeHealth, TypeOK
  <2>4. cluster' \in [Objects -> Slot \cup {None}] /\ budget' \in BudgetType
    BY <1>1, <1>3, <2>2, <2>3 DEF ChangeHealth, TypeOK
  <2> QED
    BY <1>3, <2>4, ClusterStepInvariant DEF ChangeHealth
<1> QED
  BY <1>2, <1>3

(* A new plan starts a new history; no handler is at work when it appears. *)
LEMMA CreatePlanInvariant ==
    ASSUME IInv, NEW s \in Specs, CreatePlan(s) PROVE IInv'
<1> USE DEF IInv
<1>1. /\ plan.life = "gone" /\ seen = 0 /\ rec.pc = "idle" /\ sweep.pc = "idle"
      /\ sweep.healing = None /\ plan.uid < MaxPlans
      /\ UNCHANGED <<handled, cluster, up, resuming, seen, rec, sweep, budget>>
  BY DEF CreatePlan, WorkHasPlan, WorkAddsUp
<1>2. /\ plan'.life = "active" /\ plan'.uid = plan.uid + 1 /\ plan'.generation = 1
      /\ plan'.spec = [g \in Generations |-> IF g = 1 THEN s ELSE NoSpec]
      /\ plan'.status = NoStatus
  BY DEF CreatePlan
<1>3. 0 \in Generations /\ 1 \in Generations /\ s \in AllSpecs
  BY DEF Generations
<1>4. TypeOK'
  <2>1. NoStatus \in [children : ChildList, observed : Generations]
    BY DEF NoStatus, NoChildren, ChildList, Generations
  <2>2. plan.uid + 1 \in 0 .. MaxPlans
    BY <1>1 DEF TypeOK, PlanType
  <2>3. plan' \in PlanType
    BY <1>3, <2>1, <2>2 DEF CreatePlan, PlanType
  <2> QED
    BY <1>1, <2>3 DEF TypeOK
<1>5. WorkHasPlan' /\ HistoryIsWrittenOnce' /\ WorkAddsUp'
  BY <1>1, <1>2, <1>3 DEF WorkHasPlan, HistoryIsWrittenOnce, WorkAddsUp, TypeOK,
                          PlanType, Generations
<1>6. handled = 0 /\ plan'.spec[0] = NoSpec
  BY <1>1, <1>2, <1>3 DEF WorkHasPlan
<1>7. ViewsAgree'
  BY <1>1, <1>2, <1>6 DEF ViewsAgree, NoStatus
<1>8. StatusIsOneSpec'
  <2>1. plan'.status.children = NoChildren /\ plan'.status.observed = 0
    BY <1>2 DEF NoStatus
  <2>2. \A c \in Components : plan'.spec[0][c] = None /\ plan'.status.children[c] = None
    BY <1>6, <2>1 DEF NoSpec, NoChildren
  <2> QED
    BY <1>2, <2>1, <2>2 DEF StatusIsOneSpec, Reflects
<1> QED
  BY <1>4, <1>5, <1>7, <1>8

(* An edit writes the next generation and leaves the earlier ones alone. *)
LEMMA EditPlanInvariant ==
    ASSUME IInv, NEW s \in Specs, EditPlan(s) PROVE IInv'
<1> USE DEF IInv
<1> DEFINE next == plan.generation + 1
<1>1. /\ plan.life # "gone" /\ plan.generation \in Nat /\ next \in Generations
      /\ UNCHANGED <<handled, cluster, up, resuming, seen, rec, sweep, budget>>
  BY DEF EditPlan, TypeOK, PlanType, Generations
<1>2. /\ plan'.spec = [plan.spec EXCEPT ![next] = s] /\ plan'.generation = next
      /\ plan'.life = plan.life /\ plan'.uid = plan.uid /\ plan'.status = plan.status
      /\ plan' \in PlanType
  BY <1>1 DEF EditPlan, TypeOK, PlanType
<1>3. \A g \in Generations : g # next => plan'.spec[g] = plan.spec[g]
  BY <1>2 DEF TypeOK, PlanType
<1>4. TypeOK'
  BY <1>1, <1>2 DEF TypeOK
<1>5. WorkHasPlan' /\ ViewsAgree' /\ HistoryIsWrittenOnce'
  BY <1>1, <1>2, <1>3 DEF WorkHasPlan, ViewsAgree, HistoryIsWrittenOnce, TypeOK,
                          PlanType, Generations
<1>6. WorkAddsUp'
  <2>1. /\ rec.pc \in {"apply", "prune"} => plan'.spec[rec.gen] = plan.spec[rec.gen]
        /\ sweep.pc = "assess" => plan'.spec[sweep.gen] = plan.spec[sweep.gen]
    BY <1>1, <1>3 DEF ViewsAgree, TypeOK, RecType, SweepType, Generations
  <2> QED
    BY <1>1, <2>1 DEF WorkAddsUp, Accounts
<1>7. StatusIsOneSpec'
  <2>1. PICK g \in 0 .. plan.status.observed : Reflects(plan.status.children, g)
    BY DEF StatusIsOneSpec
  <2>2. g \in Generations /\ g # next /\ plan.status.observed <= next
    BY <1>1, <2>1 DEF ViewsAgree, TypeOK, PlanType, Generations
  <2>3. plan'.spec[g] = plan.spec[g]
    BY <1>3, <2>2
  <2> QED
    BY <1>2, <2>1, <2>2, <2>3 DEF StatusIsOneSpec, Reflects
<1> QED
  BY <1>4, <1>5, <1>6, <1>7

LEMMA DeletePlanInvariant == IInv /\ DeletePlan => IInv'
<1> SUFFICES ASSUME IInv, DeletePlan PROVE IInv'
  OBVIOUS
<1> USE DEF IInv
<1>1. /\ plan'.spec = plan.spec /\ plan'.generation = plan.generation
      /\ plan'.uid = plan.uid /\ plan'.status = plan.status
      /\ plan.life = "active" /\ plan'.life = "terminating" /\ plan' \in PlanType
      /\ UNCHANGED <<handled, cluster, up, resuming, seen, rec, sweep, budget>>
  BY DEF DeletePlan, TypeOK, PlanType
<1>2. TypeOK'
  BY <1>1 DEF TypeOK
<1> QED
  BY <1>1, <1>2 DEF WorkHasPlan, ViewsAgree, HistoryIsWrittenOnce, WorkAddsUp,
                    Accounts, StatusIsOneSpec, Reflects

(* Every step of the system keeps the inductive invariant. *)
LEMMA NextInvariant == IInv /\ [Next]_vars => IInv'
<1> SUFFICES ASSUME IInv, [Next]_vars PROVE IInv'
  OBVIOUS
<1>1. CASE ReconcileNext
  <2>1. ASSUME NEW c \in Components, ReconcileApply(c) PROVE IInv'
    BY <2>1, ReconciledInvariant DEF ReconcileApply, Healths
  <2>2. ASSUME NEW c \in Components, ReconcileApplyFails(c) PROVE IInv'
    BY <2>2, ReconciledInvariant DEF ReconcileApplyFails, Healths
  <2> QED
    BY <1>1, <2>1, <2>2, StartReconcileInvariant, PruneInvariant, PruneFailsInvariant,
       FinishReconcileInvariant, ObserveInvariant DEF ReconcileNext
<1>2. CASE SweepNext
  <2>1. ASSUME NEW c \in Components, SweepHeal(c) PROVE IInv'
    BY <2>1, HealedInvariant DEF SweepHeal, Healths
  <2>2. ASSUME NEW c \in Components, SweepHealFails(c) PROVE IInv'
    BY <2>2, HealedInvariant DEF SweepHealFails, Healths
  <2> QED
    BY <1>2, <2>1, <2>2, StartSweepInvariant, SweepReadInvariant, SweepMissesInvariant,
       FinishSweepInvariant DEF SweepNext
<1>3. CASE PlatformNext
  BY <1>3, OnDeleteInvariant, RestartInvariant, ClusterInvariant DEF PlatformNext
<1>4. CASE EnvironmentNext
  BY <1>4, DeletePlanInvariant, CrashInvariant, CreatePlanInvariant,
     EditPlanInvariant, ClusterInvariant DEF EnvironmentNext
<1>5. CASE UNCHANGED vars
  <2>1. /\ UNCHANGED <<plan, handled, up, resuming, seen, rec, sweep>>
        /\ cluster' \in [Objects -> Slot \cup {None}] /\ budget' \in BudgetType
    BY <1>5 DEF vars, IInv, TypeOK
  <2> QED
    BY <2>1, ClusterStepInvariant
<1> QED
  BY <1>1, <1>2, <1>3, <1>4, <1>5 DEF Next

(* However handlers, failures, restarts and edits interleave, for any number of
   each: the inductive invariant holds.                                       *)
THEOREM InductiveInvariant == Spec => []IInv
  BY InitInvariant, NextInvariant, PTL DEF Spec

(* Every variable keeps its type. *)
THEOREM TypeCorrect == Spec => []TypeOK
<1>1. IInv => TypeOK
  BY DEF IInv
<1> QED
  BY <1>1, InductiveInvariant, PTL

(* The status is always the whole of one spec, no newer than observedGeneration. *)
THEOREM StatusWhole == Spec => []StatusIsOneSpec
<1>1. IInv => StatusIsOneSpec
  BY DEF IInv
<1> QED
  BY <1>1, InductiveInvariant, PTL

(* Both writers of the status have seen at least what it says they have. *)
LEMMA ObservedStep ==
    ASSUME IInv, [Next]_vars, plan'.uid = plan.uid, plan'.life # "gone"
    PROVE  plan'.status.observed >= plan.status.observed
<1> USE DEF IInv
<1>1. plan.status.observed \in Nat
  BY DEF TypeOK, PlanType, Generations
<1>2. CASE FinishReconcile
  BY <1>2, <1>1 DEF FinishReconcile, ViewsAgree, WorkHasPlan, TypeOK, PlanType,
                    RecType, Generations
<1>3. CASE FinishSweep
  BY <1>3, <1>1 DEF FinishSweep, ViewsAgree, WorkHasPlan, TypeOK, PlanType, Generations
<1>4. CASE OnDelete \/ \E s \in Specs : CreatePlan(s)
  <2>1. CASE OnDelete
    BY <2>1 DEF OnDelete, TypeOK, PlanType
  <2>2. ASSUME NEW s \in Specs, CreatePlan(s) PROVE FALSE
    <3>1. plan'.uid = plan.uid + 1 /\ plan.uid \in Nat
      BY <2>2 DEF CreatePlan, TypeOK, PlanType
    <3> QED
      BY <3>1
  <2> QED
    BY <1>4, <2>1, <2>2
<1>5. CASE plan'.status = plan.status
  BY <1>5, <1>1
<1>6. \/ FinishReconcile \/ FinishSweep
      \/ OnDelete \/ \E s \in Specs : CreatePlan(s)
      \/ plan'.status = plan.status
  BY DEF Next, ReconcileNext, SweepNext, PlatformNext, EnvironmentNext, vars,
         StartReconcile, Reconciled, ReconcileApply, ReconcileApplyFails, Prune,
         PruneFails, Observe, StartSweep, SweepLocal, SweepAssess, SweepMisses,
         SweepReadFails, Healed, SweepHeal, SweepHealFails, Restart, Collect,
         Crash, EditPlan, DeletePlan, Lose, ChangeHealth, TypeOK, PlanType
<1> QED
  BY <1>2, <1>3, <1>4, <1>5, <1>6

(* status.observedGeneration never goes back while the plan lives. *)
THEOREM ObservedMonotone == Spec => ObservedNeverRegresses
<1>1. IInv /\ [Next]_vars
         => [plan'.uid = plan.uid /\ plan'.life # "gone"
                => plan'.status.observed >= plan.status.observed]_vars
  BY ObservedStep
<1> QED
  BY <1>1, InductiveInvariant, PTL DEF Spec, ObservedNeverRegresses
-----------------------------------------------------------------------------
(* The ownership tree.  What the specs have asked for is a set of objects. *)
LEMMA NamedObjects ==
    ASSUME NEW spec \in [Generations -> AllSpecs \cup {NoSpec}]
    PROVE  {ObjectOf[m] : m \in {spec[g][c] : g \in Generations, c \in Components} \ {None}}
              \in SUBSET Objects
<1> SUFFICES ASSUME NEW g \in Generations, NEW c \in Components, spec[g][c] # None
             PROVE  ObjectOf[spec[g][c]] \in Objects
  OBVIOUS
<1>1. spec[g][c] \in Manifests
  BY DEF AllSpecs, NoSpec
<1> QED
  BY <1>1

(* An object is asked for as soon as a generation names it. *)
LEMMA NamedIsAsked ==
    ASSUME NEW g \in Generations, NEW c \in Components, plan.spec[g][c] # None
    PROVE  ObjectOf[plan.spec[g][c]] \in Asked
  BY DEF Asked

(* Losing an object sheds it from the tree, or changes nothing. *)
LEMMA LossSheds ==
    ASSUME TypeOK, NEW o \in Objects, cluster' = [cluster EXCEPT ![o] = None], plan' = plan
    PROVE  Tree!Shed(o)
<1>1. Children' = Children \ {o}
  BY DEF Children, Live, TypeOK
<1>2. Asked' = Asked /\ (plan.life # "gone")' = (plan.life # "gone")
  BY DEF Asked
<1> QED
  BY <1>1, <1>2 DEF Tree!Shed

(* Applying a manifest of a standing plan's spec grows the tree. *)
LEMMA ApplyGrows ==
    ASSUME TypeOK, NEW g \in Generations, NEW c \in Components, plan.spec[g][c] # None,
           Apply(c, plan.spec[g][c]), plan' = plan, plan.life # "gone", plan.uid >= 1
    PROVE  Tree!Grow(ObjectOf[plan.spec[g][c]])
<1> DEFINE o == ObjectOf[plan.spec[g][c]]
<1>1. o \in Objects /\ o \in Asked
  BY EntryType, NamedIsAsked DEF Healths
<1>2. /\ cluster'[o].owner = plan.uid /\ cluster'[o] \in Slot
      /\ \A p \in Objects : p # o => cluster'[p] = cluster[p]
  <2>1. plan.spec[g][c] \in Manifests
    BY EntryType DEF Healths
  <2>2. cluster' \in [Objects -> Slot \cup {None}]
    BY <2>1, ApplyType
  <2> DEFINE applied == [owner |-> plan.uid, component |-> c, manifest |-> plan.spec[g][c],
                         health |-> IF Live(o) THEN cluster[o].health ELSE "pending"]
  <2>3. cluster' = [cluster EXCEPT ![o] = applied]
    BY DEF Apply
  <2>4. cluster'[o] = applied /\ \A p \in Objects : p # o => cluster'[p] = cluster[p]
    BY <1>1, <2>3 DEF TypeOK
  <2>5. applied \in Slot
    BY <1>1, <2>1 DEF Slot, TypeOK, PlanType, Live, Healths
  <2> QED
    BY <2>4, <2>5
<1>3. plan.uid # 0
  BY DEF TypeOK, PlanType
<1>4. Children' = Children \cup {o}
  BY <1>1, <1>2, <1>3 DEF Children, Live, Foreigner
<1>5. Asked' = Asked /\ (plan.life # "gone")' = (plan.life # "gone")
  BY DEF Asked
<1> QED
  BY <1>1, <1>4, <1>5 DEF Tree!Grow

LEMMA InitTree == Init => Tree!Init
<1> SUFFICES ASSUME Init PROVE Tree!Init
  OBVIOUS
<1>1. \A g \in Generations, c \in Components : plan.spec[g][c] = None
  BY DEF Init, NoSpec
<1>2. Asked = {}
  BY <1>1 DEF Asked
<1>3. Children = {}
  BY DEF Init, Children, Live, Foreigner
<1> QED
  BY <1>2, <1>3 DEF Tree!Init, Init

(* Every step of the operator and its surroundings is a step of the tree. *)
LEMMA NextTree == IInv /\ [Next]_vars => [Tree!Next]_(Tree!vars)
<1> SUFFICES ASSUME IInv, [Next]_vars PROVE [Tree!Next]_(Tree!vars)
  OBVIOUS
<1>0. TypeOK
  BY DEF IInv
<1>1. ASSUME UNCHANGED <<plan, cluster>> PROVE UNCHANGED Tree!vars
  BY <1>1 DEF Tree!vars, Asked, Children, Live
<1>2. ASSUME NEW c \in Components, ReconcileApply(c) PROVE Tree!Next
  <2>1. /\ rec.pc = "apply" /\ c \in rec.todo /\ plan' = plan /\ rec.gen \in Generations
        /\ Apply(c, plan.spec[rec.gen][c])
    BY <1>0, <1>2 DEF ReconcileApply, Reconciled, TypeOK, RecType
  <2>2. plan.spec[rec.gen][c] # None /\ plan.life # "gone" /\ plan.uid >= 1
    BY <2>1 DEF IInv, WorkAddsUp, Accounts, WorkHasPlan
  <2>3. ObjectOf[plan.spec[rec.gen][c]] \in Objects
    BY <1>0, <2>1, <2>2, EntryType DEF Healths
  <2> QED
    BY <1>0, <2>1, <2>2, <2>3, ApplyGrows DEF Tree!Next
<1>3. ASSUME NEW c \in Components, SweepHeal(c) PROVE Tree!Next
  <2>1. /\ sweep.healing = c /\ c # None /\ plan' = plan /\ sweep.gen \in Generations
        /\ Apply(c, plan.spec[sweep.gen][c])
    BY <1>0, <1>3 DEF SweepHeal, Healed, SweepLocal, TypeOK, SweepType
  <2>2. /\ sweep.pc = "assess"
        /\ c \in sweep.todo \cup ({sweep.healing} \ {None})
    BY <2>1 DEF IInv, WorkAddsUp
  <2>3. plan.spec[sweep.gen][c] # None /\ plan.life # "gone" /\ plan.uid >= 1
    BY <2>2 DEF IInv, WorkAddsUp, Accounts, WorkHasPlan
  <2>4. ObjectOf[plan.spec[sweep.gen][c]] \in Objects
    BY <1>0, <2>1, <2>3, EntryType DEF Healths
  <2> QED
    BY <1>0, <2>1, <2>3, <2>4, ApplyGrows DEF Tree!Next
<1>4. ASSUME NEW c \in Components, Prune(c) PROVE Tree!Next
  <2>1. rec.recorded[c] \in Child
    BY <1>0, <1>4 DEF Prune, Orphans, Orphaned, Listed, TypeOK, RecType, ChildList
  <2>2. /\ rec.recorded[c].object \in Objects /\ plan' = plan
        /\ cluster' = [cluster EXCEPT ![rec.recorded[c].object] = None]
    BY <1>4, <2>1 DEF Prune, Child
  <2> QED
    BY <1>0, <2>2, LossSheds DEF Tree!Next
<1>5. ASSUME NEW o \in Objects, Collect(o) \/ Lose(o) PROVE Tree!Next
  <2>1. plan' = plan /\ cluster' = [cluster EXCEPT ![o] = None]
    BY <1>5 DEF Collect, Lose
  <2> QED
    BY <1>0, <2>1, LossSheds DEF Tree!Next
<1>6. ASSUME NEW o \in Objects, NEW h \in Outcomes, ChangeHealth(o, h)
      PROVE  UNCHANGED Tree!vars
  <2>1. /\ plan' = plan /\ cluster[o] \in Slot /\ o \in Objects
        /\ cluster' = [cluster EXCEPT ![o] = [cluster[o] EXCEPT !.health = h]]
    BY <1>0, <1>6 DEF ChangeHealth, Live, TypeOK
  <2>2. [cluster[o] EXCEPT !.health = h] \in Slot
    BY <2>1 DEF Slot
  <2>3. [cluster[o] EXCEPT !.health = h].owner = cluster[o].owner
    BY <2>1 DEF Slot
  <2>4. Children' = Children
    BY <1>0, <2>1, <2>2, <2>3 DEF Children, Live, TypeOK
  <2> QED
    BY <2>1, <2>4 DEF Tree!vars, Asked
<1>7. ASSUME OnDelete PROVE Tree!Next
  <2>1. /\ plan'.life = "gone" /\ plan.life # "gone" /\ plan'.spec = plan.spec
        /\ cluster' = cluster
    BY <1>0, <1>7 DEF OnDelete, TypeOK, PlanType
  <2>2. Asked' = Asked /\ Children' = Children
    BY <2>1 DEF Asked, Children, Live
  <2> QED
    BY <2>1, <2>2 DEF Tree!Next, Tree!Fell
<1>8. ASSUME NEW s \in Specs, CreatePlan(s) PROVE Tree!Next
  <2>1. plan.life = "gone" /\ plan'.life = "active" /\ cluster' = cluster
    BY <1>8 DEF CreatePlan
  <2>2. Children' = Children
    BY <2>1 DEF Children, Live
  <2>3. Asked' \in SUBSET Objects
    <3>1. TypeOK'
      BY <1>8, CreatePlanInvariant DEF IInv
    <3> QED
      BY <3>1, NamedObjects DEF Asked, TypeOK, PlanType
  <2> QED
    BY <2>1, <2>2, <2>3 DEF Tree!Next, Tree!Plant
<1>9. ASSUME NEW s \in Specs, EditPlan(s) PROVE Tree!Next
  <2> DEFINE next == plan.generation + 1
  <2>1. /\ plan.life # "gone" /\ plan'.life = plan.life /\ cluster' = cluster
        /\ plan'.spec = [plan.spec EXCEPT ![next] = s] /\ next \in Generations
    BY <1>0, <1>9 DEF EditPlan, TypeOK, PlanType, Generations
  <2>2. Children' = Children
    BY <2>1 DEF Children, Live
  <2>3. plan.spec[next] = NoSpec
    BY <1>0, <2>1 DEF IInv, HistoryIsWrittenOnce, TypeOK, PlanType, Generations
  <2>4. \A g \in Generations, c \in Components :
           plan.spec[g][c] # None => plan'.spec[g][c] = plan.spec[g][c]
    BY <1>0, <2>1, <2>3 DEF NoSpec, TypeOK, PlanType
  <2>5. Asked \subseteq Asked'
    <3> SUFFICES ASSUME NEW g \in Generations, NEW c \in Components, plan.spec[g][c] # None
                 PROVE  ObjectOf[plan.spec[g][c]] \in Asked'
      BY DEF Asked
    <3> QED
      BY <2>4 DEF Asked
  <2>6. Asked' \in SUBSET Objects
    <3>1. TypeOK'
      BY <1>9, EditPlanInvariant DEF IInv
    <3> QED
      BY <3>1, NamedObjects DEF Asked, TypeOK, PlanType
  <2>7. Asked' = Asked \cup Asked'
    BY <2>5
  <2> QED
    BY <2>1, <2>2, <2>6, <2>7 DEF Tree!Next, Tree!Ask
<1>10. ASSUME plan'.life = plan.life, plan'.spec = plan.spec, cluster' = cluster
       PROVE  UNCHANGED Tree!vars
  BY <1>10 DEF Tree!vars, Asked, Children, Live
<1>11. ASSUME NEW c \in Components, ReconcileApplyFails(c) \/ SweepHealFails(c)
       PROVE  plan' = plan /\ cluster' = cluster
  BY <1>11 DEF ReconcileApplyFails, SweepHealFails, Reconciled, Healed, SweepLocal, ApplyFails
<1>12. ASSUME NEW c \in Components, SweepAssess(c) \/ SweepMisses(c) \/ SweepReadFails(c)
       PROVE  plan' = plan /\ cluster' = cluster
  BY <1>12 DEF SweepAssess, SweepMisses, SweepReadFails, SweepLocal
<1>13. ASSUME \/ StartReconcile \/ PruneFails \/ FinishReconcile \/ Observe
              \/ StartSweep \/ FinishSweep \/ Restart \/ Crash \/ DeletePlan
              \/ UNCHANGED vars
       PROVE  UNCHANGED Tree!vars
  <2>1. CASE DeletePlan
    <3>1. /\ plan.life = "active" /\ plan'.life = "terminating"
          /\ plan'.spec = plan.spec /\ cluster' = cluster
      BY <1>0, <2>1 DEF DeletePlan, TypeOK, PlanType
    <3> QED
      BY <3>1 DEF Tree!vars, Asked, Children, Live
  <2>2. CASE FinishReconcile \/ FinishSweep
    BY <1>0, <1>10, <2>2 DEF FinishReconcile, FinishSweep, TypeOK, PlanType
  <2> QED
    BY <1>1, <1>13, <2>1, <2>2 DEF StartReconcile, PruneFails, Observe, StartSweep,
                                   Restart, Crash, vars
<1>14. CASE ReconcileNext
  BY <1>14, <1>1, <1>2, <1>4, <1>11, <1>13 DEF ReconcileNext
<1>15. CASE SweepNext
  BY <1>15, <1>1, <1>3, <1>11, <1>12, <1>13 DEF SweepNext
<1>16. CASE PlatformNext
  BY <1>16, <1>5, <1>7, <1>13 DEF PlatformNext
<1>17. CASE EnvironmentNext
  BY <1>17, <1>5, <1>6, <1>8, <1>9, <1>13 DEF EnvironmentNext
<1>18. CASE UNCHANGED vars
  BY <1>13, <1>18
<1> QED
  BY <1>14, <1>15, <1>16, <1>17, <1>18 DEF Next

(* The operator implements the ownership tree: a child appears only while its
   plan stands and only if some version of the plan's spec has named it.      *)
THEOREM ImplementsTree == Spec => TreeSpec
  BY InitTree, NextTree, InductiveInvariant, PTL DEF Spec, TreeSpec, Tree!Spec
=============================================================================
