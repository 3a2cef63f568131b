-------------------------- MODULE WorkloadHistory --------------------------
(* What reconcile promises of the children (handlers.py, its docstring and that
   of _prune_orphans) while the health sweep runs beside it.

   Each promise is broken by one particular meeting of the two threads.  The
   history variable `past` notes those meetings, so that the properties can say
   that nothing else breaks the promise; the operator itself is that of
   WorkloadOperator, and the history never stops it.                           *)
EXTENDS WorkloadOperator

VARIABLE past   \* history: how sweeps and reconciles of this plan have met

histVars == <<vars, past>>

(* straddled: a sweep was at work when Kopf took in a newer spec than its own.
   replaced:  a sweep has written the status since the reconcile that has not
              yet come to its end took from there what it has to prune.
   refused:   components the last reconcile failed to apply.
   masked:    those of them a sweep has judged since.                          *)
Unmet == [straddled |-> FALSE, replaced |-> FALSE, refused |-> {}, masked |-> {}]

Working == rec.pc \in {"apply", "prune"}

ReconcileBegins  == ~Working /\ rec'.pc = "apply"
ReconcileReturns == rec.pc = "prune" /\ rec'.pc = "idle" /\ up'
SweepReturns     == sweep.pc = "assess" /\ sweep'.pc = "idle" /\ up'

Straddles        == sweep'.pc = "assess" /\ sweep'.gen # seen'

Noted ==
    LET anew == ReconcileBegins \/ ~up
    IN  [straddled |-> FALSE,
         replaced  |-> /\ ~anew /\ ~ReconcileReturns
                       /\ past.replaced \/ (SweepReturns /\ rec.pc # "idle"),
         refused   |-> IF anew THEN {}
                       ELSE past.refused \cup {c \in Components : ReconcileApplyFails(c)},
         masked    |-> IF anew THEN {}
                       ELSE IF SweepReturns /\ rec.pc = "idle" THEN past.refused
                       ELSE past.masked]

HistoryInit == Init /\ past = Unmet

(* Of a plan an edit of which has overtaken a sweep nothing more is noted. *)
HistoryNext ==
    /\ Next
    /\ past' = IF plan'.life = "gone" THEN Unmet
               ELSE IF past.straddled \/ Straddles THEN [Unmet EXCEPT !.straddled = TRUE]
               ELSE Noted

HistorySpec == HistoryInit /\ [][HistoryNext]_histVars

FairHistorySpec == HistorySpec /\ Fairness
-----------------------------------------------------------------------------
(* A component that some version of the spec has moved to another object. *)
Moved ==
    {c \in Components : \E g, h \in 1 .. plan.generation :
        /\ plan.spec[g][c] # None /\ plan.spec[h][c] # None
        /\ ObjectOf[plan.spec[g][c]] # ObjectOf[plan.spec[h][c]]}

(* reconcile: "Pruning diffs the previously recorded children against the
   current spec, so a component dropped from the plan has its child deleted."
   However edits overtake the handlers, and however sweeps heal and write beside
   the reconcile, at rest no object of a component that left the spec is alive -
   until an edit has overtaken a sweep, a call has failed or the operator has
   crashed: what a reconcile applied that did not come to its end is recorded
   nowhere.  Of a component that has moved, only the last object is recorded.   *)
PrunedUnlessOvertaken ==
    AtRest /\ ~past.straddled /\ budget.faults = 0 /\ budget.crashes = 0 =>
        \A o \in Objects : Owned(o) => cluster[o].component \in Names(Current) \cup Moved

(* The objects somebody remembers for c: the status, or the reconcile at work. *)
Remembered(c) ==
    {l[c].object : l \in {m \in {plan.status.children} \cup
                              (IF Working THEN {rec.recorded} ELSE {}) : m[c] # None}}

(* The same of what is recorded, through failures, retries and crashes: no child
   is forgotten before its object is gone or another component's - until a sweep
   writes over the status a reconcile has started from and may have to start
   from again.                                                                *)
PrunedBeforeForgotten ==
    [][plan'.life # "gone" /\ ~past'.straddled /\ ~past'.replaced =>
          \A c \in Components : Remembered(c) # {} /\ Remembered(c)' = {} =>
              \A o \in Remembered(c) :
                  cluster'[o] = None \/ cluster'[o].component # c]_histVars

(* The manifests the spec wants in object o. *)
Wanted(o) == {Current[c] : c \in {d \in Names(Current) : ObjectOf[Current[d]] = o}}

(* The escalation channel.  At rest an object that lives runs what the spec wants
   of it, however sweeps have healed it and handlers failed and came back, until
   an edit has overtaken a sweep.  The only exception are components the last
   reconcile could not apply: the status counts them failed, until a sweep has
   judged the objects they had before.                                        *)
ReportedUntilSwept ==
    AtRest /\ ~past.straddled =>
        \A c \in Names(Current) \ past.masked :
            LET o == ObjectOf[Current[c]]
            IN  IF c \in past.refused
                THEN c \in NeedsAttention(plan.status.children)
                ELSE Live(o) => cluster[o].manifest \in Wanted(o)
-----------------------------------------------------------------------------
(* The inductive invariant behind the three properties above, in parts. *)

(* A process that is down has seen nothing, a plan that is gone has no status,
   and one that waits for no resume but has not been seen has not been handled. *)
FreshStart ==
    /\ ~up => seen = 0
    /\ plan.life = "gone" => plan.status = NoStatus
    /\ up /\ plan.life = "active" /\ ~resuming /\ seen = 0 => handled = 0

SpecsAreGiven == \A g \in 1 .. plan.generation : plan.spec[g] \in Specs

(* Some version of the spec has put component c in object o. *)
Named(c, o) ==
    \E g \in 1 .. plan.generation :
        plan.spec[g][c] # None /\ ObjectOf[plan.spec[g][c]] = o

(* The plan's objects, and what a reconcile has on record, are of its specs. *)
ObjectsAreNamed ==
    /\ \A o \in Objects : Live(o) => cluster[o].owner <= plan.uid
    /\ plan.life # "gone" =>
          \A o \in Objects : Owned(o) =>
              cluster[o].component \in Components /\ Named(cluster[o].component, o)
    /\ Working => \A c \in Listed(rec.recorded) : Named(c, rec.recorded[c].object)

(* A sweep is at work on the spec taken in last. *)
SweepIsCurrent == sweep.pc = "assess" => sweep.gen = seen

(* What the status lists a reconcile has on record, until it is pruned or a sweep
   writes the status of the spec the reconcile is at work on.                  *)
RecordIsKept ==
    Working =>
        IF past.replaced THEN Reflects(plan.status.children, rec.gen)
        ELSE /\ \A c \in Listed(rec.recorded) : rec.recorded[c] = plan.status.children[c]
             /\ \A c \in Listed(plan.status.children) \ Listed(rec.recorded) :
                   LET o == plan.status.children[c].object
                   IN  /\ plan.spec[rec.gen][c] = None
                       /\ cluster[o] = None \/ cluster[o].component # c

(* Between reconciles status, view and spec handled agree. *)
RestAgrees ==
    rec.pc = "idle" /\ seen # 0 /\ (plan.life = "active" \/ sweep.pc = "assess") =>
        /\ plan.spec[seen] = plan.spec[handled]
        /\ Reflects(plan.status.children, seen)

(* What generation g wants in object o, and that component c has got it. *)
Wants(g, o) == {plan.spec[g][c] : c \in {d \in Components : plan.spec[g][d] # None
                                              /\ ObjectOf[plan.spec[g][d]] = o}}

Served(c, g) ==
    LET o == ObjectOf[plan.spec[g][c]] IN Live(o) => cluster[o].manifest \in Wants(g, o)

(* All a reconcile has been through is served or noted as refused; so it stays when
   the reconcile is back, but for what a sweep has judged anew.                *)
RefusalsAreNoted ==
    /\ past.masked \subseteq past.refused
    /\ Working => past.refused \cap rec.todo = {}
    /\ Working => \A c \in Names(plan.spec[rec.gen]) \ rec.todo :
          IF c \in past.refused THEN c \in NeedsAttention(rec.done) ELSE Served(c, rec.gen)
    /\ rec.pc = "idle" /\ seen # 0 /\ plan.life = "active" =>
          \A c \in Names(plan.spec[seen]) \ past.masked :
             IF c \in past.refused THEN c \in NeedsAttention(plan.status.children)
             ELSE Served(c, seen)

(* Component c is on record: with the reconcile at work, and otherwise in the status. *)
OnRecord(c) ==
    IF Working THEN plan.spec[rec.gen][c] # None \/ rec.recorded[c] # None
    ELSE plan.status.children[c] # None

(* While nothing has failed no object is forgotten, but of a component that moved. *)
NothingIsLost ==
    budget.faults = 0 /\ budget.crashes = 0 /\ plan.life # "gone" =>
        /\ rec.pc # "backoff"
        /\ \A o \in Objects : Owned(o) =>
              cluster[o].component \in Moved \/ OnRecord(cluster[o].component)

(* The strengthening that every step of the operator keeps. *)
HInv ==
    /\ IInv
    /\ FreshStart
    /\ SpecsAreGiven
    /\ ObjectsAreNamed
    /\ ~past.straddled =>
          SweepIsCurrent /\ RecordIsKept /\ RestAgrees /\ RefusalsAreNoted /\ NothingIsLost
=============================================================================
