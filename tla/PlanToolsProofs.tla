-------------------------- MODULE PlanToolsProofs --------------------------
(* Proofs about PlanTools: for any number of callers and any requests the tools
   drive the operator as its specification allows, so that what is proved of
   WorkloadOperator holds of plans made by the tools.                         *)
EXTENDS PlanTools, WorkloadOperatorProofs

USE CoreAssumption, OperatorAssumption, ToolsAssumption

(* A spec with a component in place of another manifest still is one. *)
LEMMA SpecWith ==
    ASSUME NEW s \in AllSpecs, NEW c \in Components, NEW m \in Manifests
    PROVE  [s EXCEPT ![c] = m] \in AllSpecs
<1> DEFINE t == [s EXCEPT ![c] = m]
<1>1. s \in [Components -> Manifests \cup {None}]
  BY DEF AllSpecs
<1>2. t \in [Components -> Manifests \cup {None}] /\ t[c] = m
  BY <1>1
<1>3. m # None
  OBVIOUS
<1> QED
  BY <1>2, <1>3 DEF AllSpecs

(* A spec that loses a component is one as long as another component is left. *)
LEMMA SpecWithout ==
    ASSUME NEW s \in AllSpecs, NEW c \in Components, s[c] # None, Names(s) # {c}
    PROVE  [s EXCEPT ![c] = None] \in AllSpecs
<1> DEFINE t == [s EXCEPT ![c] = None]
<1>1. s \in [Components -> Manifests \cup {None}]
  BY DEF AllSpecs
<1>2. PICK d \in Components : d # c /\ s[d] # None
  BY DEF Names
<1>3. t \in [Components -> Manifests \cup {None}] /\ t[d] = s[d]
  BY <1>1, <1>2
<1> QED
  BY <1>2, <1>3 DEF AllSpecs

(* build_workload_plan turns a spec into a spec. *)
LEMMA BuiltIsSpec ==
    ASSUME NEW k \in Callers, NEW s \in AllSpecs PROVE Built(k, s) \in AllSpecs
<1>1. s \in [Components -> Manifests \cup {None}] /\ None \notin Manifests
  BY DEF AllSpecs
<1>2. PICK c \in Components : s[c] # None
  BY DEF AllSpecs
<1>3. Built(k, s) \in [Components -> Manifests \cup {None}]
  BY <1>1 DEF Built
<1>4. Built(k, s)[c] # None
  BY <1>1, <1>2 DEF Built
<1> QED
  BY <1>2, <1>3, <1>4 DEF AllSpecs

(* No component at all is no spec. *)
LEMMA NoSpecIsNone == NoSpec \notin AllSpecs
  BY DEF NoSpec, AllSpecs

(* The operator and the cluster leave the specs alone and bring no plan back. *)
LEMMA ClusterLeavesSpecs ==
    ASSUME ClusterStep, plan \in PlanType
    PROVE  /\ plan'.spec = plan.spec /\ plan'.generation = plan.generation
           /\ plan'.life # "gone" => plan.life # "gone"
<1>1. CASE ReconcileNext
  BY <1>1 DEF ReconcileNext, StartReconcile, PruneFails, FinishReconcile, Observe,
              ReconcileApply, ReconcileApplyFails, Reconciled, Prune, PlanType
<1>2. CASE SweepNext
  BY <1>2 DEF SweepNext, StartSweep, FinishSweep, SweepAssess, SweepMisses,
              SweepReadFails, SweepHeal, SweepHealFails, Healed, SweepLocal, PlanType
<1>3. CASE PlatformNext \/ Crash
  BY <1>3 DEF PlatformNext, OnDelete, Restart, Collect, Crash, PlanType
<1>4. CASE \E o \in Objects : Lose(o) \/ \E h \in Outcomes : ChangeHealth(o, h)
  BY <1>4 DEF Lose, ChangeHealth
<1> QED
  BY <1>1, <1>2, <1>3, <1>4 DEF ClusterStep

(* A tool call writes to the plan as an agent of WorkloadOperator may: it creates
   it, edits it with a spec, deletes it, or leaves it as it is.               *)
LEMMA ToolWrites ==
    ASSUME GateHolds, NEW k \in Callers, ToolStep(k)
    PROVE  (\E s \in Specs : CreatePlan(s) \/ EditPlan(s)) \/ DeletePlan \/ UNCHANGED vars
<1>1. CASE ApplyPlan(k)
  <2>1. call[k].want \in Specs /\ Written(call[k].want)
    BY <1>1 DEF ApplyPlan, GateHolds
  <2> QED
    BY <2>1 DEF Written
<1>2. CASE RemovePlan(k)
  BY <1>2 DEF RemovePlan
<1>3. CASE ReadFails(k) \/ ReadNothing(k) \/ WriteFails(k)
  BY <1>3 DEF ReadFails, ReadNothing, WriteFails, Answers
<1>4. CASE \/ ReadForUpdateComponent(k) \/ ReadForUpdatePlan(k)
           \/ ReadForDeleteComponent(k) \/ ReadForDeletePlan(k)
           \/ ReadForStatus(k) \/ EventsForStatus(k)
  BY <1>4 DEF ReadForUpdateComponent, ReadForUpdatePlan, ReadForDeleteComponent,
              ReadForDeletePlan, ReadForStatus, EventsForStatus, Answers, Continues
<1>5. CASE \E r \in Requests : Declare(k, r) \/ Begin(k, r)
  BY <1>5 DEF Declare, Begin, Answers, Unanswered
<1> QED
  BY <1>1, <1>2, <1>3, <1>4, <1>5 DEF ToolStep

(* Every step of the tools' system is one of the operator's specification. *)
LEMMA StepImplements == GateHolds /\ [ToolNext]_allVars => [Next]_vars
<1> SUFFICES ASSUME GateHolds, [ToolNext]_allVars PROVE [Next]_vars
  OBVIOUS
<1>1. ASSUME NEW k \in Callers, ToolStep(k) PROVE [Next]_vars
  BY <1>1, ToolWrites DEF Next, EnvironmentNext
<1>2. CASE ClusterStep
  BY <1>2 DEF ClusterStep, Next, EnvironmentNext
<1>3. CASE UNCHANGED allVars
  BY <1>3 DEF allVars
<1> QED
  BY <1>1, <1>2, <1>3 DEF ToolNext

(* The conditions GateHolds puts on one call. *)
CallHolds(q) ==
    /\ q \in CallType
    /\ q.pc = "apply" => q.want \in AllSpecs
    /\ q.pc # "idle" => q.request \in Requests

(* A call keeps the gate when what it becomes does. *)
LEMMA CallKept ==
    ASSUME GateHolds, NEW k \in Callers, NEW q, CallHolds(q), call' = [call EXCEPT ![k] = q],
           NEW a \in AnswerType, answer' = [answer EXCEPT ![k] = a],
           plan'.life # "gone" => Current' \in AllSpecs
    PROVE  GateHolds'
  BY DEF GateHolds, CallHolds

LEMMA NoCallHolds == CallHolds(NoCall)
<1>1. 0 \in 0 .. MaxPlans /\ 0 \in Generations
  BY DEF Generations
<1> QED
  BY <1>1 DEF CallHolds, NoCall, CallType

(* The plan's own part of the gate survives whatever a call writes. *)
LEMMA CurrentKept ==
    ASSUME TypeOK, GateHolds,
           \/ \E s \in Specs : CreatePlan(s) \/ EditPlan(s)
           \/ DeletePlan \/ UNCHANGED vars
    PROVE  plan'.life # "gone" => Current' \in AllSpecs
<1>1. ASSUME NEW s \in Specs, CreatePlan(s) PROVE Current' = s
  <2>1. 1 \in Generations
    BY DEF Generations
  <2> QED
    BY <1>1, <2>1 DEF CreatePlan, Current
<1>2. ASSUME NEW s \in Specs, EditPlan(s) PROVE Current' = s
  <2>1. plan.generation \in Generations /\ plan.generation < MaxGeneration
    BY <1>2 DEF EditPlan, TypeOK, PlanType
  <2>2. plan.generation + 1 \in Generations
    BY <2>1 DEF Generations
  <2> QED
    BY <1>2, <2>2 DEF EditPlan, Current, TypeOK, PlanType
<1>3. CASE DeletePlan
  BY <1>3 DEF DeletePlan, Current, GateHolds, TypeOK, PlanType
<1>4. CASE UNCHANGED vars
  BY <1>4 DEF vars, Current, GateHolds
<1> QED
  BY <1>1, <1>2, <1>3, <1>4

(* An answer ends the call. *)
LEMMA AnswersKept ==
    ASSUME TypeOK, GateHolds, NEW k \in Callers, NEW a \in AnswerType, Answers(k, a)
    PROVE  GateHolds'
<1>1. plan'.life # "gone" => Current' \in AllSpecs
  BY CurrentKept DEF Answers
<1> QED
  BY <1>1, NoCallHolds, CallKept DEF Answers

(* A call that has read the plan goes on to its write with a spec. *)
LEMMA ContinuesKept ==
    ASSUME TypeOK, GateHolds, NEW k \in Callers, call[k].pc = "read",
           NEW pc \in {"stuck", "converging", "apply", "delete"},
           NEW want \in AllSpecs \cup {NoSpec},
           pc = "apply" => want \in AllSpecs, Continues(k, pc, want)
    PROVE  GateHolds'
<1> DEFINE q == [call[k] EXCEPT !.pc = pc, !.want = want, !.uid = plan.uid,
                                !.gen = plan.generation]
<1>1. call' = [call EXCEPT ![k] = q] /\ answer' = [answer EXCEPT ![k] = answer[k]]
  BY DEF Continues, GateHolds
<1>2. CallHolds(q)
  <2>1. plan.uid \in 0 .. MaxPlans /\ plan.generation \in Generations
    BY DEF TypeOK, PlanType
  <2>2. call[k] \in CallType /\ call[k].request \in Requests
    BY DEF GateHolds
  <2>3. q \in CallType
    BY <2>1, <2>2 DEF CallType
  <2>4. q.pc = pc /\ q.want = want /\ q.request = call[k].request
    BY <2>2 DEF CallType
  <2> QED
    BY <2>2, <2>3, <2>4 DEF CallHolds
<1>3. plan'.life # "gone" => Current' \in AllSpecs
  BY CurrentKept DEF Continues
<1>4. answer[k] \in AnswerType
  BY DEF GateHolds
<1> HIDE DEF q
<1> QED
  BY <1>1, <1>2, <1>3, <1>4, CallKept

(* What each tool wants to write after its read is a spec. *)
LEMMA ReadKept ==
    ASSUME TypeOK, GateHolds, NEW k \in Callers,
           \/ ReadForUpdateComponent(k) \/ ReadForUpdatePlan(k)
           \/ ReadForDeleteComponent(k) \/ ReadForDeletePlan(k) \/ ReadForStatus(k)
    PROVE  GateHolds'
<1> DEFINE r == call[k].request
<1>1. /\ call[k].pc = "read" /\ plan.life # "gone" /\ r \in Requests
      /\ r \in RequestType /\ Current \in AllSpecs
  BY DEF GateHolds, Reads, ReadForUpdateComponent, ReadForUpdatePlan,
         ReadForDeleteComponent, ReadForDeletePlan, ReadForStatus
<1>2. CASE ReadForUpdateComponent(k)
  <2>1. CASE r.manifest = None /\ Answers(k, "invalid")
    BY <2>1, AnswersKept DEF AnswerType
  <2>2. CASE r.manifest # None /\ Continues(k, "apply", Built(k, Merged(r)))
    <3>1. r.component \in Components /\ r.manifest \in Manifests
      BY <1>1, <1>2, <2>2 DEF RequestType, ReadForUpdateComponent, Reads
    <3>2. Built(k, Merged(r)) \in AllSpecs
      BY <1>1, <3>1, SpecWith, BuiltIsSpec DEF Merged
    <3> QED
      BY <1>1, <2>2, <3>2, ContinuesKept
  <2> QED
    BY <1>2, <2>1, <2>2 DEF ReadForUpdateComponent
<1>3. CASE ReadForUpdatePlan(k)
  <2>1. CASE r.draft = None /\ Answers(k, "invalid")
    BY <2>1, AnswersKept DEF AnswerType
  <2>2. CASE r.draft # None /\ Continues(k, "apply", Built(k, r.draft))
    <3>1. Built(k, r.draft) \in AllSpecs
      BY <1>1, <2>2, BuiltIsSpec DEF RequestType, Drafts
    <3> QED
      BY <1>1, <2>2, <3>1, ContinuesKept
  <2> QED
    BY <1>3, <2>1, <2>2 DEF ReadForUpdatePlan
<1>4. CASE ReadForDeleteComponent(k)
  <2> DEFINE c == r.component
  <2>1. CASE Answers(k, "component_missing") \/ Answers(k, "last_component")
    BY <2>1, AnswersKept DEF AnswerType
  <2>2. CASE /\ Current[c] # None /\ Names(Current) # {c}
             /\ Continues(k, "apply", Built(k, [Current EXCEPT ![c] = None]))
    <3>1. c \in Components
      BY <1>1, <1>4 DEF RequestType, ReadForDeleteComponent, Reads
    <3>2. Built(k, [Current EXCEPT ![c] = None]) \in AllSpecs
      BY <1>1, <2>2, <3>1, SpecWithout, BuiltIsSpec
    <3> QED
      BY <1>1, <2>2, <3>2, ContinuesKept
  <2> QED
    BY <1>4, <2>1, <2>2 DEF ReadForDeleteComponent
<1>5. CASE ReadForDeletePlan(k)
  BY <1>1, <1>5, ContinuesKept DEF ReadForDeletePlan
<1>6. CASE ReadForStatus(k)
  <2>1. CASE Answers(k, "no_status") \/ Answers(k, "ready")
    BY <2>1, AnswersKept DEF AnswerType
  <2>2. CASE Continues(k, Verdict, NoSpec)
    <3>1. Verdict \in {"stuck", "converging"}
      BY DEF Verdict
    <3> QED
      BY <1>1, <2>2, <3>1, ContinuesKept
  <2> QED
    BY <1>6, <2>1, <2>2 DEF ReadForStatus
<1> QED
  BY <1>2, <1>3, <1>4, <1>5, <1>6

(* A new call has its request, and for a declaration the spec it carries. *)
LEMMA NewCallKept ==
    ASSUME TypeOK, GateHolds, NEW k \in Callers, NEW r \in Requests,
           Declare(k, r) \/ Begin(k, r)
    PROVE  GateHolds'
<1>1. r \in RequestType /\ 0 \in 0 .. MaxPlans /\ 0 \in Generations
  BY DEF Generations
<1>2. CASE Answers(k, "invalid")
  BY <1>2, AnswersKept DEF AnswerType
<1>3. ASSUME NEW q, CallHolds(q), call' = [call EXCEPT ![k] = q], Unanswered(k)
      PROVE  GateHolds'
  <2>1. plan'.life # "gone" => Current' \in AllSpecs
    BY <1>3, CurrentKept DEF Unanswered
  <2> QED
    BY <1>3, <2>1, CallKept DEF Unanswered, AnswerType
<1>4. CASE Declare(k, r) /\ r.draft # None
  <2> DEFINE q == [NoCall EXCEPT !.pc = "apply", !.want = Built(k, r.draft), !.request = r]
  <2>0. Built(k, r.draft) \in AllSpecs
    BY <1>1, <1>4, BuiltIsSpec DEF RequestType, Drafts
  <2>1. CallHolds(q)
    BY <1>1, <2>0 DEF CallHolds, CallType, NoCall
  <2> QED
    BY <1>3, <1>4, <2>1 DEF Declare
<1>5. CASE Begin(k, r)
  <2> DEFINE q == [NoCall EXCEPT !.pc = "read", !.request = r]
  <2>1. CallHolds(q)
    BY <1>1 DEF CallHolds, CallType, NoCall
  <2> QED
    BY <1>3, <1>5, <2>1 DEF Begin
<1> QED
  BY <1>2, <1>4, <1>5 DEF Declare

(* Every step of the tools' system keeps the gate. *)
LEMMA GateKept == TypeOK /\ GateHolds /\ [ToolNext]_allVars => GateHolds'
<1> SUFFICES ASSUME TypeOK, GateHolds, [ToolNext]_allVars PROVE GateHolds'
  OBVIOUS
<1>1. ASSUME NEW k \in Callers, ToolStep(k) PROVE GateHolds'
  <2>1. CASE ReadFails(k) \/ ReadNothing(k) \/ WriteFails(k)
    BY <2>1, AnswersKept DEF ReadFails, ReadNothing, WriteFails, AnswerType
  <2>2. CASE \/ ReadForUpdateComponent(k) \/ ReadForUpdatePlan(k)
             \/ ReadForDeleteComponent(k) \/ ReadForDeletePlan(k) \/ ReadForStatus(k)
    BY <2>2, ReadKept
  <2>3. CASE ApplyPlan(k) \/ RemovePlan(k)
    <3>1. /\ call' = [call EXCEPT ![k] = NoCall]
          /\ \E a \in AnswerType : answer' = [answer EXCEPT ![k] = a]
      BY <2>3 DEF ApplyPlan, RemovePlan, AnswerType
    <3>2. plan'.life # "gone" => Current' \in AllSpecs
      BY <1>1, ToolWrites, CurrentKept
    <3> QED
      BY <3>1, <3>2, NoCallHolds, CallKept
  <2>4. CASE \E r \in Requests : Declare(k, r) \/ Begin(k, r)
    BY <2>4, NewCallKept
  <2>5. CASE EventsForStatus(k)
    BY <2>5, AnswersKept DEF EventsForStatus, AnswerType
  <2> QED
    BY <1>1, <2>1, <2>2, <2>3, <2>4, <2>5 DEF ToolStep
<1>2. CASE ClusterStep /\ UNCHANGED toolVars
  <2>1. /\ plan'.spec = plan.spec /\ plan'.generation = plan.generation
        /\ plan'.life # "gone" => plan.life # "gone"
    BY <1>2, ClusterLeavesSpecs DEF TypeOK
  <2> QED
    BY <1>2, <2>1 DEF toolVars, GateHolds, Current
<1>3. CASE UNCHANGED allVars
  BY <1>3 DEF allVars, vars, toolVars, GateHolds, Current
<1> QED
  BY <1>1, <1>2, <1>3 DEF ToolNext

(* Together with the operator's own invariant, the gate is inductive. *)
LEMMA ToolInductive == ToolSpec => [](IInv /\ GateHolds)
<1>1. ToolInit => IInv /\ GateHolds
  <2> SUFFICES ASSUME ToolInit PROVE IInv /\ GateHolds
    OBVIOUS
  <2>1. IInv
    BY InitInvariant DEF ToolInit
  <2>2. plan.life = "gone"
    BY DEF ToolInit, Init
  <2>3. GateHolds
    BY <2>2, NoCallHolds DEF ToolInit, GateHolds, CallHolds, AnswerType
  <2> QED
    BY <2>1, <2>3
<1>2. IInv /\ GateHolds /\ [ToolNext]_allVars => (IInv /\ GateHolds)'
  <2>1. IInv => TypeOK
    BY DEF IInv
  <2> QED
    BY <2>1, StepImplements, NextInvariant, GateKept
<1> QED
  BY <1>1, <1>2, PTL DEF ToolSpec

(* What any call is about to apply, and what any plan holds, has passed Gate 1,
   for any number of overlapping calls.                                       *)
THEOREM GateAlwaysHolds == ToolSpec => []GateHolds
  BY ToolInductive, PTL

(* The tools and the operator together implement the operator's specification,
   in which agents are left free.                                             *)
THEOREM ToolsImplementAgents == ToolSpec => OperatorSpec
<1>1. ToolInit => Init
  BY DEF ToolInit
<1> QED
  BY <1>1, StepImplements, GateAlwaysHolds, PTL DEF ToolSpec, OperatorSpec, Spec
-----------------------------------------------------------------------------
(* A step of one call leaves the other calls as they are. *)
LEMMA OthersWait ==
    ASSUME GateHolds, NEW k \in Callers, ToolStep(k), NEW j \in Callers, j # k
    PROVE  call'[j] = call[j]
  BY DEF GateHolds, ToolStep, ReadFails, ReadNothing, ReadForUpdateComponent,
         ReadForUpdatePlan, ReadForDeleteComponent, ReadForDeletePlan, ReadForStatus,
         EventsForStatus, ApplyPlan, RemovePlan, WriteFails, Declare, Begin, Answers, Continues

(* A manifest a tool has sent has its namespace: nobody gives it another one. *)
Settled(s) ==
    \A j \in Callers : \A c \in Components : s[c] # None => Placed[j][s[c]] = s[c]

Placements ==
    /\ plan.life # "gone" => Settled(Current)
    /\ \A k \in Callers : call[k].pc = "apply" => Settled(call[k].want)

LEMMA BuiltIsSettled ==
    ASSUME NEW k \in Callers, NEW s \in AllSpecs PROVE Settled(Built(k, s))
<1> SUFFICES ASSUME NEW j \in Callers, NEW c \in Components, Built(k, s)[c] # None
             PROVE  Placed[j][Built(k, s)[c]] = Built(k, s)[c]
  BY DEF Settled
<1>1. s[c] \in Manifests \cup {None} /\ s[c] # None
  BY DEF AllSpecs, Built
<1>2. Built(k, s)[c] = Placed[k][s[c]]
  BY <1>1 DEF Built
<1> QED
  BY <1>1, <1>2, PlacingAssumption

(* To a plan that is settled, building it again does nothing. *)
LEMMA SettledIsKept ==
    ASSUME NEW k \in Callers, NEW s, NEW t, Settled(t),
           NEW c \in Components, s[c] = t[c]
    PROVE  Built(k, s)[c] = t[c]
  BY DEF Built, Settled

(* What a call is going to apply, it has built. *)
LEMMA WhatIsSent ==
    ASSUME TypeOK, GateHolds, NEW k \in Callers, ToolStep(k)
    PROVE  call'[k].pc = "apply" => Settled(call'[k].want)
<1> SUFFICES ASSUME call'[k].pc = "apply" PROVE Settled(call'[k].want)
  OBVIOUS
<1> DEFINE r == call[k].request
<1>1. call \in [Callers -> CallType]
  BY DEF GateHolds
<1>2. call' # [call EXCEPT ![k] = NoCall]
  BY <1>1 DEF NoCall
<1>3. ASSUME NEW pc, NEW want, Continues(k, pc, want)
      PROVE  call'[k].pc = pc /\ call'[k].want = want
  BY <1>1, <1>3 DEF Continues, CallType
<1>4. CASE ReadForUpdateComponent(k)
  <2>1. /\ r.manifest # None /\ Continues(k, "apply", Built(k, Merged(r)))
        /\ Reads(k, "update_component") /\ plan.life # "gone"
    BY <1>2, <1>4 DEF ReadForUpdateComponent, Answers
  <2>2. r \in RequestType /\ r \in Requests
    BY <2>1 DEF Reads, GateHolds
  <2>3. r.component \in Components /\ r.manifest \in Manifests /\ Current \in AllSpecs
    BY <2>1, <2>2 DEF Reads, RequestType, GateHolds
  <2>4. Merged(r) \in AllSpecs
    BY <2>3, SpecWith DEF Merged
  <2> QED
    BY <1>3, <2>1, <2>4, BuiltIsSettled
<1>5. CASE ReadForUpdatePlan(k)
  <2>1. r.draft # None /\ Continues(k, "apply", Built(k, r.draft)) /\ Reads(k, "update_plan")
    BY <1>2, <1>5 DEF ReadForUpdatePlan, Answers
  <2>2. r.draft \in AllSpecs
    BY <2>1 DEF Reads, GateHolds, RequestType, Drafts
  <2> QED
    BY <1>3, <2>1, <2>2, BuiltIsSettled
<1>6. CASE ReadForDeleteComponent(k)
  <2> DEFINE c == r.component
  <2>1. /\ Current[c] # None /\ Names(Current) # {c} /\ Reads(k, "delete_component")
        /\ Continues(k, "apply", Built(k, [Current EXCEPT ![c] = None]))
        /\ plan.life # "gone"
    BY <1>2, <1>6 DEF ReadForDeleteComponent, Answers
  <2>2. c \in Components /\ Current \in AllSpecs
    BY <2>1 DEF Reads, GateHolds, RequestType
  <2>3. [Current EXCEPT ![c] = None] \in AllSpecs
    BY <2>1, <2>2, SpecWithout
  <2> QED
    BY <1>3, <2>1, <2>3, BuiltIsSettled
<1>7. CASE \E q \in Requests : Declare(k, q)
  <2>1. PICK q \in Requests : Declare(k, q)
    BY <1>7
  <2>2. /\ q.draft # None
        /\ call' = [call EXCEPT ![k] = [NoCall EXCEPT !.pc = "apply",
                                          !.want = Built(k, q.draft), !.request = q]]
    BY <1>2, <2>1 DEF Declare, Answers
  <2>4. call'[k].want = Built(k, q.draft)
    BY <1>1, <2>2 DEF NoCall
  <2>3. q.draft \in AllSpecs
    BY <2>2 DEF RequestType, Drafts
  <2> QED
    BY <2>3, <2>4, BuiltIsSettled
<1>8. CASE ReadForDeletePlan(k)
  BY <1>2, <1>3, <1>8 DEF ReadForDeletePlan
<1>9. CASE ReadForStatus(k)
  BY <1>2, <1>3, <1>9 DEF ReadForStatus, Answers, Verdict
<1>10. CASE \/ ReadFails(k) \/ ReadNothing(k) \/ WriteFails(k) \/ EventsForStatus(k)
            \/ ApplyPlan(k) \/ RemovePlan(k)
  BY <1>2, <1>10 DEF ReadFails, ReadNothing, WriteFails, EventsForStatus, ApplyPlan,
                     RemovePlan, Answers
<1>11. CASE \E q \in Requests : Begin(k, q)
  BY <1>1, <1>11 DEF Begin, NoCall
<1> QED
  BY <1>4, <1>5, <1>6, <1>7, <1>8, <1>9, <1>10, <1>11 DEF ToolStep

(* What an apply leaves in the plan is what the call has sent. *)
LEMMA SentIsCurrent ==
    ASSUME TypeOK, GateHolds, NEW k \in Callers, ApplyPlan(k)
    PROVE  Current' = call[k].want
<1>1. call[k].want \in Specs /\ Written(call[k].want)
  BY DEF ApplyPlan, GateHolds
<1>2. CASE CreatePlan(call[k].want)
  BY <1>2 DEF CreatePlan, Current, Generations
<1>3. CASE EditPlan(call[k].want)
  <2>1. plan.generation \in Generations /\ plan.generation < MaxGeneration
    BY <1>3 DEF EditPlan, TypeOK, PlanType
  <2>2. plan.generation + 1 \in Generations
    BY <2>1 DEF Generations
  <2> QED
    BY <1>3, <2>2 DEF EditPlan, Current, TypeOK, PlanType
<1>4. CASE call[k].want = Current /\ UNCHANGED vars
  BY <1>4 DEF vars, Current
<1> QED
  BY <1>1, <1>2, <1>3, <1>4 DEF Written

(* Only an apply changes what a plan that stands holds. *)
LEMMA OnlyAppliesWrite ==
    ASSUME TypeOK, GateHolds, NEW k \in Callers, ToolStep(k), ~ApplyPlan(k)
    PROVE  Current' = Current /\ (plan'.life = "gone" <=> plan.life = "gone")
<1>1. DeletePlan \/ UNCHANGED vars
  BY DEF ToolStep, ReadFails, ReadNothing, WriteFails, ReadForUpdateComponent,
         ReadForUpdatePlan, ReadForDeleteComponent, ReadForDeletePlan, ReadForStatus,
         EventsForStatus, RemovePlan, Declare, Begin, Answers, Continues, Unanswered
<1> QED
  BY <1>1 DEF DeletePlan, vars, Current, TypeOK, PlanType

(* Every step of the tools' system keeps what is sent and held settled. *)
LEMMA PlacementsKept ==
    TypeOK /\ GateHolds /\ Placements /\ [ToolNext]_allVars => Placements'
<1> SUFFICES ASSUME TypeOK, GateHolds, Placements, [ToolNext]_allVars PROVE Placements'
  OBVIOUS
<1>1. ASSUME NEW k \in Callers, ToolStep(k) PROVE Placements'
  <2>1. ASSUME NEW j \in Callers, call'[j].pc = "apply" PROVE Settled(call'[j].want)
    <3>1. CASE j = k
      BY <1>1, <2>1, <3>1, WhatIsSent
    <3>2. CASE j # k
      BY <1>1, <2>1, <3>2, OthersWait DEF Placements
    <3> QED
      BY <3>1, <3>2
  <2>2. plan'.life # "gone" => Settled(Current')
    <3>1. CASE ApplyPlan(k)
      <4>1. Settled(call[k].want)
        BY <3>1 DEF ApplyPlan, Placements
      <4> QED
        BY <3>1, <4>1, SentIsCurrent
    <3>2. CASE ~ApplyPlan(k)
      BY <1>1, <3>2, OnlyAppliesWrite DEF Placements
    <3> QED
      BY <3>1, <3>2
  <2> QED
    BY <2>1, <2>2 DEF Placements, Settled
<1>2. CASE ClusterStep /\ UNCHANGED toolVars
  <2>1. Current' = Current /\ (plan'.life # "gone" => plan.life # "gone")
    BY <1>2, ClusterLeavesSpecs DEF TypeOK, Current
  <2> QED
    BY <1>2, <2>1 DEF toolVars, Placements, Settled
<1>3. CASE UNCHANGED allVars
  <2>1. Current' = Current /\ plan' = plan /\ call' = call
    BY <1>3 DEF allVars, vars, toolVars, Current
  <2> QED
    BY <2>1 DEF Placements, Settled
<1> QED
  BY <1>1, <1>2, <1>3 DEF ToolNext
-----------------------------------------------------------------------------
(* The invariant behind EditIsLocal.  A plan is known by its uid and generation:
   what a call has read is that of now, or both have moved on for good.       *)
NotAhead(q) == q.uid <= plan.uid /\ (q.uid = plan.uid => q.gen <= plan.generation)

EditsOne(q) == q.pc = "apply" /\ q.request.tool \in {"update_component", "delete_component"}

Fits(q) ==
    EditsOne(q) /\ q.uid = plan.uid /\ q.gen = plan.generation
    => \A c \in Components : c = q.request.component \/ q.want[c] = Current[c]

EditsFit == \A k \in Callers : NotAhead(call[k]) /\ Fits(call[k])

(* The names of the parts of the state that the argument uses. *)
SamePlan == plan'.uid = plan.uid /\ plan'.generation = plan.generation /\ plan'.spec = plan.spec

(* Whoever writes, a plan keeps its spec or becomes another uid or generation. *)
LEMMA PlanMovesOn ==
    ASSUME TypeOK, GateHolds, [ToolNext]_allVars
    PROVE  \/ SamePlan
           \/ plan'.uid = plan.uid + 1
           \/ plan'.uid = plan.uid /\ plan'.generation = plan.generation + 1
<1>1. ASSUME NEW k \in Callers, ToolStep(k)
      PROVE  \/ SamePlan
             \/ plan'.uid = plan.uid + 1
             \/ plan'.uid = plan.uid /\ plan'.generation = plan.generation + 1
  <2>1. ASSUME NEW s \in Specs, CreatePlan(s) PROVE plan'.uid = plan.uid + 1
    BY <2>1 DEF CreatePlan
  <2>2. ASSUME NEW s \in Specs, EditPlan(s)
        PROVE  plan'.uid = plan.uid /\ plan'.generation = plan.generation + 1
    BY <2>2 DEF EditPlan, TypeOK, PlanType
  <2>3. DeletePlan \/ UNCHANGED vars => SamePlan
    BY DEF DeletePlan, vars, SamePlan, TypeOK, PlanType
  <2> QED
    BY <1>1, <2>1, <2>2, <2>3, ToolWrites
<1>2. CASE ClusterStep
  <2>1. plan'.uid = plan.uid
    BY <1>2 DEF ClusterStep, ReconcileNext, StartReconcile, PruneFails, FinishReconcile,
                Observe, ReconcileApply, ReconcileApplyFails, Reconciled, Prune,
                SweepNext, StartSweep, FinishSweep, SweepAssess, SweepMisses,
                SweepReadFails, SweepHeal, SweepHealFails, Healed, SweepLocal,
                PlatformNext, OnDelete, Restart, Collect, Crash, Lose, ChangeHealth,
                TypeOK, PlanType
  <2> QED
    BY <1>2, <2>1, ClusterLeavesSpecs DEF SamePlan, TypeOK
<1>3. CASE UNCHANGED allVars
  BY <1>3 DEF allVars, vars, SamePlan
<1> QED
  BY <1>1, <1>2, <1>3 DEF ToolNext

(* A call that is left alone goes on fitting, or has fallen behind. *)
LEMMA FitKept ==
    ASSUME TypeOK, TypeOK', NEW q \in CallType, NotAhead(q), Fits(q),
           \/ SamePlan
           \/ plan'.uid = plan.uid + 1
           \/ plan'.uid = plan.uid /\ plan'.generation = plan.generation + 1
    PROVE  NotAhead(q)' /\ Fits(q)'
<1>1. /\ q.uid \in Nat /\ q.gen \in Nat /\ plan.uid \in Nat /\ plan.generation \in Nat
      /\ plan'.uid \in Nat /\ plan'.generation \in Nat
  BY DEF CallType, TypeOK, PlanType, Generations
<1>2. CASE SamePlan
  BY <1>2 DEF SamePlan, NotAhead, Fits, EditsOne, Current
<1>3. CASE plan'.uid = plan.uid + 1
  BY <1>1, <1>3 DEF NotAhead, Fits, EditsOne
<1>4. CASE plan'.uid = plan.uid /\ plan'.generation = plan.generation + 1
  BY <1>1, <1>4 DEF NotAhead, Fits, EditsOne
<1> QED
  BY <1>2, <1>3, <1>4

(* A call that has nothing in hand, or nothing of a plan's, fits any plan. *)
LEMMA BlankFits ==
    ASSUME TypeOK', NEW q, q.uid = 0, q.gen = 0, ~EditsOne(q)
    PROVE  NotAhead(q)' /\ Fits(q)'
  BY DEF NotAhead, Fits, EditsOne, TypeOK, PlanType, Generations

(* A call that moves on reads the plan as it is, or has nothing in hand. *)
LEMMA MoverFits ==
    ASSUME TypeOK, TypeOK', GateHolds, Placements, NEW k \in Callers, ToolStep(k),
           NEW q, q = call'[k]
    PROVE  NotAhead(q)' /\ Fits(q)'
<1>1. call \in [Callers -> CallType]
  BY DEF GateHolds
<1>2. CASE call' = [call EXCEPT ![k] = NoCall]
  <2>1. q = NoCall
    BY <1>1, <1>2
  <2> QED
    BY <2>1, BlankFits DEF NoCall, EditsOne
<1>3. CASE \E r \in Requests : Declare(k, r) /\ r.draft # None
  <2>1. PICK r \in Requests : Declare(k, r) /\ r.draft # None
    BY <1>3
  <2>2. q = [NoCall EXCEPT !.pc = "apply", !.want = Built(k, r.draft), !.request = r]
        \/ call' = [call EXCEPT ![k] = NoCall]
    BY <1>1, <2>1 DEF Declare, Answers
  <2>3. r.tool = "declare_plan"
    BY <2>1 DEF Declare
  <2> QED
    BY <1>2, <2>2, <2>3, BlankFits DEF NoCall, EditsOne
<1>4. CASE \E r \in Requests : Begin(k, r)
  <2>1. PICK r \in Requests : q = [NoCall EXCEPT !.pc = "read", !.request = r]
    BY <1>1, <1>4 DEF Begin
  <2> QED
    BY <2>1, BlankFits DEF NoCall, EditsOne
<1>5. ASSUME NEW pc \in {"stuck", "converging", "apply", "delete"}, NEW want,
             Continues(k, pc, want),
             pc = "apply" /\ call[k].request.tool \in {"update_component", "delete_component"}
             => \A c \in Components : c = call[k].request.component \/ want[c] = Current[c]
      PROVE  NotAhead(q)' /\ Fits(q)'
  <2>1. /\ q.uid = plan.uid /\ q.gen = plan.generation /\ q.want = want /\ q.pc = pc
        /\ q.request = call[k].request /\ plan' = plan
    BY <1>1, <1>5 DEF Continues, CallType, vars
  <2>2. plan.uid \in Nat /\ plan.generation \in Nat
    BY DEF TypeOK, PlanType, Generations
  <2> QED
    BY <1>5, <2>1, <2>2 DEF NotAhead, Fits, EditsOne, Current
<1>6. CASE ReadForUpdateComponent(k)
  <2> DEFINE r == call[k].request
  <2>1. Current \in AllSpecs /\ Settled(Current)
    BY <1>6 DEF ReadForUpdateComponent, GateHolds, Placements
  <2>2. ASSUME NEW c \in Components, c # r.component PROVE Merged(r)[c] = Current[c]
    BY <2>1, <2>2 DEF Merged, AllSpecs
  <2>3. \A c \in Components : c = r.component \/ Built(k, Merged(r))[c] = Current[c]
    BY <2>1, <2>2, SettledIsKept
  <2> QED
    BY <1>2, <1>5, <1>6, <2>3 DEF ReadForUpdateComponent, Answers
<1>7. CASE ReadForDeleteComponent(k)
  <2> DEFINE c == call[k].request.component
             want == [Current EXCEPT ![c] = None]
  <2>1. Current \in AllSpecs /\ Settled(Current)
    BY <1>7 DEF ReadForDeleteComponent, GateHolds, Placements
  <2>2. ASSUME NEW d \in Components, d # c PROVE want[d] = Current[d]
    BY <2>1, <2>2 DEF AllSpecs
  <2>3. ASSUME NEW d \in Components, d # c PROVE Built(k, want)[d] = Current[d]
    <3> HIDE DEF want
    <3> QED
      BY <2>1, <2>2, <2>3, SettledIsKept
  <2> QED
    BY <1>2, <1>5, <1>7, <2>3 DEF ReadForDeleteComponent, Answers
<1>8. CASE ReadForUpdatePlan(k) \/ ReadForDeletePlan(k)
  BY <1>2, <1>5, <1>8 DEF ReadForUpdatePlan, ReadForDeletePlan, Reads, Answers
<1>9. CASE ReadForStatus(k)
  BY <1>2, <1>5, <1>9 DEF ReadForStatus, Verdict, Answers
<1>10. CASE \/ ReadFails(k) \/ ReadNothing(k) \/ WriteFails(k) \/ EventsForStatus(k)
           \/ ApplyPlan(k) \/ RemovePlan(k)
           \/ \E r \in Requests : Declare(k, r) /\ r.draft = None
  BY <1>2, <1>10 DEF ReadFails, ReadNothing, WriteFails, EventsForStatus, ApplyPlan,
                     RemovePlan, Declare, Answers
<1> QED
  BY <1>3, <1>4, <1>6, <1>7, <1>8, <1>9, <1>10 DEF ToolStep

LEMMA PlacementsInductive == ToolSpec => [](IInv /\ GateHolds /\ Placements)
<1>1. ToolInit => Placements
  <2> SUFFICES ASSUME ToolInit PROVE Placements
    OBVIOUS
  <2>1. plan.life = "gone" /\ \A k \in Callers : call[k].pc = "idle"
    BY DEF ToolInit, Init, NoCall
  <2> QED
    BY <2>1 DEF Placements
<1>2. IInv => TypeOK
  BY DEF IInv
<1> QED
  BY <1>1, <1>2, PlacementsKept, ToolInductive, PTL DEF ToolSpec

LEMMA FitInductive == ToolSpec => [](IInv /\ GateHolds /\ EditsFit)
<1>1. ToolInit => EditsFit
  <2> SUFFICES ASSUME ToolInit, NEW k \in Callers PROVE NotAhead(call[k]) /\ Fits(call[k])
    BY DEF EditsFit
  <2>1. call[k] = NoCall /\ plan.uid = 0 /\ plan.generation = 0
    BY DEF ToolInit, Init
  <2> QED
    BY <2>1 DEF NotAhead, Fits, EditsOne, NoCall
<1>2. TypeOK /\ TypeOK' /\ GateHolds /\ Placements /\ EditsFit /\ [ToolNext]_allVars
      => EditsFit'
  <2> SUFFICES ASSUME TypeOK, TypeOK', GateHolds, Placements, EditsFit, [ToolNext]_allVars,
                      NEW j \in Callers
               PROVE  NotAhead(call[j])' /\ Fits(call[j])'
    BY DEF EditsFit
  <2>1. ASSUME NEW q, q = call[j], call'[j] = q PROVE NotAhead(call[j])' /\ Fits(call[j])'
    <3>1. q \in CallType /\ NotAhead(q) /\ Fits(q)
      BY <2>1 DEF GateHolds, EditsFit
    <3>2. NotAhead(q)' /\ Fits(q)'
      BY <3>1, FitKept, PlanMovesOn
    <3> QED
      BY <2>1, <3>2 DEF NotAhead, Fits, EditsOne
  <2>2. ASSUME NEW q, ToolStep(j), q = call'[j] PROVE NotAhead(call[j])' /\ Fits(call[j])'
    <3>1. NotAhead(q)' /\ Fits(q)'
      BY <2>2, MoverFits
    <3> QED
      BY <2>2, <3>1 DEF NotAhead, Fits, EditsOne
  <2>3. CASE \E k \in Callers : ToolStep(k)
    BY <2>1, <2>2, <2>3, OthersWait
  <2>4. CASE UNCHANGED toolVars
    BY <2>1, <2>4 DEF toolVars
  <2> QED
    BY <2>3, <2>4 DEF ToolNext, allVars
<1>3. IInv => TypeOK
  BY DEF IInv
<1> QED
  BY <1>1, <1>2, <1>3, PlacementsInductive, PTL DEF ToolSpec

(* An edit of one component that meets the plan as it was read leaves every other
   component alone, for any number of callers and any operator in between.    *)
THEOREM EditsAreLocal == ToolSpec => EditIsLocal
<1> DEFINE Local ==
      \A k \in Callers :
          /\ call[k].pc = "apply" /\ call'[k].pc = "idle" /\ plan' # plan
          /\ call[k].request.tool \in {"update_component", "delete_component"}
          /\ call[k].uid = plan.uid /\ call[k].gen = plan.generation
          => \A c \in Components :
                c = call[k].request.component \/ Current'[c] = Current[c]
<1>1. TypeOK /\ GateHolds /\ EditsFit /\ [ToolNext]_allVars => [Local]_allVars
  <2> SUFFICES ASSUME TypeOK, GateHolds, EditsFit, [ToolNext]_allVars, NEW k \in Callers,
                      call[k].pc = "apply", call'[k].pc = "idle", plan' # plan,
                      call[k].request.tool \in {"update_component", "delete_component"},
                      call[k].uid = plan.uid, call[k].gen = plan.generation
               PROVE  \A c \in Components :
                         c = call[k].request.component \/ Current'[c] = Current[c]
    OBVIOUS
  <2>1. ToolStep(k)
    BY OthersWait DEF ToolNext, toolVars, allVars
  <2>2. ApplyPlan(k)
    BY <2>1 DEF ToolStep, ReadFails, ReadNothing, ReadForUpdateComponent,
         ReadForUpdatePlan, ReadForDeleteComponent, ReadForDeletePlan, ReadForStatus, Reads,
         EventsForStatus, RemovePlan, WriteFails, Declare, Begin, Answers, vars
  <2>3. \A c \in Components : c = call[k].request.component \/ call[k].want[c] = Current[c]
    BY DEF EditsFit, Fits, EditsOne
  <2>4. Current' = call[k].want
    BY <2>2, SentIsCurrent
  <2> QED
    BY <2>3, <2>4
<1>2. IInv => TypeOK
  BY DEF IInv
<1> QED
  BY <1>1, <1>2, FitInductive, PTL DEF ToolSpec, EditIsLocal
-----------------------------------------------------------------------------
(* The invariant behind PollingIsSound: what a call was told of the plan's progress
   still is so of the plan it read.  Nobody takes observedGeneration back.      *)
Caught(q) ==
    /\ q.pc = "converging" /\ plan.life # "gone"
    /\ q.uid = plan.uid /\ q.gen = plan.generation
    => plan.status.observed = plan.generation

VerdictsHold == \A k \in Callers : Caught(call[k])

(* Under one uid a plan that is gone does not come back. *)
LEMMA GoneForGood ==
    ASSUME TypeOK, GateHolds, [ToolNext]_allVars, plan'.uid = plan.uid, plan'.life # "gone"
    PROVE  plan.life # "gone"
<1>1. ASSUME NEW k \in Callers, ToolStep(k) PROVE plan.life # "gone"
  <2>1. ASSUME NEW s \in Specs, CreatePlan(s) PROVE FALSE
    BY <2>1 DEF CreatePlan, TypeOK, PlanType
  <2>2. ASSUME NEW s \in Specs, EditPlan(s) PROVE plan.life # "gone"
    BY <2>2 DEF EditPlan
  <2>3. DeletePlan \/ UNCHANGED vars => plan.life # "gone"
    BY DEF DeletePlan, vars
  <2> QED
    BY <1>1, <2>1, <2>2, <2>3, ToolWrites
<1>2. CASE ClusterStep
  BY <1>2, ClusterLeavesSpecs DEF TypeOK
<1>3. CASE UNCHANGED allVars
  BY <1>3 DEF allVars, vars
<1> QED
  BY <1>1, <1>2, <1>3 DEF ToolNext

(* A verdict that waits for its events is kept by every other step. *)
LEMMA CaughtKept ==
    ASSUME IInv, IInv', GateHolds, [ToolNext]_allVars,
           NEW q \in CallType, NotAhead(q), Caught(q)
    PROVE  Caught(q)'
<1> SUFFICES ASSUME q.pc = "converging", plan'.life # "gone",
                    q.uid = plan'.uid, q.gen = plan'.generation
             PROVE  plan'.status.observed = plan'.generation
  BY DEF Caught
<1>1. TypeOK /\ TypeOK'
  BY DEF IInv
<1>2. /\ q.uid \in Nat /\ q.gen \in Nat /\ plan.uid \in Nat /\ plan.generation \in Nat
      /\ plan'.generation \in Nat /\ plan'.status.observed \in Nat
      /\ plan.status.observed \in Nat
  BY <1>1 DEF CallType, TypeOK, PlanType, Generations
<1>3. SamePlan
  BY <1>1, <1>2, PlanMovesOn DEF NotAhead
<1>4. plan.status.observed = plan.generation
  BY <1>1, <1>3, GoneForGood DEF SamePlan, Caught
<1>5. plan'.status.observed >= plan.status.observed
  BY <1>2, <1>3, StepImplements, ObservedStep DEF SamePlan, vars
<1>6. plan'.status.observed <= plan'.generation
  BY DEF IInv, ViewsAgree
<1> QED
  BY <1>2, <1>3, <1>4, <1>5, <1>6 DEF SamePlan

(* A call gets its verdict of the plan as it is. *)
LEMMA VerdictIsCaught ==
    ASSUME IInv, GateHolds, NEW k \in Callers, ToolStep(k), NEW q, q = call'[k]
    PROVE  Caught(q)'
<1> SUFFICES ASSUME q.pc = "converging" PROVE Caught(q)'
  BY DEF Caught
<1>1. call \in [Callers -> CallType]
  BY DEF GateHolds
<1>2. call' # [call EXCEPT ![k] = NoCall]
  BY <1>1 DEF NoCall
<1>3. ASSUME NEW pc, NEW want, Continues(k, pc, want) PROVE pc = "converging"
  BY <1>1, <1>3 DEF Continues, CallType
<1>4. ReadForStatus(k)
  BY <1>1, <1>2, <1>3 DEF ToolStep, ReadFails, ReadNothing, ReadForUpdateComponent,
         ReadForUpdatePlan, ReadForDeleteComponent, ReadForDeletePlan, EventsForStatus,
         ApplyPlan, RemovePlan, WriteFails, Declare, Begin, Answers, NoCall
<1>5. Verdict = "converging" /\ plan' = plan
  BY <1>2, <1>3, <1>4 DEF ReadForStatus, Answers, Continues, vars
<1>6. plan.status.observed = plan.generation
  <2>1. ~Behind
    BY <1>5 DEF Verdict
  <2> QED
    BY <2>1 DEF Behind, IInv, ViewsAgree, TypeOK, PlanType, Generations
<1> QED
  BY <1>5, <1>6 DEF Caught

(* Only get_plan_status sends an agent on polling, by the verdict it has. *)
LEMMA PollingIsAnswered ==
    ASSUME GateHolds, NEW k \in Callers, [ToolNext]_allVars,
           answer[k] # "converging", answer'[k] = "converging"
    PROVE  call[k].pc = "converging" /\ UNCHANGED vars
<1>1. answer \in [Callers -> AnswerType]
  BY DEF GateHolds
<1>2. ASSUME NEW j \in Callers, NEW a, answer' = [answer EXCEPT ![j] = a]
      PROVE  j = k /\ a = "converging"
  BY <1>1, <1>2
<1>3. PICK j \in Callers : ToolStep(j)
  BY DEF ToolNext, toolVars, allVars
<1>4. ASSUME NEW a, Answers(j, a) PROVE j = k /\ a = "converging"
  BY <1>2, <1>4 DEF Answers
<1>5. ~Unanswered(j) /\ answer' # answer
  BY <1>2 DEF Unanswered
<1>6. ~ReadFails(j) /\ ~ReadNothing(j) /\ ~WriteFails(j)
  BY <1>4 DEF ReadFails, ReadNothing, WriteFails
<1>7. ~ReadForUpdateComponent(j) /\ ~ReadForUpdatePlan(j)
  BY <1>4, <1>5 DEF ReadForUpdateComponent, ReadForUpdatePlan, Continues
<1>8. ~ReadForDeleteComponent(j) /\ ~ReadForDeletePlan(j)
  BY <1>4, <1>5 DEF ReadForDeleteComponent, ReadForDeletePlan, Continues
<1>9. ~ApplyPlan(j) /\ ~RemovePlan(j)
  BY <1>2 DEF ApplyPlan, RemovePlan
<1>10. ASSUME NEW r \in Requests PROVE ~Declare(j, r) /\ ~Begin(j, r)
  BY <1>4, <1>5 DEF Declare, Begin
<1>11. ~ReadForStatus(j)
  BY <1>4, <1>5 DEF ReadForStatus, Continues
<1>12. PICK warned \in BOOLEAN : Answers(j, IF warned THEN "stuck" ELSE call[j].pc)
  BY <1>3, <1>6, <1>7, <1>8, <1>9, <1>10, <1>11 DEF ToolStep, EventsForStatus
<1> QED
  BY <1>4, <1>12 DEF Answers

(* get_plan_status says "poll again" only of a plan whose current generation has
   been reconciled, or that is not the plan any more that the call has read - for
   any handlers, sweeps, crashes and other calls between its requests.        *)
THEOREM PollingIsAlwaysSound == ToolSpec => PollingIsSound
<1> DEFINE Sound ==
      \A k \in Callers :
          /\ answer[k] # "converging" /\ answer'[k] = "converging"
          /\ plan.life # "gone"
          /\ call[k].uid = plan.uid /\ call[k].gen = plan.generation
          => plan.status.observed = plan.generation
<1>1. ToolInit => VerdictsHold
  <2> SUFFICES ASSUME ToolInit, NEW k \in Callers PROVE Caught(call[k])
    BY DEF VerdictsHold
  <2> QED
    BY DEF ToolInit, NoCall, Caught
<1>2. IInv /\ IInv' /\ GateHolds /\ EditsFit /\ VerdictsHold /\ [ToolNext]_allVars
      => VerdictsHold'
  <2> SUFFICES ASSUME IInv, IInv', GateHolds, EditsFit, VerdictsHold, [ToolNext]_allVars,
                      NEW j \in Callers
               PROVE  Caught(call[j])'
    BY DEF VerdictsHold
  <2>1. ASSUME NEW q, q = call[j], call'[j] = q PROVE Caught(call[j])'
    <3>1. q \in CallType /\ NotAhead(q) /\ Caught(q)
      BY <2>1 DEF GateHolds, EditsFit, VerdictsHold
    <3>2. Caught(q)'
      BY <3>1, CaughtKept
    <3> QED
      BY <2>1, <3>2 DEF Caught
  <2>2. ASSUME NEW q, ToolStep(j), q = call'[j] PROVE Caught(call[j])'
    <3>1. Caught(q)'
      BY <2>2, VerdictIsCaught
    <3> QED
      BY <2>2, <3>1 DEF Caught
  <2>3. CASE \E k \in Callers : ToolStep(k)
    BY <2>1, <2>2, <2>3, OthersWait
  <2>4. CASE UNCHANGED toolVars
    BY <2>1, <2>4 DEF toolVars
  <2> QED
    BY <2>3, <2>4 DEF ToolNext, allVars
<1>3. GateHolds /\ VerdictsHold /\ [ToolNext]_allVars => [Sound]_allVars
  BY PollingIsAnswered DEF VerdictsHold, Caught
<1> QED
  BY <1>1, <1>2, <1>3, FitInductive, PTL DEF ToolSpec, PollingIsSound
=============================================================================
