----------------------------- MODULE StreamTurn -----------------------------
(* The turns of one chat thread (ui/backend/stream.py, ui/backend/pubsub.py).

   A request opens a turn: sse_event_stream looks at the head checkpoint, starts
   a producer task that runs the agent and a listener task that waits for an
   interrupt on the thread's Redis channel, and forwards what the producer
   queues.  On an interrupt it cancels the producer and repairs the checkpoint.
   The client may go away, and the agent, Redis or a tool may fail, at any step.

   The agent graph, the checkpointer and Redis pub/sub are external.  A step of
   the graph commits its messages at once, and a cancelled step commits nothing.
   One turn of the thread streams at a time; a second one, from another tab or
   after switching threads and back, is left out.                              *)
EXTENDS Integers, Sequences

CONSTANTS
    Kinds,          \* what requests carry: "text" or "answers" to a question
    MaxTurns,       \* bound on requests
    MaxMessages,    \* bound on the messages the model adds
    MaxFaults,      \* bound on failed steps: agent, tool, Redis
    MaxLeaves,      \* bound on clients that go away, or crashes of the backend
    None

ASSUME StreamAssumption ==
    /\ Kinds \subseteq {"text", "answers"}
    /\ MaxTurns \in Nat /\ MaxMessages \in Nat
    /\ MaxFaults \in Nat /\ MaxLeaves \in Nat

VARIABLES
    msgs,       \* messages of the head checkpoint, a message's id is its index
    question,   \* an Ask of the head checkpoint waits for its answer
    turn,       \* turns so far
    stream,     \* the generator: what it is at, the request, what it accumulates
    producer,   \* where the agent run of the turn is
    listener,   \* listen_for_interrupt
    outcome,    \* how the last turn ended
    left,       \* messages whose calls a turn left open when it ended early
    budget      \* what may still go wrong

vars == <<msgs, question, turn, stream, producer, listener, outcome, left, budget>>

(* A message of turn t; calls: it calls tools, or is the results of calls. *)
Message(role, calls, form) ==
    [role |-> role, turn |-> turn, calls |-> calls, form |-> form]

NoStream == [pc |-> "idle", kind |-> None, resume |-> FALSE, partial |-> None]

Last == msgs[Len(msgs)]

(* The last message has calls that no tool message answers yet. *)
OpenCalls == Len(msgs) > 0 /\ Last.role = "ai" /\ Last.calls

Unanswered(i) ==
    /\ msgs[i].role = "ai" /\ msgs[i].calls
    /\ i < Len(msgs) => msgs[i + 1].role # "tool"

(* What a provider accepts: each call answered, no answers map for content. *)
Sendable ==
    \A i \in DOMAIN msgs : ~Unanswered(i) /\ msgs[i].form # "answers"

Init ==
    /\ msgs = <<>> /\ question = FALSE /\ turn = 0
    /\ stream = NoStream /\ producer = "none" /\ listener = "off"
    /\ outcome = "none" /\ left = {}
    /\ budget = [faults |-> MaxFaults, leaves |-> MaxLeaves]

(* Mutant: what the chunks add up to outlives the turn. *)
EndsKeepingPartial(how) ==
    /\ stream' = [NoStream EXCEPT !.partial = stream.partial]
    /\ producer' = "none" /\ listener' = "off" /\ outcome' = how
    /\ left' = IF how \in {"failed", "gone"} /\ OpenCalls /\ ~question
               THEN left \cup {Len(msgs)} ELSE left
    /\ UNCHANGED turn

(* Mutant: the listener is not cancelled. *)
EndsListening(how) ==
    /\ stream' = NoStream /\ producer' = "none" /\ outcome' = how
    /\ left' = IF how \in {"failed", "gone"} /\ OpenCalls /\ ~question
               THEN left \cup {Len(msgs)} ELSE left
    /\ UNCHANGED <<turn, listener>>

(* The turn is over; the finally clause cancels whatever task still runs. *)
Ends(how) ==
    /\ stream' = NoStream /\ producer' = "none" /\ listener' = "off"
    /\ outcome' = how
    /\ left' = IF how \in {"failed", "gone"} /\ OpenCalls /\ ~question
               THEN left \cup {Len(msgs)} ELSE left
    /\ UNCHANGED turn

Fault == budget.faults > 0 /\ budget' = [budget EXCEPT !.faults = @ - 1]
-----------------------------------------------------------------------------
Open(kind) ==
    /\ stream.pc = "idle" /\ turn < MaxTurns
    /\ turn' = turn + 1 /\ outcome' = "none"
    /\ stream' = [stream EXCEPT !.pc = "opening", !.kind = kind]
    /\ UNCHANGED <<msgs, question, producer, listener, left, budget>>

(* Mutant: pending interrupts are not looked for. *)
LookBlind ==
    /\ stream.pc = "opening"
    /\ stream' = [stream EXCEPT !.pc = "running"]
    /\ producer' = "input" /\ listener' = "joining"
    /\ UNCHANGED <<msgs, question, turn, outcome, left, budget>>

(* get_latest_snapshot, then both tasks are created. *)
Look ==
    /\ stream.pc = "opening"
    /\ stream' = [stream EXCEPT !.pc = "running", !.resume = question]
    /\ producer' = "input" /\ listener' = "joining"
    /\ UNCHANGED <<msgs, question, turn, outcome, left, budget>>

LookFails ==
    /\ stream.pc = "opening" /\ Fault
    /\ Ends("failed")
    /\ UNCHANGED <<msgs, question>>
-----------------------------------------------------------------------------
(* The agent run, in the producer task. *)
RunVars == <<turn, stream, listener, outcome, left, budget>>

(* Command(resume=...) runs the tools again; other input is a message. *)
TakeInput ==
    /\ producer = "input"
    /\ \/ /\ stream.resume
          /\ producer' = "tools" /\ UNCHANGED <<msgs, question>>
       \/ /\ ~stream.resume
          /\ msgs' = Append(msgs, Message("human", FALSE, stream.kind))
          /\ question' = FALSE /\ producer' = "model"
    /\ UNCHANGED RunVars

(* A chunk of the model's answer: the first one, or one with a tool call. *)
Chunk ==
    /\ producer = "model" /\ Sendable /\ Len(msgs) < MaxMessages
    /\ \E calls \in BOOLEAN :
          /\ stream.partial = [at |-> Len(msgs) + 1, calls |-> FALSE] => calls
          /\ stream.partial # [at |-> Len(msgs) + 1, calls |-> TRUE]
          /\ stream' = [stream EXCEPT !.partial = [at |-> Len(msgs) + 1, calls |-> calls]]
    /\ UNCHANGED <<msgs, question, turn, producer, listener, outcome, left, budget>>

(* The answer is complete; the router ends the run or goes to the tools. *)
Answer ==
    /\ producer = "model" /\ stream.partial # None
    /\ stream.partial.at = Len(msgs) + 1
    /\ msgs' = Append(msgs, Message("ai", stream.partial.calls, "whole"))
    /\ producer' = IF stream.partial.calls THEN "tools" ELSE "done"
    /\ UNCHANGED question /\ UNCHANGED RunVars

RunTools ==
    /\ producer = "tools"
    /\ \/ /\ msgs' = Append(msgs, Message("tool", TRUE, "result"))
          /\ question' = FALSE /\ producer' = "model"
       \/ /\ question' = TRUE /\ producer' = "done"
          /\ UNCHANGED msgs
    /\ UNCHANGED RunVars

(* The provider refuses the messages, or a step raises. *)
RunFails ==
    /\ \/ producer = "model" /\ ~Sendable /\ UNCHANGED budget
       \/ producer = "model" /\ Len(msgs) >= MaxMessages /\ UNCHANGED budget
       \/ producer \in {"input", "model", "tools"} /\ Fault
    /\ producer' = "failed"
    /\ UNCHANGED <<msgs, question, turn, stream, listener, outcome, left>>
-----------------------------------------------------------------------------
(* The listener task.  A message published before the subscription is lost. *)
Subscribe ==
    /\ listener = "joining" /\ listener' = "listening"
    /\ UNCHANGED <<msgs, question, turn, stream, producer, outcome, left, budget>>

publish_interrupt ==
    /\ listener = "listening" /\ listener' = "signalled"
    /\ UNCHANGED <<msgs, question, turn, stream, producer, outcome, left, budget>>

ListenerFails ==
    /\ listener \in {"joining", "listening"} /\ Fault
    /\ listener' = "broken"
    /\ UNCHANGED <<msgs, question, turn, stream, producer, outcome, left>>

(* Done: returned, or raised - the generator does not tell them apart. *)
Heard == listener \in {"signalled", "broken"}
-----------------------------------------------------------------------------
(* The generator.  It has seen the sentinel: the run is over. *)
Finish ==
    /\ stream.pc = "running" /\ producer = "done" /\ ~Heard
    /\ Ends("completed")
    /\ UNCHANGED <<msgs, question, budget>>

(* Mutant: whatever the producer raised is suppressed. *)
FailureSwallowed ==
    /\ stream.pc = "running" /\ producer = "failed"
    /\ Ends("completed")
    /\ UNCHANGED <<msgs, question, budget>>

(* await producer raises what the run has raised, interrupted or not. *)
FinishFailed ==
    /\ stream.pc = "running" /\ producer = "failed"
    /\ Ends("failed")
    /\ UNCHANGED <<msgs, question, budget>>

(* Mutant: a tool that is running is waited for. *)
CutBetweenSteps ==
    /\ stream.pc = "running" /\ Heard /\ producer \notin {"failed", "tools"}
    /\ stream' = [stream EXCEPT !.pc = "cut"] /\ producer' = "none"
    /\ UNCHANGED <<msgs, question, turn, listener, outcome, left, budget>>

(* The listener is done: cancel the producer, wherever it is. *)
Cut ==
    /\ stream.pc = "running" /\ Heard /\ producer # "failed"
    /\ stream' = [stream EXCEPT !.pc = "cut"] /\ producer' = "none"
    /\ UNCHANGED <<msgs, question, turn, listener, outcome, left, budget>>

(* Mutant: only the text is repaired. *)
RepairedTextOnly ==
    IF Len(msgs) > 0 /\ Last.role = "ai"
    THEN [msgs EXCEPT ![Len(msgs)].form = "marker"]
    ELSE Append(msgs, Message("ai", FALSE, "marker"))

(* _patch_state_after_interrupt.  The partial message is written under its id:
   tool_call_chunks is emptied, tool_calls are what the chunks have made them. *)
Repaired ==
    LET partial == stream.partial
    IN  IF OpenCalls
        THEN Append(msgs, Message("tool", TRUE, "interrupted"))
        ELSE IF Len(msgs) > 0 /\ Last.role = "ai"
        THEN [msgs EXCEPT ![Len(msgs)].form = "marker"]
        ELSE IF partial # None /\ partial.at \in DOMAIN msgs
        THEN [msgs EXCEPT ![partial.at].form = "part"]
        ELSE IF partial # None
        THEN Append(msgs, Message("ai", partial.calls, "part"))
        ELSE Append(msgs, Message("ai", FALSE, "marker"))

Patch ==
    /\ stream.pc = "cut"
    /\ msgs' = Repaired /\ question' = FALSE
    /\ Ends("interrupted")
    /\ UNCHANGED budget

PatchFails ==
    /\ stream.pc = "cut" /\ Fault
    /\ Ends("failed")
    /\ UNCHANGED <<msgs, question>>

(* The client goes away, or the backend dies: nothing is repaired. *)
Leave ==
    /\ stream.pc # "idle" /\ budget.leaves > 0
    /\ budget' = [budget EXCEPT !.leaves = @ - 1]
    /\ Ends("gone")
    /\ UNCHANGED <<msgs, question>>
-----------------------------------------------------------------------------
Run == TakeInput \/ Chunk \/ Answer \/ RunTools \/ RunFails

Consume == Finish \/ FinishFailed \/ Cut \/ Patch \/ PatchFails

Next ==
    \/ \E kind \in Kinds : Open(kind)
    \/ Look \/ LookFails \/ Run \/ Consume \/ Leave
    \/ Subscribe \/ publish_interrupt \/ ListenerFails

Spec == Init /\ [][Next]_vars

(* The event loop runs the generator; the agent run may hang for ever. *)
FairSpec == Spec /\ WF_vars(Consume)
-----------------------------------------------------------------------------
MessageType ==
    [role : {"human", "ai", "tool"}, turn : 1 .. MaxTurns, calls : BOOLEAN,
     form : {"text", "answers", "whole", "part", "marker", "result", "interrupted"}]

PartialType == [at : Nat \ {0}, calls : BOOLEAN]

StreamType ==
    [pc : {"idle", "opening", "running", "cut"}, kind : Kinds \cup {None},
     resume : BOOLEAN, partial : PartialType \cup {None}]

BudgetType == [faults : 0 .. MaxFaults, leaves : 0 .. MaxLeaves]

(* Every variable keeps its shape, and no task outlives its turn: the producer
   runs only under a running stream, the listener only under an open one.     *)
StreamTypeOK ==
    /\ msgs \in Seq(MessageType) /\ question \in BOOLEAN
    /\ turn \in 0 .. MaxTurns /\ stream \in StreamType
    /\ producer \in {"none", "input", "model", "tools", "done", "failed"}
    /\ listener \in {"off", "joining", "listening", "signalled", "broken"}
    /\ outcome \in {"none", "completed", "failed", "interrupted", "gone"}
    /\ left \subseteq 1 .. Len(msgs)
    /\ budget \in BudgetType
    /\ stream.pc # "idle" => stream.kind \in Kinds
    /\ stream.pc # "running" => producer = "none"
    /\ stream.pc \in {"idle", "opening"} => listener = "off"

(* _patch_state_after_interrupt: "Orphan tool_calls on the last AI message would
   400 the next turn, so we satisfy them".  Calls stay unanswered only while the
   tools run or ask, in a message that was cut off, or where a turn ended with no
   chance to repair it: an interrupt at any other moment leaves none behind.   *)
CallsAnswered ==
    \A i \in DOMAIN msgs : Unanswered(i) =>
        \/ i \in left \/ msgs[i].form = "part"
        \/ i = Len(msgs) /\ (question \/ producer \in {"tools", "failed"} \/ stream.pc = "cut")

(* The same without the exception of messages cut off: "drop tool_call_chunks so
   malformed calls don't break the next turn".                                *)
CutCallsAnswered ==
    \A i \in DOMAIN msgs : Unanswered(i) =>
        \/ i \in left
        \/ i = Len(msgs) /\ (question \/ producer \in {"tools", "failed"} \/ stream.pc = "cut")

(* A turn leaves the messages of earlier turns alone, the repair's same-id writes
   included - unless it is cut before the user's message has been committed.   *)
EarlierTurnsKept ==
    [][\A i \in DOMAIN msgs :
          msgs[i].turn < turn /\ (\E j \in DOMAIN msgs : msgs[j].turn = turn)
          => Len(msgs') >= i /\ msgs'[i] = msgs[i]]_vars

(* "finding pending interrupts before starting the producer": a question the user
   has been asked is not dropped.  The next messages are its results, from the
   answer or from an interrupt, whatever turns failed or went away meanwhile.  *)
QuestionNotSkipped ==
    [][question /\ ~question'
          => Len(msgs') = Len(msgs) + 1 /\ msgs'[Len(msgs')].role = "tool"]_vars

(* A turn whose stream closes in the regular way has ended with an answer or with
   a question, never in the middle.                                           *)
CompletedIsAnswered ==
    [][outcome # "completed" /\ outcome' = "completed" =>
          \/ question'
          \/ /\ Len(msgs) > 0
             /\ Last.role = "ai" /\ Last.form = "whole" /\ ~Last.calls]_vars

(* interrupt_thread: "Signal the active stream for this thread to stop."  Once the
   signal is heard the turn ends, even if the model or a tool never returns.   *)
InterruptStops == (listener = "signalled") ~> (stream.pc = "idle")
-----------------------------------------------------------------------------
(* The inductive invariant behind the safety properties, in parts. *)

(* The request resumes exactly if a question waits, until the run takes it. *)
ResumeIsDue ==
    /\ producer = "input" => stream.resume = question
    /\ producer = "model" => ~question

(* Questions and running tools belong to the calls of the last message. *)
CallsAreLast ==
    question \/ producer = "tools" => OpenCalls

(* Messages are in the order of their turns. *)
TurnsInOrder ==
    /\ stream.pc # "idle" => turn >= 1
    /\ \A i \in DOMAIN msgs : msgs[i].turn <= turn
    /\ \A i, j \in DOMAIN msgs : i <= j => msgs[i].turn <= msgs[j].turn

(* What has been accumulated is a message of this turn or the one to come. *)
PartialIsOwn ==
    stream.partial # None =>
        /\ stream.pc \in {"running", "cut"}
        /\ stream.partial.at \in 1 .. Len(msgs) + 1
        /\ stream.partial.at \in DOMAIN msgs => msgs[stream.partial.at].turn = turn

DoneIsAnswered ==
    producer = "done" =>
        \/ question
        \/ /\ Len(msgs) > 0
           /\ Last.role = "ai" /\ Last.form = "whole" /\ ~Last.calls

StreamInv ==
    /\ StreamTypeOK /\ CallsAnswered /\ ResumeIsDue /\ CallsAreLast
    /\ TurnsInOrder /\ PartialIsOwn /\ DoneIsAnswered
=============================================================================
