---------------------------- MODULE ThreadServer ----------------------------
(* The backend as the chat page sees it (ui/backend/main.py, thread_store.py,
   stream.py): the registry of threads, the head checkpoint of each, and one
   turn that streams events over a thread's response.

   The agent run is coarser than in StreamTurn: here the model speaks in the
   chunks of a script, and what matters is which events they become, what is
   committed when, and what the response has brought so far.                  *)
EXTENDS EventFold

CONSTANTS
    Threads,        \* thread ids
    Scripts,        \* what a message of the model may be: its chunks
    MaxWire         \* bound: events of a response that are not yet read

CallIds == (Threads \X Nat \X Indexes) \cup {None}

(* What a checkpoint may hold. *)
MessageTypes ==
    [role : {"human"}, id : {"user"} \X Nat, content : Seq(Strings)]
    \cup [role : {"ai"}, id : Nat, parts : Seq(PartType), calls : Seq(CallType(CallIds))]
    \cup [role : {"tool"}, id : CallIds, content : Seq(Strings)]

(* The name of a call comes with its id (event_helpers.py: later deltas carry
   the index alone).                                                          *)
ASSUME ServerAssumption ==
    /\ None \notin Strings \cup (Threads \X Nat \X Indexes) /\ "history" \notin Threads
    /\ \A s \in Scripts :
          /\ s \in Seq(ChunkType({"new", None})) /\ s # <<>>
          /\ \A k \in DOMAIN s : \A tc \in Range(s[k].calls) : tc.name # None => tc.id # None

VARIABLES
    registry,       \* threads in the registry, newest first
    log,            \* messages of the head checkpoint
    pending,        \* the interrupt of the head checkpoint, or None
    todos,          \* the todos of the head checkpoint: the call that set them
    turn,           \* the agent run and the generator of each thread
    wire            \* events of the response that the page has not read

serverVars == <<registry, log, pending, todos, turn, wire>>

NoTurn == [pc |-> "none", run |-> 0, at |-> 0, ids |-> [i \in Indexes |-> None],
           said |-> None, rest |-> <<>>, answer |-> None, out |-> FALSE]

(* What earlier sessions have left in Redis. *)
ServerInit(earlier) ==
    /\ registry = earlier.registry /\ log = earlier.log /\ pending = earlier.pending
    /\ todos = [t \in Threads |-> 0]
    /\ turn = [t \in Threads |-> [NoTurn EXCEPT !.run = Len(log[t]), !.at = Len(log[t])]]
    /\ wire = [t \in Threads |-> <<>>]

-----------------------------------------------------------------------------
(* create_thread, and the two steps of delete_thread.  The registry is a sorted
   set of ids: no id is in it twice.                                          *)
Register(t) == registry' = <<t>> \o registry

Unregister(t) == registry' = RemoveFirst(registry, t)

Forget(t) ==
    /\ log' = [log EXCEPT ![t] = <<>>] /\ pending' = [pending EXCEPT ![t] = None]
    /\ todos' = [todos EXCEPT ![t] = 0]

(* sse_event_stream: a question that waits takes the message as its answer and
   the tools run again, otherwise the message is one of the user.             *)
Begin(t, message) ==
    /\ turn[t].pc = "none"
    /\ turn' = [turn EXCEPT ![t] = [NoTurn EXCEPT !.run = turn[t].run + 1, !.at = turn[t].at,
                   !.pc = IF pending[t] = None THEN "agent" ELSE "tools",
                   !.answer = IF pending[t] = None THEN None ELSE message.content]]
    /\ log' = IF pending[t] # None THEN log
              ELSE [log EXCEPT ![t] = Append(@, [role |-> "human", id |-> <<"user", turn[t].run>>,
                                                 content |-> message.content])]
    /\ UNCHANGED <<registry, pending, todos, wire>>

Room(t) == Len(wire[t]) < MaxWire

(* What a provider accepts: every call is answered. *)
Sendable(t) ==
    \A k \in DOMAIN log[t] : (log[t][k].role = "ai" /\ log[t][k].calls # <<>>) =>
        k < Len(log[t]) /\ log[t][k + 1].role = "tool"

(* partial_ai + data: parts are appended; a delta of a call adds to the call with
   its index, or begins another.                                              *)
Merged(calls, tc) ==
    IF \E k \in DOMAIN calls : calls[k].index = tc.index
    THEN [k \in DOMAIN calls |->
             IF calls[k].index # tc.index THEN calls[k]
             ELSE [calls[k] EXCEPT !.id = IF @ = None THEN tc.id ELSE @,
                                   !.name = IF @ = None THEN tc.name ELSE @,
                                   !.args = @ \o tc.args]]
    ELSE Append(calls, tc)

WithChunk(message, chunk) ==
    [message EXCEPT !.parts = @ \o chunk.parts, !.calls = FoldLeft(Merged, @, chunk.calls)]

Blank(at) == [role |-> "ai", id |-> at, parts |-> <<>>, calls |-> <<>>]

(* The next chunk comes, which is part of the message that is now said. *)
Says(t, now) ==
    LET new == ChunkEvents(Head(now.rest), <<t, now.run>>, now.ids)
    IN  /\ Room(t)
        /\ turn' = [turn EXCEPT ![t] = [now EXCEPT !.rest = Tail(@), !.ids = new.ids,
                                                   !.said = WithChunk(@, Head(now.rest))]]
        /\ wire' = [wire EXCEPT ![t] = @ \o new.events]
        /\ UNCHANGED <<registry, log, pending, todos>>

(* The calls of a script get their ids from the provider. *)
Worded(script, t, at) ==
    LET Call(tc) == [tc EXCEPT !.id = IF tc.id = None THEN None ELSE <<t, at, tc.index>>]
    IN  [k \in DOMAIN script |->
            [script[k] EXCEPT !.calls = [j \in DOMAIN script[k].calls |-> Call(script[k].calls[j])]]]

Speak(t, script) ==
    LET at == turn[t].at + 1
    IN  /\ turn[t].pc = "agent" /\ Sendable(t)
        /\ Says(t, [turn[t] EXCEPT !.pc = "saying", !.at = at, !.said = Blank(at),
                                   !.rest = Worded(script, t, at)])

ChunkArrives(t) == turn[t].pc = "saying" /\ turn[t].rest # <<>> /\ Says(t, turn[t])

MessageCommits(t) ==
    LET m == turn[t].said
    IN  /\ turn[t].pc = "saying" /\ turn[t].rest = <<>>
        /\ log' = [log EXCEPT ![t] = Append(@, m)]
        /\ turn' = [turn EXCEPT ![t].pc = IF m.calls = <<>> THEN "closed" ELSE "tools",
                                ![t].out = FALSE]
        /\ UNCHANGED <<registry, pending, todos, wire>>

Calls(t) == Last(log[t]).calls

Named(t, name) == {k \in DOMAIN Calls(t) : Calls(t)[k].name = name}

(* bash writes its output to the stream while it runs. *)
ToolPrints(t) ==
    /\ turn[t].pc = "tools" /\ ~turn[t].out /\ Room(t)
    /\ \E k \in Named(t, "bash") :
          wire' = [wire EXCEPT ![t] = @ \o ChunkEvents(
                      [role |-> "tool", id |-> Calls(t)[k].id, content |-> <<"out">>],
                      turn[t].run, turn[t].ids).events]
    /\ turn' = [turn EXCEPT ![t].out = TRUE]
    /\ UNCHANGED <<registry, log, pending, todos>>

Reply(t, k, content) == [role |-> "tool", id |-> Calls(t)[k].id, content |-> content]

ToolsEnd(t) ==
    /\ turn[t].pc = "tools" /\ (Named(t, "bash") # {} => turn[t].out)
    /\ IF Named(t, "Ask") # {} /\ turn[t].answer = None
       THEN /\ pending' = [pending EXCEPT ![t] = turn[t].at]
            /\ turn' = [turn EXCEPT ![t].pc = "closed"]
            /\ UNCHANGED <<log, todos>>
       ELSE /\ log' = [log EXCEPT ![t] = @ \o [k \in DOMAIN Calls(t) |-> Reply(t, k,
                  IF Calls(t)[k].name = "Ask" THEN turn[t].answer
                  ELSE IF Calls(t)[k].name = "bash" THEN <<"out">> ELSE <<"done">>)]]
            /\ todos' = [todos EXCEPT ![t] = IF Named(t, "Todos") # {} THEN turn[t].at ELSE @]
            /\ pending' = [pending EXCEPT ![t] = None]
            /\ turn' = [turn EXCEPT ![t].pc = "agent", ![t].answer = None]
    /\ UNCHANGED <<registry, wire>>
-----------------------------------------------------------------------------
Marker == <<"INTERRUPTED">>

(* _patch_state_after_interrupt.  What the chunks add up to keeps the calls it has
   (tool_calls stay when tool_call_chunks is emptied), and may be a message that is
   already in the checkpoint; the same id replaces it.                        *)
Patched(t) ==
    LET Marked(m) == [m EXCEPT !.parts = Append(@, [type |-> "text", text |-> Marker])]
        partial == Marked(turn[t].said)
        there == SelectInSeq(log[t], LAMBDA m : m.role = "ai" /\ m.id = turn[t].at)
        whole == log[t] # <<>> /\ Last(log[t]).role = "ai"
    IN  IF whole /\ Calls(t) # <<>>
        THEN log[t] \o [k \in DOMAIN Calls(t) |-> Reply(t, k, Marker)]
        ELSE IF whole THEN [log[t] EXCEPT ![Len(log[t])] = Marked(Blank(@.id))]
        ELSE IF turn[t].said = None THEN Append(log[t], Marked(Blank(turn[t].at + 1)))
        ELSE IF there # 0 THEN [log[t] EXCEPT ![there] = partial]
        ELSE Append(log[t], partial)

(* The signal reaches a turn whose end the generator has not seen yet: the run is
   stopped, the checkpoint repaired, and the last event says so.              *)
Cut(t) ==
    /\ turn[t].pc \in {"agent", "saying", "tools", "closed"}
    /\ log' = [log EXCEPT ![t] = Patched(t)]
    /\ pending' = [pending EXCEPT ![t] = None]
    /\ turn' = [turn EXCEPT ![t].pc = "cut", ![t].at = @ + 1]
    /\ wire' = [wire EXCEPT ![t] = Append(@, Event(<<"interrupt", t>>, "ai", "notification", Marker))]
    /\ UNCHANGED <<registry, todos>>

(* The model fails, or refuses the messages: the response breaks off. *)
Fails(t) ==
    /\ turn[t].pc \in {"agent", "saying"}
    /\ turn' = [turn EXCEPT ![t].pc = "broken"]
    /\ UNCHANGED <<registry, log, pending, todos, wire>>

Refuses(t) == ~Sendable(t) /\ turn[t].pc = "agent" /\ Fails(t)

ServerStep(t) ==
    ChunkArrives(t) \/ MessageCommits(t) \/ ToolPrints(t) \/ ToolsEnd(t) \/ Refuses(t)
=============================================================================
