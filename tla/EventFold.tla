----------------------------- MODULE EventFold -----------------------------
(* From chunks and persisted messages to what the chat shows
   (ui/backend/event_helpers.py, stream.py, ui/frontend/src/stream).

   A turn reaches the chat twice: live, as the events of its chunks, and after a
   reload as the events of the messages that were persisted.  Both are folded by
   the same function.  Text and arguments are sequences of tokens; parsing part
   of a call's arguments gives the tokens there are.                          *)
EXTENDS Naturals, Sequences, SequencesExt

CONSTANTS
    Indexes,        \* positions of the tool calls of one message
    None

(* STRING, with those of its members named that the modules use. *)
Strings ==
    STRING \cup {"reasoning", "text", "hello", "answer", "out", "done", "INTERRUPTED",
                 "Todos", "Write", "Edit"}

(* Parts of a message and tool calls; a delta of a call is a part of one. *)
PartType == [type : Strings, text : Seq(Strings)]

CallType(ids) == [index : Indexes, id : ids, name : Strings \cup {None}, args : Seq(Strings)]

ChunkType(ids) == [role : {"ai"}, parts : Seq(PartType), calls : Seq(CallType(ids))]

Event(id, role, type, content) ==
    [id |-> id, role |-> role, type |-> type, content |-> content]

(* Reasoning and text parts; empty ones and all other types are dropped. *)
ContentEvents(parts, run) ==
    FoldLeft(LAMBDA acc, p :
                 IF p.type \in {"reasoning", "text"} /\ p.text # <<>>
                 THEN Append(acc, Event(run, "ai", p.type, p.text)) ELSE acc,
             <<>>, parts)

(* Mutant: the first id seen at an index stays there for the whole turn. *)
FirstIdStays(ids, tc) ==
    IF tc.id # None /\ ids[tc.index] = None THEN [ids EXCEPT ![tc.index] = tc.id] ELSE ids

(* tc_index_to_id: follow-up deltas of a call carry only its index. *)
Learns(ids, tc) == IF tc.id # None THEN [ids EXCEPT ![tc.index] = tc.id] ELSE ids

(* The deltas of tool calls; one that says nothing new is dropped. *)
CallChunkEvents(deltas, run, ids) ==
    FoldLeft(LAMBDA acc, tc :
                 LET known == Learns(acc.ids, tc)
                     id == IF tc.id # None THEN tc.id ELSE known[tc.index]
                 IN  [ids |-> known,
                      events |-> IF id = None \/ (tc.name = None /\ tc.args = <<>>) THEN acc.events
                                 ELSE Append(acc.events, Event(run, "ai", "tool_call",
                                        [id |-> id, name |-> tc.name, args |-> tc.args, delta |-> TRUE]))],
             [ids |-> ids, events |-> <<>>], deltas)

(* chunk_to_events: the events of one chunk, and the index map after it. *)
ChunkEvents(chunk, run, ids) ==
    IF chunk.role = "tool"
    THEN [ids |-> ids,
          events |-> IF chunk.content = <<>> THEN <<>>
                     ELSE <<Event(chunk.id, "tool_result", "tool_result", chunk.content)>>]
    ELSE LET calls == CallChunkEvents(chunk.calls, run, ids)
         IN  [ids |-> calls.ids, events |-> ContentEvents(chunk.parts, run) \o calls.events]

CallEvents(calls, run) ==
    [k \in DOMAIN calls |-> Event(run, "ai", "tool_call",
        [id |-> calls[k].id, name |-> calls[k].name, args |-> calls[k].args, delta |-> FALSE])]

(* messages_to_events: every human message begins a new run. *)
HistoryEvents(messages) ==
    FoldLeft(LAMBDA acc, m :
                 CASE m.role = "human" ->
                        [run |-> acc.run + 1,
                         events |-> Append(acc.events, Event(m.id, "human", "text", m.content))]
                   [] m.role = "ai" ->
                        [acc EXCEPT !.events = @ \o ContentEvents(m.parts, <<"history", acc.run>>)
                                                 \o CallEvents(m.calls, <<"history", acc.run>>)]
                   [] m.role = "tool" ->
                        [acc EXCEPT !.events = Append(@, Event(m.id, "tool_result", "tool_result", m.content))],
             [run |-> 0, events |-> <<>>], messages).events
-----------------------------------------------------------------------------
(* accumulate: the messages so far and the raw arguments of every call. *)
Place(messages, type, id) ==
    SelectInSeq(messages, LAMBDA msg : msg.type = type /\ msg.id = id)

(* Reasoning and text extend the last block if it is of their type. *)
WithText(blocks, type, text) ==
    IF blocks # <<>> /\ Last(blocks).type = type
    THEN [blocks EXCEPT ![Len(blocks)].text = @ \o text]
    ELSE Append(blocks, [type |-> type, text |-> text])

(* A call extends the block with its id, wherever that is. *)
WithCall(blocks, call, args) ==
    LET at == SelectInSeq(blocks, LAMBDA b : b.type = "tool_call" /\ b.id = call.id)
        there == IF at = 0 THEN Append(blocks, [type |-> "tool_call", id |-> call.id,
                                                name |-> None, args |-> <<>>])
                 ELSE blocks
        k == IF at = 0 THEN Len(there) ELSE at
    IN  [there EXCEPT ![k].name = IF @ = None THEN call.name ELSE @, ![k].args = args]

Result(messages, ev) ==
    LET at == Place(messages, "tool", ev.id)
    IN  IF at # 0 THEN [messages EXCEPT ![at].content = @ \o ev.content]
        ELSE Append(messages, [type |-> "tool", id |-> ev.id, content |-> ev.content])

Folded(acc, ev) ==
    LET at == Place(acc.messages, "ai", ev.id)
        there == IF at # 0 THEN acc.messages
                 ELSE Append(acc.messages, [type |-> "ai", id |-> ev.id, blocks |-> <<>>])
        k == IF at # 0 THEN at ELSE Len(there)
        raw == IF ev.content.id \in DOMAIN acc.raw THEN acc.raw[ev.content.id] ELSE <<>>
        args == IF ev.content.delta THEN raw \o ev.content.args ELSE ev.content.args
    IN  CASE ev.role = "human" ->
               [acc EXCEPT !.messages = Append(@, [type |-> "human", id |-> ev.id, content |-> ev.content])]
          [] ev.role = "tool_result" -> [acc EXCEPT !.messages = Result(@, ev)]
          [] ev.role = "ai" /\ ev.type \in {"reasoning", "text"} ->
               [acc EXCEPT !.messages = [there EXCEPT ![k].blocks = WithText(@, ev.type, ev.content)]]
          [] ev.role = "ai" /\ ev.type = "tool_call" ->
               [messages |-> [there EXCEPT ![k].blocks = WithCall(@, ev.content, args)],
                raw |-> IF ev.content.delta THEN (ev.content.id :> args) @@ acc.raw ELSE acc.raw]
          [] OTHER -> [acc EXCEPT !.messages = there]

Accumulate(events) == FoldLeft(Folded, [messages |-> <<>>, raw |-> <<>>], events).messages
=============================================================================
