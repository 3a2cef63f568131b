-------------------------- MODULE StreamTurnProofs --------------------------
(* Proofs about StreamTurn for every number of turns, messages, failures and
   clients that go away.                                                      *)
EXTENDS StreamTurn, TLAPS

USE StreamAssumption

Parts == {"text", "answers", "whole", "part", "marker", "result", "interrupted"}

(* What appending a message does to the sequence. *)
LEMMA AppendFacts ==
    ASSUME msgs \in Seq(MessageType), NEW m \in MessageType,
           msgs' = Append(msgs, m)
    PROVE  /\ msgs' \in Seq(MessageType)
           /\ Len(msgs) \in Nat /\ Len(msgs') = Len(msgs) + 1
           /\ DOMAIN msgs = 1 .. Len(msgs) /\ DOMAIN msgs' = 1 .. Len(msgs) + 1
           /\ \A i \in 1 .. Len(msgs) : msgs'[i] = msgs[i]
           /\ msgs'[Len(msgs) + 1] = m
  OBVIOUS

(* A message of the turn under way has the shape of a message. *)
LEMMA MessageTyped ==
    ASSUME StreamInv, stream.pc # "idle", NEW calls \in BOOLEAN,
           NEW role \in {"human", "ai", "tool"}, NEW form \in Parts
    PROVE  /\ Message(role, calls, form) \in MessageType
           /\ Message(role, calls, form).role = role
           /\ Message(role, calls, form).calls = calls
           /\ Message(role, calls, form).form = form
           /\ Message(role, calls, form).turn = turn
  BY DEF StreamInv, StreamTypeOK, TurnsInOrder, Message, MessageType, Parts

LEMMA InitStreamInv == Init => StreamInv
<1> SUFFICES ASSUME Init PROVE StreamInv
  OBVIOUS
<1> USE DEF Init
<1>1. msgs \in Seq(MessageType) /\ DOMAIN msgs = {} /\ Len(msgs) = 0
  OBVIOUS
<1>2. stream \in StreamType /\ stream.pc = "idle" /\ stream.partial = None
  BY DEF NoStream, StreamType
<1>3. turn \in 0 .. MaxTurns /\ budget \in BudgetType
  BY DEF BudgetType, StreamAssumption
<1>4. StreamTypeOK
  BY <1>1, <1>2, <1>3 DEF StreamTypeOK
<1>5. CallsAnswered /\ TurnsInOrder
  BY <1>1, <1>2 DEF CallsAnswered, TurnsInOrder
<1>6. ResumeIsDue /\ CallsAreLast /\ PartialIsOwn /\ DoneIsAnswered
  BY <1>2 DEF ResumeIsDue, CallsAreLast, PartialIsOwn, DoneIsAnswered
<1> QED
  BY <1>4, <1>5, <1>6 DEF StreamInv

LEMMA OpenInv == ASSUME StreamInv, NEW kind \in Kinds, Open(kind) PROVE StreamInv'
<1> USE DEF StreamInv, StreamTypeOK, Open
<1>1. stream' \in StreamType /\ stream'.pc = "opening" /\ stream'.partial = stream.partial
  BY DEF StreamType
<1>2. turn \in Nat /\ turn' = turn + 1 /\ turn' \in 0 .. MaxTurns
  BY DEF StreamAssumption
<1>3. StreamTypeOK'
  BY <1>1, <1>2
<1>4. CallsAnswered'
  BY <1>1 DEF CallsAnswered, Unanswered
<1>5. ResumeIsDue' /\ CallsAreLast' /\ PartialIsOwn' /\ DoneIsAnswered'
  BY <1>1 DEF ResumeIsDue, CallsAreLast, OpenCalls, Last, PartialIsOwn, DoneIsAnswered
<1>6. \A i \in DOMAIN msgs : msgs[i].turn \in Int
  <2>1. \A i \in DOMAIN msgs : msgs[i] \in MessageType
    OBVIOUS
  <2> QED
    BY <2>1 DEF MessageType
<1>7. TurnsInOrder'
  BY <1>2, <1>6 DEF TurnsInOrder
<1> QED
  BY <1>3, <1>4, <1>5, <1>7

LEMMA LookInv == ASSUME StreamInv, Look PROVE StreamInv'
<1> USE DEF StreamInv, StreamTypeOK, Look
<1>1. /\ stream' \in StreamType /\ stream'.pc = "running"
      /\ stream'.resume = question /\ stream'.partial = stream.partial
  BY DEF StreamType
<1>2. StreamTypeOK'
  BY <1>1
<1>3. CallsAnswered' /\ ResumeIsDue' /\ CallsAreLast' /\ TurnsInOrder'
  BY <1>1 DEF CallsAnswered, Unanswered, ResumeIsDue, CallsAreLast, OpenCalls, Last,
              TurnsInOrder
<1>4. PartialIsOwn' /\ DoneIsAnswered'
  BY <1>1 DEF PartialIsOwn, DoneIsAnswered
<1> QED
  BY <1>2, <1>3, <1>4

(* However a turn ends, its messages stay accounted for. *)
LEMMA EndsInv ==
    ASSUME StreamInv, NEW how \in {"completed", "failed", "gone"}, Ends(how),
           UNCHANGED <<msgs, question>>, OpenCalls /\ how = "completed" => question,
           budget' \in BudgetType
    PROVE  StreamInv'
<1> USE DEF StreamInv, StreamTypeOK, Ends
<1>1. /\ stream' \in StreamType /\ stream'.pc = "idle" /\ stream'.partial = None
      /\ stream'.resume = FALSE
  BY DEF NoStream, StreamType
<1>2. Len(msgs) \in Nat /\ (OpenCalls => Len(msgs) \in 1 .. Len(msgs))
  BY DEF OpenCalls
<1>3. left' \subseteq 1 .. Len(msgs) /\ left \subseteq left'
  BY <1>2
<1>4. StreamTypeOK'
  BY <1>1, <1>3
<1>5. CallsAnswered'
  <2> SUFFICES ASSUME NEW i \in DOMAIN msgs, Unanswered(i)
               PROVE  \/ i \in left' \/ msgs[i].form = "part"
                      \/ i = Len(msgs) /\ question
    BY DEF CallsAnswered, Unanswered
  <2>1. CASE i # Len(msgs)
    BY <2>1, <1>3 DEF CallsAnswered
  <2>2. CASE i = Len(msgs)
    BY <2>2, <1>2 DEF Unanswered, OpenCalls, Last
  <2> QED
    BY <2>1, <2>2
<1>6. ResumeIsDue' /\ PartialIsOwn' /\ DoneIsAnswered' /\ TurnsInOrder'
  BY <1>1 DEF ResumeIsDue, PartialIsOwn, DoneIsAnswered, TurnsInOrder
<1>7. CallsAreLast'
  BY DEF CallsAreLast, OpenCalls, Last
<1> QED
  BY <1>4, <1>5, <1>6, <1>7

(* A message added in turn keeps the messages in order and the calls answered. *)
LEMMA AppendInv ==
    ASSUME StreamInv, stream.pc # "idle",
           NEW role \in {"human", "ai", "tool"}, NEW calls \in BOOLEAN, NEW form \in Parts,
           msgs' = Append(msgs, Message(role, calls, form)),
           UNCHANGED <<turn, left>>,
           role # "tool" /\ OpenCalls => Len(msgs) \in left \/ Last.form = "part",
           role = "ai" /\ calls =>
               form = "part" \/ question' \/ producer' \in {"tools", "failed"}
    PROVE  /\ msgs' \in Seq(MessageType) /\ left' \subseteq 1 .. Len(msgs')
           /\ Len(msgs) \in Nat /\ Len(msgs') = Len(msgs) + 1
           /\ DOMAIN msgs = 1 .. Len(msgs) /\ DOMAIN msgs' = 1 .. Len(msgs) + 1
           /\ \A i \in DOMAIN msgs : msgs'[i] = msgs[i]
           /\ Last'.role = role /\ Last'.calls = calls /\ Last'.form = form
           /\ Last'.turn = turn
           /\ CallsAnswered' /\ TurnsInOrder'
<1> DEFINE m == Message(role, calls, form)
<1>1. /\ m \in MessageType /\ m.role = role /\ m.calls = calls /\ m.form = form
      /\ m.turn = turn
  BY MessageTyped
<1> HIDE DEF m
<1>2. /\ msgs' \in Seq(MessageType)
      /\ Len(msgs) \in Nat /\ Len(msgs') = Len(msgs) + 1
      /\ DOMAIN msgs = 1 .. Len(msgs) /\ DOMAIN msgs' = 1 .. Len(msgs) + 1
      /\ \A i \in 1 .. Len(msgs) : msgs'[i] = msgs[i]
      /\ msgs'[Len(msgs) + 1] = m
  BY <1>1, AppendFacts DEF StreamInv, StreamTypeOK, m
<1>3. Last' = m
  BY <1>2 DEF Last
<1>4. left' \subseteq 1 .. Len(msgs')
  BY <1>2 DEF StreamInv, StreamTypeOK
<1>5. CallsAnswered'
  <2> SUFFICES ASSUME NEW i \in DOMAIN msgs', Unanswered(i)'
               PROVE  \/ i \in left' \/ msgs'[i].form = "part"
                      \/ i = Len(msgs') /\ (question' \/ producer' \in {"tools", "failed"})
    BY DEF CallsAnswered
  <2>1. CASE i = Len(msgs) + 1
    BY <2>1, <1>1, <1>2 DEF Unanswered
  <2>2. CASE i = Len(msgs)
    BY <2>2, <1>1, <1>2 DEF Unanswered, OpenCalls, Last
  <2>3. CASE i < Len(msgs)
    <3>1. i \in DOMAIN msgs /\ i + 1 \in DOMAIN msgs /\ Unanswered(i)
      BY <2>3, <1>2 DEF Unanswered
    <3> QED
      BY <3>1, <2>3, <1>2 DEF StreamInv, CallsAnswered
  <2> QED
    BY <2>1, <2>2, <2>3, <1>2
<1>6. TurnsInOrder'
  <2>1. turn \in Int /\ \A i \in DOMAIN msgs : msgs[i].turn <= turn
    BY DEF StreamInv, StreamTypeOK, TurnsInOrder
  <2>2. \A i \in DOMAIN msgs' : msgs'[i].turn <= turn'
    BY <2>1, <1>1, <1>2
  <2>3. ASSUME NEW i \in DOMAIN msgs', NEW j \in DOMAIN msgs', i <= j
        PROVE  msgs'[i].turn <= msgs'[j].turn
    <3>1. CASE j \in DOMAIN msgs
      BY <2>3, <3>1, <1>2 DEF StreamInv, TurnsInOrder
    <3>2. CASE j = Len(msgs) + 1
      BY <2>2, <3>2, <1>1, <1>2
    <3> QED
      BY <3>1, <3>2, <1>2
  <2>4. stream'.pc # "idle" => turn' >= 1
    BY DEF StreamInv, TurnsInOrder
  <2> QED
    BY <2>2, <2>3, <2>4 DEF TurnsInOrder
<1> QED
  BY <1>1, <1>2, <1>3, <1>4, <1>5, <1>6

(* The messages stay; what else a step changes fits. *)
LEMMA StayInv ==
    ASSUME StreamInv, UNCHANGED <<msgs, turn, left>>, stream.pc # "idle",
           OpenCalls => \/ Len(msgs) \in left \/ Last.form = "part"
                        \/ question' \/ producer' \in {"tools", "failed"}
                        \/ stream'.pc = "cut"
    PROVE  CallsAnswered' /\ TurnsInOrder'
<1>1. CallsAnswered'
  <2> SUFFICES ASSUME NEW i \in DOMAIN msgs, Unanswered(i)
               PROVE  \/ i \in left \/ msgs[i].form = "part"
                      \/ i = Len(msgs) /\ (\/ question' \/ producer' \in {"tools", "failed"}
                                           \/ stream'.pc = "cut")
    BY DEF CallsAnswered, Unanswered
  <2>1. Len(msgs) \in Nat /\ i \in 1 .. Len(msgs)
    BY DEF StreamInv, StreamTypeOK
  <2>2. CASE i # Len(msgs)
    BY <2>2 DEF StreamInv, CallsAnswered
  <2>3. CASE i = Len(msgs)
    BY <2>1, <2>3 DEF Unanswered, OpenCalls, Last
  <2> QED
    BY <2>2, <2>3
<1>2. TurnsInOrder'
  BY DEF StreamInv, TurnsInOrder
<1> QED
  BY <1>1, <1>2

(* A call still open is explained by what CallsAnswered says of the last message. *)
LEMMA OpenExplained ==
    ASSUME StreamInv, OpenCalls
    PROVE  \/ Len(msgs) \in left \/ Last.form = "part"
           \/ question \/ producer \in {"tools", "failed"} \/ stream.pc = "cut"
<1>1. Len(msgs) \in DOMAIN msgs
  BY DEF StreamInv, StreamTypeOK, OpenCalls
<1>2. Unanswered(Len(msgs))
  BY <1>1 DEF Unanswered, OpenCalls, Last, StreamInv, StreamTypeOK
<1> QED
  BY <1>1, <1>2 DEF StreamInv, CallsAnswered, Last

LEMMA TakeInputInv == ASSUME StreamInv, TakeInput PROVE StreamInv'
<1>1. /\ stream.pc = "running" /\ stream.resume = question
      /\ UNCHANGED <<turn, stream, listener, outcome, left, budget>>
      /\ producer' \in {"tools", "model"} /\ producer = "input"
  BY DEF TakeInput, RunVars, StreamInv, StreamTypeOK, ResumeIsDue
<1>2. CASE stream.resume
  <2>1. UNCHANGED <<msgs, question>> /\ producer' = "tools" /\ question
    BY <1>1, <1>2 DEF TakeInput
  <2>2. CallsAnswered' /\ TurnsInOrder'
    BY <1>1, <2>1, StayInv
  <2>3. StreamTypeOK'
    BY <1>1, <2>1 DEF StreamInv, StreamTypeOK
  <2>4. ResumeIsDue' /\ CallsAreLast' /\ PartialIsOwn' /\ DoneIsAnswered'
    BY <1>1, <2>1 DEF StreamInv, ResumeIsDue, CallsAreLast, OpenCalls, Last, PartialIsOwn,
                      DoneIsAnswered
  <2> QED
    BY <2>2, <2>3, <2>4 DEF StreamInv
<1>3. CASE ~stream.resume
  <2>1. /\ msgs' = Append(msgs, Message("human", FALSE, stream.kind))
        /\ question' = FALSE /\ producer' = "model" /\ ~question
    BY <1>1, <1>3 DEF TakeInput
  <2>2. stream.kind \in Parts
    BY <1>1 DEF StreamInv, StreamTypeOK, StreamType, Parts, StreamAssumption
  <2>3. OpenCalls => Len(msgs) \in left \/ Last.form = "part"
    BY <1>1, <2>1, OpenExplained
  <2>4. /\ msgs' \in Seq(MessageType) /\ left' \subseteq 1 .. Len(msgs')
        /\ Len(msgs) \in Nat /\ Len(msgs') = Len(msgs) + 1
        /\ DOMAIN msgs = 1 .. Len(msgs) /\ DOMAIN msgs' = 1 .. Len(msgs) + 1
        /\ \A i \in DOMAIN msgs : msgs'[i] = msgs[i]
        /\ Last'.role = "human" /\ Last'.turn = turn
        /\ CallsAnswered' /\ TurnsInOrder'
    BY <1>1, <2>1, <2>2, <2>3, AppendInv
  <2>5. StreamTypeOK'
    BY <1>1, <2>1, <2>4 DEF StreamInv, StreamTypeOK
  <2>6. ResumeIsDue' /\ CallsAreLast' /\ DoneIsAnswered'
    BY <1>1, <2>1 DEF ResumeIsDue, CallsAreLast, DoneIsAnswered
  <2>7. PartialIsOwn'
    BY <1>1, <2>4 DEF StreamInv, PartialIsOwn, Last
  <2> QED
    BY <2>4, <2>5, <2>6, <2>7 DEF StreamInv
<1> QED
  BY <1>2, <1>3

LEMMA ChunkInv == ASSUME StreamInv, Chunk PROVE StreamInv'
<1>1. /\ producer = "model" /\ stream.pc = "running" /\ Len(msgs) \in Nat
      /\ UNCHANGED <<msgs, question, turn, producer, listener, outcome, left, budget>>
      /\ DOMAIN msgs = 1 .. Len(msgs)
  BY DEF Chunk, StreamInv, StreamTypeOK
<1>2. PICK calls \in BOOLEAN :
         stream' = [stream EXCEPT !.partial = [at |-> Len(msgs) + 1, calls |-> calls]]
  BY DEF Chunk
<1>3. /\ stream' \in StreamType /\ stream'.pc = "running" /\ stream'.kind = stream.kind
      /\ stream'.partial.at = Len(msgs) + 1
  BY <1>1, <1>2 DEF StreamInv, StreamTypeOK, StreamType, PartialType
<1>4. StreamTypeOK'
  BY <1>1, <1>3 DEF StreamInv, StreamTypeOK
<1>5. OpenCalls => Len(msgs) \in left \/ Last.form = "part" \/ question
  BY <1>1, OpenExplained
<1>6. CallsAnswered' /\ TurnsInOrder'
  BY <1>1, <1>5, StayInv
<1>7. ResumeIsDue' /\ CallsAreLast' /\ DoneIsAnswered'
  BY <1>1 DEF StreamInv, ResumeIsDue, CallsAreLast, OpenCalls, Last, DoneIsAnswered
<1>8. PartialIsOwn'
  BY <1>1, <1>3 DEF PartialIsOwn
<1> QED
  BY <1>4, <1>6, <1>7, <1>8 DEF StreamInv

LEMMA AnswerInv == ASSUME StreamInv, Answer PROVE StreamInv'
<1>1. /\ producer = "model" /\ stream.pc = "running" /\ ~question
      /\ UNCHANGED <<question, turn, stream, listener, outcome, left, budget>>
      /\ stream.partial # None /\ stream.partial.at = Len(msgs) + 1
      /\ msgs' = Append(msgs, Message("ai", stream.partial.calls, "whole"))
      /\ producer' = IF stream.partial.calls THEN "tools" ELSE "done"
  BY DEF Answer, RunVars, StreamInv, StreamTypeOK, ResumeIsDue
<1>2. stream.partial.calls \in BOOLEAN
  BY <1>1 DEF StreamInv, StreamTypeOK, StreamType, PartialType
<1>3. OpenCalls => Len(msgs) \in left \/ Last.form = "part"
  BY <1>1, OpenExplained
<1>4. "whole" \in Parts
  BY DEF Parts
<1>5. /\ msgs' \in Seq(MessageType) /\ left' \subseteq 1 .. Len(msgs')
      /\ Len(msgs) \in Nat /\ Len(msgs') = Len(msgs) + 1
      /\ DOMAIN msgs = 1 .. Len(msgs) /\ DOMAIN msgs' = 1 .. Len(msgs) + 1
      /\ \A i \in DOMAIN msgs : msgs'[i] = msgs[i]
      /\ Last'.role = "ai" /\ Last'.calls = stream.partial.calls
      /\ Last'.form = "whole" /\ Last'.turn = turn
      /\ CallsAnswered' /\ TurnsInOrder'
  BY <1>1, <1>2, <1>3, <1>4, AppendInv
<1>6. StreamTypeOK'
  BY <1>1, <1>5 DEF StreamInv, StreamTypeOK
<1>7. ResumeIsDue' /\ CallsAreLast' /\ DoneIsAnswered'
  BY <1>1, <1>2, <1>5 DEF ResumeIsDue, CallsAreLast, OpenCalls, DoneIsAnswered
<1>8. PartialIsOwn'
  BY <1>1, <1>5 DEF StreamInv, PartialIsOwn, Last
<1> QED
  BY <1>5, <1>6, <1>7, <1>8 DEF StreamInv

LEMMA RunToolsInv == ASSUME StreamInv, RunTools PROVE StreamInv'
<1>1. /\ producer = "tools" /\ stream.pc = "running" /\ OpenCalls
      /\ UNCHANGED <<turn, stream, listener, outcome, left, budget>>
  BY DEF RunTools, RunVars, StreamInv, StreamTypeOK, CallsAreLast
<1>2. CASE /\ msgs' = Append(msgs, Message("tool", TRUE, "result"))
           /\ question' = FALSE /\ producer' = "model"
  <2>1. "result" \in Parts
    BY DEF Parts
  <2>2. /\ msgs' \in Seq(MessageType) /\ left' \subseteq 1 .. Len(msgs')
        /\ Len(msgs) \in Nat /\ Len(msgs') = Len(msgs) + 1
        /\ DOMAIN msgs = 1 .. Len(msgs) /\ DOMAIN msgs' = 1 .. Len(msgs) + 1
        /\ \A i \in DOMAIN msgs : msgs'[i] = msgs[i]
        /\ Last'.turn = turn
        /\ CallsAnswered' /\ TurnsInOrder'
    BY <1>1, <1>2, <2>1, AppendInv
  <2>3. StreamTypeOK'
    BY <1>1, <1>2, <2>2 DEF StreamInv, StreamTypeOK
  <2>4. ResumeIsDue' /\ CallsAreLast' /\ DoneIsAnswered'
    BY <1>1, <1>2 DEF ResumeIsDue, CallsAreLast, DoneIsAnswered
  <2>5. PartialIsOwn'
    BY <1>1, <2>2 DEF StreamInv, PartialIsOwn, Last
  <2> QED
    BY <2>2, <2>3, <2>4, <2>5 DEF StreamInv
<1>3. CASE question' = TRUE /\ producer' = "done" /\ UNCHANGED msgs
  <2>1. CallsAnswered' /\ TurnsInOrder'
    BY <1>1, <1>3, StayInv
  <2>2. StreamTypeOK'
    BY <1>1, <1>3 DEF StreamInv, StreamTypeOK
  <2>3. ResumeIsDue' /\ CallsAreLast' /\ DoneIsAnswered' /\ PartialIsOwn'
    BY <1>1, <1>3 DEF StreamInv, ResumeIsDue, CallsAreLast, OpenCalls, Last,
                      DoneIsAnswered, PartialIsOwn
  <2> QED
    BY <2>1, <2>2, <2>3 DEF StreamInv
<1> QED
  BY <1>2, <1>3 DEF RunTools

LEMMA FaultTyped == ASSUME StreamInv, Fault PROVE budget' \in BudgetType
  BY DEF StreamInv, StreamTypeOK, Fault, BudgetType, StreamAssumption

LEMMA RunFailsInv == ASSUME StreamInv, RunFails PROVE StreamInv'
<1>1. /\ producer \in {"input", "model", "tools"} /\ stream.pc = "running"
      /\ producer' = "failed"
      /\ UNCHANGED <<msgs, question, turn, stream, listener, outcome, left>>
  BY DEF RunFails, StreamInv, StreamTypeOK
<1>2. budget' \in BudgetType
  BY FaultTyped DEF RunFails, StreamInv, StreamTypeOK
<1>3. StreamTypeOK'
  BY <1>1, <1>2 DEF StreamInv, StreamTypeOK
<1>4. CallsAnswered' /\ TurnsInOrder'
  BY <1>1, StayInv
<1>5. ResumeIsDue' /\ CallsAreLast' /\ DoneIsAnswered' /\ PartialIsOwn'
  BY <1>1 DEF StreamInv, ResumeIsDue, CallsAreLast, OpenCalls, Last, DoneIsAnswered,
              PartialIsOwn
<1> QED
  BY <1>3, <1>4, <1>5 DEF StreamInv

(* The listener's steps touch nothing else, but for the budget. *)
LEMMA ListenerInv ==
    ASSUME StreamInv, Subscribe \/ publish_interrupt \/ ListenerFails
    PROVE  StreamInv'
<1>1. /\ UNCHANGED <<msgs, question, turn, stream, producer, outcome, left>>
      /\ listener' \in {"listening", "signalled", "broken"}
      /\ stream.pc \notin {"idle", "opening"}
  BY DEF Subscribe, publish_interrupt, ListenerFails, StreamInv, StreamTypeOK
<1>2. budget' \in BudgetType
  BY FaultTyped DEF Subscribe, publish_interrupt, ListenerFails, StreamInv, StreamTypeOK
<1>3. StreamTypeOK'
  BY <1>1, <1>2 DEF StreamInv, StreamTypeOK
<1>4. CallsAnswered' /\ TurnsInOrder'
  BY <1>1, StayInv, OpenExplained
<1>5. ResumeIsDue' /\ CallsAreLast' /\ DoneIsAnswered' /\ PartialIsOwn'
  BY <1>1 DEF StreamInv, ResumeIsDue, CallsAreLast, OpenCalls, Last, DoneIsAnswered,
              PartialIsOwn
<1> QED
  BY <1>3, <1>4, <1>5 DEF StreamInv

LEMMA CutInv == ASSUME StreamInv, Cut PROVE StreamInv'
<1>1. /\ UNCHANGED <<msgs, question, turn, listener, outcome, left, budget>>
      /\ stream.pc = "running" /\ stream' = [stream EXCEPT !.pc = "cut"]
      /\ producer' = "none"
  BY DEF Cut
<1>2. /\ stream' \in StreamType /\ stream'.pc = "cut" /\ stream'.kind = stream.kind
      /\ stream'.partial = stream.partial
  BY <1>1 DEF StreamInv, StreamTypeOK, StreamType
<1>3. StreamTypeOK'
  BY <1>1, <1>2 DEF StreamInv, StreamTypeOK
<1>4. CallsAnswered' /\ TurnsInOrder'
  BY <1>1, <1>2, StayInv
<1>5. ResumeIsDue' /\ CallsAreLast' /\ DoneIsAnswered' /\ PartialIsOwn'
  BY <1>1, <1>2 DEF StreamInv, ResumeIsDue, CallsAreLast, OpenCalls, Last,
                    DoneIsAnswered, PartialIsOwn
<1> QED
  BY <1>3, <1>4, <1>5 DEF StreamInv

(* The repair adds one message, or marks the last one when it calls nothing, or
   marks one of this turn.                                                    *)
LEMMA RepairCases ==
    ASSUME StreamInv, Patch
    PROVE  \/ \E role \in {"ai", "tool"}, calls \in BOOLEAN, form \in Parts :
                 /\ msgs' = Append(msgs, Message(role, calls, form))
                 /\ role = "tool" <=> OpenCalls
                 /\ role = "ai" /\ calls => form = "part"
           \/ /\ msgs' = [msgs EXCEPT ![Len(msgs)].form = "marker"]
              /\ Len(msgs) \in DOMAIN msgs /\ Last.role = "ai" /\ ~Last.calls
           \/ /\ stream.partial # None /\ stream.partial.at \in DOMAIN msgs
              /\ msgs' = [msgs EXCEPT ![stream.partial.at].form = "part"]
              /\ ~OpenCalls
<1>1. msgs' = Repaired /\ Len(msgs) \in Nat
  BY DEF Patch, StreamInv, StreamTypeOK
<1>2. CASE OpenCalls
  BY <1>1, <1>2 DEF Repaired, Parts
<1>3. CASE ~OpenCalls /\ Len(msgs) > 0 /\ Last.role = "ai"
  <2>1. msgs' = [msgs EXCEPT ![Len(msgs)].form = "marker"]
    BY <1>1, <1>3 DEF Repaired
  <2>2. ~Last.calls
    BY <1>3 DEF OpenCalls
  <2>3. Len(msgs) \in DOMAIN msgs
    BY <1>1, <1>3 DEF StreamInv, StreamTypeOK
  <2> QED
    BY <1>3, <2>1, <2>2, <2>3
<1>4. CASE ~OpenCalls /\ ~(Len(msgs) > 0 /\ Last.role = "ai")
  <2>1. CASE stream.partial # None /\ stream.partial.at \in DOMAIN msgs
    BY <1>1, <1>4, <2>1 DEF Repaired
  <2>2. CASE stream.partial # None /\ stream.partial.at \notin DOMAIN msgs
    <3>1. stream.partial.calls \in BOOLEAN
      BY <2>2 DEF StreamInv, StreamTypeOK, StreamType, PartialType
    <3> QED
      BY <1>1, <1>4, <2>2, <3>1 DEF Repaired, Parts
  <2>3. CASE stream.partial = None
    BY <1>1, <1>4, <2>3 DEF Repaired, Parts
  <2> QED
    BY <2>1, <2>2, <2>3
<1> QED
  BY <1>2, <1>3, <1>4

(* Marking a message keeps everything else about it. *)
LEMMA MarkFacts ==
    ASSUME msgs \in Seq(MessageType), NEW k \in DOMAIN msgs, NEW form \in Parts,
           msgs' = [msgs EXCEPT ![k].form = form]
    PROVE  /\ msgs' \in Seq(MessageType)
           /\ Len(msgs') = Len(msgs) /\ DOMAIN msgs' = DOMAIN msgs
           /\ DOMAIN msgs = 1 .. Len(msgs) /\ Len(msgs) \in Nat
           /\ \A i \in DOMAIN msgs : /\ msgs'[i].role = msgs[i].role
                                     /\ msgs'[i].calls = msgs[i].calls
                                     /\ msgs'[i].turn = msgs[i].turn
                                     /\ i # k => msgs'[i] = msgs[i]
           /\ msgs'[k].form = form
<1>1. /\ DOMAIN msgs = 1 .. Len(msgs) /\ Len(msgs) \in Nat
      /\ \A i \in DOMAIN msgs : msgs[i] \in MessageType
  OBVIOUS
<1>2. msgs' = [i \in DOMAIN msgs |->
                  IF i = k THEN [msgs[k] EXCEPT !.form = form] ELSE msgs[i]]
  BY <1>1
<1>3. [msgs[k] EXCEPT !.form = form] \in MessageType
  BY <1>1 DEF MessageType, Parts
<1>4. /\ [msgs[k] EXCEPT !.form = form].role = msgs[k].role
      /\ [msgs[k] EXCEPT !.form = form].calls = msgs[k].calls
      /\ [msgs[k] EXCEPT !.form = form].turn = msgs[k].turn
      /\ [msgs[k] EXCEPT !.form = form].form = form
  BY <1>1 DEF MessageType
<1>5. msgs' \in [1 .. Len(msgs) -> MessageType]
  BY <1>1, <1>2, <1>3
<1>6. msgs' \in Seq(MessageType) /\ Len(msgs') = Len(msgs)
  BY <1>1, <1>5
<1> QED
  BY <1>1, <1>2, <1>4, <1>5, <1>6

LEMMA MarkInv ==
    ASSUME StreamInv, stream.pc # "idle", NEW k \in DOMAIN msgs, NEW form \in Parts,
           msgs' = [msgs EXCEPT ![k].form = form],
           UNCHANGED <<turn, left>>, ~OpenCalls, form = "part" \/ ~msgs[k].calls
    PROVE  /\ msgs' \in Seq(MessageType) /\ left' \subseteq 1 .. Len(msgs')
           /\ CallsAnswered' /\ TurnsInOrder'
<1>1. /\ msgs' \in Seq(MessageType)
      /\ Len(msgs') = Len(msgs) /\ DOMAIN msgs' = DOMAIN msgs
      /\ DOMAIN msgs = 1 .. Len(msgs) /\ Len(msgs) \in Nat
      /\ \A i \in DOMAIN msgs : /\ msgs'[i].role = msgs[i].role
                                /\ msgs'[i].calls = msgs[i].calls
                                /\ msgs'[i].turn = msgs[i].turn
                                /\ i # k => msgs'[i] = msgs[i]
      /\ msgs'[k].form = form
  BY MarkFacts DEF StreamInv, StreamTypeOK
<1>2. left' \subseteq 1 .. Len(msgs')
  BY <1>1 DEF StreamInv, StreamTypeOK
<1>3. CallsAnswered'
  <2> SUFFICES ASSUME NEW i \in DOMAIN msgs, Unanswered(i)'
               PROVE  i \in left \/ msgs'[i].form = "part"
    BY <1>1 DEF CallsAnswered
  <2>1. i + 1 \in DOMAIN msgs \/ i = Len(msgs)
    BY <1>1
  <2>2. Unanswered(i) /\ i # Len(msgs)
    BY <1>1, <2>1 DEF Unanswered, OpenCalls, Last
  <2>3. i \in left \/ msgs[i].form = "part"
    BY <2>2 DEF StreamInv, CallsAnswered
  <2>4. i = k => form = "part"
    BY <1>1 DEF Unanswered
  <2> QED
    BY <1>1, <2>3, <2>4
<1>4. TurnsInOrder'
  BY <1>1 DEF StreamInv, TurnsInOrder
<1> QED
  BY <1>1, <1>2, <1>3, <1>4

LEMMA PatchInv == ASSUME StreamInv, Patch PROVE StreamInv'
<1>1. /\ stream.pc = "cut" /\ question' = FALSE /\ producer' = "none"
      /\ listener' = "off" /\ outcome' = "interrupted" /\ stream' = NoStream
      /\ UNCHANGED <<turn, left, budget>>
  BY DEF Patch, Ends
<1>2. /\ stream' \in StreamType /\ stream'.pc = "idle" /\ stream'.partial = None
  BY <1>1 DEF NoStream, StreamType
<1>3. /\ msgs' \in Seq(MessageType) /\ left' \subseteq 1 .. Len(msgs')
      /\ CallsAnswered' /\ TurnsInOrder'
  <2>1. CASE \E role \in {"ai", "tool"}, calls \in BOOLEAN, form \in Parts :
                /\ msgs' = Append(msgs, Message(role, calls, form))
                /\ role = "tool" <=> OpenCalls
                /\ role = "ai" /\ calls => form = "part"
    BY <1>1, <2>1, AppendInv
  <2>2. CASE /\ msgs' = [msgs EXCEPT ![Len(msgs)].form = "marker"]
             /\ Len(msgs) \in DOMAIN msgs /\ Last.role = "ai" /\ ~Last.calls
    BY <1>1, <2>2, MarkInv DEF Parts, OpenCalls, Last
  <2>3. CASE /\ stream.partial # None /\ stream.partial.at \in DOMAIN msgs
             /\ msgs' = [msgs EXCEPT ![stream.partial.at].form = "part"]
             /\ ~OpenCalls
    BY <1>1, <2>3, MarkInv DEF Parts
  <2> QED
    BY <2>1, <2>2, <2>3, RepairCases
<1>4. StreamTypeOK'
  BY <1>1, <1>2, <1>3 DEF StreamInv, StreamTypeOK
<1>5. ResumeIsDue' /\ CallsAreLast' /\ DoneIsAnswered' /\ PartialIsOwn'
  BY <1>1, <1>2 DEF ResumeIsDue, CallsAreLast, DoneIsAnswered, PartialIsOwn
<1> QED
  BY <1>3, <1>4, <1>5 DEF StreamInv

LEMMA NextInv == StreamInv /\ [Next]_vars => StreamInv'
<1> SUFFICES ASSUME StreamInv, [Next]_vars PROVE StreamInv'
  OBVIOUS
<1>1. ASSUME NEW kind \in Kinds, Open(kind) PROVE StreamInv'
  BY <1>1, OpenInv
<1>2. CASE LookFails \/ PatchFails
  BY <1>2, EndsInv, FaultTyped DEF LookFails, PatchFails
<1>3. CASE Leave
  <2>1. budget' \in BudgetType
    BY <1>3 DEF Leave, BudgetType, StreamInv, StreamTypeOK, StreamAssumption
  <2> QED
    BY <1>3, <2>1, EndsInv DEF Leave
<1>4. CASE FinishFailed
  BY <1>4, EndsInv DEF FinishFailed, StreamInv, StreamTypeOK
<1>5. CASE Finish
  <2>1. OpenCalls => question
    BY <1>5 DEF Finish, StreamInv, DoneIsAnswered, OpenCalls
  <2> QED
    BY <1>5, <2>1, EndsInv DEF Finish, StreamInv, StreamTypeOK
<1>6. CASE UNCHANGED vars
  BY <1>6 DEF vars, StreamInv, StreamTypeOK, CallsAnswered, Unanswered, ResumeIsDue,
              CallsAreLast, OpenCalls, Last, TurnsInOrder, PartialIsOwn, DoneIsAnswered
<1> QED
  BY <1>1, <1>2, <1>3, <1>4, <1>5, <1>6, LookInv, TakeInputInv, ChunkInv, AnswerInv,
     RunToolsInv, RunFailsInv, ListenerInv, CutInv, PatchInv
     DEF Next, Run, Consume

(* The inductive invariant of the turns. *)
THEOREM StreamInvariant == Spec => []StreamInv
<1> QED
  BY InitStreamInv, NextInv, PTL DEF Spec

(* Every variable keeps its type, and nothing runs outside a turn. *)
THEOREM StreamTypeCorrect == Spec => []StreamTypeOK
<1>1. StreamInv => StreamTypeOK
  BY DEF StreamInv
<1> QED
  BY <1>1, StreamInvariant, PTL

(* _patch_state_after_interrupt leaves no call of a committed message unanswered:
   what is open is running, asking, cut off, or was left by a turn that ended
   without a chance to repair it.                                             *)
THEOREM CallsStayAnswered == Spec => []CallsAnswered
<1>1. StreamInv => CallsAnswered
  BY DEF StreamInv
<1> QED
  BY <1>1, StreamInvariant, PTL

(* A question is closed only by results of its calls, from Command(resume=...) or
   from the repair.                                                           *)
THEOREM QuestionsAreKept == Spec => QuestionNotSkipped
<1>1. ASSUME StreamInv, [Next]_vars, question, ~question'
      PROVE  Len(msgs') = Len(msgs) + 1 /\ msgs'[Len(msgs')].role = "tool"
  <2>1. TakeInput \/ RunTools \/ Patch
    BY <1>1 DEF Next, Run, Consume, Open, Look, LookFails, Chunk, Answer, RunFails,
                Finish, FinishFailed, Cut, PatchFails, Leave, Subscribe,
                publish_interrupt, ListenerFails, Ends, vars
  <2>2. OpenCalls /\ msgs \in Seq(MessageType) /\ stream.pc # "idle"
    BY <1>1, <2>1 DEF StreamInv, CallsAreLast, StreamTypeOK, TakeInput, RunTools, Patch
  <2>3. PICK form \in Parts : msgs' = Append(msgs, Message("tool", TRUE, form))
    <3>1. CASE TakeInput
      BY <1>1, <3>1 DEF TakeInput, StreamInv, ResumeIsDue
    <3>2. CASE RunTools
      BY <1>1, <3>2 DEF RunTools, Parts
    <3>3. CASE Patch
      BY <2>2, <3>3 DEF Patch, Repaired, Parts
    <3> QED
      BY <2>1, <3>1, <3>2, <3>3
  <2>4. /\ Message("tool", TRUE, form) \in MessageType
        /\ Message("tool", TRUE, form).role = "tool"
    BY <1>1, <2>2, MessageTyped
  <2> QED
    BY <2>2, <2>3, <2>4, AppendFacts
<1>2. StreamInv /\ [Next]_vars =>
         [question /\ ~question'
            => Len(msgs') = Len(msgs) + 1 /\ msgs'[Len(msgs')].role = "tool"]_vars
  BY <1>1
<1> QED
  BY <1>2, StreamInvariant, PTL DEF Spec, QuestionNotSkipped

(* No turn writes to the messages of earlier turns once its own message is in. *)
THEOREM EarlierTurnsAreKept == Spec => EarlierTurnsKept
<1> DEFINE Kept == \A i \in DOMAIN msgs :
              msgs[i].turn < turn /\ (\E j \in DOMAIN msgs : msgs[j].turn = turn)
              => Len(msgs') >= i /\ msgs'[i] = msgs[i]
<1>1. ASSUME StreamInv, [Next]_vars PROVE Kept
  <2> SUFFICES ASSUME NEW i \in DOMAIN msgs, msgs[i].turn < turn,
                      NEW j \in DOMAIN msgs, msgs[j].turn = turn
               PROVE  Len(msgs') >= i /\ msgs'[i] = msgs[i]
    OBVIOUS
  <2>1. msgs \in Seq(MessageType) /\ DOMAIN msgs = 1 .. Len(msgs) /\ Len(msgs) \in Nat
    BY <1>1 DEF StreamInv, StreamTypeOK
  <2>2. \/ UNCHANGED msgs \/ Patch
        \/ \E role \in {"human", "ai", "tool"}, calls \in BOOLEAN, form \in Parts :
              stream.pc # "idle" /\ msgs' = Append(msgs, Message(role, calls, form))
    <3>1. CASE TakeInput
      BY <1>1, <3>1 DEF TakeInput, StreamInv, StreamTypeOK, Parts, StreamAssumption
    <3>2. CASE Answer
      <4>1. stream.pc = "running" /\ stream.partial.calls \in BOOLEAN
        BY <1>1, <3>2 DEF Answer, StreamInv, StreamTypeOK, StreamType, PartialType
      <4> QED
        BY <3>2, <4>1 DEF Answer, Parts
    <3>3. CASE RunTools
      BY <1>1, <3>3 DEF RunTools, StreamInv, StreamTypeOK, Parts
    <3> QED
      BY <1>1, <3>1, <3>2, <3>3
         DEF Next, Run, Consume, Open, Look, LookFails, Chunk, RunFails, Finish,
             FinishFailed, Cut, PatchFails, Leave, Subscribe, publish_interrupt,
             ListenerFails, vars
  <2>3. CASE UNCHANGED msgs
    BY <2>1, <2>3
  <2>4. ASSUME NEW role \in {"human", "ai", "tool"}, NEW calls \in BOOLEAN,
               NEW form \in Parts, stream.pc # "idle",
               msgs' = Append(msgs, Message(role, calls, form))
        PROVE  Len(msgs') >= i /\ msgs'[i] = msgs[i]
    <3>1. Message(role, calls, form) \in MessageType
      BY <1>1, <2>4, MessageTyped
    <3> QED
      BY <2>1, <2>4, <3>1, AppendFacts
  <2>5. ASSUME NEW k \in DOMAIN msgs, NEW form \in Parts, msgs[k].turn = turn,
               msgs' = [msgs EXCEPT ![k].form = form]
        PROVE  Len(msgs') >= i /\ msgs'[i] = msgs[i]
    <3>1. turn \in Int
      BY <1>1 DEF StreamInv, StreamTypeOK
    <3>2. i # k
      BY <2>5, <3>1
    <3> QED
      BY <2>1, <2>5, <3>2, MarkFacts
  <2>6. CASE Patch
    <3>1. stream.pc # "idle"
      BY <2>6 DEF Patch
    <3>2. CASE /\ msgs' = [msgs EXCEPT ![Len(msgs)].form = "marker"]
               /\ Len(msgs) \in DOMAIN msgs /\ Last.role = "ai" /\ ~Last.calls
      <4>1. msgs[Len(msgs)].turn = turn
        <5>1. msgs[j].turn <= msgs[Len(msgs)].turn /\ msgs[Len(msgs)].turn <= turn
          BY <1>1, <2>1, <3>2 DEF StreamInv, TurnsInOrder
        <5>2. msgs[Len(msgs)] \in MessageType
          BY <2>1, <3>2
        <5>3. turn \in Int /\ msgs[Len(msgs)].turn \in Int
          BY <1>1, <5>2 DEF StreamInv, StreamTypeOK, MessageType
        <5> QED
          BY <5>1, <5>3
      <4> QED
        BY <2>5, <3>2, <4>1 DEF Parts
    <3>3. CASE /\ stream.partial # None /\ stream.partial.at \in DOMAIN msgs
               /\ msgs' = [msgs EXCEPT ![stream.partial.at].form = "part"]
               /\ ~OpenCalls
      BY <1>1, <2>5, <3>3 DEF StreamInv, PartialIsOwn, Parts
    <3> QED
      BY <1>1, <2>4, <2>6, <3>1, <3>2, <3>3, RepairCases
  <2> QED
    BY <2>2, <2>3, <2>4, <2>6
<1>2. StreamInv /\ [Next]_vars => [Kept]_vars
  BY <1>1
<1> QED
  BY <1>2, StreamInvariant, PTL DEF Spec, EarlierTurnsKept

(* The sentinel closes a turn as completed only on an answer or on a question. *)
THEOREM CompletedIsAlwaysAnswered == Spec => CompletedIsAnswered
<1> DEFINE Answered ==
      outcome # "completed" /\ outcome' = "completed" =>
          \/ question'
          \/ /\ Len(msgs) > 0
             /\ Last.role = "ai" /\ Last.form = "whole" /\ ~Last.calls
<1>1. ASSUME StreamInv, [Next]_vars PROVE Answered
  <2> SUFFICES ASSUME outcome # "completed", outcome' = "completed" PROVE Answered
    OBVIOUS
  <2>1. Finish
    BY <1>1 DEF Next, Run, Consume, RunVars, Open, Look, LookFails, TakeInput, Chunk,
                Answer, RunTools, RunFails, Subscribe, publish_interrupt, ListenerFails,
                FinishFailed, Cut, Patch, PatchFails, Leave, Ends, vars
  <2> QED
    BY <1>1, <2>1 DEF Finish, StreamInv, DoneIsAnswered
<1>2. StreamInv /\ [Next]_vars => [Answered]_vars
  BY <1>1
<1> QED
  BY <1>2, StreamInvariant, PTL DEF Spec, CompletedIsAnswered
=============================================================================
