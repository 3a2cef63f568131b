--------------------------- MODULE AgentRunProofs ---------------------------
(* Proofs about AgentRun: for any number of threads, calls and files, whatever
   the models ask for.                                                        *)
EXTENDS AgentRun, FoldProofs, FiniteSetTheorems, TLAPS

-----------------------------------------------------------------------------
(* What a request carries, by its tool. *)
LEMMA RequestShape ==
    ASSUME NEW r \in Request
    PROVE  /\ r.tool \in {"Todos", "Ask", "plan", "Skill", "Read", "Write", "Edit", "bash"}
           /\ "path" \in DOMAIN r <=> r.tool \in {"Read", "Write", "Edit", "bash"}
           /\ r.tool \in {"Read", "Write", "Edit"} => r.path \in AnyPath
           /\ r.tool = "Read" => r.offset \in Nat /\ r.limit \in Nat
           /\ r.tool = "Write" => r.lines \in Seq(Lines)
           /\ r.tool = "Edit" => r.old \in Lines /\ r.new \in Lines
           /\ r.tool = "bash" => /\ r.path \in Paths /\ r.command \in {"run", "blocked", "empty"}
                                 /\ r.lines \in Seq(Lines) \cup {None}
  BY DEF Request

(* None is neither a content nor an answer. *)
LEMMA NoneIsNoContent == None \notin Seq(Lines) /\ <<>> \in Seq(Lines) /\ <<>> # None
<1>1. <<>> \in Seq(Lines)
  OBVIOUS
<1>2. None \notin Seq(Lines)
  BY ToolsAssumption
<1> QED
  BY <1>1, <1>2

LEMMA NoneIsNoAnswer ==
    /\ None # "success" /\ None # "unchanged" /\ None # "raised" /\ None # "written"
    /\ None # "loaded" /\ None # "reached" /\ None # "updated"
  BY RunAssumption DEF Replies

(* A slice of a content is one, and is all of it if it is shorter than the limit. *)
LEMMA SliceShape ==
    ASSUME NEW content \in Seq(Lines), NEW offset \in Nat, NEW limit \in Nat
    PROVE  /\ Slice(content, offset, limit) \in Seq(Lines)
           /\ offset <= 1 /\ Len(Slice(content, offset, limit)) < limit
                 => Slice(content, offset, limit) = content
<1>1. Slice(content, offset, limit) \in Seq(Lines)
  BY DEF Slice
<1>2. ASSUME offset <= 1, Len(Slice(content, offset, limit)) < limit
      PROVE  Slice(content, offset, limit) = content
  <2>1. (IF offset = 0 THEN 1 ELSE offset) = 1 /\ 1 + limit - 1 = limit
    BY <1>2
  <2>2. Slice(content, offset, limit)
           = SubSeq(content, 1, IF limit < Len(content) THEN limit ELSE Len(content))
    BY <2>1 DEF Slice
  <2>3. ~(limit < Len(content))
    BY <1>2, <2>2
  <2> QED
    BY <2>2, <2>3
<1> QED
  BY <1>1, <1>2

(* A content with one line for another is a content. *)
LEMMA ReplacedShape ==
    ASSUME NEW content \in Seq(Lines), NEW old \in Lines, NEW new \in Lines
    PROVE  Replaced(content, old, new) \in Seq(Lines)
  BY DEF Replaced

(* What is written over a file is a content, and over an empty one is all. *)
LEMMA OverShape ==
    ASSUME NEW next \in Seq(Lines), NEW content \in Seq(Lines) \cup {None}
    PROVE  /\ Over(next, content) \in Seq(Lines) \cup {None}
           /\ Over(next, <<>>) = next
<1>1. Over(next, content) \in Seq(Lines) \cup {None}
  BY DEF Over
<1>2. Over(next, <<>>) = next \o SubSeq(<<>>, Len(next) + 1, Len(<<>>))
  BY NoneIsNoContent DEF Over
<1> QED
  BY <1>1, <1>2

(* A new call is one. *)
LEMMA NewCallOK ==
    ASSUME NEW r \in Request
    PROVE  CallOK(NewCall(r)) /\ NewCall(r).req = r
<1> DEFINE c == NewCall(r)
<1>1. /\ DOMAIN c = {"req", "pc", "next", "base", "alone", "line", "late", "answer"}
      /\ c.req = r /\ c.pc = "start" /\ c.next = <<>> /\ c.base = None /\ c.answer = None
      /\ {c.alone, c.line, c.late} \subseteq BOOLEAN
  BY DEF NewCall
<1>2. "start" \in Places[r.tool]
  BY RequestShape DEF Places
<1>3. c.base \in Seq(Lines) \cup {None} /\ (HasPath(c) => c.next \in Seq(Lines))
  BY <1>1, NoneIsNoContent DEF HasPath
<1>4. c.answer # "success" /\ c.pc # "done" /\ c.pc \in {"start", "done"}
  BY <1>1, NoneIsNoAnswer
<1> QED
  BY <1>1, <1>2, <1>3, <1>4 DEF CallOK
-----------------------------------------------------------------------------
(* The calls of all threads. *)
CallsOK ==
    /\ DOMAIN call = Threads
    /\ \A t \in Threads :
          /\ Len(call[t]) \in 0 .. 3 /\ DOMAIN call[t] = 1 .. Len(call[t])
          /\ \A i \in 1 .. Len(call[t]) : CallOK(call[t][i])

(* Call <<t, i>> becomes d, and all others stay. *)
Becomes(t, i, d) == call' = [call EXCEPT ![t] = [call[t] EXCEPT ![i] = d]]

LEMMA BecomesOK ==
    ASSUME CallsOK, NEW t \in Threads, NEW i \in 1 .. Len(call[t]), NEW d, CallOK(d),
           Becomes(t, i, d)
    PROVE  /\ CallsOK'
           /\ \A u \in Threads : Len(call'[u]) = Len(call[u])
           /\ \A u \in Threads : u # t => call'[u] = call[u]
           /\ \A j \in 1 .. Len(call[t]) : j # i => call'[t][j] = call[t][j]
           /\ call'[t][i] = d
  BY DEF CallsOK, Becomes, CallOK

(* An answer. *)
LEMMA AnswerBecomes ==
    ASSUME CallsOK, NEW t \in Threads, NEW i \in 1 .. Len(call[t]), NEW a, NEW next,
           Answer(t, i, a, next)
    PROVE  Becomes(t, i, [call[t][i] EXCEPT !.pc = "done", !.answer = a, !.next = next])
  BY DEF CallsOK, CallOK, Answer, Becomes

(* Where a call is, and what it was answered, tells its tool. *)
LEMMA CallFacts ==
    ASSUME NEW c, CallOK(c)
    PROVE  /\ c.req \in Request /\ c.pc \in Places[c.req.tool]
           /\ HasPath(c) <=> c.req.tool \in {"Read", "Write", "Edit", "bash"}
           /\ c.pc \in {"reread", "truncate"} => c.req.tool = "Edit"
           /\ c.pc = "fill" => c.req.tool \in {"Write", "Edit"}
           /\ c.pc \in {"stream", "exited"} => c.req.tool = "bash"
           /\ c.pc = "load" => c.req.tool = "plan"
           /\ c.pc = "asking" => c.req.tool = "Ask"
           /\ c.answer = "loaded" => c.req.tool = "Skill" /\ c.pc = "done"
           /\ c.answer = "reached" => c.req.tool = "plan" /\ c.pc = "done"
           /\ c.answer = "success" => HasPath(c) /\ c.pc = "done"
           /\ c.answer = "unchanged" => c.req.tool = "Read" /\ c.pc = "done"
<1>1. c.req.tool \in {"Todos", "Ask", "plan", "Skill", "Read", "Write", "Edit", "bash"}
  BY RequestShape DEF CallOK
<1>2. HasPath(c) <=> c.req.tool \in {"Read", "Write", "Edit", "bash"}
  BY RequestShape DEF CallOK, HasPath
<1>3. /\ c.pc \in {"reread", "truncate"} => c.req.tool = "Edit"
      /\ c.pc = "fill" => c.req.tool \in {"Write", "Edit"}
      /\ c.pc \in {"stream", "exited"} => c.req.tool = "bash"
      /\ c.pc = "load" => c.req.tool = "plan"
      /\ c.pc = "asking" => c.req.tool = "Ask"
  BY <1>1 DEF CallOK, Places
<1>4. c.answer \in {"loaded", "reached", "success", "unchanged"} =>
          c.pc = "done" /\ c.answer \in Replies[c.req.tool]
  BY NoneIsNoAnswer DEF CallOK
<1>5. /\ c.answer = "loaded" => c.req.tool = "Skill"
      /\ c.answer = "reached" => c.req.tool = "plan"
      /\ c.answer = "success" => c.req.tool \in {"Read", "Write", "Edit", "bash"}
      /\ c.answer = "unchanged" => c.req.tool = "Read"
  BY <1>1, <1>4 DEF Replies
<1> QED
  BY <1>1, <1>2, <1>3, <1>4, <1>5 DEF CallOK

(* A step of another call may end that a call is alone, and nothing else of it. *)
Keeps(c, d) ==
    /\ d.req = c.req /\ d.pc = c.pc /\ d.next = c.next /\ d.base = c.base
    /\ d.answer = c.answer /\ (d.alone => c.alone)

(* What every step of call <<t, i>> does to the calls. *)
CallMoves(t, i) ==
    /\ CallsOK'
    /\ \A u \in Threads : Len(call'[u]) = Len(call[u])
    /\ call'[t][i].req = call[t][i].req
    /\ \A u \in Threads : \A j \in 1 .. Len(call[u]) :
          u # t \/ j # i => Keeps(call[u][j], call'[u][j])

LEMMA BecomesMoves ==
    ASSUME CallsOK, NEW t \in Threads, NEW i \in 1 .. Len(call[t]), NEW d, CallOK(d),
           d.req = call[t][i].req, Becomes(t, i, d)
    PROVE  CallMoves(t, i) /\ call'[t][i] = d
<1>1. /\ CallsOK'
      /\ \A u \in Threads : Len(call'[u]) = Len(call[u])
      /\ \A u \in Threads : u # t => call'[u] = call[u]
      /\ \A j \in 1 .. Len(call[t]) : j # i => call'[t][j] = call[t][j]
      /\ call'[t][i] = d
  BY BecomesOK
<1> QED
  BY <1>1 DEF CallMoves, Keeps

(* An answer that fits the tool. *)
LEMMA AnswerMoves ==
    ASSUME CallsOK, NEW t \in Threads, NEW i \in 1 .. Len(call[t]), NEW a, NEW next,
           Answer(t, i, a, next),
           a \in Replies[call[t][i].req.tool] \ {"written"},
           HasPath(call[t][i]) => next \in Seq(Lines),
           HasPath(call[t][i]) /\ a = "success" => call[t][i].req.path \in Paths
    PROVE  /\ CallMoves(t, i)
           /\ call'[t][i].pc = "done" /\ call'[t][i].answer = a /\ call'[t][i].next = next
           /\ call'[t][i].base = call[t][i].base /\ call'[t][i].alone = call[t][i].alone
<1> DEFINE c == call[t][i]
           d == [c EXCEPT !.pc = "done", !.answer = a, !.next = next]
<1>1. CallOK(c)
  BY DEF CallsOK
<1>2. /\ DOMAIN d = DOMAIN c /\ d.req = c.req /\ d.pc = "done" /\ d.answer = a /\ d.next = next
      /\ d.base = c.base /\ d.alone = c.alone /\ d.line = c.line /\ d.late = c.late
  BY <1>1 DEF CallOK
<1>3. "done" \in Places[c.req.tool]
  BY <1>1, RequestShape DEF CallOK, Places
<1>4. CallOK(d)
  BY <1>1, <1>2, <1>3 DEF CallOK, HasPath
<1>5. Becomes(t, i, d)
  BY AnswerBecomes
<1>6. CallMoves(t, i) /\ call'[t][i] = d
  <2> HIDE DEF d
  <2> QED
    BY <1>2, <1>4, <1>5, BecomesMoves
<1> QED
  BY <1>2, <1>6

LEMMA RefusalMoves ==
    ASSUME CallsOK, NEW t \in Threads, NEW i \in 1 .. Len(call[t]), NEW a,
           Answer(t, i, a, <<>>),
           a \in Replies[call[t][i].req.tool] \ {"written"}, a # "success"
    PROVE  CallMoves(t, i) /\ call'[t][i].pc = "done" /\ call'[t][i].answer = a
<1> DEFINE next == <<>>
<1>1. next \in Seq(Lines) /\ Answer(t, i, a, next)
  BY NoneIsNoContent
<1> HIDE DEF next
<1>2. CallMoves(t, i) /\ call'[t][i].pc = "done" /\ call'[t][i].answer = a
  BY <1>1, AnswerMoves
<1> QED
  BY <1>2

(* A call moves on without an answer: its place and its locals change. *)
LEMMA LocalMoves ==
    ASSUME CallsOK, NEW t \in Threads, NEW i \in 1 .. Len(call[t]), NEW d,
           DOMAIN d = DOMAIN call[t][i], d.req = call[t][i].req, d.pc \in Places[d.req.tool],
           d.pc # "done", call[t][i].pc # "done",
           d.answer = call[t][i].answer \/ (d.req.tool = "bash" /\ d.answer = "written"),
           HasPath(d) => d.next \in Seq(Lines) /\ (d.pc # "start" => d.req.path \in Paths),
           d.base \in Seq(Lines) \cup {None}, {d.alone, d.line, d.late} \subseteq BOOLEAN,
           Becomes(t, i, d)
    PROVE  CallMoves(t, i) /\ call'[t][i] = d
<1>1. CallOK(call[t][i])
  BY DEF CallsOK
<1>2. d.answer = None \/ (d.req.tool = "bash" /\ d.answer = "written")
  BY <1>1 DEF CallOK
<1>3. d.answer # "success"
  BY <1>2, NoneIsNoAnswer
<1>4. CallOK(d)
  BY <1>1, <1>2, <1>3 DEF CallOK
<1> QED
  BY <1>4, BecomesMoves

(* A file is changed by the call: calls on the path are no longer alone. *)
LEMMA ChangesMoves ==
    ASSUME CallsOK, NEW t \in Threads, NEW i \in 1 .. Len(call[t]), NEW content, NEW d,
           CallOK(d), d.req = call[t][i].req,
           Changes(t, i, content, d)
    PROVE  /\ CallMoves(t, i) /\ call'[t][i] = d
           /\ \A u \in Threads : \A j \in 1 .. Len(call[u]) :
                 (u # t \/ j # i) /\ HasPath(call[u][j]) /\ call[u][j].req.path = Path(t, i)
                     => ~call'[u][j].alone
<1> DEFINE p == Path(t, i)
           cut(c) == [c EXCEPT !.alone = @ /\ ~("path" \in DOMAIN c.req /\ c.req.path = p)]
<1>1. call' = [u \in Threads |-> [j \in 1 .. Len(call[u]) |->
                  IF u = t /\ j = i THEN d ELSE cut(call[u][j])]]
  BY DEF Changes
<1>2. \A u \in Threads : Len(call[u]) \in 0 .. 3
  BY DEF CallsOK
<1>3. \A u \in Threads : Len(call'[u]) = Len(call[u]) /\ DOMAIN call'[u] = 1 .. Len(call'[u])
  BY <1>1, <1>2
<1>4. call'[t][i] = d
  BY <1>1
<1>5. ASSUME NEW u \in Threads, NEW j \in 1 .. Len(call[u]), u # t \/ j # i
      PROVE  /\ CallOK(call'[u][j]) /\ Keeps(call[u][j], call'[u][j])
             /\ HasPath(call[u][j]) /\ call[u][j].req.path = p => ~call'[u][j].alone
  <2> DEFINE c == call[u][j]
             e == call'[u][j]
  <2>1. CallOK(c)
    BY DEF CallsOK
  <2>2. e = cut(c)
    BY <1>1, <1>5
  <2>3. /\ DOMAIN e = DOMAIN c /\ e.req = c.req /\ e.pc = c.pc /\ e.answer = c.answer
        /\ e.next = c.next /\ e.base = c.base /\ e.line = c.line /\ e.late = c.late
        /\ e.alone = (c.alone /\ ~("path" \in DOMAIN c.req /\ c.req.path = p))
    BY <2>1, <2>2 DEF CallOK
  <2>4. c.alone \in BOOLEAN
    BY <2>1 DEF CallOK
  <2>5. e.alone \in BOOLEAN /\ (e.alone => c.alone)
    BY <2>3, <2>4
  <2>6. CallOK(e)
    BY <2>1, <2>3, <2>5 DEF CallOK, HasPath
  <2> QED
    BY <2>3, <2>5, <2>6 DEF Keeps, HasPath
<1>6. CallsOK'
  BY <1>1, <1>2, <1>3, <1>4, <1>5 DEF CallsOK
<1> QED
  BY <1>3, <1>4, <1>5, <1>6 DEF CallMoves
-----------------------------------------------------------------------------
(* Where there is a call, and what it is. *)
LEMMA CallAt ==
    ASSUME CallsOK, NEW t \in Threads, NEW i \in 1 .. 3, i <= Len(call[t])
    PROVE  /\ i \in 1 .. Len(call[t]) /\ CallOK(call[t][i]) /\ call[t][i].req \in Request
  BY DEF CallsOK, CallOK

LEMMA ReadFileMoves ==
    ASSUME CallsOK, files \in [Paths -> Seq(Lines) \cup {None}],
           NEW t \in Threads, NEW i \in 1 .. 3, RefusePath(t, i) \/ ReadFile(t, i)
    PROVE  LET p == Path(t, i)
               r == call[t][i].req
               a == call'[t][i].answer
           IN  /\ CallMoves(t, i) /\ call'[t][i].pc = "done"
               /\ a \in {"success", "unchanged"} =>
                     r.tool = "Read" /\ r.path \in Paths /\ files[p] # None
               /\ a = "success" => call'[t][i].next = Slice(files[p], r.offset, r.limit)
               /\ a = "unchanged" => view[t][p] = Slice(files[p], r.offset, r.limit)
<1> DEFINE c == call[t][i]
<1>1. i \in 1 .. Len(call[t]) /\ CallOK(c) /\ c.req \in Request
  BY CallAt DEF RefusePath, ReadFile, Starts, At
<1>2. <<>> \in Seq(Lines)
  BY NoneIsNoContent
<1>3. CASE RefusePath(t, i)
  <2> DEFINE a == IF Path(t, i) = Outside THEN "permission"
                  ELSE IF c.req.tool = "Write" THEN "no_parent" ELSE "not_found"
  <2>1. Answer(t, i, a, <<>>) /\ c.req.tool \in {"Read", "Write", "Edit"}
    BY <1>3 DEF RefusePath, Starts
  <2>2. a \in Replies[c.req.tool] \ {"written"} /\ a \notin {"success", "unchanged"}
    BY <2>1 DEF Replies
  <2> HIDE DEF a
  <2>3. CallMoves(t, i) /\ call'[t][i].pc = "done" /\ call'[t][i].answer = a
    BY <1>1, <2>1, <2>2, RefusalMoves
  <2> QED
    BY <2>2, <2>3
<1>4. CASE ReadFile(t, i)
  <2> DEFINE p == Path(t, i)
             slice == Slice(files[p], c.req.offset, c.req.limit)
  <2>1. c.req.tool = "Read" /\ p = c.req.path /\ p \in Paths
    BY <1>4 DEF ReadFile, Starts, Usable, Path
  <2>2. PICK a \in {"not_found", "too_large", "unchanged"} :
           \/ /\ Answer(t, i, a, <<>>)
              /\ a = "unchanged" => files[p] # None /\ view[t][p] = slice
           \/ files[p] # None /\ Answer(t, i, "success", slice)
    BY <1>4 DEF ReadFile, SameAsLast
  <2>3. a \in Replies[c.req.tool] \ {"written"} /\ a # "success"
        /\ "success" \in Replies[c.req.tool] \ {"written"}
    BY <2>1 DEF Replies
  <2>4. CASE Answer(t, i, a, <<>>) /\ (a = "unchanged" => files[p] # None /\ view[t][p] = slice)
    <3>1. CallMoves(t, i) /\ call'[t][i].pc = "done" /\ call'[t][i].answer = a
      BY <1>1, <2>3, <2>4, RefusalMoves
    <3> QED
      BY <2>1, <2>4, <3>1
  <2>5. CASE files[p] # None /\ Answer(t, i, "success", slice)
    <3>1. slice \in Seq(Lines)
      BY <1>1, <2>1, <2>5, SliceShape, RequestShape
    <3>2. /\ CallMoves(t, i) /\ call'[t][i].pc = "done" /\ call'[t][i].answer = "success"
          /\ call'[t][i].next = slice
      BY <1>1, <2>1, <2>3, <2>5, <3>1, AnswerMoves
    <3> QED
      BY <2>1, <2>5, <3>2
  <2> QED
    BY <2>2, <2>4, <2>5
<1> QED
  BY <1>3, <1>4

LEMMA EditMoves ==
    ASSUME CallsOK, files \in [Paths -> Seq(Lines) \cup {None}],
           known \in [Threads -> [Paths -> Seq(Lines) \cup {None}]],
           NEW t \in Threads, NEW i \in 1 .. 3, EditReads(t, i) \/ EditRereads(t, i)
    PROVE  LET p == Path(t, i)
               c == call[t][i]
               d == call'[t][i]
           IN  /\ CallMoves(t, i) /\ c.req.tool = "Edit" /\ p = c.req.path /\ p \in Paths
               /\ \/ d.pc = "done" /\ d.answer # "success"
                  \/ d.pc = "reread" /\ d.answer # "success" /\ d.base = known[t][p]
                  \/ /\ c.pc = "reread" /\ d.pc = "truncate" /\ d.answer # "success"
                     /\ d.base = c.base /\ d.alone = c.alone
                     /\ files[p] # None /\ d.next = Replaced(files[p], c.req.old, c.req.new)
<1> DEFINE c == call[t][i]
           p == Path(t, i)
<1>1. i \in 1 .. Len(call[t]) /\ CallOK(c) /\ c.req \in Request
  BY CallAt DEF EditReads, EditRereads, Starts, At
<1>2. c.req.tool = "Edit" /\ p = c.req.path /\ p \in Paths /\ HasPath(c)
  BY <1>1, CallFacts DEF EditReads, EditRereads, Starts, At, Usable, Path, CallOK
<1>3. <<>> \in Seq(Lines)
  BY NoneIsNoContent
<1>4. ASSUME NEW a \in {"not_found", "string_not_found", "multiple", "raised"}, Answer(t, i, a, <<>>)
      PROVE  CallMoves(t, i) /\ call'[t][i].pc = "done" /\ call'[t][i].answer # "success"
  <2>1. a \in Replies[c.req.tool] \ {"written"} /\ a # "success"
    BY <1>2 DEF Replies
  <2> QED
    BY <1>1, <1>4, <2>1, RefusalMoves
<1>5. ASSUME c.pc = "start", call' = [call EXCEPT ![t][i].pc = "reread", ![t][i].base = known[t][p]]
      PROVE  /\ CallMoves(t, i) /\ call'[t][i].pc = "reread" /\ call'[t][i].answer # "success"
             /\ call'[t][i].base = known[t][p]
  <2> DEFINE d == [c EXCEPT !.pc = "reread", !.base = known[t][p]]
  <2>1. Becomes(t, i, d)
    BY <1>1, <1>5 DEF Becomes, CallsOK, CallOK
  <2>2. /\ DOMAIN d = DOMAIN c /\ d.req = c.req /\ d.pc = "reread" /\ d.answer = c.answer
        /\ d.next = c.next /\ d.base = known[t][p] /\ {d.alone, d.line, d.late} \subseteq BOOLEAN
    BY <1>1 DEF CallOK
  <2>3. "reread" \in Places[c.req.tool] /\ c.next \in Seq(Lines)
    BY <1>1, <1>2 DEF Places, CallOK
  <2>4. known[t][p] \in Seq(Lines) \cup {None} /\ "reread" # "done" /\ d.req.path \in Paths
    BY <1>2, <2>2
  <2>5. d.answer # "success"
    BY <1>1, <1>5, <2>2, CallFacts
  <2> HIDE DEF d
  <2>6. /\ d.pc \in Places[d.req.tool] /\ d.pc # "done" /\ d.base \in Seq(Lines) \cup {None}
        /\ HasPath(d) => d.next \in Seq(Lines) /\ (d.pc # "start" => d.req.path \in Paths)
    BY <2>2, <2>3, <2>4
  <2>7. CallMoves(t, i) /\ call'[t][i] = d
    BY <1>1, <1>5, <2>1, <2>2, <2>6, LocalMoves
  <2> QED
    BY <2>2, <2>5, <2>7
<1>6. ASSUME c.pc = "reread", files[p] # None,
             call' = [call EXCEPT ![t][i].pc = "truncate",
                                  ![t][i].next = Replaced(files[p], c.req.old, c.req.new)]
      PROVE  /\ CallMoves(t, i) /\ call'[t][i].pc = "truncate" /\ call'[t][i].answer # "success"
             /\ call'[t][i].base = c.base /\ call'[t][i].alone = c.alone
             /\ call'[t][i].next = Replaced(files[p], c.req.old, c.req.new)
  <2> DEFINE d == [c EXCEPT !.pc = "truncate", !.next = Replaced(files[p], c.req.old, c.req.new)]
  <2>1. Becomes(t, i, d)
    BY <1>1, <1>6 DEF Becomes, CallsOK, CallOK
  <2>2. Replaced(files[p], c.req.old, c.req.new) \in Seq(Lines)
    BY <1>1, <1>2, <1>6, ReplacedShape, RequestShape
  <2>3. /\ DOMAIN d = DOMAIN c /\ d.req = c.req /\ d.pc = "truncate" /\ d.answer = c.answer
        /\ d.next \in Seq(Lines) /\ d.base = c.base /\ {d.alone, d.line, d.late} \subseteq BOOLEAN
        /\ d.alone = c.alone /\ d.next = Replaced(files[p], c.req.old, c.req.new)
    BY <1>1, <2>2 DEF CallOK
  <2>4. "truncate" \in Places[c.req.tool] /\ c.base \in Seq(Lines) \cup {None}
    BY <1>1, <1>2 DEF Places, CallOK
  <2>5. d.answer # "success"
    BY <1>1, <1>6, <2>3, CallFacts
  <2> HIDE DEF d
  <2>6. /\ d.pc \in Places[d.req.tool] /\ d.pc # "done" /\ d.base \in Seq(Lines) \cup {None}
        /\ HasPath(d) => d.next \in Seq(Lines) /\ (d.pc # "start" => d.req.path \in Paths)
    BY <1>2, <2>3, <2>4
  <2>7. CallMoves(t, i) /\ call'[t][i] = d
    BY <1>1, <1>6, <2>1, <2>3, <2>6, LocalMoves
  <2> QED
    BY <2>3, <2>5, <2>7
<1>7. CASE EditReads(t, i)
  BY <1>2, <1>4, <1>5, <1>7 DEF EditReads, Starts, At
<1>8. CASE EditRereads(t, i)
  BY <1>2, <1>4, <1>6, <1>8 DEF EditRereads, Starts, At
<1> QED
  BY <1>7, <1>8

(* What a call that changes its file leaves behind. *)
LEMMA ChangesTypes ==
    ASSUME NEW t \in Threads, NEW i, NEW content \in Seq(Lines) \cup {None}, NEW d,
           files \in [Paths -> Seq(Lines) \cup {None}],
           known \in [Threads -> [Paths -> Seq(Lines) \cup {None}]],
           Changes(t, i, content, d)
    PROVE  /\ files' \in [Paths -> Seq(Lines) \cup {None}]
           /\ known' \in [Threads -> [Paths -> Seq(Lines) \cup {None}]]
           /\ UNCHANGED <<kubeconfig, merged, view>>
           /\ \A p \in Paths : p # Path(t, i) => files'[p] = files[p]
           /\ \A u \in Threads, p \in Paths :
                 known'[u][p] # None => p # Path(t, i) /\ known'[u][p] = known[u][p]
  BY DEF Changes

LEMMA TruncateMoves ==
    ASSUME CallsOK, NEW t \in Threads, NEW i \in 1 .. 3, Truncate(t, i)
    PROVE  /\ CallMoves(t, i) /\ Changes(t, i, <<>>, call'[t][i])
           /\ \A u \in Threads : \A j \in 1 .. Len(call[u]) :
                 (u # t \/ j # i) /\ HasPath(call[u][j]) /\ call[u][j].req.path = Path(t, i)
                     => ~call'[u][j].alone
           /\ call[t][i].req.tool \in {"Write", "Edit"}
           /\ call'[t][i].pc = "fill" /\ call'[t][i].alone = call[t][i].alone
           /\ call'[t][i].base = call[t][i].base /\ call'[t][i].answer = None
           /\ call'[t][i].next = IF call[t][i].req.tool = "Write" THEN call[t][i].req.lines
                                 ELSE call[t][i].next
           /\ call[t][i].req.tool = "Edit" => call[t][i].pc = "truncate"
<1> DEFINE c == call[t][i]
           d == [c EXCEPT !.pc = "fill", !.next = IF c.req.tool = "Write" THEN c.req.lines ELSE @]
<1>1. i \in 1 .. Len(call[t]) /\ CallOK(c) /\ c.req \in Request
  BY CallAt DEF Truncate, Starts, At
<1>2. Changes(t, i, <<>>, d)
  BY DEF Truncate
<1>3. /\ c.req.tool \in {"Write", "Edit"} /\ c.req.path \in Paths /\ HasPath(c)
      /\ c.req.tool = "Edit" => c.pc = "truncate"
      /\ c.pc # "done"
  BY <1>1, CallFacts DEF Truncate, Starts, At, Usable, Path, CallOK
<1>4. /\ DOMAIN d = DOMAIN c /\ d.req = c.req /\ d.pc = "fill" /\ d.answer = c.answer
      /\ d.next = (IF c.req.tool = "Write" THEN c.req.lines ELSE c.next)
      /\ d.base = c.base /\ d.alone = c.alone /\ d.line = c.line /\ d.late = c.late
  BY <1>1 DEF CallOK
<1>5. d.next \in Seq(Lines)
  BY <1>1, <1>3, <1>4, RequestShape DEF CallOK
<1>6. "fill" \in Places[c.req.tool]
  BY <1>3 DEF Places
<1>7. c.answer = None
  BY <1>1, <1>3 DEF CallOK
<1> HIDE DEF d
<1>8. CallOK(d)
  BY <1>1, <1>3, <1>4, <1>5, <1>6, <1>7, NoneIsNoAnswer DEF CallOK, HasPath
<1>9. CallMoves(t, i) /\ call'[t][i] = d
      /\ \A u \in Threads : \A j \in 1 .. Len(call[u]) :
            (u # t \/ j # i) /\ HasPath(call[u][j]) /\ call[u][j].req.path = Path(t, i)
                => ~call'[u][j].alone
  BY <1>1, <1>2, <1>4, <1>8, ChangesMoves
<1> QED
  BY <1>2, <1>3, <1>4, <1>7, <1>9

LEMMA FillMoves ==
    ASSUME CallsOK, files \in [Paths -> Seq(Lines) \cup {None}],
           NEW t \in Threads, NEW i \in 1 .. 3, Fill(t, i)
    PROVE  /\ CallMoves(t, i)
           /\ Changes(t, i, Over(call[t][i].next, files[Path(t, i)]), call'[t][i])
           /\ Over(call[t][i].next, files[Path(t, i)]) \in Seq(Lines) \cup {None}
           /\ \A u \in Threads : \A j \in 1 .. Len(call[u]) :
                 (u # t \/ j # i) /\ HasPath(call[u][j]) /\ call[u][j].req.path = Path(t, i)
                     => ~call'[u][j].alone
           /\ call[t][i].req.tool \in {"Write", "Edit"} /\ call[t][i].next \in Seq(Lines)
           /\ call[t][i].req.path \in Paths /\ call[t][i].pc = "fill"
           /\ call'[t][i].pc = "done" /\ call'[t][i].answer = "success"
           /\ call'[t][i].next = call[t][i].next
           /\ call'[t][i].alone = call[t][i].alone /\ call'[t][i].base = call[t][i].base
<1> DEFINE c == call[t][i]
           content == Over(c.next, files[Path(t, i)])
           d == [c EXCEPT !.pc = "done", !.answer = "success"]
<1>1. i \in 1 .. Len(call[t]) /\ CallOK(c) /\ c.req \in Request /\ c.pc = "fill"
  BY CallAt DEF Fill, At
<1>2. Changes(t, i, content, d)
  BY DEF Fill
<1>3. c.req.tool \in {"Write", "Edit"} /\ HasPath(c) /\ c.req.path \in Paths /\ c.next \in Seq(Lines)
  BY <1>1, CallFacts DEF CallOK
<1>4. content \in Seq(Lines) \cup {None}
  BY <1>3, OverShape DEF Path
<1>5. /\ DOMAIN d = DOMAIN c /\ d.req = c.req /\ d.pc = "done" /\ d.answer = "success"
      /\ d.next = c.next /\ d.base = c.base /\ d.alone = c.alone /\ d.line = c.line /\ d.late = c.late
  BY <1>1 DEF CallOK
<1>6. "done" \in Places[c.req.tool] /\ "success" \in Replies[c.req.tool] \ {"written"}
  BY <1>3 DEF Places, Replies
<1> HIDE DEF d, content
<1>7. CallOK(d)
  BY <1>1, <1>3, <1>5, <1>6 DEF CallOK, HasPath
<1>8. CallMoves(t, i) /\ call'[t][i] = d
      /\ \A u \in Threads : \A j \in 1 .. Len(call[u]) :
            (u # t \/ j # i) /\ HasPath(call[u][j]) /\ call[u][j].req.path = Path(t, i)
                => ~call'[u][j].alone
  BY <1>1, <1>2, <1>5, <1>7, ChangesMoves
<1> QED
  BY <1>1, <1>2, <1>3, <1>4, <1>5, <1>8 DEF content

LEMMA CommandWrites ==
    ASSUME CallsOK, NEW t \in Threads, NEW i \in 1 .. 3, ProcessWrites(t, i)
    PROVE  /\ CallMoves(t, i) /\ Changes(t, i, call[t][i].req.lines, call'[t][i])
           /\ call[t][i].req.lines \in Seq(Lines) \cup {None}
           /\ \A u \in Threads : \A j \in 1 .. Len(call[u]) :
                 (u # t \/ j # i) /\ HasPath(call[u][j]) /\ call[u][j].req.path = Path(t, i)
                     => ~call'[u][j].alone
           /\ call[t][i].req.tool = "bash"
<1> DEFINE c == call[t][i]
           w == [c EXCEPT !.answer = "written"]
<1>1. i \in 1 .. Len(call[t]) /\ CallOK(c) /\ c.req \in Request
  BY CallAt DEF ProcessWrites, At, Left
<1>2. PICK d : /\ d = c \/ (c.pc = "stream" /\ d = w)
               /\ c.req.tool = "bash"
               /\ Changes(t, i, c.req.lines, d)
  <2>1. CASE At(t, i, "stream") /\ Changes(t, i, c.req.lines, w)
    <3>1. c.pc = "stream"
      BY <2>1 DEF At
    <3> QED
      BY <1>1, <2>1, <3>1, CallFacts
  <2>2. CASE c.req.tool = "bash" /\ Changes(t, i, c.req.lines, c)
    BY <2>2
  <2> QED
    BY <2>1, <2>2 DEF ProcessWrites
<1>3. c.req.tool = "bash" /\ c.req.lines \in Seq(Lines) \cup {None}
  BY <1>1, <1>2, RequestShape
<1>4. /\ DOMAIN d = DOMAIN c /\ d.req = c.req /\ d.pc = c.pc
      /\ d.answer = c.answer \/ (c.pc = "stream" /\ d.answer = "written")
      /\ d.next = c.next /\ d.base = c.base /\ d.alone = c.alone /\ d.line = c.line /\ d.late = c.late
  BY <1>1, <1>2 DEF CallOK
<1>5. CallOK(d)
  <2>1. CASE d = c
    BY <1>1, <2>1
  <2>2. CASE c.pc = "stream" /\ d = w
    <3>1. d.answer = "written"
      BY <1>1, <2>2 DEF CallOK
    <3> HIDE DEF w
    <3> QED
      BY <1>1, <1>3, <1>4, <2>2, <3>1 DEF CallOK, HasPath
  <2> QED
    BY <1>2, <2>1, <2>2
<1> HIDE DEF w
<1>6. CallMoves(t, i) /\ call'[t][i] = d
      /\ \A u \in Threads : \A j \in 1 .. Len(call[u]) :
            (u # t \/ j # i) /\ HasPath(call[u][j]) /\ call[u][j].req.path = Path(t, i)
                => ~call'[u][j].alone
  BY <1>1, <1>2, <1>4, <1>5, ChangesMoves
<1> QED
  BY <1>2, <1>3, <1>6

(* The shell command, what it prints, and the clock. *)
LEMMA BashMoves ==
    ASSUME CallsOK, NEW t \in Threads, NEW i \in 1 .. 3,
           BashStep(t, i) \/ ProcessPrints(t, i) \/ ProcessExits(t, i) \/ Deadline(t, i)
    PROVE  CallMoves(t, i) /\ call[t][i].req.tool = "bash"
<1> DEFINE c == call[t][i]
<1>1. /\ i \in 1 .. Len(call[t]) /\ CallOK(c) /\ c.req \in Request
      /\ BashStarts(t, i) \/ c.pc \in {"stream", "exited"}
  BY CallAt DEF BashStep, BashStarts, BashTakesLine, BashEnds, ProcessPrints, ProcessExits,
                Deadline, Starts, At
<1>2. c.req.tool = "bash" /\ c.req.path \in Paths /\ HasPath(c)
  BY <1>1, CallFacts, RequestShape DEF BashStarts, Starts
<1>3. /\ {"start", "stream", "exited"} \subseteq Places[c.req.tool]
      /\ {"timed_out", "raised", "success", "blocked", "empty"} \subseteq Replies[c.req.tool] \ {"written"}
      /\ <<>> \in Seq(Lines)
  BY <1>2, NoneIsNoContent DEF Places, Replies
<1>4. ASSUME NEW a \in {"timed_out", "raised", "success", "blocked", "empty"}, Answer(t, i, a, <<>>)
      PROVE  CallMoves(t, i)
  BY <1>1, <1>2, <1>3, <1>4, AnswerMoves
<1>5. ASSUME NEW pc \in {"stream", "exited"}, c.pc # "done", call' = [call EXCEPT ![t][i].pc = pc]
      PROVE  CallMoves(t, i)
  <2> DEFINE d == [c EXCEPT !.pc = pc]
  <2>1. Becomes(t, i, d)
    BY <1>1, <1>5 DEF Becomes, CallsOK, CallOK
  <2>2. /\ DOMAIN d = DOMAIN c /\ d.req = c.req /\ d.pc = pc /\ d.answer = c.answer
        /\ d.next = c.next /\ d.base = c.base /\ {d.alone, d.line, d.late} \subseteq BOOLEAN
    BY <1>1 DEF CallOK
  <2>3. c.next \in Seq(Lines) /\ c.base \in Seq(Lines) \cup {None}
    BY <1>1, <1>2 DEF CallOK
  <2> HIDE DEF d
  <2> QED
    BY <1>1, <1>2, <1>3, <1>5, <2>1, <2>2, <2>3, LocalMoves DEF HasPath
<1>6. ASSUME NEW line \in BOOLEAN, NEW late \in BOOLEAN, c.pc \in {"stream", "exited"},
             Becomes(t, i, [c EXCEPT !.line = line, !.late = late])
      PROVE  CallMoves(t, i)
  <2> DEFINE d == [c EXCEPT !.line = line, !.late = late]
  <2>1. /\ DOMAIN d = DOMAIN c /\ d.req = c.req /\ d.pc = c.pc /\ d.answer = c.answer
        /\ d.next = c.next /\ d.base = c.base /\ {d.alone, d.line, d.late} \subseteq BOOLEAN
    BY <1>1 DEF CallOK
  <2>2. c.next \in Seq(Lines) /\ c.base \in Seq(Lines) \cup {None}
    BY <1>1, <1>2 DEF CallOK
  <2>3. Becomes(t, i, d)
    BY <1>6
  <2> HIDE DEF d
  <2> QED
    BY <1>1, <1>2, <1>3, <1>6, <2>1, <2>2, <2>3, LocalMoves DEF HasPath
<1>7. CASE BashStarts(t, i)
  <2>1. c.req.command \in {"run", "blocked", "empty"}
    BY <1>1, <1>2, RequestShape
  <2> QED
    BY <1>4, <1>5, <1>7, <2>1 DEF BashStarts, Starts, At
<1>8. CASE BashEnds(t, i)
  <2>1. Answer(t, i, "success", <<>>)
    BY <1>8 DEF BashEnds
  <2> QED
    BY <1>2, <1>4, <2>1
<1>9. CASE ProcessExits(t, i)
  <2>1. call' = [call EXCEPT ![t][i].pc = "exited"] /\ c.pc = "stream"
    BY <1>9 DEF ProcessExits, At
  <2> QED
    BY <1>2, <1>5, <2>1
<1>10. CASE ProcessPrints(t, i) \/ Deadline(t, i) \/ BashTakesLine(t, i)
  <2>1. CASE Answer(t, i, "timed_out", <<>>) \/ Answer(t, i, "raised", <<>>)
    BY <1>2, <1>4, <2>1
  <2>2. CASE call' = [call EXCEPT ![t][i].line = TRUE] \/ call' = [call EXCEPT ![t][i].line = FALSE]
    <3>1. PICK line \in BOOLEAN : call' = [call EXCEPT ![t][i].line = line]
      BY <2>2
    <3>2. Becomes(t, i, [c EXCEPT !.line = line, !.late = c.late]) /\ c.late \in BOOLEAN
      BY <1>1, <3>1 DEF Becomes, CallsOK, CallOK
    <3>3. c.pc \in {"stream", "exited"}
      BY <1>10 DEF ProcessPrints, Deadline, BashTakesLine, At
    <3> QED
      BY <1>2, <1>6, <3>2, <3>3
  <2>3. CASE call' = [call EXCEPT ![t][i].late = TRUE]
    <3>1. Becomes(t, i, [c EXCEPT !.line = c.line, !.late = TRUE]) /\ c.line \in BOOLEAN
      BY <1>1, <2>3 DEF Becomes, CallsOK, CallOK
    <3>2. c.pc \in {"stream", "exited"}
      BY <1>10 DEF ProcessPrints, Deadline, BashTakesLine, At
    <3> QED
      BY <1>2, <1>6, <3>1, <3>2
  <2> QED
    BY <1>10, <2>1, <2>2, <2>3 DEF ProcessPrints, Deadline, BashTakesLine
<1> QED
  BY <1>2, <1>7, <1>8, <1>9, <1>10 DEF BashStep

(* A plan tool writes the kubeconfig of its environment, or loads it. *)
LEMMA PlanMoves ==
    ASSUME CallsOK, NEW t \in Threads, NEW i \in 1 .. 3, PlanStep(t, i)
    PROVE  /\ CallMoves(t, i) /\ call[t][i].req.tool = "plan"
           /\ \/ call'[t][i].pc = "done" /\ call'[t][i].answer = "no_target" /\ UNCHANGED kubeconfig
              \/ /\ call'[t][i].pc = "load" /\ call'[t][i].answer = None
                 /\ EnvName(t) # None /\ kubeconfig' = [kubeconfig EXCEPT ![EnvName(t)] = t]
              \/ /\ call[t][i].pc = "load" /\ call'[t][i].pc = "done" /\ call'[t][i].answer = "reached"
                 /\ call'[t][i].next = <<kubeconfig[EnvName(t)]>> /\ UNCHANGED kubeconfig
<1> DEFINE c == call[t][i]
<1>1. /\ i \in 1 .. Len(call[t]) /\ CallOK(c) /\ c.req \in Request
      /\ c.pc = "load" \/ (c.pc = "start" /\ c.req.tool = "plan")
  BY CallAt DEF PlanStep, PlanMaterializes, PlanLoads, Starts, At
<1>2. c.req.tool = "plan" /\ ~HasPath(c)
  BY <1>1, CallFacts
<1>3. /\ "load" \in Places[c.req.tool]
      /\ {"no_target", "reached"} \subseteq Replies[c.req.tool] \ {"written"}
  BY <1>2 DEF Places, Replies
<1>4. ASSUME NEW a \in {"no_target", "reached"}, NEW next, Answer(t, i, a, next)
      PROVE  CallMoves(t, i) /\ call'[t][i].pc = "done" /\ call'[t][i].answer = a /\ call'[t][i].next = next
  BY <1>1, <1>2, <1>3, <1>4, AnswerMoves
<1>5. ASSUME c.pc = "start", call' = [call EXCEPT ![t][i].pc = "load"]
      PROVE  CallMoves(t, i) /\ call'[t][i].pc = "load" /\ call'[t][i].answer = None
  <2> DEFINE d == [c EXCEPT !.pc = "load"]
  <2>1. Becomes(t, i, d)
    BY <1>1, <1>5 DEF Becomes, CallsOK, CallOK
  <2>2. /\ DOMAIN d = DOMAIN c /\ d.req = c.req /\ d.pc = "load" /\ d.answer = c.answer
        /\ d.next = c.next /\ d.base = c.base /\ {d.alone, d.line, d.late} \subseteq BOOLEAN
    BY <1>1 DEF CallOK
  <2>3. c.base \in Seq(Lines) \cup {None} /\ c.answer = None
    BY <1>1, <1>2, <1>5 DEF CallOK
  <2> HIDE DEF d
  <2>4. CallMoves(t, i) /\ call'[t][i] = d
    BY <1>1, <1>2, <1>3, <1>5, <2>1, <2>2, <2>3, LocalMoves DEF HasPath
  <2> QED
    BY <2>2, <2>3, <2>4
<1>6. CASE PlanMaterializes(t, i)
  <2>1. CASE EnvName(t) = None
    BY <1>2, <1>4, <1>6, <2>1 DEF PlanMaterializes
  <2>2. CASE EnvName(t) # None
    BY <1>2, <1>5, <1>6, <2>2 DEF PlanMaterializes, Starts, At, KubeconfigOf
  <2> QED
    BY <2>1, <2>2
<1>7. CASE PlanLoads(t, i)
  BY <1>2, <1>4, <1>7 DEF PlanLoads, At, KubeconfigOf, Quiet
<1> QED
  BY <1>6, <1>7 DEF PlanStep

(* A skill is loaded only if the thread may have it and somebody registered it. *)
LEMMA SkillMoves ==
    ASSUME CallsOK, NEW t \in Threads, NEW i \in 1 .. 3, SkillAnswers(t, i)
    PROVE  /\ CallMoves(t, i) /\ call[t][i].req.tool = "Skill"
           /\ call'[t][i].answer = "loaded" =>
                 /\ call[t][i].req.skill \in Available(t) \cap DOMAIN SkillTools
                 /\ call'[t][i].next = WithSkill(t, call[t][i].req.skill)
<1> DEFINE c == call[t][i]
<1>1. i \in 1 .. Len(call[t]) /\ CallOK(c) /\ c.req \in Request /\ c.req.tool = "Skill"
  BY CallAt DEF SkillAnswers, Starts, At
<1>2. ~HasPath(c) /\ {"not_permitted", "unknown", "loaded"} \subseteq Replies[c.req.tool] \ {"written"}
  BY <1>1, CallFacts DEF Replies
<1>3. ASSUME NEW a \in {"not_permitted", "unknown", "loaded"}, NEW next, Answer(t, i, a, next)
      PROVE  CallMoves(t, i) /\ call'[t][i].answer = a /\ call'[t][i].next = next
  BY <1>1, <1>2, <1>3, AnswerMoves
<1> QED
  BY <1>1, <1>3 DEF SkillAnswers

LEMMA TodosMoves ==
    ASSUME CallsOK, NEW t \in Threads, NEW i \in 1 .. 3, TodosAnswers(t, i)
    PROVE  CallMoves(t, i) /\ call[t][i].req.tool = "Todos"
<1> DEFINE c == call[t][i]
<1>1. i \in 1 .. Len(call[t]) /\ CallOK(c) /\ c.req.tool = "Todos" /\ Answer(t, i, "updated", <<>>)
  BY CallAt DEF TodosAnswers, Starts, At
<1>2. ~HasPath(c) /\ "updated" \in Replies[c.req.tool] \ {"written"}
  BY <1>1, CallFacts DEF Replies
<1> QED
  BY <1>1, <1>2, AnswerMoves

LEMMA AskMoves ==
    ASSUME CallsOK, NEW t \in Threads, NEW i \in 1 .. 3, AskInterrupts(t, i)
    PROVE  CallMoves(t, i) /\ call[t][i].req.tool = "Ask"
<1> DEFINE c == call[t][i]
           d == [c EXCEPT !.pc = "asking"]
<1>1. /\ i \in 1 .. Len(call[t]) /\ CallOK(c) /\ c.req.tool = "Ask" /\ c.pc = "start"
      /\ call' = [call EXCEPT ![t][i].pc = "asking"]
  BY CallAt DEF AskInterrupts, Starts, At
<1>2. Becomes(t, i, d)
  BY <1>1 DEF Becomes, CallsOK, CallOK
<1>3. /\ DOMAIN d = DOMAIN c /\ d.req = c.req /\ d.pc = "asking" /\ d.answer = c.answer
      /\ d.next = c.next /\ d.base = c.base /\ {d.alone, d.line, d.late} \subseteq BOOLEAN
  BY <1>1 DEF CallOK
<1>4. ~HasPath(c) /\ c.base \in Seq(Lines) \cup {None}
  BY <1>1, CallFacts DEF CallOK
<1>5. "asking" \in Places[c.req.tool]
  BY <1>1 DEF Places
<1> HIDE DEF d
<1> QED
  BY <1>1, <1>2, <1>3, <1>4, <1>5, LocalMoves DEF HasPath
-----------------------------------------------------------------------------
(* One step of one call, whoever takes it. *)
StepOf(t, i) ==
    \/ FileStep(t, i) \/ BashStep(t, i) \/ PlanStep(t, i) \/ ProcessStep(t, i) \/ Deadline(t, i)
    \/ SkillAnswers(t, i) \/ TodosAnswers(t, i) \/ AskInterrupts(t, i)

(* What the tools work on. *)
StoreOK ==
    /\ files \in [Paths -> Seq(Lines) \cup {None}]
    /\ kubeconfig \in [{EnvName(t) : t \in Threads} \cup {"config"} -> Threads \cup {None}]
    /\ merged \in Threads \cup {None}
    /\ view \in [Threads -> [Paths -> Seq(Lines) \cup {None}]]
    /\ known \in [Threads -> [Paths -> Seq(Lines) \cup {None}]]

(* The tool of a call says which steps are its. *)
LEMMA StepTool ==
    ASSUME CallsOK, NEW t \in Threads, NEW i \in 1 .. 3, StepOf(t, i)
    PROVE  /\ i \in 1 .. Len(call[t])
           /\ call[t][i].req.tool = "plan" => PlanStep(t, i)
           /\ call[t][i].req.tool = "Skill" => SkillAnswers(t, i)
           /\ call[t][i].req.tool \in {"Read", "Write", "Edit"} => FileStep(t, i)
<1> DEFINE c == call[t][i]
<1>1. i <= Len(call[t])
  BY DEF StepOf, FileStep, BashStep, PlanStep, ProcessStep, RefusePath, ReadFile, Truncate, Fill,
         EditReads, EditRereads, BashStarts, BashTakesLine, BashEnds, PlanMaterializes, PlanLoads,
         ProcessWrites, ProcessPrints, ProcessExits, Deadline, SkillAnswers, TodosAnswers,
         AskInterrupts, Starts, At, Left
<1>2. i \in 1 .. Len(call[t]) /\ CallOK(c)
  BY <1>1, CallAt
<1>3. FileStep(t, i) => c.req.tool \in {"Read", "Write", "Edit"}
  BY <1>2, CallFacts DEF FileStep, RefusePath, ReadFile, Truncate, Fill, EditReads, EditRereads, Starts, At
<1>4. BashStep(t, i) \/ ProcessStep(t, i) \/ Deadline(t, i) => c.req.tool = "bash"
  BY BashMoves, CommandWrites DEF ProcessStep
<1>5. PlanStep(t, i) => c.req.tool = "plan"
  BY PlanMoves
<1>6. /\ SkillAnswers(t, i) => c.req.tool = "Skill"
      /\ TodosAnswers(t, i) => c.req.tool = "Todos"
      /\ AskInterrupts(t, i) => c.req.tool = "Ask"
  BY DEF SkillAnswers, TodosAnswers, AskInterrupts, Starts
<1> QED
  BY <1>2, <1>3, <1>4, <1>5, <1>6 DEF StepOf

LEMMA StepMoves ==
    ASSUME CallsOK, StoreOK, NEW t \in Threads, NEW i \in 1 .. 3, StepOf(t, i)
    PROVE  CallMoves(t, i) /\ StoreOK' /\ UNCHANGED <<view, merged>>
<1>1. CASE RefusePath(t, i) \/ ReadFile(t, i)
  BY <1>1, ReadFileMoves DEF StoreOK, RefusePath, ReadFile, Quiet
<1>2. CASE EditReads(t, i) \/ EditRereads(t, i)
  <2>1. CallMoves(t, i)
    BY <1>2, EditMoves DEF StoreOK
  <2>2. Quiet
    BY <1>2 DEF EditReads, EditRereads
  <2> QED
    BY <2>1, <2>2 DEF StoreOK, Quiet
<1>3. ASSUME NEW content \in Seq(Lines) \cup {None}, Changes(t, i, content, call'[t][i])
      PROVE  StoreOK' /\ UNCHANGED <<view, merged>>
  <2>1. /\ files' \in [Paths -> Seq(Lines) \cup {None}]
        /\ known' \in [Threads -> [Paths -> Seq(Lines) \cup {None}]]
        /\ UNCHANGED <<kubeconfig, merged, view>>
    BY <1>3, ChangesTypes DEF StoreOK
  <2> QED
    BY <2>1 DEF StoreOK
<1>4. CASE Truncate(t, i)
  <2>1. CallMoves(t, i) /\ Changes(t, i, <<>>, call'[t][i])
    BY <1>4, TruncateMoves
  <2> QED
    BY <1>3, <2>1, NoneIsNoContent
<1>5. CASE Fill(t, i)
  <2> DEFINE content == Over(call[t][i].next, files[Path(t, i)])
  <2>1. CallMoves(t, i) /\ Changes(t, i, content, call'[t][i]) /\ content \in Seq(Lines) \cup {None}
    BY <1>5, FillMoves DEF StoreOK
  <2> HIDE DEF content
  <2> QED
    BY <1>3, <2>1
<1>6. CASE ProcessWrites(t, i)
  BY <1>3, <1>6, CommandWrites
<1>7. CASE BashStep(t, i) \/ ProcessPrints(t, i) \/ ProcessExits(t, i) \/ Deadline(t, i)
  <2>1. Quiet
    BY <1>7 DEF BashStep, BashStarts, BashTakesLine, BashEnds, ProcessPrints, ProcessExits, Deadline
  <2> QED
    BY <1>7, <2>1, BashMoves DEF StoreOK, Quiet
<1>8. CASE PlanStep(t, i)
  <2>1. UNCHANGED <<files, merged, view, known>>
    BY <1>8 DEF PlanStep, PlanMaterializes, PlanLoads, Quiet
  <2>2. kubeconfig' = kubeconfig \/ kubeconfig' = [kubeconfig EXCEPT ![EnvName(t)] = t]
    BY <1>8, PlanMoves
  <2>3. kubeconfig' \in [{EnvName(u) : u \in Threads} \cup {"config"} -> Threads \cup {None}]
    BY <2>2 DEF StoreOK
  <2> QED
    BY <1>8, <2>1, <2>3, PlanMoves DEF StoreOK
<1>9. CASE SkillAnswers(t, i) \/ TodosAnswers(t, i) \/ AskInterrupts(t, i)
  <2>1. CallMoves(t, i)
    BY <1>9, SkillMoves, TodosMoves, AskMoves
  <2>2. Quiet
    BY <1>9 DEF SkillAnswers, TodosAnswers, AskInterrupts
  <2> QED
    BY <2>1, <2>2 DEF StoreOK, Quiet
<1> QED
  BY <1>1, <1>2, <1>4, <1>5, <1>6, <1>7, <1>8, <1>9 DEF StepOf, FileStep, ProcessStep
-----------------------------------------------------------------------------
(* Where the graph of each thread is. *)
ThreadsOK ==
    /\ DOMAIN thread = Threads
    /\ \A t \in Threads :
          /\ DOMAIN thread[t] = {"pc", "active", "told"}
          /\ thread[t].pc \in {"idle", "agent", "tools", "asked", "failed"}
          /\ thread[t].pc \in {"idle", "agent"} => call[t] = <<>>
    /\ sent \in [Threads -> Nat]

LEMMA TypeParts == RunTypeOK <=> StoreOK /\ CallsOK /\ ThreadsOK
  BY DEF RunTypeOK, StoreOK, CallsOK, ThreadsOK

LEMMA TypePartsNext == RunTypeOK' <=> StoreOK' /\ CallsOK' /\ ThreadsOK'
  BY DEF RunTypeOK, StoreOK, CallsOK, ThreadsOK

(* What a thread is told of a file, it is told by one call on it. *)
LEMMA LearntFrom ==
    ASSUME CallsOK, NEW t \in Threads, NEW p
    PROVE  \/ Learnt(t, p) = known[t][p]
           \/ \E i \in 1 .. Len(call[t]) :
                 /\ HasPath(call[t][i]) /\ call[t][i].req.path = p
                 /\ Learnt(t, p) = Told(t, call[t][i], p)
<1> DEFINE on == {i \in 1 .. Len(call[t]) : "path" \in DOMAIN call[t][i].req /\ Path(t, i) = p}
<1>1. CASE Cardinality(on) # 1
  BY <1>1 DEF Learnt
<1>2. CASE Cardinality(on) = 1
  <2>1. on # {}
    <3> HIDE DEF on
    <3> QED
      BY <1>2, FS_EmptySet
  <2>2. (CHOOSE i \in on : TRUE) \in on
    BY <2>1
  <2>3. Learnt(t, p) = Told(t, call[t][CHOOSE i \in on : TRUE], p)
    BY <1>2 DEF Learnt
  <2> QED
    BY <2>2, <2>3 DEF HasPath, Path
<1> QED
  BY <1>1, <1>2

LEMMA RecordedFrom ==
    ASSUME CallsOK, NEW t \in Threads, NEW p
    PROVE  \/ Recorded(t, p) = view[t][p]
           \/ \E i \in 1 .. Len(call[t]) :
                 Records(call[t][i], p) /\ Recorded(t, p) = call[t][i].next
<1> DEFINE by == {i \in 1 .. Len(call[t]) : Records(call[t][i], p)}
<1>1. CASE by = {}
  BY <1>1 DEF Recorded
<1>2. CASE by # {}
  <2>1. by \subseteq {1, 2, 3}
    BY DEF CallsOK
  <2>2. \E i \in by : \A j \in by : j <= i
    <3> HIDE DEF by
    <3>1. CASE 3 \in by
      BY <2>1, <3>1
    <3>2. CASE 3 \notin by /\ 2 \in by
      BY <2>1, <3>2
    <3>3. CASE 3 \notin by /\ 2 \notin by
      <4>1. \A j \in by : j = 1
        BY <2>1, <3>3
      <4> QED
        BY <1>2, <4>1
    <3> QED
      BY <3>1, <3>2, <3>3
  <2>3. (CHOOSE i \in by : \A j \in by : j <= i) \in by
    BY <2>2
  <2>4. Recorded(t, p) = call[t][CHOOSE i \in by : \A j \in by : j <= i].next
    BY <1>2 DEF Recorded
  <2> QED
    BY <2>3, <2>4
<1> QED
  BY <1>1, <1>2

LEMMA ToldType ==
    ASSUME NEW t, NEW c, NEW p, CallOK(c), HasPath(c),
           view[t][p] \in Seq(Lines) \cup {None}, known[t][p] \in Seq(Lines) \cup {None}
    PROVE  Told(t, c, p) \in Seq(Lines) \cup {None}
<1>1. c.next \in Seq(Lines) /\ c.base \in Seq(Lines) \cup {None} /\ c.req \in Request
  BY DEF CallOK
<1>2. c.req.tool = "Write" => c.req.lines \in Seq(Lines)
  BY <1>1, RequestShape
<1>3. c.req.tool = "Edit" /\ c.base # None => Replaced(c.base, c.req.old, c.req.new) \in Seq(Lines)
  BY <1>1, RequestShape, ReplacedShape
<1>4. CASE ~c.alone
  BY <1>4 DEF Told
<1>5. CASE c.alone /\ c.req.tool = "Read"
  BY <1>1, <1>5 DEF Told
<1>6. CASE c.alone /\ c.req.tool = "Write"
  BY <1>2, <1>6 DEF Told
<1>7. CASE c.alone /\ c.req.tool = "Edit"
  BY <1>3, <1>7 DEF Told
<1>8. CASE c.alone /\ c.req.tool \notin {"Read", "Write", "Edit"}
  BY <1>8 DEF Told
<1> QED
  BY <1>4, <1>5, <1>6, <1>7, <1>8

LEMMA CommitTypes ==
    ASSUME CallsOK, StoreOK, NEW t \in Threads, NEW p \in Paths
    PROVE  /\ Recorded(t, p) \in Seq(Lines) \cup {None}
           /\ Learnt(t, p) \in Seq(Lines) \cup {None}
<1>1. view[t][p] \in Seq(Lines) \cup {None} /\ known[t][p] \in Seq(Lines) \cup {None}
  BY DEF StoreOK
<1>2. ASSUME NEW i \in 1 .. Len(call[t])
      PROVE  /\ CallOK(call[t][i]) /\ call[t][i].req \in Request
             /\ call[t][i].base \in Seq(Lines) \cup {None}
             /\ HasPath(call[t][i]) => call[t][i].next \in Seq(Lines)
  BY DEF CallsOK, CallOK
<1>3. Recorded(t, p) \in Seq(Lines) \cup {None}
  <2>1. ASSUME NEW i \in 1 .. Len(call[t]), Records(call[t][i], p)
        PROVE  call[t][i].next \in Seq(Lines)
    BY <1>2, <2>1, CallFacts DEF Records
  <2> QED
    BY <1>1, <2>1, RecordedFrom
<1>4. ASSUME NEW i \in 1 .. Len(call[t]), HasPath(call[t][i])
      PROVE  Told(t, call[t][i], p) \in Seq(Lines) \cup {None}
  BY <1>1, <1>2, <1>4, ToldType
<1> QED
  BY <1>1, <1>3, <1>4, LearntFrom

(* A thread that begins a step has new calls, whether it asks for them or comes
   back to them with the answer of a question.                                *)
LEMMA NewCalls ==
    ASSUME RunTypeOK, NEW t \in Threads,
           Resume(t) \/ \E m \in Messages[t] : AgentCalls(t, m)
    PROVE  /\ \A u \in Threads \ {t} : call'[u] = call[u]
           /\ DOMAIN call' = Threads
           /\ Len(call'[t]) \in 0 .. 3 /\ DOMAIN call'[t] = 1 .. Len(call'[t])
           /\ \A i \in 1 .. Len(call'[t]) :
                 /\ CallOK(call'[t][i])
                 /\ \/ \E r \in Request : call'[t][i] = NewCall(r)
                    \/ /\ call'[t][i].req.tool = "Ask"
                       /\ call'[t][i].pc = "done" /\ call'[t][i].answer = "answered"
<1>1. CASE \E m \in Messages[t] : AgentCalls(t, m)
  <2>1. PICK m \in Messages[t] : AgentCalls(t, m)
    BY <1>1
  <2>2. m \in Seq(Request) /\ Len(m) \in 0 .. 3
    <3>1. m \in Seq(Request) /\ Len(m) <= 3
      BY RunAssumption
    <3>2. \A k \in Nat : k <= 3 => k \in 0 .. 3
      OBVIOUS
    <3>3. Len(m) \in Nat
      BY <3>1
    <3>4. Len(m) \in 0 .. 3
      BY <3>1, <3>2, <3>3
    <3> QED
      BY <3>1, <3>4
  <2>3. call' = [call EXCEPT ![t] = [i \in 1 .. Len(m) |-> NewCall(m[i])]]
    BY <2>1 DEF AgentCalls
  <2>4. \A i \in 1 .. Len(m) : m[i] \in Request /\ CallOK(NewCall(m[i]))
    BY <2>2, NewCallOK
  <2>5. call'[t] = [i \in 1 .. Len(m) |-> NewCall(m[i])] /\ Len(call'[t]) = Len(m)
    BY <2>2, <2>3 DEF RunTypeOK
  <2> QED
    BY <2>2, <2>3, <2>4, <2>5 DEF RunTypeOK
<1>2. CASE Resume(t)
  <2> DEFINE n == Len(call[t])
             answered(r) == [NewCall(r) EXCEPT !.pc = "done", !.answer = "answered"]
  <2>1. n \in 0 .. 3 /\ \A i \in 1 .. n : CallOK(call[t][i]) /\ call[t][i].req \in Request
    BY DEF RunTypeOK, CallOK
  <2>2. call' = [call EXCEPT ![t] = [i \in 1 .. n |->
                    IF call[t][i].req.tool = "Ask" THEN answered(call[t][i].req)
                    ELSE NewCall(call[t][i].req)]]
    BY <1>2 DEF Resume
  <2>3. /\ call'[t] = [i \in 1 .. n |-> IF call[t][i].req.tool = "Ask" THEN answered(call[t][i].req)
                                        ELSE NewCall(call[t][i].req)]
        /\ \A u \in Threads \ {t} : call'[u] = call[u]
        /\ DOMAIN call' = Threads
    <3> HIDE DEF answered, n
    <3> QED
      BY <2>2 DEF RunTypeOK
  <2>6. Len(call'[t]) = n
    <3> HIDE DEF answered
    <3> QED
      BY <2>1, <2>3
  <2>4. ASSUME NEW i \in 1 .. n, call[t][i].req.tool = "Ask"
        PROVE  /\ CallOK(answered(call[t][i].req))
               /\ answered(call[t][i].req).req = call[t][i].req
               /\ answered(call[t][i].req).pc = "done"
               /\ answered(call[t][i].req).answer = "answered"
    <3> DEFINE r == call[t][i].req
    <3>1. r \in Request /\ r.tool = "Ask" /\ ~("path" \in DOMAIN r)
      BY <2>1, <2>4, RequestShape
    <3>2. "done" \in Places[r.tool] /\ "answered" \in Replies[r.tool] \ {"written"}
      BY <3>1 DEF Places, Replies
    <3> HIDE DEF r
    <3>3. /\ answered(r).req = r /\ answered(r).pc = "done" /\ answered(r).answer = "answered"
          /\ DOMAIN answered(r) = {"req", "pc", "next", "base", "alone", "line", "late", "answer"}
          /\ answered(r).base = None
          /\ {answered(r).alone, answered(r).line, answered(r).late} \subseteq BOOLEAN
      BY DEF NewCall
    <3> HIDE DEF answered
    <3>4. CallOK(answered(r))
      BY <3>1, <3>2, <3>3 DEF CallOK, HasPath
    <3> QED
      BY <3>3, <3>4 DEF r
  <2>5. \A i \in 1 .. n : CallOK(NewCall(call[t][i].req))
    BY <2>1, NewCallOK
  <2> HIDE DEF answered
  <2> QED
    BY <2>1, <2>3, <2>4, <2>5, <2>6 DEF RunTypeOK
<1> QED
  BY <1>1, <1>2

(* The steps of the system, as the proofs take them. *)
LEMMA NextCases ==
    ASSUME RunNext
    PROVE  \E t \in Threads :
              \/ \E i \in 1 .. 3 :
                    /\ StepOf(t, i) /\ UNCHANGED sent
                    /\ UNCHANGED thread \/ thread' = [thread EXCEPT ![t].pc = "asked"]
              \/ Resume(t) \/ \E m \in Messages[t] : AgentCalls(t, m)
              \/ StartTurn(t) \/ AgentEnds(t) \/ ToolRaises(t)
              \/ ToolsCommit(t)
  BY DEF RunNext, ThreadStep, GraphStep, CallStep, ClockStep, Clock, StepOf, AskInterrupts

(* The types hold, whatever the models ask for and however the calls of all
   threads interleave.                                                        *)
THEOREM TypesHold == RunSpec => []RunTypeOK
<1>1. RunInit => RunTypeOK
  <2> SUFFICES ASSUME RunInit PROVE RunTypeOK
    OBVIOUS
  <2>1. StoreOK
    BY RunAssumption DEF RunInit, StoreOK
  <2>2. CallsOK
    BY DEF RunInit, CallsOK
  <2>3. ThreadsOK
    BY DEF RunInit, ThreadsOK
  <2> QED
    BY <2>1, <2>2, <2>3, TypeParts
<1>2. ASSUME RunTypeOK, [RunNext]_runVars
      PROVE  RunTypeOK'
  <2> USE TypeParts
  <2>1. StoreOK /\ CallsOK /\ ThreadsOK
    BY <1>2
  <2>2. CASE UNCHANGED runVars
    BY <1>2, <2>2 DEF runVars, toolVars, RunTypeOK, CallOK, HasPath
  <2>3. ASSUME NEW t \in Threads, NEW i \in 1 .. 3, StepOf(t, i),
               UNCHANGED thread \/ thread' = [thread EXCEPT ![t].pc = "asked"], UNCHANGED sent
        PROVE  RunTypeOK'
    <3>1. CallMoves(t, i) /\ StoreOK'
      BY <2>1, <2>3, StepMoves
    <3>2. \A u \in Threads : call[u] = <<>> => call'[u] = <<>>
      BY <2>1, <3>1 DEF CallMoves, CallsOK
    <3>3. ThreadsOK'
      BY <2>1, <2>3, <3>2 DEF ThreadsOK
    <3> QED
      BY <3>1, <3>3, TypePartsNext DEF CallMoves
  <2>4. ASSUME NEW t \in Threads, Resume(t) \/ \E m \in Messages[t] : AgentCalls(t, m)
        PROVE  RunTypeOK'
    <3>1. CallsOK'
      BY <1>2, <2>1, <2>4, NewCalls DEF CallsOK
    <3>2. /\ UNCHANGED <<files, kubeconfig, view, known>> /\ merged' \in Threads \cup {None}
          /\ thread' = [thread EXCEPT ![t].pc = "tools"]
          /\ sent' = sent \/ sent' = [sent EXCEPT ![t] = @ + 1]
      BY <2>1, <2>4 DEF Resume, AgentCalls, Quiet, BuildContext, MergedFor, StoreOK
    <3>3. StoreOK'
      BY <2>1, <3>2 DEF StoreOK
    <3>4. sent' \in [Threads -> Nat]
      BY <2>1, <3>2 DEF ThreadsOK
    <3>5. \A u \in Threads \ {t} : call'[u] = call[u]
      BY <1>2, <2>4, NewCalls
    <3>6. ThreadsOK'
      BY <2>1, <3>2, <3>4, <3>5 DEF ThreadsOK
    <3> QED
      BY <3>1, <3>3, <3>6, TypePartsNext
  <2>5. ASSUME NEW t \in Threads, StartTurn(t) \/ AgentEnds(t) \/ ToolRaises(t)
        PROVE  RunTypeOK'
    <3>1. UNCHANGED <<files, kubeconfig, view, known, call, sent>> /\ merged' \in Threads \cup {None}
      BY <2>1, <2>5 DEF StartTurn, AgentEnds, ToolRaises, toolVars, BuildContext, MergedFor, StoreOK
    <3>2. StoreOK' /\ CallsOK'
      BY <2>1, <3>1 DEF StoreOK, CallsOK, CallOK, HasPath
    <3>3. ThreadsOK'
      BY <2>1, <2>5, <3>1 DEF ThreadsOK, StartTurn, AgentEnds, ToolRaises
    <3> QED
      BY <3>2, <3>3, TypePartsNext
  <2>6. ASSUME NEW t \in Threads, ToolsCommit(t)
        PROVE  RunTypeOK'
    <3>1. CASE Conflict(t)
      <4>1. UNCHANGED <<toolVars, sent>> /\ thread' = [thread EXCEPT ![t].pc = "failed"]
        BY <2>6, <3>1 DEF ToolsCommit
      <4>2. StoreOK' /\ CallsOK'
        BY <2>1, <4>1 DEF StoreOK, CallsOK, CallOK, HasPath, toolVars
      <4>3. ThreadsOK'
        BY <2>1, <4>1 DEF ThreadsOK, toolVars
      <4> QED
        BY <4>2, <4>3, TypePartsNext
    <3>2. CASE ~Conflict(t)
      <4>1. /\ view' = [view EXCEPT ![t] = [p \in Paths |-> Recorded(t, p)]]
            /\ known' = [known EXCEPT ![t] = [p \in Paths |-> Learnt(t, p)]]
            /\ call' = [call EXCEPT ![t] = <<>>]
            /\ UNCHANGED <<files, kubeconfig, merged, sent>>
        BY <2>6, <3>2 DEF ToolsCommit
      <4>2. PICK active, told :
               thread' = [thread EXCEPT ![t] = [pc |-> "agent", active |-> active, told |-> told]]
        BY <2>6, <3>2 DEF ToolsCommit
      <4>3. StoreOK'
        BY <2>1, <4>1, CommitTypes DEF StoreOK
      <4>4. CallsOK'
        BY <2>1, <4>1 DEF CallsOK, CallOK, HasPath
      <4>5. ThreadsOK'
        BY <2>1, <4>1, <4>2 DEF ThreadsOK, CallsOK
      <4> QED
        BY <4>3, <4>4, <4>5, TypePartsNext
    <3> QED
      BY <3>1, <3>2
  <2> QED
    BY <1>2, <2>2, <2>3, <2>4, <2>5, <2>6, NextCases
<1> QED
  BY <1>1, <1>2, PTL DEF RunSpec
-----------------------------------------------------------------------------
(* A skill that was loaded in the step is one the thread may have, and its answer
   is what the thread had with what the skill unlocks.                        *)
LoadedOK ==
    \A t \in Threads : \A i \in 1 .. Len(call[t]) : call[t][i].answer = "loaded" =>
        /\ call[t][i].req.skill \in Available(t) \cap DOMAIN SkillTools
        /\ call[t][i].next = WithSkill(t, call[t][i].req.skill)


(* Two skills cannot be loaded in one step: the answers of both write the tools
   of the thread, and the step fails.                                         *)
LEMMA OneLoad ==
    ASSUME CallsOK, NEW t \in Threads, ~Conflict(t),
           NEW i \in 1 .. Len(call[t]), NEW j \in 1 .. Len(call[t]),
           call[t][i].answer = "loaded", call[t][j].answer = "loaded"
    PROVE  i = j
<1>1. Writes(call[t][i]) = {"active_tools"} /\ Writes(call[t][j]) = {"active_tools"}
  BY DEF Writes
<1>2. ~(i < j) /\ ~(j < i)
  BY <1>1 DEF Conflict
<1> QED
  BY <1>2 DEF CallsOK

(* AgentRun!SkillsHold: within a turn, over questions and resumes, the tools of
   every skill the model was told is loaded are bound, and no tool is that no
   permitted skill unlocks.                                                   *)
THEOREM SkillsStay == RunSpec => []SkillsHold
<1>1. RunInit => LoadedOK /\ SkillsHold
  <2> SUFFICES ASSUME RunInit PROVE LoadedOK /\ SkillsHold
    OBVIOUS
  <2>1. LoadedOK
    BY DEF RunInit, LoadedOK
  <2>2. \A t \in Threads : thread[t].active = {} /\ thread[t].told = {}
    BY DEF RunInit
  <2>3. SkillsHold
    BY <2>2 DEF SkillsHold, Bound
  <2> QED
    BY <2>1, <2>3
<1>2. ASSUME RunTypeOK, RunTypeOK', LoadedOK, SkillsHold, [RunNext]_runVars
      PROVE  LoadedOK' /\ SkillsHold'
  <2>1. StoreOK /\ CallsOK /\ ThreadsOK
    BY <1>2, TypeParts
  <2>2. CASE UNCHANGED runVars
    BY <1>2, <2>2 DEF runVars, toolVars, LoadedOK, SkillsHold, WithSkill, Bound
  <2>3. ASSUME NEW t \in Threads, NEW i \in 1 .. 3, StepOf(t, i),
               UNCHANGED thread \/ thread' = [thread EXCEPT ![t].pc = "asked"]
        PROVE  LoadedOK' /\ SkillsHold'
    <3>1. CallMoves(t, i) /\ i \in 1 .. Len(call[t])
      BY <2>1, <2>3, StepMoves, StepTool
    <3>2. \A u \in Threads : thread'[u].active = thread[u].active /\ thread'[u].told = thread[u].told
      BY <2>1, <2>3 DEF ThreadsOK
    <3>3. SkillsHold'
      BY <1>2, <3>2 DEF SkillsHold, Bound
    <3>4. ASSUME NEW u \in Threads, NEW j \in 1 .. Len(call'[u]), call'[u][j].answer = "loaded"
          PROVE  /\ call'[u][j].req.skill \in Available(u) \cap DOMAIN SkillTools
                 /\ call'[u][j].next = WithSkill(u, call'[u][j].req.skill)
      <4>1. j \in 1 .. Len(call[u]) /\ CallOK(call'[u][j])
        BY <3>1 DEF CallMoves, CallsOK
      <4>2. CASE u = t /\ j = i
        <5>1. call[t][i].req.tool = "Skill" /\ call'[t][i].req = call[t][i].req
          <6>1. call'[t][i].req.tool = "Skill"
            BY <3>4, <4>1, <4>2, CallFacts
          <6> QED
            BY <3>1, <6>1 DEF CallMoves
        <5>2. SkillAnswers(t, i)
          BY <2>1, <2>3, <5>1, StepTool
        <5> QED
          BY <2>1, <3>4, <4>2, <5>1, <5>2, SkillMoves
      <4>3. CASE u # t \/ j # i
        <5>1. Keeps(call[u][j], call'[u][j])
          BY <3>1, <4>1, <4>3 DEF CallMoves
        <5> QED
          BY <1>2, <3>4, <4>1, <5>1 DEF LoadedOK, Keeps
      <4> QED
        BY <4>2, <4>3
    <3>5. \A u \in Threads : \A s : WithSkill(u, s)' = WithSkill(u, s)
      BY <3>2 DEF WithSkill
    <3>6. LoadedOK'
      BY <3>4, <3>5 DEF LoadedOK
    <3> QED
      BY <3>3, <3>6
  <2>4. ASSUME NEW t \in Threads, Resume(t) \/ \E m \in Messages[t] : AgentCalls(t, m)
        PROVE  LoadedOK' /\ SkillsHold'
    <3>1. thread' = [thread EXCEPT ![t].pc = "tools"]
      BY <2>4 DEF Resume, AgentCalls
    <3>2. \A u \in Threads : thread'[u].active = thread[u].active /\ thread'[u].told = thread[u].told
      BY <2>1, <3>1 DEF ThreadsOK
    <3>3. SkillsHold'
      BY <1>2, <3>2 DEF SkillsHold, Bound
    <3>4. \A i \in 1 .. Len(call'[t]) : call'[t][i].answer \in {None, "answered"}
      <4>1. \A r : NewCall(r).answer = None
        BY DEF NewCall
      <4> QED
        BY <1>2, <2>4, <4>1, NewCalls
    <3>5. \A i \in 1 .. Len(call'[t]) : call'[t][i].answer # "loaded"
      BY <3>4, NoneIsNoAnswer
    <3>6. \A u \in Threads \ {t} : call'[u] = call[u]
      BY <1>2, <2>4, NewCalls
    <3>7. LoadedOK'
      BY <1>2, <3>2, <3>5, <3>6 DEF LoadedOK, WithSkill
    <3> QED
      BY <3>3, <3>7
  <2>5. ASSUME NEW t \in Threads, AgentEnds(t) \/ ToolRaises(t)
        PROVE  LoadedOK' /\ SkillsHold'
    <3>1. UNCHANGED call
          /\ \A u \in Threads : thread'[u].active = thread[u].active /\ thread'[u].told = thread[u].told
      BY <2>1, <2>5 DEF ThreadsOK, AgentEnds, ToolRaises, toolVars
    <3> QED
      BY <1>2, <3>1 DEF LoadedOK, SkillsHold, Bound, WithSkill
  <2>6. ASSUME NEW t \in Threads, StartTurn(t)
        PROVE  LoadedOK' /\ SkillsHold'
    <3>1. /\ UNCHANGED call /\ call[t] = <<>>
          /\ thread'[t].active = Essentials /\ thread'[t].told = {}
          /\ \A u \in Threads \ {t} : thread'[u] = thread[u]
      BY <2>1, <2>6 DEF ThreadsOK, StartTurn
    <3>2. LoadedOK'
      BY <1>2, <3>1 DEF LoadedOK, WithSkill
    <3>3. SkillsHold'
      BY <1>2, <3>1 DEF SkillsHold, Bound
    <3> QED
      BY <3>2, <3>3
  <2>7. ASSUME NEW t \in Threads, ToolsCommit(t)
        PROVE  LoadedOK' /\ SkillsHold'
    <3>1. CASE Conflict(t)
      <4>1. /\ UNCHANGED call
            /\ \A u \in Threads : thread'[u].active = thread[u].active /\ thread'[u].told = thread[u].told
        BY <2>1, <2>7, <3>1 DEF ThreadsOK, ToolsCommit, toolVars
      <4> QED
        BY <1>2, <4>1 DEF LoadedOK, SkillsHold, Bound, WithSkill
    <3>2. CASE ~Conflict(t)
      <4> DEFINE loads == {i \in 1 .. Len(call[t]) : call[t][i].answer = "loaded"}
                 first == CHOOSE i \in loads : TRUE
                 old == thread[t]
                 told == old.told \cup {call[t][i].req.skill : i \in loads}
                 active == IF loads = {} THEN old.active ELSE call[t][first].next
      <4>1. /\ thread' = [thread EXCEPT ![t] = [pc |-> "agent", active |-> active, told |-> told]]
            /\ call' = [call EXCEPT ![t] = <<>>]
        BY <2>7, <3>2 DEF ToolsCommit
      <4>2. /\ thread'[t].active = active /\ thread'[t].told = told /\ call'[t] = <<>>
            /\ \A u \in Threads \ {t} : thread'[u] = thread[u] /\ call'[u] = call[u]
        <5> HIDE DEF active, told
        <5> QED
          BY <2>1, <4>1 DEF ThreadsOK, CallsOK
      <4>3. LoadedOK'
        BY <1>2, <4>2 DEF LoadedOK, WithSkill
      <4>4. CASE loads = {}
        <5>1. told = old.told /\ active = old.active
          BY <4>4
        <5> HIDE DEF told, active, loads
        <5> QED
          BY <1>2, <4>2, <4>3, <5>1 DEF SkillsHold, Bound
      <4>5. CASE loads # {}
        <5> DEFINE s == call[t][first].req.skill
        <5>1. first \in loads
          BY <4>5
        <5>2. \A i \in loads : i = first
          BY <2>1, <3>2, <5>1, OneLoad
        <5>3. told = old.told \cup {s}
          BY <5>1, <5>2
        <5>4. active = Essentials \cup old.active \cup SkillTools[s]
              /\ s \in Available(t) \cap DOMAIN SkillTools
          BY <1>2, <4>5, <5>1 DEF LoadedOK, WithSkill
        <5>5. active # {}
          BY <5>4 DEF Essentials
        <5> HIDE DEF told, active, loads, first, s
        <5>6. Bound(t)' = active /\ Bound(t) \subseteq Essentials \cup old.active
              /\ Bound(t) \cup Essentials = Essentials \cup old.active
          <6>1. Bound(t)' = active
            BY <4>2, <5>5 DEF Bound
          <6>2. Bound(t) = IF old.active = {} THEN Essentials ELSE old.active
            BY DEF Bound
          <6> HIDE DEF old
          <6> QED
            BY <6>1, <6>2
        <5>7. Essentials \cup UNION {SkillTools[r] : r \in thread'[t].told} \subseteq Bound(t)'
          BY <1>2, <4>2, <5>3, <5>4, <5>6 DEF SkillsHold
        <5>8. Bound(t)' \subseteq Essentials \cup UNION {SkillTools[r] : r \in Available(t) \cap DOMAIN SkillTools}
          BY <1>2, <5>4, <5>6 DEF SkillsHold
        <5>9. \A u \in Threads \ {t} : Bound(u)' = Bound(u)
          BY <4>2 DEF Bound
        <5> QED
          BY <1>2, <4>2, <4>3, <5>7, <5>8, <5>9 DEF SkillsHold
      <4> QED
        BY <4>4, <4>5
    <3> QED
      BY <3>1, <3>2
  <2> QED
    BY <1>2, <2>2, <2>3, <2>4, <2>5, <2>6, <2>7, NextCases
<1> QED
  BY <1>1, <1>2, TypesHold, PTL DEF RunSpec
-----------------------------------------------------------------------------
(* Between the two steps of a plan tool the file of its environment's name holds a
   thread whose environment has the name.                                     *)
Namesake(t, v) == v \in Threads /\ EnvName(v) = EnvName(t)

AboutToLoadNamesake ==
    \A t \in Threads : \A i \in 1 .. Len(call[t]) :
        call[t][i].pc = "load" => EnvName(t) # None /\ Namesake(t, kubeconfig[EnvName(t)])

(* AgentRun!NamesStayApart: whatever the plan tools of all threads do between the
   two steps of one, the kubeconfig it loads is of an environment of the name it
   has materialized, for any configs of the threads.                          *)
THEOREM NamesakeReached == RunSpec => []NamesStayApart
<1>1. RunInit => AboutToLoadNamesake /\ NamesStayApart
  BY DEF RunInit, AboutToLoadNamesake, NamesStayApart
<1>2. ASSUME RunTypeOK, RunTypeOK', AboutToLoadNamesake, NamesStayApart, [RunNext]_runVars
      PROVE  AboutToLoadNamesake' /\ NamesStayApart'
  <2> DEFINE Fine(t, c, k) ==
               /\ c.pc = "load" => EnvName(t) # None /\ Namesake(t, k[EnvName(t)])
               /\ c.answer = "reached" => \E v \in Threads : Namesake(t, v) /\ c.next = <<v>>
  <2>1. StoreOK /\ CallsOK /\ ThreadsOK /\ CallsOK'
    BY <1>2, TypeParts, TypePartsNext
  <2>2. ASSUME NEW t \in Threads, NEW i \in 1 .. Len(call[t])
        PROVE  Fine(t, call[t][i], kubeconfig)
    BY <1>2, <2>2 DEF AboutToLoadNamesake, NamesStayApart, Namesake
  <2>3. SUFFICES ASSUME NEW t \in Threads, NEW i \in 1 .. Len(call'[t])
                 PROVE  Fine(t, call'[t][i], kubeconfig')
    BY DEF AboutToLoadNamesake, NamesStayApart, Namesake
  <2>4. CASE UNCHANGED <<call, kubeconfig>>
    BY <2>2, <2>3, <2>4
  <2>5. ASSUME NEW u \in Threads, NEW j \in 1 .. 3, StepOf(u, j)
        PROVE  Fine(t, call'[t][i], kubeconfig')
    <3>1. CallMoves(u, j) /\ j \in 1 .. Len(call[u]) /\ i \in 1 .. Len(call[t])
      BY <2>1, <2>5, StepMoves, StepTool DEF CallMoves
    <3>2. UNCHANGED kubeconfig
          \/ (EnvName(u) # None /\ kubeconfig' = [kubeconfig EXCEPT ![EnvName(u)] = u])
      <4>1. CASE call[u][j].req.tool = "plan"
        BY <2>1, <2>5, <4>1, StepTool, PlanMoves
      <4>2. CASE call[u][j].req.tool # "plan"
        <5>1. ~PlanStep(u, j)
          BY <2>1, <4>2, PlanMoves
        <5> QED
          BY <2>5, <5>1 DEF StepOf, FileStep, RefusePath, ReadFile, Truncate, Fill, EditReads,
             EditRereads, BashStep, BashStarts, BashTakesLine, BashEnds, ProcessStep, ProcessWrites,
             ProcessPrints, ProcessExits, Deadline, SkillAnswers, TodosAnswers, AskInterrupts,
             Quiet, Changes
      <4> QED
        BY <4>1, <4>2
    <3>3. EnvName(t) # None /\ Namesake(t, kubeconfig[EnvName(t)])
             => Namesake(t, kubeconfig'[EnvName(t)])
      <4>1. EnvName(t) \in DOMAIN kubeconfig
        BY <2>1 DEF StoreOK
      <4>2. EnvName(u) = EnvName(t) => Namesake(t, u)
        BY DEF Namesake
      <4> QED
        BY <3>2, <4>1, <4>2
    <3>4. CASE u = t /\ j = i
      <4>1. CASE call[t][i].req.tool = "plan"
        <5>1. /\ \/ call'[t][i].pc = "done" /\ call'[t][i].answer = "no_target"
                 \/ /\ call'[t][i].pc = "load" /\ call'[t][i].answer = None
                    /\ EnvName(t) # None /\ kubeconfig' = [kubeconfig EXCEPT ![EnvName(t)] = t]
                 \/ /\ call[t][i].pc = "load" /\ call'[t][i].pc = "done"
                    /\ call'[t][i].answer = "reached" /\ call'[t][i].next = <<kubeconfig[EnvName(t)]>>
          BY <2>1, <2>5, <3>4, <4>1, StepTool, PlanMoves
        <5>2. kubeconfig' = [kubeconfig EXCEPT ![EnvName(t)] = t]
                 => Namesake(t, kubeconfig'[EnvName(t)])
          BY <2>1 DEF StoreOK, Namesake
        <5>3. call[t][i].pc = "load" => Namesake(t, kubeconfig[EnvName(t)])
          BY <2>2, <3>1
        <5>4. CASE call'[t][i].pc = "load" /\ call'[t][i].answer = None
          BY <5>1, <5>2, <5>4, NoneIsNoAnswer
        <5>5. CASE call'[t][i].pc = "done" /\ call'[t][i].answer = "no_target"
          BY <5>5
        <5>6. CASE /\ call[t][i].pc = "load" /\ call'[t][i].pc = "done"
                   /\ call'[t][i].answer = "reached" /\ call'[t][i].next = <<kubeconfig[EnvName(t)]>>
          <6>1. PICK v \in Threads : v = kubeconfig[EnvName(t)]
            BY <5>3, <5>6 DEF Namesake
          <6>2. Namesake(t, v) /\ call'[t][i].next = <<v>>
            BY <5>3, <5>6, <6>1
          <6> QED
            BY <5>6, <6>2
        <5> QED
          BY <5>1, <5>4, <5>5, <5>6
      <4>2. CASE call[t][i].req.tool # "plan"
        <5>1. CallOK(call'[t][i]) /\ call'[t][i].req.tool # "plan"
          BY <3>1, <3>4, <4>2 DEF CallMoves, CallsOK
        <5> QED
          BY <5>1, CallFacts
      <4> QED
        BY <4>1, <4>2
    <3>5. CASE u # t \/ j # i
      <4>1. Keeps(call[t][i], call'[t][i])
        BY <3>1, <3>5 DEF CallMoves
      <4> QED
        BY <2>2, <2>3, <3>1, <3>3, <4>1 DEF Keeps
    <3> QED
      BY <3>4, <3>5
  <2>6. ASSUME NEW u \in Threads, Resume(u) \/ \E m \in Messages[u] : AgentCalls(u, m)
        PROVE  Fine(t, call'[t][i], kubeconfig')
    <3>1. UNCHANGED kubeconfig
      BY <2>6 DEF Resume, AgentCalls, Quiet
    <3>2. CASE u # t
      BY <1>2, <2>2, <2>3, <2>6, <3>1, <3>2, NewCalls
    <3>3. CASE u = t
      <4>1. \A r : NewCall(r).pc = "start" /\ NewCall(r).answer = None
        BY DEF NewCall
      <4>2. call'[t][i].pc # "load" /\ call'[t][i].answer # "reached"
        BY <1>2, <2>6, <3>3, <4>1, NewCalls, NoneIsNoAnswer
      <4> QED
        BY <4>2
    <3> QED
      BY <3>2, <3>3
  <2>7. ASSUME NEW u \in Threads, ToolsCommit(u)
        PROVE  Fine(t, call'[t][i], kubeconfig')
    <3>1. UNCHANGED kubeconfig /\ (UNCHANGED call \/ call' = [call EXCEPT ![u] = <<>>])
      BY <2>7 DEF ToolsCommit, toolVars
    <3>2. call'[t] = call[t]
      BY <2>1, <2>3, <3>1 DEF CallsOK
    <3> QED
      BY <2>2, <2>3, <3>1, <3>2
  <2>8. ASSUME NEW u \in Threads, StartTurn(u) \/ AgentEnds(u) \/ ToolRaises(u)
        PROVE  UNCHANGED <<call, kubeconfig>>
    BY <2>8 DEF StartTurn, AgentEnds, ToolRaises, toolVars
  <2> QED
    BY <1>2, <2>4, <2>5, <2>6, <2>7, <2>8, NextCases DEF runVars, toolVars
<1> QED
  BY <1>1, <1>2, TypesHold, PTL DEF RunSpec
-----------------------------------------------------------------------------
(* What a call knows of its file, `content`, and of the hash the conversation has
   of it, `seen`, while nobody else has changed the file.                     *)
ReadOK(content, seen, c) ==
    LET slice == Slice(content, c.req.offset, c.req.limit)
    IN  /\ c.answer \in {"success", "unchanged"} => c.req.path \in Paths /\ content # None
        /\ c.answer = "success" => c.next = slice
        /\ c.answer = "unchanged" => seen = slice

WriteOK(content, c) ==
    /\ c.pc = "fill" => content = <<>>
    /\ c.answer = "success" => content = c.req.lines

EditOK(content, c) ==
    LET edited == Replaced(c.base, c.req.old, c.req.new)
    IN  /\ c.pc = "reread" => content = c.base
        /\ c.pc \in {"truncate", "fill"} => c.next = edited
        /\ c.pc = "fill" => content = <<>>
        /\ c.answer = "success" => content = edited

FileOK(content, seen, c) ==
    /\ c.req.tool = "Write" /\ c.pc = "fill" => c.next = c.req.lines
    /\ c.alone /\ c.req.tool = "Read" => ReadOK(content, seen, c)
    /\ c.alone /\ c.req.tool = "Write" => WriteOK(content, c)
    /\ c.alone /\ c.req.tool = "Edit" /\ c.base # None => EditOK(content, c)

FilesOK ==
    \A t \in Threads : \A i \in 1 .. Len(call[t]) :
        FileOK(files[call[t][i].req.path], view[t][call[t][i].req.path], call[t][i])

(* A call that does not move still knows what it knew, if its file is as before
   or it is no longer alone.                                                  *)
LEMMA StillKnows ==
    ASSUME NEW c, NEW d, NEW before, NEW after, NEW seen,
           CallOK(c), Keeps(c, d), FileOK(before, seen, c),
           d.alone /\ HasPath(c) /\ c.req.path \in Paths => after = before
    PROVE  FileOK(after, seen, d)
<1>1. /\ d.req = c.req /\ d.pc = c.pc /\ d.next = c.next /\ d.base = c.base
      /\ d.answer = c.answer /\ (d.alone => c.alone)
  BY DEF Keeps
<1>2. HasPath(c) <=> c.req.tool \in {"Read", "Write", "Edit", "bash"}
  BY CallFacts
<1>3. CASE d.alone /\ d.req.tool = "Read"
  <2>1. ReadOK(before, seen, c)
    BY <1>1, <1>3 DEF FileOK
  <2>2. c.answer \in {"success", "unchanged"} => after = before
    BY <1>1, <1>2, <1>3, <2>1 DEF ReadOK
  <2>3. ReadOK(after, seen, d)
    BY <1>1, <2>1, <2>2 DEF ReadOK
  <2> QED
    BY <1>3, <2>3 DEF FileOK
<1>4. CASE d.alone /\ d.req.tool = "Write"
  <2>1. c.pc = "fill" \/ c.answer = "success" => after = before
    BY <1>1, <1>2, <1>4 DEF CallOK
  <2>2. WriteOK(after, d)
    BY <1>1, <1>4, <2>1 DEF FileOK, WriteOK
  <2> QED
    BY <1>1, <1>4, <2>2 DEF FileOK
<1>5. CASE d.alone /\ d.req.tool = "Edit" /\ d.base # None
  <2>1. c.pc \in {"reread", "fill"} \/ c.answer = "success" => after = before
    BY <1>1, <1>2, <1>5 DEF CallOK
  <2>2. EditOK(before, c)
    BY <1>1, <1>5 DEF FileOK
  <2>3. EditOK(after, d)
    BY <1>1, <2>1, <2>2 DEF EditOK
  <2> QED
    BY <1>5, <2>3 DEF FileOK
<1> QED
  BY <1>1, <1>3, <1>4, <1>5 DEF FileOK

(* What a step does to the files: nothing, or it changes the one of its call and
   leaves no other call on it alone.                                          *)
LEMMA FileEffect ==
    ASSUME CallsOK, StoreOK, NEW t \in Threads, NEW i \in 1 .. 3, StepOf(t, i)
    PROVE  \/ UNCHANGED <<files, known>>
           \/ /\ \A p \in Paths : p # Path(t, i) => files'[p] = files[p]
              /\ \A u \in Threads, p \in Paths :
                    known'[u][p] # None => p # Path(t, i) /\ known'[u][p] = known[u][p]
              /\ \A u \in Threads : \A j \in 1 .. Len(call[u]) :
                    (u # t \/ j # i) /\ HasPath(call[u][j]) /\ call[u][j].req.path = Path(t, i)
                        => ~call'[u][j].alone
<1>1. ASSUME NEW content \in Seq(Lines) \cup {None}, Changes(t, i, content, call'[t][i])
      PROVE  /\ \A p \in Paths : p # Path(t, i) => files'[p] = files[p]
             /\ \A u \in Threads, p \in Paths :
                   known'[u][p] # None => p # Path(t, i) /\ known'[u][p] = known[u][p]
  BY <1>1, ChangesTypes DEF StoreOK
<1>2. CASE Truncate(t, i)
  <2>1. /\ Changes(t, i, <<>>, call'[t][i])
        /\ \A u \in Threads : \A j \in 1 .. Len(call[u]) :
              (u # t \/ j # i) /\ HasPath(call[u][j]) /\ call[u][j].req.path = Path(t, i)
                  => ~call'[u][j].alone
    BY <1>2, TruncateMoves
  <2> QED
    BY <1>1, <2>1, NoneIsNoContent
<1>3. CASE Fill(t, i)
  <2> DEFINE content == Over(call[t][i].next, files[Path(t, i)])
  <2>1. /\ Changes(t, i, content, call'[t][i]) /\ content \in Seq(Lines) \cup {None}
        /\ \A u \in Threads : \A j \in 1 .. Len(call[u]) :
              (u # t \/ j # i) /\ HasPath(call[u][j]) /\ call[u][j].req.path = Path(t, i)
                  => ~call'[u][j].alone
    BY <1>3, FillMoves DEF StoreOK
  <2> HIDE DEF content
  <2> QED
    BY <1>1, <2>1
<1>4. CASE ProcessWrites(t, i)
  BY <1>1, <1>4, CommandWrites
<1>5. CASE ~Truncate(t, i) /\ ~Fill(t, i) /\ ~ProcessWrites(t, i)
  BY <1>5 DEF StepOf, FileStep, RefusePath, ReadFile, EditReads, EditRereads, BashStep, BashStarts,
              BashTakesLine, BashEnds, PlanStep, PlanMaterializes, PlanLoads, ProcessStep,
              ProcessPrints, ProcessExits, Deadline, SkillAnswers, TodosAnswers, AskInterrupts, Quiet
<1> QED
  BY <1>2, <1>3, <1>4, <1>5

(* A step of a call leaves the call with what it knows. *)
LEMMA KnowsAfter ==
    ASSUME CallsOK, StoreOK, PictureIsTrue, NEW t \in Threads, NEW i \in 1 .. 3, StepOf(t, i),
           FileOK(files[Path(t, i)], view[t][Path(t, i)], call[t][i])
    PROVE  FileOK(files'[Path(t, i)], view[t][Path(t, i)], call'[t][i])
<1> DEFINE p == Path(t, i)
           c == call[t][i]
           d == call'[t][i]
           content == files[p]
<1>1. /\ CallMoves(t, i) /\ i \in 1 .. Len(call[t]) /\ CallOK(c) /\ c.req \in Request
      /\ d.req = c.req
  BY StepMoves, StepTool DEF CallsOK, CallOK, CallMoves
<1>2. CallOK(d) /\ p = c.req.path
  BY <1>1 DEF CallMoves, CallsOK, Path
<1>3. CASE c.req.tool \notin {"Read", "Write", "Edit"}
  BY <1>1, <1>3 DEF FileOK
<1>4. CASE RefusePath(t, i) \/ ReadFile(t, i)
  <2>1. UNCHANGED files
    BY <1>4 DEF RefusePath, ReadFile, Quiet
  <2>2. /\ d.pc = "done"
        /\ d.answer \in {"success", "unchanged"} =>
              c.req.tool = "Read" /\ c.req.path \in Paths /\ content # None
        /\ d.answer = "success" => d.next = Slice(content, c.req.offset, c.req.limit)
        /\ d.answer = "unchanged" => view[t][p] = Slice(content, c.req.offset, c.req.limit)
    BY <1>4, ReadFileMoves DEF StoreOK
  <2> QED
    BY <1>1, <2>1, <2>2 DEF FileOK, ReadOK, WriteOK, EditOK
<1>5. CASE EditReads(t, i) \/ EditRereads(t, i)
  <2>1. UNCHANGED files
    BY <1>5 DEF EditReads, EditRereads, Quiet
  <2>2. /\ c.req.tool = "Edit" /\ p \in Paths
        /\ \/ d.pc = "done" /\ d.answer # "success"
           \/ d.pc = "reread" /\ d.answer # "success" /\ d.base = known[t][p]
           \/ /\ c.pc = "reread" /\ d.pc = "truncate" /\ d.answer # "success"
              /\ d.base = c.base /\ d.alone = c.alone
              /\ d.next = Replaced(content, c.req.old, c.req.new)
    BY <1>5, EditMoves DEF StoreOK
  <2>3. known[t][p] # None => content = known[t][p]
    BY <2>2 DEF PictureIsTrue
  <2> QED
    BY <1>1, <2>1, <2>2, <2>3 DEF FileOK, EditOK
<1>6. CASE Truncate(t, i)
  <2>1. /\ Changes(t, i, <<>>, d) /\ c.req.tool \in {"Write", "Edit"}
        /\ d.pc = "fill" /\ d.alone = c.alone /\ d.base = c.base /\ d.answer # "success"
        /\ d.next = IF c.req.tool = "Write" THEN c.req.lines ELSE c.next
        /\ c.req.tool = "Edit" => c.pc = "truncate"
    BY <1>6, TruncateMoves, NoneIsNoAnswer
  <2>2. p \in Paths
    BY <1>1, <1>2, <2>1, CallFacts DEF CallOK
  <2>3. files'[p] = <<>>
    BY <2>1, <2>2 DEF Changes, StoreOK
  <2> QED
    BY <1>1, <2>1, <2>3 DEF FileOK, WriteOK, EditOK
<1>7. CASE Fill(t, i)
  <2>1. /\ Changes(t, i, Over(c.next, content), d) /\ c.req.tool \in {"Write", "Edit"}
        /\ c.req.path \in Paths /\ c.pc = "fill" /\ d.pc = "done" /\ d.answer = "success"
        /\ d.alone = c.alone /\ d.base = c.base /\ c.next \in Seq(Lines)
    BY <1>7, FillMoves DEF StoreOK
  <2>2. files'[p] = Over(c.next, content)
    BY <1>2, <2>1 DEF Changes, StoreOK
  <2>3. content = <<>> => files'[p] = c.next
    <3>1. Over(c.next, <<>>) = c.next
      BY <2>1, OverShape, NoneIsNoContent
    <3> QED
      BY <2>2, <3>1
  <2> QED
    BY <1>1, <2>1, <2>3 DEF FileOK, WriteOK, EditOK
<1>8. c.req.tool \in {"Read", "Write", "Edit"} => FileStep(t, i)
  BY StepTool
<1> QED
  BY <1>3, <1>4, <1>5, <1>6, <1>7, <1>8 DEF FileStep

(* What the one call on a path tells of the file is true. *)
LEMMA ToldIsTrue ==
    ASSUME NEW t \in Threads, NEW p \in Paths, NEW c, CallOK(c), HasPath(c), c.req.path = p,
           files[p] \in Seq(Lines) \cup {None}, known[t][p] # None => files[p] = known[t][p],
           FileOK(files[p], view[t][p], c), Told(t, c, p) # None
    PROVE  files[p] = Told(t, c, p)
<1>1. c.alone
  BY DEF Told
<1>2. c.req \in Request
  BY DEF CallOK
<1>3. CASE c.req.tool = "Read" /\ c.answer \in {"success", "unchanged"}
  <2> DEFINE read == IF c.answer = "unchanged" THEN view[t][p] ELSE c.next
  <2>1. read = Slice(files[p], c.req.offset, c.req.limit) /\ files[p] \in Seq(Lines)
    BY <1>1, <1>3 DEF FileOK, ReadOK
  <2>2. c.req.offset <= 1 /\ Len(read) < c.req.limit => read = files[p]
    BY <1>2, <1>3, <2>1, SliceShape, RequestShape
  <2>3. Told(t, c, p) = IF c.req.offset <= 1 /\ Len(read) < c.req.limit THEN read ELSE known[t][p]
    BY <1>1, <1>3 DEF Told
  <2> HIDE DEF read
  <2> QED
    BY <2>2, <2>3
<1>4. CASE c.req.tool = "Write" /\ c.answer = "success"
  BY <1>1, <1>4 DEF Told, FileOK, WriteOK
<1>5. CASE c.req.tool = "Edit" /\ c.answer = "success"
  BY <1>1, <1>5 DEF Told, FileOK, EditOK
<1>6. CASE ~(c.req.tool = "Read" /\ c.answer \in {"success", "unchanged"})
           /\ ~(c.req.tool \in {"Write", "Edit"} /\ c.answer = "success")
  BY <1>1, <1>6 DEF Told
<1> QED
  BY <1>3, <1>4, <1>5, <1>6

(* AgentRun!PictureIsTrue: what a conversation has been told of a file - by reads,
   by "unchanged", by the success of its own writes and edits - is the file,
   unless somebody else has changed it since.                                 *)
THEOREM ToldIsTheFile == RunSpec => []PictureIsTrue
<1>1. RunInit => FilesOK /\ PictureIsTrue
  BY DEF RunInit, FilesOK, PictureIsTrue
<1>2. ASSUME RunTypeOK, RunTypeOK', FilesOK, PictureIsTrue, [RunNext]_runVars
      PROVE  FilesOK' /\ PictureIsTrue'
  <2>1. StoreOK /\ CallsOK /\ ThreadsOK /\ CallsOK'
    BY <1>2, TypeParts, TypePartsNext
  <2>2. CASE UNCHANGED <<files, known, view, call>>
    BY <1>2, <2>2 DEF FilesOK, PictureIsTrue
  <2>3. ASSUME NEW t \in Threads, NEW i \in 1 .. 3, StepOf(t, i)
        PROVE  FilesOK' /\ PictureIsTrue'
    <3>1. CallMoves(t, i) /\ i \in 1 .. Len(call[t]) /\ UNCHANGED view
      BY <2>1, <2>3, StepMoves, StepTool
    <3>2. \/ UNCHANGED <<files, known>>
          \/ /\ \A p \in Paths : p # Path(t, i) => files'[p] = files[p]
             /\ \A u \in Threads, p \in Paths :
                   known'[u][p] # None => p # Path(t, i) /\ known'[u][p] = known[u][p]
             /\ \A u \in Threads : \A j \in 1 .. Len(call[u]) :
                   (u # t \/ j # i) /\ HasPath(call[u][j]) /\ call[u][j].req.path = Path(t, i)
                       => ~call'[u][j].alone
      BY <2>1, <2>3, FileEffect
    <3>3. PictureIsTrue'
      BY <1>2, <3>2 DEF PictureIsTrue
    <3>4. ASSUME NEW u \in Threads, NEW j \in 1 .. Len(call'[u])
          PROVE  FileOK(files'[call'[u][j].req.path], view'[u][call'[u][j].req.path], call'[u][j])
      <4> DEFINE c == call[u][j]
                 d == call'[u][j]
                 q == c.req.path
      <4>1. j \in 1 .. Len(call[u]) /\ CallOK(c) /\ FileOK(files[q], view[u][q], c)
        BY <1>2, <2>1, <3>1 DEF CallMoves, CallsOK, FilesOK
      <4>2. CASE u = t /\ j = i
        <5>1. q = Path(t, i) /\ d.req = c.req
          BY <3>1, <4>2 DEF Path, CallMoves
        <5>2. FileOK(files'[Path(t, i)], view[t][Path(t, i)], call'[t][i])
          BY <1>2, <2>1, <2>3, <4>1, <4>2, <5>1, KnowsAfter
        <5> QED
          BY <3>1, <4>2, <5>1, <5>2
      <4>3. CASE u # t \/ j # i
        <5>1. Keeps(c, d)
          BY <3>1, <4>1, <4>3 DEF CallMoves
        <5>2. d.alone /\ HasPath(c) /\ q \in Paths => files'[q] = files[q]
          BY <3>2, <4>1, <4>3
        <5>3. FileOK(files'[q], view[u][q], d)
          BY <4>1, <5>1, <5>2, StillKnows
        <5> QED
          BY <3>1, <5>1, <5>3 DEF Keeps
      <4> QED
        BY <4>2, <4>3
    <3>5. FilesOK'
      BY <3>4 DEF FilesOK
    <3> QED
      BY <3>3, <3>5
  <2>4. ASSUME NEW t \in Threads, Resume(t) \/ \E m \in Messages[t] : AgentCalls(t, m)
        PROVE  FilesOK' /\ PictureIsTrue'
    <3>1. UNCHANGED <<files, known, view>>
      BY <2>4 DEF Resume, AgentCalls, Quiet
    <3>2. ASSUME NEW i \in 1 .. Len(call'[t]), NEW content, NEW seen
          PROVE  FileOK(content, seen, call'[t][i])
      <4>1. \A r : /\ NewCall(r).pc = "start" /\ NewCall(r).answer = None /\ NewCall(r).base = None
        BY DEF NewCall
      <4>2. \/ /\ call'[t][i].pc = "start" /\ call'[t][i].answer = None
            \/ call'[t][i].req.tool = "Ask"
        BY <1>2, <2>4, <4>1, NewCalls
      <4> QED
        BY <4>2, NoneIsNoAnswer DEF FileOK, ReadOK, WriteOK, EditOK
    <3>3. \A u \in Threads \ {t} : call'[u] = call[u]
      BY <1>2, <2>4, NewCalls
    <3>4. FilesOK'
      BY <1>2, <3>1, <3>2, <3>3 DEF FilesOK
    <3> QED
      BY <1>2, <3>1, <3>4 DEF PictureIsTrue
  <2>5. ASSUME NEW t \in Threads, ToolsCommit(t), ~Conflict(t)
        PROVE  FilesOK' /\ PictureIsTrue'
    <3>1. /\ view' = [view EXCEPT ![t] = [p \in Paths |-> Recorded(t, p)]]
          /\ known' = [known EXCEPT ![t] = [p \in Paths |-> Learnt(t, p)]]
          /\ call' = [call EXCEPT ![t] = <<>>]
          /\ UNCHANGED files
      BY <2>5 DEF ToolsCommit
    <3>2. /\ \A u \in Threads \ {t} : call'[u] = call[u] /\ view'[u] = view[u] /\ known'[u] = known[u]
          /\ call'[t] = <<>>
          /\ \A p \in Paths : known'[t][p] = Learnt(t, p)
      BY <2>1, <3>1 DEF CallsOK, StoreOK
    <3>3. FilesOK'
      BY <1>2, <3>1, <3>2 DEF FilesOK
    <3>4. ASSUME NEW p \in Paths, Learnt(t, p) # None
          PROVE  files[p] = Learnt(t, p)
      <4>1. CASE Learnt(t, p) = known[t][p]
        BY <1>2, <3>4, <4>1 DEF PictureIsTrue
      <4>2. ASSUME NEW i \in 1 .. Len(call[t]), HasPath(call[t][i]), call[t][i].req.path = p,
                   Learnt(t, p) = Told(t, call[t][i], p)
            PROVE  files[p] = Learnt(t, p)
        <5>1. CallOK(call[t][i]) /\ FileOK(files[p], view[t][p], call[t][i])
          BY <1>2, <2>1, <4>2 DEF CallsOK, FilesOK
        <5>2. files[p] \in Seq(Lines) \cup {None} /\ (known[t][p] # None => files[p] = known[t][p])
          BY <1>2, <2>1 DEF StoreOK, PictureIsTrue
        <5> QED
          BY <3>4, <4>2, <5>1, <5>2, ToldIsTrue
      <4> QED
        BY <2>1, <4>1, <4>2, LearntFrom
    <3>5. PictureIsTrue'
      BY <1>2, <3>1, <3>2, <3>4 DEF PictureIsTrue
    <3> QED
      BY <3>3, <3>5
  <2>6. ASSUME NEW t \in Threads,
               StartTurn(t) \/ AgentEnds(t) \/ ToolRaises(t) \/ (ToolsCommit(t) /\ Conflict(t))
        PROVE  UNCHANGED <<files, known, view, call>>
    BY <2>6 DEF StartTurn, AgentEnds, ToolRaises, ToolsCommit, toolVars
  <2> QED
    BY <1>2, <2>2, <2>3, <2>4, <2>5, <2>6, NextCases DEF runVars, toolVars
<1> QED
  BY <1>1, <1>2, TypesHold, PTL DEF RunSpec
-----------------------------------------------------------------------------
(* The searches of FileSearch.  A search without limits and the one for a page go
   over the same files and lines side by side: what the second has collected is
   always the page of what the first has.                                     *)

(* A page of a search that goes on: it grows once it has begun, until it is full. *)
PageGrown(u, x, R, offset, head) ==
    /\ Page(u, offset, head) \in Seq(R)
    /\ Len(Page(u, offset, head)) =
          IF Len(u) <= offset THEN 0
          ELSE IF offset + head < Len(u) THEN head ELSE Len(u) - offset
    /\ Page(Append(u, x), offset, head) =
          IF Len(u) < offset \/ Len(u) >= offset + head THEN Page(u, offset, head)
          ELSE Append(Page(u, offset, head), x)

LEMMA PageGrows ==
    ASSUME NEW R, NEW u \in Seq(R), NEW x \in R, NEW offset \in Nat, NEW head \in Nat \ {0}
    PROVE  PageGrown(u, x, R, offset, head)
<1>1. /\ Page(u, offset, head) \in Seq(R)
      /\ Len(Page(u, offset, head)) =
                 IF Len(u) <= offset THEN 0
                 ELSE IF offset + head < Len(u) THEN head ELSE Len(u) - offset
  BY DEF Page
<1>2. CASE Len(u) < offset
  <2>1. Page(u, offset, head) = <<>> /\ Page(Append(u, x), offset, head) = <<>>
    BY <1>2 DEF Page
  <2> QED
    BY <1>1, <1>2, <2>1 DEF PageGrown
<1>3. CASE Len(u) >= offset + head
  <2>1. Page(Append(u, x), offset, head) = Page(u, offset, head)
    <3>1. Page(u, offset, head) = SubSeq(u, offset + 1, offset + head)
      BY <1>3 DEF Page
    <3>2. Page(Append(u, x), offset, head) = SubSeq(Append(u, x), offset + 1, offset + head)
      BY <1>3 DEF Page
    <3>3. SubSeq(Append(u, x), offset + 1, offset + head) = SubSeq(u, offset + 1, offset + head)
      BY <1>3
    <3> QED
      BY <3>1, <3>2, <3>3
  <2> QED
    BY <1>1, <1>3, <2>1 DEF PageGrown
<1>4. CASE Len(u) >= offset /\ Len(u) < offset + head
  <2>1. Page(u, offset, head) = SubSeq(u, offset + 1, Len(u))
    BY <1>4 DEF Page
  <2>2. Page(Append(u, x), offset, head) = SubSeq(Append(u, x), offset + 1, Len(u) + 1)
    BY <1>4 DEF Page
  <2>3. SubSeq(Append(u, x), offset + 1, Len(u) + 1) = Append(SubSeq(u, offset + 1, Len(u)), x)
    <3> DEFINE m == Len(u) - offset
               a == SubSeq(Append(u, x), offset + 1, Len(u) + 1)
               b == Append(SubSeq(u, offset + 1, Len(u)), x)
    <3>1. m \in Nat /\ Len(u) = offset + m
      BY <1>4
    <3>2. a \in Seq(R) /\ Len(a) = m + 1 /\ \A i \in 1 .. m + 1 : a[i] = Append(u, x)[offset + i]
      BY <3>1
    <3>3. b \in Seq(R) /\ Len(b) = m + 1 /\ b[m + 1] = x /\ \A i \in 1 .. m : b[i] = u[offset + i]
      BY <3>1
    <3>4. \A i \in 1 .. m + 1 : a[i] = b[i]
      <4> SUFFICES ASSUME NEW i \in 1 .. m + 1 PROVE a[i] = b[i]
        OBVIOUS
      <4>1. CASE i = m + 1
        <5>1. Append(u, x)[offset + i] = x
          BY <3>1, <4>1
        <5> HIDE DEF a, b, m
        <5> QED
          BY <3>2, <3>3, <4>1, <5>1
      <4>2. CASE i \in 1 .. m
        <5>1. Append(u, x)[offset + i] = u[offset + i]
          BY <3>1, <4>2
        <5> HIDE DEF a, b, m
        <5> QED
          BY <3>2, <3>3, <4>2, <5>1
      <4>3. i = m + 1 \/ i \in 1 .. m
        BY <3>1
      <4> QED
        BY <4>1, <4>2, <4>3
    <3> HIDE DEF a, b, m
    <3>5. a = b
      BY <3>1, <3>2, <3>3, <3>4
    <3> QED
      BY <3>5 DEF a, b
  <2>4. ~(Len(u) < offset \/ Len(u) >= offset + head)
    BY <1>4
  <2> QED
    BY <1>1, <2>1, <2>2, <2>3, <2>4 DEF PageGrown
<1> QED
  BY <1>2, <1>3, <1>4

(* The two searches side by side: a, of a page, and u, without limits. *)
Searches(R) == [skipped : Nat, results : Seq(R), stopped : BOOLEAN]

SideBySide(a, u, R, offset, head, full) ==
    /\ a \in Searches(R) /\ u \in Searches(R)
    /\ a.stopped <=> Len(a.results) >= head
    /\ u.stopped <=> Len(u.results) >= full
    /\ u.skipped = 0
    /\ ~u.stopped => /\ a.skipped = IF Len(u.results) < offset THEN Len(u.results) ELSE offset
                     /\ a.results = Page(u.results, offset, head)

(* Looking at the head limit changes nothing that is not wrong already. *)
LEMMA StopAtIs ==
    ASSUME NEW R, NEW s \in Searches(R), NEW head \in Nat \ {0}
    PROVE  /\ StopAt(s, head) \in Searches(R)
           /\ StopAt(s, head).skipped = s.skipped
           /\ StopAt(s, head).results = s.results
           /\ StopAt(s, head).stopped <=> Len(s.results) >= head
           /\ (s.stopped <=> Len(s.results) >= head) => StopAt(s, head) = s
<1>1. StopAt(s, head) = [skipped |-> s.skipped, results |-> s.results, stopped |-> Len(s.results) >= head]
  BY DEF Searches, StopAt
<1>2. (Len(s.results) >= head) \in BOOLEAN
  OBVIOUS
<1>3. /\ s.skipped \in Nat /\ s.results \in Seq(R) /\ s.stopped \in BOOLEAN
      /\ s = [skipped |-> s.skipped, results |-> s.results, stopped |-> s.stopped]
  BY DEF Searches
<1>4. StopAt(s, head) \in Searches(R)
  BY <1>1, <1>2, <1>3 DEF Searches
<1>5. ASSUME s.stopped <=> Len(s.results) >= head PROVE StopAt(s, head) = s
  <2>1. CASE s.stopped
    <3>1. s.stopped = TRUE /\ (Len(s.results) >= head) = TRUE
      BY <1>2, <1>3, <1>5, <2>1
    <3> QED
      BY <1>1, <1>3, <3>1
  <2>2. CASE ~s.stopped
    <3>1. s.stopped = FALSE /\ (Len(s.results) >= head) = FALSE
      BY <1>2, <1>3, <1>5, <2>2
    <3> QED
      BY <1>1, <1>3, <3>1
  <2> QED
    BY <2>1, <2>2
<1>6. StopAt(s, head).skipped = s.skipped /\ StopAt(s, head).results = s.results
  BY <1>1
<1>7. StopAt(s, head).stopped <=> Len(s.results) >= head
  <2> DEFINE enough == Len(s.results) >= head
  <2>1. StopAt(s, head) = [skipped |-> s.skipped, results |-> s.results, stopped |-> enough]
    BY <1>1
  <2>2. enough \in BOOLEAN
    OBVIOUS
  <2> HIDE DEF enough
  <2>3. StopAt(s, head).stopped = enough
    BY <2>1
  <2>4. StopAt(s, head).stopped <=> enough
    BY <2>2, <2>3
  <2> QED
    BY <2>4 DEF enough
<1> QED
  BY <1>4, <1>5, <1>6, <1>7

(* A match is skipped or collected. *)
LEMMA CollectIs ==
    ASSUME NEW R, NEW s \in Searches(R), NEW x \in R, NEW offset \in Nat, NEW head \in Nat \ {0}
    PROVE  /\ Collect(s, x, offset) \in Searches(R)
           /\ s.skipped < offset => /\ Collect(s, x, offset).skipped = s.skipped + 1
                                    /\ Collect(s, x, offset).results = s.results
           /\ ~(s.skipped < offset) => /\ Collect(s, x, offset).skipped = s.skipped
                                       /\ Collect(s, x, offset).results = Append(s.results, x)
           /\ Collect(s, x, offset).stopped = s.stopped
<1>1. CASE s.skipped < offset
  <2>1. Collect(s, x, offset) = [skipped |-> s.skipped + 1, results |-> s.results, stopped |-> s.stopped]
    BY <1>1 DEF Collect, Searches
  <2> QED
    BY <1>1, <2>1 DEF Searches
<1>2. CASE ~(s.skipped < offset)
  <2>1. Collect(s, x, offset) = [skipped |-> s.skipped, results |-> Append(s.results, x), stopped |-> s.stopped]
    BY <1>2 DEF Collect, Searches
  <2> QED
    BY <1>2, <2>1 DEF Searches
<1> QED
  BY <1>1, <1>2

(* One match, whichever way it is counted. *)
LEMMA TakenIs ==
    ASSUME NEW R, NEW s \in Searches(R), NEW x \in R, NEW offset \in Nat, NEW head \in Nat \ {0},
           s.stopped <=> Len(s.results) >= head
    PROVE  /\ Take(s, x, offset, head) \in Searches(R)
           /\ Take(s, x, offset, head) = StopAt(Collect(s, x, offset), head)
           /\ Take(s, x, offset, head).skipped = IF s.skipped < offset THEN s.skipped + 1 ELSE s.skipped
           /\ Take(s, x, offset, head).results =
                 IF s.skipped < offset THEN s.results ELSE Append(s.results, x)
           /\ Take(s, x, offset, head).stopped <=> Len(Take(s, x, offset, head).results) >= head
<1> DEFINE next == Collect(s, x, offset)
           t == Take(s, x, offset, head)
<1>1. /\ s.skipped \in Nat /\ s.results \in Seq(R) /\ Append(s.results, x) # s.results
  BY DEF Searches
<1>2. /\ next \in Searches(R) /\ next.stopped = s.stopped
      /\ s.skipped < offset => next.skipped = s.skipped + 1 /\ next.results = s.results
      /\ ~(s.skipped < offset) => next.skipped = s.skipped /\ next.results = Append(s.results, x)
  BY CollectIs
<1>3. t = IF next.results = s.results THEN next ELSE StopAt(next, head)
  BY DEF Take
<1> HIDE DEF next, t
<1>4. /\ StopAt(next, head) \in Searches(R)
      /\ StopAt(next, head).skipped = next.skipped
      /\ StopAt(next, head).results = next.results
      /\ StopAt(next, head).stopped <=> Len(next.results) >= head
      /\ (next.stopped <=> Len(next.results) >= head) => StopAt(next, head) = next
  BY <1>2, StopAtIs
<1>5. t = StopAt(next, head)
  <2>1. CASE next.results = s.results
    BY <1>2, <1>3, <1>4, <2>1
  <2>2. CASE next.results # s.results
    BY <1>3, <2>2
  <2> QED
    BY <2>1, <2>2
<1>6. /\ t.skipped = IF s.skipped < offset THEN s.skipped + 1 ELSE s.skipped
      /\ t.results = IF s.skipped < offset THEN s.results ELSE Append(s.results, x)
  BY <1>2, <1>4, <1>5
<1> QED
  BY <1>4, <1>5, <1>6 DEF next, t

(* One match, in both searches. *)
LEMMA TakenSideBySide ==
    ASSUME NEW R, NEW x \in R, NEW offset \in Nat, NEW head \in Nat \ {0}, NEW full \in Nat \ {0},
           NEW a, NEW u, SideBySide(a, u, R, offset, head, full), ~u.stopped
    PROVE  SideBySide(IF a.stopped THEN a ELSE Take(a, x, offset, head), Take(u, x, 0, full),
                      R, offset, head, full)
<1> DEFINE a2 == IF a.stopped THEN a ELSE Take(a, x, offset, head)
           u2 == Take(u, x, 0, full)
           p == Page(u.results, offset, head)
<1>1. /\ a \in Searches(R) /\ u \in Searches(R)
      /\ a.stopped <=> Len(a.results) >= head
      /\ u.stopped <=> Len(u.results) >= full
      /\ u.skipped = 0
      /\ a.skipped = IF Len(u.results) < offset THEN Len(u.results) ELSE offset
      /\ a.results = p
  BY DEF SideBySide
<1>2. u.results \in Seq(R) /\ Len(u.results) \in Nat
  BY <1>1 DEF Searches
<1>3. /\ u2 \in Searches(R) /\ u2.skipped = 0 /\ u2.results = Append(u.results, x)
      /\ u2.stopped <=> Len(u2.results) >= full
  <2>1. /\ u \in Searches(R) /\ (u.stopped <=> Len(u.results) >= full)
        /\ x \in R /\ full \in Nat \ {0} /\ 0 \in Nat
    BY <1>1
  <2>2. /\ u2 \in Searches(R)
        /\ u2.skipped = IF u.skipped < 0 THEN u.skipped + 1 ELSE u.skipped
        /\ u2.results = IF u.skipped < 0 THEN u.results ELSE Append(u.results, x)
        /\ u2.stopped <=> Len(u2.results) >= full
    BY <2>1, TakenIs
  <2> HIDE DEF u2
  <2> QED
    BY <1>1, <2>2
<1>4. /\ Take(a, x, offset, head) \in Searches(R)
      /\ Take(a, x, offset, head).skipped = IF a.skipped < offset THEN a.skipped + 1 ELSE a.skipped
      /\ Take(a, x, offset, head).results =
             IF a.skipped < offset THEN a.results ELSE Append(a.results, x)
      /\ Take(a, x, offset, head).stopped <=> Len(Take(a, x, offset, head).results) >= head
  BY <1>1, TakenIs
<1>5. /\ p \in Seq(R)
      /\ Len(p) = IF Len(u.results) <= offset THEN 0
                  ELSE IF offset + head < Len(u.results) THEN head ELSE Len(u.results) - offset
      /\ Page(Append(u.results, x), offset, head) =
            IF Len(u.results) < offset \/ Len(u.results) >= offset + head THEN p ELSE Append(p, x)
  <2> DEFINE r == u.results
  <2>1. r \in Seq(R)
    BY <1>2
  <2> HIDE DEF r
  <2>2. PageGrown(r, x, R, offset, head)
    BY <2>1, PageGrows
  <2> QED
    BY <2>2 DEF r, PageGrown
<1> HIDE DEF p
<1>6. a2 \in Searches(R) /\ (a2.stopped <=> Len(a2.results) >= head)
  BY <1>1, <1>4
<1>7. /\ a2.skipped = IF Len(u.results) + 1 < offset THEN Len(u.results) + 1 ELSE offset
      /\ a2.results = Page(Append(u.results, x), offset, head)
  <2>1. CASE a.stopped
    <3>1. Len(u.results) >= offset + head
      BY <1>1, <1>2, <1>5, <2>1
    <3>2. a2 = a
      BY <2>1
    <3> HIDE DEF a2
    <3> QED
      BY <1>1, <1>2, <1>5, <3>1, <3>2
  <2>2. CASE ~a.stopped /\ a.skipped < offset
    <3>1. Len(u.results) < offset /\ a.skipped = Len(u.results)
      BY <1>1, <1>2, <2>2
    <3>2. a2.skipped = a.skipped + 1 /\ a2.results = a.results
      BY <1>4, <2>2
    <3> HIDE DEF a2
    <3> QED
      BY <1>1, <1>2, <1>5, <3>1, <3>2
  <2>3. CASE ~a.stopped /\ ~(a.skipped < offset)
    <3>1. Len(u.results) >= offset /\ a.skipped = offset
      BY <1>1, <1>2, <2>3
    <3>2. Len(u.results) < offset + head
      BY <1>1, <1>2, <1>5, <2>3
    <3>3. a2.skipped = a.skipped /\ a2.results = Append(a.results, x)
      BY <1>4, <2>3
    <3> HIDE DEF a2
    <3> QED
      BY <1>1, <1>2, <1>5, <3>1, <3>2, <3>3
  <2> QED
    BY <2>1, <2>2, <2>3
<1>8. Len(Append(u.results, x)) = Len(u.results) + 1
  BY <1>2
<1> HIDE DEF a2, u2
<1>9. SideBySide(a2, u2, R, offset, head, full)
  BY <1>3, <1>6, <1>7, <1>8 DEF SideBySide
<1> QED
  BY <1>9 DEF a2, u2

(* What a search has found stays typed. *)
LEMMA TakenTyped ==
    ASSUME NEW R, NEW s \in Searches(R), NEW x \in R, NEW offset \in Nat, NEW head \in Nat \ {0}
    PROVE  Take(s, x, offset, head) \in Searches(R)
<1> DEFINE next == Collect(s, x, offset)
<1>1. next \in Searches(R)
  BY CollectIs
<1>2. StopAt(next, head) \in Searches(R)
  <2> HIDE DEF next
  <2> QED
    BY <1>1, StopAtIs
<1>3. Take(s, x, offset, head) = IF next.results = s.results THEN next ELSE StopAt(next, head)
  BY DEF Take
<1> QED
  BY <1>1, <1>2, <1>3

(* The same for a line. *)
LEMMA AtLineTyped ==
    ASSUME NEW R, NEW s \in Searches(R), NEW path, NEW content, NEW pattern, NEW around, NEW i,
           NEW offset \in Nat, NEW head \in Nat \ {0}, Shown(path, content, i, around) \in R
    PROVE  AtLine(s, path, content, pattern, around, offset, head, i) \in Searches(R)
<1>1. Take(s, Shown(path, content, i, around), offset, head) \in Searches(R)
  BY TakenTyped
<1> QED
  BY <1>1 DEF AtLine

(* R holds what a match in any line of a file may show. *)
Showable(R, path, content, around) ==
    \A i \in 1 .. Len(content) : Shown(path, content, i, around) \in R

(* GrepLines goes from line to line. *)
LineByLine(f, R, s, path, content, pattern, around, offset, head) ==
    /\ f \in [0 .. Len(content) -> Searches(R)]
    /\ f[0] = s
    /\ \A k \in 0 .. Len(content) - 1 :
          f[k + 1] = AtLine(f[k], path, content, pattern, around, offset, head, k + 1)
    /\ f[Len(content)] = GrepLines(s, path, content, pattern, around, offset, head)

LEMMA LinesWalk ==
    ASSUME NEW R, NEW s \in Searches(R), NEW path, NEW L, NEW content \in Seq(L), NEW pattern, NEW around,
           NEW offset \in Nat, NEW head \in Nat \ {0},
           Showable(R, path, content, around)
    PROVE  \E f : LineByLine(f, R, s, path, content, pattern, around, offset, head)
<1> DEFINE n == Len(content)
           V == Searches(R)
           step(v, i) == AtLine(v, path, content, pattern, around, offset, head, i)
           h == [i \in 1 .. n |-> [v \in V |-> step(v, i)]]
           Is(it) == it = [z \in SUBSET DOMAIN [i \in DOMAIN content |-> i] |->
                              IF z = {} THEN s
                              ELSE step(it[z \ {Max(z)}], [i \in DOMAIN content |-> i][Max(z)])]
           it0 == CHOOSE it : Is(it)
<1>1. n \in Nat /\ DOMAIN content = 1 .. n /\ DOMAIN [i \in DOMAIN content |-> i] = 1 .. n
  OBVIOUS
<1>2. \A i \in 1 .. n, v \in V : step(v, i) \in V /\ h[i][v] = step(v, i)
  <2> SUFFICES ASSUME NEW i \in 1 .. n, NEW v \in V PROVE step(v, i) \in V /\ h[i][v] = step(v, i)
    OBVIOUS
  <2>1. Shown(path, content, i, around) \in R
    BY DEF Showable
  <2> QED
    BY <2>1, AtLineTyped
<1>3. GrepLines(s, path, content, pattern, around, offset, head) = it0[DOMAIN [i \in DOMAIN content |-> i]]
  BY DEF GrepLines, FoldLeftDomain, FoldLeft, MapThenFoldSet
<1>4. PICK g : Folds(g, n, V, s, h)
  <2>1. n \in Nat /\ s \in V /\ Maps(h, n, V)
    BY <1>1, <1>2 DEF Maps
  <2> HIDE DEF h, n, V
  <2> QED
    BY <2>1, FoldExists
<1>5. Is(g)
  <2> DEFINE seq == [i \in DOMAIN content |-> i]
  <2>1. g \in [SUBSET (1 .. n) -> V] /\ DOMAIN seq = 1 .. n
    BY <1>1, <1>4 DEF Folds
  <2>2. ASSUME NEW z \in SUBSET (1 .. n)
        PROVE  g[z] = IF z = {} THEN s ELSE step(g[z \ {Max(z)}], seq[Max(z)])
    <3>1. CASE z = {}
      BY <1>4, <3>1 DEF Folds
    <3>2. CASE z # {}
      <4>1. Max(z) \in 1 .. n /\ z \ {Max(z)} \in SUBSET (1 .. n)
        BY <1>1, <3>2, GreatestIn
      <4>2. g[z] = h[Max(z)][g[z \ {Max(z)}]] /\ g[z \ {Max(z)}] \in V
        BY <1>4, <3>2, <4>1 DEF Folds
      <4>3. seq[Max(z)] = Max(z)
        BY <1>1, <4>1
      <4> HIDE DEF h, V, n, seq, step
      <4> QED
        BY <1>2, <3>2, <4>1, <4>2, <4>3
    <3> QED
      BY <3>1, <3>2
  <2> HIDE DEF V, n, step, seq
  <2>3. g = [z \in SUBSET DOMAIN seq |-> IF z = {} THEN s ELSE step(g[z \ {Max(z)}], seq[Max(z)])]
    BY <2>1, <2>2
  <2> QED
    BY <2>3 DEF seq
<1>6. Is(it0)
  <2> HIDE DEF Is
  <2> QED
    BY <1>5
<1>7. Unrolls(it0, n, V, s, h)
  <2> DEFINE seq == [i \in DOMAIN content |-> i]
  <2> HIDE DEF it0
  <2>1. \A z \in SUBSET (1 .. n) :
           it0[z] = IF z = {} THEN s ELSE step(it0[z \ {Max(z)}], seq[Max(z)])
    <3> HIDE DEF n, V, step
    <3> QED
      BY <1>1, <1>6
  <2>2. ASSUME NEW z \in SUBSET (1 .. n), z # {}, it0[z \ {Max(z)}] \in V
        PROVE  it0[z] = h[Max(z)][it0[z \ {Max(z)}]]
    <3>1. Max(z) \in 1 .. n
      BY <1>1, <2>2, GreatestIn
    <3>2. seq[Max(z)] = Max(z)
      BY <1>1, <3>1
    <3>3. it0[z] = step(it0[z \ {Max(z)}], seq[Max(z)])
      BY <2>1, <2>2
    <3> HIDE DEF n, V, step, seq, h
    <3> QED
      BY <1>2, <2>2, <3>1, <3>2, <3>3
  <2> QED
    BY <2>1, <2>2 DEF Unrolls
<1>8. PICK f : Walks(f, n, V, s, h) /\ f[n] = it0[1 .. n]
  <2>1. n \in Nat /\ s \in V /\ Maps(h, n, V)
    BY <1>1, <1>2 DEF Maps
  <2> HIDE DEF it0, h, n, V, Is, step
  <2> QED
    BY <1>7, <2>1, FoldWalk
<1>9. /\ f \in [0 .. n -> V] /\ f[0] = s
      /\ \A k \in 0 .. n - 1 : f[k + 1] = h[k + 1][f[k]]
      /\ f[n] = it0[1 .. n]
  BY <1>8 DEF Walks
<1>10. ASSUME NEW k \in 0 .. n - 1 PROVE f[k + 1] = step(f[k], k + 1)
  <2>1. k + 1 \in 1 .. n /\ k \in 0 .. n
    BY <1>1
  <2>2. f[k] \in V
    BY <1>9, <2>1
  <2> HIDE DEF h, V, n, step, it0
  <2> QED
    BY <1>2, <1>9, <2>1, <2>2
<1>11. f[n] = GrepLines(s, path, content, pattern, around, offset, head)
  BY <1>1, <1>3, <1>9
<1> HIDE DEF it0, h, Is
<1> QED
  BY <1>9, <1>10, <1>11 DEF LineByLine

(* A search that has stopped takes in no more lines. *)
LEMMA LinesStopped ==
    ASSUME NEW R, NEW s \in Searches(R), NEW path, NEW L, NEW content \in Seq(L), NEW pattern, NEW around,
           NEW offset \in Nat, NEW head \in Nat \ {0},
           Showable(R, path, content, around)
    PROVE  /\ GrepLines(s, path, content, pattern, around, offset, head) \in Searches(R)
           /\ s.stopped => GrepLines(s, path, content, pattern, around, offset, head) = s
<1> DEFINE n == Len(content)
<1>1. PICK f : LineByLine(f, R, s, path, content, pattern, around, offset, head)
  BY LinesWalk
<1>2. /\ n \in Nat
      /\ f \in [0 .. n -> Searches(R)] /\ f[0] = s
      /\ \A k \in 0 .. n - 1 : f[k + 1] = AtLine(f[k], path, content, pattern, around, offset, head, k + 1)
      /\ f[n] = GrepLines(s, path, content, pattern, around, offset, head)
  BY <1>1 DEF LineByLine
<1> HIDE DEF n
<1>3. GrepLines(s, path, content, pattern, around, offset, head) \in Searches(R)
  <2>1. n \in 0 .. n
    BY <1>2
  <2> QED
    BY <1>2, <2>1
<1>4. ASSUME s.stopped PROVE f[n] = s
  <2> DEFINE T == {k \in Nat : k <= n => f[k] = s}
  <2>1. 0 \in T
    BY <1>2
  <2>2. ASSUME NEW k \in T PROVE k + 1 \in T
    <3> SUFFICES ASSUME k + 1 <= n PROVE f[k + 1] = s
      OBVIOUS
    <3>1. k \in 0 .. n - 1 /\ f[k] = s
      BY <1>2
    <3>2. f[k + 1] = AtLine(s, path, content, pattern, around, offset, head, k + 1)
      BY <1>2, <3>1
    <3> QED
      BY <1>4, <3>2 DEF AtLine
  <2>3. T = Nat
    <3>1. T \in SUBSET Nat
      OBVIOUS
    <3> HIDE DEF T
    <3> QED
      BY <2>1, <2>2, <3>1, Induction
  <2> QED
    BY <1>2, <2>3
<1> QED
  BY <1>2, <1>3, <1>4

(* The lines of a file, in both searches. *)
LEMMA LinesSideBySide ==
    ASSUME NEW R, NEW path, NEW L, NEW content \in Seq(L), NEW pattern, NEW around,
           NEW offset \in Nat, NEW head \in Nat \ {0}, NEW full \in Nat \ {0},
           Showable(R, path, content, around),
           NEW a, NEW u, SideBySide(a, u, R, offset, head, full)
    PROVE  SideBySide(GrepLines(a, path, content, pattern, around, offset, head),
                      GrepLines(u, path, content, pattern, around, 0, full), R, offset, head, full)
<1> DEFINE n == Len(content)
           at(s, o, h, i) == AtLine(s, path, content, pattern, around, o, h, i)
<1>1. a \in Searches(R) /\ u \in Searches(R) /\ n \in Nat /\ 0 \in Nat
  BY DEF SideBySide
<1>2. PICK f : LineByLine(f, R, a, path, content, pattern, around, offset, head)
  BY <1>1, LinesWalk
<1>3. PICK e : LineByLine(e, R, u, path, content, pattern, around, 0, full)
  BY <1>1, LinesWalk
<1>4. /\ f[0] = a /\ e[0] = u
      /\ \A k \in 0 .. n - 1 : f[k + 1] = at(f[k], offset, head, k + 1)
      /\ \A k \in 0 .. n - 1 : e[k + 1] = at(e[k], 0, full, k + 1)
      /\ f[n] = GrepLines(a, path, content, pattern, around, offset, head)
      /\ e[n] = GrepLines(u, path, content, pattern, around, 0, full)
  BY <1>2, <1>3 DEF LineByLine
<1>5. ASSUME NEW s, NEW v, SideBySide(s, v, R, offset, head, full), NEW i \in 1 .. n
      PROVE  SideBySide(at(s, offset, head, i), at(v, 0, full, i), R, offset, head, full)
  <2> DEFINE x == Shown(path, content, i, around)
  <2>1. x \in R
    BY DEF Showable
  <2>2. CASE i \notin Matching(content, pattern)
    BY <1>5, <2>2 DEF AtLine
  <2>3. CASE i \in Matching(content, pattern) /\ v.stopped
    <3>1. at(v, 0, full, i) = v
      BY <2>3 DEF AtLine
    <3>2. s \in Searches(R) /\ (s.stopped <=> Len(s.results) >= head)
      BY <1>5 DEF SideBySide
    <3>3. at(s, offset, head, i) = IF s.stopped THEN s ELSE Take(s, x, offset, head)
      BY <2>3 DEF AtLine
    <3> HIDE DEF x, at
    <3>4. /\ Take(s, x, offset, head) \in Searches(R)
          /\ Take(s, x, offset, head).stopped <=> Len(Take(s, x, offset, head).results) >= head
      BY <2>1, <3>2, TakenIs
    <3> QED
      BY <1>5, <2>3, <3>1, <3>2, <3>3, <3>4 DEF SideBySide
  <2>4. CASE i \in Matching(content, pattern) /\ ~v.stopped
    <3>1. at(v, 0, full, i) = Take(v, x, 0, full)
      BY <2>4 DEF AtLine
    <3>2. at(s, offset, head, i) = IF s.stopped THEN s ELSE Take(s, x, offset, head)
      BY <2>4 DEF AtLine
    <3> HIDE DEF x, at
    <3>3. SideBySide(IF s.stopped THEN s ELSE Take(s, x, offset, head), Take(v, x, 0, full),
                     R, offset, head, full)
      BY <1>5, <2>1, <2>4, TakenSideBySide
    <3> QED
      BY <3>1, <3>2, <3>3
  <2> QED
    BY <2>2, <2>3, <2>4
<1> DEFINE T == {k \in Nat : k <= n => SideBySide(f[k], e[k], R, offset, head, full)}
<1>6. 0 \in T
  BY <1>4
<1>7. ASSUME NEW k \in T PROVE k + 1 \in T
  <2> SUFFICES ASSUME k + 1 <= n PROVE SideBySide(f[k + 1], e[k + 1], R, offset, head, full)
    OBVIOUS
  <2>1. k \in 0 .. n - 1 /\ k + 1 \in 1 .. n /\ SideBySide(f[k], e[k], R, offset, head, full)
    BY <1>1
  <2> HIDE DEF n, at, T
  <2>2. f[k + 1] = at(f[k], offset, head, k + 1) /\ e[k + 1] = at(e[k], 0, full, k + 1)
    BY <1>4, <2>1
  <2>3. SideBySide(at(f[k], offset, head, k + 1), at(e[k], 0, full, k + 1), R, offset, head, full)
    BY <1>5, <2>1
  <2> QED
    BY <2>2, <2>3
<1>8. T = Nat
  <2>1. T \in SUBSET Nat
    OBVIOUS
  <2> HIDE DEF T
  <2> QED
    BY <1>6, <1>7, <2>1, Induction
<1>9. SideBySide(f[n], e[n], R, offset, head, full)
  BY <1>1, <1>8
<1> HIDE DEF n
<1> QED
  BY <1>9, <1>4

(* R holds the results a search of `texts` may show, whatever the pattern. *)
Countable(R, path) == \A c \in Nat : [path |-> path, count |-> c] \in R

ResultsOK(R, texts, around) ==
    \A p \in DOMAIN texts : Showable(R, p, texts[p], around) /\ Countable(R, p)

(* Matching lines can be counted. *)
LEMMA MatchingCounted ==
    ASSUME NEW L, NEW content \in Seq(L), NEW pattern
    PROVE  Cardinality(Matching(content, pattern)) \in Nat
<1>1. Len(content) \in Nat
  OBVIOUS
<1>2. IsFiniteSet(1 .. Len(content)) /\ Matching(content, pattern) \subseteq 1 .. Len(content)
  BY <1>1, FS_Interval DEF Matching
<1>3. IsFiniteSet(Matching(content, pattern))
  BY <1>2, FS_Subset
<1> QED
  BY <1>3, FS_CardinalityType

(* A query that is answered line by line. *)
LineQuery(q) ==
    /\ q.multiline = FALSE
    /\ q.offset \in Nat /\ q.head \in Nat \ {0}

(* The modes that give one result for a file. *)
LEMMA GrepFileTyped ==
    ASSUME NEW R, NEW s \in Searches(R), NEW path, NEW L, NEW content \in Seq(L), NEW pattern, NEW mode,
           NEW offset \in Nat, Countable(R, path)
    PROVE  GrepFile(s, mode, path, content, pattern, offset) \in Searches(R)
<1> DEFINE n == Cardinality(Matching(content, pattern))
           x == [path |-> path, count |-> IF mode = "count" THEN n ELSE 0]
<1>1. n \in Nat
  BY MatchingCounted
<1>2. x \in R
  <2> HIDE DEF n
  <2> QED
    BY <1>1 DEF Countable
<1>3. GrepFile(s, mode, path, content, pattern, offset) = IF n = 0 THEN s ELSE Collect(s, x, offset)
  BY DEF GrepFile
<1> HIDE DEF x
<1>4. Collect(s, x, offset) \in Searches(R)
  BY <1>2, CollectIs
<1> QED
  BY <1>3, <1>4

(* A file, in every mode. *)
LEMMA AtFileTyped ==
    ASSUME NEW R, NEW s \in Searches(R), NEW path, NEW L, NEW content \in Seq(L), NEW q, LineQuery(q),
           Showable(R, path, content, q.around),
           Countable(R, path)
    PROVE  AtFile(s, path, content, q) \in Searches(R)
<1>1. q.offset \in Nat /\ q.head \in Nat \ {0} /\ q.multiline = FALSE
  BY DEF LineQuery
<1>2. GrepLines(s, path, content, q.pattern, q.around, q.offset, q.head) \in Searches(R)
  BY <1>1, LinesStopped
<1>3. GrepFile(s, q.mode, path, content, q.pattern, q.offset) \in Searches(R)
  BY <1>1, GrepFileTyped
<1>4. ASSUME NEW v \in Searches(R) PROVE StopAt(v, q.head) \in Searches(R)
  BY <1>1, StopAtIs
<1> QED
  BY <1>1, <1>2, <1>3, <1>4 DEF AtFile

(* q asks for a page, w for everything. *)
Same(q, w) ==
    /\ LineQuery(q) /\ LineQuery(w)
    /\ w.offset = 0
    /\ w.pattern = q.pattern /\ w.mode = q.mode /\ w.around = q.around

(* A file, in both searches. *)
LEMMA AtFileSideBySide ==
    ASSUME NEW R, NEW path, NEW L, NEW content \in Seq(L), NEW q, NEW w, Same(q, w),
           Showable(R, path, content, q.around),
           Countable(R, path),
           NEW a, NEW u, SideBySide(a, u, R, q.offset, q.head, w.head)
    PROVE  SideBySide(AtFile(a, path, content, q), AtFile(u, path, content, w),
                      R, q.offset, q.head, w.head)
<1> DEFINE o == q.offset
           h == q.head
           z == w.head
<1>1. /\ o \in Nat /\ h \in Nat \ {0} /\ z \in Nat \ {0} /\ 0 \in Nat
      /\ q.multiline = FALSE /\ w.multiline = FALSE
      /\ w.offset = 0 /\ w.pattern = q.pattern /\ w.mode = q.mode /\ w.around = q.around
  BY DEF Same, LineQuery
<1>2. /\ a \in Searches(R) /\ (a.stopped <=> Len(a.results) >= h)
      /\ u \in Searches(R) /\ (u.stopped <=> Len(u.results) >= z)
  BY DEF SideBySide
<1>3. CASE u.stopped
  <2>1. AtFile(u, path, content, w) = u
    BY <1>3 DEF AtFile
  <2>2. LineQuery(q)
    BY DEF Same
  <2>3. AtFile(a, path, content, q) \in Searches(R)
    BY <1>2, <2>2, AtFileTyped
  <2>4. AtFile(a, path, content, q).stopped <=> Len(AtFile(a, path, content, q).results) >= h
    <3>1. CASE a.stopped
      <4>1. AtFile(a, path, content, q) = a
        BY <3>1 DEF AtFile
      <4> QED
        BY <1>2, <4>1
    <3>2. CASE ~a.stopped
      <4>1. PICK v \in Searches(R) : AtFile(a, path, content, q) = StopAt(v, h)
        <5>1. GrepLines(a, path, content, q.pattern, q.around, o, h) \in Searches(R)
          BY <1>1, <1>2, LinesStopped
        <5>2. GrepFile(a, q.mode, path, content, q.pattern, o) \in Searches(R)
          BY <1>1, <1>2, GrepFileTyped
        <5> QED
          BY <1>1, <3>2, <5>1, <5>2 DEF AtFile
      <4>2. /\ StopAt(v, h).results = v.results
            /\ StopAt(v, h).stopped <=> Len(v.results) >= h
        BY <1>1, StopAtIs
      <4> QED
        BY <4>1, <4>2
    <3> QED
      BY <3>1, <3>2
  <2> QED
    BY <1>2, <1>3, <2>1, <2>3, <2>4 DEF SideBySide
<1>4. CASE ~u.stopped /\ q.mode = "content"
  <2> DEFINE na == GrepLines(a, path, content, q.pattern, q.around, o, h)
             nu == GrepLines(u, path, content, q.pattern, q.around, 0, z)
  <2>1. SideBySide(na, nu, R, o, h, z)
    BY <1>1, LinesSideBySide
  <2>2. AtFile(u, path, content, w) = StopAt(nu, z)
    BY <1>1, <1>4 DEF AtFile
  <2>3. AtFile(a, path, content, q) = IF a.stopped THEN a ELSE StopAt(na, h)
    BY <1>1, <1>4 DEF AtFile
  <2>4. a.stopped => na = a
    BY <1>1, <1>2, LinesStopped
  <2> HIDE DEF na, nu, o, h, z
  <2>5. StopAt(nu, z) = nu /\ StopAt(na, h) = na
    <3>1. /\ na \in Searches(R) /\ (na.stopped <=> Len(na.results) >= h)
          /\ nu \in Searches(R) /\ (nu.stopped <=> Len(nu.results) >= z)
      BY <2>1 DEF SideBySide
    <3> QED
      BY <1>1, <3>1, StopAtIs
  <2>6. SideBySide(AtFile(a, path, content, q), AtFile(u, path, content, w), R, o, h, z)
    BY <2>1, <2>2, <2>3, <2>4, <2>5
  <2> QED
    BY <2>6 DEF o, h, z
<1>5. CASE ~u.stopped /\ q.mode # "content"
  <2> DEFINE n == Cardinality(Matching(content, q.pattern))
             x == [path |-> path, count |-> IF q.mode = "count" THEN n ELSE 0]
  <2>1. x \in R
    <3>1. n \in Nat
      BY MatchingCounted
    <3> HIDE DEF n
    <3> QED
      BY <3>1 DEF Countable
  <2>2. AtFile(u, path, content, w) = StopAt(IF n = 0 THEN u ELSE Collect(u, x, 0), z)
    BY <1>1, <1>5 DEF AtFile, GrepFile
  <2>3. AtFile(a, path, content, q) =
           IF a.stopped THEN a ELSE StopAt(IF n = 0 THEN a ELSE Collect(a, x, o), h)
    BY <1>1, <1>5 DEF AtFile, GrepFile
  <2> HIDE DEF n, x, o, h, z
  <2>4. StopAt(a, h) = a /\ StopAt(u, z) = u
    BY <1>1, <1>2, StopAtIs
  <2>5. StopAt(Collect(a, x, o), h) = Take(a, x, o, h) /\ StopAt(Collect(u, x, 0), z) = Take(u, x, 0, z)
    BY <1>1, <1>2, <2>1, TakenIs
  <2>6. SideBySide(a, u, R, o, h, z)
    BY DEF o, h, z
  <2>7. SideBySide(IF a.stopped THEN a ELSE Take(a, x, o, h), Take(u, x, 0, z), R, o, h, z)
    BY <1>1, <1>5, <2>1, <2>6, TakenSideBySide
  <2>8. SideBySide(AtFile(a, path, content, q), AtFile(u, path, content, w), R, o, h, z)
    <3>1. CASE n = 0
      BY <2>2, <2>3, <2>4, <2>6, <3>1
    <3>2. CASE n # 0
      BY <2>2, <2>3, <2>5, <2>7, <3>2
    <3> QED
      BY <3>1, <3>2
  <2> QED
    BY <2>8 DEF o, h, z
<1> QED
  BY <1>3, <1>4, <1>5

(* glob without a limit finds paths of the workspace. *)
LEMMA GlobTyped ==
    ASSUME NEW texts, NEW P, NEW order \in Seq(P)
    PROVE  Glob(texts, order, 0) \in Seq(DOMAIN texts)
<1> DEFINE n == Len(order)
           D == DOMAIN texts
           V == Seq(D)
           step(v, i) == IF order[i] \in D THEN Append(v, order[i]) ELSE v
           h == [i \in 1 .. n |-> [v \in V |-> step(v, i)]]
           Is(it) == it = [z \in SUBSET DOMAIN order |->
                              IF z = {} THEN <<>> ELSE step(it[z \ {Max(z)}], Max(z))]
           it0 == CHOOSE it : Is(it)
<1>1. n \in Nat /\ DOMAIN order = 1 .. n
  OBVIOUS
<1>2. <<>> \in V /\ \A i \in 1 .. n, v \in V : step(v, i) \in V /\ h[i][v] = step(v, i)
  <2>1. \A i \in 1 .. n, v \in V : step(v, i) \in V
    <3> SUFFICES ASSUME NEW i \in 1 .. n, NEW v \in Seq(D) PROVE step(v, i) \in Seq(D)
      OBVIOUS
    <3> HIDE DEF D
    <3> QED
      OBVIOUS
  <2> HIDE DEF step
  <2> QED
    BY <2>1
<1>3. Found(texts, order) = it0[DOMAIN order]
  BY DEF Found, FoldLeft, MapThenFoldSet
<1>4. PICK g : Folds(g, n, V, <<>>, h)
  <2>1. n \in Nat /\ <<>> \in V /\ Maps(h, n, V)
    BY <1>1, <1>2 DEF Maps
  <2> HIDE DEF h, n, V
  <2> QED
    BY <2>1, FoldExists
<1>5. Is(g)
  <2>1. g \in [SUBSET (1 .. n) -> V] /\ DOMAIN order = 1 .. n
    BY <1>1, <1>4 DEF Folds
  <2>2. ASSUME NEW z \in SUBSET (1 .. n)
        PROVE  g[z] = IF z = {} THEN <<>> ELSE step(g[z \ {Max(z)}], Max(z))
    <3>1. CASE z = {}
      BY <1>4, <3>1 DEF Folds
    <3>2. CASE z # {}
      <4>1. Max(z) \in 1 .. n /\ z \ {Max(z)} \in SUBSET (1 .. n)
        BY <1>1, <3>2, GreatestIn
      <4>2. g[z] = h[Max(z)][g[z \ {Max(z)}]] /\ g[z \ {Max(z)}] \in V
        BY <1>4, <3>2, <4>1 DEF Folds
      <4> HIDE DEF h, V, n, step
      <4> QED
        BY <1>2, <3>2, <4>1, <4>2
    <3> QED
      BY <3>1, <3>2
  <2> HIDE DEF V, n, step
  <2> QED
    BY <2>1, <2>2
<1>6. Is(it0)
  <2> HIDE DEF Is
  <2> QED
    BY <1>5
<1>7. Unrolls(it0, n, V, <<>>, h)
  <2> HIDE DEF it0
  <2>1. \A z \in SUBSET (1 .. n) :
           it0[z] = IF z = {} THEN <<>> ELSE step(it0[z \ {Max(z)}], Max(z))
    <3> HIDE DEF n, V, step
    <3> QED
      BY <1>1, <1>6
  <2>2. ASSUME NEW z \in SUBSET (1 .. n), z # {}, it0[z \ {Max(z)}] \in V
        PROVE  it0[z] = h[Max(z)][it0[z \ {Max(z)}]]
    <3>1. Max(z) \in 1 .. n
      BY <1>1, <2>2, GreatestIn
    <3>2. it0[z] = step(it0[z \ {Max(z)}], Max(z))
      BY <2>1, <2>2
    <3> HIDE DEF n, V, step, h
    <3> QED
      BY <1>2, <2>2, <3>1, <3>2
  <2> QED
    BY <2>1, <2>2 DEF Unrolls
<1>8. PICK f : Walks(f, n, V, <<>>, h) /\ f[n] = it0[1 .. n]
  <2>1. n \in Nat /\ <<>> \in V /\ Maps(h, n, V)
    BY <1>1, <1>2 DEF Maps
  <2> HIDE DEF it0, h, n, V, Is, step
  <2> QED
    BY <1>7, <2>1, FoldWalk
<1>9. /\ f \in [0 .. n -> V] /\ f[0] = <<>>
      /\ \A k \in 0 .. n - 1 : f[k + 1] = h[k + 1][f[k]]
      /\ f[n] = it0[1 .. n]
  BY <1>8 DEF Walks
<1>10. ASSUME NEW k \in 0 .. n - 1 PROVE f[k + 1] = step(f[k], k + 1)
  <2>1. k + 1 \in 1 .. n /\ k \in 0 .. n
    BY <1>1
  <2>2. f[k] \in V
    BY <1>9, <2>1
  <2> HIDE DEF h, V, n, step, it0
  <2> QED
    BY <1>2, <1>9, <2>1, <2>2
<1>11. f[n] \in V
  BY <1>1, <1>9
<1> HIDE DEF it0
<1>12. Found(texts, order) \in Seq(DOMAIN texts)
  BY <1>1, <1>3, <1>9, <1>11
<1>13. Glob(texts, order, 0) = Found(texts, order)
  BY DEF Glob
<1> QED
  BY <1>12, <1>13

(* grep goes from file to file. *)
FileByFile(f, R, texts, found, q) ==
    /\ f \in [0 .. Len(found) -> Searches(R)]
    /\ f[0] = Searching
    /\ \A k \in 0 .. Len(found) - 1 : f[k + 1] = AtFile(f[k], found[k + 1], texts[found[k + 1]], q)

(* A content is a sequence of lines. *)
Readable(texts, L) == \A p \in DOMAIN texts : texts[p] \in Seq(L)

LEMMA FilesWalk ==
    ASSUME NEW R, NEW L, NEW texts, Readable(texts, L),
           NEW P, NEW order \in Seq(P), NEW q, LineQuery(q), ResultsOK(R, texts, q.around)
    PROVE  \E f : /\ FileByFile(f, R, texts, Glob(texts, order, 0), q)
                  /\ f[Len(Glob(texts, order, 0))].results = Grep(texts, order, q)
<1> DEFINE found == Glob(texts, order, 0)
           n == Len(found)
           V == Searches(R)
           step(v, i) == AtFile(v, found[i], texts[found[i]], q)
           h == [i \in 1 .. n |-> [v \in V |-> step(v, i)]]
           Is(it) == it = [z \in SUBSET DOMAIN found |->
                              IF z = {} THEN Searching ELSE step(it[z \ {Max(z)}], Max(z))]
           it0 == CHOOSE it : Is(it)
<1>1. found \in Seq(DOMAIN texts)
  BY GlobTyped
<1>2. Grep(texts, order, q) = it0[DOMAIN found].results
  BY DEF Grep, FoldLeft, MapThenFoldSet
<1> HIDE DEF found
<1>3. n \in Nat /\ DOMAIN found = 1 .. n /\ \A i \in 1 .. n : found[i] \in DOMAIN texts
  BY <1>1
<1>4. Searching \in V /\ \A i \in 1 .. n, v \in V : step(v, i) \in V /\ h[i][v] = step(v, i)
  <2>1. Searching \in V
    BY DEF Searching, Searches
  <2>2. ASSUME NEW i \in 1 .. n, NEW v \in V PROVE step(v, i) \in V
    <3> DEFINE p == found[i]
    <3>1. p \in DOMAIN texts /\ texts[p] \in Seq(L)
      BY <1>3 DEF Readable
    <3>2. Showable(R, p, texts[p], q.around) /\ Countable(R, p)
      BY <3>1 DEF ResultsOK
    <3> HIDE DEF p
    <3>3. AtFile(v, p, texts[p], q) \in Searches(R)
      BY <3>1, <3>2, AtFileTyped
    <3> QED
      BY <3>3 DEF p
  <2> HIDE DEF step
  <2> QED
    BY <2>1, <2>2
<1>5. PICK g : Folds(g, n, V, Searching, h)
  <2>1. n \in Nat /\ Searching \in V /\ Maps(h, n, V)
    BY <1>3, <1>4 DEF Maps
  <2> HIDE DEF h, n, V
  <2> QED
    BY <2>1, FoldExists
<1>6. Is(g)
  <2>1. g \in [SUBSET (1 .. n) -> V] /\ DOMAIN found = 1 .. n
    BY <1>3, <1>5 DEF Folds
  <2>2. ASSUME NEW z \in SUBSET (1 .. n)
        PROVE  g[z] = IF z = {} THEN Searching ELSE step(g[z \ {Max(z)}], Max(z))
    <3>1. CASE z = {}
      BY <1>5, <3>1 DEF Folds
    <3>2. CASE z # {}
      <4>1. Max(z) \in 1 .. n /\ z \ {Max(z)} \in SUBSET (1 .. n)
        BY <1>3, <3>2, GreatestIn
      <4>2. g[z] = h[Max(z)][g[z \ {Max(z)}]] /\ g[z \ {Max(z)}] \in V
        BY <1>5, <3>2, <4>1 DEF Folds
      <4> HIDE DEF h, V, n, step
      <4> QED
        BY <1>4, <3>2, <4>1, <4>2
    <3> QED
      BY <3>1, <3>2
  <2> HIDE DEF V, n, step
  <2> QED
    BY <2>1, <2>2
<1>7. Is(it0)
  <2> HIDE DEF Is
  <2> QED
    BY <1>6
<1>8. Unrolls(it0, n, V, Searching, h)
  <2> HIDE DEF it0
  <2>1. \A z \in SUBSET (1 .. n) :
           it0[z] = IF z = {} THEN Searching ELSE step(it0[z \ {Max(z)}], Max(z))
    <3> HIDE DEF n, V, step
    <3> QED
      BY <1>3, <1>7
  <2>2. ASSUME NEW z \in SUBSET (1 .. n), z # {}, it0[z \ {Max(z)}] \in V
        PROVE  it0[z] = h[Max(z)][it0[z \ {Max(z)}]]
    <3>1. Max(z) \in 1 .. n
      BY <1>3, <2>2, GreatestIn
    <3>2. it0[z] = step(it0[z \ {Max(z)}], Max(z))
      BY <2>1, <2>2
    <3> HIDE DEF n, V, step, h
    <3> QED
      BY <1>4, <2>2, <3>1, <3>2
  <2> QED
    BY <2>1, <2>2 DEF Unrolls
<1>9. PICK f : Walks(f, n, V, Searching, h) /\ f[n] = it0[1 .. n]
  <2>1. n \in Nat /\ Searching \in V /\ Maps(h, n, V)
    BY <1>3, <1>4 DEF Maps
  <2> HIDE DEF it0, h, n, V, Is, step
  <2> QED
    BY <1>8, <2>1, FoldWalk
<1>10. /\ f \in [0 .. n -> V] /\ f[0] = Searching
       /\ \A k \in 0 .. n - 1 : f[k + 1] = h[k + 1][f[k]]
       /\ f[n] = it0[1 .. n]
  BY <1>9 DEF Walks
<1>11. ASSUME NEW k \in 0 .. n - 1 PROVE f[k + 1] = step(f[k], k + 1)
  <2>1. k + 1 \in 1 .. n /\ k \in 0 .. n
    BY <1>3
  <2>2. f[k] \in V
    BY <1>10, <2>1
  <2> HIDE DEF h, V, n, step, it0
  <2> QED
    BY <1>4, <1>10, <2>1, <2>2
<1>12. f[n].results = Grep(texts, order, q)
  BY <1>2, <1>3, <1>10
<1> HIDE DEF it0, h, Is
<1>13. FileByFile(f, R, texts, found, q)
  BY <1>10, <1>11 DEF FileByFile
<1> QED
  BY <1>12, <1>13 DEF found

(* The states the two searches end in. *)
Ends(a, u, R, texts, order, q, w) ==
    /\ SideBySide(a, u, R, q.offset, q.head, w.head)
    /\ a.results = Grep(texts, order, q) /\ u.results = Grep(texts, order, w)

(* All the files, in both searches. *)
LEMMA FilesSideBySide ==
    ASSUME NEW R, NEW L, NEW texts, Readable(texts, L), NEW P, NEW order \in Seq(P),
           NEW q, NEW w, Same(q, w), ResultsOK(R, texts, q.around)
    PROVE  \E a, u : Ends(a, u, R, texts, order, q, w)
<1> DEFINE found == Glob(texts, order, 0)
           n == Len(found)
           both(s, v) == SideBySide(s, v, R, q.offset, q.head, w.head)
<1>1. LineQuery(q) /\ LineQuery(w) /\ w.around = q.around
  BY DEF Same
<1>2. q.offset \in Nat /\ q.head \in Nat \ {0} /\ w.head \in Nat \ {0}
  BY <1>1 DEF LineQuery
<1>3. PICK f : FileByFile(f, R, texts, found, q) /\ f[n].results = Grep(texts, order, q)
  BY <1>1, FilesWalk
<1>4. PICK e : FileByFile(e, R, texts, found, w) /\ e[n].results = Grep(texts, order, w)
  <2>1. ResultsOK(R, texts, w.around)
    BY <1>1
  <2> QED
    BY <1>1, <2>1, FilesWalk
<1>5. found \in Seq(DOMAIN texts)
  BY GlobTyped
<1> HIDE DEF found
<1>6. n \in Nat /\ \A i \in 1 .. n : found[i] \in DOMAIN texts
  BY <1>5
<1>7. /\ f[0] = Searching /\ e[0] = Searching
      /\ \A k \in 0 .. n - 1 : f[k + 1] = AtFile(f[k], found[k + 1], texts[found[k + 1]], q)
      /\ \A k \in 0 .. n - 1 : e[k + 1] = AtFile(e[k], found[k + 1], texts[found[k + 1]], w)
  BY <1>3, <1>4 DEF FileByFile
<1> HIDE DEF n
<1>8. both(Searching, Searching)
  <2>1. /\ Searching \in Searches(R) /\ Searching.skipped = 0 /\ Searching.results = <<>>
        /\ Searching.stopped = FALSE
    BY DEF Searching, Searches
  <2>2. Page(<<>>, q.offset, q.head) = <<>> /\ Len(<<>>) = 0
    BY <1>2 DEF Page
  <2>3. ~(0 >= q.head) /\ ~(0 >= w.head) /\ 0 = IF 0 < q.offset THEN 0 ELSE q.offset
    BY <1>2
  <2> QED
    BY <2>1, <2>2, <2>3 DEF SideBySide
<1>9. ASSUME NEW s, NEW v, both(s, v), NEW p \in DOMAIN texts
      PROVE  both(AtFile(s, p, texts[p], q), AtFile(v, p, texts[p], w))
  <2>1. texts[p] \in Seq(L) /\ Showable(R, p, texts[p], q.around) /\ Countable(R, p)
    BY DEF Readable, ResultsOK
  <2> QED
    BY <1>9, <2>1, AtFileSideBySide
<1> HIDE DEF both
<1> DEFINE T == {k \in Nat : k <= n => both(f[k], e[k])}
<1>10. 0 \in T
  BY <1>7, <1>8
<1>11. ASSUME NEW k \in T PROVE k + 1 \in T
  <2> SUFFICES ASSUME k + 1 <= n PROVE both(f[k + 1], e[k + 1])
    OBVIOUS
  <2>1. k \in 0 .. n - 1 /\ k + 1 \in 1 .. n /\ both(f[k], e[k])
    BY <1>6
  <2>2. found[k + 1] \in DOMAIN texts
    BY <1>6, <2>1
  <2>3. both(AtFile(f[k], found[k + 1], texts[found[k + 1]], q),
             AtFile(e[k], found[k + 1], texts[found[k + 1]], w))
    BY <1>9, <2>1, <2>2
  <2> QED
    BY <1>7, <2>1, <2>3
<1>12. T = Nat
  <2>1. T \in SUBSET Nat
    OBVIOUS
  <2> HIDE DEF T
  <2> QED
    BY <1>10, <1>11, <2>1, Induction
<1>13. both(f[n], e[n])
  BY <1>6, <1>12
<1> QED
  BY <1>3, <1>4, <1>13 DEF both, Ends

(* A page of a search is the page of the whole search. *)
LEMMA GrepPage ==
    ASSUME NEW L, NEW texts, Readable(texts, L), NEW P, NEW order \in Seq(P),
           NEW q, NEW w, Same(q, w), Len(Grep(texts, order, w)) < w.head
    PROVE  /\ Grep(texts, order, q) = Page(Grep(texts, order, w), q.offset, q.head)
           /\ \E R : Grep(texts, order, w) \in Seq(R)
<1> DEFINE D == DOMAIN texts
           R == {Shown(p, texts[p], i, q.around) : p \in D, i \in Nat}
                   \cup {[path |-> p, count |-> c] : p \in D, c \in Nat}
<1>1. ResultsOK(R, texts, q.around)
  <2>1. ASSUME NEW p \in D PROVE Showable(R, p, texts[p], q.around) /\ Countable(R, p)
    BY DEF Showable, Countable
  <2> QED
    BY <2>1 DEF ResultsOK
<1> HIDE DEF R
<1>2. PICK a, u : Ends(a, u, R, texts, order, q, w)
  BY <1>1, FilesSideBySide
<1>3. u \in Searches(R) /\ u.results \in Seq(R) /\ ~u.stopped
  <2>1. u \in Searches(R) /\ (u.stopped <=> Len(u.results) >= w.head)
    BY <1>2 DEF Ends, SideBySide
  <2>2. u.results \in Seq(R) /\ w.head \in Nat
    BY <2>1 DEF Searches, Same, LineQuery
  <2>3. ~(Len(u.results) >= w.head)
    BY <1>2, <2>2 DEF Ends
  <2> QED
    BY <2>1, <2>2, <2>3
<1> QED
  BY <1>2, <1>3 DEF Ends, SideBySide

(* The files that are there, in any order they may be found in. *)
LEMMA SearchesAreTyped ==
    ASSUME RunTypeOK, NEW order \in Orders
    PROVE  /\ Readable(There, Lines) /\ order \in Seq(Paths)
<1>1. Readable(There, Lines)
  <2>1. \A p \in DOMAIN There : There[p] \in Seq(Lines)
    BY DEF There, RunTypeOK
  <2> QED
    BY <2>1 DEF Readable
<1>2. Cardinality(Paths) \in Nat
  BY ToolsAssumption, FS_CardinalityType
<1>3. order \in [1 .. Cardinality(Paths) -> Paths]
  BY DEF Orders
<1> QED
  BY <1>1, <1>2, <1>3

(* The tail of which one element fits, and a sequence of one element. *)
LEMMA LastAlone ==
    ASSUME NEW R, NEW s \in Seq(R), s # <<>>
    PROVE  /\ SubSeq(s, Len(s) - 1 + 1, Len(s)) = <<Last(s)>>
           /\ ~(Len(s) > 1) => Len(s) = 1 /\ s = <<Last(s)>>
<1> DEFINE n == Len(s)
           a == SubSeq(s, n, n)
           b == <<Last(s)>>
<1>1. n \in Nat \ {0} /\ n - 1 + 1 = n /\ s[n] \in R
  OBVIOUS
<1>2. a \in Seq(R) /\ Len(a) = 1 /\ a[1] = s[n]
  BY <1>1
<1>3. b \in Seq(R) /\ Len(b) = 1 /\ b[1] = s[n]
  BY <1>1 DEF Last
<1> HIDE DEF a, b, n
<1>4. a = b
  BY <1>2, <1>3
<1>5. ASSUME ~(n > 1) PROVE n = 1 /\ s = b
  <2>1. n = 1
    BY <1>1, <1>5
  <2> QED
    BY <1>3, <2>1 DEF n
<1> QED
  BY <1>1, <1>4, <1>5 DEF a, b, n

(* What the tool tells of one page. *)
LEMMA PageTold ==
    ASSUME RunTypeOK, NEW order \in Orders, NEW q \in Queries,
           Len(Grep(There, order, q)) < q.head,
           NEW offset \in 0 .. Len(Grep(There, order, q)), NEW head \in 1 .. 2
    PROVE  LET all == Grep(There, order, q)
               told == GrepSearch(There, order, [q EXCEPT !.offset = offset, !.head = head], 1)
               page == Page(all, offset, head)
           IN  /\ told.answer = "no_matches" <=> offset = Len(all)
               /\ told.answer = "truncated" <=> Len(page) > 1
               /\ told.shown = IF page = <<>> THEN <<>> ELSE <<Last(page)>>
<1> DEFINE all == Grep(There, order, q)
           asked == [q EXCEPT !.offset = offset, !.head = head]
           page == Page(all, offset, head)
           told == GrepSearch(There, order, asked, 1)
<1>1. Readable(There, Lines) /\ order \in Seq(Paths)
  BY SearchesAreTyped
<1>2. /\ q.valid = TRUE /\ q.dir = "workspace" /\ q.multiline = FALSE
      /\ q.offset = 0 /\ q.head = 9
      /\ asked.valid = TRUE /\ asked.dir = "workspace" /\ asked.multiline = FALSE
      /\ asked.offset = offset /\ asked.head = head
      /\ asked.pattern = q.pattern /\ asked.mode = q.mode /\ asked.around = q.around
  BY DEF Queries
<1>3. offset \in Nat /\ head \in Nat \ {0} /\ Len(all) < q.head
  BY <1>2
<1> HIDE DEF asked, all
<1>4. Same(asked, q)
  BY <1>2, <1>3 DEF Same, LineQuery
<1>5. Grep(There, order, asked) = page /\ \E R : all \in Seq(R)
  <2>1. /\ Grep(There, order, asked) = Page(Grep(There, order, q), asked.offset, asked.head)
        /\ \E R : Grep(There, order, q) \in Seq(R)
    BY <1>1, <1>4, GrepPage
  <2> QED
    BY <1>2, <2>1 DEF all
<1>6. PICK R : all \in Seq(R)
  BY <1>5
<1>7. offset <= Len(all)
  BY <1>6 DEF all
<1>8. /\ page \in Seq(R)
      /\ Len(page) = 0 <=> offset = Len(all)
  BY <1>3, <1>6, <1>7 DEF Page
<1>9. told = Reply(page, 1)
  BY <1>2, <1>5 DEF GrepSearch
<1> HIDE DEF page, told
<1>10. CASE page = <<>>
  <2>1. told = [answer |-> "no_matches", shown |-> <<>>] /\ Len(page) = 0
    BY <1>9, <1>10 DEF Reply
  <2> QED
    BY <1>8, <1>10, <2>1 DEF page, told, all, asked
<1>11. CASE page # <<>> /\ Len(page) > 1
  <2>1. told = [answer |-> "truncated", shown |-> SubSeq(page, Len(page) - 1 + 1, Len(page))]
    BY <1>9, <1>11 DEF Reply
  <2>2. SubSeq(page, Len(page) - 1 + 1, Len(page)) = <<Last(page)>>
    BY <1>8, <1>11, LastAlone
  <2>3. offset # Len(all)
    BY <1>8, <1>11
  <2>4. told.answer = "truncated" /\ told.shown = <<Last(page)>>
    BY <2>1, <2>2
  <2> HIDE DEF Last
  <2> QED
    BY <1>11, <2>3, <2>4 DEF page, told, all, asked
<1>12. CASE page # <<>> /\ ~(Len(page) > 1)
  <2>1. told = [answer |-> "success", shown |-> page]
    BY <1>9, <1>12 DEF Reply
  <2>2. Len(page) = 1 /\ page = <<Last(page)>>
    BY <1>8, <1>12, LastAlone
  <2> QED
    BY <1>8, <1>12, <2>1, <2>2 DEF page, told, all, asked
<1> QED
  BY <1>10, <1>11, <1>12 DEF page, told, all, asked

(* Glob's first files. *)
LEMMA GlobTold ==
    ASSUME RunTypeOK, NEW order \in Orders, NEW limit \in 1 .. 2
    PROVE  GlobSearch(There, order, "workspace", limit, limit).shown = Page(Glob(There, order, 0), 0, limit)
<1> DEFINE found == Glob(There, order, 0)
           first == SubSeq(found, 1, IF limit < Len(found) THEN limit ELSE Len(found))
<1>1. found \in Seq(DOMAIN There)
  BY SearchesAreTyped, GlobTyped
<1>2. Glob(There, order, limit) = first
  <2>1. limit > 0 /\ ~(0 > 0)
    OBVIOUS
  <2> QED
    BY <2>1 DEF Glob
<1> HIDE DEF found
<1>3. first \in Seq(DOMAIN There) /\ ~(Len(first) > limit)
  BY <1>1
<1>4. Page(found, 0, limit) = first
  BY <1>1 DEF Page
<1>5. GlobSearch(There, order, "workspace", limit, limit) = Reply(first, limit)
  BY <1>2 DEF GlobSearch
<1> HIDE DEF first
<1>6. Reply(first, limit).shown = first
  BY <1>3 DEF Reply
<1> QED
  BY <1>4, <1>5, <1>6 DEF found

(* The pages of a search, however many files, lines and matches there are, add up
   to the search (FileSystem.grep: offset, head_limit and the context lines are
   counted in each of its modes, and once more after every file).            *)
THEOREM PagesMakeTheSearch == RunSpec => []PagesAddUp
<1>1. RunTypeOK => PagesAddUp
  BY PageTold, GlobTold DEF PagesAddUp
<1> QED
  BY <1>1, TypesHold, PTL
=============================================================================
