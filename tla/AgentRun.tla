------------------------------ MODULE AgentRun ------------------------------
(* The agent graph (agentic_patterns/base) over the workspace tools: the model
   calls tools that are bound, the tool node runs the calls of one message in
   parallel and commits their answers in one step; Skill widens the bound
   tools, Ask interrupts the graph until the user has answered.

   What a turn looks like from outside, and what a cut or failed step does to
   the next turn, is in StreamTurn: a thread whose step has failed stops here. *)
EXTENDS WorkspaceTools, FileSearch

CONSTANTS
    Messages,       \* the calls a message of a thread's model may make, in order
    SkillTools,     \* registered skill to the tools it unlocks
    MaxMessages,    \* bound: messages with calls, for each thread
    Initial         \* the workspace as the first run finds it

Essentials == {"Todos", "Ask", "Skill"}

(* What the model may ask of each tool.  A command is one that runs, which may
   write or remove a file of the workspace, or one that is refused.           *)
AnyPath == Paths \cup {Outside, Homeless}

Request ==
    [tool : {"Todos", "Ask", "plan"}]
    \cup [tool : {"Skill"}, skill : STRING]
    \cup [tool : {"Read"}, path : AnyPath, offset : Nat, limit : Nat, force : BOOLEAN]
    \cup [tool : {"Write"}, path : AnyPath, lines : Seq(Lines)]
    \cup [tool : {"Edit"}, path : AnyPath, old : Lines, new : Lines, all : BOOLEAN]
    \cup [tool : {"bash"}, path : Paths, command : {"run", "blocked", "empty"},
          lines : Seq(Lines) \cup {None}]

(* Where a call may be on its way, and what it may be answered, by its tool. *)
Places ==
    [Read |-> {"start", "done"}, Write |-> {"start", "fill", "done"},
     Edit |-> {"start", "reread", "truncate", "fill", "done"},
     bash |-> {"start", "stream", "exited", "done"}, plan |-> {"start", "load", "done"},
     Ask |-> {"start", "asking", "done"}, Skill |-> {"start", "done"}, Todos |-> {"start", "done"}]

Replies ==
    [Read |-> {"success", "unchanged", "not_found", "too_large", "permission"},
     Write |-> {"success", "no_parent", "permission"},
     Edit |-> {"success", "string_not_found", "multiple", "raised", "not_found", "permission"},
     bash |-> {"success", "timed_out", "raised", "blocked", "empty", "written"},
     plan |-> {"reached", "no_target"}, Ask |-> {"answered"},
     Skill |-> {"loaded", "unknown", "not_permitted"}, Todos |-> {"updated"}]

ASSUME RunAssumption ==
    /\ MaxMessages \in [Threads -> Nat]
    /\ \A t \in Threads : \A m \in Messages[t] : m \in Seq(Request) /\ Len(m) <= 3
    /\ Initial \in [Paths -> Seq(Lines) \cup {None}]
    /\ \A tool \in DOMAIN Replies : None \notin Replies[tool]

VARIABLES
    thread,         \* where each thread's graph is, its active_tools, and the
                    \* skills it has been told are loaded in this turn
    sent            \* messages with calls so far, of each thread

runVars == <<toolVars, thread, sent>>

RunInit ==
    /\ files = Initial
    /\ kubeconfig = [e \in {EnvName(t) : t \in Threads} \cup {"config"} |-> None]
    /\ merged = None
    /\ call = [t \in Threads |-> <<>>]
    /\ view = [t \in Threads |-> [p \in Paths |-> None]]
    /\ known = [t \in Threads |-> [p \in Paths |-> None]]
    /\ thread = [t \in Threads |-> [pc |-> "idle", active |-> {}, told |-> {}]]
    /\ sent = [t \in Threads |-> 0]

(* A run starts with a message of the user: active_tools is reset. *)
StartTurn(t) ==
    /\ thread[t].pc = "idle" /\ sent[t] < MaxMessages[t]
    /\ thread' = [thread EXCEPT ![t] = [pc |-> "agent", active |-> Essentials, told |-> {}]]
    /\ BuildContext(t)
    /\ UNCHANGED <<files, kubeconfig, call, view, known, sent>>

Bound(t) == IF thread[t].active = {} THEN Essentials ELSE thread[t].active

(* agent_node and default_router: the model sees the tools that are bound. *)
AgentCalls(t, m) ==
    /\ thread[t].pc = "agent" /\ sent[t] < MaxMessages[t]
    /\ \A i \in 1 .. Len(m) : m[i].tool \in Bound(t)
    /\ call' = [call EXCEPT ![t] = [i \in 1 .. Len(m) |-> NewCall(m[i])]]
    /\ thread' = [thread EXCEPT ![t].pc = "tools"]
    /\ sent' = [sent EXCEPT ![t] = @ + 1]
    /\ Quiet

AgentEnds(t) ==
    /\ thread[t].pc = "agent"
    /\ thread' = [thread EXCEPT ![t].pc = "idle"]
    /\ UNCHANGED <<toolVars, sent>>
-----------------------------------------------------------------------------
(* Mutant: a skill brings its own tools and drops those of the others. *)
OnlyThisSkill(t, s) == Essentials \cup SkillTools[s]

(* read_skill: a union, so that repeated loads and earlier skills are kept. *)
WithSkill(t, s) == Essentials \cup thread[t].active \cup SkillTools[s]

SkillAnswers(t, i) ==
    LET s == call[t][i].req.skill
    IN  /\ Starts(t, i, "Skill")
        /\ IF s \notin Available(t) THEN Answer(t, i, "not_permitted", <<>>)
           ELSE IF s \notin DOMAIN SkillTools THEN Answer(t, i, "unknown", <<>>)
           ELSE Answer(t, i, "loaded", WithSkill(t, s))
        /\ Quiet

TodosAnswers(t, i) == Starts(t, i, "Todos") /\ Answer(t, i, "updated", <<>>) /\ Quiet

(* interrupt() leaves the tool node at once; the other calls of the message go
   on with nobody to take their answers.                                      *)
AskInterrupts(t, i) ==
    /\ Starts(t, i, "Ask") /\ thread[t].pc = "tools"
    /\ call' = [call EXCEPT ![t][i].pc = "asking"]
    /\ thread' = [thread EXCEPT ![t].pc = "asked"]
    /\ Quiet

InFlight(c) == c.pc \notin {"done", "asking"}

(* Command(resume=...): the tool node starts over, with every call of the
   message, and this time Ask has its answer.  The user is slower than the
   calls that were left running.                                              *)
Resume(t) ==
    /\ thread[t].pc = "asked"
    /\ \A i \in 1 .. Len(call[t]) : ~InFlight(call[t][i])
    /\ call' = [call EXCEPT ![t] = [i \in 1 .. Len(call[t]) |->
                   IF call[t][i].req.tool = "Ask"
                   THEN [NewCall(call[t][i].req) EXCEPT !.pc = "done", !.answer = "answered"]
                   ELSE NewCall(call[t][i].req)]]
    /\ thread' = [thread EXCEPT ![t].pc = "tools"]
    /\ BuildContext(t)
    /\ UNCHANGED <<files, kubeconfig, view, known, sent>>

(* An exception no tool catches leaves the tool node, which re-raises it. *)
ToolRaises(t) ==
    /\ thread[t].pc = "tools"
    /\ \E i \in 1 .. Len(call[t]) : call[t][i].answer = "raised"
    /\ thread' = [thread EXCEPT ![t].pc = "failed"]
    /\ UNCHANGED <<toolVars, sent>>
-----------------------------------------------------------------------------
(* The state keys a step may write once only; messages are appended. *)
Writes(c) == IF c.answer = "loaded" THEN {"active_tools"}
             ELSE IF c.answer = "updated" THEN {"todos"} ELSE {}

Conflict(t) ==
    \E i, j \in 1 .. Len(call[t]) : i < j /\ Writes(call[t][i]) \cap Writes(call[t][j]) # {}

(* read_file and write_file record the hash of what they read or wrote. *)
Records(c, p) ==
    /\ c.req.tool \in {"Read", "Write"} /\ c.req.path = p /\ c.answer = "success"

Recorded(t, p) ==
    LET by == {i \in 1 .. Len(call[t]) : Records(call[t][i], p)}
    IN  IF by = {} THEN view[t][p]
        ELSE call[t][CHOOSE i \in by : \A j \in by : j <= i].next

(* History: what the answer of the one call on the path lets the model believe
   of the file.  Fewer lines than asked for are the whole file, "unchanged"
   says the last ones read still hold, a success that the change is made.     *)
Told(t, c, p) ==
    LET read == IF c.answer = "unchanged" THEN view[t][p] ELSE c.next
    IN  CASE ~c.alone -> None
          [] c.alone /\ c.req.tool = "Read" /\ c.answer \in {"success", "unchanged"} ->
                IF c.req.offset <= 1 /\ Len(read) < c.req.limit THEN read ELSE known[t][p]
          [] c.alone /\ c.req.tool = "Write" /\ c.answer = "success" -> c.req.lines
          [] c.alone /\ c.req.tool = "Edit" /\ c.answer = "success" ->
                IF c.base = None THEN None ELSE Replaced(c.base, c.req.old, c.req.new)
          [] OTHER -> known[t][p]

Learnt(t, p) ==
    LET on == {i \in 1 .. Len(call[t]) : "path" \in DOMAIN call[t][i].req /\ Path(t, i) = p}
    IN  IF Cardinality(on) # 1 THEN known[t][p]
        ELSE Told(t, call[t][CHOOSE i \in on : TRUE], p)

(* All calls are answered: their updates are one step of the graph, which
   refuses two values for one key.                                            *)
ToolsCommit(t) ==
    /\ thread[t].pc = "tools"
    /\ \A i \in 1 .. Len(call[t]) : call[t][i].pc = "done" /\ call[t][i].answer # "raised"
    /\ IF Conflict(t)
       THEN /\ thread' = [thread EXCEPT ![t].pc = "failed"]
            /\ UNCHANGED toolVars
       ELSE LET loads == {i \in 1 .. Len(call[t]) : call[t][i].answer = "loaded"}
            IN  /\ thread' = [thread EXCEPT ![t] =
                       [pc |-> "agent",
                        active |-> IF loads = {} THEN @.active
                                   ELSE call[t][CHOOSE i \in loads : TRUE].next,
                        told |-> @.told \cup {call[t][i].req.skill : i \in loads}]]
                /\ view' = [view EXCEPT ![t] = [p \in Paths |-> Recorded(t, p)]]
                /\ known' = [known EXCEPT ![t] = [p \in Paths |-> Learnt(t, p)]]
                /\ call' = [call EXCEPT ![t] = <<>>]
                /\ UNCHANGED <<files, kubeconfig, merged>>
    /\ UNCHANGED sent
-----------------------------------------------------------------------------
CallStep(t, i) ==
    \/ /\ FileStep(t, i) \/ BashStep(t, i) \/ PlanStep(t, i)
          \/ SkillAnswers(t, i) \/ TodosAnswers(t, i)
       /\ UNCHANGED <<thread, sent>>
    \/ AskInterrupts(t, i) /\ UNCHANGED sent

Clock(t, i) == Deadline(t, i) /\ UNCHANGED <<thread, sent>>

GraphStep(t) == ToolRaises(t) \/ ToolsCommit(t)

ThreadStep(t) == GraphStep(t) \/ \E i \in 1 .. 3 : CallStep(t, i)

ClockStep(t) == \E i \in 1 .. 3 : Clock(t, i)

RunNext ==
    \/ \E t \in Threads :
          \/ StartTurn(t) \/ AgentEnds(t) \/ Resume(t) \/ ThreadStep(t) \/ ClockStep(t)
          \/ \E m \in Messages[t] : AgentCalls(t, m)
          \/ \E i \in 1 .. 3 : ProcessStep(t, i) /\ UNCHANGED <<thread, sent>>

(* The event loop gets round to every thread, and the clock runs; nothing is
   asked of the model, the user or the commands.                              *)
RunSpec ==
    /\ RunInit /\ [][RunNext]_runVars
    /\ \A t \in Threads : WF_runVars(ThreadStep(t)) /\ WF_runVars(ClockStep(t))
-----------------------------------------------------------------------------
(* A call in a place of its tool with an answer of its tool. *)
HasPath(c) == "path" \in DOMAIN c.req

CallOK(c) ==
    /\ DOMAIN c = {"req", "pc", "next", "base", "alone", "line", "late", "answer"}
    /\ c.req \in Request
    /\ c.pc \in Places[c.req.tool]
    /\ IF c.pc = "done" THEN c.answer \in Replies[c.req.tool] \ {"written"}
       ELSE c.answer = None \/ (c.req.tool = "bash" /\ c.answer = "written")
    /\ HasPath(c) => c.next \in Seq(Lines)
    /\ HasPath(c) /\ (c.pc \notin {"start", "done"} \/ c.answer = "success") => c.req.path \in Paths
    /\ c.base \in Seq(Lines) \cup {None}
    /\ {c.alone, c.line, c.late} \subseteq BOOLEAN

(* The types: over parallel calls, questions and resumes each call is in a place
   of its tool, and has an answer of its tool when it is done.  A thread that is
   not in a step of its tools has no calls.                                   *)
RunTypeOK ==
    /\ files \in [Paths -> Seq(Lines) \cup {None}]
    /\ kubeconfig \in [{EnvName(t) : t \in Threads} \cup {"config"} -> Threads \cup {None}]
    /\ merged \in Threads \cup {None}
    /\ view \in [Threads -> [Paths -> Seq(Lines) \cup {None}]]
    /\ known \in [Threads -> [Paths -> Seq(Lines) \cup {None}]]
    /\ DOMAIN thread = Threads /\ DOMAIN call = Threads
    /\ \A t \in Threads :
          /\ DOMAIN thread[t] = {"pc", "active", "told"}
          /\ thread[t].pc \in {"idle", "agent", "tools", "asked", "failed"}
          /\ thread[t].pc \in {"idle", "agent"} => call[t] = <<>>
          /\ Len(call[t]) \in 0 .. 3 /\ DOMAIN call[t] = 1 .. Len(call[t])
          /\ \A i \in 1 .. Len(call[t]) : CallOK(call[t][i])
    /\ sent \in [Threads -> Nat]

(* READ_UNCHANGED: "File unchanged since last read ... Use that as it is still
   valid."  What a conversation has been told of a file - by reads, by
   "unchanged", by the success of its own writes and edits - is the file, unless
   somebody else has changed it since, a call of the same message included.   *)
PictureIsTrue ==
    \A t \in Threads, p \in Paths : known[t][p] # None => files[p] = known[t][p]

(* read_skill: "Essentials remain in active_tools regardless of state history;
   repeat loads are idempotent via set-union."  Within a turn, over interrupts
   and resumes, the tools of every skill the model has been told is loaded are
   bound, and no tool that no permitted skill unlocks.                        *)
SkillsHold ==
    \A t \in Threads :
        /\ Essentials \cup UNION {SkillTools[s] : s \in thread[t].told} \subseteq Bound(t)
        /\ Bound(t) \subseteq Essentials \cup UNION {SkillTools[s] :
                                 s \in Available(t) \cap DOMAIN SkillTools}

(* _environments names every environment "minikube" or "target", and the file of a
   kubeconfig is named after it, in the directory all threads share.  Whatever
   they do between the two steps of a plan tool, it goes to an environment of the
   name it asked for: a thread on the local cluster never to one that was pasted,
   and the other way round.                                                   *)
NamesStayApart ==
    \A t \in Threads : \A i \in 1 .. Len(call[t]) :
        call[t][i].answer = "reached" =>
            \E u \in Threads : EnvName(u) = EnvName(t) /\ call[t][i].next = <<u>>

(* clients.py: "so the agent can only ever reach the environment it was handed",
   and of the shell's kubeconfig "Only the given environments are reachable
   through it."  A plan tool has reached its thread's own environment, and while
   a command runs the file it is pointed at holds its own.                    *)
ReachesOnlyItsOwn ==
    \A t \in Threads : \A i \in 1 .. Len(call[t]) :
        /\ call[t][i].answer = "reached" => call[t][i].next = <<t>>
        /\ At(t, i, "stream") /\ EnvName(t) # None => merged = t

Orders == {o \in [1 .. Cardinality(Paths) -> Paths] : \A p \in Paths : \E k \in DOMAIN o : o[k] = p}

There == [p \in {q \in Paths : files[q] # None} |-> files[p]]

(* The searches line by line.  A multiline search for files or counts takes no
   note of the head limit, so that its pages do not add up; its content mode is
   one of these without lines around.                                         *)
Queries ==
    [valid : {TRUE}, dir : {"workspace"},
     pattern : SUBSET UNION {{There[p][k] : k \in DOMAIN There[p]} : p \in DOMAIN There},
     mode : {"files_with_matches", "count", "content"}, multiline : {FALSE},
     around : 0 .. 1, offset : {0}, head : {9}]

Page(all, offset, head) ==
    SubSeq(all, offset + 1, IF offset + head < Len(all) THEN offset + head ELSE Len(all))

(* Grep: "offset: Skip the first N matches before collecting results".  The
   pages of a search, put together, are the search without limits (one that has
   come to its end before its head limit): nothing is missing or shown twice, in
   no mode and with no number of lines around; a page says there are no matches
   only past the last one, and one that is too long shows its end.  Glob's first
   files are those of a search without limit.                                *)
PagesAddUp ==
    (\A t \in Threads : thread[t].pc = "idle") =>
        \A order \in Orders :
            /\ \A q \in Queries :
                 LET all == Grep(There, order, q)
                 IN  Len(all) < q.head => \A offset \in 0 .. Len(all), head \in 1 .. 2 :
                        LET asked == [q EXCEPT !.offset = offset, !.head = head]
                            told == GrepSearch(There, order, asked, 1)
                            page == Page(all, offset, head)
                        IN  /\ told.answer = "no_matches" <=> offset = Len(all)
                            /\ told.answer = "truncated" <=> Len(page) > 1
                            /\ told.shown = IF page = <<>> THEN <<>> ELSE <<Last(page)>>
            /\ \A limit \in 1 .. 2 :
                 GlobSearch(There, order, "workspace", limit, limit).shown
                     = Page(Glob(There, order, 0), 0, limit)

(* A command that goes silent without ending holds its step for ever. *)
Silent(t, i) == At(t, i, "stream") /\ ~call[t][i].line

(* Whatever calls a message makes, in the end its step is committed, or asks, or
   fails - as long as its commands do not stay silent: one that keeps printing
   is stopped at its deadline.                                                *)
StepsEnd ==
    \A t \in Threads :
        (\A i \in 1 .. 3 : []<>~Silent(t, i))
            => (thread[t].pc = "tools" ~> thread[t].pc # "tools")
=============================================================================
