------------------------------ MODULE ChatPage ------------------------------
(* The chat page (ui/frontend/src: App.jsx, postStream.js, QuestionCard.jsx) in
   front of the thread server.

   One bundle holds what is shown, whichever thread is active; a handler keeps
   the thread that was active when it started, and goes on after the user has
   left.  Every fetch is a step of its own, and unless it is awaited others may
   overtake it.  The user may do anything the page allows at any time, with two
   exceptions that bound the model: nothing is sent while a turn streams, be it
   on a thread the user has left, and no thread with a turn is deleted.  There
   is one tab.                                                                *)
EXTENDS ThreadServer

CONSTANTS
    Earlier,        \* what Redis may hold when the page is opened
    Limit           \* bounds: how often each thing happens

(* What the page sends: a text, or a map from an interrupt to its answers. *)
MessageType == [kind : {"text", "answers"}, for : SUBSET Nat,
                content : {<<"hello">>, <<"answer">>}]

SendType == [pc : {"posted", "stream", "refresh", "thread"}, message : MessageType,
             cut : BOOLEAN, refetch : BOOLEAN]

DeleteType == [thread : Threads, active : Threads \cup {None},
               pc : {"registry", "checkpoint", "answered"}]

ASSUME PageAssumption ==
    /\ None \notin Nat \cup Threads \cup SendType \cup DeleteType
    /\ Limit \in [{"turns", "visits", "troubles", "messages"} -> Nat]
    /\ \A earlier \in Earlier :
          /\ earlier.registry \in Seq(Threads) /\ IsInjective(earlier.registry)
          /\ earlier.pending \in [Threads -> Nat \cup {None}]
          /\ earlier.log \in [Threads -> Seq(MessageTypes)]
          /\ \A t \in Threads : earlier.pending[t] # None =>
                earlier.log[t] # <<>> /\ Last(earlier.log[t]).role = "ai"

VARIABLES
    page,           \* threads shown, active thread, sending, whether it is loaded
    bundle,         \* what is shown of the active thread
    sends,          \* handleSend for each thread, or None
    strays,         \* refreshes that nobody waits for
    loads,          \* loads of a thread that became active
    deleting,       \* handleDeleteThread, or None
    calm,           \* history: the user has waited for the page, and nothing failed
    ordered,        \* history: no refresh has outlived its turn since the last load
    used            \* how often each thing has happened

pageVars == <<page, bundle, sends, strays, loads, deleting>>

vars == <<serverVars, pageVars, calm, ordered, used>>

EmptyBundle == [events |-> <<>>, todos |-> 0, pending |-> None]

PageInit ==
    /\ \E earlier \in Earlier : ServerInit(earlier)
    /\ page = [threads |-> <<>>, active |-> None, sending |-> FALSE, mounted |-> FALSE]
    /\ bundle = EmptyBundle
    /\ sends = [t \in Threads |-> None]
    /\ strays = {} /\ loads = {} /\ deleting = None
    /\ calm = TRUE /\ ordered = TRUE
    /\ used = [k \in DOMAIN Limit |-> 0]

(* Nothing the user could wait for is under way. *)
Settled == /\ page.mounted /\ loads = {} /\ deleting = None
           /\ \A t \in Threads : sends[t] = None

(* Bounds: what the user does; how often they do it while the page is not at
   rest, or something goes wrong.                                             *)
UserDoes(what) ==
    LET hurry == IF Settled THEN 0 ELSE 1
    IN  /\ page.mounted
        /\ used[what] < Limit[what] /\ used["troubles"] + hurry <= Limit["troubles"]
        /\ used' = [used EXCEPT ![what] = @ + 1, !["troubles"] = @ + hurry]

Trouble == /\ used["troubles"] < Limit["troubles"]
           /\ used' = [used EXCEPT !["troubles"] = @ + 1]

(* The effect on activeId: the input is usable at once, the thread and its state
   are fetched.                                                               *)
LoadOf(t) == IF t = None THEN {}
             ELSE {[thread |-> t, n |-> used, log |-> None, pending |-> None, todos |-> None]}

Activates(t, threads) ==
    /\ page' = [page EXCEPT !.threads = threads, !.active = t, !.mounted = TRUE,
                            !.sending = IF t = None THEN @ ELSE FALSE]
    /\ loads' = loads \cup LoadOf(t)

(* create_thread takes a new uuid: an id that nobody holds on to any more. *)
Fresh == Threads \ (Range(registry) \cup Range(page.threads)
                      \cup {l.thread : l \in loads \cup strays})

Mount ==
    /\ ~page.mounted
    /\ IF registry # <<>>
       THEN Activates(registry[1], registry) /\ UNCHANGED registry
       ELSE \E t \in Fresh : Register(t) /\ Activates(t, <<t>>)
    /\ UNCHANGED <<log, pending, todos, turn, wire, bundle, sends, strays, deleting, calm, ordered, used>>

Select(t) ==
    /\ UserDoes("visits") /\ t \in Range(page.threads) /\ t # page.active
    /\ Activates(t, page.threads)
    /\ calm' = Settled /\ ordered' = (strays = {})
    /\ UNCHANGED <<serverVars, bundle, sends, strays, deleting>>

(* handleCreateConfiguredThread. *)
Create(t) ==
    /\ UserDoes("visits") /\ t \in Fresh /\ log[t] = <<>>
    /\ Register(t)
    /\ Activates(t, <<t>> \o page.threads)
    /\ bundle' = EmptyBundle
    /\ calm' = Settled /\ ordered' = (strays = {})
    /\ UNCHANGED <<log, pending, todos, turn, wire, sends, strays, deleting>>

LoadThread(l) ==
    /\ l.log = None
    /\ loads' = (loads \ {l}) \cup {[l EXCEPT !.log = log[l.thread], !.pending = pending[l.thread]]}
    /\ UNCHANGED <<serverVars, page, bundle, sends, strays, deleting, calm, ordered, used>>

LoadState(l) ==
    /\ l.todos = None
    /\ loads' = (loads \ {l}) \cup {[l EXCEPT !.todos = todos[l.thread]]}
    /\ UNCHANGED <<serverVars, page, bundle, sends, strays, deleting, calm, ordered, used>>

LoadApplies(l) ==
    /\ l.log # None /\ l.todos # None
    /\ bundle' = [events |-> HistoryEvents(l.log), todos |-> l.todos, pending |-> l.pending]
    /\ loads' = loads \ {l}
    /\ UNCHANGED <<serverVars, page, sends, strays, deleting, calm, ordered, used>>
-----------------------------------------------------------------------------
(* QuestionCard: one string for each interrupt, skipped questions included. *)
ResumeMap == [kind |-> "answers", for |-> {bundle.pending}, content |-> <<"answer">>]

UserText == [kind |-> "text", for |-> {}, content |-> <<"hello">>]

(* The card is shown instead of the input while a question waits. *)
Message == IF bundle.pending # None THEN ResumeMap ELSE UserText

(* handleSend, up to its POST. *)
Send ==
    LET t == page.active
    IN  /\ UserDoes("turns") /\ t # None /\ \A u \in Threads : sends[u] = None /\ turn[u].pc = "none"
        /\ (deleting # None => deleting.thread # t)
        /\ bundle.pending = None => ~page.sending
        /\ bundle' = [bundle EXCEPT !.pending = None, !.events = Append(@,
                         Event(<<"local", used["turns"]>>, "human", "text", Message.content))]
        /\ page' = [page EXCEPT !.sending = TRUE]
        /\ sends' = [sends EXCEPT ![t] = [pc |-> "posted", message |-> Message,
                                          cut |-> FALSE, refetch |-> FALSE]]
        /\ calm' = (calm /\ Settled)
        /\ UNCHANGED <<serverVars, strays, loads, deleting, ordered>>

(* The request arrives, and the response begins. *)
Posts(t) ==
    /\ sends[t] # None /\ sends[t].pc = "posted"
    /\ Begin(t, sends[t].message)
    /\ sends' = [sends EXCEPT ![t].pc = "stream"]
    /\ UNCHANGED <<page, bundle, strays, loads, deleting, calm, ordered, used>>

(* catch and finally. *)
GivesUp(t) ==
    /\ sends' = [sends EXCEPT ![t] = None]
    /\ page' = [page EXCEPT !.sending = FALSE]
    /\ calm' = FALSE
    /\ UNCHANGED <<registry, log, pending, todos, bundle, strays, loads, deleting, ordered>>

PostFails(t) ==
    /\ sends[t] # None /\ sends[t].pc = "posted"
    /\ GivesUp(t) /\ Trouble
    /\ UNCHANGED <<turn, wire>>

StreamBreaks(t) ==
    /\ sends[t] # None /\ turn[t].pc = "broken"
    /\ GivesUp(t)
    /\ turn' = [turn EXCEPT ![t].pc = "none"] /\ wire' = [wire EXCEPT ![t] = <<>>]
    /\ UNCHANGED used

STATE_MUTATING == {"Todos", "Write", "Edit"}

Mutates(ev) == ev.type = "tool_call" /\ ev.content.name \in STATE_MUTATING

(* Mutant: any event of the model counts as its coming back from the tools. *)
AnyEventResumes(ev) == ev.role = "ai"

(* "The next AI text/reasoning event means state is committed." *)
Resumes(ev) == ev.role = "ai" /\ ev.type # "tool_call"

(* The callback of streamPost: the event is shown, and may start a refresh. *)
Receives(t) ==
    LET ev == Head(wire[t])
        refresh == ev.type # "notification" /\ ~Mutates(ev) /\ sends[t].refetch /\ Resumes(ev)
    IN  /\ sends[t] # None /\ sends[t].pc = "stream" /\ wire[t] # <<>>
        /\ wire' = [wire EXCEPT ![t] = Tail(@)]
        /\ bundle' = [bundle EXCEPT !.events = Append(@, ev)]
        /\ sends' = [sends EXCEPT ![t].cut = @ \/ ev.type = "notification",
                                  ![t].refetch = Mutates(ev) \/ (@ /\ ~refresh)]
        /\ strays' = IF refresh THEN strays \cup {[thread |-> t, n |-> ev.id, todos |-> None]} ELSE strays
        /\ UNCHANGED <<registry, log, pending, todos, turn, page, loads, deleting, calm, ordered, used>>

StrayAnswers(s) ==
    /\ s.todos = None
    /\ strays' = (strays \ {s}) \cup {[s EXCEPT !.todos = todos[s.thread]]}
    /\ UNCHANGED <<serverVars, page, bundle, sends, loads, deleting, calm, ordered, used>>

StrayApplies(s) ==
    /\ s.todos # None
    /\ bundle' = [bundle EXCEPT !.todos = s.todos]
    /\ strays' = strays \ {s}
    /\ UNCHANGED <<serverVars, page, sends, loads, deleting, calm, ordered, used>>

StreamEnds(t) ==
    /\ sends[t] # None /\ sends[t].pc = "stream" /\ wire[t] = <<>>
    /\ turn[t].pc \in {"closed", "cut"}
    /\ turn' = [turn EXCEPT ![t].pc = "none"]
    /\ sends' = [sends EXCEPT ![t].pc = "refresh"]
    /\ UNCHANGED <<registry, log, pending, todos, wire, page, bundle, strays, loads, deleting, calm, ordered, used>>

(* Mutant: a turn that was stopped is not refreshed. *)
RefreshUnlessCut(t) ==
    /\ sends[t] # None /\ sends[t].pc = "refresh"
    /\ bundle' = IF sends[t].cut THEN bundle ELSE [bundle EXCEPT !.todos = todos[t]]
    /\ sends' = [sends EXCEPT ![t].pc = "thread"]
    /\ ordered' = (ordered /\ strays = {})
    /\ UNCHANGED <<serverVars, page, strays, loads, deleting, calm, used>>

(* The refresh that is awaited; the thread is at rest by now. *)
FinalRefresh(t) ==
    /\ sends[t] # None /\ sends[t].pc = "refresh"
    /\ bundle' = [bundle EXCEPT !.todos = todos[t]]
    /\ sends' = [sends EXCEPT ![t].pc = "thread"]
    /\ ordered' = (ordered /\ strays = {})
    /\ UNCHANGED <<serverVars, page, strays, loads, deleting, calm, used>>

(* Mutant: pending questions are read only after an interrupted turn. *)
FinishQuietly(t) ==
    /\ sends[t] # None /\ sends[t].pc = "thread"
    /\ bundle' = IF sends[t].cut THEN [bundle EXCEPT !.events = HistoryEvents(log[t]),
                                                     !.pending = pending[t]] ELSE bundle
    /\ sends' = [sends EXCEPT ![t] = None]
    /\ page' = [page EXCEPT !.sending = FALSE]
    /\ UNCHANGED <<serverVars, strays, loads, deleting, calm, ordered, used>>

(* The thread once more: its question, and its messages if the turn was cut. *)
FinishSend(t) ==
    /\ sends[t] # None /\ sends[t].pc = "thread"
    /\ bundle' = [bundle EXCEPT !.events = IF sends[t].cut THEN HistoryEvents(log[t]) ELSE @,
                                !.pending = pending[t]]
    /\ sends' = [sends EXCEPT ![t] = None]
    /\ page' = [page EXCEPT !.sending = FALSE]
    /\ UNCHANGED <<serverVars, strays, loads, deleting, calm, ordered, used>>

(* handleInterrupt; a signal that nobody listens for any more does nothing. *)
Interrupt ==
    LET t == page.active
    IN  /\ t # None /\ page.sending /\ Trouble
        /\ Cut(t)
        /\ UNCHANGED <<pageVars, calm, ordered>>
-----------------------------------------------------------------------------
(* handleDeleteThread: the server's two steps, then the page's. *)
Delete(t) ==
    /\ UserDoes("visits") /\ t \in Range(page.threads) /\ deleting = None
    /\ sends[t] = None /\ turn[t].pc = "none"
    /\ deleting' = [thread |-> t, active |-> page.active, pc |-> "registry"]
    /\ calm' = (calm /\ Settled)
    /\ UNCHANGED <<serverVars, page, bundle, sends, strays, loads, ordered>>

DeleteUnregisters ==
    /\ deleting # None /\ deleting.pc = "registry"
    /\ Unregister(deleting.thread)
    /\ deleting' = [deleting EXCEPT !.pc = "checkpoint"]
    /\ UNCHANGED <<log, pending, todos, turn, wire, page, bundle, sends, strays, loads, calm, ordered, used>>

DeleteForgets ==
    /\ deleting # None /\ deleting.pc = "checkpoint"
    /\ Forget(deleting.thread)
    /\ deleting' = [deleting EXCEPT !.pc = "answered"]
    /\ UNCHANGED <<registry, turn, wire, page, bundle, sends, strays, loads, calm, ordered, used>>

(* Mutant: the fallback is taken from the threads before the deletion. *)
FirstShown(next) == page.threads[1]

Fallback(next) == IF next = <<>> THEN None ELSE next[1]

(* activeId is the one of the click. *)
DeleteApplies ==
    LET t == deleting.thread
        next == RemoveFirst(page.threads, t)
    IN  /\ deleting # None /\ deleting.pc = "answered"
        /\ IF t = deleting.active /\ Fallback(next) # page.active
           THEN /\ Activates(Fallback(next), next)
                /\ bundle' = IF Fallback(next) = None THEN EmptyBundle ELSE bundle
           ELSE /\ page' = [page EXCEPT !.threads = next]
                /\ UNCHANGED <<bundle, loads>>
        /\ deleting' = None
        /\ ordered' = (ordered /\ strays = {})
        /\ UNCHANGED <<serverVars, sends, strays, calm, used>>
-----------------------------------------------------------------------------
(* Bound: messages of the model after which it calls no more tools. *)
Spoken == MapThenSumSet(LAMBDA t : turn[t].at, Threads)

ServerMoves(t) ==
    /\ \/ ServerStep(t)
       \/ \E s \in Scripts : /\ Speak(t, s)
                             /\ (\E k \in DOMAIN s : s[k].calls # <<>>) => Spoken < Limit["messages"]
    /\ UNCHANGED <<pageVars, calm, ordered, used>>

PageMoves ==
    \/ Mount \/ DeleteUnregisters \/ DeleteForgets \/ DeleteApplies
    \/ \E l \in loads : LoadThread(l) \/ LoadState(l) \/ LoadApplies(l)
    \/ \E s \in strays : StrayAnswers(s) \/ StrayApplies(s)

SendMoves(t) ==
    Posts(t) \/ StreamBreaks(t) \/ Receives(t) \/ StreamEnds(t) \/ FinalRefresh(t) \/ FinishSend(t)

PageNext ==
    \/ PageMoves \/ Send \/ Interrupt
    \/ \E t \in Threads :
          \/ ServerMoves(t) \/ SendMoves(t) \/ Select(t) \/ Create(t) \/ Delete(t) \/ PostFails(t)
          \/ Fails(t) /\ Trouble /\ UNCHANGED <<pageVars, calm, ordered>>

(* Servers answer, and the page goes on when they have; nothing is asked of the
   user.                                                                      *)
PageSpec ==
    /\ PageInit /\ [][PageNext]_vars /\ WF_vars(PageMoves)
    /\ \A t \in Threads : WF_vars(ServerMoves(t)) /\ WF_vars(SendMoves(t))
-----------------------------------------------------------------------------
(* What a reader of the chat has seen: what they said, and the blocks of the
   model in order.  Answers to questions are shown when they are given and are
   the result of a tool call later; a run that asked is one block or two.     *)
Story(messages) ==
    FlattenSeq([k \in DOMAIN messages |->
        CASE messages[k].type = "human" /\ messages[k].content # <<"answer">> -> <<messages[k].content>>
          [] messages[k].type = "ai" -> messages[k].blocks
          [] OTHER -> <<>>])

Outputs(messages) == {<<messages[k].id, messages[k].content>> :
                         k \in {j \in DOMAIN messages : messages[j].type = "tool"}}

(* accumulator.js: events "from the history API or SSE stream" are folded "into
   the shape the UI already renders ... exactly as emitted".  When the page is at
   rest it shows what a reload would show - the same words, calls and arguments
   in the same order, and no output that is not in the history - for a user who
   has waited for the page since the last load, however the turns went.       *)
LiveMatchesHistory ==
    (Settled /\ calm /\ page.active # None) =>
        LET live == Accumulate(bundle.events)
            history == Accumulate(HistoryEvents(log[page.active]))
        IN  /\ Story(live) = Story(history)
            /\ Outputs(live) \subseteq Outputs(history)

(* refreshState: the panel shows the todos of the active thread once the page is
   at rest, unless a refresh that nobody waits for has outlived its turn.     *)
TodosShown ==
    (Settled /\ calm /\ ordered /\ strays = {} /\ page.active # None) =>
        bundle.todos = todos[page.active]

(* A user who waits is never left in a thread that is not there any more, and the
   tabs are the threads of the registry.                                      *)
ActiveIsListed ==
    (Settled /\ calm) => /\ page.threads = registry
                         /\ page.active # None => page.active \in Range(registry)

(* StreamRequest: "message is either a plain str (new user turn) or a dict keyed
   by interrupt id ... (resume map for pending interrupts)".  From a user who
   waits the server gets a map exactly when a question waits, and for it.     *)
AnswersMeetQuestion ==
    [][\A t \in Threads :
          calm /\ turn[t].pc = "none" /\ turn'[t].pc \in {"agent", "tools"} =>
              sends[t].message.for = {pending[t]} \ {None}]_vars

(* A model that says what it has to say before it calls a tool that changes state:
   no chunk that is shown as text follows one with such a call.                *)
Speaks(part) == part.type \in {"reasoning", "text"} /\ part.text # <<>>

HasText(chunk) == \E k \in DOMAIN chunk.parts : Speaks(chunk.parts[k])

Changes(tc) == tc.name \in STATE_MUTATING

Acts(chunk) == \E tc \in Range(chunk.calls) : Changes(tc)

SaysBeforeCalls ==
    \A s \in Scripts : \A j, k \in DOMAIN s : j < k /\ Acts(s[j]) => ~HasText(s[k])

(* "We detect completion via the LLM resuming after ToolNode runs: the next AI
   text/reasoning event means state is committed."  When a refresh starts in the
   middle of a turn, every call that changes state and is shown is committed. *)
RefetchSeesCommit ==
    [][\A s \in strays' \ strays : s.todos = None =>
          \A k \in DOMAIN bundle.events :
              LET ev == bundle.events[k]
              IN  (Mutates(ev) /\ ev.id = s.n) =>
                      \E j \in DOMAIN log[s.thread] : /\ log[s.thread][j].role = "tool"
                                                      /\ log[s.thread][j].id = ev.content.id]_vars

(* A question the agent asks comes to be shown, if the user stays and nothing
   fails.                                                                     *)
QuestionShown ==
    \A t \in Threads :
        (pending[t] # None /\ calm /\ page.active = t)
            ~> (bundle.pending = pending[t] \/ ~calm \/ page.active # t)
=============================================================================
