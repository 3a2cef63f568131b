# Verification of agents-and-workflows

TLA+ models of the repository's own control logic, TLC configurations that check
them on small instances, and theorems about them that TLAPS proves for every
value of the constants. Paths are relative to `src/`.

## 1. Inventory

The repository is a platform for tool-calling agents. A user chats with an agent
in the browser; the backend streams the agent's run as server-sent events and
keeps each thread in a LangGraph checkpointer; the infrastructure agent declares
workloads as `WorkloadPlan` objects in Kubernetes; an operator turns a plan into
child objects and reports their health in the plan's status, which the agent
reads back.

    chat page --HTTP/SSE--> backend --runs--> agent graph --tool calls--> plan tools
        |  interrupt           |  checkpointer (threads)                    |
        +--> Redis pub/sub --> stream                                       v
                                            Kubernetes API server: WorkloadPlan, children
                                                           ^
                                 operator: reconcile thread + health sweep thread

| Component | State | Operations | What is hard | What makes it correct | Model |
|---|---|---|---|---|---|
| WorkloadPlan operator (`workload_operator/handlers.py`, `k8s.py`) | the plan's spec and status, child objects, Kopf's annotation of the spec handled, locals of the handlers in flight | `reconcile` (create, update, resume), `health_sweep` timer, `on_delete`, `_prune_orphans` | two threads on one plan, stale reads, failing calls, retries, crash and resume, garbage collection, foreign objects | status is the whole of one spec; observedGeneration never goes back; children only of a standing plan; dropped components pruned; failures reported; convergence | `WorkloadOperator`, `WorkloadHistory`, `OwnershipTree` |
| Operator core (`workload_operator/core.py`, `models.py`) | none, pure | `compute_phase`, `plan_status_digest`, `orphaned_children`, `is_ready`, pod scan | names against objects; kinds that are ready too early | phase and orphans as the handlers need them; a failure reaches the phase for good | `WorkloadPlanCore`, `WorkloadHealth` |
| Plan tools (`infra_agent/tools/`) | the call's copy of the plan | `declare_plan`, `update_plan`, `delete_plan`, `get_plan_status`, `list_plans`, `check_escalations` | read then write without a version, overlapping calls, lost answers, stale status | Gate 1 for whatever is written; edits are local; an agent polls only what converges | `PlanTools`; the readers of the status in `WorkloadHealth` |
| Streaming turn (`ui/backend/stream.py`, `pubsub.py`) | head checkpoint, pending question, producer, listener, accumulated chunk | open, stream, interrupt, repair, resume | cancellation at any step, lost signals, failures in either task, a client that leaves | every call answered, earlier turns untouched, questions kept, interrupts obeyed | `StreamTurn` |
| Thread registry (`ui/backend/thread_store.py`, `main.py`) | registry rows, checkpoints | create, list, delete in two steps, poll | delete against a running stream | the threads shown are those registered | `ThreadServer` |
| Chat front end (`ui/frontend/src/App.jsx`) | active thread, one event bundle, one sending flag | select, send, refresh, delete, interrupt | results of one thread written while another is shown | what is shown belongs to the thread shown; answers meet their question; questions come to be shown | `ChatPage` |
| Event folding (`accumulator.js`, `event_helpers.py`, `stream.py` 43-115) | events of a turn | live deltas, rehydrated history | the same turn by two routes | both routes read the same | `EventFold` |
| Agent graph and skills (`agentic_patterns/base`, `shared/skill_*.py`) | messages, active tools, loaded skills | agent node, tool node, router, skill loading | parallel tool calls writing one state key, steps executed again | active tools are those of the loaded skills; every step ends | `AgentRun` |
| Workspace file tools (`helpers/filesystem.py`, `shared/workspace_tools.py`) | files, content hashes of what was read | Read, Write, Edit, Glob, Grep, bash | parallel read-modify-write, "unchanged" answers, deadlines | what a conversation was told of a file is true; pages of a search add up | `WorkspaceTools`, `FileSearch` |
| Run context, kubeconfig files (`ui/backend/agent_runtime.py`, `infra_agent/tools/clients.py`) | one kubeconfig file per environment name | write the file, build a client from it | two threads, one file name | a client is of the environment asked for, and of no other | `WorkspaceTools` |
| Ask tool | none | LangGraph's interrupt | resumption | its question waits and is answered | in `StreamTurn`, `AgentRun`, `ThreadServer` |
| CRD, RBAC, deployment manifests | declarative | - | - | `minItems` and list keys are used by the models | not modelled |
| Other agents, command line runner, experiments, model clients, settings, presentational components, migration demo | none of their own | - | - | - | not modelled: instances of the graph above, library constructors, rendering, samples |

Everything this code is exposed to that a test would hardly reach is listed, at
its line, under "hazards" in PROJECT.json, with the properties that watch it.

## 2. Plan

Done, in this order:

1. `WorkloadPlanCore`: decisions of the operator's core.
2. `WorkloadOperator`, with the abstract specification `OwnershipTree`.
3. `WorkloadOperatorProofs`.
4. `PlanTools`, which composes the agents' tools with the operator and implements
   the operator's specification; `PlanToolsProofs`.
5. `StreamTurn` and `StreamTurnProofs`.

6. `WorkloadHealth`: health adapters, pods listed by a second call, and the tools
   that read the status, over `WorkloadOperator`.
7. `FileSearch`, `WorkspaceTools` and `AgentRun`: two conversations in one
   workspace, the calls of a message in parallel.
8. `EventFold`, `ThreadServer` and `ChatPage`: one tab in front of the backend.

9. `WorkloadHistory`: what reconcile promises with the timer beside it.
   `WorkloadHistoryProofs`, `AgentRunProofs`, `ChatPageProofs`, `WorkloadHealthProofs`
   and the rest of `PlanToolsProofs`: of the properties the runs check, every one that
   is neither liveness nor about what a fold computes.
10. `FoldProofs`, induction over what a fold has reached, and with it `PagesAddUp`
    and `RefetchSeesCommit`.

Left, most important first:

11. Two turns on one thread, and a thread deleted during a turn: they need a model
    of what LangGraph leaves in a checkpoint two runs write, of which the code
    promises nothing.
12. A second tab in front of the same backend.
13. `LiveMatchesHistory` for every script of the model: two folds followed at once,
    one of them over what is left of a turn.

## 3. The modules

### WorkloadPlanCore

A child is the coordinates of its object (one value) and a health: pending, ready
or failed (`ready` and `failed` of `models.py` are never both true). A list of
children is a function on component names with `None` for no entry, as the CRD
keys the list by name. `Phase`, `NeedsAttention` and `Orphaned` are
`compute_phase`, the conditions of `plan_status_digest`, and `orphaned_children`.
Notes and messages are left out.

### WorkloadOperator

One plan name and its children.

| Variable | In the code |
|---|---|
| `plan` | the plan object: `life` (gone, active, terminating), `uid`, `generation`, `spec` by generation, `status` (children, observedGeneration) |
| `handled` | Kopf's last-handled annotation, as the generation it holds |
| `cluster` | the objects: owner, component, manifest, health; `None` where there is none |
| `up`, `resuming` | the process runs; `on.resume` is due |
| `seen` | the last plan event Kopf took in: the view it hands the timer |
| `rec` | locals of `reconcile` in flight: spec taken, what the status recorded, what is still to apply, what is done |
| `sweep` | locals of `health_sweep` in flight |
| `budget` | failures, crashes and losses used so far |

A spec is named by its generation: a handler that took `dict(spec)` keeps the
generation, and `plan.spec[g]` says what it holds. Every API call is a step.
`reconcile` is `StartReconcile`, then for each component `ReconcileApply` or
`ReconcileApplyFails` (its own `try`), then `Prune` or `PruneFails` (the handler
raises, Kopf calls it again: `"backoff"`), then `FinishReconcile`, the status
patch together with the annotation. `health_sweep` is `StartSweep`, then for each
component `SweepAssess`, or `SweepMisses` followed by `SweepHeal` /
`SweepHealFails`, or `SweepReadFails`, then `FinishSweep`. Kopf runs change
handlers of one plan one at a time and the timer beside them. The sweep takes
the spec at its start but the generation at its end, from Kopf's live view
(`FinishSweep` writes `seen`). `Observe` is an event that wakes no change handler
but updates that view. Late delivery of watch events needs no action of its own:
an event carries one version of the plan, so a handler woken late works like one
that began earlier and was slow. `OnDelete` waits, as Kopf's finalizer does, until
both handlers are back; then `Collect` is the garbage collector. An object with
another controller refuses the apply (`Refuses`), as the API server refuses a
second controller ownerReference.

Left out: a status patch that fails, the instant before Kopf has put its finalizer
on a new plan, and two operator processes at once (a rolling update with
`--standalone`); the last is listed as a hazard.

`OwnershipTree` is what the operator promises of the children, in three
variables: a child appears only while the plan stands and only if some version of
its spec named it; afterwards children only go. `WorkloadOperator` implements it
under the mapping of `Tree` (`standing`, `asked`, `owned`).

### WorkloadHistory

Extends `WorkloadOperator` by one history variable, which stops nothing. The timer
that `handlers.py` 140 always registers breaks each promise of `reconcile` in one
particular way, and `past` notes when that has happened:

| Part of `past` | Meeting of the two threads | What it breaks |
|---|---|---|
| `straddled` | a sweep is at work when Kopf takes in a newer spec than its own | pruning, reporting, the label of the status (`find_race_leak`, `find_status_mislabelled`) |
| `replaced` | a sweep writes the status while a reconcile is at work or waits for its retry | the record a retry prunes from |
| `refused`, `masked` | a component is refused; a sweep judges its old object afterwards | the report of the refusal (`find_refusal_masked`) |

`PrunedUnlessOvertaken`, `PrunedBeforeForgotten` and `ReportedUntilSwept` say that
nothing else breaks them, with the timer on. Their exceptions do not last longer than
what they are about: of a plan that has been straddled nothing more is said, as the
damage (a leaked child) is for good; `replaced` is over when the reconcile starts again
or comes to its end, `refused` and `masked` when the next one begins. The first of the
three also excepts failed calls and crashes, after which an interrupted reconcile's
objects are recorded nowhere, and components that moved to another object (`Moved`).
`HInv` is their inductive invariant.

### PlanTools

Extends `WorkloadOperator`. A call is a read (`get_cr`) and a write (`apply_cr` or
`delete_cr`), two requests, with what it read in `call`. Calls overlap, as the tool node
runs the calls of a message together. `apply_cr` is a server-side apply by one field
manager for all callers: it replaces the list, takes no note of the version read, and
creates a plan that is missing (`Written`). A list of components that Gate 1
(`PlanModel`) rejects is the draft `None`. `update_plan` and `delete_plan` are split by
whether they are given a component. A lost answer is an `"error"` for something that was
done. `get_plan_status` is two requests or more as well: `ReadForStatus` reads the plan
and comes to its verdict (`Verdict`), `EventsForStatus` lists events and answers, and
anything may happen in between; the events can make a plan stuck and never unstuck.
`Built` is `build_workload_plan`: a manifest without a namespace gets that of the
caller's environment (`Placed`), every component's each time a list is written. Which
environments a run has is fixed, so answers about unknown targets are left out;
`list_plans` and `check_escalations` only read and render.

`OperatorSpec` is the operator's `Spec`, with `CreatePlan`, `EditPlan` and
`DeletePlan` as the agents: the tools implement it, so what is shown of the
operator for arbitrary agents holds for plans the tools make.

### StreamTurn

The turns of one thread. `msgs` is the message list of the head checkpoint,
`question` a pending interrupt of the Ask tool. `Open` and `Look` are the start of
`sse_event_stream`, with `get_latest_snapshot` deciding whether the request
resumes a question. `producer` is the agent run (input, model, tools, done,
failed), `listener` the task of `listen_for_interrupt`. `Cut` is the generator
finding the listener done, whether it returned or raised; `Patch` is
`_patch_state_after_interrupt`, whose three branches are `Repaired`; `Ends` is the
`finally` clause. `Leave` is a client that closes the response or a backend that
dies. A message is known by its index (the code uses ids), the results of one
step are one message, and `left`, a history variable, marks messages whose calls
were open when a turn failed or was left.

The chunk's `tool_calls` are computed by LangChain when chunks are added, and
assigning `tool_call_chunks` afterwards does not change them: the repair keeps
them, and `Repaired` says so. A provider takes neither an unanswered call nor an
answers map as content (`Sendable`). Left out: a second stream on the same thread,
and how chunks become events.

### WorkloadHealth

Extends `WorkloadOperator`, whose children change their health by themselves, and
says where the health comes from. `workload` is what the controllers write of each
object: pods that start, become ready, wait (a crash loop, an image that cannot
be pulled) and are replaced, a stalled rollout, a Job's attempts. `IsReady` is
`HEALTH_ADAPTERS`, `FatalPod` is `fatal_pod_reason`. The sweep's assessment is two
requests, `GetObject` and `ListPods`, with `probe` in between: an object that is not
ready is asked for its pods, as they are by then. `Diagnoses`, `ShownStuck`,
`ListedState` and `CheckEscalations` are what `get_plan_status`, `list_plans` and
`check_escalations` read out of status and events. They change nothing and are
functions of one state. For the scan that is exact: it reads the plans of a target in
one request, and this plan lies in one target; which others answer is a parameter. A
`get_plan_status` lists the events after the status, and `EscalationReaches` is true of
it because it speaks of what holds for good. Up to two warnings on the plan object come
before those of the children and use up lines (`OnPlan`); any number is allowed at any
time. Deleted plans, crashes and lost children stay
with `WorkloadOperator`. The adapter of a bare Pod is defined; no object of the
instance is one.

### WorkspaceTools, FileSearch, AgentRun

| Variable | In the code |
|---|---|
| `files` | the files of the directory `sandbox`, which all threads share |
| `kubeconfig`, `merged` | the file `kubeconfig-<environment>` and `.kubeconfig`: whose blob is in it |
| `call` | the calls of the last message of each thread, each with its program counter and locals |
| `view` | the hash `find_last_file_hash` finds in the conversation |
| `thread` | where the graph of a thread is, its `active_tools` |
| `known`, `told` | history: what a conversation may conclude of a file; the skills it was told are loaded |

A call goes from one `await` to the next. Write is `Truncate` and `Fill`, as
`open(path, "w")` empties the file before the content follows. Edit is `EditReads`
(`edit_file` decides on the first lines), `EditRereads` (`FileSystem.edit` reads the
whole file again), `Truncate` and `Fill`. bash is a command that writes, prints and
exits on its own (`ProcessStep`), and `_stream_command`, which looks at the clock
when a line has come, and raises when it is longer than the limit of the stream, which
no tool catches. A command that the tool has left (`Left`: past its deadline, where
`kill` is for the shell and not for its children, or after such an error) goes on
writing; when the step is over as well it is somebody else, as another process would be.
A plan tool writes the kubeconfig and builds its client from
the file in two steps. `ToolsCommit` is the end of LangGraph's step: the answers
of all calls at once, refused when two of them write one key (`Conflict`); an
exception leaves the node (`ToolRaises`); `AskInterrupts` leaves the other calls
running, and `Resume` executes all of them again. A step that fails stops its
thread here; what it does to the next turn is in `StreamTurn`. `Lines` and
`Request` say what a file and a call may be: the state of a call that has not come
to one of its fields holds `None` there, and `RunTypeOK` says at which of its places
a call has what.

`FileSearch` has the Glob and Grep tools with their offset and limit in three modes,
and what they answer, as functions. A content is a sequence of lines, and a hash is
the content. `PagesAddUp` is about searches line by line. A multiline search for
files or counts does not keep it: `filesystem.py:175` goes on with the next file
before the head limit is looked at in line 214, so that every match is returned,
though the description of Grep says "Maximum results to return"
(`bash_prompts.py:33`). Left out: patterns that span lines, a `head_limit` of 0, the
cap on the output of bash.

### EventFold, ThreadServer, ChatPage

`EventFold` has the conversions: `ChunkEvents` (`chunk_to_events`, with the map
from the index of a call to its id), `HistoryEvents` (`messages_to_events`) and
`Accumulate` (`accumulator.js`). Text and arguments are sequences of tokens; a
partial parse of arguments gives the tokens there are.

`ThreadServer` is the backend as a page sees it: the registry, the head checkpoint of
each thread (`log`, `pending`, `todos`), one turn per thread (`turn`) and the part of
its response that has not been read (`wire`). It is coarser than `StreamTurn`, one step
for each chunk, message and round of tools, but speaks in chunks, so that what is
streamed and what is persisted can be compared. `said` is `partial_ai`, the sum of the
chunks so far, which is also what gets committed (`WithChunk`). Its repair of a cut turn
has the same branches as `StreamTurn`'s, with the parts and calls of the messages.

`ChatPage` is `App.jsx`. `page` and `bundle` are its state, which all threads share;
`sends` is a `handleSend` in flight with the thread it closed over, `strays` are
refreshes nobody awaits, `loads` the two parallel fetches of the effect on
`activeId`, `deleting` a `handleDeleteThread`. A fetch is a step at which the server
answers and one at which the answer is applied, unless the thread is at rest in
between. `Send` is `handleSend` up to its POST, `Receives` its callback,
`FinalRefresh` and `FinishSend` what follows the stream; `Message` sends a resume map
when the question card is shown and a text otherwise. `calm` and `ordered` are
history variables: the user has waited for the page so far and nothing has
failed; no stray refresh has outlived its turn. They bound what is promised,
never what may happen: users who do not wait are in the model. A thread is created
with an id of its own (`Fresh`, the `uuid7` of `thread_store.py`), and `handleDeleteThread`
filters one thread out of a list that has it once (`RemoveFirst`).

Not in the instance: two tabs, two turns at once, and the deletion of a thread with
a turn, for which `Send` and `Delete` have guards that the page does not have.

## 4. The runs

Every cfg says CHECK_DEADLOCK FALSE: a system whose users stop editing or
asking, and whose budgets of failures are used up, may rest.

| Run | Question | Bounds |
|---|---|---|
| `operator` | Is the status always the whole of one spec, does observedGeneration ever go back, is a child ever grown for a plan that is gone? Is what leaves the spec pruned before it is forgotten, and what is refused reported, up to the meetings noted in `past`? Does everything come right once agents and failures stop, and does a deleted plan go with all its children? Also checks the inductive invariant `HInv` of the proofs. | fair, timer on; 2 components, specs that move and share objects, 2 plans one after the other, 2 generations, 1 failed call, 1 crash, 1 lost child (816k states) |
| `operator_phase` | Do failures, crash loops among them, reach the phase for good and every reader of the status, and do alarms clear? | fair; a Deployment with one pod next to a foreign object, or a Job in its place, 2 restarts are fatal, 2 generations, 1 failed call, 1 other target (252k states) |
| `agent_run` | Is what a conversation was told of a file true, do loaded skills stay bound, do plan tools keep the names of environments apart, do pages of a search add up, does every step end? | 2 threads with 3 and 2 messages of up to 3 parallel calls, 2 files of up to 3 lines, environments of different names (211k states) |
| `chat_page` | Does the live stream read like the history, does the panel end on the thread's state, do answers meet their question, is a question shown, is the active thread a listed one? | 2 threads, a fresh backend or one with a question waiting, 2 turns, 2 messages with calls, 1 switch, creation or deletion, 1 failure, interrupt or hurried act (278k states) |
| `plan_tools` | Gate 1, local edits, sound polling, and the tools as agents of the operator. | 2 interchangeable calls of every kind, 3 generations, 1 failed call (830k states) |
| `stream_turn` | Calls answered, earlier turns kept, questions kept, completed means answered, interrupts obeyed. | 3 turns of text or answers, 8 messages of the model, 1 failing step, 1 client that leaves (120k states) |
| `find_race_leak`, `find_refusal_masked`, `find_status_mislabelled`, `find_ready_while_behind`, `find_cut_call_orphaned`, `find_foreign_target` | The disagreements of section 5. | the smallest instance that shows them |

Why the bounds are enough. Two components give one that stays while the other is added,
dropped or moved; two objects and three manifests give an edit in place, a move and a
takeover, and `operator_phase` has a foreign object. Two generations put a handler one
edit behind, three (`plan_tools`) let an edit be taken back. A second plan under the
same name meets what the first left. One failure, crash or loss at every possible moment
covers each recovery path. Longer histories are left to the proofs, which bound nothing.
Two tool calls are the least that overlap, and every race of the tools is between the
read and the write of one call and the write of another; there the timer is off, because
with it the run does not end in the time a run may take: what a sweep adds for the tools
is one more writer of the status, and the theorems of `PlanToolsProofs`,
`PollingIsAlwaysSound` among them, are proved with the timer on or off. Three turns let
the second be interrupted with one before it and one after it. One pod, whose restarts
may be fatal or not yet, and one failed call are enough for a sweep to see every mixture
of an object and its pods. Two conversations are the least that disturb each other: one
has all tools and messages with parallel calls on one file, a question beside an edit
and errors of every tool, the other edits, writes and plans. A file of three lines has a
match before, in and after a page. In `chat_page` two turns let the second meet what the
first has left, and two messages with parallel calls in one turn let an index be used
again; with one switch and two threads every fetch can come from a thread that was left.
Symmetry is used only for the callers of `plan_tools`, a run without liveness.
`MaxMessages` stands for LangGraph's recursion limit: at the bound the run fails, as it
does in the code.

Fairness. `WorkloadOperator!Fairness`: Kopf keeps calling a plan's handlers and
its timer (`ReconcileNext`, `SweepNext`), the finalizer goes when the handlers are
back, the Deployment restarts a crashed pod, the garbage collector takes one
object after the other. Nothing is asked of agents, of the network or of the workloads.
The weak fairness of `ReconcileNext` lets Kopf's retries go on; the failures
themselves are bounded. `StreamTurn!FairSpec`: the event loop runs the generator
(`Consume`). The agent run has no fairness, it may hang, and `InterruptStops`
holds nevertheless. `WorkloadHealth!HealthSpec` keeps the fairness of the two
handlers; the controllers have none. `AgentRun!RunSpec`: the event loop gets round
to every thread and the clock runs; the model, the user and the commands may stop,
and `StepsEnd` is about commands that do not stay silent. `ChatPage!PageSpec`: the
server answers, and the page takes what has come; the user does nothing that must
happen.

What the three properties of `WorkloadHistory` except is said in section 3.
`EarlierTurnsKept` excepts a cut before the user's message has been committed: the
repair then overwrites the answer of the turn before, because it finds that one last.
`PictureIsTrue` excepts files that somebody else has changed, a call of the same message
among them: two edits of one message still lose one. `NamesStayApart` is all that holds
of the kubeconfig files: a thread is never sent from the local cluster to a pasted one
or back. That a thread reaches its own environment does not hold (section 5).
`PollingIsSound` excepts a plan that was edited, deleted or created anew after the tool
has read it. `LiveMatchesHistory` and the others of `chat_page` are about a user who
waits for the page; `TodosShown` excepts a refresh in the middle of a turn that answers
after the turn is over. `RefetchSeesCommit` holds for models that say what they have to
say before they call tools that change state (`SaysBeforeCalls`, which `MCChatPage`
assumes of `MCScripts`).

## 5. Where code and documents disagree

- `find_race_leak`: a sweep that took the spec before an edit heals the child the
  reconcile of the edit has just pruned (`handlers.py` 151, 169). The next status
  does not list it, and nobody deletes it while the plan lives. The walkthrough calls the
  timer beside reconcile "harmless".
- `find_refusal_masked`: a refused edit is reported by reconcile, then the next
  sweep judges the live object, which still runs the old manifest, and writes it
  ready or pending under the new generation (`handlers.py` 177); the apply is
  not tried again.
- `find_status_mislabelled`: `health_sweep` takes the spec when it starts
  (`handlers.py` 151) and the generation, from Kopf's live view, when it ends (183), so
  that a sweep an edit has overtaken names the edit's generation over the children of the
  spec before. `models.py` 110-112 calls the field "The spec generation this status
  reflects, to detect stale status"; `_reconcile_behind`, which is to detect it, goes
  by this field.
- `find_ready_while_behind`: `get_plan_status` asks whether the operator is behind
  only if the phase is not Ready (`workload_plan.py` 244), so it answers Ready for
  a spec the operator has not seen; its docstring says it renders the stuck view.
- `find_cut_call_orphaned`: the repair of an answer cut off in the middle of a
  tool call commits the call without a result (`stream.py` 250), which the comments
  say it drops.
- `find_foreign_target`: `agent_runtime.py` 68 and 78 name every local cluster "minikube"
  and every pasted one "target", and the kubeconfig files, named after the environment or
  just `.kubeconfig`, lie in one directory for all threads. `clients.py` 3-6 says "so the
  agent can only ever reach the environment it was handed", its line 60 "Only the given
  environments are reachable through it", and `infra_agent/prompts.py` 70-71 the same to
  the model. The run's counterexample has a shell command of one thread pointed at the
  environment of another, whose turn has begun meanwhile; with `allow_bash` FALSE for both
  threads of `MCBothPasted` TLC finds the other half, a plan tool that writes its file,
  waits, and loads what the other thread has put there.

Three more places where a text promises more than the code keeps have no run of their
own. `bash_prompts.py` 12 says of the timeout "Maximum seconds to wait for completion",
but the clock is looked at only when a line comes (`filesystem.py` 280): a silent command
is waited for without limit, which `StepsEnd` excepts. `handlers.py` 103-104 says that "a
component dropped from the plan has its child deleted": besides the race of
`find_race_leak`, a crash before the status patch, a failed prune, or a sweep between a
failed prune and its retry loses the record of what was applied, so that an edit which
overtakes the next reconcile leaks it; and `orphaned_children`, going by names, leaves the
old object of a component that moved. `bash_prompts.py` 33 and multiline searches are
described in section 3.

Other weaknesses are kept as hazards, for which we found no text that says otherwise: a
component renamed over the same object has its object deleted until the next sweep; a
message whose calls ask and act acts twice; a switch of threads during a turn mixes two
threads on the page until the next load; loaded skills are unbound by the next message of
the user.

## 6. The proofs

TLAPS proves these for every set of components, objects, manifests, specs, threads,
files and messages and every value of the bounds, from the named assumptions
`CoreAssumption`, `OperatorAssumption`, `ToolsAssumption`, `StreamAssumption`,
`RunAssumption`, `ServerAssumption` and `PageAssumption`. They give the constants their
types: `None` is none of the values it stands beside, a message has at most three calls,
a registry lists no thread twice, the name of a call comes with its id, and a question
that waits is asked by the last message. `PlacingAssumption` is about the namespaces of
the tools' environments. The inductive invariants below hold in TLC's instances too: a
module that extends an MC module and the proof module checks them with the cfg of the
run.

`WorkloadOperatorProofs`
- `InductiveInvariant`: `Spec => []IInv`. `StatusIsOneSpec` is not inductive by
  itself. `FinishReconcile` and `FinishSweep` write what a handler has gathered, so
  the invariant must say that what is done, to do and in hand add up to the spec
  the handler took (`WorkAddsUp`); that this spec is no newer than the generation
  written with it needs the order of the views (`ViewsAgree`); that a spec once
  written stays what it was (`HistoryIsWrittenOnce`) keeps the rest true under edits;
  and `WorkHasPlan` ties handlers in flight to a plan that exists.
- `TypeCorrect`, `StatusWhole`: parts of it.
- `ObservedMonotone`: from `ViewsAgree`, both writers write a generation at least
  as new as the status has.
- `ImplementsTree`: the initial state and each step map to one of the tree, or to a
  stutter. Only a handler at work applies, and handlers at work mean a standing plan
  whose history contains their spec.

`WorkloadHistoryProofs`: what the docstrings of `reconcile` promise, with the timer
on or off, for any specs, edits, failures, crashes and losses. No theorem has a
hypothesis of its own; the exceptions are those of the properties (section 3).
- `RecordHolds`: `HistorySpec => []HInv`. As long as no edit has overtaken a sweep, a
  sweep at work is on the spec taken in last (`SweepIsCurrent`), so that what it writes is
  the status the reconcile would write, apart from healths. On that rest the others:
  what the status lists is in the record of a reconcile at work, pruned, or of the spec it
  is at work on (`RecordIsKept`); between reconciles status, view and spec handled agree
  (`RestAgrees`); what a reconcile has been through is served or noted as refused
  (`RefusalsAreNoted`); and while nothing has failed every object of the plan is on record
  (`NothingIsLost`). Each action keeps each part; the parts that speak of edits need that
  a spec once written stays (`IInv`).
- `PruneComesFirst`: from `RecordIsKept`. A record is dropped by the patch at the end of a
  reconcile, when all it had to prune is gone, or by a sweep, which is noted.
- `DroppedIsPruned`: at rest what is on record is what the spec names, by `RestAgrees`
  and `NothingIsLost`.
- `RefusalIsNoted`: `RefusalsAreNoted` for the spec of a plan at rest.

`WorkloadHealthProofs`: `AssessedStatusIsWhole`, `AssessedObservedMonotone` and
`AssessedImplementsTree` are the theorems of the operator for `HealthSpec`, where a
child is assessed in two calls. `WorkloadHealth` does not refine `WorkloadOperator`
step by step, because the health it records was not in `cluster` before; but each step
is one of the operator's or the settling of one component in some health
(`HealthSteps`), and the invariant asks nothing of that health. Between the two calls
the sweep stands still at its component (`ProbeOwn`).

`PlanToolsProofs`
- `ToolsImplementAgents`: each step of the tools is a step of the operator's `Next`
  or leaves it alone; the theorems above carry over.
- `GateAlwaysHolds`: inductive together with `IInv` of the operator.
- `EditsAreLocal`: what a call wants is what it read with one component changed,
  and the generation it read names it for good (an invariant of the module).
- `PollingIsAlwaysSound`: between the reading and the answer the tool has only what it
  read. A call on its way to "converging" read a status that had observed the generation
  the plan had then (an invariant over its locals); as `observedGeneration` never goes back
  while the plan lives and is never ahead of the plan (`ViewsAgree`), it still is
  observed when the tool answers, unless the plan is another or has been edited.

`StreamTurnProofs`
- `StreamInvariant`: `Spec => []StreamInv`. A committed call is answered because the
  run appends to the messages only when the last one has no open call (`CallsAreLast`,
  `ResumeIsDue`); the repair's write under the id of the accumulated chunk touches
  only this turn (`PartialIsOwn`, `TurnsInOrder`); `DoneIsAnswered` is what the end
  of a run means.
- `StreamTypeCorrect`, `CallsStayAnswered`, `QuestionsAreKept`,
  `EarlierTurnsAreKept`, `CompletedIsAlwaysAnswered` follow from it.

`FoldProofs`: lemmas about folds over sequences. The library's induction rules take an
operator, which the provers cannot instantiate; `Induction` is about a set of naturals
instead. A fold defined with `FoldLeft` is a function on the positions of the sequence
(`FoldExists`), and what holds at the start and is kept by each step holds at the end:
the set to which `Induction` is applied is that of the positions where it holds.

`AgentRunProofs`
- `TypesHold`: for messages of any three requests a place of its own in its tool is
  where every call is, whatever the others do; a lemma for each kind of call.
- `SkillsStay`: the tools that will be bound are those in the answer of a skill call
  from the moment it is answered until the step is committed (`LoadedOK`); two such
  answers in one step are refused (`Conflict`), so the one that is written is the one
  the model was told of.
- `NamesakeReached`: between the two steps of a plan tool the file of its environment's
  name holds some thread whose environment has that name (`AboutToLoadNamesake`).
- `ToldIsTheFile`: the hard one. A picture a conversation has of a file is made of
  locals that calls have read at different times, so the invariant says, for each
  place of a call that has been alone with its file so far, what its locals have to do
  with the file as it is (`FilesOK`): what Read is about to tell, what Write has
  truncated and is about to fill, that the two readings of Edit were of one content.
- `PagesMakeTheSearch`: a page of Grep is exactly its part of the search without pages,
  wherever it starts and in every mode, and Glob's first files are the first of all. The
  lemma behind it, `GrepPage`, holds for every offset and head limit: the search that
  skips and stops is followed side by side with one that does neither, through a fold
  over the files and one over the lines of each, and what the one has collected is at
  every moment the page of what the other has. It is about a search that ends before its
  own head limit, and needs finitely many paths, so that a workspace has an order.

`ChatPageProofs`
- `PageInvHolds`: for any number of threads, turns and events, in the model of one
  tab with one turn at a time (section 3). What makes the page right
  is that a turn runs only while the one send that started it reads its response
  (`TurnsAreSent`); that the tabs are the registry, but for a deletion that has not
  come to its end (`TabsFollow`); and, for a user who waits (`Waited`), that what has
  been fetched, asked or posted is still so when it is used.
- `ActiveStaysListed`, `AnswersAreForQuestions` and `PanelEndsOnTodos` follow. The
  last one is about a page whose stray refreshes have come in (`ordered`): one that
  answers when its turn is over overwrites what the final refresh has shown.
- `RefetchFollowsCommit`: for a model that says what it has to say before it calls
  tools (`SaysBeforeCalls`, a hypothesis of the theorem), whether or not the user waits.
  The invariant (`RefetchInv`) is about each thread by itself: a call that the response
  has told of is committed, belongs to the message being said, whose words are over by
  then (`Saying`), or is at work (`CallsFollow`); words that the page has not read yet
  follow calls that are committed (`WordsFollow`); and the events of a turn are told
  apart from those of other turns, other threads and a reloaded history by their ids
  (`WireIsOwn`, `ShownIsOld`). Begin, repair, break and deletion of a turn each keep it,
  the repair because it never takes away what a tool has answered (`PatchEffect`). What
  the conversions yield, `ChunkEvents`, `HistoryEvents` and the sum of chunks, is proved
  of the folds they are, with `FoldMakes`.

Only model-checked:
- liveness, which is beyond TLAPS: `Converges`, `CascadeCompletes`,
  `FailureEscalates`, `CrashLoopEscalates`, `AlarmsClear`, `EscalationReaches`,
  `InterruptStops`, `StepsEnd`, `QuestionShown`;
- `LiveMatchesHistory`, which compares two folds over a turn, one of them taken in
  pieces as the chunks arrive: a proof needs hypotheses on the order of what a model
  says, and an invariant about the half of a turn that has not been read.

## 7. Running it

`tlc -config <run>.cfg <module>` for a run; its module is in PROJECT.json.
`tlapm <module>Proofs.tla` for the proofs.
