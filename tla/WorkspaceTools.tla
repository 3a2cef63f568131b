--------------------------- MODULE WorkspaceTools ---------------------------
(* The workspace tools of the agents: Read, Write, Edit and bash
   (shared/workspace_tools.py, bash_tools.py, helpers/filesystem.py), and the
   kubeconfig files behind the plan tools (infra_agent/tools/clients.py).

   All threads share one workspace directory, "sandbox".  The calls of one
   message run in parallel, and so do the turns of several threads.  A file is
   opened, read, truncated and filled in steps of their own, with the event loop
   in between.  A content is a sequence of lines, the unit that Edit replaces;
   the hash of a content is the content.                                      *)
EXTENDS Naturals, Sequences, FiniteSets

CONSTANTS
    Threads,        \* conversations
    Paths,          \* files of the workspace
    Outside,        \* a path that escapes the workspace
    Homeless,       \* a path whose parent directory is missing
    Lines,          \* what a line of a file may say
    Window,         \* lines that edit_file looks at: the default limit of a read
    MaxReadLines,   \* lines that fit into MAX_READ_TOKENS
    Config,         \* the connection config of each thread
    LocalCluster,   \* whether the mounted kubeconfig has a minikube context
    None

ASSUME ToolsAssumption ==
    /\ Window \in Nat \ {0} /\ MaxReadLines \in Nat \ {0}
    /\ IsFiniteSet(Paths) /\ Outside \notin Paths /\ Homeless \notin Paths
    /\ None \notin Threads /\ None \notin Seq(Lines)
    /\ Config \in [Threads -> [use_local_minikube : BOOLEAN, target_kubeconfig : BOOLEAN,
                              allow_bash : BOOLEAN]]
    /\ LocalCluster \in BOOLEAN

VARIABLES
    files,          \* the workspace: path to content, None where there is no file
    kubeconfig,     \* environment name to the thread whose blob is in the file
    merged,         \* the thread whose environments are in .kubeconfig
    call,           \* the calls of each thread's last message
    view,           \* the hash find_last_file_hash finds in the conversation
    known           \* history: the file as the conversation tells it, None if it
                    \* has not been told everything

toolVars == <<files, kubeconfig, merged, call, view, known>>
-----------------------------------------------------------------------------
(* A call that has not begun; `alone` until another call changes its file. *)
NewCall(req) == [req |-> req, pc |-> "start", next |-> <<>>, base |-> None,
                 alone |-> TRUE, line |-> FALSE, late |-> FALSE, answer |-> None]

At(t, i, pc) == i <= Len(call[t]) /\ call[t][i].pc = pc

Starts(t, i, tool) == At(t, i, "start") /\ call[t][i].req.tool = tool

Path(t, i) == call[t][i].req.path

Usable(t, i) == Path(t, i) \in Paths

Answer(t, i, a, next) ==
    call' = [call EXCEPT ![t][i].pc = "done", ![t][i].answer = a, ![t][i].next = next]

Quiet == UNCHANGED <<files, kubeconfig, merged, view, known>>

(* The file of call <<t, i>> gets new content: what other conversations know of
   it is out of date, and so is what this one knows until it is told.         *)
Changes(t, i, content, done) ==
    LET p == Path(t, i)
    IN  /\ files' = [files EXCEPT ![p] = content]
        /\ known' = [u \in Threads |-> [known[u] EXCEPT ![p] = None]]
        /\ call' = [u \in Threads |-> [j \in 1 .. Len(call[u]) |->
                      IF u = t /\ j = i THEN done
                      ELSE [call[u][j] EXCEPT !.alone =
                              @ /\ ~("path" \in DOMAIN call[u][j].req /\ call[u][j].req.path = p)]]]
        /\ UNCHANGED <<kubeconfig, merged, view>>

(* Mutant: a file that cannot be made is refused like one that is not there. *)
RefuseAlike(t, i) ==
    /\ \E tool \in {"Read", "Write", "Edit"} : Starts(t, i, tool)
    /\ ~Usable(t, i)
    /\ Answer(t, i, IF Path(t, i) = Outside THEN "permission" ELSE "not_found", <<>>)
    /\ Quiet

(* _safe_path and the checks for a file or its directory. *)
RefusePath(t, i) ==
    /\ \E tool \in {"Read", "Write", "Edit"} : Starts(t, i, tool)
    /\ ~Usable(t, i)
    /\ Answer(t, i, IF Path(t, i) = Outside THEN "permission"
                    ELSE IF call[t][i].req.tool = "Write" THEN "no_parent" ELSE "not_found", <<>>)
    /\ Quiet
-----------------------------------------------------------------------------
(* lines[offset : offset + limit], the offset counted from 1 and 0 alike. *)
Slice(content, offset, limit) ==
    LET first == IF offset = 0 THEN 1 ELSE offset
        last == first + limit - 1
    IN  SubSeq(content, first, IF last < Len(content) THEN last ELSE Len(content))

(* The last hash recorded for the path is that of this slice. *)
SameAsLast(t, p, slice) == view[t][p] = slice

ReadFile(t, i) ==
    LET p == Path(t, i)
        req == call[t][i].req
        slice == Slice(files[p], req.offset, req.limit)
    IN  /\ Starts(t, i, "Read") /\ Usable(t, i)
        /\ IF files[p] = None THEN Answer(t, i, "not_found", <<>>)
           ELSE IF Len(slice) > MaxReadLines THEN Answer(t, i, "too_large", <<>>)
           ELSE IF ~req.force /\ SameAsLast(t, p, slice) THEN Answer(t, i, "unchanged", <<>>)
           ELSE Answer(t, i, "success", slice)
        /\ Quiet

(* open(path, "w") empties the file, the content follows. *)
Truncate(t, i) ==
    /\ \/ Starts(t, i, "Write") /\ Usable(t, i)
       \/ At(t, i, "truncate")
    /\ Changes(t, i, <<>>, [call[t][i] EXCEPT !.pc = "fill", !.next =
                               IF call[t][i].req.tool = "Write" THEN call[t][i].req.lines ELSE @])

(* What is written goes over what has come into the file meanwhile, and nowhere
   if the file has been removed.                                              *)
Over(next, content) ==
    IF content = None THEN None
    ELSE next \o SubSeq(content, Len(next) + 1, Len(content))

Fill(t, i) ==
    /\ At(t, i, "fill")
    /\ Changes(t, i, Over(call[t][i].next, files[Path(t, i)]),
               [call[t][i] EXCEPT !.pc = "done", !.answer = "success"])

Occurrences(content, old) == Cardinality({k \in 1 .. Len(content) : content[k] = old})

Replaced(content, old, new) ==
    [k \in 1 .. Len(content) |-> IF content[k] = old THEN new ELSE content[k]]

(* edit_file reads the first lines of the file and decides on them. *)
EditReads(t, i) ==
    LET p == Path(t, i)
        req == call[t][i].req
        n == Occurrences(Slice(files[p], 1, Window), req.old)
    IN  /\ Starts(t, i, "Edit") /\ Usable(t, i)
        /\ IF files[p] = None THEN Answer(t, i, "not_found", <<>>)
           ELSE IF n = 0 THEN Answer(t, i, "string_not_found", <<>>)
           ELSE IF n > 1 /\ ~req.all THEN Answer(t, i, "multiple", <<>>)
           ELSE call' = [call EXCEPT ![t][i].pc = "reread", ![t][i].base = known[t][p]]
        /\ Quiet

(* Mutant: the lines already read are what is edited and written back. *)
EditWithoutRereading(t, i) ==
    LET req == call[t][i].req
        content == files[Path(t, i)]
    IN  /\ At(t, i, "reread")
        /\ IF content = None THEN Answer(t, i, "raised", <<>>)
           ELSE call' = [call EXCEPT ![t][i].pc = "truncate", ![t][i].next =
                            Replaced(Slice(content, 1, Window), req.old, req.new)]
        /\ Quiet

(* fs.edit reads the whole file again; its errors nobody catches. *)
EditRereads(t, i) ==
    LET req == call[t][i].req
        content == files[Path(t, i)]
        n == Occurrences(content, req.old)
    IN  /\ At(t, i, "reread")
        /\ IF content = None THEN Answer(t, i, "raised", <<>>)
           ELSE IF n = 0 \/ (n > 1 /\ ~req.all) THEN Answer(t, i, "raised", <<>>)
           ELSE call' = [call EXCEPT ![t][i].pc = "truncate",
                                     ![t][i].next = Replaced(content, req.old, req.new)]
        /\ Quiet
-----------------------------------------------------------------------------
(* bash: an empty or a blocked command is answered, any other one spawned. *)
BashStarts(t, i) ==
    /\ Starts(t, i, "bash")
    /\ IF call[t][i].req.command = "run"
       THEN call' = [call EXCEPT ![t][i].pc = "stream"]
       ELSE Answer(t, i, call[t][i].req.command, <<>>)
    /\ Quiet

(* The command itself: it writes or removes a file, prints, and may end; while
   it is silent the tool waits.  A command the tool has left goes on: kill() is
   for the shell and not for its children, and an error kills nobody.         *)
Left(t, i) == At(t, i, "done") /\ call[t][i].answer \in {"timed_out", "raised"}

ProcessWrites(t, i) ==
    LET c == call[t][i]
    IN  \/ /\ At(t, i, "stream") /\ c.answer = None
           /\ Changes(t, i, c.req.lines, [c EXCEPT !.answer = "written"])
        \/ /\ Left(t, i) /\ c.req.tool = "bash"
           /\ Changes(t, i, c.req.lines, c)

ProcessPrints(t, i) ==
    /\ At(t, i, "stream") /\ ~call[t][i].line
    /\ call' = [call EXCEPT ![t][i].line = TRUE]
    /\ Quiet

ProcessExits(t, i) ==
    /\ At(t, i, "stream") /\ call[t][i].answer = "written"
    /\ call' = [call EXCEPT ![t][i].pc = "exited"]
    /\ Quiet

Deadline(t, i) ==
    /\ At(t, i, "stream") /\ ~call[t][i].late
    /\ call' = [call EXCEPT ![t][i].late = TRUE]
    /\ Quiet

(* Mutant: the deadline counts from the last line. *)
TakesLineAndWaits(t, i) ==
    /\ At(t, i, "stream") \/ At(t, i, "exited")
    /\ call[t][i].line
    /\ call' = [call EXCEPT ![t][i].line = FALSE, ![t][i].late = FALSE]
    /\ Quiet

(* _stream_command looks at the clock when a line has come.  A line longer than
   the limit of the stream does not come: the iteration raises, and no tool
   catches it.                                                                *)
BashTakesLine(t, i) ==
    /\ At(t, i, "stream") \/ At(t, i, "exited")
    /\ call[t][i].line
    /\ \/ Answer(t, i, "raised", <<>>)
       \/ call[t][i].late /\ Answer(t, i, "timed_out", <<>>)
       \/ ~call[t][i].late /\ call' = [call EXCEPT ![t][i].line = FALSE]
    /\ Quiet

BashEnds(t, i) ==
    /\ At(t, i, "exited") /\ ~call[t][i].line
    /\ Answer(t, i, "success", <<>>)
    /\ Quiet
-----------------------------------------------------------------------------
(* _environments: the name of the one kubernetes environment of a thread. *)
EnvName(t) ==
    IF Config[t].use_local_minikube THEN IF LocalCluster THEN "minikube" ELSE None
    ELSE IF Config[t].target_kubeconfig THEN "target" ELSE None

(* Mutant: one file for every environment. *)
OneKubeconfig(t) == "config"

(* materialize_kubeconfig: the file is named after the environment. *)
KubeconfigOf(t) == EnvName(t)

(* dynamic_client_for, in a plan tool: the kubeconfig is written, then loaded;
   the file is the same for every thread that has an environment of the name. *)
PlanMaterializes(t, i) ==
    /\ Starts(t, i, "plan")
    /\ IF EnvName(t) = None
       THEN Answer(t, i, "no_target", <<>>) /\ UNCHANGED kubeconfig
       ELSE /\ kubeconfig' = [kubeconfig EXCEPT ![KubeconfigOf(t)] = t]
            /\ call' = [call EXCEPT ![t][i].pc = "load"]
    /\ UNCHANGED <<files, merged, view, known>>

PlanLoads(t, i) ==
    /\ At(t, i, "load")
    /\ Answer(t, i, "reached", <<kubeconfig[KubeconfigOf(t)]>>)
    /\ Quiet

(* materialize_workspace_kubeconfig: the environments of the run go into the one
   .kubeconfig that every shell command is pointed at.                        *)
MergedFor(t) == IF EnvName(t) = None THEN merged ELSE t

(* build_context, before every run of a thread. *)
BuildContext(t) == merged' = MergedFor(t)

Available(t) == IF Config[t].allow_bash THEN {"k8s", "fileops"} ELSE {"k8s"}

FileStep(t, i) ==
    \/ RefusePath(t, i) \/ ReadFile(t, i) \/ Truncate(t, i) \/ Fill(t, i)
    \/ EditReads(t, i) \/ EditRereads(t, i)

BashStep(t, i) == BashStarts(t, i) \/ BashTakesLine(t, i) \/ BashEnds(t, i)

PlanStep(t, i) == PlanMaterializes(t, i) \/ PlanLoads(t, i)

ProcessStep(t, i) == ProcessWrites(t, i) \/ ProcessPrints(t, i) \/ ProcessExits(t, i)
=============================================================================
