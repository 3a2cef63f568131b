----------------------------- MODULE MCAgentRun -----------------------------
(* Two threads on a workspace of two files: one may load every skill, the other
   plans and writes files.  Their environments have different names, or the one
   name every pasted kubeconfig gets.                                         *)
EXTENDS AgentRun

CONSTANTS t1, t2, f, g, outside, homeless, x, y

ReadReq(offset, limit) == [tool |-> "Read", path |-> f, offset |-> offset, limit |-> limit, force |-> FALSE]
WriteReq(p, lines) == [tool |-> "Write", path |-> p, lines |-> lines]
EditReq(old, new, all) == [tool |-> "Edit", path |-> f, old |-> old, new |-> new, all |-> all]
BashReq(command, lines) == [tool |-> "bash", path |-> f, command |-> command, lines |-> lines]
SkillReq(s) == [tool |-> "Skill", skill |-> s]
AskReq == [tool |-> "Ask"]
TodosReq == [tool |-> "Todos"]
PlanReq == [tool |-> "plan"]

MCThreads == {t1, t2}
MCPaths == {f, g}
MCLines == {x, y}
MCConfig == (t1 :> [use_local_minikube |-> FALSE, target_kubeconfig |-> TRUE, allow_bash |-> TRUE]
             @@ t2 :> [use_local_minikube |-> TRUE, target_kubeconfig |-> FALSE, allow_bash |-> FALSE])
MCBothPasted == [t \in MCThreads |-> [use_local_minikube |-> FALSE, target_kubeconfig |-> TRUE,
                                       allow_bash |-> t = t1]]
MCMaxMessages == (t1 :> 3 @@ t2 :> 2)
MCInitial == (f :> <<x, y>> @@ g :> <<y>>)
MCSkillTools == ("k8s" :> {"plan", "Read", "Write", "Edit"} @@ "fileops" :> {"Read", "Write", "Edit", "bash"})

(* The calls the interesting cases need.  The thread with the shell: skills one
   by one and together, reads of the whole and of a line, edits that meet one or
   two occurrences, parallel calls on one file, a question beside an edit, errors
   of every tool.  The other: what can disturb the first.                     *)
MCMessages ==
    (t1 :> {<<SkillReq("k8s")>>, <<SkillReq("fileops"), TodosReq>>,
            <<SkillReq("gone"), SkillReq("k8s"), SkillReq("fileops")>>,
            <<ReadReq(1, 3)>>, <<ReadReq(2, 1)>>,
            <<WriteReq(f, <<x>>)>>, <<EditReq(x, y, FALSE)>>,
            <<EditReq(y, x, TRUE), ReadReq(1, 3)>>,
            <<AskReq, EditReq(x, y, TRUE)>>,
            <<WriteReq(outside, <<x>>), WriteReq(homeless, <<x>>)>>,
            <<BashReq("run", None)>>, <<BashReq("run", <<x, x, y>>), BashReq("blocked", None)>>,
            <<PlanReq>>}
     @@ t2 :> {<<SkillReq("k8s")>>, <<SkillReq("fileops")>>, <<EditReq(x, y, TRUE)>>,
               <<PlanReq>>, <<WriteReq(f, <<y, x>>)>>})
=============================================================================
