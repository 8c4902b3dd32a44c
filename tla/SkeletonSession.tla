--------------------------- MODULE SkeletonSession ---------------------------
(***************************************************************************)
(* The skeleton planner's execution of a tree and its sessions on disk:    *)
(* PlanAndExecute, Execute, executeNode, checkpoint, SaveSession and       *)
(* findExistingSession of internal/planner/skeleton.go, called again and   *)
(* again for the same task, with crashes of the process in between.        *)
(*                                                                         *)
(* A plan is the tree the model's answers produce; the execution of a leaf *)
(* is ExecuteStep (see StepExecutor), which ends with or without an error. *)
(* A node is its number in the depth-first order of the tree, the root is  *)
(* 1, and a tree is the function from each node to its parent. The text of *)
(* a result matters only as far as it is empty or not. A context is the    *)
(* sequence of the nodes whose results were written to it.                 *)
(***************************************************************************)
EXTENDS Integers, Sequences, FiniteSets

CONSTANTS
  Nodes,         \* 1 .. the size of the largest plan
  Plans,         \* the trees the model may produce for the task
  MaxSessions,   \* bound of the model: session ids, in the order of their creation
  MaxCalls,      \* bound of the model: calls of PlanAndExecute
  MaxCrashes,    \* bound of the model: crashes of the process
  MaxFaults,     \* bound of the model: file operations that fail
  MaxCancels     \* bound of the model: cancellations of a call's context

\* The parents of a tree are numbered depth first: the next node is a child of
\* the one before it or of an ancestor of that one.
DepthFirst(t) ==
  /\ 1 \in DOMAIN t /\ t[1] = 0
  /\ \A n \in DOMAIN t \ {1} :
       /\ t[n] \in 1 .. n - 1
       /\ \A m \in t[n] + 1 .. n - 1 : t[m] >= t[n]

ASSUME SessionConstants ==
  /\ Nodes \subseteq Nat \ {0} /\ IsFiniteSet(Nodes)
  /\ \A t \in Plans :
       /\ \E k \in Nodes : DOMAIN t = 1 .. k
       /\ DOMAIN t \subseteq Nodes /\ DepthFirst(t)
  /\ {MaxSessions, MaxCalls, MaxCrashes, MaxFaults, MaxCancels} \subseteq Nat

Ids == 1 .. MaxSessions

VARIABLES
  pc,            \* where the call stands, "idle" between two calls
  tree,          \* the plan being executed
  status,        \* TaskNode.Status of each node
  text,          \* TaskNode.Result # "", of each node
  node,          \* the node executeNode is at
  childContext,  \* the context each branch under execution has built
  allSuccess,
  session,       \* SkeletonPlanner.sessionID, 0 if ""
  cancelled,     \* ctx.Err() # nil
  outcome,       \* how the last call ended
  files          \* session id -> its file

\* The clock the ids are taken from, and the budgets of the environment.
VARIABLES lastId, calls, crashes, faults, cancels

\* What an observer remembers; no action reads these.
VARIABLES
  resumed,      \* the call continues a session it found
  ran,          \* leaves executed in this call, in order
  completions,  \* leaf -> times it completed in the newest session
  losses        \* completions in it whose checkpoint failed or was cut off

budgets == <<lastId, calls, crashes, faults, cancels>>
observed == <<resumed, ran, completions, losses>>
memory == <<tree, status, text, node, childContext, allSuccess, session, cancelled>>
vars == <<pc, memory, outcome, files, budgets, observed>>

Statuses == {"pending", "running", "completed", "failed"}

Absent == [kind |-> "absent"]
Corrupt == [kind |-> "corrupt"]  \* truncated, or written in part: not readable as JSON
Saved == [kind |-> "saved", tree |-> tree, status |-> status, text |-> text]

\* The leaves of a tree: IsLeaf or no children, which is no children.
Leaves(t) == {n \in DOMAIN t : \A m \in DOMAIN t : t[m] # n}

-----------------------------------------------------------------------------
(***************************************************************************)
(* A call: find a session of the task or plan, then execute                *)
(***************************************************************************)
NoPlan == <<0>>
Blank(t, value) == [n \in DOMAIN t |-> value]

\* Mutant: the planner, with its session id, serves the next call as well.
KeepPlanner ==
  /\ tree' = NoPlan /\ status' = Blank(NoPlan, "pending") /\ text' = Blank(NoPlan, FALSE)
  /\ node' = 1 /\ childContext' = Blank(NoPlan, <<>>)
  /\ allSuccess' = TRUE /\ session' = session /\ cancelled' = FALSE

\* A planner is made for a call and does not outlive it.
Forget ==
  /\ tree' = NoPlan /\ status' = Blank(NoPlan, "pending") /\ text' = Blank(NoPlan, FALSE)
  /\ node' = 1 /\ childContext' = Blank(NoPlan, <<>>)
  /\ allSuccess' = TRUE /\ session' = 0 /\ cancelled' = FALSE

Init ==
  /\ pc = "idle" /\ outcome = "none"
  /\ tree = NoPlan /\ status = Blank(NoPlan, "pending") /\ text = Blank(NoPlan, FALSE)
  /\ node = 1 /\ childContext = Blank(NoPlan, <<>>)
  /\ allSuccess = TRUE /\ session = 0 /\ cancelled = FALSE
  /\ files = [id \in Ids |-> Absent]
  /\ lastId = 0 /\ calls = 0 /\ crashes = 0 /\ faults = 0 /\ cancels = 0
  /\ resumed = FALSE /\ ran = <<>>
  /\ completions = [n \in Nodes |-> 0] /\ losses = 0

\* PlanAndExecute is called, on a planner of its own.
Call ==
  /\ pc = "idle" /\ calls < MaxCalls
  /\ calls' = calls + 1
  /\ pc' = "look"
  /\ resumed' = FALSE /\ ran' = <<>>
  /\ UNCHANGED <<memory, outcome, files, lastId, crashes, faults, cancels, completions,
                 losses>>

Readable(id) == files[id].kind = "saved"

\* FindNextPending finds a leaf in the session's tree.
HasPending(id) ==
  \E n \in Leaves(files[id].tree) : files[id].status[n] = "pending"

\* findExistingSession: the first file, in the order of the ids, that can be read.
Found == {id \in Ids : Readable(id) /\ \A j \in 1 .. id - 1 : ~Readable(j)}

Resume ==
  /\ pc = "look"
  /\ \E id \in Found :
       /\ HasPending(id)
       /\ session' = id
       /\ tree' = files[id].tree /\ status' = files[id].status /\ text' = files[id].text
  /\ resumed' = TRUE
  /\ pc' = "execute"
  /\ UNCHANGED <<node, childContext, allSuccess, cancelled, outcome, files, budgets,
                 ran, completions, losses>>

NothingToResume ==
  /\ pc = "look" /\ \A id \in Found : ~HasPending(id)
  /\ pc' = "plan"
  /\ UNCHANGED <<memory, outcome, files, budgets, observed>>

Plan ==
  /\ pc = "plan"
  /\ \E t \in Plans :
       /\ tree' = t
       /\ status' = Blank(t, "pending") /\ text' = Blank(t, FALSE)
  /\ pc' = "execute"
  /\ UNCHANGED <<node, childContext, allSuccess, session, cancelled, outcome, files,
                 budgets, observed>>

\* The generation of the plan fails, or the provider is not available any more.
CallFails ==
  /\ pc \in {"plan", "execute"}
  /\ pc' = "idle" /\ outcome' = "error" /\ Forget
  /\ UNCHANGED <<files, budgets, observed>>

\* Execute: a session that was not found gets an id of its own.
Execute ==
  /\ pc = "execute"
  /\ IF session = 0
       THEN /\ lastId < MaxSessions
            /\ lastId' = lastId + 1 /\ session' = lastId + 1
            /\ completions' = [n \in Nodes |-> 0] /\ losses' = 0
       ELSE UNCHANGED <<lastId, session, completions, losses>>
  /\ allSuccess' = TRUE
  /\ node' = 1 /\ childContext' = Blank(tree, <<>>)
  /\ pc' = "visit"
  /\ UNCHANGED <<tree, status, text, cancelled, outcome, files, calls, crashes, faults,
                 cancels, resumed, ran>>

-----------------------------------------------------------------------------
(***************************************************************************)
(* executeNode                                                             *)
(***************************************************************************)
Children(n) == {m \in DOMAIN tree : tree[m] = n}
YoungerSiblings(n) == {m \in DOMAIN tree : tree[m] = tree[n] /\ m > n}

\* The first node of a set in the order of the walk.
First(S) == CHOOSE n \in S : \A m \in S : n <= m

\* The context the node's parent has built so far; the root has none.
SiblingContext(n) == IF n = 1 THEN <<>> ELSE childContext[tree[n]]

\* Mutant: a resumed walk does not know what was completed before.
NothingSkipped == cancelled

Skipped == cancelled \/ status[node] = "completed"

SkipNode ==
  /\ pc = "visit" /\ Skipped
  /\ pc' = "return"
  /\ UNCHANGED <<memory, outcome, files, budgets, observed>>

EnterBranch ==
  /\ pc = "visit" /\ ~Skipped /\ Children(node) # {}
  /\ status' = [status EXCEPT ![node] = "running"]
  /\ childContext' = [childContext EXCEPT ![node] = SiblingContext(node)]
  /\ node' = First(Children(node))
  /\ UNCHANGED <<pc, tree, text, allSuccess, session, cancelled, outcome, files,
                 budgets, observed>>

StartLeaf ==
  /\ pc = "visit" /\ ~Skipped /\ Children(node) = {}
  /\ status' = [status EXCEPT ![node] = "running"]
  /\ pc' = "exec"
  /\ ran' = Append(ran, node)
  /\ UNCHANGED <<tree, text, node, childContext, allSuccess, session, cancelled, outcome,
                 files, budgets, resumed, completions, losses>>

\* Mutant: only the call's last leaf decides on its success.
LastDecides(ok) == ok

SuccessAfter(ok) == allSuccess /\ ok

\* Mutant: a leaf counts as done whatever its step returned.
AlwaysDone(ok) == "completed"

StatusAfter(ok) == IF ok THEN "completed" ELSE "failed"

\* ExecuteStep returns, without or with an error; only the text of an error is
\* never empty.
FinishLeaf(ok, nonempty) ==
  /\ pc = "exec" /\ (ok \/ nonempty)
  /\ status' = [status EXCEPT ![node] = StatusAfter(ok)]
  /\ text' = [text EXCEPT ![node] = nonempty]
  /\ allSuccess' = SuccessAfter(ok)
  /\ completions' = IF ok THEN [completions EXCEPT ![node] = @ + 1] ELSE completions
  /\ pc' = "open"
  /\ UNCHANGED <<tree, node, childContext, session, cancelled, outcome, files, budgets,
                 resumed, ran, losses>>

\* Mutant: only what this call executed is fed to the siblings.
OnlyRanHere(n) ==
  IF n \in {ran[i] : i \in DOMAIN ran} THEN <<n>> ELSE <<>>

\* What a child leaves in its parent's context: its result if it has one, or a
\* line on its failure.
Contribution(n) ==
  IF status[n] = "failed" \/ (status[n] = "completed" /\ text[n])
    THEN <<n>> ELSE <<>>

\* Mutant: the walk stops at the first child that fails.
StopAtFailure(n) == IF status[n] = "failed" THEN {} ELSE YoungerSiblings(n)

RemainingSiblings(n) == YoungerSiblings(n)

\* Mutant: after a node that was skipped the walk looks at it again.
StayAtSkipped(n) == IF text[n] THEN First(RemainingSiblings(n)) ELSE n

NextNode(n) == First(RemainingSiblings(n))

\* executeNode returns to the loop over its parent's children.
NextChild ==
  /\ pc = "return" /\ node # 1 /\ RemainingSiblings(node) # {}
  /\ childContext' = [childContext EXCEPT ![tree[node]] = @ \o Contribution(node)]
  /\ node' = NextNode(node)
  /\ pc' = "visit"
  /\ UNCHANGED <<tree, status, text, allSuccess, session, cancelled, outcome, files,
                 budgets, observed>>

\* After its last child, whose contribution nobody reads, a branch is summarised and
\* completed, whatever became of its children.
LeaveBranch ==
  /\ pc = "return" /\ node # 1 /\ RemainingSiblings(node) = {}
  /\ LET branch == tree[node]
     IN /\ status' = [status EXCEPT ![branch] = "completed"]
        /\ text' = [text EXCEPT ![branch] =
                      \E m \in Children(branch) : status[m] = "completed" /\ text[m]]
        /\ node' = branch
  /\ UNCHANGED <<pc, tree, childContext, allSuccess, session, cancelled, outcome, files,
                 budgets, observed>>

WalkEnds ==
  /\ pc = "return" /\ node = 1
  /\ pc' = "cleanup"
  /\ UNCHANGED <<memory, outcome, files, budgets, observed>>

-----------------------------------------------------------------------------
(***************************************************************************)
(* The session's file                                                      *)
(***************************************************************************)
\* os.WriteFile creates or truncates the file, then writes it.
OpenFile ==
  /\ pc = "open"
  /\ files' = [files EXCEPT ![session] = Corrupt]
  /\ pc' = "write"
  /\ UNCHANGED <<memory, outcome, budgets, observed>>

WriteFile ==
  /\ pc = "write"
  /\ files' = [files EXCEPT ![session] = Saved]
  /\ pc' = "return"
  /\ UNCHANGED <<memory, outcome, budgets, observed>>

\* A checkpoint that cannot be opened or written is reported and nothing more.
SaveFails ==
  /\ pc \in {"open", "write"} /\ faults < MaxFaults
  /\ faults' = faults + 1
  /\ losses' = losses + 1
  /\ pc' = "return"
  /\ UNCHANGED <<memory, outcome, files, lastId, calls, crashes, cancels, resumed, ran,
                 completions>>

EndCall ==
  /\ pc = "cleanup"
  /\ files' = IF allSuccess THEN [files EXCEPT ![session] = Absent] ELSE files
  /\ outcome' = IF allSuccess THEN "success" ELSE "failure"
  /\ pc' = "idle" /\ Forget
  /\ UNCHANGED <<budgets, observed>>

\* The session's file is removed on a best effort.
RemoveFails ==
  /\ pc = "cleanup" /\ allSuccess /\ faults < MaxFaults
  /\ faults' = faults + 1
  /\ outcome' = "success"
  /\ pc' = "idle" /\ Forget
  /\ UNCHANGED <<files, lastId, calls, crashes, cancels, observed>>

-----------------------------------------------------------------------------
(***************************************************************************)
(* The environment                                                         *)
(***************************************************************************)
Cancel ==
  /\ pc # "idle" /\ ~cancelled /\ cancels < MaxCancels
  /\ cancels' = cancels + 1
  /\ cancelled' = TRUE
  /\ UNCHANGED <<pc, tree, status, text, node, childContext, allSuccess, session, outcome,
                 files, lastId, calls, crashes, faults, observed>>

\* The process dies; the files are what it leaves.
Crash ==
  /\ pc # "idle" /\ crashes < MaxCrashes
  /\ crashes' = crashes + 1
  /\ losses' = IF pc \in {"open", "write"} THEN losses + 1 ELSE losses
  /\ pc' = "idle" /\ outcome' = "crash" /\ Forget
  /\ UNCHANGED <<files, lastId, calls, faults, cancels, resumed, ran, completions>>

Step ==
  \/ Resume \/ NothingToResume \/ Plan \/ CallFails \/ Execute
  \/ SkipNode \/ EnterBranch \/ StartLeaf
  \/ \E ok, nonempty \in BOOLEAN : FinishLeaf(ok, nonempty)
  \/ NextChild \/ LeaveBranch \/ WalkEnds
  \/ OpenFile \/ WriteFile \/ SaveFails \/ EndCall \/ RemoveFails

Next == Call \/ Step \/ Cancel \/ Crash

\* A call runs on: ExecuteStep ends, as its turns are limited and the provider
\* and the tools time out. Nothing obliges the user to call, or to call again.
Spec == Init /\ [][Next]_vars /\ WF_vars(Step)

-----------------------------------------------------------------------------
(***************************************************************************)
(* Properties                                                              *)
(***************************************************************************)
Labels == {"idle", "look", "plan", "execute", "visit", "exec", "open", "write",
           "return", "cleanup"}

\* Every variable holds a value of its type; a call under way has a session, which
\* is the newest one, also when it was found on disk.
TypeOK ==
  /\ pc \in Labels
  /\ tree \in Plans \cup {NoPlan} /\ node \in DOMAIN tree
  /\ status \in [DOMAIN tree -> Statuses] /\ text \in [DOMAIN tree -> BOOLEAN]
  /\ childContext \in [DOMAIN childContext -> Seq(Nodes)]
  /\ DOMAIN childContext \subseteq Nodes \cup {1}
  /\ {allSuccess, cancelled, resumed} \subseteq BOOLEAN
  /\ session \in 0 .. lastId /\ (pc \in {"idle", "look", "plan"} => session = 0)
  /\ pc \in {"visit", "exec", "open", "write", "return", "cleanup"} =>
       session = lastId /\ session # 0 /\ tree \in Plans
  /\ outcome \in {"none", "success", "failure", "error", "crash"}
  /\ \A id \in Ids : files[id].kind \in {"absent", "corrupt", "saved"}
  /\ lastId \in 0 .. MaxSessions /\ calls \in 0 .. MaxCalls /\ crashes \in 0 .. MaxCrashes
  /\ faults \in 0 .. MaxFaults /\ cancels \in 0 .. MaxCancels
  /\ ran \in Seq(Nodes)
  /\ completions \in [Nodes -> Nat] /\ losses \in Nat

\* A checkpoint never runs ahead of the work: a leaf that the newest session's
\* file calls completed did complete in that session, and the file holds no leaf
\* in execution, so that whatever is interrupted is pending or failed in it.
CheckpointNotAhead ==
  lastId # 0 /\ Readable(lastId) =>
    LET f == files[lastId]
    IN \A n \in Leaves(f.tree) :
         /\ f.status[n] = "completed" => completions[n] > 0
         /\ f.status[n] # "running"

\* A leaf that completed is executed to completion again only in a session that
\* lost a completion: its checkpoint failed or a crash cut it off.
RunAgainOnlyAfterLoss ==
  \A n \in Nodes : completions[n] <= 1 + losses

\* A call executes leaves in the order of the plan, none of them twice; a call
\* that made its plan and was not cancelled executes all of them, also after one
\* has failed.
WalkIsComplete ==
  /\ \A i \in 1 .. Len(ran) - 1 : ran[i] < ran[i + 1]
  /\ pc = "cleanup" /\ ~resumed /\ ~cancelled =>
       {ran[i] : i \in DOMAIN ran} = Leaves(tree)

Ancestors(n) ==
  LET above[m \in DOMAIN tree] == IF m = 1 THEN {} ELSE {tree[m]} \cup above[tree[m]]
  IN above[n]

\* The context a leaf is executed with names, in the order of the plan, each
\* earlier sibling of the leaf and of the branches above it that failed or has a
\* result, also those that an earlier process executed.
ContextIsComplete ==
  pc = "exec" =>
    LET known == {m \in DOMAIN tree : /\ m < node /\ m \notin Ancestors(node)
                                      /\ tree[m] \in Ancestors(node)
                                      /\ \/ status[m] = "failed"
                                         \/ status[m] = "completed" /\ text[m]}
        context == SiblingContext(node)
    IN /\ {context[i] : i \in DOMAIN context} = known
       /\ \A i \in 1 .. Len(context) - 1 : context[i] < context[i + 1]

\* A call that made its plan, was not cancelled and reports success has completed
\* every leaf.
SuccessIsComplete ==
  pc = "cleanup" /\ allSuccess /\ ~resumed /\ ~cancelled =>
    \A n \in Leaves(tree) : status[n] = "completed"

\* Every call ends, with a result, an error or the end of the process.
CallEnds == pc # "idle" ~> pc = "idle"

-----------------------------------------------------------------------------
\* internal/planner/skeleton.go:305 says of cleanupSession, called when a result
\* is a success: "removes the session file after successful completion". At the
\* cleanup of a success every leaf of the plan has been completed.
RemovedWhenCompleted ==
  pc = "cleanup" /\ allSuccess => \A n \in Leaves(tree) : status[n] = "completed"

=============================================================================
