---------------------------- MODULE PlanPipeline ----------------------------
(***************************************************************************)
(* PlanExecutor.Execute of internal/planner/executor.go: a task is turned  *)
(* into steps by the model (decomposer.go, parser.go) or by its own        *)
(* conjunctions, the steps are executed one after another, each told what  *)
(* the earlier ones came to, and then the files the task names are         *)
(* completed, the code is verified and, at most once, repaired.            *)
(*                                                                         *)
(* Every step is executed by ExecuteStep, of which this module knows what  *)
(* StepContract promises, plus the output it returns. The tool effects of  *)
(* a step may create and remove files of the workspace.                    *)
(***************************************************************************)
EXTENDS Integers, Sequences, FiniteSets

CONSTANTS
  MaxSteps,    \* the cap of ParsePlan
  MaxEffects,  \* StepContract's bound, ChunkedExecutor.maxToolCalls
  Files,       \* names of files
  Named,       \* those a step cannot name without being taken for one that writes
               \* code: .rs, .py, .go, Cargo.toml
  Probed,      \* those detectVerifyCommand looks for: *.py, Cargo.toml, go.mod, all
               \* at the top of the workspace
  Tasks,       \* simple: IsSimpleTask; files: extractExpectedFiles;
               \* parts: how many parts SplitConjunctions finds
  MaxTasks     \* bound of the model: calls of Execute

ASSUME PipelineConstants ==
  /\ Named \subseteq Files /\ Probed \subseteq Files
  /\ MaxSteps \in Nat \ {0} /\ MaxEffects \in Nat /\ MaxTasks \in Nat
  /\ Tasks \subseteq [simple : BOOLEAN, files : SUBSET Files, parts : Nat \ {0}]

VARIABLES
  status, effects, failed,  \* the step executed last, as in StepContract
  pc,         \* "idle", or the stage of Execute
  task,
  plan,       \* the steps: whether detectVerifyCommand finds that it writes code
  workspace,  \* the files that exist
  results,    \* the StepResults so far, with the stage that ran the step
  learned,    \* learnedContext, entry by entry
  success,    \* PlanResult.Success of the last task without an error
  tasks       \* calls of Execute so far

\* What an observer remembers; no action reads it.
VARIABLE
  removed  \* files removed since the completeness check

contract == <<status, effects, failed>>
vars == <<contract, pc, task, plan, workspace, results, learned, success, tasks, removed>>

Contract == INSTANCE StepContract

Stages == {"direct", "step", "fill", "verify", "repair"}
\* What the output of a step is to the pipeline; an "error" is one containsError
\* recognizes.
Outputs == {"", "text", "error"}
Result == [stage : Stages, failed : BOOLEAN, output : Outputs]
\* What an entry of learnedContext is about: the n-th result, or the missing files,
\* code among them or not.
Entry == [about : {"result", "missing", "missing code"}, n : Nat]

About(n) == <<[about |-> "result", n |-> n]>>
NoTask == [simple |-> TRUE, files |-> {}, parts |-> 1]
Missing == task.files \ workspace
AboutMissing == [about |-> IF Missing \cap Named = {} THEN "missing" ELSE "missing code", n |-> 0]

Init ==
  /\ Contract!Init
  /\ pc = "idle" /\ task = NoTask /\ plan = <<>>
  /\ workspace \in SUBSET Files
  /\ results = <<>> /\ learned = <<>> /\ success = FALSE /\ tasks = 0
  /\ removed = {}

-----------------------------------------------------------------------------
(***************************************************************************)
(* The plan                                                                *)
(***************************************************************************)
StartTask(t) ==
  /\ pc = "idle" /\ tasks < MaxTasks
  /\ tasks' = tasks + 1
  /\ task' = t
  /\ pc' = IF t.simple THEN "direct" ELSE "decompose"
  /\ results' = <<>> /\ learned' = <<>> /\ plan' = <<>> /\ success' = FALSE
  /\ removed' = {}
  /\ UNCHANGED <<contract, workspace>>

\* The generation fails, or no line of the reply is a numbered step.
DecomposeFails ==
  /\ pc = "decompose" /\ pc' = "idle"
  /\ UNCHANGED <<contract, task, plan, workspace, results, learned, success, tasks, removed>>

\* The number of steps for a reply of n numbered lines: a plan of one step for a
\* task of several parts is replaced by these parts, however many they are.
StepCount(n) == IF n <= 1 /\ task.parts > 1 THEN task.parts ELSE n

Decompose(p) ==
  /\ pc = "decompose"
  /\ plan' = p
  /\ pc' = "step"
  /\ UNCHANGED <<contract, task, workspace, results, learned, success, tasks,
                 removed>>

-----------------------------------------------------------------------------
(***************************************************************************)
(* The execution of a step, whichever stage it belongs to                  *)
(***************************************************************************)
Running == status = "running"

\* Mutant: the step of a repair is made but never executed.
HasStepButRepair ==
  \/ pc \in {"direct", "verify", "fill"}
  \/ pc = "step" /\ Len(results) < Len(plan)

\* The stage has a step to execute.
HasStep ==
  \/ pc \in {"direct", "verify", "repair", "fill"}
  \/ pc = "step" /\ Len(results) < Len(plan)

BeginStep ==
  /\ ~Running /\ HasStep
  /\ Contract!Start
  /\ UNCHANGED <<pc, task, plan, workspace, results, learned, success, tasks,
                 removed>>

StepEffect(created, deleted) ==
  /\ Contract!Effect
  /\ workspace' = (workspace \ deleted) \cup created
  /\ removed' = (removed \cup (deleted \cap workspace)) \ created
  /\ UNCHANGED <<pc, task, plan, results, learned, success, tasks>>

\* Mutant: only what went well is told.
TellSuccess(stage, fails, output) ==
  IF stage = "step" /\ ~fails /\ output # "" THEN About(Len(results) + 1) ELSE <<>>

\* What a finished step adds to the context of the next one: the error or the
\* output of a planned step, the output of the fill step, the failed verification.
Told(stage, fails, output) ==
  IF \/ stage = "step" /\ (fails \/ output # "")
     \/ stage = "fill" /\ output # ""
     \/ stage = "verify" /\ (fails \/ output = "error")
    THEN About(Len(results) + 1)
    ELSE <<>>

\* Mutant: the code is verified again after every repair, and repaired again.
RepairUntilVerified(stage, fails, output) ==
  CASE stage = "step" -> "step"
    [] stage = "fill" -> "detect"
    [] stage = "verify" /\ (fails \/ output = "error") -> "repair"
    [] stage = "repair" /\ fails -> "verify"
    [] OTHER -> "done"

NextStage(stage, fails, output) ==
  CASE stage = "step" -> "step"
    [] stage = "fill" -> "detect"
    [] stage = "verify" /\ (fails \/ output = "error") -> "repair"
    [] OTHER -> "done"

FinishStep(output) ==
  /\ Contract!Finish
  /\ results' = Append(results, [stage |-> pc, failed |-> failed', output |-> output])
  /\ learned' = learned \o Told(pc, failed', output)
  /\ pc' = NextStage(pc, failed', output)
  /\ UNCHANGED <<task, plan, workspace, success, tasks, removed>>

-----------------------------------------------------------------------------
(***************************************************************************)
(* checkCompleteness, detectVerifyCommand and the end                      *)
(***************************************************************************)
\* Mutant: only the step executed last counts.
LastSucceeded == ~results[Len(results)].failed

\* allSuccess, or the result of the only step of a simple task.
AllSucceeded ==
  \A i \in DOMAIN results :
    results[i].stage \in {"direct", "step"} => ~results[i].failed

\* Mutant: files are looked for only if a step has failed.
IncompleteAfterFailure == Missing # {} /\ ~AllSucceeded

Incomplete == Missing # {}

CheckFiles ==
  /\ pc = "step" /\ ~HasStep
  /\ IF Incomplete
       THEN /\ pc' = "fill"
            /\ learned' = Append(learned, AboutMissing)
       ELSE pc' = "detect" /\ UNCHANGED learned
  /\ removed' = {}
  /\ UNCHANGED <<contract, task, plan, workspace, results, success, tasks>>

\* A step that says it writes code, the fill step among them, whose description
\* names the files of its entry in the context, or a file of code in the workspace.
CodeWritten ==
  \/ TRUE \in {plan[i] : i \in DOMAIN plan}
  \/ "missing code" \in {learned[e].about : e \in DOMAIN learned}
  \/ workspace \cap Probed # {}

DetectCommand ==
  /\ pc = "detect"
  /\ pc' = IF CodeWritten THEN "verify" ELSE "done"
  /\ UNCHANGED <<contract, task, plan, workspace, results, learned, success, tasks, removed>>

Return ==
  /\ pc = "done" /\ pc' = "idle"
  /\ success' = AllSucceeded
  /\ UNCHANGED <<contract, task, plan, workspace, results, learned, tasks,
                 removed>>

-----------------------------------------------------------------------------
PipelineStep ==
  \/ DecomposeFails
  \/ \E n \in 1 .. MaxSteps : \E p \in [1 .. StepCount(n) -> BOOLEAN] : Decompose(p)
  \/ BeginStep
  \/ \E output \in Outputs : FinishStep(output)
  \/ CheckFiles \/ DetectCommand \/ Return

Next ==
  \/ \E t \in Tasks : StartTask(t)
  \/ \E created, deleted \in {{}} \cup {{f} : f \in Files} : StepEffect(created, deleted)
  \/ PipelineStep

\* The pipeline goes on, and its steps end (the loop of ExecuteStep is bounded and
\* its generations time out).
Spec == Init /\ [][Next]_vars /\ WF_vars(PipelineStep)

-----------------------------------------------------------------------------
(***************************************************************************)
(* Properties                                                              *)
(***************************************************************************)
\* Every variable holds a value of its type. A plan has as many steps as the cap
\* of ParsePlan allows or as the task has parts; Execute runs all of them and at
\* most three more: one to fill, one to verify, one to repair.
TypeOK ==
  /\ status \in {"pending", "running", "completed", "failed"}
  /\ effects \in 0 .. MaxEffects /\ failed \in BOOLEAN
  /\ pc \in Stages \cup {"idle", "decompose", "detect", "done"}
  /\ task \in Tasks \cup {NoTask}
  /\ plan \in Seq(BOOLEAN) /\ (Len(plan) <= MaxSteps \/ Len(plan) = task.parts)
  /\ workspace \subseteq Files /\ removed \subseteq Files
  /\ results \in Seq(Result) /\ Len(results) <= Len(plan) + 3
  /\ learned \in Seq(Entry)
  /\ success \in BOOLEAN /\ tasks \in 0 .. MaxTasks

\* What a step is told of the steps before it: every planned step that failed or
\* had something to show is in the context, each result once and in the order of
\* execution, and the last a repair is told of is the verification that failed.
ContextTellsResults ==
  /\ \A i \in DOMAIN results :
       results[i].stage = "step" /\ (results[i].failed \/ results[i].output # "")
         => \E e \in DOMAIN learned : learned[e] = About(i)[1]
  /\ \A d, e \in DOMAIN learned :
       d < e /\ learned[d].about = "result" /\ learned[e].about = "result"
         => learned[d].n < learned[e].n
  /\ pc = "repair" => /\ learned[Len(learned)] = About(Len(results))[1]
                      /\ results[Len(results)].stage = "verify"

\* When Execute returns from a plan it has carried out, a file that the task names
\* is missing only after a step that was told to create it, or because a later
\* step (the verification, the repair) has removed it.
RequestedFilesAreFilled ==
  pc = "idle" /\ plan # <<>> =>
    \/ Missing \subseteq removed
    \/ \E i \in DOMAIN results : results[i].stage = "fill"

\* A successful task has carried out its whole plan without a failed step: what
\* the steps after the plan came to is not part of it, but no planned step is
\* missing from it, or made up for by a later one.
SuccessCoversPlan ==
  pc = "idle" /\ success =>
    /\ Len(plan) <= Len(results) /\ results # <<>>
    /\ \A i \in DOMAIN results : i <= Len(plan) => ~results[i].failed
    /\ task.simple => ~results[1].failed

\* Execute returns: neither the plan nor the repair goes round in circles.
PipelineEnds == pc # "idle" ~> pc = "idle"

=============================================================================
