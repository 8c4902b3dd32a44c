------------------------- MODULE PlanPipelineProofs -------------------------
(***************************************************************************)
(* Proofs about PlanPipeline, for every cap of steps, set of tasks, of     *)
(* files and number of tool effects: what a successful task has carried    *)
(* out, what happens to the files it names, and what its steps are told.   *)
(***************************************************************************)
EXTENDS PlanPipeline, SequenceTheorems, TLAPS

\* Where the results are in each stage of Execute.
Progress ==
  /\ pc \in {"direct", "decompose"} => plan = <<>> /\ results = <<>>
  /\ pc \in {"step", "fill", "detect", "verify", "repair"} => plan # <<>> /\ ~task.simple
  /\ pc = "step" => Len(results) <= Len(plan)
  /\ pc = "fill" => Len(results) = Len(plan)
  /\ pc \in {"detect", "verify"} => Len(results) \in Len(plan) .. Len(plan) + 1
  /\ pc = "repair" => Len(results) \in Len(plan) .. Len(plan) + 2
  /\ pc = "done" => Len(results) >= Len(plan) /\ results # <<>>
  /\ pc = "direct" => task.simple
  /\ pc = "decompose" => ~task.simple

\* The planned steps come first, and a simple task has its only step.
Order ==
  /\ \A i \in DOMAIN results : i <= Len(plan) => results[i].stage = "step"
  /\ task.simple /\ results # <<>> => results[1].stage = "direct" /\ plan = <<>>

\* A step is executed only by a stage that has one to execute.
RunsForStage == Running => HasStep

NoEarlySuccess == pc # "idle" => ~success

Invariant ==
  /\ TypeOK /\ Progress /\ Order /\ RunsForStage /\ NoEarlySuccess
  /\ SuccessCoversPlan

\* What a result added to the list of results changes.
LEMMA AppendResult ==
  ASSUME NEW s \in Seq(Result), NEW r \in Result
  PROVE  /\ Append(s, r) \in Seq(Result) /\ Len(s) \in Nat
         /\ Len(Append(s, r)) = Len(s) + 1 /\ Append(s, r) # <<>>
         /\ Append(s, r)[Len(s) + 1] = r
         /\ DOMAIN s = 1 .. Len(s) /\ DOMAIN Append(s, r) = 1 .. Len(s) + 1
         /\ \A i \in 1 .. Len(s) : Append(s, r)[i] = s[i]
BY EmptySeq

\* What a finished step adds is one entry about its result, or nothing.
LEMMA ToldType ==
  ASSUME NEW stage, NEW fails, NEW output, TypeOK
  PROVE  /\ Told(stage, fails, output) \in {<<>>, About(Len(results) + 1)}
         /\ About(Len(results) + 1) \in Seq(Entry)
         /\ learned \o Told(stage, fails, output) \in Seq(Entry)
<1>1. results \in Seq(Result) /\ Len(results) + 1 \in Nat /\ learned \in Seq(Entry)
  BY DEF TypeOK
<1>2. Told(stage, fails, output) \in {<<>>, About(Len(results) + 1)}
  BY DEF Told
<1>3. About(Len(results) + 1) \in Seq(Entry)
  <2> DEFINE e == [about |-> "result", n |-> Len(results) + 1]
  <2>1. e \in Entry
    BY <1>1 DEF Entry
  <2> HIDE DEF e
  <2>2. <<e>> \in Seq(Entry)
    BY <2>1
  <2>. QED
    BY <2>2 DEF e, About
<1>4. <<>> \in Seq(Entry)
  BY EmptySeq
<1>5. ASSUME NEW t \in Seq(Entry) PROVE learned \o t \in Seq(Entry)
  BY <1>1, <1>5
<1>. QED
  BY <1>2, <1>3, <1>4, <1>5

\* The inductive invariant of the pipeline (PlanExecutor.Execute, with the
\* completeness check and the repairs that follow the steps).
LEMMA InvariantHolds == Spec => []Invariant
<1>a. MaxSteps \in Nat \ {0} /\ MaxEffects \in Nat /\ MaxTasks \in Nat
  BY PipelineConstants
<1>b. \A t \in Tasks : t.parts \in Nat \ {0}
  BY PipelineConstants
<1>1. Init => Invariant
  <2> SUFFICES ASSUME Init PROVE Invariant
    OBVIOUS
  <2>1. /\ results \in Seq(Result) /\ learned \in Seq(Entry) /\ plan \in Seq(BOOLEAN)
        /\ Len(results) = 0 /\ Len(plan) = 0 /\ DOMAIN results = {}
    BY EmptySeq DEF Init
  <2>2. effects \in 0 .. MaxEffects /\ tasks \in 0 .. MaxTasks /\ Len(plan) <= MaxSteps
    BY <1>a, <2>1 DEF Init, Contract!Init
  <2>3. /\ status = "pending" /\ failed = FALSE /\ success = FALSE /\ pc = "idle"
        /\ task = NoTask /\ workspace \subseteq Files /\ removed = {}
    BY DEF Init, Contract!Init
  <2>4. TypeOK
    <3>1. failed \in BOOLEAN /\ success \in BOOLEAN
      BY <2>3
    <3>2. Len(results) <= Len(plan) + 3
      BY <2>1
    <3>3. /\ status = "pending" /\ pc = "idle" /\ task = NoTask
          /\ workspace \subseteq Files /\ removed \subseteq Files
      BY <2>3
    <3>. QED
      BY <2>1, <2>2, <3>1, <3>2, <3>3 DEF TypeOK
  <2>5. Progress /\ Order /\ RunsForStage /\ NoEarlySuccess /\ SuccessCoversPlan
    BY <2>1 DEF Init, Contract!Init, Progress, Order, RunsForStage, Running,
                NoEarlySuccess, SuccessCoversPlan
  <2>. QED
    BY <2>4, <2>5 DEF Invariant
<1>2. Invariant /\ [Next]_vars => Invariant'
  <2> SUFFICES ASSUME Invariant, [Next]_vars PROVE Invariant'
    OBVIOUS
  <2>0. /\ TypeOK /\ Progress /\ Order /\ RunsForStage /\ NoEarlySuccess
        /\ results \in Seq(Result) /\ Len(results) \in Nat /\ DOMAIN results = 1 .. Len(results)
        /\ plan \in Seq(BOOLEAN) /\ Len(plan) \in Nat /\ (plan # <<>> => Len(plan) > 0)
    <3>1. results \in Seq(Result) /\ plan \in Seq(BOOLEAN)
      BY DEF Invariant, TypeOK
    <3>. QED
      BY <3>1, EmptySeq DEF Invariant
  <2>1. ASSUME NEW t \in Tasks, StartTask(t) PROVE Invariant'
    <3>1. /\ pc = "idle" /\ tasks' = tasks + 1 /\ tasks < MaxTasks /\ task' = t
          /\ pc' = (IF t.simple THEN "direct" ELSE "decompose")
          /\ results' = <<>> /\ learned' = <<>> /\ plan' = <<>> /\ success' = FALSE
          /\ removed' = {} /\ UNCHANGED <<contract, workspace>>
      BY <2>1 DEF StartTask
    <3>2. /\ results' \in Seq(Result) /\ learned' \in Seq(Entry) /\ plan' \in Seq(BOOLEAN)
          /\ Len(results') = 0 /\ Len(plan') = 0 /\ DOMAIN results' = {}
      BY <3>1, EmptySeq
    <3>3. TypeOK'
      <4>1. tasks' \in 0 .. MaxTasks /\ Len(plan') <= MaxSteps
        BY <1>a, <2>0, <3>1, <3>2 DEF TypeOK
      <4>2. pc' \in Stages \cup {"idle", "decompose", "detect", "done"}
        BY <3>1 DEF Stages
      <4>3. success' \in BOOLEAN /\ task' \in Tasks /\ removed' \subseteq Files
        BY <3>1
      <4>4. UNCHANGED <<status, effects, failed, workspace>>
        BY <3>1 DEF contract
      <4>5. Len(results') <= Len(plan') + 3
        BY <3>2
      <4>. QED
        BY <2>0, <3>2, <4>1, <4>2, <4>3, <4>4, <4>5 DEF TypeOK
    <3>4. ~Running
      BY <2>0, <3>1 DEF RunsForStage, HasStep
    <3>. QED
      BY <2>0, <3>1, <3>2, <3>3, <3>4
      DEF Invariant, Progress, Order, RunsForStage, Running, contract,
          NoEarlySuccess, SuccessCoversPlan
  <2>2. CASE DecomposeFails
    <3>1. /\ pc = "decompose" /\ pc' = "idle" /\ plan = <<>> /\ results = <<>> /\ ~success
          /\ UNCHANGED <<contract, task, plan, workspace, results, learned, success, tasks,
                         removed>>
      BY <2>0, <2>2 DEF DecomposeFails, Progress, NoEarlySuccess
    <3>2. ~Running
      BY <2>0, <3>1 DEF RunsForStage, HasStep
    <3>. QED
      BY <2>0, <3>1, <3>2
      DEF Invariant, TypeOK, Progress, Order, RunsForStage, Running, contract,
          NoEarlySuccess, SuccessCoversPlan
  <2>3. ASSUME NEW n \in 1 .. MaxSteps, NEW p \in [1 .. StepCount(n) -> BOOLEAN], Decompose(p)
        PROVE  Invariant'
    <3>1. /\ pc = "decompose" /\ pc' = "step" /\ plan' = p /\ results = <<>> /\ ~success
          /\ UNCHANGED <<contract, task, workspace, results, learned, success, tasks, removed>>
          /\ ~task.simple /\ Len(results) = 0 /\ DOMAIN results = {}
      BY <2>0, <2>3, EmptySeq DEF Decompose, Progress, NoEarlySuccess
    <3>2. StepCount(n) \in Nat \ {0} /\ (StepCount(n) <= MaxSteps \/ StepCount(n) = task.parts)
      BY <1>a, <1>b, <2>0 DEF StepCount, TypeOK, NoTask
    <3>3. p \in Seq(BOOLEAN) /\ Len(p) = StepCount(n) /\ p # <<>>
      BY <3>2, EmptySeq
    <3>4. TypeOK'
      BY <2>0, <3>1, <3>2, <3>3 DEF TypeOK, contract, Stages
    <3>5. ~Running
      BY <2>0, <3>1 DEF RunsForStage, HasStep
    <3>. QED
      BY <3>1, <3>2, <3>3, <3>4, <3>5
      DEF Invariant, Progress, Order, RunsForStage, Running, contract,
          NoEarlySuccess, SuccessCoversPlan
  <2>4. CASE BeginStep
    <3>1. /\ HasStep /\ pc # "idle"
          /\ status' = "running" /\ effects' = 0 /\ failed' = FALSE
          /\ UNCHANGED <<pc, task, plan, workspace, results, learned, success, tasks, removed>>
      BY <2>4 DEF BeginStep, HasStep, Contract!Start
    <3>2. TypeOK'
      <4>1. effects' \in 0 .. MaxEffects
        BY <1>a, <3>1
      <4>. QED
        BY <2>0, <3>1, <4>1 DEF TypeOK
    <3>. QED
      BY <2>0, <3>1, <3>2
      DEF Invariant, Progress, Order, RunsForStage, HasStep, NoEarlySuccess, SuccessCoversPlan
  <2>5. ASSUME NEW created, NEW deleted, created \subseteq Files, StepEffect(created, deleted)
        PROVE  Invariant'
    <3>1. /\ status' = status /\ effects' = effects + 1 /\ effects < MaxEffects
          /\ failed' = failed
          /\ workspace' \subseteq Files /\ removed' \subseteq Files
          /\ UNCHANGED <<pc, task, plan, results, learned, success, tasks>>
      BY <2>0, <2>5 DEF StepEffect, Contract!Effect, TypeOK
    <3>2. TypeOK'
      BY <1>a, <2>0, <3>1 DEF TypeOK
    <3>. QED
      BY <2>0, <3>1, <3>2
      DEF Invariant, Progress, Order, RunsForStage, Running, HasStep, NoEarlySuccess,
          SuccessCoversPlan
  <2>6. ASSUME NEW output \in Outputs, FinishStep(output) PROVE Invariant'
    <3> DEFINE r == [stage |-> pc, failed |-> failed', output |-> output]
    <3>1. /\ HasStep /\ pc # "idle" /\ pc \in Stages
          /\ status' \in {"completed", "failed"} /\ failed' \in BOOLEAN /\ effects' = effects
          /\ results' = Append(results, r)
          /\ learned' = learned \o Told(pc, failed', output)
          /\ pc' = NextStage(pc, failed', output)
          /\ UNCHANGED <<task, plan, workspace, success, tasks, removed>>
      BY <2>0, <2>6
      DEF FinishStep, Contract!Finish, RunsForStage, Running, HasStep, Stages
    <3>2. r \in Result /\ r.stage = pc
      BY <3>1 DEF Result
    <3> HIDE DEF r
    <3>3. /\ results' \in Seq(Result) /\ Len(results') = Len(results) + 1 /\ results' # <<>>
          /\ results'[Len(results) + 1] = r /\ DOMAIN results' = 1 .. Len(results) + 1
          /\ \A i \in 1 .. Len(results) : results'[i] = results[i]
      BY <2>0, <3>1, <3>2, AppendResult
    <3>4. /\ pc = "step" => pc' = "step"
          /\ pc = "fill" => pc' = "detect"
          /\ pc = "verify" => pc' \in {"repair", "done"}
          /\ pc \in {"repair", "direct"} => pc' = "done"
      BY <3>1 DEF NextStage
    <3>5. pc \in {"step", "fill", "verify", "repair", "direct"}
      BY <3>1 DEF Stages
    <3>6. Len(results) + 1 <= Len(plan) + 3
      BY <2>0, <3>1, <3>5 DEF Progress, HasStep
    <3>7. TypeOK'
      BY <2>0, <3>1, <3>3, <3>4, <3>5, <3>6, ToldType DEF TypeOK, Stages
    <3>8. Progress'
      BY <2>0, <3>1, <3>3, <3>4, <3>5 DEF Progress, HasStep
    <3>9. \A i \in DOMAIN results' : i <= Len(plan') => results'[i].stage = "step"
      <4>1. SUFFICES ASSUME NEW i \in DOMAIN results', i <= Len(plan)
                     PROVE  results'[i].stage = "step"
        BY <3>1
      <4>2. CASE i \in 1 .. Len(results)
        BY <2>0, <3>3, <4>1, <4>2 DEF Order
      <4>3. CASE i = Len(results) + 1
        <5>1. pc = "step"
          BY <2>0, <3>1, <3>5, <4>1, <4>3, EmptySeq DEF Progress
        <5>. QED
          BY <3>2, <3>3, <4>3, <5>1
      <4>. QED
        BY <2>0, <3>3, <4>1, <4>2, <4>3
    <3>10. task'.simple => results'[1].stage = "direct" /\ plan' = <<>>
      <4>1. SUFFICES ASSUME task.simple PROVE results'[1].stage = "direct" /\ plan = <<>>
        BY <3>1
      <4>2. pc = "direct" /\ plan = <<>> /\ Len(results) = 0
        BY <2>0, <3>5, <4>1, EmptySeq DEF Progress
      <4>. QED
        BY <3>2, <3>3, <4>2
    <3>. QED
      BY <2>0, <3>1, <3>4, <3>5, <3>7, <3>8, <3>9, <3>10
      DEF Invariant, Order, RunsForStage, Running, NoEarlySuccess, SuccessCoversPlan
  <2>7. CASE CheckFiles
    <3>1. /\ pc = "step" /\ ~HasStep /\ pc' \in {"fill", "detect"} /\ removed' = {}
          /\ learned' \in {learned, Append(learned, AboutMissing)}
          /\ UNCHANGED <<contract, task, plan, workspace, results, success, tasks>>
      BY <2>7 DEF CheckFiles
    <3>2. Len(results) = Len(plan) /\ ~Running
      BY <2>0, <3>1 DEF Progress, HasStep, RunsForStage
    <3>3. learned' \in Seq(Entry)
      <4> DEFINE e == AboutMissing
      <4>1. e \in Entry /\ learned \in Seq(Entry)
        BY <2>0 DEF Entry, TypeOK, AboutMissing
      <4>2. learned' \in {learned, Append(learned, e)}
        BY <3>1
      <4> HIDE DEF e
      <4>. QED
        BY <4>1, <4>2
    <3>4. TypeOK'
      BY <2>0, <3>1, <3>3 DEF TypeOK, contract, Stages
    <3>. QED
      BY <2>0, <3>1, <3>2, <3>4
      DEF Invariant, Progress, Order, RunsForStage, Running, contract, NoEarlySuccess,
          SuccessCoversPlan
  <2>8. CASE DetectCommand
    <3>1. /\ pc = "detect" /\ pc' \in {"verify", "done"}
          /\ UNCHANGED <<contract, task, plan, workspace, results, learned, success, tasks,
                         removed>>
      BY <2>8 DEF DetectCommand
    <3>2. ~Running
      BY <2>0, <3>1 DEF RunsForStage, HasStep
    <3>3. Len(results) >= Len(plan) /\ results # <<>>
      BY <2>0, <3>1, EmptySeq DEF Progress
    <3>4. TypeOK'
      BY <2>0, <3>1 DEF TypeOK, contract, Stages
    <3>. QED
      BY <2>0, <3>1, <3>2, <3>3, <3>4
      DEF Invariant, Progress, Order, RunsForStage, Running, contract, NoEarlySuccess,
          SuccessCoversPlan
  <2>9. CASE Return
    <3>1. /\ pc = "done" /\ pc' = "idle" /\ success' = AllSucceeded
          /\ UNCHANGED <<contract, task, plan, workspace, results, learned, tasks, removed>>
      BY <2>9 DEF Return
    <3>2. ~Running /\ Len(results) >= Len(plan) /\ results # <<>> /\ Len(results) > 0
      BY <2>0, <3>1, EmptySeq DEF RunsForStage, HasStep, Progress
    <3>3. AllSucceeded \in BOOLEAN
      BY DEF AllSucceeded
    <3>4. TypeOK'
      BY <2>0, <3>1, <3>3 DEF TypeOK, contract, Stages
    <3>5. AllSucceeded =>
            /\ \A i \in DOMAIN results : i <= Len(plan) => ~results[i].failed
            /\ task.simple => ~results[1].failed
      BY <2>0, <3>2 DEF AllSucceeded, Order
    <3>6. SuccessCoversPlan'
      BY <3>1, <3>2, <3>5 DEF SuccessCoversPlan
    <3>7. Progress' /\ Order' /\ RunsForStage' /\ NoEarlySuccess'
      BY <2>0, <3>1, <3>2 DEF Progress, Order, RunsForStage, Running, contract, NoEarlySuccess
    <3>. QED
      BY <3>4, <3>6, <3>7 DEF Invariant
  <2>10. CASE UNCHANGED vars
    BY <2>10 DEF Invariant, TypeOK, Progress, Order, RunsForStage, Running, HasStep,
                 NoEarlySuccess, SuccessCoversPlan, vars, contract
  <2>. QED
    BY <2>1, <2>2, <2>3, <2>4, <2>5, <2>6, <2>7, <2>8, <2>9, <2>10 DEF Next, PipelineStep
<1>. QED
  BY <1>1, <1>2, PTL DEF Spec

\* The types hold: the pipeline adds at most three steps to its plan.
THEOREM TypeCorrect == Spec => []TypeOK
<1>1. Invariant => TypeOK
  BY DEF Invariant
<1>. QED
  BY <1>1, InvariantHolds, PTL

\* A task reported as successful has carried out its whole plan.
THEOREM SuccessHolds == Spec => []SuccessCoversPlan
<1>1. Invariant => SuccessCoversPlan
  BY DEF Invariant
<1>. QED
  BY <1>1, InvariantHolds, PTL

-----------------------------------------------------------------------------
(***************************************************************************)
(* The files a task names                                                  *)
(***************************************************************************)
Asked == \E i \in DOMAIN results : results[i].stage = "fill"

\* Once the files have been looked for, one that is missing was asked for, or has
\* been removed since.
FilesAccounted ==
  pc \in {"detect", "verify", "repair", "done", "idle"} /\ plan # <<>>
    => Missing \subseteq removed \/ Asked

\* A file that a task names is not forgotten: it is missing at the end only after
\* a step that was told to create it, or because a later step has removed it.
THEOREM FilesHold == Spec => []RequestedFilesAreFilled
<1>1. Init => FilesAccounted
  BY DEF Init, FilesAccounted
<1>2. Invariant /\ FilesAccounted /\ [Next]_vars => FilesAccounted'
  <2> SUFFICES ASSUME Invariant, FilesAccounted, [Next]_vars PROVE FilesAccounted'
    OBVIOUS
  <2>1. CASE (\E t \in Tasks : StartTask(t)) \/ DecomposeFails
    BY <2>1 DEF StartTask, DecomposeFails, FilesAccounted, Invariant, Progress
  <2>2. CASE \E n \in 1 .. MaxSteps : \E p \in [1 .. StepCount(n) -> BOOLEAN] : Decompose(p)
    BY <2>2 DEF Decompose, FilesAccounted
  <2>3. CASE BeginStep \/ DetectCommand \/ Return
    <3>1. /\ UNCHANGED <<task, plan, workspace, results, removed>>
          /\ pc' \in {"detect", "verify", "repair", "done", "idle"}
               => pc \in {"detect", "verify", "repair", "done", "idle"}
      BY <2>3 DEF BeginStep, DetectCommand, Return
    <3>. QED
      BY <3>1 DEF FilesAccounted, Missing, Asked
  <2>4. ASSUME NEW created, NEW deleted, StepEffect(created, deleted) PROVE FilesAccounted'
    <3>1. /\ UNCHANGED <<pc, task, plan, results>>
          /\ workspace' = (workspace \ deleted) \cup created
          /\ removed' = (removed \cup (deleted \cap workspace)) \ created
      BY <2>4 DEF StepEffect
    <3>2. Missing \subseteq removed => Missing' \subseteq removed'
      BY <3>1 DEF Missing
    <3>3. Asked => Asked'
      BY <3>1 DEF Asked
    <3>. QED
      BY <3>1, <3>2, <3>3 DEF FilesAccounted
  <2>5. ASSUME NEW output \in Outputs, FinishStep(output) PROVE FilesAccounted'
    <3> DEFINE r == [stage |-> pc, failed |-> failed', output |-> output]
    <3>1. /\ pc \in Stages /\ results \in Seq(Result) /\ results' = Append(results, r)
          /\ failed' \in BOOLEAN /\ pc' = NextStage(pc, failed', output)
          /\ UNCHANGED <<task, plan, workspace, removed>>
      BY <2>5 DEF FinishStep, Contract!Finish, Invariant, TypeOK, RunsForStage, Running,
                  HasStep, Stages
    <3>2. r \in Result /\ r.stage = pc
      BY <3>1 DEF Result
    <3> HIDE DEF r
    <3>3. /\ results'[Len(results) + 1] = r /\ DOMAIN results' = 1 .. Len(results) + 1
          /\ \A i \in DOMAIN results : i \in DOMAIN results' /\ results'[i] = results[i]
          /\ Len(results) + 1 \in DOMAIN results'
      BY <3>1, <3>2, AppendResult
    <3>4. Asked \/ pc = "fill" => Asked'
      BY <3>2, <3>3 DEF Asked
    <3>5. Missing' = Missing
      BY <3>1 DEF Missing
    <3>6. pc = "direct" => plan = <<>>
      BY DEF Invariant, Progress
    <3>7. pc = "step" => pc' = "step"
      BY <3>1 DEF NextStage
    <3>8. pc \in {"direct", "step", "fill", "verify", "repair"}
      BY <3>1 DEF Stages
    <3>. QED
      BY <3>1, <3>4, <3>5, <3>6, <3>7, <3>8 DEF FilesAccounted
  <2>6. CASE CheckFiles
    <3>1. /\ pc' = "fill" \/ (pc' = "detect" /\ Missing = {})
          /\ UNCHANGED <<task, plan, workspace>>
      BY <2>6 DEF CheckFiles, Incomplete
    <3>. QED
      BY <3>1 DEF FilesAccounted, Missing
  <2>7. CASE UNCHANGED vars
    BY <2>7 DEF FilesAccounted, Missing, Asked, vars
  <2>. QED
    BY <2>1, <2>2, <2>3, <2>4, <2>5, <2>6, <2>7 DEF Next, PipelineStep
<1>3. FilesAccounted => RequestedFilesAreFilled
  BY DEF FilesAccounted, RequestedFilesAreFilled, Asked
<1>. QED
  BY <1>1, <1>2, <1>3, InvariantHolds, PTL DEF Spec

-----------------------------------------------------------------------------
(***************************************************************************)
(* What the steps are told, where s are the results and l the context      *)
(***************************************************************************)
ToldOf(s, l) ==
  \A i \in DOMAIN s :
    s[i].stage = "step" /\ (s[i].failed \/ s[i].output # "")
      => \E e \in DOMAIN l : l[e] = About(i)[1]

InOrder(l) ==
  \A d, e \in DOMAIN l :
    d < e /\ l[d].about = "result" /\ l[e].about = "result" => l[d].n < l[e].n

\* The context is about results there are.
OfResults(s, l) == \A e \in DOMAIN l : l[e].about = "result" => l[e].n <= Len(s)

RepairTold ==
  pc = "repair" => /\ learned[Len(learned)] = About(Len(results))[1]
                   /\ results[Len(results)].stage = "verify"

ContextKept ==
  /\ ToldOf(results, learned) /\ InOrder(learned) /\ OfResults(results, learned)
  /\ RepairTold

\* What an entry added to the narrative changes.
LEMMA AppendEntry ==
  ASSUME NEW l \in Seq(Entry), NEW e \in Entry
  PROVE  /\ Append(l, e) \in Seq(Entry) /\ Len(l) \in Nat
         /\ Len(Append(l, e)) = Len(l) + 1 /\ Append(l, e)[Len(l) + 1] = e
         /\ DOMAIN l = 1 .. Len(l) /\ DOMAIN Append(l, e) = 1 .. Len(l) + 1
         /\ \A i \in 1 .. Len(l) : Append(l, e)[i] = l[i]
OBVIOUS

\* The context stays in order with an entry about nothing, or about a new result.
LEMMA EntryAdded ==
  ASSUME NEW s \in Seq(Result), NEW t \in Seq(Result), NEW l \in Seq(Entry),
         NEW e \in Entry, InOrder(l), OfResults(s, l), Len(s) <= Len(t),
         e.about = "result" => Len(s) < e.n /\ e.n <= Len(t)
  PROVE  InOrder(Append(l, e)) /\ OfResults(t, Append(l, e))
<1> DEFINE k == Append(l, e)
<1>1. /\ Len(l) \in Nat /\ k[Len(l) + 1] = e /\ DOMAIN l = 1 .. Len(l)
      /\ DOMAIN k = 1 .. Len(l) + 1 /\ \A i \in 1 .. Len(l) : k[i] = l[i]
      /\ \A i \in 1 .. Len(l) : l[i] \in Entry
      /\ Len(s) \in Nat /\ Len(t) \in Nat
  BY AppendEntry
<1> HIDE DEF k
<1>2. \A i \in DOMAIN k : i \in 1 .. Len(l) \/ i = Len(l) + 1
  BY <1>1
<1>3. \A i \in 1 .. Len(l) : l[i].n \in Nat /\ (l[i].about = "result" => l[i].n <= Len(s))
  BY <1>1 DEF OfResults, Entry
<1>4. e.n \in Nat
  BY DEF Entry
<1>5. OfResults(t, k)
  <2>1. SUFFICES ASSUME NEW i \in DOMAIN k, k[i].about = "result" PROVE k[i].n <= Len(t)
    BY DEF OfResults
  <2>2. CASE i \in 1 .. Len(l)
    BY <1>1, <1>3, <2>1, <2>2
  <2>3. CASE i = Len(l) + 1
    BY <1>1, <2>1, <2>3
  <2>. QED
    BY <1>2, <2>1, <2>2, <2>3
<1>6. InOrder(k)
  <2>1. SUFFICES ASSUME NEW i \in DOMAIN k, NEW j \in DOMAIN k, i < j,
                        k[i].about = "result", k[j].about = "result"
                 PROVE  k[i].n < k[j].n
    BY DEF InOrder
  <2>2. i \in 1 .. Len(l)
    BY <1>1, <2>1
  <2>3. CASE j \in 1 .. Len(l)
    BY <1>1, <2>1, <2>2, <2>3 DEF InOrder
  <2>4. CASE j = Len(l) + 1
    <3>1. k[i].n <= Len(s)
      BY <1>1, <1>3, <2>1, <2>2
    <3>2. Len(s) < k[j].n
      BY <1>1, <2>1, <2>4
    <3>. QED
      BY <1>1, <1>3, <1>4, <2>2, <2>4, <3>1, <3>2
  <2>. QED
    BY <1>2, <2>1, <2>3, <2>4
<1>. QED
  BY <1>5, <1>6 DEF k

\* What a step has been told of the results is kept by an entry added.
LEMMA EntryKeepsTold ==
  ASSUME NEW s \in Seq(Result), NEW l \in Seq(Entry), NEW e \in Entry, ToldOf(s, l)
  PROVE  ToldOf(s, Append(l, e))
<1>1. \A i \in DOMAIN l : i \in DOMAIN Append(l, e) /\ Append(l, e)[i] = l[i]
  BY AppendEntry
<1>. QED
  BY <1>1 DEF ToldOf

\* An index of a list one longer is an old index or the last.
LEMMA LastOrBefore ==
  ASSUME NEW n \in Nat, NEW i \in 1 .. n + 1
  PROVE  i \in 1 .. n \/ i = n + 1
OBVIOUS

\* A result added is told if it and the results before it are.
LEMMA ResultTold ==
  ASSUME NEW s \in Seq(Result), NEW r \in Result, NEW l \in Seq(Entry), ToldOf(s, l),
         r.stage = "step" /\ (r.failed \/ r.output # "")
           => \E e \in DOMAIN l : l[e] = About(Len(s) + 1)[1]
  PROVE  ToldOf(Append(s, r), l)
<1> DEFINE t == Append(s, r)
<1>1. /\ DOMAIN s = 1 .. Len(s) /\ DOMAIN t = 1 .. Len(s) + 1 /\ Len(s) \in Nat
      /\ t[Len(s) + 1] = r /\ \A i \in 1 .. Len(s) : t[i] = s[i]
  BY AppendResult
<1> HIDE DEF t
<1>2. ASSUME NEW i \in DOMAIN t, t[i].stage = "step", t[i].failed \/ t[i].output # ""
      PROVE  \E e \in DOMAIN l : l[e] = About(i)[1]
  <2>1. CASE i = Len(s) + 1
    BY <1>1, <1>2, <2>1
  <2>2. CASE i # Len(s) + 1
    <3>1. i \in 1 .. Len(s) + 1
      BY <1>1, <1>2
    <3>2. i \in 1 .. Len(s)
      BY <1>1, <2>2, <3>1, LastOrBefore, Zenon
    <3>3. i \in DOMAIN s /\ t[i] = s[i]
      BY <1>1, <3>2
    <3>. QED
      BY <1>2, <3>3 DEF ToldOf
  <2>. QED
    BY <2>1, <2>2
<1>3. ToldOf(t, l)
  BY <1>2 DEF ToldOf
<1>. QED
  BY <1>3 DEF t

\* Every step is told of the results before it that have something to tell, each
\* once and in their order, and a repair of the verification that failed.
THEOREM ContextHolds == Spec => []ContextTellsResults
<1>1. Init => ContextKept
  <2>1. Init => DOMAIN results = {} /\ DOMAIN learned = {}
    BY EmptySeq DEF Init
  <2>. QED
    BY <2>1 DEF Init, ContextKept, ToldOf, InOrder, OfResults, RepairTold
<1>2. Invariant /\ ContextKept /\ [Next]_vars => ContextKept'
  <2> SUFFICES ASSUME Invariant, ContextKept, [Next]_vars PROVE ContextKept'
    OBVIOUS
  <2>0. /\ TypeOK /\ results \in Seq(Result) /\ learned \in Seq(Entry)
        /\ Len(results) \in Nat
    <3>1. TypeOK /\ results \in Seq(Result) /\ learned \in Seq(Entry)
      BY DEF Invariant, TypeOK
    <3>. QED
      BY <3>1
  <2>1. ASSUME NEW t \in Tasks, StartTask(t) PROVE ContextKept'
    <3>1. /\ DOMAIN results' = {} /\ DOMAIN learned' = {}
          /\ pc' \in {"direct", "decompose"}
      BY <2>1, EmptySeq DEF StartTask
    <3>. QED
      BY <3>1 DEF ContextKept, ToldOf, InOrder, OfResults, RepairTold
  <2>2. ASSUME UNCHANGED <<results, learned>>, pc' = "repair" => pc = "repair"
        PROVE  ContextKept'
    BY <2>2 DEF ContextKept, RepairTold
  <2>3. CASE DecomposeFails \/ BeginStep \/ DetectCommand \/ Return
             \/ (\E n \in 1 .. MaxSteps : \E p \in [1 .. StepCount(n) -> BOOLEAN] : Decompose(p))
             \/ (\E created, deleted \in {{}} \cup {{f} : f \in Files} :
                   StepEffect(created, deleted))
    <3>1. UNCHANGED <<results, learned>> /\ (pc' = "repair" => pc = "repair")
      BY <2>3 DEF DecomposeFails, BeginStep, DetectCommand, Return, Decompose, StepEffect
    <3>. QED
      BY <2>2, <3>1
  <2>4. ASSUME NEW output \in Outputs, FinishStep(output) PROVE ContextKept'
    <3> DEFINE r == [stage |-> pc, failed |-> failed', output |-> output]
               e == About(Len(results) + 1)[1]
               told == Told(pc, failed', output)
    <3>1. /\ pc \in Stages /\ failed' \in BOOLEAN /\ results' = Append(results, r)
          /\ learned' = learned \o told /\ pc' = NextStage(pc, failed', output)
      BY <2>4 DEF FinishStep, Contract!Finish, Invariant, TypeOK, RunsForStage, Running,
                  HasStep, Stages
    <3>2. r \in Result /\ r.stage = pc /\ r.failed = failed' /\ r.output = output
      BY <3>1 DEF Result
    <3>3. e \in Entry /\ e.about = "result" /\ e.n = Len(results) + 1
      <4>1. e = [about |-> "result", n |-> Len(results) + 1]
        BY DEF About
      <4>2. Len(results) + 1 \in Nat
        BY <2>0
      <4> HIDE DEF e
      <4>. QED
        BY <4>1, <4>2 DEF Entry
    <3>4. told = <<>> \/ told = <<e>>
      BY DEF Told, About
    <3>5. (pc = "step" /\ (failed' \/ output # "")) \/ pc' = "repair" => told = <<e>>
      BY <3>1, <2>4 DEF Told, About, NextStage, Stages
    <3>6. pc' = "repair" => pc = "verify"
      BY <3>1 DEF NextStage, Stages
    <3> HIDE DEF r, e, told
    <3>7. results' \in Seq(Result) /\ Len(results') = Len(results) + 1
          /\ results'[Len(results')] = r
      BY <2>0, <3>1, <3>2, AppendResult
    <3>8. CASE told = <<>>
      <4>1. learned' = learned /\ pc' # "repair"
        <5>1. <<e>> # <<>>
          BY EmptySeq
        <5>2. learned' = learned
          BY <2>0, <3>1, <3>8
        <5>. QED
          BY <3>5, <3>8, <5>1, <5>2
      <4>2. ToldOf(results', learned')
        <5>1. ~(pc = "step" /\ (failed' \/ output # ""))
          BY <3>5, <3>8
        <5>. QED
          BY <2>0, <3>1, <3>2, <4>1, <5>1, ResultTold DEF ContextKept
      <4>3. InOrder(learned') /\ OfResults(results', learned')
        <5>1. \A d \in DOMAIN learned : learned[d].about = "result" => learned[d].n \in Nat
          <6>1. \A d \in DOMAIN learned : learned[d] \in Entry
            BY <2>0
          <6>2. \A x \in Entry : x.n \in Nat
            BY DEF Entry
          <6>. QED
            BY <6>1, <6>2
        <5>2. learned' = learned /\ Len(results') = Len(results) + 1 /\ Len(results) \in Nat
          BY <2>0, <3>7, <4>1
        <5>3. InOrder(learned) /\ OfResults(results, learned)
          BY <2>0 DEF ContextKept
        <5>. QED
          BY <5>1, <5>2, <5>3 DEF InOrder, OfResults
      <4>. QED
        BY <4>1, <4>2, <4>3 DEF ContextKept, RepairTold
    <3>9. CASE told = <<e>>
      <4>1. learned' = Append(learned, e)
        BY <2>0, <3>1, <3>3, <3>9
      <4>2. /\ learned' \in Seq(Entry) /\ Len(learned') = Len(learned) + 1
            /\ learned'[Len(learned')] = e /\ Len(learned') \in DOMAIN learned'
        BY <2>0, <3>3, <4>1, AppendEntry
      <4>3. ToldOf(results, learned')
        BY <2>0, <3>3, <4>1, EntryKeepsTold DEF ContextKept
      <4>4. ToldOf(results', learned')
        BY <2>0, <3>1, <3>2, <4>2, <4>3, ResultTold DEF e
      <4>5. InOrder(learned') /\ OfResults(results', learned')
        BY <2>0, <3>3, <3>7, <4>1, EntryAdded DEF ContextKept
      <4>6. RepairTold'
        BY <3>2, <3>6, <3>7, <4>2 DEF RepairTold, e
      <4>. QED
        BY <4>4, <4>5, <4>6 DEF ContextKept
    <3>. QED
      BY <3>4, <3>8, <3>9
  <2>5. CASE CheckFiles
    <3> DEFINE e == AboutMissing
    <3>1. /\ pc' # "repair" /\ results' = results
          /\ learned' = learned \/ learned' = Append(learned, e)
      BY <2>5 DEF CheckFiles
    <3>2. e \in Entry /\ e.about # "result"
      BY DEF Entry, AboutMissing
    <3> HIDE DEF e
    <3>3. CASE learned' = learned
      BY <2>2, <3>1, <3>3
    <3>4. CASE learned' = Append(learned, e)
      <4>1. ToldOf(results', learned')
        BY <2>0, <3>1, <3>2, <3>4, EntryKeepsTold DEF ContextKept
      <4>2. InOrder(learned') /\ OfResults(results', learned')
        BY <2>0, <3>1, <3>2, <3>4, EntryAdded DEF ContextKept
      <4>. QED
        BY <3>1, <4>1, <4>2 DEF ContextKept, RepairTold
    <3>. QED
      BY <3>1, <3>3, <3>4
  <2>6. CASE UNCHANGED vars
    BY <2>2, <2>6 DEF vars
  <2>. QED
    BY <2>1, <2>3, <2>4, <2>5, <2>6 DEF Next, PipelineStep
<1>3. ContextKept => ContextTellsResults
  BY DEF ContextKept, ToldOf, InOrder, RepairTold, ContextTellsResults
<1>. QED
  BY <1>1, <1>2, <1>3, InvariantHolds, PTL DEF Spec

=============================================================================
