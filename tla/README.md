# A TLA+ model of Prion

Prion is a local-first agent: a session reads tasks from the user, sends them to
a language model, executes the tool calls the model answers with and feeds the
results back. This directory holds TLA+ specifications of its control logic,
instances that TLC checks, and proofs that TLAPS checks for every value of the
constants. Paths below are relative to `src/internal` unless they begin with
`cmd`.

To check: `tlc -config X.cfg M` for a run of the table below, `tlapm M.tla` for a
proof module.

## 1. Inventory of the system

| Part | State it keeps | Operations | What is hard about it |
|---|---|---|---|
| Agent loop, `agent/agent.go` with `core/context.go` | the history, across Runs; in a Run: turn, last response and tool result, repeat detection | `Run`, `Reset` | trimming a history that outlives the Run, cancellation against timers, retries that share the turn counter, falling back on an earlier result |
| Error classes and tool-call parsing, `core/errors.go`, `core/toolparse.go` | none | `ClassifyError`, `ParseToolCalls`, `DeduplicateToolCalls` | the first strategy that matches decides |
| Step executor, `planner/executor.go` (`ExecuteStep`) | the conversation, counters and output of one step | `ExecuteStep` | three limits reached in any order, in the middle of a reply |
| Skeleton planner, `planner/skeleton.go`, `planner/tree.go` | the tree with status and result of each node, the session id, session files in the workspace | `Plan`, `Execute`, `PlanAndExecute`, checkpoint, cleanup | crash and resumption, status of branches, several files for one task |
| Plan pipeline, rest of `planner/executor.go`, `planner/decomposer.go`, `planner/parser.go` | steps, learned context | `Execute`, completeness check, verify and repair, `Decompose` | failure of one phase among several, what counts as success |
| Tools, `tools/*.go` | the registry; the consumed time of `ExecutionBudget` | `Execute` per tool | budget checked before and charged after a command |
| Indexer and graph, `knowledge/indexer.go`, `knowledge/graphdb.go` | file hashes in memory; nodes and edges in SQLite | `IndexAll`, `IndexChanged`, `IngestResult`, `DeleteByFile`, queries | hashes that do not describe what the database holds |
| Source parsers, `knowledge/parser*.go` | none | `Parse...File` | ids that several files share |
| Vector store, `memory/*.go` | the chunks table, the HNSW graph in memory | `Insert`, `InsertBatch`, `DeleteBySource`, `BuildIndex`, `EnsureIndex`, `Search` | an index that does not follow the table |
| Retrieval, `retrieval/*.go`, `tools/manifold.go`, queries of `knowledge/graphdb.go` | none | `Route`, `Execute`, the walks over call edges | which of the graph and the executor answers, cycles and depth of walks, ties and duplicates in fused rankings |
| HTTP providers, `llm/api.go`, `llm/stream.go` | the blocks of a stream under way | `Generate`, `GenerateStream` | order of stream events, roles that must alternate |
| Native server, `llm/native.go`, `llm/factory.go` | the child process, the once-only shutdown | `NewNativeProvider`, `Shutdown`, fallback | health wait against exit, shutdown against exit, a provider that is dropped |
| Permission checks, paths, configuration, `permission`, `core/workspace.go`, `config` | none that changes | predicates, load and save | |
| Session, `cmd/prion/main.go` | the agent, one planner per task | REPL, `run`, `/reset`, `/quit` | which of the two paths a task takes |

How they interact. The session calls `agent.Run` for a simple task and otherwise
makes a new `SkeletonPlanner` and calls `PlanAndExecute`, one call at a time and
on one goroutine. Both call the provider (a blocking HTTP request with a client
timeout) and the tool registry (a blocking call). The skeleton planner and the
plan pipeline call `ExecuteStep` for every leaf or step; it is the only thing of
theirs that calls tools. The session files are shared between a call and the
ones after it, in this process or a later one. All shell commands of a program's run
share one budget. The provider is made once, may own a server process, and is shut
down when `main` returns. The indexer, the vector store, `manifold_search`, the
retrieval executor and the plan pipeline are library code the session does not call
yet. Concurrency is therefore rare: timers against a cancelled context, a process
against the waits on it. What is hard here is sequences: turns, retries, resumed
sessions, and state that is read long after it was written.

## 2. What makes each part correct

- Agent loop: the history is the prompt and a gapless suffix of the conversation;
  what is sent fits the window; a Run ends and answers with something of its own;
  identical effects are not repeated; a cancelled Run stops soon.
- Step executor: only tools in scope, at most the allowed number of calls, each
  call answered, the output is the newest useful text, one end per step, failed
  exactly with an error.
- Skeleton planner: nothing on disk claims more than was done; only work whose
  completion was lost is done again; a walk leaves nothing out; contexts survive
  resumption; success means that everything was done.
- Pipeline: steps once and in order, at most one fill, one verification and one
  repair, each step told what it has to know, no requested file forgotten, and a
  success that covers the whole plan.
- Indexer: what is recorded describes the graph, and what a quiet call has indexed is
  in the graph as it is on disk.
- Vector store: the index never speaks for a row it does not describe, and lacks only
  rows it could not learn of; a search is as good as its beam allows.
- Model call: a reply holds every piece of text and every complete call once; a request
  says what the conversation says.
- Retrieval: a walk finds exactly what lies within its depth; a fusion keeps the best.
- Native server: no process outlives its provider, and a start or a shutdown ends; the
  commands overrun their budget by one at most.

## 3. Modules

| Module | Models | Kind |
|---|---|---|
| `AgentLoop` | `Agent.Run`, `Reset`, `TrimMessages` | specification and properties |
| `AgentLoopProofs` | | theorems about `AgentLoop` |
| `MCAgentLoop` | | instance |
| `StepContract` | what planners rely on in `ExecuteStep` | abstract specification |
| `StepExecutor` | `ExecuteStep` | specification, refines `StepContract` |
| `StepExecutorProofs` | | theorems, and the refinement |
| `MCStepExecutor` | | instance |
| `SkeletonSession` | `PlanAndExecute` and the session files | specification and properties |
| `SkeletonSessionProofs` | | theorems about `SkeletonSession` |
| `MCSkeletonSession` | | instance |
| `PlanPipeline` | `PlanExecutor.Execute` with decomposition, completeness, verification and repair | specification over `StepContract` |
| `PlanPipelineProofs` | | theorems about `PlanPipeline` |
| `MCPlanPipeline` | | instance |
| `Indexer` | `IndexAll`, `IndexChanged` over the tables of `graphdb.go` | specification and properties |
| `MCIndexer` | | instance |
| `Hnsw` | the graph of `memory/hnsw.go` and its algorithms | actions and properties |
| `VectorStore` | `memory/vectorstore.go`: table and index | specification over `Hnsw` |
| `MCVectorStore` | | instance |
| `StoreProofs` | | theorems about the two stores, `Indexer` and `VectorStore` |
| `ManifoldSearch` | `tools/manifold.go`, `retrieval/*.go`, the queries of `knowledge/graphdb.go` | specification and properties |
| `ManifoldSearchProofs` | | theorems about `ManifoldSearch` |
| `MCManifoldSearch` | | instances |
| `ModelCall` | `Generate` and `GenerateStream` of `llm/api.go`, `llm/stream.go` | specification and properties |
| `ModelCallProofs` | | theorems about `ModelCall` |
| `MCModelCall` | | instance |
| `ShellBudget` | `run_shell` and its budget, `tools/shell.go` | actions and properties |
| `ProviderSession` | `cmd/prion/main.go`, `llm/factory.go`, `llm/native.go` | specification, composed with `ShellBudget` |
| `ProviderSessionProofs` | | theorems about `ProviderSession` and `ShellBudget` |
| `MCProviderSession` | | instance |

How they compose. `StepExecutor` implements `StepContract`; `PlanPipeline` runs every
one of its steps through `StepContract`, and `FinishLeaf` of `SkeletonSession` is its
end. `ProviderSession` takes a task as one step, which `RunEnds` of `AgentLoop` and
`CallEnds` of `SkeletonSession` show to end, and lets its tasks run the commands of
`ShellBudget`. The reply and the request of `ModelCall` are the generation of the
three loops. A definition marked "Mutant" or "slip" is a wrong variant of the
definition after it; nothing uses it but the demonstration that a property notices.

### AgentLoop

`pc` says where `Run` stands: `idle` between two Runs, `head` of the loop, `pause`
(the progressive sleep), `generate`, `backoff` (the sleep after a retryable error)
and `act` (calls left to execute). `history`, `lastResponse`, `lastToolResult`,
`prevCallKey`, `prevCallSucceeded`, `repeatCount` and `turn` are the variables of
the code. One action stands for each stretch of the loop between two points at
which the environment decides: `BeginTurn` is the head with the trim,
`TimerFires`/`SleepCancelled` are the two selects, `ReplyText`, `ReplyRepeated`,
`ReplyCalls` and `GenerationFails` are the outcomes of a generation, `ExecuteCall`
is one iteration over the calls with the evaluation message, and its last one
ends the turn. A message is its kind, a class of size and its position in the
conversation; texts returned by `Run` are named by that position. So "lost",
"reordered" and "of an earlier Run" are statements about positions.
`TrimMessages` is the walk from the newest message back, as the cutoff index it
reaches. The provider's answer, the class of an error, the success and the
size of a tool result are choices of the environment. The context may be
cancelled at any moment of a Run; the execution of calls does not look at it.

### StepContract and StepExecutor

`StepContract` has three variables: the step's status, the number of effects and
whether it ended with an error. `StepExecutor` is the loop of `ExecuteStep`, one
action per outcome of a generation and per branch of the loop over the calls. Its
`filtered` registry is the intersection of the type's tools and the registered
ones, as in lines 54-61. The contract is reached with `effects <- Len(executed)`
and `failed <- pc = "idle" /\ result.error # "none"`. A cancelled context shows in
`ExecuteStep` only as a failing generation, so there is no action for it.

### SkeletonSession

A plan is a tree of numbered nodes in depth-first order; `Plans` is the set of
trees the model may produce. `pc`, `node` and `childContext` hold the recursion of
`executeNode`: the context each branch under execution has built is its frame.
`FinishLeaf` is the return of `ExecuteStep` (with or without an error, with or
without output). A checkpoint is two steps, since `os.WriteFile` truncates and then
writes: a crash or an error in between leaves a file that cannot be read. A crash
may happen at any moment of a call and leaves the files only. `findExistingSession`
takes the first readable file in the order of the ids; ids are the clock, so
they grow. The task is one and the same in all calls: sessions of other tasks are
not matched and do not interact.

### Indexer

Nodes and edges are *items*, known by the primary key of their table, so items of
several files may be the same one, as the node of a Go package is. The content of
a file is the set of items its parser yields, or that it cannot be parsed; the
hash of a content is the content (no collisions). `rows` is the two tables: for an
item, the file of its row and the content it was found in. `state` is the map in
the memory of an `Indexer`; `Restart` is a new one over the same database. A call is
`StartCall` (the walk), then per file `SkipFile` or `HashFile` (`IndexFile` in
`IndexAll`, which hashes nothing), `ParseFile`, `DeleteOld` and `IngestNew`, the two
transactions, or `FileFails`, then `RemoveGone` for each recorded file the walk did not
find, and `EndCall`. `Edit` may come between any two of them. The walk reads all directories
in one step; a directory it cannot read is passed over without an error, as if its
files were gone (`seen # Existing`), which counts as a fault, like a read or a
transaction that fails. Calls do not overlap: the lock of the code is for the map alone, and
nothing calls one indexer from two goroutines.

Four variables only observe: `done` (indexed by this call), `disturbed` (something
changed or failed since the call began), `untracked` and `raced`, the files for
which the code has no recorded hash or one that is not of the rows, each added at
the step that loses the agreement.

### PlanPipeline

`pc` is the stage of `Execute`: `direct` (a simple task), `decompose`, `step`, `fill`,
`detect`, `verify`, `repair`, `done`. A stage that has a step starts it
(`StepContract`'s `Start`), the step may have effects, which create or delete files,
and its end appends a `StepResult`, for whose output only three classes matter: none,
text, and text `containsError` recognizes. `learned` is `learnedContext` as entries
about results or missing files. A task is what the code extracts from its text: whether
`IsSimpleTask`, the expected files, the parts `SplitConjunctions` finds. Of a file's name
it matters whether a step that names it is taken for one that writes code (`Named`) and
whether `detectVerifyCommand` looks for the file itself (`Probed`). `StepCount`
is the fallback to those parts, which is not bound by the cap of `ParsePlan` (the
"hard cap" of `planner/parser.go:112` holds for the model's own plans only). The step of
a repair is of type WRITE, so `run_shell` is out of its scope, although its prompt
(`planner/executor.go:457`) asks to run the verification again.

### Hnsw and VectorStore

A node is its id, its vector and one neighbour list per layer. `Insert` and `Search` of
the index are calls whose loops run one iteration at a time, with the variables of the
code as the call's variables, reset when it returns: `GreedyStep` and `LayerDown` are the
descent through the upper layers; `SearchLevel`, `Expand`, `Visit` and `ExploreEnds` are
the beam; `SelectNeighbors`, `AddConnection` and `NextLayer` link the new node on one
layer after the other; `InsertEnds` and `SearchEnds` are the returns. So the properties
speak of the middle of a call too. `phase` says where the call is. Of a distance only its
order is used and any function is allowed; `sort` is not stable, so nodes at the same
distance come in any order.

`VectorStore` has the table and the index as the two things they are: `Insert`
reaches both, `InsertBatch` and `DeleteBySource` only the table, `BuildIndex` replaces
the index and reads the table row by row (`ScanRow`), where a failure may stop it after
any of them (`ScanEnds`), `EnsureIndex` builds only when there is no index. `Reopen` is a
new process, also in the middle of any call. `unseen` only observes: the ids the index in
memory could not learn of. What a search over an index with stale or missing ids returns
is thus part of the model: `FetchHit` passes over a row that is gone or cannot be read, so
stale ids use up some of the K results, and a partial index is never rebuilt by
`EnsureIndex`. A list that is full is pruned on one side, so a node just inserted may have
no incoming link; `WellFormed` therefore says nothing about reachability, and
`SearchIsLocallyOptimal` is what a beam does guarantee. No code outside the tests calls
`BuildIndex`, `EnsureIndex` or `InsertBatch`.

### ManifoldSearch

A query is the set of patterns it matches and the symbol extracted from it. `Route`
picks the first pattern in the order of the code; structural and hybrid queries go to the
graph (`AskGraph`), which walks call edges (`WalkStep` is one database query of a
walk, its rows in any order) or looks something up; a failed or empty answer leads to
one search for the symbol and a second attempt, then to the executor, with the fusion of
two backends in `Fuse`. The sort of `reciprocalRankFusion` is not stable and starts from
a map: every order of equal scores is possible. Scores are exact: `Unit` is a multiple of
60 + rank. The target of a call edge is the name as it is written, so walks stop at
calls within a package (`knowledge/parser.go:293`); `Written` of the instance says so.
A hybrid query that the graph answers, also with "No results found.", never reaches the
fusion. `ResolveCallers` and `GetBlastRadius` are the same loop and one walk of the model;
what the comment of the second says of it is another matter (section 5). The backends of
the executor have no implementation and return anything.

### ModelCall

One call: preparation of the messages, the request, and the reply as a whole or as a
stream. `AnthropicEvent` is an event line, `BlockStarts`, `TextDelta`, `InputDelta`,
`BlockStops` and `OtherData` the data line after it; blocks are open side by side, and
a data line may arrive damaged (it does not parse and is skipped) up to `MaxFlaws`
times. `accumulators` and `toolBlocks` are those of the code. The body may end or the
reader fail at any line, and the server may stop in the middle of an input (`cut`).
`server` is what the environment has sent and what of it arrived, which the properties
compare the reply with. `Parsed` is what `json.Unmarshal` may make of an input: all of it
parses, a mere beginning does not, and what is left after a fragment was skipped may or
may not. Content is a sequence of names, so that "lost",
"doubled", "mixed up" are statements about sequences: `Said` is what a list of messages
says in some roles, and the two loops that prepare a request are the folds `Heard` and
`Merged`. A stream that ends early is
returned like a complete one (`llm/stream.go:304`, where line 40 says "complete
assembled response"); the blocks in it have ended all the same. After the history was
trimmed the first message of a request may be an assistant's.

### ShellBudget and ProviderSession

`ProviderSession` is a run of the program: `setup` (the constructor of each provider in
turn, with `NewProvider` or the fallback), `poll` (the health wait), `reap` (a server
that never became healthy is killed and waited for), `check` (`Available`), then the
loop of the session (`prompt`, `task`) and the deferred shutdown (`interrupt`, the
`select` between the exit and the grace period, `await`). A server process is a record
the environment moves: it becomes healthy or does not, exits at any time, ignores an
interrupt if it likes, but not a kill; another program may take its port between
`freePort` and the start (`llm/native.go:250`), and then answers the health check in its
place. `KillProgram` is the end of the program without its deferred calls, by a signal
that nothing handles: a server that ignores its own interrupt then stays. `main` calls
`NewProvider` only; `NewProviderWithFallback` is modelled as the code it is. The
fallback drops a provider that is not available without a shutdown
(`llm/factory.go:142`): `dropped` remembers these, and `EveryServerHasAnOwner` excepts
exactly them.

`ShellBudget` is one call of `run_shell`: refused, out of budget, or run and charged.

## 4. Runs

| Run | Shows |
|---|---|
| `agent_loop` | a Run of at most four turns, possibly after a short one, window of 8 with a prompt of 3, messages of 1, 2 or 8: the history, the window, the answer, late replies, that a loop and nothing else is broken off, and `RunEnds` under fairness (795,574 states) |
| `agent_window` | violation: the latest user message is not always sent |
| `step_executor` | steps of two types, three turns and three calls, replies of up to three calls: answers, scope, output and the refinement of `StepContract` (39,727 states) |
| `skeleton_session` | three calls, two sessions, two crashes, a failing file operation, a cancellation: all properties, and `CallEnds` under fairness (1,513,021 states) |
| `skeleton_success` | violation: a resumed session reports success with a failed leaf |
| `plan_pipeline` | a simple task, a task of one sentence that names two files, one of two sentences; plans of one step or of the two sentences, one effect per step: what a step is told, which files are filled, what success covers, and `PipelineEnds` under fairness (1,068,264 states) |
| `indexer` | three calls, two files of one package, three edits, a fault and a restart: all properties (912,452 states) |
| `indexer_deleted` | violation: a file deleted after `IndexAll` stays in the graph |
| `vector_store` | four chunks of two files, two layers, the store opened twice, builds that stop after every row, insertions and searches loop by loop: the index stays well formed, index and table agree as far as they must, and every beam is locally optimal (2,764,306 states) |
| `manifold_search` | every graph of four functions that call one other or none, and one with a diamond and a cycle; lookups, searches and fusions of lists with duplicates: walks are exact, fusions keep the best (116,756 states) |
| `model_call` | every conversation of up to four messages; streams of up to three blocks side by side, three fragments each, one damaged line, an end or a failure at any line: replies are what arrived, requests keep the history (2,673,958 states) |
| `provider_session` | five machines, six lists of providers, two kinds of invocation, a health wait of one or two polls: every server has an owner, the budget is overrun by one command at most, and `ProgramEnds` under fairness (77,066 states) |

Bounds and why they are enough.

- `MaxRuns = 2` and `MaxPast = 4`: what leaks from one Run to another leaks into the next,
  and a first Run that adds up to four messages before it has replies and results to leak.
  The window holds the prompt and two short messages, so trimming happens in every turn,
  and a long answer exceeds it alone, so the branch that keeps the last message at any
  price is taken. Four turns are four that might be the same, or a repetition with a
  failure or another reply in between.
- `MaxStepTurns = MaxToolCalls = 3`: each limit can be reached first, in the
  middle of a reply or at its end. Replies mix tools in scope, out of scope, and
  allowed but not registered (`manifold_search`, which the session does not
  register).
- The plan of five nodes has a branch between two leaves, so that a context enters
  and leaves a branch; a plan of a single leaf is what `Plan` makes of an answer
  without a list. Two sessions and three calls are the least with which an old
  file can hide a newer one; two crashes allow one in a call that resumes.
- Two files share the package's node and have an item each; the first may be changed
  to another content and back, and to one that cannot be parsed. Three edits and a
  fault are what it takes to lose the rows of a file, change it, and change it back
  to the recorded hash; three calls see each of these states once more.
- `MaxSteps = 1` and a task of two parts: the fallback exceeds the cap, and its plan of two
  steps has a first, a last and a failure before or after the other; a step without an
  effect and one with cover `MaxEffects = 1`. A file can be missing, filled, and removed
  again; one of two is code and the other is not.
- With `M = 1` a node has one link above the lowest layer and two on it, so that the fourth
  insertion prunes; the beam of a search (2) and that of an insertion (3) are narrower
  than the index (4), two of the distances are equal, and `Threshold = 2` lets a build
  stop with something indexed and something not.
- Depth 2 in graphs of four nodes has nodes beyond the depth, cycles through the target and
  two ways to a node; lists of up to three results with a limit of 2 have ties at the limit.
- Three blocks allow two tool blocks beside a text; of three fragments the first, the
  middle or the last can be lost, and they can be cut and swapped; four messages hold
  every pair of neighbouring roles, merged twice. A list of more messages repeats these.
- Five machines: with and without a server, a model, a base URL, a key, Windows. The health
  wait ends by a poll or by its deadline; `Limit = 3` with durations 1 and 3 is used up
  exactly or overrun.
- `MaxTasks`, `MaxOpens`, `MaxPieces`, `MaxBlocks`, `MaxParts`, `MaxFlaws`, `MaxSessions`,
  `MaxCalls`, `MaxCrashes`, `MaxEdits`, `MaxRestarts`, `MaxFaults`, `MaxCancels`,
  `MaxPast` and `MaxRuns` bound the model only; every other limit is the program's own.

Deadlock is checked in `AgentLoop`, `StepExecutor` and `VectorStore`, where a step is always
possible (`/reset` between Runs, the next step, another search). The others really stop: a
single call (`ModelCall`, `ManifoldSearch`), a program that has ended (`ProviderSession`),
or the bound on calls and tasks (`SkeletonSession`, `Indexer`, `PlanPipeline`).

Fairness. `WF_vars(LoopStep)`, `WF_vars(Step)`, `WF_vars(PipelineStep)` and
`WF_vars(ProgramStep)` say that code that can go on does. Calls of the provider end
because the HTTP clients have timeouts (`llm/api.go:53` and `:198`), the health wait
because it counts to a deadline. A shell command is killed at its deadline
(`tools/shell.go:165`); that its call then returns is an assumption: without a
`WaitDelay`, `CombinedOutput` waits until the output is closed, and a process that the
command has left behind may hold it open for longer. `ProviderSession` also assumes that a
killed process exits, which the operating system sees to. Nothing is assumed of the user,
of cancellation, of crashes, or of a server that was asked politely.

## 5. What the runs found

- `core/context.go:79` promises that the latest user message is preserved; the code
  preserves the last message, whatever its role (`agent_window`).
- A branch is completed although a leaf of it failed (`planner/skeleton.go:284`); a
  resumed walk skips it and the session ends as a success (`skeleton_success`).
- `IndexAll` records no file state, so a file deleted before the first `IndexChanged`
  stays in the graph (`knowledge/indexer.go:48`, `indexer_deleted`).

Met while modelling, part of the models, but without a run of their own:

- `agent/agent.go:148` and the comments of its test (`agent/agent_test.go:133` and `:142`)
  allow three identical successful calls; the third reply is not executed any more, the
  loop ends after two executed turns. `LoopsAreBroken` states the bound that the
  code, these comments and the test agree on; what the code does beyond it is the theorem
  `RepeatsKnown`.
- The comment of `GetBlastRadius` (`knowledge/graphdb.go:291`) says that it walks the calls
  forward, to the callees, and "contains" edges; it walks back to the callers, as the
  comment in its loop (line 307) says.
- A data line of a stream that does not parse is skipped (`llm/stream.go:263`). If it held
  a fragment of a tool's input, the rest is put together without it, and if that parses
  the call is made with a truncated argument.
- A session file without pending work hides newer ones that have some
  (`planner/skeleton.go:410`).
- Rows of items several files define belong to the file ingested last and go with it
  (`knowledge/indexer.go:102`; the shared item is the package's node,
  `knowledge/parser.go:83`).
- `README.md:87` of the repository describes hybrid queries as fused; the graph alone
  answers most of them (`tools/manifold.go:51`).
- A log entry (`LLM_GECK/log.md:316` of the repository) says that Ctrl+C cancels a model
  call; `main` passes `context.Background()`, so it ends the program without its deferred
  shutdown of the server.

## 6. Proofs

All theorems hold for every value of the constants that satisfies the named assumptions
(`AgentConstants`, `StepConstants`, `IndexerConstants`, `PipelineConstants`,
`BudgetConstants`, `SearchConstants`, `CallConstants`, `HnswConstants`, `StoreConstants`
and the two `SessionConstants`): positive limits, distances that are natural numbers,
call lists that are nonempty sequences, positive costs, files numbered from 1, plans
that are trees in depth-first order, lists of providers that are not empty, finite
graphs, a unit of score that every share divides, messages with one of the four roles.
TLC evaluates them in every run. Each strengthening below was checked with TLC before it
was proved.

Folds and recursive functions. The library's induction theorems cannot be used here, so
`NaturalsFrom0` (a set of naturals that contains 0 and successors is `Nat`, from `WFMin`)
and `SubsetInduction` (a family that has a set whenever it has all its proper subsets has
every finite set) are stated over sets.
With them a fold or a recursive function is reasoned about in four steps that recur in
the proof modules: it is a chosen solution of its equation (`...IsChosen`); a solution
exists (`...Exist`); two solutions agree (`...Agree`); so it has the value the equation
gives (`...At`).

`AgentLoopProofs`

- `TypeCorrect`: `TypeOK` is inductive; trimming keeps a sequence of messages
  because it keeps the first message and a nonempty suffix of the rest.
- `HistorySuffix`: `HistoryIsSuffix` is inductive together with `TypeOK`. The
  lemmas say that a cutoff keeps a suffix (`TrimKeepsSuffix`) and that appending a
  message with the next position keeps the property (`AppendKeepsSuffix`).
- `LoopsBroken`: both parts of `LoopsAreBroken` are about the past and not inductive. The
  strengthening `RepeatMemory` ties the variables of the code to that past, in both
  directions: `prevCallKey` and `prevCallSucceeded` describe the last executed turn, and
  `repeatCount` is positive exactly when it repeated the one before. So a reply is taken
  for a repetition only after two such turns (`BrokenAfterTwo`), and the bound that the
  code really keeps is `NoThirdIdenticalTurn`; together they are `RepeatsAreKnown`, which
  `RepeatsKnown` says always holds.
- `OneLateReply`: after a late reply the Run is idle, acting or about to look at
  the context (`LateReplyIsLast`), and never generating again.
- `AnswerOfThisRun`: the positions `lastResponse` and `lastToolResult` are 0 or
  above `inputPos` (`LocalsAreOfThisRun`).
- `SentHistory`: `SentHistoryFits` speaks of what is sent; `TrimmedHistoryFits` says it of
  every state between the trim and the generation. The tokens of a history are a sum:
  `SumAdd` takes one message out of it, `TokensOfTail` and `TokensOfSuffix` say what the
  walk of `TrimMessages` has added up when it stops (`TrimFits`).
- `TrimIsTheWalk`: `Cutoffs` is the set of the oldest messages that can be kept; the code
  walks from the newest message back and stops at the first that does not fit. The
  theorem says that the set has exactly one member and that it is where the walk stops.

`StepExecutorProofs`

- `TypeCorrect`, `ScopeHolds` (with `StraysCounted`: the observer's count is the
  code's), and `Refinement`: `StepExecutor!Spec => StepContract!Spec`, from
  `EffectsAreCounted`: before the limit the number of effects is `toolCallCount`,
  so that an executed call is an `Effect` below the limit.
- `OutputHolds`: `OutputIsLatest` speaks of the end of a step; `OutputFollows` says of every
  state that the output is the newest useful text of the conversation. The lemmas are
  about sequences: what an appended message does to the newest text (`AppendLatest`).
- `AnswersHold`: `EveryCallAnswered` speaks of the head of the loop. `AnswersKept` says of
  every state that all replies but the last are settled and that the last one is answered
  up to the call under way; each action then adds one answer or ends the reply.

`StoreProofs`, of `Indexer`: for any set of files, items and contents

- `TypeCorrect`, `Tracked`: inductive. `PathIsToVisit` says that the loop is at a file
  while there is one left: a nonempty set of numbers has a least one, from the
  library's `WFMin`.
- `HashDescribes`: `HashDescribesGraph` needs `PathIsDeleted` (nothing of the file is in
  the tables when the second transaction begins, or the upsert would leave old
  rows) and `ContentIsKnown` (what is upserted is of the file, or it would take the
  own items of another).
- `IndexedExactly`: `IndexedIsExact` speaks of the end of a call; `IndexedSoFar` says it
  of every state of a call and adds that a file indexed is not visited again and
  that what was parsed is still on disk.

`StoreProofs`, of `VectorStore`: for any embeddings, any distance, and any width of the
beams and of the lists

- `StoreTypeCorrect`: the part of it that says something is `WellFormed`. It needs
  `CallIsKnown` (in each phase the locals of the call hold only nodes that reach the layer
  it is on, so that a list made from them does) and `ArrivalIsKnown` (no list of a layer
  that is still to be linked holds the arriving node, and on the layer being linked only
  those of neighbours that have been told, so that a link back never doubles one). What
  `selectNeighbors` and the pruning return, for distances with ties, is `NearestFirstIs`;
  that a list with the link back is again a list of its node, `RelinksWell`.
- `SearchEndsLocallyOptimal`: the property speaks of the end of a beam. `BeamIsKnown` says
  in every state of it that a visited node that is no result is no nearer than any of a
  full set of results, and that the neighbours of a result that has been expanded are
  visited or about to be. `VisitBeam` is why displacing the worst result keeps this,
  `ExploreEndsBeam` why either way out of the loop then leaves nothing nearer behind.
- `IndexAndRowsAgree`: `IndexKnowsRows` adds that a build has indexed only ids up to the row
  it has read, so that the next row is new to the index; an inserted chunk is, because no
  id exceeds the table's sequence (`StoreTypeOK`). `SearchFindsRows` says of a
  search in progress that the nodes it is still to look up come after the hits in the
  order of distance and share no id with them.

`SkeletonSessionProofs`, for any set of plans, crashes, faults and cancellations

- `TypeCorrect`: needs `PlannerKnown` (what a call knows of its session and node),
  `FilesKnown` (files beyond the newest session do not exist, readable ones are typed)
  and `NewestIsFound`: only the newest session's file can be found with pending work, so
  that a call that resumes continues the newest session. The first of a set of nodes
  exists by `WFMin` (`FirstIsLeast`).
- `CheckpointHolds` and `RunAgainHolds`: what was completed is counted by the observer;
  `MemoryCounted` says that the tree in memory accounts for every completion but the lost
  ones, `FileCounted` the same of the newest file, except for the leaf that is about to be
  written. A resumption makes the second into the first, a checkpoint the first into the
  second, a crash or a failing write adds to the losses what they differ by.
- `WalkHolds` and `SuccessHolds`: `Ahead` names the nodes a walk has not reached, in every
  state of it. The lemmas `SiblingIsNext`, `ParentIsNext`, `ChildIsNext`, `LeafIsAlone` and
  `RootIsAll` say, of any tree in depth-first order, that the steps of `executeNode` change
  it by the node they enter and nothing else (`WalkMoves`). Then the leaves executed are
  behind, in order, and a fresh walk has nothing but pending nodes ahead and nothing but
  executed leaves behind (`FreshWalk`).
- `ContextHolds`: `ContextIsComplete` speaks of the moment a leaf is executed; the
  invariant says of every state of a walk what the context of each branch on the path to
  the node holds (`ContextsHold`); `ContextsKept` is why a step elsewhere leaves it so.
  The ancestors of a node are a recursive function: `ClimbExists` says that the climb
  has a value, `AboveParent` and `OlderOfChild` what it is for a node in terms of its
  parent.

`PlanPipelineProofs`, for any tasks, files and number of steps

- `TypeCorrect` and `SuccessHolds` from one invariant: how many results each stage has
  (`Progress`), which stage ran which (`Order`, `RunsForStage`), and that success is set
  last (`NoEarlySuccess`).
- `FilesHold`: `FilesAccounted` says after the completeness check what the property says
  at the end.
- `ContextHolds`: `ContextKept` says of every state which entries the context has of the
  results so far; the context grows only at its end.

`ProviderSessionProofs`, for any machine, list of providers and number of polls

- `TypeCorrect` and `OwnersHold`: `OwnerKnown` ties the stage of the program to the
  process it is about. A step either waits for that process or leaves who has been waited
  for as it is (`Touched`, `WaitedFor`).
- `BudgetHolds`: a command runs only while something of the budget is left.

`ManifoldSearchProofs`, for any finite graphs, rankings and depth

- `TypeCorrect`: what is found and what is on the two frontiers is visited, in any graph.
- `WalkHolds`: `WalkIsExact` compares the end of a walk with what lies within its depth, a
  recursive function (`Near`, whose values are `NearAt`). The invariant says of every
  state that each visited node is reported once (`Visits`), that at depth d exactly what
  is near at d is visited and, of the next level, the callers of the nodes that have left
  the frontier (`Levels`), and that closer nodes come first (`CloserFirst`). A walk that
  stops early has an empty frontier, and then no greater depth adds anything (`NearStops`).
- `FusionHolds`: the score of a result is a sum over the places where the lists have it.
  `ScoredIsAfter` and `ScoredList` say that the loop that adds one share after the other
  computes it, for lists of any length with any repetitions; sorted by score and cut at
  the limit, nothing left out is better (`FusedIsBest`).

`ModelCallProofs`, for any histories and any number of pieces, blocks, fragments and
damaged lines

- `TypeCorrect` and `ReplyHolds` from one invariant (`Inductive`). `TextIsKnown`: the text
  is every undamaged piece, and what was shown. `InputsAreKnown`: the accumulators are
  those of the blocks that began and have not been seen to stop, and each holds the
  fragments of its own block that arrived (`Carries`): all of them, or fewer than were
  sent. `ParsedIsInput` says what may become of them. `CallsAreKnown`: the finished blocks
  are the ones that ended, each once, with such an input. `CallShape`: the result is built
  from these; where its parts are is `ReplyShape`.
- `RequestHolds`: both loops over the history are folds. `HeardPasses` and `MergedPasses`
  turn a fold into its passes; `HearsWell` and `MergesWell` are the invariants of the two
  loops: what is collected so far alternates (with the message still held, in the second
  loop) and says, in every set of roles, what the messages seen so far say. `SaidMore`
  says what one more message adds to what is said.

Only model-checked: liveness (`RunEnds`, `CallEnds`, `PipelineEnds`, `ProgramEnds`),
which is out of the prover's reach. Every safety property of a passing run is a theorem.
That a search finds the nearest chunks is not a property of this code, and no run states
it.

## 7. Not modelled, and why

- The text of prompts and messages, the patterns of `ClassifyError`, the parsing of tool
  calls and of plans, `IsSimpleTask` and the other patterns over a task's text: their
  outcome is a choice of the environment or a constant of a task.
- Hardware detection, configuration, file and git tools, permission and path predicates:
  I/O or pure predicates without state of their own.
- The language parsers: `Indexer` has their outcome. The chunker: text processing without
  state; its estimate of the first line of an overlap (`memory/chunker.go:48`) is left open.
- `Plan` and `expandNode` are abstracted to the set `Plans`.
- Tool schemas, grammars, temperatures and other options of a request.
- Concurrent calls of `Shutdown`: its `sync.Once` serves a case the program does not have.
- `GetNode`, `Stats`, `NodesByKind`, `SetEfSearch`: single reads or setters that nothing
  of the modelled code depends on.

## 8. Plan

What is left, in this order:

1. `SkeletonPlan`: the tree `Plan` and `expandNode` build, with its bounds, as what
   justifies `Plans`.
2. `Repl`: the session that composes the agent's history with the planner's files over
   several tasks, where `ProviderSession` takes a task as one step.
3. Pure operators: chunking and the order of the parsing strategies against reference
   definitions over bounded inputs.
4. An abstract table that `VectorStore` implements while no index is built.

Theorems worth proving next: that `VectorStore` implements the table of item 4 while no
index is built, and that the trees of item 1 satisfy what `SessionConstants` assumes of
`Plans`.
