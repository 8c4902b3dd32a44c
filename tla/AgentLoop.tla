------------------------------ MODULE AgentLoop ------------------------------
(***************************************************************************)
(* The agentic loop of internal/agent/agent.go: Agent.Run, the history it  *)
(* keeps across calls and the TrimMessages of internal/core/context.go     *)
(* that fits this history into the model's context window.                 *)
(*                                                                         *)
(* The provider and the tools are the environment: a generation may answer *)
(* with text, with tool calls, or fail with an error that ClassifyError    *)
(* finds retryable or not; a tool may fail or return a result of any size. *)
(* The caller's context may be cancelled at any moment of a Run.           *)
(*                                                                         *)
(* A message is its kind, the class of its size, and its position in the   *)
(* conversation (the number of messages appended before it, plus one). The *)
(* texts Run returns are named by the position of the message that holds   *)
(* them; 0 stands for the empty string.                                    *)
(***************************************************************************)
EXTENDS Integers, Sequences, Functions

CONSTANTS
  MaxTurns,       \* Agent.maxTurns, turns of one Run
  HistoryTokens,  \* ComputeBudget(...).HistoryTokens
  PromptCost,     \* EstimateTokens of the system prompt, with its overhead
  SizeCost,       \* class of size -> EstimateTokens of such a text + overhead
  Keys,           \* the texts "name:arguments" of the repeat detection
  CallLists,      \* the tool calls of a reply, parsed and deduplicated
  SizesOf,        \* kind of message -> the sizes it may have
  MaxRuns,        \* bound of the model: calls of Run
  MaxPast         \* bound of the model: messages appended before a call of Run

Sizes == {"empty", "short", "long"}

ASSUME AgentConstants ==
  /\ MaxTurns \in Nat \ {0}
  /\ HistoryTokens \in Nat
  /\ PromptCost \in Nat \ {0}
  /\ SizeCost \in [Sizes -> Nat \ {0}]
  /\ CallLists \subseteq Seq(Keys) \ {<<>>}
  /\ SizesOf \in [{"input", "call", "text", "output", "error"} -> SUBSET Sizes]
  /\ \A kind \in {"input", "call", "error"} : "empty" \notin SizesOf[kind]
  /\ {MaxRuns, MaxPast} \subseteq Nat

VARIABLES
  history,           \* Agent.history
  pc,                \* where Run stands; "idle" between two Runs
  turn,              \* the loop's counter
  lastResponse,      \* position of the reply lastResponse holds, 0 if ""
  lastToolResult,    \* position of the message lastToolResult holds, 0 if ""
  prevCallKey,       \* keys of the last executed turn's calls
  prevCallSucceeded, \* whether all of these succeeded
  repeatCount,
  toolCalls,         \* calls of the current reply still to execute
  turnSucceeded,
  cancelled,         \* ctx.Err() != nil
  outcome,           \* what the last finished Run returned, and where
  runs               \* Runs started

(***************************************************************************)
(* What an observer of the loop remembers; no action reads these.          *)
(***************************************************************************)
VARIABLES
  appended,  \* messages ever appended to the history
  inputPos,  \* position of the user's input of the current Run
  userPos,   \* position of the latest message with the role "user"
  executed,  \* the turns of this Run whose calls were executed
  late       \* replies accepted since the context was cancelled

locals == <<lastToolResult, prevCallKey, prevCallSucceeded, repeatCount>>
observed == <<appended, inputPos, userPos, executed, late>>
vars == <<history, pc, turn, lastResponse, locals, toolCalls, turnSucceeded,
          cancelled, outcome, runs, observed>>

Kinds == {"prompt", "input", "reply", "result", "guidance"}
Msg == [kind : Kinds, size : Sizes, pos : Nat]
Labels == {"idle", "head", "pause", "generate", "backoff", "act"}
Endings == {"none", "answer", "repeat", "exhausted", "cancelled", "salvaged",
            "failed"}

Prompt == [kind |-> "prompt", size |-> "long", pos |-> 0]

-----------------------------------------------------------------------------
(***************************************************************************)
(* TrimMessages                                                            *)
(***************************************************************************)
Cost(m) == IF m.kind = "prompt" THEN PromptCost ELSE SizeCost[m.size]

\* EstimateMessagesTokens of the messages from the k-th on.
TokensFrom(h, k) ==
  SumFunctionOnSet([i \in DOMAIN h |-> Cost(h[i])], k .. Len(h))

\* Mutant: the budget is not reduced by what the system prompt takes.
KeepableIgnoringPrompt(h, max, k) == k = Len(h) \/ TokensFrom(h, k) <= max

\* The walk from the newest message back reaches the k-th one: the last is kept
\* at any price, an older one while everything from it on fits the budget.
Keepable(h, max, k) ==
  k = Len(h) \/ TokensFrom(h, k) <= max - Cost(h[1])

\* The oldest message the walk reaches (there is exactly one).
Cutoffs(h, max) ==
  {k \in 2 .. Len(h) : /\ Keepable(h, max, k)
                       /\ \A j \in 2 .. k - 1 : ~Keepable(h, max, j)}

\* Mutant: messages are kept one by one when they fit, not up to the first that
\* does not.
TrimSkipping(h, max) ==
  {<<h[1]>> \o SelectSeq(Tail(h), LAMBDA m : Cost(m) <= max - Cost(h[1]))}

\* The value of TrimMessages, as a set of one history.
TrimMessages(h, max) ==
  IF Len(h) <= 2 \/ TokensFrom(h, 1) <= max
    THEN {h}
    ELSE {<<h[1]>> \o SubSeq(h, k, Len(h)) : k \in Cutoffs(h, max)}

-----------------------------------------------------------------------------
(***************************************************************************)
(* Run                                                                     *)
(***************************************************************************)
Init ==
  /\ history = <<Prompt>>
  /\ pc = "idle" /\ turn = 0 /\ runs = 0
  /\ lastResponse = 0 /\ lastToolResult = 0
  /\ prevCallKey = <<>> /\ prevCallSucceeded = TRUE /\ repeatCount = 0
  /\ toolCalls = <<>> /\ turnSucceeded = TRUE
  /\ cancelled = FALSE
  /\ outcome = [value |-> 0, why |-> "none"]
  /\ appended = 0 /\ inputPos = 0 /\ userPos = 0
  /\ executed = <<>> /\ late = 0

Message(kind, size, pos) == [kind |-> kind, size |-> size, pos |-> pos]

Return(value, why) ==
  /\ pc' = "idle"
  /\ outcome' = [value |-> value, why |-> why]

\* The text to fall back on: the last tool output, unless it is empty.
ToolResultOr(response) ==
  IF lastToolResult # 0 THEN lastToolResult ELSE response

\* Mutant: what the tools said in the previous Run survives in the agent.
StaleLocals ==
  /\ prevCallKey' = <<>> /\ prevCallSucceeded' = TRUE /\ repeatCount' = 0
  /\ UNCHANGED lastToolResult

FreshLocals ==
  /\ lastToolResult' = 0
  /\ prevCallKey' = <<>> /\ prevCallSucceeded' = TRUE /\ repeatCount' = 0

\* Run is called with the user's input; its context is not cancelled yet.
StartRun(size) ==
  /\ pc = "idle" /\ runs < MaxRuns /\ appended <= MaxPast
  /\ runs' = runs + 1
  /\ pc' = "head" /\ turn' = 0 /\ cancelled' = FALSE
  /\ history' = Append(history, Message("input", size, appended + 1))
  /\ lastResponse' = 0 /\ FreshLocals
  /\ appended' = appended + 1
  /\ inputPos' = appended + 1 /\ userPos' = appended + 1
  /\ executed' = <<>> /\ late' = 0
  /\ UNCHANGED <<toolCalls, turnSucceeded, outcome>>

\* Reset, the /reset command of the session.
ResetHistory ==
  /\ pc = "idle"
  /\ history' = <<Prompt>>
  /\ userPos' = 0
  /\ UNCHANGED <<pc, turn, lastResponse, locals, toolCalls, turnSucceeded,
                 cancelled, outcome, runs, appended, inputPos, executed, late>>

\* The caller cancels the context of the Run in progress.
Cancel ==
  /\ pc # "idle" /\ ~cancelled
  /\ cancelled' = TRUE
  /\ UNCHANGED <<history, pc, turn, lastResponse, locals, toolCalls,
                 turnSucceeded, outcome, runs, observed>>

-----------------------------------------------------------------------------
(***************************************************************************)
(* The head of the loop and the two sleeps                                 *)
(***************************************************************************)
\* Mutant: the context is looked at only by the sleeps and the provider.
UncheckedTurn == turn < MaxTurns

\* Mutant: the loop takes one turn more.
OneTurnMore == turn <= MaxTurns /\ ~cancelled

MayTakeTurn == turn < MaxTurns /\ ~cancelled

StopAtHead ==
  /\ pc = "head" /\ ~MayTakeTurn
  /\ IF turn >= MaxTurns
       THEN Return(ToolResultOr(lastResponse), "exhausted")
       ELSE Return(lastResponse, "cancelled")
  /\ UNCHANGED <<history, turn, lastResponse, locals, toolCalls, turnSucceeded,
                 cancelled, runs, observed>>

BeginTurn ==
  /\ pc = "head" /\ MayTakeTurn
  /\ history' \in TrimMessages(history, HistoryTokens)
  /\ pc' = IF turn > 0 THEN "pause" ELSE "generate"
  /\ UNCHANGED <<turn, lastResponse, locals, toolCalls, turnSucceeded,
                 cancelled, outcome, runs, observed>>

\* Mutant: a failed attempt does not count as a turn.
UncountedRetry == turn

TurnAfterRetry == turn + 1

\* Each sleep is a select over the timer and the context: when both are ready
\* either may be picked, so a timer may win although the context is cancelled.
TimerFires ==
  /\ \/ pc = "pause" /\ pc' = "generate" /\ UNCHANGED turn
     \/ pc = "backoff" /\ pc' = "head" /\ turn' = TurnAfterRetry
  /\ UNCHANGED <<history, lastResponse, locals, toolCalls, turnSucceeded,
                 cancelled, outcome, runs, observed>>

SleepCancelled ==
  /\ pc \in {"pause", "backoff"} /\ cancelled
  /\ Return(lastResponse, "cancelled")
  /\ UNCHANGED <<history, turn, lastResponse, locals, toolCalls, turnSucceeded,
                 cancelled, runs, observed>>

-----------------------------------------------------------------------------
(***************************************************************************)
(* The generation and its three outcomes                                   *)
(***************************************************************************)
\* The reply joins the history, whatever it holds.
AcceptReply(size) ==
  /\ pc = "generate"
  /\ history' = Append(history, Message("reply", size, appended + 1))
  /\ lastResponse' = IF size = "empty" THEN 0 ELSE appended + 1
  /\ appended' = appended + 1
  /\ late' = IF cancelled THEN late + 1 ELSE late
  /\ UNCHANGED <<turn, lastToolResult, prevCallSucceeded, cancelled, runs,
                 inputPos, userPos, executed>>

\* A reply without tool calls is the answer.
ReplyText(size) ==
  /\ AcceptReply(size)
  /\ Return(lastResponse', "answer")
  /\ UNCHANGED <<prevCallKey, repeatCount, toolCalls, turnSucceeded>>

\* Mutant: two more repetitions are let through.
RepeatsAllowed == 4

RepeatLimit == 2

\* Mutant: a call that failed and is tried again counts as repeated.
RepeatedAnyhow(calls) == calls = prevCallKey

Repeated(calls) == calls = prevCallKey /\ prevCallSucceeded

\* The calls of the last turn come a third time: they are not executed.
ReplyRepeated(calls, size) ==
  /\ Repeated(calls) /\ repeatCount + 1 >= RepeatLimit
  /\ AcceptReply(size)
  /\ repeatCount' = repeatCount + 1
  /\ Return(ToolResultOr(lastResponse'), "repeat")
  /\ UNCHANGED <<prevCallKey, toolCalls, turnSucceeded>>

ReplyCalls(calls, size) ==
  /\ ~(Repeated(calls) /\ repeatCount + 1 >= RepeatLimit)
  /\ AcceptReply(size)
  /\ repeatCount' = IF Repeated(calls) THEN repeatCount + 1 ELSE 0
  /\ prevCallKey' = calls
  /\ toolCalls' = calls /\ turnSucceeded' = TRUE
  /\ pc' = "act"
  /\ UNCHANGED outcome

\* An error that ClassifyError finds retryable is retried unless this is the last
\* turn; any other ends the Run, hidden behind a tool result if there is one.
GenerationFails(retryable) ==
  /\ pc = "generate"
  /\ IF retryable /\ turn < MaxTurns - 1
       THEN pc' = "backoff" /\ UNCHANGED outcome
       ELSE Return(lastToolResult, IF lastToolResult # 0 THEN "salvaged" ELSE "failed")
  /\ UNCHANGED <<history, turn, lastResponse, locals, toolCalls, turnSucceeded,
                 cancelled, runs, observed>>

-----------------------------------------------------------------------------
(***************************************************************************)
(* The execution of the calls, which no cancellation interrupts            *)
(***************************************************************************)
\* The messages a call adds: its result or error, and the evaluation that
\* follows an error, whose text it repeats, an empty result and a long one.
CallMessages(ok, size) ==
  IF ok /\ size = "short"
    THEN <<Message("result", size, appended + 1)>>
    ELSE <<Message("result", size, appended + 1),
           Message("guidance", IF ok THEN "short" ELSE size, appended + 2)>>

ExecuteCall(ok, size) ==
  /\ pc = "act"
  /\ LET new == CallMessages(ok, size)
         last == Len(toolCalls) = 1
     IN /\ history' = history \o new
        /\ appended' = appended + Len(new)
        /\ userPos' = IF Len(new) = 2 THEN appended + 2 ELSE userPos
        /\ lastToolResult' = IF size = "empty" THEN 0 ELSE appended + 1
        /\ toolCalls' = Tail(toolCalls)
        /\ turnSucceeded' = (turnSucceeded /\ ok)
        /\ prevCallSucceeded' = IF last THEN turnSucceeded' ELSE prevCallSucceeded
        /\ executed' = IF last
                         THEN Append(executed, [key |-> prevCallKey, ok |-> turnSucceeded'])
                         ELSE executed
        /\ turn' = IF last THEN turn + 1 ELSE turn
        /\ pc' = IF last THEN "head" ELSE "act"
  /\ UNCHANGED <<lastResponse, prevCallKey, repeatCount, cancelled, outcome, runs,
                 inputPos, late>>

-----------------------------------------------------------------------------
LoopStep ==
  \/ StopAtHead \/ BeginTurn \/ TimerFires \/ SleepCancelled
  \/ \E size \in SizesOf["text"] : ReplyText(size)
  \/ \E calls \in CallLists, size \in SizesOf["call"] :
       ReplyRepeated(calls, size) \/ ReplyCalls(calls, size)
  \/ \E retryable \in BOOLEAN : GenerationFails(retryable)
  \/ \E size \in SizesOf["output"] : ExecuteCall(TRUE, size)
  \/ \E size \in SizesOf["error"] : ExecuteCall(FALSE, size)

Next ==
  \/ \E size \in SizesOf["input"] : StartRun(size)
  \/ ResetHistory
  \/ Cancel
  \/ LoopStep

\* The loop runs on: the providers' HTTP clients time out and so does a shell
\* command. Nothing obliges the user to type, or the caller to cancel.
Spec == Init /\ [][Next]_vars /\ WF_vars(LoopStep)

-----------------------------------------------------------------------------
(***************************************************************************)
(* Properties                                                              *)
(***************************************************************************)
\* Every variable holds a value of its type, and the loop's counters stay within
\* the limits Run gives them.
TypeOK ==
  /\ history \in Seq(Msg) /\ history # <<>>
  /\ pc \in Labels
  /\ turn \in 0 .. MaxTurns /\ (pc \notin {"idle", "head"} => turn < MaxTurns)
  /\ runs \in 0 .. MaxRuns
  /\ lastResponse \in Nat /\ lastToolResult \in Nat
  /\ prevCallKey \in Seq(Keys) /\ prevCallSucceeded \in BOOLEAN
  /\ repeatCount \in 0 .. RepeatLimit /\ (pc # "idle" => repeatCount < RepeatLimit)
  /\ toolCalls \in Seq(Keys) /\ (pc = "act" => toolCalls # <<>>)
  /\ turnSucceeded \in BOOLEAN
  /\ cancelled \in BOOLEAN
  /\ outcome \in [value : Nat, why : Endings]
  /\ appended \in Nat /\ inputPos \in Nat /\ userPos \in Nat
  /\ executed \in Seq([key : Seq(Keys), ok : BOOLEAN])
  /\ late \in Nat

\* The history is the system prompt followed by the newest messages of the
\* conversation, all of them from some point on, in the order in which they were
\* appended: trimming, retries and the end of a Run lose nothing in between.
HistoryIsSuffix ==
  /\ history[1] = Prompt
  /\ \A i \in 2 .. Len(history) :
       /\ history[i].kind # "prompt"
       /\ history[i].pos = appended - Len(history) + i

\* What is sent to the provider fits the history's budget, or is no more than the
\* system prompt and one message (TrimMessages drops nothing from these two).
SentHistoryFits ==
  pc = "generate" =>
    Len(history) <= 2 \/ TokensFrom(history, 1) <= HistoryTokens

\* The turns i to j executed the same calls, and all of these succeeded.
Identical(i, j) ==
  \A k \in i .. j : executed[k].key = executed[i].key /\ executed[k].ok

\* Identical calls are not executed a fourth turn in a row after three turns in
\* which all of them succeeded, whatever retries lie in between: the loop is
\* broken before (agent_test.go:144, "should have stopped at 3").
NoFourthIdenticalTurn ==
  \A i \in 1 .. Len(executed) - 3 :
    Identical(i, i + 2) => executed[i + 3].key # executed[i].key

\* The repeat detection ends a Run only when the calls of its last two turns were
\* the same and succeeded: "a retry after failure is a correction attempt, not a
\* loop" (agent.go:139), and neither is a call that comes back after another one.
OnlyLoopsAreBroken ==
  pc = "idle" /\ outcome.why = "repeat" =>
    /\ Len(executed) >= 2
    /\ Identical(Len(executed) - 1, Len(executed))

\* The repeat detection errs on neither side: a loop is broken in time, and
\* nothing but a loop is broken off.
LoopsAreBroken == NoFourthIdenticalTurn /\ OnlyLoopsAreBroken

\* Once the context is cancelled at most one more reply is accepted and acted on:
\* the one whose generation was already under way or about to start.
AtMostOneLateReply == late <= 1

\* What a Run returns without an error, and what it returns when cancelled, was
\* produced in that Run: never a reply or a tool result of an earlier one.
AnswerIsOfThisRun ==
  pc = "idle" /\ outcome.value # 0 => outcome.value > inputPos

\* Every Run ends: each turn, each retry and each sleep uses up a turn.
RunEnds == pc # "idle" ~> pc = "idle"

-----------------------------------------------------------------------------
\* internal/core/context.go:79 says of TrimMessages: "Always preserves the system
\* message (index 0) and the latest user message." The latest message with the
\* role "user" is in what is sent to the provider.
LatestUserMessageSent ==
  pc = "generate" => \E i \in DOMAIN history : history[i].pos = userPos

=============================================================================
