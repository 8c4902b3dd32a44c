---------------------------- MODULE StepExecutor ----------------------------
(***************************************************************************)
(* ChunkedExecutor.ExecuteStep of internal/planner/executor.go: the loop   *)
(* that executes one step of a plan with the tools its type allows, within *)
(* limits on turns, tool calls and calls of tools that are out of scope.   *)
(* The executor is one object and its steps are executed one after another *)
(* by the planners, each with a conversation of its own.                   *)
(*                                                                         *)
(* The provider and the tools are the environment. Cancellation of the     *)
(* context is seen by the provider only: the generation fails.             *)
(*                                                                         *)
(* The texts that ExecuteStep keeps as the step's output are named by the  *)
(* index of the message that holds them, 0 standing for the empty string.  *)
(***************************************************************************)
EXTENDS Integers, Sequences

CONSTANTS
  MaxStepTurns,   \* ChunkedExecutor.maxStepTurns
  MaxToolCalls,   \* ChunkedExecutor.maxToolCalls
  Tools,          \* names of tools
  Registered,     \* the names in fullRegistry
  AllowedTools,   \* type of step -> names, StepType.AllowedTools
  CallLists       \* the tool calls of a reply, duplicates included

ASSUME StepConstants ==
  /\ MaxStepTurns \in Nat \ {0} /\ MaxToolCalls \in Nat \ {0}
  /\ Registered \subseteq Tools
  /\ AllowedTools \in [DOMAIN AllowedTools -> SUBSET Tools]
  /\ CallLists \subseteq Seq(Tools) \ {<<>>}

VARIABLES
  pc,               \* "idle", "head" of the loop or "calls"
  status,           \* step.Status
  filtered,         \* names in the step's registry
  messages,         \* the step's conversation
  turn,
  toolCallCount,
  outOfScopeCount,
  toolCalls,        \* calls of the current reply still to handle
  lastOutput,       \* index of the message lastOutput holds, 0 if ""
  result            \* the StepResult of the last step: output and error

\* What an observer remembers of the current step; no action reads these.
VARIABLES
  executed,  \* tools executed
  strays     \* calls of tools that are not in scope

vars == <<pc, status, filtered, messages, turn, toolCallCount, outOfScopeCount,
          toolCalls, lastOutput, result, executed, strays>>

Roles == {"system", "user", "assistant", "tool"}
Msg == [role : Roles, calls : Seq(Tools), ok : BOOLEAN]
Errors == {"none", "generation", "scope"}

\* A message; calls are those of a reply, ok is FALSE for the error of a tool.
Message(role, calls, ok) == [role |-> role, calls |-> calls, ok |-> ok]

-----------------------------------------------------------------------------
Init ==
  /\ pc = "idle" /\ status = "pending"
  /\ filtered = {} /\ messages = <<>>
  /\ turn = 0 /\ toolCallCount = 0 /\ outOfScopeCount = 0
  /\ toolCalls = <<>> /\ lastOutput = 0
  /\ result = [output |-> 0, error |-> "none"]
  /\ executed = <<>> /\ strays = 0

\* ExecuteStep is called with a step of the given type: everything it keeps is
\* its own, except the registry of all tools.
StartStep(type) ==
  /\ pc = "idle"
  /\ pc' = "head" /\ status' = "running"
  /\ filtered' = AllowedTools[type] \cap Registered
  /\ messages' = <<Message("system", <<>>, TRUE), Message("user", <<>>, TRUE)>>
  /\ turn' = 0 /\ toolCallCount' = 0 /\ outOfScopeCount' = 0
  /\ lastOutput' = 0
  /\ executed' = <<>> /\ strays' = 0
  /\ UNCHANGED <<toolCalls, result>>

Return(end, output, error) ==
  /\ pc' = "idle" /\ status' = end
  /\ result' = [output |-> output, error |-> error]

-----------------------------------------------------------------------------
(***************************************************************************)
(* A turn: one generation                                                  *)
(***************************************************************************)
MayTakeTurn == turn < MaxStepTurns

\* A step out of turns is treated as done.
TurnsExhausted ==
  /\ pc = "head" /\ ~MayTakeTurn
  /\ Return("completed", lastOutput, "none")
  /\ UNCHANGED <<filtered, messages, turn, toolCallCount, outOfScopeCount,
                 toolCalls, lastOutput, executed, strays>>

\* The result of a failed generation has no output, whatever the tools said.
GenerationFails ==
  /\ pc = "head" /\ MayTakeTurn
  /\ Return("failed", 0, "generation")
  /\ UNCHANGED <<filtered, messages, turn, toolCallCount, outOfScopeCount,
                 toolCalls, lastOutput, executed, strays>>

Reply(calls) ==
  /\ pc = "head" /\ MayTakeTurn
  /\ messages' = Append(messages, Message("assistant", calls, TRUE))
  /\ UNCHANGED <<filtered, turn, toolCallCount, outOfScopeCount, executed, strays>>

\* A reply without tool calls completes the step and is its output.
ReplyText ==
  /\ Reply(<<>>)
  /\ lastOutput' = Len(messages')
  /\ Return("completed", lastOutput', "none")
  /\ UNCHANGED toolCalls

ReplyCalls(calls) ==
  /\ Reply(calls)
  /\ toolCalls' = calls /\ pc' = "calls"
  /\ UNCHANGED <<status, lastOutput, result>>

-----------------------------------------------------------------------------
(***************************************************************************)
(* The calls of a reply, one after another                                 *)
(***************************************************************************)
InScope == Head(toolCalls) \in filtered

\* The loop goes on to the next call, or to the next turn.
NextCall ==
  /\ toolCalls' = Tail(toolCalls)
  /\ IF Len(toolCalls) = 1
       THEN pc' = "head" /\ turn' = turn + 1
       ELSE pc' = "calls" /\ UNCHANGED turn

\* Mutant: the second violation is answered like the first.
TwoTolerated(count) == count > 2

HardBlock(count) == count >= 2

\* The second call of a tool out of scope ends the step, in whichever turn.
StepBlocked ==
  /\ pc = "calls" /\ ~InScope /\ HardBlock(outOfScopeCount + 1)
  /\ outOfScopeCount' = outOfScopeCount + 1
  /\ strays' = strays + 1
  /\ Return("failed", lastOutput, "scope")
  /\ UNCHANGED <<filtered, messages, turn, toolCallCount, toolCalls, lastOutput,
                 executed>>

\* Mutant: a call out of scope is skipped without a word.
NoRefusal == <<>>

Refusal == <<Message("user", <<>>, TRUE)>>

RefuseCall ==
  /\ pc = "calls" /\ ~InScope /\ ~HardBlock(outOfScopeCount + 1)
  /\ outOfScopeCount' = outOfScopeCount + 1
  /\ strays' = strays + 1
  /\ messages' = messages \o Refusal
  /\ NextCall
  /\ UNCHANGED <<status, filtered, toolCallCount, lastOutput, result, executed>>

\* Mutant: the call that reaches the limit is let through.
LimitPassed(count) == count > MaxToolCalls + 1

OverLimit(count) == count > MaxToolCalls

\* A call over the limit is not executed: the step is completed as it is.
LimitReached ==
  /\ pc = "calls" /\ InScope /\ OverLimit(toolCallCount + 1)
  /\ toolCallCount' = toolCallCount + 1
  /\ Return("completed", lastOutput, "none")
  /\ UNCHANGED <<filtered, messages, turn, outOfScopeCount, toolCalls, lastOutput,
                 executed, strays>>

\* Mutant: the message of an error counts as output.
OutputOrError(ok) == Len(messages) + 1

OutputAfter(ok) == IF ok THEN Len(messages) + 1 ELSE lastOutput

ExecuteCall(ok) ==
  /\ pc = "calls" /\ InScope /\ ~OverLimit(toolCallCount + 1)
  /\ toolCallCount' = toolCallCount + 1
  /\ executed' = Append(executed, Head(toolCalls))
  /\ messages' = Append(messages, Message("tool", <<>>, ok))
  /\ lastOutput' = OutputAfter(ok)
  /\ NextCall
  /\ UNCHANGED <<status, filtered, outOfScopeCount, result, strays>>

-----------------------------------------------------------------------------
Next ==
  \/ \E type \in DOMAIN AllowedTools : StartStep(type)
  \/ TurnsExhausted \/ GenerationFails
  \/ ReplyText
  \/ \E calls \in CallLists : ReplyCalls(calls)
  \/ StepBlocked \/ RefuseCall \/ LimitReached
  \/ \E ok \in BOOLEAN : ExecuteCall(ok)

Spec == Init /\ [][Next]_vars

-----------------------------------------------------------------------------
(***************************************************************************)
(* Properties                                                              *)
(***************************************************************************)
\* Every variable holds a value of its type and the counters stay within the
\* limits of NewChunkedExecutor, the last refused call included.
TypeOK ==
  /\ pc \in {"idle", "head", "calls"}
  /\ status \in {"pending", "running", "completed", "failed"}
  /\ pc # "idle" <=> status = "running"
  /\ filtered \subseteq Tools
  /\ messages \in Seq(Msg)
  /\ turn \in 0 .. MaxStepTurns /\ (pc = "calls" => turn < MaxStepTurns)
  /\ toolCallCount \in 0 .. MaxToolCalls + 1
  /\ outOfScopeCount \in 0 .. 2
  /\ pc # "idle" => toolCallCount <= MaxToolCalls /\ outOfScopeCount < 2
  /\ toolCalls \in Seq(Tools) /\ (pc = "calls" => toolCalls # <<>>)
  /\ lastOutput \in Nat
  /\ result \in [output : Nat, error : Errors]
  /\ executed \in Seq(Tools) /\ strays \in Nat

\* Whenever the provider is asked, every call of every earlier reply has been
\* answered, by one message and in the order of the calls: a tool's result for a
\* call in scope, a refusal for one that is not.
EveryCallAnswered ==
  pc = "head" =>
    \A i \in DOMAIN messages :
      messages[i].role = "assistant" =>
        LET calls == messages[i].calls
            next == i + Len(calls) + 1
        IN /\ \/ next = Len(messages) + 1
              \/ next \in DOMAIN messages /\ messages[next].role = "assistant"
           /\ \A k \in DOMAIN calls :
                messages[i + k].role = IF calls[k] \in filtered THEN "tool" ELSE "user"

\* A step calls a tool out of scope at most twice over all its turns: the second
\* time it has failed, with that error, and only tools in scope were executed.
SecondStrayFails ==
  /\ strays <= 2
  /\ strays = 2 => pc = "idle" /\ status = "failed" /\ result.error = "scope"
  /\ \A i \in DOMAIN executed : executed[i] \in filtered

\* The output of a step that is completed or was blocked is the newest text that
\* is not an error: the final answer, else the last result of a tool that worked.
OutputIsLatest ==
  pc = "idle" /\ status # "pending" /\ result.error # "generation" =>
    LET texts == {i \in DOMAIN messages : \/ messages[i].role = "tool" /\ messages[i].ok
                                          \/ messages[i] = Message("assistant", <<>>, TRUE)}
    IN IF texts = {} THEN result.output = 0
       ELSE result.output \in texts /\ \A i \in texts : i <= result.output

\* The loop implements what the planners rely on: between its start and its only
\* end a step has at most MaxToolCalls effects, and it fails exactly with an error.
Contract == INSTANCE StepContract
              WITH MaxEffects <- MaxToolCalls, effects <- Len(executed),
                   failed <- (pc = "idle" /\ result.error # "none")

ImplementsContract == Contract!Spec

=============================================================================
