------------------------- MODULE StepExecutorProofs -------------------------
(***************************************************************************)
(* Proofs about StepExecutor, for every limit, set of tools, registry and  *)
(* assignment of tools to the types of steps.                              *)
(***************************************************************************)
EXTENDS StepExecutor, SequenceTheorems, TLAPS

\* A message built from parts of their types is a message.
LEMMA MessageType ==
  ASSUME NEW role \in Roles, NEW calls \in Seq(Tools), NEW ok \in BOOLEAN
  PROVE  Message(role, calls, ok) \in Msg
BY DEF Message, Msg

\* So is one without tool calls.
LEMMA EmptyMessageType ==
  ASSUME NEW role \in Roles, NEW ok \in BOOLEAN
  PROVE  Message(role, <<>>, ok) \in Msg
<1>1. <<>> \in Seq(Tools)
  BY EmptySeq
<1>. QED
  BY <1>1, MessageType

\* The rest of the calls after one of them, and where the loop goes on.
LEMMA NextCallType ==
  ASSUME TypeOK, pc = "calls", NextCall
  PROVE  /\ pc' \in {"head", "calls"}
         /\ toolCalls' \in Seq(Tools) /\ (pc' = "calls" => toolCalls' # <<>>)
         /\ turn' \in 0 .. MaxStepTurns /\ (pc' = "calls" => turn' < MaxStepTurns)
<1>1. /\ toolCalls \in Seq(Tools) /\ toolCalls # <<>> /\ toolCalls' = Tail(toolCalls)
      /\ turn \in Nat /\ turn < MaxStepTurns /\ MaxStepTurns \in Nat
  BY StepConstants DEF TypeOK, NextCall
<1>2. toolCalls' \in Seq(Tools) /\ Len(toolCalls') = Len(toolCalls) - 1
  BY <1>1
<1>3. CASE Len(toolCalls) = 1
  BY <1>1, <1>2, <1>3 DEF NextCall
<1>4. CASE Len(toolCalls) # 1
  <2>1. Len(toolCalls') # 0
    BY <1>1, <1>2, <1>4
  <2>2. toolCalls' # <<>>
    BY <2>1, EmptySeq
  <2>. QED
    BY <1>1, <1>2, <1>4, <2>2 DEF NextCall
<1>. QED
  BY <1>3, <1>4

-----------------------------------------------------------------------------
(***************************************************************************)
(* Type correctness: the counters stay within the limits                   *)
(***************************************************************************)
\* The conversation and the counters of a step keep their types, and the counters
\* stay within the limits (ExecuteStep).
THEOREM TypeCorrect == Spec => []TypeOK
<1> USE StepConstants DEF Return
<1>1. Init => TypeOK
  <2> SUFFICES ASSUME Init PROVE TypeOK
    OBVIOUS
  <2>1. messages \in Seq(Msg) /\ toolCalls \in Seq(Tools) /\ executed \in Seq(Tools)
    BY DEF Init
  <2>2. result \in [output : Nat, error : Errors]
    BY DEF Init, Errors
  <2>. QED
    BY <2>1, <2>2 DEF Init, TypeOK
<1>2. TypeOK /\ [Next]_vars => TypeOK'
  <2> SUFFICES ASSUME TypeOK, [Next]_vars PROVE TypeOK'
    OBVIOUS
  <2>1. ASSUME NEW type \in DOMAIN AllowedTools, StartStep(type) PROVE TypeOK'
    <3> DEFINE first == Message("system", <<>>, TRUE)
               second == Message("user", <<>>, TRUE)
    <3>1. first \in Msg /\ second \in Msg
      BY EmptyMessageType DEF Roles
    <3>2. messages' = <<first, second>> /\ executed' = <<>>
      BY <2>1 DEF StartStep
    <3> HIDE DEF first, second
    <3>3. messages' \in Seq(Msg) /\ executed' \in Seq(Tools)
      BY <3>1, <3>2
    <3>4. filtered' \subseteq Tools
      BY <2>1 DEF StartStep
    <3>5. /\ pc' = "head" /\ status' = "running" /\ lastOutput' = 0 /\ strays' = 0
          /\ turn' = 0 /\ toolCallCount' = 0 /\ outOfScopeCount' = 0
          /\ UNCHANGED <<toolCalls, result>>
      BY <2>1 DEF StartStep
    <3>. QED
      BY <3>3, <3>4, <3>5 DEF TypeOK
  <2>2. CASE TurnsExhausted
    BY <2>2 DEF TypeOK, TurnsExhausted, Errors
  <2>3. CASE GenerationFails
    BY <2>3 DEF TypeOK, GenerationFails, Errors
  <2>4. ASSUME NEW calls \in Seq(Tools), Reply(calls)
        PROVE  messages' \in Seq(Msg) /\ Len(messages') \in Nat
    <3> DEFINE m == Message("assistant", calls, TRUE)
    <3>1. m \in Msg
      BY MessageType DEF Roles
    <3>2. messages \in Seq(Msg) /\ messages' = Append(messages, m)
      BY <2>4 DEF TypeOK, Reply
    <3> HIDE DEF m
    <3>. QED
      BY <3>1, <3>2
  <2>5. CASE ReplyText
    <3>1. <<>> \in Seq(Tools) /\ Reply(<<>>)
      BY <2>5 DEF ReplyText
    <3>2. messages' \in Seq(Msg) /\ Len(messages') \in Nat
      BY <2>4, <3>1
    <3>3. lastOutput' \in Nat /\ result' \in [output : Nat, error : Errors]
      BY <2>5, <3>2 DEF ReplyText, Errors
    <3>. QED
      BY <2>5, <3>2, <3>3 DEF TypeOK, ReplyText, Reply
  <2>6. ASSUME NEW calls \in CallLists, ReplyCalls(calls) PROVE TypeOK'
    <3>1. calls \in Seq(Tools) /\ calls # <<>> /\ Reply(calls)
      BY <2>6 DEF ReplyCalls
    <3>2. messages' \in Seq(Msg)
      BY <2>4, <3>1
    <3>. QED
      BY <2>6, <3>1, <3>2 DEF TypeOK, ReplyCalls, Reply, MayTakeTurn
  <2>7. CASE StepBlocked
    BY <2>7 DEF TypeOK, StepBlocked, HardBlock, Errors
  <2>8. CASE RefuseCall
    <3>1. Refusal \in Seq(Msg)
      <4> DEFINE m == Message("user", <<>>, TRUE)
      <4>1. m \in Msg
        BY EmptyMessageType DEF Roles
      <4> HIDE DEF m
      <4>2. <<m>> \in Seq(Msg)
        BY <4>1
      <4>. QED
        BY <4>2 DEF m, Refusal
    <3>2. messages' \in Seq(Msg)
      BY <2>8, <3>1 DEF TypeOK, RefuseCall
    <3>3. pc = "calls" /\ NextCall
      BY <2>8 DEF RefuseCall
    <3>4. /\ outOfScopeCount' = outOfScopeCount + 1 /\ outOfScopeCount + 1 < 2
          /\ strays' = strays + 1
          /\ UNCHANGED <<status, filtered, toolCallCount, lastOutput, result, executed>>
      BY <2>8 DEF RefuseCall, HardBlock, TypeOK
    <3>5. /\ pc' \in {"head", "calls"}
          /\ toolCalls' \in Seq(Tools) /\ (pc' = "calls" => toolCalls' # <<>>)
          /\ turn' \in 0 .. MaxStepTurns /\ (pc' = "calls" => turn' < MaxStepTurns)
      BY <3>3, NextCallType
    <3>. QED
      BY <3>2, <3>3, <3>4, <3>5 DEF TypeOK
  <2>9. CASE LimitReached
    BY <2>9 DEF TypeOK, LimitReached, OverLimit, Errors
  <2>10. ASSUME NEW ok \in BOOLEAN, ExecuteCall(ok) PROVE TypeOK'
    <3>1. Message("tool", <<>>, ok) \in Msg
      BY EmptyMessageType DEF Roles
    <3>2. messages' \in Seq(Msg)
      BY <2>10, <3>1 DEF TypeOK, ExecuteCall
    <3>3. executed' \in Seq(Tools)
      <4>1. Head(toolCalls) \in Tools
        BY <2>10 DEF TypeOK, ExecuteCall
      <4>. QED
        BY <2>10, <4>1 DEF TypeOK, ExecuteCall
    <3>4. lastOutput' \in Nat
      BY <2>10 DEF TypeOK, ExecuteCall, OutputAfter
    <3>5. toolCallCount' \in 0 .. MaxToolCalls
      BY <2>10 DEF TypeOK, ExecuteCall, OverLimit
    <3>6. pc = "calls" /\ NextCall
          /\ UNCHANGED <<status, filtered, outOfScopeCount, result, strays>>
      BY <2>10 DEF ExecuteCall
    <3>7. /\ pc' \in {"head", "calls"}
          /\ toolCalls' \in Seq(Tools) /\ (pc' = "calls" => toolCalls' # <<>>)
          /\ turn' \in 0 .. MaxStepTurns /\ (pc' = "calls" => turn' < MaxStepTurns)
      BY <3>6, NextCallType
    <3>. QED
      BY <3>2, <3>3, <3>4, <3>5, <3>6, <3>7 DEF TypeOK
  <2>11. CASE UNCHANGED vars
    BY <2>11 DEF TypeOK, vars
  <2>. QED
    BY <2>1, <2>2, <2>3, <2>5, <2>6, <2>7, <2>8, <2>9, <2>10, <2>11 DEF Next
<1>. QED
  BY <1>1, <1>2, PTL DEF Spec

-----------------------------------------------------------------------------
(***************************************************************************)
(* Scope                                                                   *)
(***************************************************************************)
\* While a step runs, the counter is the number of stray calls of all its turns.
StraysCounted ==
  /\ pc # "idle" => strays = outOfScopeCount /\ strays <= 1
  /\ SecondStrayFails

\* The second call out of scope is the last thing a step does.
THEOREM ScopeHolds == Spec => []SecondStrayFails
<1> USE DEF Return
<1>1. Init => StraysCounted
  BY DEF Init, StraysCounted, SecondStrayFails
<1>2. TypeOK /\ StraysCounted /\ [Next]_vars => StraysCounted'
  <2> SUFFICES ASSUME TypeOK, StraysCounted, [Next]_vars PROVE StraysCounted'
    OBVIOUS
  <2> USE DEF StraysCounted, SecondStrayFails
  <2>1. CASE \E type \in DOMAIN AllowedTools : StartStep(type)
    BY <2>1 DEF StartStep
  <2>2. CASE TurnsExhausted \/ GenerationFails
    BY <2>2 DEF TurnsExhausted, GenerationFails
  <2>3. CASE ReplyText \/ \E calls \in CallLists : ReplyCalls(calls)
    BY <2>3 DEF ReplyText, ReplyCalls, Reply
  <2>4. CASE StepBlocked
    BY <2>4 DEF StepBlocked, HardBlock, TypeOK
  <2>5. CASE RefuseCall
    BY <2>5 DEF RefuseCall, HardBlock, TypeOK, NextCall
  <2>6. CASE LimitReached
    BY <2>6 DEF LimitReached
  <2>7. ASSUME NEW ok \in BOOLEAN, ExecuteCall(ok) PROVE StraysCounted'
    <3>1. executed' = Append(executed, Head(toolCalls)) /\ Head(toolCalls) \in filtered
      BY <2>7 DEF ExecuteCall, InScope
    <3>2. \A i \in DOMAIN executed' : executed'[i] \in filtered
      BY <3>1 DEF TypeOK
    <3>. QED
      BY <2>7, <3>2 DEF ExecuteCall, NextCall
  <2>8. CASE UNCHANGED vars
    BY <2>8 DEF vars
  <2>. QED
    BY <2>1, <2>2, <2>3, <2>4, <2>5, <2>6, <2>7, <2>8 DEF Next
<1>3. StraysCounted => SecondStrayFails
  BY DEF StraysCounted
<1>. QED
  BY <1>1, <1>2, <1>3, TypeCorrect, PTL DEF Spec

-----------------------------------------------------------------------------
(***************************************************************************)
(* The loop implements the contract of a step                              *)
(***************************************************************************)
\* While a step runs every counted call was executed.
EffectsCounted == pc # "idle" => Len(executed) = toolCallCount

\* Every tool that ran was counted against the limit of its step (ExecuteStep).
THEOREM EffectsAreCounted == Spec => []EffectsCounted
<1> USE DEF EffectsCounted, Return
<1>1. Init => EffectsCounted
  BY DEF Init
<1>2. TypeOK /\ EffectsCounted /\ [Next]_vars => EffectsCounted'
  <2> SUFFICES ASSUME TypeOK, EffectsCounted, [Next]_vars PROVE EffectsCounted'
    OBVIOUS
  <2>1. CASE \E type \in DOMAIN AllowedTools : StartStep(type)
    BY <2>1 DEF StartStep
  <2>2. CASE TurnsExhausted \/ GenerationFails \/ StepBlocked \/ LimitReached
    BY <2>2 DEF TurnsExhausted, GenerationFails, StepBlocked, LimitReached
  <2>3. CASE ReplyText \/ \E calls \in CallLists : ReplyCalls(calls)
    BY <2>3 DEF ReplyText, ReplyCalls, Reply
  <2>4. CASE RefuseCall
    BY <2>4 DEF RefuseCall, NextCall
  <2>5. ASSUME NEW ok \in BOOLEAN, ExecuteCall(ok) PROVE EffectsCounted'
    <3>1. Len(executed') = Len(executed) + 1 /\ toolCallCount' = toolCallCount + 1
      BY <2>5 DEF TypeOK, ExecuteCall
    <3>. QED
      BY <2>5, <3>1 DEF ExecuteCall
  <2>6. CASE UNCHANGED vars
    BY <2>6 DEF vars
  <2>. QED
    BY <2>1, <2>2, <2>3, <2>4, <2>5, <2>6 DEF Next
<1>. QED
  BY <1>1, <1>2, TypeCorrect, PTL DEF Spec

\* Every step of the loop is a step of the contract or changes nothing of it.
THEOREM Refinement == Spec => ImplementsContract
<1> USE StepConstants DEF Return
<1>1. Init => Contract!Init
  BY DEF Init, Contract!Init
<1>2. TypeOK /\ EffectsCounted /\ [Next]_vars => [Contract!Next]_Contract!vars
  <2> SUFFICES ASSUME TypeOK, EffectsCounted, [Next]_vars
               PROVE  [Contract!Next]_Contract!vars
    OBVIOUS
  <2>1. CASE \E type \in DOMAIN AllowedTools : StartStep(type)
    <3>1. Contract!Start
      BY <2>1 DEF StartStep, Contract!Start, TypeOK
    <3>. QED
      BY <3>1 DEF Contract!Next
  <2>2. ASSUME pc = "head" \/ pc = "calls", pc' = "idle", executed' = executed,
               \/ status' = "completed" /\ result'.error = "none"
               \/ status' = "failed" /\ result'.error # "none"
        PROVE  Contract!Next
    <3>1. Contract!Finish
      BY <2>2 DEF Contract!Finish, TypeOK
    <3>. QED
      BY <3>1 DEF Contract!Next
  <2>3. CASE TurnsExhausted \/ GenerationFails \/ ReplyText \/ StepBlocked \/ LimitReached
    <3>1. /\ pc = "head" \/ pc = "calls"
          /\ pc' = "idle" /\ executed' = executed
      BY <2>3 DEF TurnsExhausted, GenerationFails, ReplyText, Reply, StepBlocked,
                  LimitReached
    <3>2. \/ status' = "completed" /\ result'.error = "none"
          \/ status' = "failed" /\ result'.error # "none"
      BY <2>3 DEF TurnsExhausted, GenerationFails, ReplyText, StepBlocked, LimitReached
    <3>. QED
      BY <2>2, <3>1, <3>2
  <2>4. CASE (\E calls \in CallLists : ReplyCalls(calls)) \/ RefuseCall
    BY <2>4 DEF ReplyCalls, Reply, RefuseCall, NextCall, Contract!vars
  <2>5. ASSUME NEW ok \in BOOLEAN, ExecuteCall(ok) PROVE Contract!Next
    <3>1. /\ pc = "calls" /\ pc' # "idle" /\ status' = status /\ result' = result
          /\ Len(executed') = Len(executed) + 1
          /\ toolCallCount + 1 <= MaxToolCalls
      <4>1. executed \in Seq(Tools) /\ executed' = Append(executed, Head(toolCalls))
            /\ toolCallCount \in Nat /\ ~(toolCallCount + 1 > MaxToolCalls)
        BY <2>5 DEF TypeOK, ExecuteCall, OverLimit
      <4>2. /\ pc = "calls" /\ status' = status /\ result' = result
            /\ pc' = "head" \/ pc' = "calls"
        BY <2>5 DEF ExecuteCall, NextCall
      <4>. QED
        BY <4>1, <4>2
    <3>2. Contract!Effect
      BY <3>1 DEF Contract!Effect, TypeOK, EffectsCounted
    <3>. QED
      BY <3>2 DEF Contract!Next
  <2>6. CASE UNCHANGED vars
    BY <2>6 DEF vars, Contract!vars
  <2>. QED
    BY <2>1, <2>3, <2>4, <2>5, <2>6 DEF Next
<1>. QED
  BY <1>1, <1>2, TypeCorrect, EffectsAreCounted, PTL
  DEF Spec, ImplementsContract, Contract!Spec

-----------------------------------------------------------------------------
(***************************************************************************)
(* The output of a step                                                    *)
(***************************************************************************)
IsText(m) == \/ m.role = "tool" /\ m.ok
             \/ m = Message("assistant", <<>>, TRUE)

\* n is the index of the latest text of the conversation s, 0 if it has none.
LatestText(n, s) ==
  /\ \/ n = 0
     \/ n \in DOMAIN s /\ IsText(s[n])
  /\ \A i \in DOMAIN s : IsText(s[i]) => i <= n

\* While a step runs lastOutput is the latest text, and then the result's output.
OutputFollows ==
  /\ pc # "idle" => LatestText(lastOutput, messages)
  /\ pc = "idle" /\ status # "pending" /\ result.error # "generation"
       => LatestText(result.output, messages)

\* A message is the latest text if it is one, and otherwise changes nothing.
LEMMA AppendLatest ==
  ASSUME NEW s \in Seq(Msg), NEW m \in Msg, NEW n \in Nat, LatestText(n, s)
  PROVE  /\ IsText(m) => LatestText(Len(s) + 1, Append(s, m))
         /\ ~IsText(m) => LatestText(n, Append(s, m))
<1> DEFINE t == Append(s, m)
<1>1. /\ Len(s) \in Nat /\ DOMAIN s = 1 .. Len(s) /\ DOMAIN t = 1 .. (Len(s) + 1)
      /\ t[Len(s) + 1] = m /\ \A i \in 1 .. Len(s) : t[i] = s[i]
  OBVIOUS
<1> HIDE DEF t
<1>2. \A i \in 1 .. Len(s) + 1 : i \in 1 .. Len(s) \/ i = Len(s) + 1
  BY <1>1
<1>3. ASSUME IsText(m) PROVE LatestText(Len(s) + 1, t)
  BY <1>1, <1>3 DEF LatestText
<1>4. ASSUME ~IsText(m) PROVE LatestText(n, t)
  <2>1. n = 0 \/ (n \in DOMAIN t /\ IsText(t[n]))
    BY <1>1 DEF LatestText
  <2>2. ASSUME NEW i \in DOMAIN t, IsText(t[i]) PROVE i <= n
    BY <1>1, <1>2, <1>4, <2>2 DEF LatestText
  <2>. QED
    BY <2>1, <2>2 DEF LatestText
<1>. QED
  BY <1>3, <1>4 DEF t

\* Only the result of a tool that worked and a reply without calls are texts.
LEMMA WhichAreTexts ==
  ASSUME NEW calls \in Seq(Tools), NEW ok \in BOOLEAN
  PROVE  /\ IsText(Message("tool", <<>>, ok)) <=> ok
         /\ IsText(Message("assistant", calls, TRUE)) <=> calls = <<>>
         /\ ~IsText(Message("user", <<>>, TRUE))
         /\ ~IsText(Message("system", <<>>, TRUE))
BY DEF IsText, Message

\* The output of a step is the latest of its texts.
THEOREM OutputHolds == Spec => []OutputIsLatest
<1> USE DEF Return
<1>1. Init => OutputFollows
  BY DEF Init, OutputFollows
<1>2. TypeOK /\ OutputFollows /\ [Next]_vars => OutputFollows'
  <2> SUFFICES ASSUME TypeOK, OutputFollows, [Next]_vars PROVE OutputFollows'
    OBVIOUS
  <2>1. ASSUME NEW type \in DOMAIN AllowedTools, StartStep(type) PROVE OutputFollows'
    <3> DEFINE first == Message("system", <<>>, TRUE)
               second == Message("user", <<>>, TRUE)
    <3>1. ~IsText(first) /\ ~IsText(second)
      BY WhichAreTexts, EmptySeq
    <3>2. messages' = <<first, second>> /\ lastOutput' = 0 /\ pc' = "head"
      BY <2>1 DEF StartStep
    <3> HIDE DEF first, second
    <3>3. \A i \in DOMAIN messages' : ~IsText(messages'[i])
      BY <3>1, <3>2
    <3>4. LatestText(lastOutput', messages')
      BY <3>2, <3>3 DEF LatestText
    <3>. QED
      BY <3>2, <3>4 DEF OutputFollows
  <2>2. CASE TurnsExhausted \/ StepBlocked \/ LimitReached
    BY <2>2 DEF OutputFollows, TurnsExhausted, StepBlocked, LimitReached
  <2>3. CASE GenerationFails
    BY <2>3 DEF OutputFollows, GenerationFails
  <2>4. CASE ReplyText
    <3> DEFINE m == Message("assistant", <<>>, TRUE)
    <3>1. m \in Msg /\ IsText(m)
      BY EmptyMessageType, WhichAreTexts, EmptySeq DEF Roles
    <3>2. /\ pc = "head" /\ messages' = Append(messages, m)
          /\ result'.output = Len(messages') /\ pc' = "idle"
      BY <2>4 DEF ReplyText, Reply
    <3> HIDE DEF m
    <3>3. messages \in Seq(Msg) /\ lastOutput \in Nat /\ LatestText(lastOutput, messages)
      BY <3>2 DEF TypeOK, OutputFollows
    <3>4. LatestText(Len(messages) + 1, messages') /\ Len(messages') = Len(messages) + 1
      BY <3>1, <3>2, <3>3, AppendLatest
    <3>. QED
      BY <3>2, <3>4 DEF OutputFollows
  <2>5. ASSUME NEW calls \in CallLists, ReplyCalls(calls) PROVE OutputFollows'
    <3> DEFINE m == Message("assistant", calls, TRUE)
    <3>1. calls \in Seq(Tools) /\ calls # <<>>
      BY StepConstants
    <3>2. m \in Msg /\ ~IsText(m)
      BY <3>1, MessageType, WhichAreTexts DEF Roles
    <3>3. pc = "head" /\ messages' = Append(messages, m) /\ lastOutput' = lastOutput
          /\ pc' = "calls"
      BY <2>5 DEF ReplyCalls, Reply
    <3> HIDE DEF m
    <3>4. messages \in Seq(Msg) /\ lastOutput \in Nat /\ LatestText(lastOutput, messages)
      BY <3>3 DEF TypeOK, OutputFollows
    <3>5. LatestText(lastOutput', messages')
      BY <3>2, <3>3, <3>4, AppendLatest
    <3>. QED
      BY <3>3, <3>5 DEF OutputFollows
  <2>6. CASE RefuseCall
    <3> DEFINE m == Message("user", <<>>, TRUE)
    <3>1. m \in Msg /\ ~IsText(m)
      BY EmptyMessageType, WhichAreTexts, EmptySeq DEF Roles
    <3>2. /\ pc = "calls" /\ messages' = messages \o <<m>> /\ lastOutput' = lastOutput
          /\ pc' \in {"head", "calls"}
      BY <2>6 DEF RefuseCall, NextCall, Refusal
    <3> HIDE DEF m
    <3>3. messages \in Seq(Msg) /\ lastOutput \in Nat /\ LatestText(lastOutput, messages)
      BY <3>2 DEF TypeOK, OutputFollows
    <3>4. messages' = Append(messages, m)
      BY <3>1, <3>2, <3>3
    <3>5. LatestText(lastOutput', messages')
      BY <3>1, <3>2, <3>3, <3>4, AppendLatest
    <3>. QED
      BY <3>2, <3>5 DEF OutputFollows
  <2>7. ASSUME NEW ok \in BOOLEAN, ExecuteCall(ok) PROVE OutputFollows'
    <3> DEFINE m == Message("tool", <<>>, ok)
    <3>1. m \in Msg /\ (IsText(m) <=> ok)
      BY EmptyMessageType, WhichAreTexts, EmptySeq DEF Roles
    <3>2. /\ pc = "calls" /\ messages' = Append(messages, m)
          /\ lastOutput' = IF ok THEN Len(messages) + 1 ELSE lastOutput
          /\ pc' \in {"head", "calls"}
      BY <2>7 DEF ExecuteCall, NextCall, OutputAfter
    <3> HIDE DEF m
    <3>3. messages \in Seq(Msg) /\ lastOutput \in Nat /\ LatestText(lastOutput, messages)
      BY <3>2 DEF TypeOK, OutputFollows
    <3>4. LatestText(lastOutput', messages')
      BY <3>1, <3>2, <3>3, AppendLatest
    <3>. QED
      BY <3>2, <3>4 DEF OutputFollows
  <2>8. CASE UNCHANGED vars
    BY <2>8 DEF OutputFollows, vars
  <2>. QED
    BY <2>1, <2>2, <2>3, <2>4, <2>5, <2>6, <2>7, <2>8 DEF Next
<1>3. TypeOK /\ OutputFollows => OutputIsLatest
  <2> DEFINE texts == {i \in DOMAIN messages : IsText(messages[i])}
  <2>1. SUFFICES ASSUME TypeOK, LatestText(result.output, messages)
                 PROVE  IF texts = {} THEN result.output = 0
                        ELSE result.output \in texts /\ \A i \in texts : i <= result.output
    BY DEF OutputFollows, OutputIsLatest, IsText
  <2>2. \A i \in DOMAIN messages : i \in Nat /\ i > 0
    BY <2>1 DEF TypeOK
  <2>. QED
    BY <2>1, <2>2 DEF LatestText
<1>. QED
  BY <1>1, <1>2, <1>3, TypeCorrect, PTL DEF Spec

-----------------------------------------------------------------------------
(***************************************************************************)
(* The answers to the calls, where f are the tools in scope, s is the      *)
(* conversation and todo the calls still to handle                         *)
(***************************************************************************)
AnswerRole(f, call) == IF call \in f THEN "tool" ELSE "user"

\* The messages after the reply s[i] answer its first n calls.
Answered(f, s, i, n) ==
  /\ i + n <= Len(s)
  /\ \A k \in 1 .. n : s[i + k].role = AnswerRole(f, s[i].calls[k])

\* The calls of s[i] are answered, and another reply follows.
Settled(f, s, i) ==
  /\ Answered(f, s, i, Len(s[i].calls))
  /\ i + Len(s[i].calls) + 1 <= Len(s)
  /\ s[i + Len(s[i].calls) + 1].role = "assistant"

\* The calls of s[i] are answered, and nothing follows.
AnsweredLast(f, s, i) ==
  /\ Answered(f, s, i, Len(s[i].calls))
  /\ i + Len(s[i].calls) = Len(s)

\* s[p] is the last reply, answered up to the calls still to handle; the other
\* replies are settled.
Handling(f, s, todo, p) ==
  /\ s[p].role = "assistant"
  /\ Answered(f, s, p, Len(s) - p)
  /\ Len(s) - p + Len(todo) = Len(s[p].calls)
  /\ \A k \in 1 .. Len(todo) : todo[k] = s[p].calls[Len(s) - p + k]
  /\ \A i \in DOMAIN s : i # p /\ s[i].role = "assistant" => Settled(f, s, i)

AllAnswered(f, s) ==
  \A i \in DOMAIN s :
    s[i].role = "assistant" => Settled(f, s, i) \/ AnsweredLast(f, s, i)

AnswersKept ==
  /\ pc = "calls" => \E p \in DOMAIN messages : Handling(filtered, messages, toolCalls, p)
  /\ pc = "head" => AllAnswered(filtered, messages)

\* What a message of the conversation is made of.
LEMMA MessagesOf ==
  ASSUME NEW s \in Seq(Msg), NEW i \in DOMAIN s
  PROVE  /\ Len(s) \in Nat /\ i \in 1 .. Len(s) /\ DOMAIN s = 1 .. Len(s)
         /\ s[i].calls \in Seq(Tools) /\ Len(s[i].calls) \in Nat
         /\ DOMAIN s[i].calls = 1 .. Len(s[i].calls)
<1>1. s[i] \in Msg
  OBVIOUS
<1>2. s[i].calls \in Seq(Tools)
  BY <1>1 DEF Msg
<1>. QED
  BY <1>2

\* What a message added to the conversation changes.
LEMMA AppendMessage ==
  ASSUME NEW s \in Seq(Msg), NEW m \in Msg
  PROVE  /\ Append(s, m) \in Seq(Msg) /\ Len(s) \in Nat
         /\ Len(Append(s, m)) = Len(s) + 1 /\ Append(s, m)[Len(s) + 1] = m
         /\ DOMAIN s = 1 .. Len(s) /\ DOMAIN Append(s, m) = 1 .. Len(s) + 1
         /\ \A i \in 1 .. Len(s) : Append(s, m)[i] = s[i]
OBVIOUS

\* What a message added to the conversation leaves alone, and what a reply added
\* to it settles.
LEMMA AppendAnswered ==
  ASSUME NEW f, NEW s \in Seq(Msg), NEW m \in Msg, NEW i \in DOMAIN s
  PROVE  /\ \A n \in Nat : Answered(f, s, i, n) => Answered(f, Append(s, m), i, n)
         /\ Settled(f, s, i) => Settled(f, Append(s, m), i)
         /\ m.role = "assistant" /\ AnsweredLast(f, s, i) => Settled(f, Append(s, m), i)
<1> DEFINE t == Append(s, m)
           last == i + Len(s[i].calls)
<1>1. /\ Len(s) \in Nat /\ i \in 1 .. Len(s) /\ Len(t) = Len(s) + 1
      /\ t[Len(s) + 1] = m /\ \A j \in 1 .. Len(s) : t[j] = s[j]
  BY AppendMessage, MessagesOf
<1>2. Len(s[i].calls) \in Nat /\ t[i] = s[i] /\ last \in Nat
  BY <1>1, MessagesOf
<1>a. last = i + Len(s[i].calls)
  OBVIOUS
<1> HIDE DEF t, last
<1>3. ASSUME NEW n \in Nat, Answered(f, s, i, n) PROVE Answered(f, t, i, n)
  <2>1. \A k \in 1 .. n : i + k \in 1 .. Len(s)
    BY <1>1, <1>3 DEF Answered
  <2>2. i + n <= Len(t)
    BY <1>1, <1>3 DEF Answered
  <2>3. ASSUME NEW k \in 1 .. n PROVE t[i + k].role = AnswerRole(f, t[i].calls[k])
    <3>1. s[i + k].role = AnswerRole(f, s[i].calls[k])
      BY <1>3 DEF Answered
    <3>2. t[i + k] = s[i + k]
      BY <1>1, <2>1
    <3>. QED
      BY <1>2, <3>1, <3>2
  <2>. QED
    BY <2>2, <2>3 DEF Answered
<1>4. ASSUME Settled(f, s, i) PROVE Settled(f, t, i)
  <2>1. Answered(f, s, i, Len(s[i].calls)) /\ last + 1 <= Len(s)
        /\ s[last + 1].role = "assistant"
    BY <1>4, <1>a DEF Settled
  <2>2. last + 1 \in 1 .. Len(s)
    BY <1>1, <1>2, <2>1
  <2>3. t[last + 1].role = "assistant" /\ last + 1 <= Len(t)
    BY <1>1, <2>1, <2>2
  <2>. QED
    BY <1>2, <1>3, <1>a, <2>1, <2>3 DEF Settled
<1>5. ASSUME m.role = "assistant", AnsweredLast(f, s, i) PROVE Settled(f, t, i)
  <2>1. Answered(f, s, i, Len(s[i].calls)) /\ last = Len(s)
    BY <1>5, <1>a DEF AnsweredLast
  <2>2. last + 1 = Len(s) + 1 /\ last + 1 <= Len(t)
    BY <1>1, <2>1
  <2>3. t[last + 1] = m
    <3>1. t[Len(s) + 1] = m
      BY <1>1
    <3>. QED
      BY <2>2, <3>1
  <2>4. t[last + 1].role = "assistant"
    BY <1>5, <2>3
  <2>. QED
    BY <1>2, <1>3, <1>a, <2>1, <2>2, <2>4 DEF Settled
<1>. QED
  BY <1>3, <1>4, <1>5 DEF t

\* The next call of a reply is answered by the message added.
LEMMA AnswerNext ==
  ASSUME NEW f, NEW s \in Seq(Msg), NEW m \in Msg, NEW p \in DOMAIN s,
         Answered(f, s, p, Len(s) - p),
         m.role = AnswerRole(f, s[p].calls[Len(s) - p + 1])
  PROVE  Answered(f, Append(s, m), p, Len(s) - p + 1)
<1> DEFINE t == Append(s, m)
           n == Len(s) - p
<1>1. /\ Len(s) \in Nat /\ p \in 1 .. Len(s) /\ Len(t) = Len(s) + 1
      /\ t[Len(s) + 1] = m /\ t[p] = s[p] /\ n \in Nat
  BY AppendMessage, MessagesOf
<1>2. Answered(f, t, p, n)
  BY <1>1, AppendAnswered
<1> HIDE DEF t
<1>3. ASSUME NEW k \in 1 .. n + 1 PROVE t[p + k].role = AnswerRole(f, t[p].calls[k])
  <2>1. CASE k = n + 1
    <3>1. p + k = Len(s) + 1
      BY <1>1, <2>1
    <3>. QED
      BY <1>1, <2>1, <3>1
  <2>2. CASE k # n + 1
    <3>1. k \in 1 .. n
      BY <1>1, <2>2
    <3>. QED
      BY <1>2, <3>1 DEF Answered
  <2>. QED
    BY <2>1, <2>2
<1>4. p + (n + 1) <= Len(t)
  BY <1>1
<1>5. Answered(f, t, p, n + 1)
  BY <1>3, <1>4 DEF Answered
<1>. QED
  BY <1>5 DEF t

\* An answer to the call at hand leaves the rest of the calls, or none.
LEMMA AnswerHandled ==
  ASSUME NEW f, NEW s \in Seq(Msg), NEW todo \in Seq(Tools), todo # <<>>,
         NEW p \in DOMAIN s, Handling(f, s, todo, p),
         NEW m \in Msg, m.role = AnswerRole(f, Head(todo))
  PROVE  /\ p \in DOMAIN Append(s, m)
         /\ Len(todo) = 1 => AllAnswered(f, Append(s, m))
         /\ Len(todo) # 1 => Handling(f, Append(s, m), Tail(todo), p)
<1> DEFINE t == Append(s, m)
           n == Len(s) - p
           calls == s[p].calls
<1>1. /\ Len(s) \in Nat /\ p \in 1 .. Len(s) /\ Len(t) = Len(s) + 1
      /\ t[Len(s) + 1] = m /\ t[p] = s[p] /\ n \in Nat /\ t \in Seq(Msg)
      /\ DOMAIN t = 1 .. Len(s) + 1 /\ DOMAIN s = 1 .. Len(s)
      /\ \A i \in 1 .. Len(s) : t[i] = s[i]
  BY AppendMessage, MessagesOf
<1>2. /\ Len(todo) \in Nat \ {0} /\ Head(todo) = todo[1] /\ Len(Tail(todo)) = Len(todo) - 1
      /\ \A k \in 1 .. Len(todo) - 1 : Tail(todo)[k] = todo[k + 1]
  BY EmptySeq
<1>3. /\ s[p].role = "assistant" /\ Answered(f, s, p, n) /\ n + Len(todo) = Len(calls)
      /\ \A k \in 1 .. Len(todo) : todo[k] = calls[n + k]
      /\ \A i \in DOMAIN s : i # p /\ s[i].role = "assistant" => Settled(f, s, i)
  BY DEF Handling
<1>4. Answered(f, t, p, n + 1)
  <2>1. m.role = AnswerRole(f, calls[n + 1])
    BY <1>2, <1>3
  <2>. QED
    BY <1>3, <2>1, AnswerNext
<1>5. ASSUME NEW i \in DOMAIN t, i # p, t[i].role = "assistant"
      PROVE  Settled(f, t, i)
  <2>1. i # Len(s) + 1
    BY <1>1, <1>5 DEF AnswerRole
  <2>2. i \in DOMAIN s /\ s[i].role = "assistant"
    BY <1>1, <1>5, <2>1
  <2>. QED
    BY <1>3, <1>5, <2>2, AppendAnswered
<1> HIDE DEF t
<1>6. ASSUME Len(todo) = 1 PROVE AllAnswered(f, t)
  <2>1. n + 1 = Len(t[p].calls) /\ p + (n + 1) = Len(t)
    BY <1>1, <1>3, <1>6
  <2>2. AnsweredLast(f, t, p)
    BY <1>4, <2>1 DEF AnsweredLast
  <2>. QED
    BY <1>5, <2>2 DEF AllAnswered
<1>7. ASSUME Len(todo) # 1 PROVE Handling(f, t, Tail(todo), p)
  <2>1. Len(t) - p = n + 1 /\ n + 1 + Len(Tail(todo)) = Len(t[p].calls)
    BY <1>1, <1>2, <1>3
  <2>2. ASSUME NEW k \in 1 .. Len(Tail(todo)) PROVE Tail(todo)[k] = t[p].calls[n + 1 + k]
    <3>1. k + 1 \in 1 .. Len(todo) /\ n + (k + 1) = n + 1 + k
      BY <1>1, <1>2
    <3>2. Tail(todo)[k] = todo[k + 1] /\ todo[k + 1] = calls[n + (k + 1)]
      BY <1>2, <1>3, <3>1
    <3>. QED
      BY <1>1, <3>1, <3>2
  <2>. QED
    BY <1>1, <1>3, <1>4, <1>5, <2>1, <2>2 DEF Handling
<1>. QED
  BY <1>1, <1>6, <1>7 DEF t

\* The answer of the next call keeps the calls before it answered.
LEMMA AnswerStep ==
  ASSUME TypeOK, AnswersKept, pc = "calls", NextCall, filtered' = filtered,
         NEW m \in Msg, m.role = AnswerRole(filtered, Head(toolCalls)),
         messages' = Append(messages, m)
  PROVE  AnswersKept'
<1>1. messages \in Seq(Msg) /\ toolCalls \in Seq(Tools) /\ toolCalls # <<>>
  BY DEF TypeOK
<1>2. PICK p \in DOMAIN messages : Handling(filtered, messages, toolCalls, p)
  BY DEF AnswersKept
<1>3. toolCalls' = Tail(toolCalls)
  BY DEF NextCall
<1>4. CASE Len(toolCalls) = 1
  <2>1. pc' = "head" /\ AllAnswered(filtered', messages')
    BY <1>1, <1>2, <1>4, AnswerHandled DEF NextCall
  <2>. QED
    BY <2>1 DEF AnswersKept
<1>5. CASE Len(toolCalls) # 1
  <2>1. pc' = "calls" /\ p \in DOMAIN messages'
        /\ Handling(filtered', messages', toolCalls', p)
    BY <1>1, <1>2, <1>3, <1>5, AnswerHandled DEF NextCall
  <2>. QED
    BY <2>1 DEF AnswersKept
<1>. QED
  BY <1>4, <1>5

\* A reply with calls settles the replies before it and has its calls to handle.
LEMMA ReplyHandled ==
  ASSUME NEW f, NEW s \in Seq(Msg), AllAnswered(f, s),
         NEW m \in Msg, m.role = "assistant"
  PROVE  Handling(f, Append(s, m), m.calls, Len(s) + 1)
<1> DEFINE t == Append(s, m)
           p == Len(s) + 1
<1>1. /\ Len(s) \in Nat /\ Len(t) = p /\ t[p] = m /\ p \in DOMAIN t
      /\ t \in Seq(Msg) /\ DOMAIN t = 1 .. Len(s) + 1 /\ DOMAIN s = 1 .. Len(s)
      /\ \A i \in 1 .. Len(s) : t[i] = s[i]
  BY AppendMessage
<1>2. Len(m.calls) \in Nat
  BY <1>1, MessagesOf
<1>3. ASSUME NEW i \in DOMAIN t, i # p, t[i].role = "assistant"
      PROVE  Settled(f, t, i)
  <2>1. i \in DOMAIN s /\ s[i].role = "assistant"
    BY <1>1, <1>3
  <2>2. Settled(f, s, i) \/ AnsweredLast(f, s, i)
    BY <2>1 DEF AllAnswered
  <2>. QED
    BY <2>1, <2>2, AppendAnswered
<1> HIDE DEF t
<1>4. Len(t) - p = 0 /\ \A k \in 1 .. Len(m.calls) : 0 + k = k
  BY <1>1, <1>2
<1>5. Answered(f, t, p, 0)
  BY <1>1 DEF Answered
<1>6. Handling(f, t, m.calls, p)
  BY <1>1, <1>2, <1>3, <1>4, <1>5 DEF Handling
<1>. QED
  BY <1>6 DEF t

\* Whenever the provider is asked, every call of every reply has its answer.
THEOREM AnswersHold == Spec => []EveryCallAnswered
<1> USE DEF Return
<1>1. Init => AnswersKept
  BY DEF Init, AnswersKept
<1>2. TypeOK /\ AnswersKept /\ [Next]_vars => AnswersKept'
  <2> SUFFICES ASSUME TypeOK, AnswersKept, [Next]_vars PROVE AnswersKept'
    OBVIOUS
  <2>1. ASSUME NEW type \in DOMAIN AllowedTools, StartStep(type) PROVE AnswersKept'
    <3>1. /\ messages' = <<Message("system", <<>>, TRUE), Message("user", <<>>, TRUE)>>
          /\ pc' = "head"
      BY <2>1 DEF StartStep
    <3>2. \A i \in DOMAIN messages' : messages'[i].role # "assistant"
      BY <3>1 DEF Message
    <3>. QED
      BY <3>1, <3>2 DEF AnswersKept, AllAnswered
  <2>2. CASE TurnsExhausted \/ GenerationFails \/ ReplyText \/ StepBlocked \/ LimitReached
    BY <2>2 DEF AnswersKept, TurnsExhausted, GenerationFails, ReplyText, StepBlocked,
                LimitReached
  <2>3. ASSUME NEW calls \in CallLists, ReplyCalls(calls) PROVE AnswersKept'
    <3> DEFINE m == Message("assistant", calls, TRUE)
               p == Len(messages) + 1
    <3>1. m \in Msg /\ m.role = "assistant" /\ m.calls = calls
      BY StepConstants, MessageType DEF Roles, Message
    <3>2. /\ pc = "head" /\ messages' = Append(messages, m) /\ pc' = "calls"
          /\ toolCalls' = calls /\ filtered' = filtered
      BY <2>3 DEF ReplyCalls, Reply
    <3> HIDE DEF m
    <3>3. messages \in Seq(Msg) /\ AllAnswered(filtered, messages)
      BY <3>2 DEF TypeOK, AnswersKept
    <3>4. Handling(filtered', messages', toolCalls', p)
      BY <3>1, <3>2, <3>3, ReplyHandled
    <3>5. p \in DOMAIN messages'
      BY <3>1, <3>2, <3>3, AppendMessage
    <3>. QED
      BY <3>2, <3>4, <3>5 DEF AnswersKept
  <2>4. CASE RefuseCall
    <3> DEFINE m == Message("user", <<>>, TRUE)
    <3>1. m \in Msg /\ m.role = "user"
      BY EmptyMessageType DEF Roles, Message
    <3>2. /\ pc = "calls" /\ NextCall /\ filtered' = filtered /\ ~InScope
          /\ messages' = messages \o <<m>>
      BY <2>4 DEF RefuseCall, Refusal
    <3> HIDE DEF m
    <3>3. messages' = Append(messages, m)
      BY <3>1, <3>2 DEF TypeOK
    <3>4. m.role = AnswerRole(filtered, Head(toolCalls))
      BY <3>1, <3>2 DEF AnswerRole, InScope
    <3>. QED
      BY <3>1, <3>2, <3>3, <3>4, AnswerStep
  <2>5. ASSUME NEW ok \in BOOLEAN, ExecuteCall(ok) PROVE AnswersKept'
    <3> DEFINE m == Message("tool", <<>>, ok)
    <3>1. m \in Msg /\ m.role = "tool"
      BY EmptyMessageType DEF Roles, Message
    <3>2. /\ pc = "calls" /\ NextCall /\ filtered' = filtered /\ InScope
          /\ messages' = Append(messages, m)
      BY <2>5 DEF ExecuteCall
    <3> HIDE DEF m
    <3>3. m.role = AnswerRole(filtered, Head(toolCalls))
      BY <3>1, <3>2 DEF AnswerRole, InScope
    <3>. QED
      BY <3>1, <3>2, <3>3, AnswerStep
  <2>6. CASE UNCHANGED vars
    BY <2>6 DEF AnswersKept, vars
  <2>. QED
    BY <2>1, <2>2, <2>3, <2>4, <2>5, <2>6 DEF Next
<1>3. TypeOK /\ AnswersKept => EveryCallAnswered
  <2> SUFFICES ASSUME TypeOK, AnswersKept, pc = "head",
                      NEW i \in DOMAIN messages, messages[i].role = "assistant"
               PROVE  LET calls == messages[i].calls
                          next == i + Len(calls) + 1
                      IN /\ \/ next = Len(messages) + 1
                            \/ next \in DOMAIN messages /\ messages[next].role = "assistant"
                         /\ \A k \in DOMAIN calls :
                              messages[i + k].role
                                = IF calls[k] \in filtered THEN "tool" ELSE "user"
    BY DEF EveryCallAnswered
  <2> DEFINE n == Len(messages[i].calls)
  <2>1. /\ n \in Nat /\ DOMAIN messages[i].calls = 1 .. n /\ i \in 1 .. Len(messages)
        /\ DOMAIN messages = 1 .. Len(messages) /\ Len(messages) \in Nat
    BY MessagesOf DEF TypeOK
  <2>2. Settled(filtered, messages, i) \/ AnsweredLast(filtered, messages, i)
    BY DEF AnswersKept, AllAnswered
  <2>3. \A k \in 1 .. n :
          messages[i + k].role
            = IF messages[i].calls[k] \in filtered THEN "tool" ELSE "user"
    BY <2>2 DEF Settled, AnsweredLast, Answered, AnswerRole
  <2>4. \/ i + n + 1 = Len(messages) + 1
        \/ i + n + 1 \in DOMAIN messages /\ messages[i + n + 1].role = "assistant"
    <3>1. CASE Settled(filtered, messages, i)
      <4>1. i + n + 1 <= Len(messages) /\ messages[i + n + 1].role = "assistant"
        BY <3>1 DEF Settled
      <4>2. i + n + 1 \in DOMAIN messages
        BY <2>1, <4>1
      <4>. QED
        BY <4>1, <4>2
    <3>2. CASE AnsweredLast(filtered, messages, i)
      BY <2>1, <3>2 DEF AnsweredLast
    <3>. QED
      BY <2>2, <3>1, <3>2
  <2>. QED
    BY <2>1, <2>3, <2>4
<1>. QED
  BY <1>1, <1>2, <1>3, TypeCorrect, PTL DEF Spec

=============================================================================
