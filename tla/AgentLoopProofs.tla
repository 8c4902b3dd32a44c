--------------------------- MODULE AgentLoopProofs ---------------------------
(***************************************************************************)
(* Proofs about AgentLoop, for every number of turns, window, price of the *)
(* messages and set of tool calls.                                         *)
(***************************************************************************)
EXTENDS AgentLoop, SequenceTheorems, FiniteSetTheorems, TLAPS

(***************************************************************************)
(* Trimming keeps the first message and the newest ones, unchanged and in  *)
(* order.                                                                  *)
(***************************************************************************)
LEMMA TrimKeepsSuffix ==
  ASSUME NEW h \in Seq(Msg), h # <<>>, NEW max, NEW t \in TrimMessages(h, max)
  PROVE  /\ t \in Seq(Msg)
         /\ Len(t) \in 1 .. Len(h)
         /\ t[1] = h[1]
         /\ \A i \in 2 .. Len(t) : t[i] = h[Len(h) - Len(t) + i]
<1>1. CASE t = h
  BY <1>1
<1>2. CASE t # h
  <2>1. PICK k \in 2 .. Len(h) : t = <<h[1]>> \o SubSeq(h, k, Len(h))
    BY <1>2 DEF TrimMessages, Cutoffs
  <2> DEFINE rest == SubSeq(h, k, Len(h))
  <2>2. /\ rest \in Seq(Msg)
        /\ Len(rest) = Len(h) - k + 1
        /\ \A i \in 1 .. Len(rest) : rest[i] = h[k + i - 1]
    OBVIOUS
  <2>3. h[1] \in Msg
    OBVIOUS
  <2> HIDE DEF rest
  <2>4. /\ t \in Seq(Msg)
        /\ Len(t) = 1 + Len(rest)
        /\ t[1] = h[1]
        /\ \A i \in 2 .. Len(t) : t[i] = rest[i - 1]
    BY <2>1, <2>2, <2>3 DEF rest
  <2>5. \A i \in 2 .. Len(t) : t[i] = h[Len(h) - Len(t) + i]
    <3>1. SUFFICES ASSUME NEW i \in 2 .. Len(t) PROVE t[i] = h[Len(h) - Len(t) + i]
      OBVIOUS
    <3>2. i - 1 \in 1 .. Len(rest) /\ k + (i - 1) - 1 = Len(h) - Len(t) + i
      BY <2>2, <2>4
    <3>. QED
      BY <2>2, <2>4, <3>2
  <2>. QED
    BY <2>2, <2>4, <2>5
<1>. QED
  BY <1>1, <1>2

(***************************************************************************)
(* The messages a call adds are one result and at most one evaluation.     *)
(***************************************************************************)
LEMMA CallMessagesType ==
  ASSUME appended \in Nat, NEW ok \in BOOLEAN, NEW size \in Sizes
  PROVE  /\ CallMessages(ok, size) \in Seq(Msg)
         /\ Len(CallMessages(ok, size)) \in 1 .. 2
         /\ \A i \in 1 .. Len(CallMessages(ok, size)) :
              /\ CallMessages(ok, size)[i].pos = appended + i
              /\ CallMessages(ok, size)[i].kind # "prompt"
<1>1. /\ Message("result", size, appended + 1) \in Msg
      /\ Message("guidance", IF ok THEN "short" ELSE size, appended + 2) \in Msg
  BY DEF Message, Msg, Kinds, Sizes
<1>. QED
  BY <1>1 DEF CallMessages, Message

\* The system prompt is a message.
LEMMA PromptType == Prompt \in Msg
BY DEF Prompt, Msg, Kinds, Sizes

-----------------------------------------------------------------------------
(***************************************************************************)
(* Type correctness                                                        *)
(***************************************************************************)
\* The history, the counters and the pending calls of an exchange keep their types
\* (Agent.Run and its tool calls).
THEOREM TypeCorrect == Spec => []TypeOK
<1> USE AgentConstants
<1>1. Init => TypeOK
  <2> SUFFICES ASSUME Init PROVE TypeOK
    OBVIOUS
  <2>1. history \in Seq(Msg) /\ history # <<>>
    BY PromptType DEF Init
  <2>2. /\ prevCallKey \in Seq(Keys) /\ toolCalls \in Seq(Keys)
        /\ executed \in Seq([key : Seq(Keys), ok : BOOLEAN])
    BY DEF Init
  <2>3. outcome \in [value : Nat, why : Endings]
    BY DEF Init, Endings
  <2>4. prevCallSucceeded \in BOOLEAN /\ turnSucceeded \in BOOLEAN /\ cancelled \in BOOLEAN
    BY Zenon DEF Init
  <2>. QED
    BY <2>1, <2>2, <2>3, <2>4 DEF Init, TypeOK, Labels, RepeatLimit
<1>2. TypeOK /\ [Next]_vars => TypeOK'
  <2> SUFFICES ASSUME TypeOK, [Next]_vars PROVE TypeOK'
    OBVIOUS
  <2>1. ASSUME NEW size \in SizesOf["input"], StartRun(size) PROVE TypeOK'
    <3>1. size \in Sizes
      OBVIOUS
    <3>2. Message("input", size, appended + 1) \in Msg
      BY <3>1 DEF Message, Msg, Kinds, TypeOK
    <3>6. history \in Seq(Msg)
      BY DEF TypeOK
    <3>3. /\ history' = Append(history, Message("input", size, appended + 1))
          /\ prevCallKey' = <<>> /\ executed' = <<>>
      BY <2>1 DEF StartRun, FreshLocals
    <3>4. /\ history' \in Seq(Msg) /\ history' # <<>>
          /\ prevCallKey' \in Seq(Keys)
          /\ executed' \in Seq([key : Seq(Keys), ok : BOOLEAN])
      <4>1. history' \in Seq(Msg) /\ history' # <<>>
        BY <3>2, <3>3, <3>6
      <4>. QED
        BY <3>3, <4>1
    <3>5. prevCallSucceeded' \in BOOLEAN /\ cancelled' \in BOOLEAN
      BY <2>1, Zenon DEF StartRun, FreshLocals
    <3>. QED
      BY <2>1, <3>4, <3>5 DEF TypeOK, StartRun, FreshLocals, Labels, RepeatLimit
  <2>2. CASE ResetHistory
    BY <2>2 DEF TypeOK, ResetHistory, locals, Prompt, Msg, Kinds, Sizes
  <2>3. CASE Cancel
    BY <2>3 DEF TypeOK, Cancel, locals, observed
  <2>4. CASE StopAtHead
    BY <2>4 DEF TypeOK, StopAtHead, Return, ToolResultOr, Labels, Endings, locals, observed
  <2>5. CASE BeginTurn
    <3>1. history' \in Seq(Msg) /\ history' # <<>>
      BY <2>5, TrimKeepsSuffix DEF TypeOK, BeginTurn
    <3>. QED
      BY <2>5, <3>1 DEF TypeOK, BeginTurn, MayTakeTurn, Labels, locals, observed
  <2>6. CASE TimerFires
    BY <2>6 DEF TypeOK, TimerFires, TurnAfterRetry, Labels, locals, observed
  <2>7. CASE SleepCancelled
    BY <2>7 DEF TypeOK, SleepCancelled, Return, Labels, Endings, locals, observed
  <2>8. ASSUME NEW size \in Sizes, AcceptReply(size)
        PROVE  /\ history' \in Seq(Msg) /\ history' # <<>>
               /\ lastResponse' \in Nat /\ appended' \in Nat /\ late' \in Nat
    <3>1. Message("reply", size, appended + 1) \in Msg
      BY DEF Message, Msg, Kinds, TypeOK
    <3>2. history \in Seq(Msg) /\ appended \in Nat /\ late \in Nat
      BY DEF TypeOK
    <3>3. /\ history' = Append(history, Message("reply", size, appended + 1))
          /\ lastResponse' \in {0, appended + 1} /\ appended' = appended + 1
          /\ late' \in {late, late + 1}
      BY <2>8 DEF AcceptReply
    <3>4. history' \in Seq(Msg) /\ history' # <<>>
      BY <3>1, <3>2, <3>3
    <3>. QED
      BY <3>2, <3>3, <3>4
  <2>9. ASSUME NEW size \in SizesOf["text"], ReplyText(size) PROVE TypeOK'
    <3>1. size \in Sizes /\ AcceptReply(size)
      BY <2>9 DEF ReplyText
    <3>. QED
      BY <2>8, <2>9, <3>1 DEF TypeOK, ReplyText, AcceptReply, Return, Labels, Endings
  <2>10. ASSUME NEW calls \in CallLists, NEW size \in SizesOf["call"],
                ReplyRepeated(calls, size)
         PROVE  TypeOK'
    <3>1. size \in Sizes /\ AcceptReply(size)
      BY <2>10 DEF ReplyRepeated
    <3>. QED
      BY <2>8, <2>10, <3>1
      DEF TypeOK, ReplyRepeated, AcceptReply, Return, ToolResultOr, RepeatLimit, Labels,
          Endings
  <2>11. ASSUME NEW calls \in CallLists, NEW size \in SizesOf["call"],
                ReplyCalls(calls, size)
         PROVE  TypeOK'
    <3>1. size \in Sizes /\ AcceptReply(size)
      BY <2>11 DEF ReplyCalls
    <3>2. turnSucceeded' \in BOOLEAN
      BY <2>11, Zenon DEF ReplyCalls
    <3>3. calls \in Seq(Keys) /\ calls # <<>>
      OBVIOUS
    <3>4. repeatCount' \in 0 .. RepeatLimit /\ repeatCount' < RepeatLimit
      BY <2>11 DEF ReplyCalls, RepeatLimit, Repeated, TypeOK
    <3>. QED
      BY <2>8, <2>11, <3>1, <3>2, <3>3, <3>4
      DEF TypeOK, ReplyCalls, AcceptReply, Repeated, RepeatLimit, Labels
  <2>12. ASSUME NEW retryable \in BOOLEAN, GenerationFails(retryable) PROVE TypeOK'
    BY <2>12 DEF TypeOK, GenerationFails, Return, Labels, Endings, locals, observed
  <2>13. ASSUME NEW ok \in BOOLEAN, NEW size \in Sizes, ExecuteCall(ok, size)
         PROVE  TypeOK'
    <3> DEFINE new == CallMessages(ok, size)
    <3>1. new \in Seq(Msg) /\ Len(new) \in 1 .. 2
      BY CallMessagesType DEF TypeOK
    <3> HIDE DEF new
    <3>2. /\ history' = history \o new
          /\ appended' = appended + Len(new)
          /\ userPos' = IF Len(new) = 2 THEN appended + 2 ELSE userPos
      BY <2>13 DEF ExecuteCall, new
    <3>3. history' \in Seq(Msg) /\ history' # <<>> /\ appended' \in Nat /\ userPos' \in Nat
      BY <3>1, <3>2 DEF TypeOK
    <3>4. /\ toolCalls # <<>> /\ toolCalls \in Seq(Keys)
          /\ toolCalls' = Tail(toolCalls)
          /\ pc = "act" /\ pc' = IF Len(toolCalls) = 1 THEN "head" ELSE "act"
          /\ turn' = IF Len(toolCalls) = 1 THEN turn + 1 ELSE turn
      BY <2>13 DEF ExecuteCall, TypeOK
    <3>5. /\ toolCalls' \in Seq(Keys) /\ (pc' = "act" => toolCalls' # <<>>)
          /\ turn' \in 0 .. MaxTurns /\ (pc' \notin {"idle", "head"} => turn' < MaxTurns)
          /\ pc' \in Labels /\ repeatCount < RepeatLimit
      <4>1. Len(toolCalls) # 1 => Tail(toolCalls) # <<>>
        <5>1. Len(toolCalls) # 1 => Len(Tail(toolCalls)) # 0
          BY <3>4
        <5>. QED
          BY <5>1, <3>4, EmptySeq
      <4>2. Tail(toolCalls) \in Seq(Keys)
        BY <3>4
      <4>3. turn \in Nat /\ turn < MaxTurns /\ MaxTurns \in Nat /\ repeatCount < RepeatLimit
        BY <3>4 DEF TypeOK
      <4>4. CASE Len(toolCalls) = 1
        BY <3>4, <4>2, <4>3, <4>4 DEF Labels
      <4>5. CASE Len(toolCalls) # 1
        BY <3>4, <4>1, <4>2, <4>3, <4>5 DEF Labels
      <4>. QED
        BY <4>4, <4>5
    <3>6. /\ lastToolResult' \in Nat
          /\ turnSucceeded' \in BOOLEAN /\ prevCallSucceeded' \in BOOLEAN
      <4>1. turnSucceeded' = (turnSucceeded /\ ok)
        BY <2>13 DEF ExecuteCall
      <4>2. turnSucceeded' \in BOOLEAN
        BY <4>1, Zenon
      <4>3. \/ prevCallSucceeded' = turnSucceeded'
            \/ prevCallSucceeded' = prevCallSucceeded
        BY <2>13, Zenon DEF ExecuteCall
      <4>4. prevCallSucceeded \in BOOLEAN
        BY DEF TypeOK
      <4>5. lastToolResult' \in Nat
        BY <2>13 DEF ExecuteCall, TypeOK
      <4>. QED
        BY <4>2, <4>3, <4>4, <4>5
    <3>7. executed' \in Seq([key : Seq(Keys), ok : BOOLEAN])
      <4> DEFINE entry == [key |-> prevCallKey, ok |-> turnSucceeded']
      <4>1. entry \in [key : Seq(Keys), ok : BOOLEAN]
        BY <3>6 DEF TypeOK
      <4>2. executed' = executed \/ executed' = Append(executed, entry)
        BY <2>13 DEF ExecuteCall
      <4> HIDE DEF entry
      <4>. QED
        <5>1. executed \in Seq([key : Seq(Keys), ok : BOOLEAN])
          BY DEF TypeOK
        <5> DEFINE T == [key : Seq(Keys), ok : BOOLEAN]
        <5> HIDE DEF T
        <5>2. entry \in T /\ executed \in Seq(T)
          BY <4>1, <5>1 DEF T
        <5>3. executed' \in Seq(T)
          BY <4>2, <5>2
        <5>. QED
          BY <5>3 DEF T
    <3>8. UNCHANGED <<lastResponse, prevCallKey, repeatCount, cancelled, outcome, runs,
                      inputPos, late>>
      BY <2>13 DEF ExecuteCall
    <3>. QED
      BY <3>3, <3>5, <3>6, <3>7, <3>8 DEF TypeOK
  <2>14. CASE UNCHANGED vars
    BY <2>14 DEF TypeOK, vars, locals, observed
  <2>15. "short" \in Sizes /\ TRUE \in BOOLEAN /\ FALSE \in BOOLEAN
         /\ SizesOf["output"] \cup SizesOf["error"] \subseteq Sizes
    BY DEF Sizes
  <2>. QED
    BY <2>1, <2>2, <2>3, <2>4, <2>5, <2>6, <2>7, <2>9, <2>10, <2>11, <2>12, <2>13, <2>14,
       <2>15 DEF Next, LoopStep
<1>. QED
  BY <1>1, <1>2, PTL DEF Spec

-----------------------------------------------------------------------------
(***************************************************************************)
(* The history is the prompt and the newest messages, without a gap: a     *)
(* trim keeps a suffix, and whatever is appended gets the next position.   *)
(***************************************************************************)
LEMMA AppendKeepsSuffix ==
  ASSUME TypeOK, HistoryIsSuffix, NEW new \in Seq(Msg), history' = history \o new,
         appended' = appended + Len(new),
         \A i \in 1 .. Len(new) : new[i].pos = appended + i /\ new[i].kind # "prompt"
  PROVE  HistoryIsSuffix'
<1>1. history \in Seq(Msg) /\ Len(history) \in Nat \ {0} /\ appended \in Nat
  BY EmptySeq DEF TypeOK
<1>2. /\ Len(history') = Len(history) + Len(new)
      /\ \A i \in 1 .. Len(history) : history'[i] = history[i]
      /\ \A i \in Len(history) + 1 .. Len(history') : history'[i] = new[i - Len(history)]
  BY <1>1
<1>3. history'[1] = Prompt
  BY <1>1, <1>2 DEF HistoryIsSuffix
<1>4. ASSUME NEW i \in 2 .. Len(history')
      PROVE  /\ history'[i].kind # "prompt"
             /\ history'[i].pos = appended' - Len(history') + i
  <2>1. CASE i <= Len(history)
    <3>1. history'[i] = history[i] /\ i \in 2 .. Len(history)
      BY <1>1, <1>2, <2>1
    <3>. QED
      BY <1>1, <1>2, <3>1 DEF HistoryIsSuffix
  <2>2. CASE i > Len(history)
    <3>1. history'[i] = new[i - Len(history)] /\ i - Len(history) \in 1 .. Len(new)
      BY <1>1, <1>2, <2>2
    <3>. QED
      BY <1>1, <1>2, <3>1
  <2>. QED
    BY <1>1, <2>1, <2>2
<1>. QED
  BY <1>3, <1>4 DEF HistoryIsSuffix

\* One message with the next position is such an extension.
LEMMA AppendOne ==
  ASSUME TypeOK, HistoryIsSuffix, NEW kind \in Kinds \ {"prompt"}, NEW size \in Sizes,
         history' = Append(history, Message(kind, size, appended + 1)),
         appended' = appended + 1
  PROVE  HistoryIsSuffix'
<1> DEFINE m == Message(kind, size, appended + 1)
<1>1. m \in Msg /\ m.pos = appended + 1 /\ m.kind # "prompt"
  BY DEF Message, Msg, TypeOK
<1>2. history \in Seq(Msg) /\ appended \in Nat
  BY DEF TypeOK
<1> HIDE DEF m
<1>3. <<m>> \in Seq(Msg) /\ Len(<<m>>) = 1 /\ <<m>>[1] = m /\ history \o <<m>> = Append(history, m)
  BY <1>1, <1>2
<1>4. history' = history \o <<m>> /\ appended' = appended + Len(<<m>>)
  BY <1>3 DEF m
<1>5. \A i \in 1 .. Len(<<m>>) :
        <<m>>[i].pos = appended + i /\ <<m>>[i].kind # "prompt"
  <2>1. \A i \in 1 .. Len(<<m>>) : i = 1 /\ <<m>>[i] = m
    BY <1>3
  <2>. QED
    BY <1>1, <2>1
<1> DEFINE new == <<m>>
<1>6. new \in Seq(Msg) /\ history' = history \o new /\ appended' = appended + Len(new)
  BY <1>3, <1>4
<1>7. \A i \in 1 .. Len(new) : new[i].pos = appended + i /\ new[i].kind # "prompt"
  BY <1>5
<1> HIDE DEF new
<1>. QED
  BY <1>6, <1>7, AppendKeepsSuffix

\* Whatever the turns, trims, retries and cancellations of a Run, and across
\* Runs, the history is the prompt and an unbroken run of the newest messages.
THEOREM HistorySuffix == Spec => []HistoryIsSuffix
<1> USE AgentConstants
<1>1. Init => HistoryIsSuffix
  BY DEF Init, HistoryIsSuffix
<1>2. TypeOK /\ HistoryIsSuffix /\ [Next]_vars => HistoryIsSuffix'
  <2> SUFFICES ASSUME TypeOK, HistoryIsSuffix, [Next]_vars PROVE HistoryIsSuffix'
    OBVIOUS
  <2>1. ASSUME NEW size \in SizesOf["input"], StartRun(size) PROVE HistoryIsSuffix'
    <3>1. size \in Sizes /\ "input" \in Kinds \ {"prompt"}
      BY DEF Kinds
    <3>. QED
      BY <2>1, <3>1, AppendOne DEF StartRun
  <2>2. CASE ResetHistory
    BY <2>2 DEF ResetHistory, HistoryIsSuffix
  <2>3. CASE BeginTurn
    <3> HIDE AgentConstants
    <3>1. history' \in TrimMessages(history, HistoryTokens) /\ appended' = appended
      BY <2>3 DEF BeginTurn, observed
    <3>2. history \in Seq(Msg) /\ history # <<>> /\ appended \in Nat
      BY DEF TypeOK
    <3>3. /\ Len(history') \in 1 .. Len(history)
          /\ history'[1] = history[1]
          /\ \A i \in 2 .. Len(history') :
               history'[i] = history[Len(history) - Len(history') + i]
      BY <3>1, <3>2, TrimKeepsSuffix
    <3>4. ASSUME NEW i \in 2 .. Len(history')
          PROVE  /\ history'[i].kind # "prompt"
                 /\ history'[i].pos = appended' - Len(history') + i
      <4>1. Len(history) - Len(history') + i \in 2 .. Len(history)
        BY <3>2, <3>3
      <4>. QED
        BY <3>1, <3>2, <3>3, <4>1 DEF HistoryIsSuffix
    <3>. QED
      BY <3>3, <3>4 DEF HistoryIsSuffix
  <2>4. ASSUME NEW size \in Sizes, AcceptReply(size) PROVE HistoryIsSuffix'
    <3>1. "reply" \in Kinds \ {"prompt"}
      BY DEF Kinds
    <3>. QED
      BY <2>4, <3>1, AppendOne DEF AcceptReply
  <2>5. ASSUME NEW ok \in BOOLEAN, NEW size \in Sizes, ExecuteCall(ok, size)
        PROVE  HistoryIsSuffix'
    <3> DEFINE new == CallMessages(ok, size)
    <3>1. /\ new \in Seq(Msg)
          /\ \A i \in 1 .. Len(new) : new[i].pos = appended + i /\ new[i].kind # "prompt"
      BY CallMessagesType DEF TypeOK
    <3>2. history' = history \o new /\ appended' = appended + Len(new)
      BY <2>5 DEF ExecuteCall
    <3> HIDE DEF new
    <3>. QED
      BY <3>1, <3>2, AppendKeepsSuffix
  <2>6. CASE UNCHANGED <<history, appended>>
    BY <2>6 DEF HistoryIsSuffix
  <2>. QED
    <3>1. Cancel \/ StopAtHead \/ TimerFires \/ SleepCancelled \/ UNCHANGED vars
            => UNCHANGED <<history, appended>>
      BY DEF Cancel, StopAtHead, TimerFires, SleepCancelled, vars, observed
    <3>2. \A retryable \in BOOLEAN : GenerationFails(retryable) => UNCHANGED <<history, appended>>
      BY DEF GenerationFails, observed
    <3>3. /\ \A size \in SizesOf["text"] : ReplyText(size) => size \in Sizes /\ AcceptReply(size)
          /\ \A calls \in CallLists, size \in SizesOf["call"] :
               ReplyRepeated(calls, size) \/ ReplyCalls(calls, size)
                 => size \in Sizes /\ AcceptReply(size)
      BY DEF ReplyText, ReplyRepeated, ReplyCalls
    <3>4. SizesOf["output"] \cup SizesOf["error"] \subseteq Sizes
      BY DEF Sizes
    <3>. QED
      BY <2>1, <2>2, <2>3, <2>4, <2>5, <2>6, <3>1, <3>2, <3>3, <3>4 DEF Next, LoopStep
<1>. QED
  BY <1>1, <1>2, TypeCorrect, PTL DEF Spec

-----------------------------------------------------------------------------
(***************************************************************************)
(* The repeat detection                                                    *)
(***************************************************************************)
\* What the code does, exactly: the third turn is not executed any more.
NoThirdIdenticalTurn ==
  \A i \in 1 .. Len(executed) - 2 :
    ~ /\ executed[i].key = executed[i + 1].key
      /\ executed[i + 1].key = executed[i + 2].key
      /\ executed[i].ok /\ executed[i + 1].ok

\* Between two turns prevCallKey and prevCallSucceeded are about the last executed
\* turn, and the counter says whether the one before it was the same; while calls
\* are executed it says whether this turn repeats the last one, which then was no
\* repetition itself.
RepeatMemory ==
  LET n == Len(executed)
      twice == n >= 2 /\ executed[n - 1].key = executed[n].key /\ executed[n - 1].ok
      again == n >= 1 /\ executed[n].key = prevCallKey /\ executed[n].ok
  IN /\ pc \in {"head", "pause", "generate", "backoff"} =>
          /\ n = 0 => prevCallKey = <<>>
          /\ n >= 1 => executed[n] = [key |-> prevCallKey, ok |-> prevCallSucceeded]
          /\ repeatCount >= 1 <=> twice
     /\ pc = "act" =>
          /\ repeatCount >= 1 <=> again
          /\ again => ~twice

RepeatsAreKnown == RepeatMemory /\ NoThirdIdenticalTurn /\ OnlyLoopsAreBroken

\* Appending the turn just executed: the counted repetitions say that it is no
\* third one.
LEMMA RepeatStep ==
  ASSUME TypeOK, RepeatsAreKnown, NEW ok \in BOOLEAN, NEW size \in Sizes,
         ExecuteCall(ok, size)
  PROVE  RepeatsAreKnown'
<1> DEFINE entry == [key |-> prevCallKey, ok |-> turnSucceeded']
           T == [key : Seq(Keys), ok : BOOLEAN]
           n == Len(executed)
<1>1. pc = "act" /\ prevCallKey' = prevCallKey /\ repeatCount' = repeatCount
  BY DEF ExecuteCall
<1>2. CASE Len(toolCalls) # 1
  <2>1. pc' = "act" /\ executed' = executed
    BY <1>2 DEF ExecuteCall
  <2>. QED
    BY <1>1, <2>1 DEF RepeatsAreKnown, RepeatMemory, NoThirdIdenticalTurn, OnlyLoopsAreBroken
<1>3. CASE Len(toolCalls) = 1
  <2>1. /\ pc' = "head" /\ executed' = Append(executed, entry)
        /\ prevCallSucceeded' = turnSucceeded'
    BY <1>3 DEF ExecuteCall
  <2>2. executed \in Seq(T) /\ n \in Nat
    BY DEF TypeOK
  <2>3. entry.key = prevCallKey /\ entry.ok = turnSucceeded'
    OBVIOUS
  <2>4. /\ repeatCount >= 1 <=> n >= 1 /\ executed[n].key = prevCallKey /\ executed[n].ok
        /\ n >= 1 /\ executed[n].key = prevCallKey /\ executed[n].ok =>
             ~(n >= 2 /\ executed[n - 1].key = executed[n].key /\ executed[n - 1].ok)
    BY <1>1 DEF RepeatsAreKnown, RepeatMemory
  <2> HIDE DEF entry
  <2>5. /\ Len(executed') = n + 1 /\ executed'[n + 1] = entry
        /\ \A i \in 1 .. n : executed'[i] = executed[i]
    BY <2>1, <2>2
  <2>6. RepeatMemory'
    <3>1. executed'[Len(executed')] = [key |-> prevCallKey', ok |-> prevCallSucceeded']
      BY <1>1, <2>1, <2>5 DEF entry
    <3>2. repeatCount' >= 1 <=>
            /\ Len(executed') >= 2
            /\ executed'[Len(executed') - 1].key = executed'[Len(executed')].key
            /\ executed'[Len(executed') - 1].ok
      <4>1. n >= 1 => /\ executed'[Len(executed') - 1] = executed[n]
                      /\ executed'[Len(executed')].key = prevCallKey
        BY <2>2, <2>3, <2>5
      <4>2. Len(executed') >= 2 <=> n >= 1
        BY <2>2, <2>5
      <4>. QED
        BY <1>1, <2>4, <4>1, <4>2
    <3>3. Len(executed') # 0
      BY <2>2, <2>5
    <3>. QED
      BY <2>1, <3>1, <3>2, <3>3 DEF RepeatMemory
  <2>7. NoThirdIdenticalTurn'
    <3>1. ASSUME NEW i \in 1 .. Len(executed') - 2,
                 executed'[i].key = executed'[i + 1].key,
                 executed'[i + 1].key = executed'[i + 2].key,
                 executed'[i].ok, executed'[i + 1].ok
          PROVE  FALSE
      <4>1. CASE i + 2 = n + 1
        <5>1. /\ n >= 2 /\ executed'[i] = executed[n - 1] /\ executed'[i + 1] = executed[n]
              /\ executed'[i + 2] = entry
          BY <2>2, <2>5, <4>1
        <5>. QED
          BY <2>2, <2>3, <2>4, <3>1, <5>1
      <4>2. CASE i + 2 <= n
        <5>1. /\ i \in 1 .. n - 2 /\ executed'[i] = executed[i]
              /\ executed'[i + 1] = executed[i + 1] /\ executed'[i + 2] = executed[i + 2]
          BY <2>2, <2>5, <4>2
        <5>. QED
          BY <3>1, <5>1 DEF RepeatsAreKnown, NoThirdIdenticalTurn
      <4>. QED
        BY <2>2, <2>5, <4>1, <4>2
    <3>. QED
      BY <3>1 DEF NoThirdIdenticalTurn
  <2>. QED
    BY <2>1, <2>6, <2>7 DEF RepeatsAreKnown, OnlyLoopsAreBroken
<1>. QED
  BY <1>2, <1>3

\* A reply that is taken for a repetition comes after two turns that were the same
\* and succeeded.
LEMMA BrokenAfterTwo ==
  ASSUME TypeOK, RepeatMemory, NEW calls \in CallLists, NEW size,
         ReplyRepeated(calls, size)
  PROVE  /\ pc' = "idle" /\ executed' = executed
         /\ Len(executed) >= 2 /\ Identical(Len(executed) - 1, Len(executed))
<1> DEFINE n == Len(executed)
<1>1. /\ pc = "generate" /\ pc' = "idle" /\ executed' = executed
      /\ Repeated(calls) /\ repeatCount + 1 >= RepeatLimit
  BY DEF ReplyRepeated, AcceptReply, Return
<1>2. prevCallSucceeded = TRUE /\ repeatCount \in Nat /\ repeatCount >= 1 /\ n \in Nat
  BY <1>1 DEF Repeated, RepeatLimit, TypeOK
<1>3. /\ n >= 2 /\ executed[n - 1].key = executed[n].key /\ executed[n - 1].ok
      /\ executed[n] = [key |-> prevCallKey, ok |-> prevCallSucceeded]
  BY <1>1, <1>2 DEF RepeatMemory
<1>4. \A k \in n - 1 .. n : k = n - 1 \/ k = n
  BY <1>2
<1>. QED
  BY <1>1, <1>2, <1>3, <1>4 DEF Identical

\* The variables of the repeat detection and the turns that were executed agree.
THEOREM RepeatsKnown == Spec => []RepeatsAreKnown
<1> USE AgentConstants
<1>1. Init => RepeatsAreKnown
  BY DEF Init, RepeatsAreKnown, RepeatMemory, NoThirdIdenticalTurn, OnlyLoopsAreBroken
<1>2. TypeOK /\ RepeatsAreKnown /\ [Next]_vars => RepeatsAreKnown'
  <2> SUFFICES ASSUME TypeOK, RepeatsAreKnown, [Next]_vars PROVE RepeatsAreKnown'
    OBVIOUS
  <2>1. ASSUME NEW size \in SizesOf["input"], StartRun(size) PROVE RepeatsAreKnown'
    <3>1. executed' = <<>> /\ pc' = "head" /\ prevCallKey' = <<>> /\ repeatCount' = 0
      BY <2>1 DEF StartRun, FreshLocals
    <3>. QED
      BY <3>1 DEF RepeatsAreKnown, RepeatMemory, NoThirdIdenticalTurn, OnlyLoopsAreBroken
  <2>2. ASSUME UNCHANGED <<executed, prevCallKey, prevCallSucceeded, repeatCount>>,
               \/ pc' = pc /\ outcome' = outcome
               \/ {pc, pc'} \subseteq {"head", "pause", "generate", "backoff"}
        PROVE  RepeatsAreKnown'
    <3>1. RepeatMemory' /\ NoThirdIdenticalTurn'
      BY <2>2 DEF RepeatsAreKnown, RepeatMemory, NoThirdIdenticalTurn
    <3>2. OnlyLoopsAreBroken'
      BY <2>2 DEF RepeatsAreKnown, OnlyLoopsAreBroken, Identical
    <3>. QED
      BY <3>1, <3>2 DEF RepeatsAreKnown
  <2>3. ASSUME UNCHANGED executed, pc' = "idle", outcome'.why # "repeat"
        PROVE  RepeatsAreKnown'
    BY <2>3 DEF RepeatsAreKnown, RepeatMemory, NoThirdIdenticalTurn, OnlyLoopsAreBroken
  <2>4. ASSUME NEW calls \in CallLists, NEW size \in SizesOf["call"],
               ReplyCalls(calls, size)
        PROVE  RepeatsAreKnown'
    <3> DEFINE n == Len(executed)
               again == n >= 1 /\ executed[n].key = calls /\ executed[n].ok
    <3>1. /\ pc = "generate" /\ pc' = "act" /\ executed' = executed
          /\ prevCallKey' = calls
          /\ ~(Repeated(calls) /\ repeatCount + 1 >= RepeatLimit)
          /\ repeatCount' = IF Repeated(calls) THEN repeatCount + 1 ELSE 0
      BY <2>4 DEF ReplyCalls, AcceptReply
    <3>2. /\ n = 0 => prevCallKey = <<>>
          /\ n >= 1 => executed[n] = [key |-> prevCallKey, ok |-> prevCallSucceeded]
          /\ repeatCount >= 1 <=>
               n >= 2 /\ executed[n - 1].key = executed[n].key /\ executed[n - 1].ok
      BY <3>1 DEF RepeatsAreKnown, RepeatMemory
    <3>3. n \in Nat /\ repeatCount \in Nat /\ calls # <<>>
      BY DEF TypeOK
    <3>4. again <=> Repeated(calls)
      BY <3>2, <3>3 DEF Repeated
    <3>5. repeatCount' >= 1 <=> Repeated(calls)
      BY <3>1, <3>3
    <3>6. Repeated(calls) => ~(repeatCount >= 1)
      BY <3>1, <3>3 DEF RepeatLimit
    <3>7. RepeatMemory'
      BY <3>1, <3>2, <3>4, <3>5, <3>6 DEF RepeatMemory
    <3>. QED
      BY <3>1, <3>7 DEF RepeatsAreKnown, NoThirdIdenticalTurn, OnlyLoopsAreBroken
  <2>5. ASSUME NEW ok \in BOOLEAN, NEW size \in Sizes, ExecuteCall(ok, size)
        PROVE  RepeatsAreKnown'
    BY <2>5, RepeatStep
  <2>6. ASSUME NEW calls \in CallLists, NEW size \in SizesOf["call"],
               ReplyRepeated(calls, size)
        PROVE  RepeatsAreKnown'
    <3>1. /\ pc' = "idle" /\ executed' = executed
          /\ Len(executed) >= 2 /\ Identical(Len(executed) - 1, Len(executed))
      BY <2>6, BrokenAfterTwo DEF RepeatsAreKnown
    <3>. QED
      BY <3>1 DEF RepeatsAreKnown, RepeatMemory, NoThirdIdenticalTurn, OnlyLoopsAreBroken,
                  Identical
  <2>. QED
    <3>1. CASE ResetHistory \/ Cancel \/ BeginTurn \/ TimerFires \/ UNCHANGED vars
      <4>1. UNCHANGED <<executed, prevCallKey, prevCallSucceeded, repeatCount>>
        BY <3>1 DEF ResetHistory, Cancel, BeginTurn, TimerFires, vars, locals, observed
      <4>2. \/ pc' = pc /\ outcome' = outcome
            \/ {pc, pc'} \subseteq {"head", "pause", "generate", "backoff"}
        BY <3>1 DEF ResetHistory, Cancel, BeginTurn, TimerFires, vars
      <4>. QED
        BY <2>2, <4>1, <4>2
    <3>2. CASE StopAtHead \/ SleepCancelled
      BY <2>3, <3>2 DEF StopAtHead, SleepCancelled, Return, observed
    <3>3. ASSUME NEW retryable \in BOOLEAN, GenerationFails(retryable) PROVE RepeatsAreKnown'
      <4>1. UNCHANGED <<executed, prevCallKey, prevCallSucceeded, repeatCount>>
        BY <3>3 DEF GenerationFails, locals, observed
      <4>2. \/ pc' = "idle" /\ outcome'.why # "repeat"
            \/ {pc, pc'} \subseteq {"head", "pause", "generate", "backoff"}
        BY <3>3 DEF GenerationFails, Return
      <4>. QED
        BY <2>2, <2>3, <4>1, <4>2
    <3>4. ASSUME NEW size \in SizesOf["text"], ReplyText(size) PROVE RepeatsAreKnown'
      BY <2>3, <3>4 DEF ReplyText, AcceptReply, Return
    <3>5. SizesOf["output"] \cup SizesOf["error"] \subseteq Sizes
      BY DEF Sizes
    <3>. QED
      BY <2>1, <2>4, <2>5, <2>6, <3>1, <3>2, <3>3, <3>4, <3>5 DEF Next, LoopStep
<1>. QED
  BY <1>1, <1>2, TypeCorrect, PTL DEF Spec

\* No call list is executed a fourth turn in a row after three turns in which it
\* succeeded, whatever the environment does in between, and a Run is broken off
\* only after two turns with the same calls, all of which succeeded.
THEOREM LoopsBroken == Spec => []LoopsAreBroken
<1>1. TypeOK /\ RepeatsAreKnown => NoFourthIdenticalTurn
  <2> SUFFICES ASSUME TypeOK, RepeatsAreKnown, NEW i \in 1 .. Len(executed) - 3,
                      Identical(i, i + 2)
               PROVE  FALSE
    BY DEF NoFourthIdenticalTurn
  <2>1. Len(executed) \in Nat
    BY DEF TypeOK
  <2>2. i \in 1 .. Len(executed) - 2 /\ {i, i + 1, i + 2} \subseteq i .. i + 2
    BY <2>1
  <2>. QED
    BY <2>2 DEF Identical, RepeatsAreKnown, NoThirdIdenticalTurn
<1>2. TypeOK /\ RepeatsAreKnown => LoopsAreBroken
  BY <1>1 DEF RepeatsAreKnown, LoopsAreBroken
<1>. QED
  BY <1>2, TypeCorrect, RepeatsKnown, PTL

-----------------------------------------------------------------------------
(***************************************************************************)
(* Cancellation                                                            *)
(***************************************************************************)
\* After a late reply the loop is past its only generation: it acts on the reply
\* and returns at its head.
LateReplyIsLast ==
  /\ ~cancelled => late = 0
  /\ late \in 0 .. 1
  /\ late = 1 => pc \in {"idle", "head", "act"}

\* A cancelled Run accepts at most one more reply.
THEOREM OneLateReply == Spec => []AtMostOneLateReply
<1>1. Init => LateReplyIsLast
  BY DEF Init, LateReplyIsLast
<1>2. LateReplyIsLast /\ [Next]_vars => LateReplyIsLast'
  <2> SUFFICES ASSUME LateReplyIsLast, [Next]_vars PROVE LateReplyIsLast'
    OBVIOUS
  <2> USE DEF LateReplyIsLast
  <2>1. CASE \E size \in SizesOf["input"] : StartRun(size)
    BY <2>1 DEF StartRun
  <2>2. CASE ResetHistory \/ Cancel \/ UNCHANGED vars
    BY <2>2 DEF ResetHistory, Cancel, vars, observed
  <2>3. CASE StopAtHead \/ SleepCancelled
    BY <2>3 DEF StopAtHead, SleepCancelled, Return, observed
  <2>4. CASE BeginTurn
    BY <2>4 DEF BeginTurn, MayTakeTurn, observed
  <2>5. CASE TimerFires
    BY <2>5 DEF TimerFires, observed
  <2>6. CASE \E size \in SizesOf["text"] : ReplyText(size)
    BY <2>6 DEF ReplyText, AcceptReply, Return
  <2>7. CASE \E calls \in CallLists, size \in SizesOf["call"] :
               ReplyRepeated(calls, size) \/ ReplyCalls(calls, size)
    BY <2>7 DEF ReplyRepeated, ReplyCalls, AcceptReply, Return
  <2>8. CASE \E retryable \in BOOLEAN : GenerationFails(retryable)
    BY <2>8 DEF GenerationFails, Return, observed
  <2>9. ASSUME NEW ok, NEW size, ExecuteCall(ok, size) PROVE LateReplyIsLast'
    BY <2>9 DEF ExecuteCall
  <2>. QED
    BY <2>1, <2>2, <2>3, <2>4, <2>5, <2>6, <2>7, <2>8, <2>9 DEF Next, LoopStep
<1>3. LateReplyIsLast => AtMostOneLateReply
  BY DEF LateReplyIsLast, AtMostOneLateReply
<1>. QED
  BY <1>1, <1>2, <1>3, PTL DEF Spec

-----------------------------------------------------------------------------
(***************************************************************************)
(* What a Run returns                                                      *)
(***************************************************************************)
\* What the locals of a Run name was appended after its input.
LocalsAreOfThisRun ==
  /\ appended >= inputPos
  /\ pc # "idle" => /\ lastResponse = 0 \/ lastResponse > inputPos
                    /\ lastToolResult = 0 \/ lastToolResult > inputPos

\* A Run returns nothing that an earlier Run produced.
THEOREM AnswerOfThisRun == Spec => []AnswerIsOfThisRun
<1> USE AgentConstants
<1> DEFINE IInv == LocalsAreOfThisRun /\ AnswerIsOfThisRun
<1>1. Init => IInv
  BY DEF Init, LocalsAreOfThisRun, AnswerIsOfThisRun
<1>2. TypeOK /\ IInv /\ [Next]_vars => IInv'
  <2> SUFFICES ASSUME TypeOK, IInv, [Next]_vars PROVE IInv'
    OBVIOUS
  <2>0. /\ appended \in Nat /\ inputPos \in Nat /\ lastResponse \in Nat
        /\ lastToolResult \in Nat /\ outcome.value \in Nat
    BY DEF TypeOK
  <2> USE <2>0 DEF LocalsAreOfThisRun, AnswerIsOfThisRun
  <2>1. CASE \E size \in SizesOf["input"] : StartRun(size)
    BY <2>1 DEF StartRun, FreshLocals
  <2>2. CASE ResetHistory \/ Cancel \/ UNCHANGED vars
    BY <2>2 DEF ResetHistory, Cancel, vars, locals, observed
  <2>3. CASE StopAtHead
    BY <2>3 DEF StopAtHead, Return, ToolResultOr, locals, observed
  <2>4. CASE BeginTurn \/ TimerFires
    BY <2>4 DEF BeginTurn, TimerFires, locals, observed
  <2>5. CASE SleepCancelled
    BY <2>5 DEF SleepCancelled, Return, locals, observed
  <2>6. CASE \E size \in SizesOf["text"] : ReplyText(size)
    BY <2>6 DEF ReplyText, AcceptReply, Return
  <2>7. CASE \E calls \in CallLists, size \in SizesOf["call"] : ReplyRepeated(calls, size)
    BY <2>7 DEF ReplyRepeated, AcceptReply, Return, ToolResultOr
  <2>8. CASE \E calls \in CallLists, size \in SizesOf["call"] : ReplyCalls(calls, size)
    BY <2>8 DEF ReplyCalls, AcceptReply
  <2>9. CASE \E retryable \in BOOLEAN : GenerationFails(retryable)
    BY <2>9 DEF GenerationFails, Return, locals, observed
  <2>10. ASSUME NEW ok \in BOOLEAN, NEW size \in Sizes, ExecuteCall(ok, size)
         PROVE  IInv'
    <3>1. Len(CallMessages(ok, size)) \in 1 .. 2
      BY CallMessagesType
    <3>. QED
      BY <2>10, <3>1 DEF ExecuteCall
  <2>11. SizesOf["output"] \cup SizesOf["error"] \subseteq Sizes
    BY DEF Sizes
  <2>. QED
    BY <2>1, <2>2, <2>3, <2>4, <2>5, <2>6, <2>7, <2>8, <2>9, <2>10, <2>11
    DEF Next, LoopStep
<1>3. IInv => AnswerIsOfThisRun
  OBVIOUS
<1>. QED
  BY <1>1, <1>2, <1>3, TypeCorrect, PTL DEF Spec

-----------------------------------------------------------------------------
(***************************************************************************)
(* Sums over finite sets.  Induction is over sets: a set of natural        *)
(* numbers with 0 and every successor, and the well-founded order of the   *)
(* subsets of a finite set.                                                *)
(***************************************************************************)
\* A set of natural numbers with 0 and every successor has them all.
LEMMA NaturalsFrom0 ==
  ASSUME NEW T \in SUBSET Nat, 0 \in T, \A n \in T : n + 1 \in T
  PROVE  T = Nat
<1>1. SUFFICES ASSUME NEW n \in Nat, n \notin T PROVE FALSE
  OBVIOUS
<1> DEFINE Upto == {1 .. m : m \in Nat \ T}
<1>2. IsWellFoundedOn(StrictSubsetOrdering(Nat), FiniteSubsetsOf(Nat))
  BY FS_StrictSubsetOrderingWellFounded
<1>3. \A m \in Nat : 1 .. m \in FiniteSubsetsOf(Nat)
  <2>1. \A m \in Nat : 1 .. m \in SUBSET Nat /\ IsFiniteSet(1 .. m)
    BY FS_Interval
  <2>. QED
    BY <2>1 DEF FiniteSubsetsOf
<1>4. Upto \subseteq FiniteSubsetsOf(Nat) /\ 1 .. n \in Upto
  BY <1>1, <1>3
<1> HIDE DEF Upto
<1>5. PICK S \in Upto : \A U \in Upto : <<U, S>> \notin StrictSubsetOrdering(Nat)
  BY <1>2, <1>4, WFMin
<1>6. PICK m \in Nat \ T : S = 1 .. m
  BY <1>5 DEF Upto
<1>7. m # 0 /\ m - 1 \in Nat \ T
  <2>1. m - 1 + 1 = m
    OBVIOUS
  <2>. QED
    BY <2>1
<1>8. 1 .. (m - 1) \in Upto
  BY <1>7 DEF Upto
<1>9. /\ 1 .. (m - 1) \subseteq 1 .. m /\ m \in 1 .. m /\ m \notin 1 .. (m - 1) /\ 1 .. m \subseteq Nat
  BY <1>7
<1>. QED
  BY <1>5, <1>6, <1>8, <1>9 DEF StrictSubsetOrdering

\* The equation the sum over the subsets of S solves.
Sums(f, S, it) ==
  it = [s \in SUBSET S |-> IF s = {} THEN 0
                           ELSE LET x == CHOOSE x \in s : TRUE IN f[x] + it[s \ {x}]]

\* The sum is the value at S of a chosen solution.
LEMMA SumIsChosen ==
  ASSUME NEW f, NEW S
  PROVE  SumFunctionOnSet(f, S) = (CHOOSE it : Sums(f, S, it))[S]
BY Zenon DEF Sums, SumFunctionOnSet, FoldFunctionOnSet, MapThenFoldSet

\* Induction over the subsets of a finite set.
LEMMA SubsetInduction ==
  ASSUME NEW S, IsFiniteSet(S), NEW P,
         \A T \in SUBSET S : (\A U \in SUBSET T : U # T => U \in P) => T \in P
  PROVE  \A T \in SUBSET S : T \in P
<1> DEFINE Q == {T \in SUBSET S : T \notin P}
<1>1. SUFFICES ASSUME Q # {} PROVE FALSE
  OBVIOUS
<1>2. IsWellFoundedOn(StrictSubsetOrdering(S), FiniteSubsetsOf(S))
  BY FS_StrictSubsetOrderingWellFounded
<1>3. Q \subseteq FiniteSubsetsOf(S)
  BY FS_Subset DEF FiniteSubsetsOf
<1>4. PICK T \in Q : \A U \in Q : <<U, T>> \notin StrictSubsetOrdering(S)
  <2> HIDE DEF Q
  <2>. QED
    BY <1>1, <1>2, <1>3, WFMin
<1>5. \A U \in SUBSET T : U # T => U \in P
  BY <1>4 DEF StrictSubsetOrdering
<1>. QED
  BY <1>4, <1>5

\* What is picked from a nonempty set is in it.
Picked(s) == CHOOSE x \in s : TRUE

\* The equation, with the picked element by its name.
LEMMA SumsDef ==
  ASSUME NEW f, NEW S, NEW it
  PROVE  Sums(f, S, it) <=>
           it = [s \in SUBSET S |-> IF s = {} THEN 0 ELSE f[Picked(s)] + it[s \ {Picked(s)}]]
BY Zenon DEF Sums, Picked

\* What a solution says of one subset: nothing to add, or the picked element and the rest.
LEMMA SumsAt ==
  ASSUME NEW f, NEW S, NEW it, Sums(f, S, it), NEW T \in SUBSET S
  PROVE  /\ T = {} => it[T] = 0
         /\ T # {} => /\ Picked(T) \in T /\ T \ {Picked(T)} \in SUBSET T
                      /\ T \ {Picked(T)} # T
                      /\ it[T] = f[Picked(T)] + it[T \ {Picked(T)}]
<1>1. T # {} => Picked(T) \in T
  BY DEF Picked
<1>2. it = [s \in SUBSET S |-> IF s = {} THEN 0 ELSE f[Picked(s)] + it[s \ {Picked(s)}]]
  BY SumsDef
<1>3. it[T] = IF T = {} THEN 0 ELSE f[Picked(T)] + it[T \ {Picked(T)}]
  BY <1>2, Zenon
<1>. QED
  BY <1>1, <1>3

\* Solutions for two sets agree where both are defined.
LEMMA SumsAgree ==
  ASSUME NEW f, NEW R, NEW S, NEW it, NEW jt, Sums(f, R, it), Sums(f, S, jt),
         IsFiniteSet(R), NEW T \in SUBSET R, T \subseteq S
  PROVE  it[T] = jt[T]
<1> DEFINE P == {U \in SUBSET R : U \subseteq S => it[U] = jt[U]}
<1>1. ASSUME NEW U \in SUBSET R, \A V \in SUBSET U : V # U => V \in P
      PROVE  U \in P
  <2>1. SUFFICES ASSUME U \subseteq S, U # {} PROVE it[U] = jt[U]
    <3>1. U = {} => it[U] = 0 /\ jt[U] = 0
      BY SumsAt
    <3>. QED
      BY <3>1
  <2>2. U \ {Picked(U)} \in P
    BY <1>1, <2>1, SumsAt
  <2>3. it[U \ {Picked(U)}] = jt[U \ {Picked(U)}]
    BY <2>1, <2>2
  <2>. QED
    BY <2>1, <2>3, SumsAt
<1>2. \A U \in SUBSET R : U \in P
  <2> HIDE DEF P
  <2>. QED
    BY <1>1, SubsetInduction
<1>. QED
  BY <1>2

\* A finite set has a solution.
LEMMA SumsExist ==
  ASSUME NEW f, NEW S, IsFiniteSet(S)
  PROVE  \E it : Sums(f, S, it)
<1> DEFINE P == {T \in SUBSET S : \E it : Sums(f, T, it)}
<1>1. ASSUME NEW T \in SUBSET S, \A U \in SUBSET T : U # T => U \in P
      PROVE  T \in P
  <2> DEFINE of(U) == CHOOSE it : Sums(f, U, it)
             it == [s \in SUBSET T |-> IF s = {} THEN 0
                      ELSE f[Picked(s)] + of(s \ {Picked(s)})[s \ {Picked(s)}]]
  <2>1. \A U \in SUBSET T : U # T => Sums(f, U, of(U))
    BY <1>1
  <2>2. \A s \in SUBSET T : s # {} => Picked(s) \in s
    BY DEF Picked
  <2> HIDE DEF of
  <2>3. ASSUME NEW U \in SUBSET T, U # T PROVE it[U] = of(U)[U]
    <3>1. Sums(f, U, of(U))
      BY <2>1, <2>3
    <3>2. CASE U = {}
      BY <3>1, <3>2, SumsAt
    <3>3. CASE U # {}
      <4> DEFINE V == U \ {Picked(U)}
      <4>1. V \in SUBSET U /\ V \in SUBSET T /\ V # T /\ of(U)[U] = f[Picked(U)] + of(U)[V]
        BY <2>3, <3>1, <3>3, SumsAt
      <4>2. IsFiniteSet(U) /\ IsFiniteSet(V)
        BY <4>1, FS_Subset
      <4>3. Sums(f, V, of(V))
        BY <2>1, <4>1
      <4> HIDE DEF V
      <4>4. of(V)[V] = of(U)[V]
        BY <3>1, <4>1, <4>2, <4>3, SumsAgree
      <4>5. it[U] = f[Picked(U)] + of(V)[V]
        BY <3>3 DEF V
      <4>. QED
        BY <4>1, <4>4, <4>5
    <3>. QED
      BY <3>2, <3>3
  <2>4. it = [s \in SUBSET T |-> IF s = {} THEN 0 ELSE f[Picked(s)] + it[s \ {Picked(s)}]]
    <3>1. ASSUME NEW s \in SUBSET T, s # {}
          PROVE  it[s] = f[Picked(s)] + it[s \ {Picked(s)}]
      <4>1. s \ {Picked(s)} \in SUBSET T /\ s \ {Picked(s)} # T
        BY <2>2, <3>1
      <4>2. it[s] = f[Picked(s)] + of(s \ {Picked(s)})[s \ {Picked(s)}]
        BY <3>1
      <4> HIDE DEF it
      <4>. QED
        BY <2>3, <4>1, <4>2
    <3>2. it[{}] = 0
      OBVIOUS
    <3>3. it = [s \in SUBSET T |-> it[s]]
      OBVIOUS
    <3> HIDE DEF it
    <3>. QED
      BY <3>1, <3>2, <3>3
  <2>5. Sums(f, T, it)
    <3> HIDE DEF it
    <3>. QED
      BY <2>4, SumsDef
  <2>. QED
    BY <2>5
<1>2. \A T \in SUBSET S : T \in P
  <2> HIDE DEF P
  <2>. QED
    BY <1>1, SubsetInduction
<1>. QED
  BY <1>2

\* The sum over a set with one more element; the order of the elements is open.
LEMMA SumAdd ==
  ASSUME NEW f, NEW S, IsFiniteSet(S), \A y \in S : f[y] \in Nat, NEW x \in S
  PROVE  /\ SumFunctionOnSet(f, S) = f[x] + SumFunctionOnSet(f, S \ {x})
         /\ SumFunctionOnSet(f, S \ {x}) \in Nat
<1>1. PICK it : Sums(f, S, it)
  BY SumsExist
<1>2. ASSUME NEW T \in SUBSET S PROVE SumFunctionOnSet(f, T) = it[T]
  <2>1. IsFiniteSet(T)
    BY FS_Subset
  <2> DEFINE jt == CHOOSE jt : Sums(f, T, jt)
  <2>2. Sums(f, T, jt)
    BY <2>1, SumsExist
  <2>3. SumFunctionOnSet(f, T) = jt[T]
    BY SumIsChosen, Zenon
  <2> HIDE DEF jt
  <2>. QED
    BY <1>1, <2>1, <2>2, <2>3, SumsAgree
<1> DEFINE P == {T \in SUBSET S : /\ it[T] \in Nat
                                  /\ \A y \in T : it[T] = f[y] + it[T \ {y}]}
<1>3. ASSUME NEW T \in SUBSET S, \A U \in SUBSET T : U # T => U \in P
      PROVE  T \in P
  <2>1. CASE T = {}
    BY <1>1, <2>1, SumsAt
  <2>2. CASE T # {}
    <3> DEFINE p == Picked(T)
    <3>1. p \in T /\ it[T] = f[p] + it[T \ {p}] /\ T \ {p} \in P
      <4> HIDE DEF P
      <4>0. Sums(f, S, it) /\ T \in SUBSET S /\ T # {}
        BY <1>1, <2>2
      <4>1. /\ p \in T /\ it[T] = f[p] + it[T \ {p}]
            /\ T \ {p} \in SUBSET T /\ T \ {p} # T
        <5>1. /\ Picked(T) \in T /\ T \ {Picked(T)} \in SUBSET T
              /\ T \ {Picked(T)} # T /\ it[T] = f[Picked(T)] + it[T \ {Picked(T)}]
          BY <4>0, SumsAt
        <5>. QED
          BY <5>1
      <4>. QED
        BY <1>3, <4>1
    <3> HIDE DEF p
    <3>2. it[T \ {p}] \in Nat /\ f[p] \in Nat /\ it[T] \in Nat
      BY <3>1
    <3>3. ASSUME NEW y \in T, y # p PROVE it[T] = f[y] + it[T \ {y}]
      <4>1. it[T \ {p}] = f[y] + it[(T \ {p}) \ {y}]
        BY <3>1, <3>3
      <4>2. T \ {y} \in P /\ p \in T \ {y}
        BY <1>3, <3>1, <3>3
      <4>3. it[T \ {y}] = f[p] + it[(T \ {y}) \ {p}] /\ it[T \ {y}] \in Nat
        BY <4>2
      <4>4. (T \ {y}) \ {p} = (T \ {p}) \ {y} /\ (T \ {p}) \ {y} \in P
        BY <1>3, <3>1
      <4>5. it[(T \ {p}) \ {y}] \in Nat /\ f[y] \in Nat
        BY <4>4
      <4>6. it[T \ {y}] = f[p] + it[(T \ {p}) \ {y}]
        BY <4>3, <4>4
      <4> HIDE DEF P
      <4>. QED
        BY <3>1, <3>2, <4>1, <4>5, <4>6
    <3>. QED
      BY <3>1, <3>2, <3>3
  <2>. QED
    BY <2>1, <2>2
<1>4. \A T \in SUBSET S : T \in P
  <2> HIDE DEF P
  <2>. QED
    BY <1>3, SubsetInduction
<1>5. S \in P /\ S \ {x} \in P
  BY <1>4
<1>. QED
  BY <1>2, <1>5

\* The sum over no element.
LEMMA SumOfNone == ASSUME NEW f PROVE SumFunctionOnSet(f, {}) = 0
<1> DEFINE it == CHOOSE it : Sums(f, {}, it)
<1>1. Sums(f, {}, it)
  BY FS_EmptySet, SumsExist
<1>2. SumFunctionOnSet(f, {}) = it[{}]
  BY SumIsChosen, Zenon
<1> HIDE DEF it
<1>3. it[{}] = 0
  BY <1>1, SumsAt
<1>. QED
  BY <1>2, <1>3

\* The sum of the n values of f behind the place a; f at a and g at b agree on n values.
Stretch(f, a, n) == SumFunctionOnSet(f, a + 1 .. a + n)
Agree(f, a, g, b, n) == \A i \in 1 .. n : f[a + i] \in Nat /\ f[a + i] = g[b + i]

\* Equal stretches of two functions have the same sum.
LEMMA SameSum ==
  ASSUME NEW f, NEW g, NEW a \in Nat, NEW b \in Nat, NEW n \in Nat, Agree(f, a, g, b, n)
  PROVE  Stretch(f, a, n) = Stretch(g, b, n)
<1>0. \A i \in 1 .. n : f[a + i] \in Nat /\ f[a + i] = g[b + i]
  BY DEF Agree
<1> DEFINE F(m) == SumFunctionOnSet(f, a + 1 .. a + m)
           G(m) == SumFunctionOnSet(g, b + 1 .. b + m)
           T == {m \in Nat : m <= n => F(m) = G(m) /\ F(m) \in Nat}
<1>1. 0 \in T
  <2>1. a + 1 .. a + 0 = {} /\ b + 1 .. b + 0 = {}
    OBVIOUS
  <2>2. F(0) = 0 /\ G(0) = 0
    BY <2>1, SumOfNone
  <2>. QED
    BY <2>2
<1>2. ASSUME NEW m \in T PROVE m + 1 \in T
  <2>0. m \in Nat
    OBVIOUS
  <2>1. SUFFICES ASSUME m + 1 <= n PROVE F(m + 1) = G(m + 1) /\ F(m + 1) \in Nat
    BY <2>0
  <2>2. F(m) = G(m) /\ F(m) \in Nat
    BY <2>0, <2>1
  <2> DEFINE R == a + 1 .. a + (m + 1)
             S == b + 1 .. b + (m + 1)
  <2>3. /\ IsFiniteSet(R) /\ IsFiniteSet(S) /\ a + (m + 1) \in R /\ b + (m + 1) \in S
        /\ R \ {a + (m + 1)} = a + 1 .. a + m /\ S \ {b + (m + 1)} = b + 1 .. b + m
    <3>1. /\ a + (m + 1) \in R /\ b + (m + 1) \in S
          /\ R \ {a + (m + 1)} = a + 1 .. a + m /\ S \ {b + (m + 1)} = b + 1 .. b + m
      BY <2>0
    <3>2. a + 1 \in Int /\ a + (m + 1) \in Int /\ b + 1 \in Int /\ b + (m + 1) \in Int
      BY <2>0
    <3>3. IsFiniteSet(R) /\ IsFiniteSet(S)
      BY <3>2, FS_Interval
    <3>. QED
      BY <3>1, <3>3
  <2>4. \A y \in R : f[y] \in Nat
    <3>1. ASSUME NEW y \in R PROVE f[y] \in Nat
      <4>1. y - a \in 1 .. n /\ a + (y - a) = y
        BY <2>0, <2>1
      <4>. QED
        BY <1>0, <4>1
    <3>. QED
      BY <3>1
  <2>5. \A y \in S : g[y] \in Nat
    <3>1. ASSUME NEW y \in S PROVE g[y] \in Nat
      <4>1. y - b \in 1 .. n /\ b + (y - b) = y
        BY <2>0, <2>1
      <4>2. g[b + (y - b)] \in Nat
        BY <1>0, <4>1
      <4>. QED
        BY <4>1, <4>2
    <3>. QED
      BY <3>1
  <2> HIDE DEF R, S, F, G
  <2>6. SumFunctionOnSet(f, R) = f[a + (m + 1)] + SumFunctionOnSet(f, R \ {a + (m + 1)})
    BY <2>3, <2>4, SumAdd
  <2>7. SumFunctionOnSet(g, S) = g[b + (m + 1)] + SumFunctionOnSet(g, S \ {b + (m + 1)})
    BY <2>3, <2>5, SumAdd
  <2>8. F(m + 1) = f[a + (m + 1)] + F(m) /\ G(m + 1) = g[b + (m + 1)] + G(m)
    BY <2>3, <2>6, <2>7 DEF F, G, R, S
  <2>9. m + 1 \in 1 .. n
    BY <2>0, <2>1
  <2>. QED
    BY <1>0, <2>2, <2>8, <2>9
<1>3. T = Nat
  <2>1. T \in SUBSET Nat
    OBVIOUS
  <2> HIDE DEF T
  <2>. QED
    BY <1>1, <1>2, <2>1, NaturalsFrom0
<1>4. n \in T
  <2> HIDE DEF T
  <2>. QED
    BY <1>3
<1>. QED
  BY <1>4 DEF Stretch

-----------------------------------------------------------------------------
(***************************************************************************)
(* What is sent fits                                                       *)
(***************************************************************************)
\* The price of a message is a number.
LEMMA CostType ==
  ASSUME NEW m \in Msg
  PROVE  Cost(m) \in Nat
BY AgentConstants DEF Cost, Msg

\* The tokens of the messages from one on are those of this one and of the rest.
LEMMA TokensOfTail ==
  ASSUME NEW h \in Seq(Msg), NEW k \in 1 .. Len(h)
  PROVE  TokensFrom(h, k) = Cost(h[k]) + TokensFrom(h, k + 1) /\ TokensFrom(h, k + 1) \in Nat
<1> DEFINE f == [i \in DOMAIN h |-> Cost(h[i])]
           S == k .. Len(h)
<1>1. /\ Len(h) \in Nat /\ DOMAIN h = 1 .. Len(h) /\ k \in S
      /\ \A i \in S : i \in DOMAIN h /\ h[i] \in Msg
  OBVIOUS
<1>2. \A i \in S : f[i] \in Nat /\ f[i] = Cost(h[i])
  BY <1>1, CostType
<1>3. TokensFrom(h, k) = SumFunctionOnSet(f, S)
      /\ TokensFrom(h, k + 1) = SumFunctionOnSet(f, k + 1 .. Len(h))
  BY Zenon DEF TokensFrom
<1>4. IsFiniteSet(S)
  <2>1. k \in Int /\ Len(h) \in Int
    BY <1>1
  <2>. QED
    BY <2>1, FS_Interval
<1>5. S \ {k} = k + 1 .. Len(h)
  BY <1>1
<1> HIDE DEF f, S
<1>6. SumFunctionOnSet(f, S) = f[k] + SumFunctionOnSet(f, S \ {k})
      /\ SumFunctionOnSet(f, S \ {k}) \in Nat
  BY <1>1, <1>2, <1>4, SumAdd
<1>. QED
  BY <1>1, <1>2, <1>3, <1>5, <1>6

\* Of a set of natural numbers with a member, one is the least.
LEMMA LeastMember ==
  ASSUME NEW S \in SUBSET Nat, NEW n \in S
  PROVE  \E k \in S : \A j \in S : k <= j
<1>1. SUFFICES ASSUME \A k \in S : \E j \in S : j < k
               PROVE  FALSE
  <2>1. \A k, j \in S : ~(k <= j) => j < k
    OBVIOUS
  <2>. QED
    BY <2>1
<1> DEFINE T == {m \in Nat : \A i \in 0 .. m : i \notin S}
<1>2. 0 \in T
  <2>1. 0 \notin S
    BY <1>1
  <2>. QED
    BY <2>1
<1>3. ASSUME NEW m \in T PROVE m + 1 \in T
  <2>1. \A i \in 0 .. m : i \notin S
    OBVIOUS
  <2>2. m + 1 \notin S
    <3>1. ASSUME NEW j \in S, j < m + 1 PROVE FALSE
      <4>1. j \in 0 .. m
        BY <3>1
      <4>. QED
        BY <2>1, <4>1
    <3>. QED
      BY <1>1, <3>1
  <2>. QED
    BY <2>1, <2>2
<1>4. T = Nat
  <2>1. T \in SUBSET Nat
    OBVIOUS
  <2> HIDE DEF T
  <2>. QED
    BY <1>2, <1>3, <2>1, NaturalsFrom0
<1>. QED
  BY <1>4

\* Fewer of the newest messages cost no more.
LEMMA TokensShrink ==
  ASSUME NEW h \in Seq(Msg), NEW k \in 1 .. Len(h), NEW j \in k .. Len(h)
  PROVE  /\ TokensFrom(h, j) <= TokensFrom(h, k)
         /\ TokensFrom(h, j) \in Nat /\ TokensFrom(h, k) \in Nat
<1> DEFINE F(i) == TokensFrom(h, i)
           T == {d \in Nat : k + d <= Len(h) => F(k + d) <= F(k)}
<1>1. Len(h) \in Nat
  OBVIOUS
<1>2. ASSUME NEW i \in 1 .. Len(h)
      PROVE  F(i) \in Nat /\ (i + 1 <= Len(h) => F(i + 1) <= F(i))
  <2>1. h[i] \in Msg
    BY <1>1
  <2>2. Cost(h[i]) \in Nat
    BY <2>1, CostType
  <2>. QED
    BY <2>2, TokensOfTail
<1> HIDE DEF F
<1>3. 0 \in T
  <2>1. F(k) \in Nat /\ k + 0 = k
    BY <1>2
  <2>. QED
    BY <2>1
<1>4. ASSUME NEW d \in T PROVE d + 1 \in T
  <2>1. SUFFICES ASSUME k + (d + 1) <= Len(h) PROVE F(k + (d + 1)) <= F(k)
    OBVIOUS
  <2>2. k + d \in 1 .. Len(h) /\ k + (d + 1) \in 1 .. Len(h) /\ k + d + 1 = k + (d + 1)
    BY <1>1, <2>1
  <2>3. F(k + (d + 1)) <= F(k + d) /\ F(k + d) \in Nat /\ F(k + (d + 1)) \in Nat
    BY <1>2, <2>1, <2>2
  <2>4. F(k + d) <= F(k) /\ F(k) \in Nat
    BY <1>2, <2>2
  <2>. QED
    BY <2>3, <2>4
<1>5. T = Nat
  <2>1. T \in SUBSET Nat
    OBVIOUS
  <2> HIDE DEF T
  <2>. QED
    BY <1>3, <1>4, <2>1, NaturalsFrom0
<1>6. j - k \in Nat /\ k + (j - k) = j /\ j <= Len(h) /\ j \in 1 .. Len(h)
  BY <1>1
<1>7. F(j) <= F(k)
  <2>1. j - k \in T
    <3> HIDE DEF T
    <3>. QED
      BY <1>5, <1>6
  <2>. QED
    BY <1>6, <2>1
<1>. QED
  BY <1>2, <1>6, <1>7 DEF F

\* TrimMessages has one value, and it is the one of the walk: every message from
\* the cut on is one the walk may keep, no older one is.
THEOREM TrimIsTheWalk ==
  ASSUME NEW h \in Seq(Msg), Len(h) > 2, NEW max \in Nat
  PROVE  \E k \in 2 .. Len(h) :
           /\ Cutoffs(h, max) = {k}
           /\ \A j \in 2 .. Len(h) : Keepable(h, max, j) <=> j >= k
<1> DEFINE S == {k \in 2 .. Len(h) : Keepable(h, max, k)}
<1>1. Len(h) \in Nat /\ Len(h) \in S /\ S \in SUBSET Nat
  BY DEF Keepable
<1>2. PICK k \in S : \A j \in S : k <= j
  <2> HIDE DEF S
  <2>. QED
    BY <1>1, LeastMember
<1>3. ASSUME NEW j \in 2 .. Len(h), j >= k PROVE Keepable(h, max, j)
  <2>1. CASE k = Len(h)
    BY <1>1, <1>3, <2>1 DEF Keepable
  <2>2. CASE TokensFrom(h, k) <= max - Cost(h[1])
    <3>1. TokensFrom(h, j) <= TokensFrom(h, k)
          /\ TokensFrom(h, j) \in Nat /\ TokensFrom(h, k) \in Nat
      <4>1. k \in 1 .. Len(h) /\ j \in k .. Len(h)
        BY <1>1, <1>3
      <4>. QED
        BY <4>1, TokensShrink
    <3>2. Cost(h[1]) \in Nat
      <4>1. h[1] \in Msg
        BY <1>1
      <4>. QED
        BY <4>1, CostType
    <3>. QED
      BY <2>2, <3>1, <3>2 DEF Keepable
  <2>. QED
    BY <2>1, <2>2 DEF Keepable
<1>4. ASSUME NEW j \in 2 .. Len(h), ~(j >= k) PROVE ~Keepable(h, max, j)
  BY <1>1, <1>2, <1>4
<1>5. k \in 2 .. Len(h) /\ k \in Cutoffs(h, max)
  <2>1. k \in 2 .. Len(h) /\ Keepable(h, max, k)
    OBVIOUS
  <2>2. \A j \in 2 .. k - 1 : j \in 2 .. Len(h) /\ ~(j >= k)
    BY <1>1, <2>1
  <2>. QED
    BY <1>4, <2>1, <2>2 DEF Cutoffs
<1>6. ASSUME NEW c \in Cutoffs(h, max) PROVE c = k
  <2>1. c \in 2 .. Len(h) /\ Keepable(h, max, c) /\ \A j \in 2 .. c - 1 : ~Keepable(h, max, j)
    BY DEF Cutoffs
  <2>2. ~(k \in 2 .. c - 1) /\ c >= k
    BY <1>4, <2>1
  <2>. QED
    BY <1>1, <1>5, <2>1, <2>2
<1>. QED
  BY <1>3, <1>4, <1>5, <1>6

\* A suffix of the conversation behind the first message has the same tokens as it
\* had at its old place.
LEMMA TokensOfSuffix ==
  ASSUME NEW h \in Seq(Msg), h # <<>>, NEW k \in 2 .. Len(h)
  PROVE  TokensFrom(<<h[1]>> \o SubSeq(h, k, Len(h)), 2) = TokensFrom(h, k)
<1> DEFINE t == <<h[1]>> \o SubSeq(h, k, Len(h))
           f == [i \in DOMAIN h |-> Cost(h[i])]
           g == [i \in DOMAIN t |-> Cost(t[i])]
           n == Len(h) - k + 1
<1>1. /\ Len(h) \in Nat /\ DOMAIN h = 1 .. Len(h) /\ n \in Nat
      /\ \A i \in 1 .. Len(h) : h[i] \in Msg
  OBVIOUS
<1>2. /\ Len(t) = 1 + n /\ DOMAIN t = 1 .. 1 + n
      /\ \A i \in 1 .. n : t[1 + i] = h[k - 1 + i]
  <2> DEFINE rest == SubSeq(h, k, Len(h))
  <2>1. /\ rest \in Seq(Msg) /\ Len(rest) = n
        /\ \A i \in 1 .. n : rest[i] = h[k - 1 + i]
    <3>1. \A i \in k .. Len(h) : h[i] \in Msg
      BY <1>1
    <3>2. /\ rest \in Seq(Msg) /\ Len(rest) = n
          /\ \A i \in 1 .. n : rest[i] = h[k + i - 1]
      BY <1>1, <3>1, SubSeqProperties
    <3>. QED
      BY <1>1, <3>2
  <2> HIDE DEF rest
  <2>2. /\ Len(<<h[1]>> \o rest) = 1 + Len(rest)
        /\ DOMAIN (<<h[1]>> \o rest) = 1 .. 1 + Len(rest)
        /\ \A i \in 1 .. Len(rest) : (<<h[1]>> \o rest)[1 + i] = rest[i]
    <3>1. <<h[1]>> \in Seq(Msg) /\ Len(<<h[1]>>) = 1
      <4>1. h[1] \in Msg
        BY <1>1
      <4>. QED
        BY <4>1
    <3>2. Len(rest) \in Nat
      BY <2>1
    <3>3. Len(<<h[1]>> \o rest) = 1 + Len(rest)
      BY <2>1, <3>1, ConcatProperties
    <3>4. DOMAIN (<<h[1]>> \o rest) = 1 .. 1 + Len(rest)
      <4>1. <<h[1]>> \o rest \in Seq(Msg)
        BY <2>1, <3>1, ConcatProperties
      <4>. QED
        BY <4>1, <3>3, LenProperties
    <3>5. ASSUME NEW i \in 1 .. Len(rest)
          PROVE  (<<h[1]>> \o rest)[1 + i] = rest[i]
      <4> DEFINE a == <<h[1]>>
      <4>1. a \in Seq(Msg) /\ Len(a) = 1
        BY <3>1
      <4> HIDE DEF a
      <4>2. 1 + i \in 1 .. Len(a) + Len(rest) /\ ~(1 + i <= Len(a)) /\ 1 + i - Len(a) = i
        BY <3>2, <4>1
      <4>3. \A j \in 1 .. Len(a) + Len(rest) :
              (a \o rest)[j] = IF j <= Len(a) THEN a[j] ELSE rest[j - Len(a)]
        BY <2>1, <4>1, ConcatProperties
      <4>4. (a \o rest)[1 + i] = rest[1 + i - Len(a)]
        BY <4>2, <4>3
      <4>. QED
        BY <4>2, <4>4 DEF a
    <3>. QED
      BY <3>3, <3>4, <3>5
  <2>. QED
    BY <2>1, <2>2 DEF rest
<1>3. TokensFrom(h, k) = SumFunctionOnSet(f, k .. Len(h))
      /\ TokensFrom(t, 2) = SumFunctionOnSet(g, 2 .. Len(t))
  BY Zenon DEF TokensFrom
<1>4. ASSUME NEW i \in 1 .. n PROVE f[k - 1 + i] \in Nat /\ f[k - 1 + i] = g[1 + i]
  <2>1. k - 1 + i \in 1 .. Len(h) /\ 1 + i \in 1 .. 1 + n
    BY <1>1
  <2> HIDE DEF t, n
  <2>2. f[k - 1 + i] = Cost(h[k - 1 + i]) /\ g[1 + i] = Cost(t[1 + i])
    BY <1>1, <1>2, <2>1
  <2>. QED
    BY <1>1, <1>2, <2>1, <2>2, CostType
<1> HIDE DEF f, g, t
<1>5. k - 1 \in Nat /\ 1 \in Nat
  OBVIOUS
<1>6. SumFunctionOnSet(f, k - 1 + 1 .. k - 1 + n) = SumFunctionOnSet(g, 1 + 1 .. 1 + n)
  <2> DEFINE before == k - 1
             first == 1
  <2>1. before \in Nat /\ first \in Nat /\ n \in Nat
    BY <1>1, <1>5
  <2>2. Agree(f, before, g, first, n)
    BY <1>4 DEF Agree
  <2> HIDE DEF n, before, first
  <2>3. Stretch(f, before, n) = Stretch(g, first, n)
    BY <2>1, <2>2, SameSum
  <2>. QED
    BY <2>3 DEF Stretch, before, first
<1>7. k - 1 + 1 = k /\ k - 1 + n = Len(h) /\ 1 + 1 = 2 /\ 1 + n = Len(t)
  BY <1>1, <1>2
<1>. QED
  BY <1>3, <1>6, <1>7 DEF t

\* What TrimMessages returns fits, unless it is no more than two messages.
LEMMA TrimFits ==
  ASSUME NEW h \in Seq(Msg), h # <<>>, NEW t \in TrimMessages(h, HistoryTokens)
  PROVE  Len(t) <= 2 \/ TokensFrom(t, 1) <= HistoryTokens
<1>1. CASE Len(h) <= 2 \/ TokensFrom(h, 1) <= HistoryTokens
  BY <1>1 DEF TrimMessages
<1>2. CASE ~(Len(h) <= 2 \/ TokensFrom(h, 1) <= HistoryTokens)
  <2>1. PICK k \in 2 .. Len(h) : /\ Keepable(h, HistoryTokens, k)
                                  /\ t = <<h[1]>> \o SubSeq(h, k, Len(h))
    BY <1>2 DEF TrimMessages, Cutoffs
  <2>2. CASE k = Len(h)
    <3>1. Len(h) \in Nat /\ h[1] \in Msg /\ h[k] \in Msg
      BY <2>2
    <3>2. Len(SubSeq(h, k, Len(h))) = 1 /\ SubSeq(h, k, Len(h)) \in Seq(Msg)
      BY <2>2, <3>1
    <3>. QED
      BY <2>1, <3>1, <3>2
  <2>3. CASE TokensFrom(h, k) <= HistoryTokens - Cost(h[1])
    <3>1. t \in Seq(Msg) /\ t[1] = h[1] /\ t # <<>>
      BY TrimKeepsSuffix, EmptySeq
    <3>2. TokensFrom(t, 1) = Cost(h[1]) + TokensFrom(t, 2) /\ TokensFrom(t, 2) \in Nat
      <4>1. 1 \in 1 .. Len(t) /\ 1 + 1 = 2
        BY <3>1
      <4>2. TokensFrom(t, 1) = Cost(t[1]) + TokensFrom(t, 1 + 1) /\ TokensFrom(t, 1 + 1) \in Nat
        BY <3>1, <4>1, TokensOfTail
      <4>. QED
        BY <3>1, <4>1, <4>2
    <3>3. TokensFrom(t, 2) = TokensFrom(h, k)
      BY <2>1, TokensOfSuffix
    <3>4. Cost(h[1]) \in Nat /\ HistoryTokens \in Nat
      BY CostType, AgentConstants
    <3>. QED
      BY <2>3, <3>2, <3>3, <3>4
  <2>. QED
    BY <2>1, <2>2, <2>3 DEF Keepable
<1>. QED
  BY <1>1, <1>2

\* From the head of the loop to the generation the history is what was trimmed.
TrimmedHistoryFits ==
  pc \in {"pause", "generate"} =>
    Len(history) <= 2 \/ TokensFrom(history, 1) <= HistoryTokens

\* What is sent to the provider fits the budget of the history, or is no more than
\* the system prompt and one message (Run and TrimMessages).
THEOREM SentHistory == Spec => []SentHistoryFits
<1>1. Init => TrimmedHistoryFits
  BY DEF Init, TrimmedHistoryFits
<1>2. TypeOK /\ TrimmedHistoryFits /\ [Next]_vars => TrimmedHistoryFits'
  <2> SUFFICES ASSUME TypeOK, TrimmedHistoryFits, [Next]_vars,
                      pc' \in {"pause", "generate"}
               PROVE  Len(history') <= 2 \/ TokensFrom(history', 1) <= HistoryTokens
    BY DEF TrimmedHistoryFits
  <2>1. CASE BeginTurn
    BY <2>1, TrimFits DEF BeginTurn, TypeOK
  <2>2. CASE history' = history /\ pc \in {"pause", "generate"}
    BY <2>2 DEF TrimmedHistoryFits
  <2>3. BeginTurn \/ (history' = history /\ pc \in {"pause", "generate"})
    BY Zenon DEF Next, LoopStep, StartRun, ResetHistory, Cancel, StopAtHead, TimerFires,
       SleepCancelled, ReplyText, ReplyRepeated, ReplyCalls, GenerationFails, ExecuteCall,
       AcceptReply, Return, vars
  <2>. QED
    BY <2>1, <2>2, <2>3
<1>3. TrimmedHistoryFits => SentHistoryFits
  BY DEF TrimmedHistoryFits, SentHistoryFits
<1>. QED
  BY <1>1, <1>2, <1>3, TypeCorrect, PTL DEF Spec

=============================================================================
