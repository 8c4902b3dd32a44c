----------------------------- MODULE ModelCall -----------------------------
(***************************************************************************)
(* One call of a model over HTTP: Generate and GenerateStream of           *)
(* LocalProvider and AnthropicProvider (src/internal/llm/api.go,           *)
(* stream.go), which Agent.step chooses between                            *)
(* (src/internal/agent/agent.go:214).  The history is prepared for the     *)
(* provider, sent, and the reply is read: whole, or line by line while     *)
(* the caller is shown each piece of text.                                 *)
(*                                                                         *)
(* The server and the connection are the environment.  Content is reduced  *)
(* to what the reply must not lose or mix up: a message's content is a     *)
(* sequence of the contents merged into it, the n-th piece of text of a    *)
(* reply is the number n, and the input of tool block i is the sequence of *)
(* its fragments <<i, 1>>, <<i, 2>>, ...                                   *)
(***************************************************************************)
EXTENDS Integers, Sequences, FiniteSets, SequencesExt

CONSTANTS Calls,       \* the calls that are made: [provider, stream, history]
          MaxPieces,   \* bound: pieces of text the server sends
          MaxBlocks,   \* bound: content blocks the server opens
          MaxParts,    \* bound: fragments of the input of one block
          MaxFlaws,    \* bound: data lines that reach the reader damaged
          NoInput      \* the arguments of a call whose input did not parse

Providers == {"local", "anthropic"}
Roles == {"system", "user", "assistant", "tool"}

\* A history is a sequence of messages of the four roles; a message's content is a
\* sequence.
ASSUME CallConstants ==
  /\ {MaxPieces, MaxBlocks, MaxFlaws} \subseteq Nat /\ MaxParts \in Nat \ {0}
  /\ \A c \in Calls :
       /\ c.provider \in Providers /\ c.stream \in BOOLEAN
       /\ c.history \in Seq(ToSet(c.history))
       /\ \A m \in ToSet(c.history) :
            /\ m = [role |-> m.role, content |-> m.content]
            /\ m.role \in Roles /\ m.content \in Seq(ToSet(m.content))

VARIABLES call,        \* [provider, stream, history]: the arguments
          request,     \* [system, messages]: what is sent
          pc,          \* "prepare", "send", "read", "returned"
          event,       \* currentEvent of parseAnthropicSSE
          full,        \* the text assembled so far
          chunks,      \* what onChunk has been called with
          accumulators,\* toolAccumulators: the open tool blocks, by index
          toolBlocks,  \* the finished ones
          result,      \* [parts, failed]: what the call returns
          server       \* the server: what it has sent (see Silent)

vars == <<call, request, pc, event, full, chunks, accumulators, toolBlocks, result, server>>

ReaderVars == <<event, full, chunks, accumulators, toolBlocks>>
---------------------------------------------------------------------------
(* The request. *)

\* prepareAnthropicMessages: one step of its loop, and the loop.  The last system
\* message is the system prompt, a tool's message is the user's.
AsUser(message) == IF message.role = "tool" THEN [message EXCEPT !.role = "user"] ELSE message
Hear(heard, message) ==
  IF message.role = "system" THEN [heard EXCEPT !.system = message.content]
  ELSE [heard EXCEPT !.messages = Append(@, AsUser(message))]
Heard(history) == FoldLeft(Hear, [system |-> <<>>, messages |-> <<>>], history)

\* mergeConsecutiveMessages: one step of its loop, and the loop with the message
\* it still holds at the end.
MergeNext(state, message) ==
  IF message.role = state.current.role
  THEN [state EXCEPT !.current.content = @ \o message.content]
  ELSE [merged |-> Append(state.merged, state.current), current |-> message]
Merged(messages) ==
  IF Len(messages) <= 1 THEN messages
  ELSE LET end == FoldLeft(MergeNext, [merged |-> <<>>, current |-> Head(messages)], Tail(messages))
       IN  Append(end.merged, end.current)

\* A plausible slip: the tool's role is mapped after the merge.
MergedBeforeMapping(history) ==
  LET joined == Merged(SelectSeq(history, LAMBDA m : m.role # "system"))
  IN  [i \in DOMAIN joined |-> AsUser(joined[i])]
AnthropicMessages(history) == Merged(Heard(history).messages)

Prepared(provider, history) ==
  IF provider = "anthropic"
  THEN [system |-> Heard(history).system, messages |-> AnthropicMessages(history)]
  ELSE [system |-> <<>>, messages |-> history]
---------------------------------------------------------------------------
(* The reply. *)

\* json.Unmarshal of what was accumulated.  A fragment is a text that is not empty
\* (an empty one leaves the buffer as it is, whether it arrives or not).  All that
\* the server had to say parses, and the beginning of an object does not.  With a
\* fragment missing the rest may be an object or not: {"c":"a | b | z"} without its
\* second fragment is.
Whole(i, n) == [k \in 1..n |-> <<i, k>>]
Parsed(buffer, sent, cut) ==
  IF buffer = <<>> THEN {NoInput}
  ELSE IF Len(buffer) < sent THEN {NoInput, buffer}
  ELSE IF cut THEN {NoInput} ELSE {buffer}

\* formatAnthropicResponse of text and tool blocks; a text without content is
\* left out.
Text(pieces) == [kind |-> "text", pieces |-> pieces]
Call(i, input) == [kind |-> "call", id |-> i, input |-> input]
Formatted(blocks) == SelectSeq(blocks, LAMBDA b : b.kind = "call" \/ b.pieces # <<>>)

\* The text so far, and behind it the calls, of which formatAnthropicResponse
\* leaves none out.
TextSoFar == IF full = <<>> THEN <<>> ELSE <<Text(full)>>
StreamResult == TextSoFar \o toolBlocks
Return(parts, failed) ==
  /\ pc' = "returned"
  /\ result' = [parts |-> parts, failed |-> failed]

\* Nothing sent, nothing open.  pieces counts the pieces of text that arrived
\* undamaged, due that a data line is to follow an event line.
Silent == [blocks |-> <<>>, pieces |-> 0, due |-> FALSE, flaws |-> 0, finished |-> FALSE]

Init ==
  /\ call \in Calls
  /\ request = [system |-> <<>>, messages |-> <<>>]
  /\ pc = "prepare"
  /\ event = "none" /\ full = <<>> /\ chunks = <<>>
  /\ accumulators = <<>> /\ toolBlocks = <<>>
  /\ result = [parts |-> <<>>, failed |-> FALSE]
  /\ server = Silent

Prepare ==
  /\ pc = "prepare"
  /\ pc' = "send"
  /\ request' = Prepared(call.provider, call.history)
  /\ UNCHANGED <<call, ReaderVars, result, server>>

\* The request could not be made, or (streaming) was answered by another status
\* than 200, or (not streaming) by something that is no reply or names an error.
RequestFails ==
  /\ pc = "send"
  /\ Return(<<>>, TRUE)
  /\ UNCHANGED <<call, request, ReaderVars, server>>

\* The blocks of a whole reply: text that may be empty, and calls with or
\* without input.
WholeBlocks(provider) ==
  IF provider = "anthropic"
  THEN SeqOf({Text(<<>>), Text(<<1>>)} \cup {Call(1, NoInput), Call(1, Whole(1, 1))}, MaxBlocks) \ {<<>>}
  ELSE {<<Text(<<>>)>>, <<Text(<<1>>)>>}

Answered ==
  /\ pc = "send" /\ ~call.stream
  /\ \E blocks \in WholeBlocks(call.provider) : Return(Formatted(blocks), FALSE)
  /\ UNCHANGED <<call, request, ReaderVars, server>>

StreamOpens ==
  /\ pc = "send" /\ call.stream
  /\ pc' = "read"
  /\ UNCHANGED <<call, request, ReaderVars, result, server>>

\* A data line is undamaged, or there is a flaw left for it.
Damage(undamaged) ==
  \/ undamaged
  \/ ~undamaged /\ server.flaws < MaxFlaws
FlawsAfter(undamaged) == IF undamaged THEN server.flaws ELSE server.flaws + 1
---------------------------------------------------------------------------
(* parseOpenAISSE. *)

Reading(provider) == pc = "read" /\ call.provider = provider

\* A piece of text; without content, or damaged, the line is skipped.
ShowText(undamaged) ==
  LET piece == server.pieces + 1
  IN  /\ full' = IF undamaged THEN Append(full, piece) ELSE full
      /\ chunks' = IF undamaged THEN Append(chunks, piece) ELSE chunks
      /\ server.pieces < MaxPieces

LocalLine(undamaged) ==
  /\ Reading("local")
  /\ Damage(undamaged)
  /\ ShowText(undamaged)
  /\ server' = [server EXCEPT !.pieces = IF undamaged THEN @ + 1 ELSE @,
                              !.flaws = FlawsAfter(undamaged)]
  /\ UNCHANGED <<call, request, pc, event, accumulators, toolBlocks, result>>

\* data: [DONE]: the reader leaves the loop.
LocalDone ==
  /\ Reading("local")
  /\ Return(StreamResult, FALSE)
  /\ server' = [server EXCEPT !.finished = TRUE]
  /\ UNCHANGED <<call, request, ReaderVars>>
---------------------------------------------------------------------------
(* parseAnthropicSSE. *)

Blocks == DOMAIN server.blocks
OpenBlocks == {i \in Blocks : server.blocks[i].open}

\* Fields of a block as the server and an observer of the connection know it: how
\* many fragments were sent and which of them arrived, whether its start and its stop
\* arrived, and whether the server stopped in the middle of the input.
NewBlock(i, kind, seeded, undamaged) ==
  [kind |-> kind, seeded |-> seeded, parts |-> IF seeded THEN 1 ELSE 0, open |-> TRUE,
   started |-> undamaged, arrived |-> IF seeded /\ undamaged THEN Whole(i, 1) ELSE <<>>,
   cut |-> FALSE, stopped |-> FALSE]

\* An event line names what the next data line holds.
Events == {"content_block_start", "content_block_delta", "content_block_stop", "message_stop", "ping"}
AnthropicEvent(name) ==
  /\ Reading("anthropic")
  /\ ~server.due /\ ~server.finished
  /\ name = "content_block_start" => Len(server.blocks) < MaxBlocks
  /\ name \in {"content_block_delta", "content_block_stop"} => OpenBlocks # {}
  /\ event' = name
  /\ server' = [server EXCEPT !.due = TRUE]
  /\ UNCHANGED <<call, request, pc, full, chunks, accumulators, toolBlocks, result>>

DataLine(name, undamaged) ==
  /\ Reading("anthropic")
  /\ server.due /\ event = name
  /\ Damage(undamaged)

\* content_block_start: a tool block gets an accumulator, which holds its input
\* if the server sends it at once (it then sends no fragments).
BlockStarts(kind, seeded, undamaged) ==
  LET i == Len(server.blocks) + 1
  IN  /\ DataLine("content_block_start", undamaged)
      /\ seeded => kind = "tool"
      /\ accumulators' = IF undamaged /\ kind = "tool"
                         THEN [j \in DOMAIN accumulators \cup {i} |->
                                 IF j = i THEN IF seeded THEN Whole(i, 1) ELSE <<>>
                                 ELSE accumulators[j]]
                         ELSE accumulators
      /\ server' = [server EXCEPT !.blocks = Append(@, NewBlock(i, kind, seeded, undamaged)),
                                  !.due = FALSE, !.flaws = FlawsAfter(undamaged)]
      /\ UNCHANGED <<call, request, pc, event, full, chunks, toolBlocks, result>>

\* content_block_delta with text.
TextDelta(undamaged) ==
  /\ DataLine("content_block_delta", undamaged)
  /\ \E i \in OpenBlocks : server.blocks[i].kind = "text"
  /\ ShowText(undamaged)
  /\ server' = [server EXCEPT !.pieces = IF undamaged THEN @ + 1 ELSE @,
                              !.due = FALSE, !.flaws = FlawsAfter(undamaged)]
  /\ UNCHANGED <<call, request, pc, event, accumulators, toolBlocks, result>>

\* A plausible slip: a fragment goes to the accumulator opened last.
NewestAccumulator(i) == {j \in DOMAIN accumulators : \A k \in DOMAIN accumulators : k <= j}
Target(i) == {i} \cap DOMAIN accumulators

\* content_block_delta with a fragment of an input; a fragment for a block
\* without accumulator is dropped.
InputDelta(i, undamaged) ==
  LET part == server.blocks[i].parts + 1
  IN  /\ DataLine("content_block_delta", undamaged)
      /\ server.blocks[i].open /\ server.blocks[i].kind = "tool" /\ ~server.blocks[i].seeded
      /\ part <= MaxParts
      /\ accumulators' = [j \in DOMAIN accumulators |->
                            IF undamaged /\ j \in Target(i) THEN Append(accumulators[j], <<i, part>>)
                            ELSE accumulators[j]]
      /\ server' = [server EXCEPT !.blocks[i].parts = part,
                                  !.blocks[i].arrived =
                                    IF undamaged THEN Append(@, <<i, part>>) ELSE @,
                                  !.due = FALSE, !.flaws = FlawsAfter(undamaged)]
      /\ UNCHANGED <<call, request, pc, event, full, chunks, toolBlocks, result>>

\* A plausible slip: the accumulator of a finished block is kept.
NotDeleted(i) == DOMAIN accumulators
Remaining(i) == DOMAIN accumulators \ {i}

\* content_block_stop: the accumulator becomes a tool block and is deleted. A reply
\* that reaches the limit of its tokens stops in the middle of an input (cut).
BlockStops(i, cut, undamaged) ==
  LET block == server.blocks[i]
      known == undamaged /\ i \in DOMAIN accumulators
  IN  /\ DataLine("content_block_stop", undamaged)
      /\ block.open
      /\ cut => block.kind = "tool" /\ ~block.seeded
      /\ toolBlocks' \in IF known
                         THEN {Append(toolBlocks, Call(i, input)) :
                                 input \in Parsed(accumulators[i], block.parts, cut)}
                         ELSE {toolBlocks}
      /\ accumulators' = IF known
                         THEN [j \in Remaining(i) |-> accumulators[j]]
                         ELSE accumulators
      /\ server' = [server EXCEPT !.blocks[i].open = FALSE, !.blocks[i].stopped = undamaged,
                                  !.blocks[i].cut = cut,
                                  !.due = FALSE, !.flaws = FlawsAfter(undamaged)]
      /\ UNCHANGED <<call, request, pc, event, full, chunks, result>>

\* The data of message_stop, and of an event the reader does not know
\* (message_start, message_delta, ping, error): nothing is done with it.
OtherData(name) ==
  /\ name \in {"message_stop", "ping"}
  /\ DataLine(name, TRUE)
  /\ server' = [server EXCEPT !.due = FALSE, !.finished = @ \/ name = "message_stop"]
  /\ UNCHANGED <<call, request, pc, ReaderVars, result>>
---------------------------------------------------------------------------
\* The body ends, wherever the server is in it: the reply is returned.  What is
\* still in an accumulator is not part of it.
BodyEnds ==
  /\ pc = "read"
  /\ Return(StreamResult, FALSE)
  /\ UNCHANGED <<call, request, ReaderVars, server>>

\* The scanner fails: the connection breaks, the client's timeout expires, the
\* context is cancelled, a line is longer than its buffer.  The text so far is
\* returned beside the error, without the calls that are finished.
PartialResult == TextSoFar
ReadFails ==
  /\ pc = "read"
  /\ Return(PartialResult, TRUE)
  /\ UNCHANGED <<call, request, ReaderVars, server>>

Line(undamaged) ==
  \/ LocalLine(undamaged)
  \/ \E kind \in {"text", "tool"}, seeded \in BOOLEAN : BlockStarts(kind, seeded, undamaged)
  \/ TextDelta(undamaged)
  \/ \E i \in Blocks : \/ InputDelta(i, undamaged)
                       \/ \E cut \in BOOLEAN : BlockStops(i, cut, undamaged)

Next ==
  \/ Prepare \/ RequestFails \/ Answered \/ StreamOpens
  \/ \E undamaged \in BOOLEAN : Line(undamaged)
  \/ \E name \in Events : AnthropicEvent(name) \/ OtherData(name)
  \/ LocalDone \/ BodyEnds \/ ReadFails

Spec == Init /\ [][Next]_vars
---------------------------------------------------------------------------
\* Type invariant; an accumulator exists only for a block that the server has
\* begun and the reader has not seen stop.
TypeOK ==
  /\ call \in Calls
  /\ \A i \in DOMAIN request.messages : request.messages[i].role \in Roles
  /\ pc \in {"prepare", "send", "read", "returned"}
  /\ event \in Events \cup {"none"}
  /\ full \in Seq(1..MaxPieces) /\ chunks \in Seq(1..MaxPieces)
  /\ DOMAIN accumulators \subseteq {i \in Blocks : ~server.blocks[i].stopped}
  /\ \A i \in DOMAIN accumulators : accumulators[i] \in Seq(Blocks \X (1..MaxParts))
  /\ \A i \in DOMAIN toolBlocks : toolBlocks[i].kind = "call" /\ toolBlocks[i].id \in Blocks
  /\ result.failed \in BOOLEAN
  /\ server.pieces \in 0..MaxPieces /\ server.flaws \in 0..MaxFlaws

\* What a stream returns is what arrived and was shown: first its text, which is
\* every piece that arrived, as the caller was shown it; then, without an error, every
\* tool block that arrived from start to stop exactly once; with an error no call. A
\* call has the fragments of its own block that arrived, in their order, or no input,
\* however the blocks were interleaved: the complete input if none was lost, and none
\* if nothing arrived or the server stopped in the middle. An input with a fragment
\* missing may pass for one (parseAnthropicSSE, parseOpenAISSE).
ReplyIsWhole ==
  pc = "returned" /\ call.stream =>
    LET parts == result.parts
        calls == {k \in DOMAIN parts : parts[k].kind = "call"}
        arrived == {i \in Blocks : /\ server.blocks[i].kind = "tool"
                                   /\ server.blocks[i].started /\ server.blocks[i].stopped}
    IN  /\ chunks = [n \in 1..server.pieces |-> n]
        /\ chunks # <<>> => parts # <<>> /\ parts[1] = Text(chunks)
        /\ DOMAIN parts \ calls = IF chunks = <<>> THEN {} ELSE {1}
        /\ {parts[k].id : k \in calls} = IF result.failed THEN {} ELSE arrived
        /\ \A k, l \in calls : parts[k].id = parts[l].id => k = l
        /\ \A k \in calls :
             LET block == server.blocks[parts[k].id]
                 input == parts[k].input
                 lossless == Len(block.arrived) = block.parts
             IN  /\ input \in {NoInput, block.arrived}
                 /\ lossless /\ block.parts > 0 /\ ~block.cut =>
                      input = Whole(parts[k].id, block.parts)
                 /\ block.arrived = <<>> \/ (lossless /\ block.cut) => input = NoInput

\* What a sequence of messages says in some roles.
Said(roles, messages) ==
  FlattenSeq([i \in DOMAIN messages |->
                IF messages[i].role \in roles THEN messages[i].content ELSE <<>>])

\* What the Anthropic provider sends speaks in turns, as that API demands, and
\* says everything the conversation says besides the system prompt, in its order,
\* a tool's and the user's messages under the role user
\* (prepareAnthropicMessages, mergeConsecutiveMessages).
RequestKeepsHistory ==
  pc # "prepare" /\ call.provider = "anthropic" =>
    LET messages == request.messages
    IN  /\ \A i \in 1..(Len(messages) - 1) : messages[i].role # messages[i + 1].role
        /\ Said(Roles, messages) = Said({"user", "assistant", "tool"}, call.history)
        /\ Said({"user"}, messages) = Said({"user", "tool"}, call.history)
        /\ Said({"assistant"}, messages) = Said({"assistant"}, call.history)

=============================================================================
