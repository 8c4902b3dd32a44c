-------------------------- MODULE ModelCallProofs --------------------------
(***************************************************************************)
(* Proofs about ModelCall, for every conversation, every interleaving of   *)
(* blocks and every number of pieces, fragments and damaged lines: what a  *)
(* stream returns is what was sent and shown, and a prepared request says  *)
(* what the conversation says.                                             *)
(***************************************************************************)
EXTENDS ModelCall, FiniteSetTheorems, SequenceTheorems, WellFoundedInduction, TLAPS

-----------------------------------------------------------------------------
(***************************************************************************)
(* The reader                                                              *)
(***************************************************************************)
\* What the server knows of a block, and what it has sent.
BlockRecord == [kind : {"text", "tool"}, seeded : BOOLEAN, parts : 0 .. MaxParts, open : BOOLEAN,
                started : BOOLEAN, arrived : Seq(Nat \X (1 .. MaxParts)), cut : BOOLEAN,
                stopped : BOOLEAN]

\* What arrived of a block's input is all that was sent, or less.
Carries(i, b) ==
  /\ b.arrived \in Seq({i} \X (1 .. MaxParts))
  /\ Len(b.arrived) <= b.parts
  /\ Len(b.arrived) = b.parts => b.arrived = Whole(i, b.parts)
ServerShape ==
  /\ server \in [blocks : Seq(BlockRecord), pieces : 0 .. MaxPieces, due : BOOLEAN,
                 flaws : 0 .. MaxFlaws, finished : BOOLEAN]
  /\ \A i \in Blocks : server.blocks[i].stopped => ~server.blocks[i].open
  /\ \A i \in Blocks : Carries(i, server.blocks[i])

\* The tool blocks the reader has seen begin, and of these the ones it has seen stop.
Begun == {i \in Blocks : server.blocks[i].kind = "tool" /\ server.blocks[i].started}
Ended == {i \in Begun : server.blocks[i].stopped}

\* The text is every piece that arrived.
TextIsKnown == full = [n \in 1 .. server.pieces |-> n] /\ chunks = full

\* An accumulator holds what arrived of its own block's input.
InputsAreKnown ==
  /\ DOMAIN accumulators = Begun \ Ended
  /\ \A i \in DOMAIN accumulators : accumulators[i] = server.blocks[i].arrived

\* The calls a block may lead to.
CallsOf(i, b) == {Call(i, input) : input \in Parsed(b.arrived, b.parts, b.cut)}

\* The finished tool blocks are the ones that ended, each once, with its input.
CallsAreKnown ==
  /\ toolBlocks \in Seq(UNION {CallsOf(i, server.blocks[i]) : i \in Ended})
  /\ \A i \in Ended : \E k \in DOMAIN toolBlocks : toolBlocks[k].id = i
  /\ \A k, l \in DOMAIN toolBlocks : toolBlocks[k].id = toolBlocks[l].id => k = l

ReaderKnows == ServerShape /\ TextIsKnown /\ InputsAreKnown /\ CallsAreKnown

\* Where the call is.
CallShape ==
  /\ call \in Calls
  /\ pc \in {"prepare", "send", "read", "returned"}
  /\ event \in Events \cup {"none"}
  /\ result.failed \in BOOLEAN
  /\ pc \in {"prepare", "send"} => full = <<>>
  /\ pc = "prepare" => request.messages = <<>>
  /\ pc # "prepare" => request = Prepared(call.provider, call.history)
  /\ pc = "returned" /\ call.stream =>
       result.parts = IF result.failed THEN TextSoFar ELSE StreamResult

Invariant == CallShape /\ ReaderKnows

\* A complete input is a sequence of its fragments.
LEMMA WholeIsSeq ==
  ASSUME NEW i, NEW n \in 0 .. MaxParts
  PROVE  /\ Whole(i, n) \in Seq({i} \X (1 .. MaxParts)) /\ Len(Whole(i, n)) = n
         /\ Whole(i, n) = <<>> <=> n = 0
         /\ n < MaxParts => Append(Whole(i, n), <<i, n + 1>>) = Whole(i, n + 1)
<1>1. n \in Nat /\ MaxParts \in Nat
  BY CallConstants
<1>2. \A k \in 1 .. n : <<i, k>> \in {i} \X (1 .. MaxParts)
  BY <1>1
<1>3. Whole(i, n) \in Seq({i} \X (1 .. MaxParts)) /\ Len(Whole(i, n)) = n
  BY <1>1, <1>2 DEF Whole
<1>4. Whole(i, n) = <<>> <=> n = 0
  BY <1>3, EmptySeq
<1>5. Append(Whole(i, n), <<i, n + 1>>) = Whole(i, n + 1)
  <2> DEFINE w == Whole(i, n)
             a == Append(w, <<i, n + 1>>)
  <2>1. w \in Seq({i} \X Nat) /\ Len(w) = n /\ \A k \in 1 .. n : w[k] = <<i, k>>
    BY <1>1 DEF Whole
  <2> HIDE DEF w
  <2>2. /\ a \in Seq({i} \X Nat) /\ Len(a) = n + 1 /\ a[n + 1] = <<i, n + 1>>
        /\ \A k \in 1 .. n : a[k] = <<i, k>>
    BY <1>1, <2>1, AppendProperties
  <2> HIDE DEF a
  <2>3. \A k \in 1 .. n + 1 : a[k] = <<i, k>>
    BY <1>1, <2>2
  <2>4. a = [k \in 1 .. n + 1 |-> a[k]]
    BY <2>2
  <2>. QED
    BY <2>3, <2>4 DEF Whole, a, w
<1>. QED
  BY <1>3, <1>4, <1>5

\* One more piece of text.
LEMMA OneMorePiece ==
  ASSUME NEW n \in Nat, NEW s, s = [k \in 1 .. n |-> k]
  PROVE  Append(s, n + 1) = [k \in 1 .. n + 1 |-> k]
<1> DEFINE a == Append(s, n + 1)
<1>1. s \in Seq(Nat) /\ Len(s) = n /\ \A k \in 1 .. n : s[k] = k
  OBVIOUS
<1>2. /\ a \in Seq(Nat) /\ Len(a) = n + 1 /\ a[n + 1] = n + 1 /\ \A k \in 1 .. n : a[k] = k
  BY <1>1, AppendProperties
<1> HIDE DEF a
<1>3. \A k \in 1 .. n + 1 : a[k] = k
  BY <1>2
<1>4. a = [k \in 1 .. n + 1 |-> a[k]]
  BY <1>2
<1>. QED
  BY <1>3, <1>4 DEF a

\* What a call's input may be, from the fragments that arrived.
LEMMA ParsedIsInput ==
  ASSUME NEW i, NEW b \in BlockRecord, Carries(i, b), NEW input \in Parsed(b.arrived, b.parts, b.cut)
  PROVE  /\ input \in {NoInput, b.arrived}
         /\ Len(b.arrived) = b.parts /\ b.parts > 0 /\ ~b.cut => input = Whole(i, b.parts)
         /\ b.arrived = <<>> \/ (Len(b.arrived) = b.parts /\ b.cut) => input = NoInput
<1>1. b.parts \in Nat /\ b.arrived \in Seq({i} \X (1 .. MaxParts)) /\ Len(b.arrived) \in Nat
  BY CallConstants DEF BlockRecord, Carries
<1>2. b.arrived = <<>> => Len(b.arrived) = 0
  OBVIOUS
<1>. QED
  BY <1>1, <1>2 DEF Parsed, Carries

\* What the reader knows does not depend on the rest.
LEMMA NothingRead ==
  ASSUME ReaderKnows, UNCHANGED <<full, chunks, accumulators, toolBlocks>>,
         server'.blocks = server.blocks, server'.pieces = server.pieces,
         server' \in [blocks : Seq(BlockRecord), pieces : 0 .. MaxPieces, due : BOOLEAN,
                      flaws : 0 .. MaxFlaws, finished : BOOLEAN]
  PROVE  ReaderKnows'
<1>1. Blocks' = Blocks
  BY DEF Blocks
<1>2. Begun' = Begun /\ Ended' = Ended
  BY <1>1 DEF Begun, Ended
<1>3. ServerShape' /\ TextIsKnown'
  BY <1>1 DEF ReaderKnows, ServerShape, TextIsKnown
<1>4. InputsAreKnown'
  BY <1>2 DEF ReaderKnows, InputsAreKnown
<1>5. CallsAreKnown'
  BY <1>2 DEF ReaderKnows, CallsAreKnown
<1>. QED
  BY <1>3, <1>4, <1>5 DEF ReaderKnows

\* A piece of text arrives, or is lost.
LEMMA TextArrives ==
  ASSUME ReaderKnows, NEW undamaged \in BOOLEAN, ShowText(undamaged),
         NEW due \in BOOLEAN, NEW flaws \in 0 .. MaxFlaws,
         UNCHANGED <<accumulators, toolBlocks>>,
         server' = [server EXCEPT !.pieces = IF undamaged THEN @ + 1 ELSE @,
                                  !.due = due, !.flaws = flaws]
  PROVE  ReaderKnows'
<1>1. server \in [blocks : Seq(BlockRecord), pieces : 0 .. MaxPieces, due : BOOLEAN,
                  flaws : 0 .. MaxFlaws, finished : BOOLEAN]
  BY DEF ReaderKnows, ServerShape
<1>2. /\ server'.blocks = server.blocks
      /\ server'.pieces = IF undamaged THEN server.pieces + 1 ELSE server.pieces
      /\ server.pieces < MaxPieces /\ MaxPieces \in Nat
      /\ server' \in [blocks : Seq(BlockRecord), pieces : 0 .. MaxPieces, due : BOOLEAN,
                      flaws : 0 .. MaxFlaws, finished : BOOLEAN]
  <2> DEFINE n == IF undamaged THEN server.pieces + 1 ELSE server.pieces
  <2>1. server.pieces < MaxPieces /\ MaxPieces \in Nat /\ server.pieces \in Nat
    BY <1>1, CallConstants DEF ShowText
  <2>2. n \in 0 .. MaxPieces
    BY <2>1
  <2>3. server' = [server EXCEPT !.pieces = n, !.due = due, !.flaws = flaws]
    OBVIOUS
  <2> HIDE DEF n
  <2>4. server' \in [blocks : Seq(BlockRecord), pieces : 0 .. MaxPieces, due : BOOLEAN,
                     flaws : 0 .. MaxFlaws, finished : BOOLEAN]
        /\ server'.blocks = server.blocks /\ server'.pieces = n
    BY <1>1, <2>2, <2>3
  <2>. QED
    BY <2>1, <2>4 DEF n
<1>3. CASE ~undamaged
  BY <1>2, <1>3, NothingRead DEF ShowText
<1>4. CASE undamaged
  <2>1. TextIsKnown'
    <3>1. full = [n \in 1 .. server.pieces |-> n] /\ chunks = full /\ server.pieces \in Nat
      BY <1>1, <1>2 DEF ReaderKnows, TextIsKnown
    <3>2. Append(full, server.pieces + 1) = [n \in 1 .. server.pieces + 1 |-> n]
      BY <3>1, OneMorePiece
    <3>3. full' = Append(full, server.pieces + 1) /\ chunks' = Append(chunks, server.pieces + 1)
      BY <1>4 DEF ShowText
    <3>. QED
      BY <1>2, <1>4, <3>1, <3>2, <3>3 DEF TextIsKnown
  <2>2. Blocks' = Blocks
    BY <1>2 DEF Blocks
  <2>3. Begun' = Begun /\ Ended' = Ended
    BY <1>2, <2>2 DEF Begun, Ended
  <2>4. ServerShape' /\ InputsAreKnown' /\ CallsAreKnown'
    BY <1>2, <2>2, <2>3 DEF ReaderKnows, ServerShape, InputsAreKnown, CallsAreKnown
  <2>. QED
    BY <2>1, <2>4 DEF ReaderKnows
<1>. QED
  BY <1>3, <1>4

\* What is true of the blocks by their records.
LEMMA BlockFacts ==
  ASSUME ReaderKnows
  PROVE  /\ server.blocks \in Seq(BlockRecord) /\ Blocks = 1 .. Len(server.blocks)
         /\ Len(server.blocks) \in Nat
         /\ \A i \in Blocks : server.blocks[i] \in BlockRecord
BY DEF ReaderKnows, ServerShape, Blocks

\* A block begins, or its begin is lost.
LEMMA BlockBegins ==
  ASSUME ReaderKnows, NEW kind \in {"text", "tool"}, NEW seeded \in BOOLEAN,
         NEW undamaged \in BOOLEAN, BlockStarts(kind, seeded, undamaged),
         FlawsAfter(undamaged) \in 0 .. MaxFlaws
  PROVE  ReaderKnows'
<1> DEFINE i == Len(server.blocks) + 1
           b == NewBlock(i, kind, seeded, undamaged)
           S == [blocks : Seq(BlockRecord), pieces : 0 .. MaxPieces, due : BOOLEAN,
                 flaws : 0 .. MaxFlaws, finished : BOOLEAN]
<1>1. /\ accumulators' = IF undamaged /\ kind = "tool"
                         THEN [j \in DOMAIN accumulators \cup {i} |->
                                 IF j = i THEN IF seeded THEN Whole(i, 1) ELSE <<>>
                                 ELSE accumulators[j]]
                         ELSE accumulators
      /\ server' = [server EXCEPT !.blocks = Append(@, b), !.due = FALSE,
                                  !.flaws = FlawsAfter(undamaged)]
      /\ UNCHANGED <<full, chunks, toolBlocks>>
  BY DEF BlockStarts
<1>2. 1 \in 0 .. MaxParts /\ 0 \in 0 .. MaxParts
  BY CallConstants
<1>4. server \in S
  BY DEF ReaderKnows, ServerShape
<1>5. /\ server.blocks \in Seq(BlockRecord) /\ Blocks = 1 .. Len(server.blocks)
      /\ Len(server.blocks) \in Nat
  BY BlockFacts
<1>0. /\ Whole(i, 1) \in Seq({i} \X (1 .. MaxParts)) /\ Len(Whole(i, 1)) = 1
      /\ Whole(i, 0) \in Seq({i} \X (1 .. MaxParts)) /\ Whole(i, 0) = <<>>
  BY <1>2, WholeIsSeq
<1>3. /\ b \in BlockRecord /\ b.kind = kind /\ b.started = undamaged
      /\ b.arrived = IF seeded /\ undamaged THEN Whole(i, 1) ELSE <<>>
      /\ b.stopped = FALSE /\ b.parts = IF seeded THEN 1 ELSE 0
  <2> DEFINE a == IF seeded /\ undamaged THEN Whole(i, 1) ELSE <<>>
  <2>1. i \in Nat /\ {i} \X (1 .. MaxParts) \in SUBSET (Nat \X (1 .. MaxParts))
    BY <1>5
  <2>2. a \in Seq({i} \X (1 .. MaxParts))
    BY <1>0
  <2> HIDE DEF a
  <2>3. a \in Seq(Nat \X (1 .. MaxParts))
    BY <2>1, <2>2, SeqMonotonic
  <2> DEFINE n == IF seeded THEN 1 ELSE 0
  <2>4. b = [kind |-> kind, seeded |-> seeded, parts |-> n, open |-> TRUE,
             started |-> undamaged, arrived |-> a, cut |-> FALSE, stopped |-> FALSE]
    BY DEF NewBlock, a
  <2>5. n \in 0 .. MaxParts
    BY <1>2
  <2> HIDE DEF b, n, i
  <2>6. b \in BlockRecord
    BY <2>3, <2>4, <2>5 DEF BlockRecord
  <2>. QED
    BY <2>4, <2>6 DEF a, n
<1> HIDE DEF b
<1>15. Carries(i, b)
  <2> HIDE DEF i
  <2>1. CASE seeded /\ undamaged
    <3>1. b.arrived = Whole(i, 1) /\ b.parts = 1
      BY <1>3, <2>1
    <3>. QED
      BY <1>0, <3>1 DEF Carries
  <2>2. CASE ~(seeded /\ undamaged)
    <3>1. b.arrived = <<>> /\ Len(b.arrived) = 0
      BY <1>3, <2>2
    <3>. QED
      BY <1>0, <1>3, <3>1 DEF Carries
  <2>. QED
    BY <2>1, <2>2
<1>6. /\ server'.blocks = Append(server.blocks, b) /\ server'.pieces = server.pieces
      /\ server' \in S
  <2> DEFINE cs == Append(server.blocks, b)
             f == FlawsAfter(undamaged)
  <2>1. cs \in Seq(BlockRecord)
    BY <1>3, <1>5, AppendProperties
  <2>2. server' = [server EXCEPT !.blocks = cs, !.due = FALSE, !.flaws = f]
    BY <1>1, <1>4
  <2>3. f \in 0 .. MaxFlaws
    OBVIOUS
  <2> HIDE DEF cs, f
  <2>4. server' \in S /\ server'.blocks = cs /\ server'.pieces = server.pieces
    BY <1>4, <2>1, <2>2, <2>3
  <2>. QED
    BY <2>4 DEF cs
<1>7. /\ Blocks' = Blocks \cup {i} /\ i \notin Blocks /\ server'.blocks[i] = b
      /\ \A j \in Blocks : server'.blocks[j] = server.blocks[j]
  <2> DEFINE bs == server.blocks
             cs == Append(bs, b)
  <2>1. bs \in Seq(BlockRecord) /\ Len(bs) \in Nat
    BY <1>5
  <2> HIDE DEF bs
  <2>2. /\ cs \in Seq(BlockRecord) /\ Len(cs) = Len(bs) + 1 /\ cs[Len(bs) + 1] = b
        /\ \A j \in 1 .. Len(bs) : cs[j] = bs[j]
        /\ DOMAIN cs = 1 .. Len(bs) + 1
    BY <1>3, <2>1, AppendProperties
  <2> HIDE DEF cs
  <2>3. 1 .. Len(bs) + 1 = 1 .. Len(bs) \cup {Len(bs) + 1} /\ Len(bs) + 1 \notin 1 .. Len(bs)
    BY <2>1
  <2>4. server'.blocks = cs
    BY <1>6 DEF cs, bs
  <2>. QED
    BY <1>5, <2>2, <2>3, <2>4 DEF Blocks, bs
<1> HIDE DEF i, S
<1>8. ServerShape'
  BY <1>3, <1>6, <1>7, <1>15 DEF ReaderKnows, ServerShape, S
<1>9. TextIsKnown'
  BY <1>1, <1>6 DEF ReaderKnows, TextIsKnown
<1>10. /\ Begun' = IF undamaged /\ kind = "tool" THEN Begun \cup {i} ELSE Begun
       /\ Ended' = Ended
  <2>1. \A j \in Blocks' : j \in Begun' <=> server'.blocks[j].kind = "tool" /\ server'.blocks[j].started
    BY DEF Begun
  <2>2. i \in Begun' <=> undamaged /\ kind = "tool"
    BY <1>3, <1>7, <2>1
  <2>3. \A j \in Blocks : j \in Begun' <=> j \in Begun
    BY <1>7, <2>1 DEF Begun
  <2>4. Begun' \subseteq Blocks' /\ Begun \subseteq Blocks
    BY DEF Begun
  <2>5. Begun' = IF undamaged /\ kind = "tool" THEN Begun \cup {i} ELSE Begun
    BY <1>7, <2>2, <2>3, <2>4
  <2>6. \A j \in Blocks' : j \in Ended' <=> j \in Begun' /\ server'.blocks[j].stopped
    BY <2>4 DEF Ended
  <2>7. Ended' \subseteq Blocks' /\ Ended \subseteq Blocks
    BY <2>4 DEF Ended
  <2>8. Ended' = Ended
    <3>1. i \notin Ended'
      BY <1>3, <1>7, <2>6
    <3>2. \A j \in Blocks : j \in Ended' <=> j \in Ended
      BY <1>7, <2>3, <2>6 DEF Ended
    <3>. QED
      BY <1>7, <2>7, <3>1, <3>2
  <2>. QED
    BY <2>5, <2>8
<1>11. Begun \subseteq Blocks /\ Ended \subseteq Blocks
  BY DEF Begun, Ended
<1>12. InputsAreKnown'
  <2>1. DOMAIN accumulators' = Begun' \ Ended'
    BY <1>1, <1>7, <1>10, <1>11 DEF ReaderKnows, InputsAreKnown
  <2>2. ASSUME NEW j \in DOMAIN accumulators, j # i
        PROVE  accumulators'[j] = server'.blocks[j].arrived
    <3>1. j \in Blocks /\ accumulators'[j] = accumulators[j]
      BY <1>1, <1>11, <2>2 DEF ReaderKnows, InputsAreKnown
    <3>. QED
      BY <1>7, <3>1 DEF ReaderKnows, InputsAreKnown
  <2>3. ASSUME undamaged, kind = "tool"
        PROVE  accumulators'[i] = server'.blocks[i].arrived
    BY <1>1, <1>3, <1>7, <2>3
  <2>4. \A j \in DOMAIN accumulators' : j \in DOMAIN accumulators \/ (j = i /\ undamaged /\ kind = "tool")
    BY <1>1
  <2>5. i \notin DOMAIN accumulators
    BY <1>7, <1>11 DEF ReaderKnows, InputsAreKnown
  <2>. QED
    BY <2>1, <2>2, <2>3, <2>4, <2>5 DEF InputsAreKnown
<1>13. CallsAreKnown'
  <2>1. \A j \in Ended : server'.blocks[j] = server.blocks[j]
    BY <1>7, <1>11
  <2>2. {CallsOf(j, server'.blocks[j]) : j \in Ended} = {CallsOf(j, server.blocks[j]) : j \in Ended}
    BY <2>1
  <2>. QED
    BY <1>1, <1>10, <2>2 DEF ReaderKnows, CallsAreKnown
<1>. QED
  BY <1>8, <1>9, <1>12, <1>13 DEF ReaderKnows

\* A block changes: what is true of the others stays true.
LEMMA OneBlock ==
  ASSUME ReaderKnows, NEW i \in Blocks, NEW b \in BlockRecord,
         b.kind = server.blocks[i].kind, b.started = server.blocks[i].started,
         NEW flaws \in 0 .. MaxFlaws, b.stopped => ~b.open, Carries(i, b),
         UNCHANGED <<full, chunks>>,
         server' = [server EXCEPT !.blocks = [@ EXCEPT ![i] = b], !.due = FALSE, !.flaws = flaws]
  PROVE  /\ ServerShape' /\ TextIsKnown' /\ Blocks' = Blocks /\ Begun' = Begun
         /\ server'.blocks[i] = b
         /\ \A j \in Blocks \ {i} : server'.blocks[j] = server.blocks[j]
         /\ Ended' = IF b.stopped /\ i \in Begun THEN Ended \cup {i} ELSE Ended \ {i}
<1> DEFINE S == [blocks : Seq(BlockRecord), pieces : 0 .. MaxPieces, due : BOOLEAN,
                 flaws : 0 .. MaxFlaws, finished : BOOLEAN]
           bs == server.blocks
           cs == [bs EXCEPT ![i] = b]
<1>1. server \in S
  BY DEF ReaderKnows, ServerShape
<1>2. bs \in Seq(BlockRecord) /\ Blocks = DOMAIN bs
  BY BlockFacts DEF Blocks
<1>3. server' = [server EXCEPT !.blocks = cs, !.due = FALSE, !.flaws = flaws]
  OBVIOUS
<1> HIDE DEF bs
<1>4. /\ cs \in Seq(BlockRecord) /\ DOMAIN cs = DOMAIN bs /\ cs[i] = b
      /\ \A j \in DOMAIN bs \ {i} : cs[j] = bs[j]
  BY <1>2, ExceptSeq
<1> HIDE DEF cs
<1>5. server' \in S /\ server'.blocks = cs /\ server'.pieces = server.pieces
  BY <1>1, <1>3, <1>4
<1>6. Blocks' = Blocks
  BY <1>2, <1>4, <1>5 DEF Blocks
<1>7. /\ server'.blocks[i] = b
      /\ \A j \in Blocks \ {i} : server'.blocks[j] = server.blocks[j]
  BY <1>2, <1>4, <1>5 DEF bs
<1> HIDE DEF S
<1>8. ServerShape'
  <2>1. \A j \in Blocks : /\ server'.blocks[j].stopped => ~server'.blocks[j].open
                          /\ Carries(j, server'.blocks[j])
    BY <1>7 DEF ReaderKnows, ServerShape
  <2>. QED
    BY <1>5, <1>6, <2>1 DEF ServerShape, S
<1>9. TextIsKnown'
  BY <1>5 DEF ReaderKnows, TextIsKnown
<1>10. Begun' = Begun
  <2>1. \A j \in Blocks : /\ server'.blocks[j].kind = server.blocks[j].kind
                          /\ server'.blocks[j].started = server.blocks[j].started
    BY <1>7
  <2>. QED
    BY <1>6, <2>1 DEF Begun
<1>11. Ended' = IF b.stopped /\ i \in Begun THEN Ended \cup {i} ELSE Ended \ {i}
  <2>1. \A j : j \in Ended' <=> j \in Begun /\ server'.blocks[j].stopped
    BY <1>10 DEF Ended
  <2>2. \A j : j \in Ended <=> j \in Begun /\ server.blocks[j].stopped
    BY DEF Ended
  <2>3. Begun \subseteq Blocks
    BY DEF Begun
  <2>4. \A j \in Blocks \ {i} : j \in Ended' <=> j \in Ended
    BY <1>7, <2>1, <2>2
  <2>5. i \in Ended' <=> b.stopped /\ i \in Begun
    BY <1>7, <2>1
  <2>6. Ended \subseteq Blocks /\ Ended' \subseteq Blocks
    BY <2>1, <2>2, <2>3
  <2>. QED
    BY <2>4, <2>5, <2>6
<1>. QED
  BY <1>6, <1>7, <1>8, <1>9, <1>10, <1>11

\* A fragment of an input arrives, or is lost.
LEMMA InputArrives ==
  ASSUME ReaderKnows, NEW i \in Blocks, NEW undamaged \in BOOLEAN, InputDelta(i, undamaged),
         FlawsAfter(undamaged) \in 0 .. MaxFlaws
  PROVE  ReaderKnows'
<1> DEFINE part == server.blocks[i].parts + 1
           old == server.blocks[i]
           now == IF undamaged THEN Append(old.arrived, <<i, part>>) ELSE old.arrived
           b == [old EXCEPT !.parts = part, !.arrived = now]
<1>1. /\ old.open /\ old.kind = "tool" /\ part <= MaxParts
      /\ accumulators' = [j \in DOMAIN accumulators |->
                            IF undamaged /\ j \in Target(i) THEN Append(accumulators[j], <<i, part>>)
                            ELSE accumulators[j]]
      /\ server' = [server EXCEPT !.blocks[i].parts = part,
                                  !.blocks[i].arrived = IF undamaged THEN Append(@, <<i, part>>) ELSE @,
                                  !.due = FALSE, !.flaws = FlawsAfter(undamaged)]
      /\ UNCHANGED <<full, chunks, toolBlocks>>
  BY DEF InputDelta
<1>2. old \in BlockRecord /\ (old.stopped => ~old.open) /\ Carries(i, old) /\ i \in Nat
  BY BlockFacts DEF ReaderKnows, ServerShape
<1>3. /\ part \in 0 .. MaxParts /\ old.parts \in 0 .. MaxParts /\ part \in 1 .. MaxParts
      /\ part = old.parts + 1 /\ old.parts \in Nat /\ MaxParts \in Nat
  <2>1. old.parts \in 0 .. MaxParts
    BY <1>2 DEF BlockRecord
  <2>2. part = old.parts + 1 /\ part <= MaxParts /\ MaxParts \in Nat
    BY <1>1, CallConstants
  <2> HIDE DEF old, part
  <2>. QED
    BY <2>1, <2>2
<1>12. /\ now \in Seq({i} \X (1 .. MaxParts)) /\ Len(now) <= part
       /\ Len(now) = part => now = Whole(i, part)
  <2> DEFINE a == old.arrived
             x == <<i, part>>
  <2>1. /\ a \in Seq({i} \X (1 .. MaxParts)) /\ Len(a) <= old.parts /\ Len(a) \in Nat
        /\ Len(a) = old.parts => a = Whole(i, old.parts)
    BY <1>2 DEF Carries
  <2>2. x \in {i} \X (1 .. MaxParts) /\ now = IF undamaged THEN Append(a, x) ELSE a
    BY <1>3
  <2> HIDE DEF a, now, old, part
  <2>3. Append(a, x) \in Seq({i} \X (1 .. MaxParts)) /\ Len(Append(a, x)) = Len(a) + 1
    BY <2>1, <2>2, AppendProperties
  <2>4. old.parts < MaxParts => Append(Whole(i, old.parts), <<i, old.parts + 1>>) = Whole(i, old.parts + 1)
    BY <1>3, WholeIsSeq
  <2>5. CASE undamaged
    <3>1. now = Append(a, x) /\ Len(now) = Len(a) + 1 /\ now \in Seq({i} \X (1 .. MaxParts))
      BY <2>2, <2>3, <2>5
    <3>2. Len(now) = part => now = Whole(i, part)
      <4>1. SUFFICES ASSUME Len(now) = part PROVE now = Whole(i, part)
        OBVIOUS
      <4>2. Len(a) = old.parts /\ old.parts < MaxParts
        BY <1>3, <2>1, <3>1, <4>1
      <4>. QED
        BY <1>3, <2>1, <2>4, <3>1, <4>2
    <3>. QED
      BY <1>3, <2>1, <3>1, <3>2
  <2>6. CASE ~undamaged
    BY <1>3, <2>1, <2>2, <2>6
  <2>. QED
    BY <2>5, <2>6
<1>13. now \in Seq(Nat \X (1 .. MaxParts))
  <2>1. {i} \X (1 .. MaxParts) \in SUBSET (Nat \X (1 .. MaxParts))
    BY <1>2
  <2> HIDE DEF now
  <2>. QED
    BY <1>12, <2>1, SeqMonotonic
<1>4. /\ b \in BlockRecord /\ b.kind = old.kind /\ b.started = old.started /\ b.stopped = old.stopped
      /\ b.open = old.open /\ b.parts = part /\ b.arrived = now
  <2> HIDE DEF now, old, part
  <2>. QED
    BY <1>2, <1>3, <1>13 DEF BlockRecord
<1>14. Carries(i, b)
  <2> HIDE DEF now, b
  <2>. QED
    BY <1>4, <1>12 DEF Carries
<1>5. server \in [blocks : Seq(BlockRecord), pieces : 0 .. MaxPieces, due : BOOLEAN,
                  flaws : 0 .. MaxFlaws, finished : BOOLEAN]
  BY DEF ReaderKnows, ServerShape
<1>6. server' = [server EXCEPT !.blocks = [@ EXCEPT ![i] = b], !.due = FALSE,
                               !.flaws = FlawsAfter(undamaged)]
  BY <1>1, <1>5, BlockFacts DEF Blocks
<1> HIDE DEF b, old, part, now
<1>7. /\ ServerShape' /\ TextIsKnown' /\ Begun' = Begun /\ server'.blocks[i] = b
      /\ \A j \in Blocks \ {i} : server'.blocks[j] = server.blocks[j]
      /\ Ended' = IF b.stopped /\ i \in Begun THEN Ended \cup {i} ELSE Ended \ {i}
  <2>1. b.stopped => ~b.open
    BY <1>2, <1>4
  <2>2. b.kind = server.blocks[i].kind /\ b.started = server.blocks[i].started
    BY <1>4 DEF old
  <2>. QED
    BY <1>1, <1>4, <1>6, <1>14, <2>1, <2>2, OneBlock
<1>8. ~old.stopped /\ i \notin Ended /\ Ended' = Ended
  BY <1>1, <1>2, <1>4, <1>7 DEF Ended, old
<1>9. InputsAreKnown'
  <2>1. DOMAIN accumulators' = Begun' \ Ended'
    BY <1>1, <1>7, <1>8 DEF ReaderKnows, InputsAreKnown
  <2>2. ASSUME NEW j \in DOMAIN accumulators, j # i
        PROVE  accumulators'[j] = server'.blocks[j].arrived
    <3>1. accumulators'[j] = accumulators[j] /\ j \in Blocks
      BY <1>1, <2>2 DEF Target, ReaderKnows, InputsAreKnown, Begun
    <3>. QED
      BY <1>7, <2>2, <3>1 DEF ReaderKnows, InputsAreKnown
  <2>3. ASSUME i \in DOMAIN accumulators
        PROVE  accumulators'[i] = b.arrived
    <3>1. accumulators[i] = old.arrived
      BY <2>3 DEF ReaderKnows, InputsAreKnown, old
    <3>. QED
      BY <1>1, <1>4, <2>3, <3>1 DEF Target, now
  <2>4. DOMAIN accumulators' = DOMAIN accumulators
    BY <1>1
  <2>. QED
    BY <1>7, <2>1, <2>2, <2>3, <2>4 DEF InputsAreKnown
<1>10. CallsAreKnown'
  <2>1. \A j \in Ended : server'.blocks[j] = server.blocks[j]
    BY <1>7, <1>8 DEF Ended, Begun
  <2>2. {CallsOf(j, server'.blocks[j]) : j \in Ended} = {CallsOf(j, server.blocks[j]) : j \in Ended}
    BY <2>1
  <2>. QED
    BY <1>1, <1>8, <2>2 DEF ReaderKnows, CallsAreKnown
<1>. QED
  BY <1>7, <1>9, <1>10 DEF ReaderKnows

\* A block stops, or its stop is lost.
LEMMA BlockEnds ==
  ASSUME ReaderKnows, NEW i \in Blocks, NEW cut \in BOOLEAN, NEW undamaged \in BOOLEAN,
         BlockStops(i, cut, undamaged),
         FlawsAfter(undamaged) \in 0 .. MaxFlaws
  PROVE  ReaderKnows'
<1> DEFINE known == undamaged /\ i \in DOMAIN accumulators
           old == server.blocks[i]
           b == [old EXCEPT !.open = FALSE, !.stopped = undamaged, !.cut = cut]
<1>1. /\ old.open
      /\ ~known => toolBlocks' = toolBlocks
      /\ known => \E input \in Parsed(accumulators[i], old.parts, cut) :
                    toolBlocks' = Append(toolBlocks, Call(i, input))
      /\ accumulators' = IF known THEN [j \in DOMAIN accumulators \ {i} |-> accumulators[j]]
                         ELSE accumulators
      /\ server' = [server EXCEPT !.blocks[i].open = FALSE, !.blocks[i].stopped = undamaged,
                                  !.blocks[i].cut = cut, !.due = FALSE, !.flaws = FlawsAfter(undamaged)]
      /\ UNCHANGED <<full, chunks>>
  BY DEF BlockStops, Remaining
<1>2. old \in BlockRecord /\ (old.stopped => ~old.open) /\ Carries(i, old)
  BY BlockFacts DEF ReaderKnows, ServerShape
<1>3. /\ b \in BlockRecord /\ b.kind = old.kind /\ b.started = old.started /\ b.stopped = undamaged
      /\ ~b.open /\ b.parts = old.parts /\ b.arrived = old.arrived /\ b.cut = cut
  BY <1>2 DEF BlockRecord
<1>16. Carries(i, b)
  BY <1>2, <1>3 DEF Carries
<1>4. server \in [blocks : Seq(BlockRecord), pieces : 0 .. MaxPieces, due : BOOLEAN,
                  flaws : 0 .. MaxFlaws, finished : BOOLEAN]
  BY DEF ReaderKnows, ServerShape
<1>5. server' = [server EXCEPT !.blocks = [@ EXCEPT ![i] = b], !.due = FALSE,
                               !.flaws = FlawsAfter(undamaged)]
  BY <1>1, <1>4, BlockFacts DEF Blocks
<1> HIDE DEF b, old
<1>6. /\ ServerShape' /\ TextIsKnown' /\ Begun' = Begun /\ server'.blocks[i] = b
      /\ \A j \in Blocks \ {i} : server'.blocks[j] = server.blocks[j]
      /\ Ended' = IF b.stopped /\ i \in Begun THEN Ended \cup {i} ELSE Ended \ {i}
  <2>1. b.kind = server.blocks[i].kind /\ b.started = server.blocks[i].started
    BY <1>3 DEF old
  <2>. QED
    BY <1>1, <1>3, <1>5, <1>16, <2>1, OneBlock
<1>7. i \notin Ended
  BY <1>1, <1>2 DEF Ended, old
<1>8. DOMAIN accumulators = Begun \ Ended
  BY DEF ReaderKnows, InputsAreKnown
<1>9. Ended' = IF known THEN Ended \cup {i} ELSE Ended
  BY <1>3, <1>6, <1>7, <1>8
<1>10. InputsAreKnown'
  <2>1. DOMAIN accumulators' = Begun' \ Ended'
    BY <1>1, <1>6, <1>8, <1>9
  <2>2. ASSUME NEW j \in DOMAIN accumulators'
        PROVE  accumulators'[j] = server'.blocks[j].arrived
    <3>1. accumulators'[j] = accumulators[j] /\ j \in DOMAIN accumulators /\ j \in Blocks
      BY <1>1, <1>8, <2>2 DEF Begun
    <3>2. accumulators[j] = server.blocks[j].arrived
      BY <3>1 DEF ReaderKnows, InputsAreKnown
    <3>3. CASE j = i
      BY <1>3, <1>6, <3>1, <3>2, <3>3 DEF old
    <3>4. CASE j # i
      BY <1>6, <3>1, <3>2, <3>4
    <3>. QED
      BY <3>3, <3>4
  <2>. QED
    BY <2>1, <2>2 DEF InputsAreKnown
<1> DEFINE T == UNION {CallsOf(j, server.blocks[j]) : j \in Ended}
           U == UNION {CallsOf(j, server'.blocks[j]) : j \in Ended'}
<1>11. /\ toolBlocks \in Seq(T)
       /\ \A j \in Ended : \E k \in DOMAIN toolBlocks : toolBlocks[k].id = j
       /\ \A k, l \in DOMAIN toolBlocks : toolBlocks[k].id = toolBlocks[l].id => k = l
  BY DEF ReaderKnows, CallsAreKnown
<1>12. \A j \in Ended : server'.blocks[j] = server.blocks[j]
  BY <1>6, <1>7 DEF Ended, Begun
<1>13. T \subseteq U
  BY <1>9, <1>12
<1>14. CASE ~known
  <2>1. T = U
    BY <1>9, <1>12, <1>14
  <2> HIDE DEF T, U, known
  <2>. QED
    BY <1>1, <1>6, <1>9, <1>10, <1>11, <1>14, <2>1 DEF ReaderKnows, CallsAreKnown, U
<1>15. CASE known
  <2>0. PICK input \in Parsed(accumulators[i], old.parts, cut) :
               toolBlocks' = Append(toolBlocks, Call(i, input))
    BY <1>1, <1>15
  <2> DEFINE c == Call(i, input)
             calls == Append(toolBlocks, c)
  <2>1. toolBlocks' = calls
    BY <2>0
  <2>2. c \in U /\ c.id = i
    <3>1. accumulators[i] = b.arrived
      BY <1>3, <1>15 DEF ReaderKnows, InputsAreKnown, old
    <3>2. c \in CallsOf(i, b)
      BY <1>3, <2>0, <3>1 DEF CallsOf
    <3>3. CallsOf(i, b) = CallsOf(i, server'.blocks[i]) /\ i \in Ended'
      BY <1>6, <1>9, <1>15
    <3>. QED
      BY <3>2, <3>3 DEF Call
  <2>3. \A k \in DOMAIN toolBlocks : toolBlocks[k].id \in Ended
    <3>1. \A x \in T : x.id \in Ended
      BY DEF Call, CallsOf
    <3> HIDE DEF T
    <3>. QED
      BY <1>11, <3>1
  <2> HIDE DEF c, T, U, known
  <2>4. toolBlocks \in Seq(U)
    BY <1>11, <1>13, SeqMonotonic
  <2> DEFINE n == Len(toolBlocks)
  <2>5. /\ calls \in Seq(U) /\ Len(calls) = n + 1 /\ calls[n + 1] = c /\ n \in Nat
        /\ \A k \in 1 .. n : calls[k] = toolBlocks[k]
        /\ DOMAIN toolBlocks = 1 .. n /\ DOMAIN calls = 1 .. n + 1
    BY <2>2, <2>4, AppendProperties
  <2> HIDE DEF calls, n
  <2>6. 1 .. n + 1 = 1 .. n \cup {n + 1} /\ n + 1 \notin 1 .. n
    BY <2>5
  <2>7. \A j \in Ended \cup {i} : \E k \in DOMAIN calls : calls[k].id = j
    BY <1>11, <2>2, <2>5, <2>6
  <2>8. \A k \in 1 .. n : calls[k].id # i
    BY <1>7, <2>3, <2>5
  <2>9. \A k, l \in DOMAIN calls : calls[k].id = calls[l].id => k = l
    BY <1>11, <2>2, <2>5, <2>6, <2>8
  <2>10. CallsAreKnown'
    BY <1>9, <1>15, <2>1, <2>5, <2>7, <2>9 DEF CallsAreKnown, U
  <2>. QED
    BY <1>6, <1>10, <2>10 DEF ReaderKnows
<1>. QED
  BY <1>14, <1>15

-----------------------------------------------------------------------------
\* One line that is read leaves what the reader knows true.
LEMMA LineRead ==
  ASSUME ReaderKnows, NEW undamaged \in BOOLEAN, Line(undamaged)
  PROVE  ReaderKnows'
<1>1. FlawsAfter(undamaged) \in 0 .. MaxFlaws
  <2>1. Damage(undamaged)
    BY DEF Line, LocalLine, BlockStarts, TextDelta, InputDelta, BlockStops, DataLine
  <2>2. server.flaws \in 0 .. MaxFlaws /\ MaxFlaws \in Nat
    BY CallConstants DEF ReaderKnows, ServerShape
  <2>. QED
    BY <2>1, <2>2 DEF Damage, FlawsAfter
<1>2. server.due \in BOOLEAN
  BY DEF ReaderKnows, ServerShape
<1>3. CASE LocalLine(undamaged)
  <2>1. /\ ShowText(undamaged) /\ UNCHANGED <<accumulators, toolBlocks>>
        /\ server' = [server EXCEPT !.pieces = IF undamaged THEN @ + 1 ELSE @,
                                    !.flaws = FlawsAfter(undamaged)]
    BY <1>3 DEF LocalLine
  <2>2. server' = [server EXCEPT !.pieces = IF undamaged THEN @ + 1 ELSE @,
                                 !.due = server.due, !.flaws = FlawsAfter(undamaged)]
    <3>1. server = [server EXCEPT !.due = server.due]
      BY DEF ReaderKnows, ServerShape
    <3>. QED
      BY <2>1, <3>1 DEF ReaderKnows, ServerShape
  <2>. QED
    BY <1>1, <1>2, <2>1, <2>2, TextArrives
<1>4. CASE TextDelta(undamaged)
  <2>1. /\ ShowText(undamaged) /\ UNCHANGED <<accumulators, toolBlocks>>
        /\ server' = [server EXCEPT !.pieces = IF undamaged THEN @ + 1 ELSE @,
                                    !.due = FALSE, !.flaws = FlawsAfter(undamaged)]
    BY <1>4 DEF TextDelta
  <2>. QED
    BY <1>1, <2>1, TextArrives
<1>5. ASSUME NEW kind \in {"text", "tool"}, NEW seeded \in BOOLEAN, BlockStarts(kind, seeded, undamaged)
      PROVE  ReaderKnows'
  BY <1>1, <1>5, BlockBegins
<1>6. ASSUME NEW i \in Blocks, InputDelta(i, undamaged) PROVE ReaderKnows'
  BY <1>1, <1>6, InputArrives
<1>7. ASSUME NEW i \in Blocks, NEW cut \in BOOLEAN, BlockStops(i, cut, undamaged)
      PROVE  ReaderKnows'
  BY <1>1, <1>7, BlockEnds
<1>. QED
  BY <1>3, <1>4, <1>5, <1>6, <1>7 DEF Line

\* The other steps read no data: they leave the reader's variables alone, or only
\* name an event.
LEMMA OtherSteps ==
  ASSUME ReaderKnows, [Next]_vars, ~(\E undamaged \in BOOLEAN : Line(undamaged))
  PROVE  /\ UNCHANGED <<full, chunks, accumulators, toolBlocks>> /\ ReaderKnows'
<1> DEFINE S == [blocks : Seq(BlockRecord), pieces : 0 .. MaxPieces, due : BOOLEAN,
                 flaws : 0 .. MaxFlaws, finished : BOOLEAN]
<1>1. server \in S
  BY DEF ReaderKnows, ServerShape
<1>2. SUFFICES /\ UNCHANGED <<full, chunks, accumulators, toolBlocks>>
               /\ server'.blocks = server.blocks /\ server'.pieces = server.pieces
               /\ server' \in S
  BY NothingRead
<1>3. CASE UNCHANGED vars
  BY <1>1, <1>3 DEF vars
<1>4. CASE Prepare \/ RequestFails \/ Answered \/ StreamOpens \/ BodyEnds \/ ReadFails
  BY <1>1, <1>4 DEF Prepare, RequestFails, Answered, StreamOpens, BodyEnds, ReadFails, ReaderVars
<1>5. CASE LocalDone
  <2>1. server' = [server EXCEPT !.finished = TRUE] /\ UNCHANGED ReaderVars
    BY <1>5 DEF LocalDone
  <2>. QED
    BY <1>1, <2>1 DEF ReaderVars
<1>6. ASSUME NEW name, AnthropicEvent(name)
      PROVE  /\ UNCHANGED <<full, chunks, accumulators, toolBlocks>>
             /\ server'.blocks = server.blocks /\ server'.pieces = server.pieces
             /\ server' \in S
  <2>1. server' = [server EXCEPT !.due = TRUE] /\ UNCHANGED <<full, chunks, accumulators, toolBlocks>>
    BY <1>6 DEF AnthropicEvent
  <2>. QED
    BY <1>1, <2>1
<1>7. ASSUME NEW name, OtherData(name)
      PROVE  /\ UNCHANGED <<full, chunks, accumulators, toolBlocks>>
             /\ server'.blocks = server.blocks /\ server'.pieces = server.pieces
             /\ server' \in S
  <2>1. /\ server' = [server EXCEPT !.due = FALSE, !.finished = @ \/ name = "message_stop"]
        /\ UNCHANGED ReaderVars
    BY <1>7 DEF OtherData
  <2>2. (server.finished \/ name = "message_stop") \in BOOLEAN
    OBVIOUS
  <2>. QED
    BY <1>1, <2>1, <2>2 DEF ReaderVars
<1>. QED
  BY <1>3, <1>4, <1>5, <1>6, <1>7 DEF Next

\* Where the call is.
LEMMA CallStep ==
  ASSUME CallShape, ReaderKnows, [Next]_vars
  PROVE  CallShape'
<1>1. CASE UNCHANGED vars
  BY <1>1 DEF vars, CallShape, TextSoFar, StreamResult
<1>2. CASE \E undamaged \in BOOLEAN : Line(undamaged)
  <2>1. PICK undamaged \in BOOLEAN : Line(undamaged)
    BY <1>2
  <2>2. pc = "read" /\ UNCHANGED <<call, request, pc, event, result>>
    <3>1. CASE LocalLine(undamaged)
      BY <3>1 DEF LocalLine, Reading
    <3>2. CASE \E kind \in {"text", "tool"}, seeded \in BOOLEAN : BlockStarts(kind, seeded, undamaged)
      BY <3>2 DEF BlockStarts, DataLine, Reading
    <3>3. CASE TextDelta(undamaged)
      BY <3>3 DEF TextDelta, DataLine, Reading
    <3>4. ASSUME NEW i \in Blocks, InputDelta(i, undamaged)
          PROVE  pc = "read" /\ UNCHANGED <<call, request, pc, event, result>>
      BY <3>4 DEF InputDelta, DataLine, Reading
    <3>5. ASSUME NEW i \in Blocks, NEW cut \in BOOLEAN, BlockStops(i, cut, undamaged)
          PROVE  pc = "read" /\ UNCHANGED <<call, request, pc, event, result>>
      BY <3>5 DEF BlockStops, DataLine, Reading
    <3>. QED
      BY <2>1, <3>1, <3>2, <3>3, <3>4, <3>5 DEF Line
  <2>. QED
    BY <2>2 DEF CallShape
<1>3. CASE Prepare
  BY <1>3 DEF Prepare, CallShape, ReaderVars
<1>4. CASE StreamOpens
  BY <1>4 DEF StreamOpens, CallShape, ReaderVars
<1>5. CASE \E name \in Events : AnthropicEvent(name) \/ OtherData(name)
  <2>1. /\ pc = "read" /\ UNCHANGED <<call, request, pc, result>>
        /\ event' \in Events \cup {"none"}
    BY <1>5 DEF AnthropicEvent, OtherData, DataLine, Reading, CallShape, ReaderVars
  <2>. QED
    BY <2>1 DEF CallShape
<1>6. CASE RequestFails
  <2>1. /\ pc = "send" /\ pc' = "returned" /\ UNCHANGED <<call, request, event, full, toolBlocks>>
        /\ result' = [parts |-> <<>>, failed |-> TRUE]
    BY <1>6 DEF RequestFails, Return, ReaderVars
  <2>2. full = <<>>
    BY <2>1 DEF CallShape
  <2>. QED
    BY <2>1, <2>2 DEF CallShape, TextSoFar
<1>7. CASE Answered
  <2>1. /\ pc = "send" /\ ~call.stream /\ pc' = "returned" /\ UNCHANGED <<call, request, event>>
        /\ result'.failed = FALSE
    BY <1>7 DEF Answered, Return, ReaderVars
  <2>. QED
    BY <2>1 DEF CallShape
<1>8. CASE LocalDone \/ BodyEnds \/ ReadFails
  <2>1. /\ pc = "read" /\ pc' = "returned" /\ UNCHANGED <<call, request, event, full, toolBlocks>>
        /\ \/ result' = [parts |-> StreamResult, failed |-> FALSE]
           \/ result' = [parts |-> TextSoFar, failed |-> TRUE]
    BY <1>8 DEF LocalDone, BodyEnds, ReadFails, Return, ReaderVars, PartialResult, Reading
  <2>2. TextSoFar' = TextSoFar /\ StreamResult' = StreamResult
    BY <2>1 DEF TextSoFar, StreamResult
  <2>3. result'.parts = (IF result'.failed THEN TextSoFar ELSE StreamResult) /\ result'.failed \in BOOLEAN
    <3>1. CASE result' = [parts |-> StreamResult, failed |-> FALSE]
      BY <3>1
    <3>2. CASE result' = [parts |-> TextSoFar, failed |-> TRUE]
      BY <3>2
    <3>. QED
      BY <2>1, <3>1, <3>2
  <2>. QED
    BY <2>1, <2>2, <2>3 DEF CallShape
<1>. QED
  BY <1>1, <1>2, <1>3, <1>4, <1>5, <1>6, <1>7, <1>8 DEF Next

\* What is to prove holds at first and of every step.
THEOREM Inductive == Spec => []Invariant
<1>1. Init => Invariant
  <2>1. SUFFICES ASSUME Init PROVE Invariant
    OBVIOUS
  <2>2. CallShape
    BY <2>1 DEF Init, CallShape
  <2>3. /\ server.blocks = <<>> /\ server.pieces = 0 /\ full = <<>> /\ chunks = <<>>
        /\ accumulators = <<>> /\ toolBlocks = <<>>
    BY <2>1 DEF Init, Silent
  <2>4. Blocks = {} /\ Begun = {} /\ Ended = {}
    BY <2>3 DEF Blocks, Begun, Ended
  <2>5. ServerShape
    <3>1. 0 \in 0 .. MaxPieces /\ 0 \in 0 .. MaxFlaws /\ <<>> \in Seq(BlockRecord)
      BY CallConstants
    <3>. QED
      BY <2>1, <2>4, <3>1 DEF Init, Silent, ServerShape
  <2>6. TextIsKnown
    BY <2>3 DEF TextIsKnown
  <2>7. InputsAreKnown /\ CallsAreKnown
    BY <2>3, <2>4 DEF InputsAreKnown, CallsAreKnown
  <2>. QED
    BY <2>2, <2>5, <2>6, <2>7 DEF Invariant, ReaderKnows
<1>2. Invariant /\ [Next]_vars => Invariant'
  BY LineRead, OtherSteps, CallStep DEF Invariant
<1>. QED
  BY <1>1, <1>2, PTL DEF Spec

-----------------------------------------------------------------------------
\* The text of a reply in its first m places, and behind it the calls.
TextThenCalls(parts, text, calls, m) ==
  /\ DOMAIN parts = 1 .. m + Len(calls) /\ Len(calls) \in Nat
  /\ text # <<>> => parts # <<>> /\ parts[1] = Text(text)
  /\ \A k \in DOMAIN parts : k <= m => k = 1 /\ parts[k].kind = "text"
  /\ \A k \in DOMAIN parts : k > m => /\ parts[k] = calls[k - m] /\ parts[k].kind = "call"
                                      /\ k - m \in DOMAIN calls

\* The part that is text, and how many places it takes.
Told(text) == IF text = <<>> THEN <<>> ELSE <<Text(text)>>
Places(text) == IF text = <<>> THEN 0 ELSE 1

\* A reply's parts are these.
LEMMA ReplyShape ==
  ASSUME NEW text, NEW S, NEW calls \in Seq(S), \A c \in S : c.kind = "call"
  PROVE  TextThenCalls(Told(text) \o calls, text, calls, Places(text))
<1> DEFINE told == Told(text)
           m == Places(text)
           parts == told \o calls
           R == S \cup {Text(text)}
<1>1. told \in Seq(R) /\ Len(told) = m /\ m \in Nat /\ (m = 1 => told[1] = Text(text))
  <2>1. CASE text = <<>>
    BY <2>1 DEF Told, Places
  <2>2. CASE text # <<>>
    <3> DEFINE x == Text(text)
    <3>1. told = <<x>> /\ x \in R /\ m = 1
      BY <2>2 DEF Told, Places
    <3> HIDE DEF told, R, x
    <3>2. told \in Seq(R) /\ Len(told) = 1 /\ told[1] = x
      BY <3>1
    <3>. QED
      BY <3>1, <3>2 DEF x
  <2>. QED
    BY <2>1, <2>2
<1>2. calls \in Seq(R)
  OBVIOUS
<1>3. parts = told \o calls
  OBVIOUS
<1>4. Text(text).kind = "text"
  BY DEF Text
<1>5. (m = 0 \/ m = 1) /\ (text # <<>> => m = 1)
  BY DEF Places
<1> HIDE DEF told, R, m, parts
<1>6. /\ Len(parts) = m + Len(calls) /\ parts \in Seq(R) /\ Len(calls) \in Nat
      /\ \A k \in 1 .. m + Len(calls) : parts[k] = IF k <= m THEN told[k] ELSE calls[k - m]
  <2> DEFINE n == Len(told)
             l == Len(calls)
  <2>1. /\ parts \in Seq(R) /\ Len(parts) = Len(told) + Len(calls)
        /\ \A k \in 1 .. Len(told) + Len(calls) :
             parts[k] = IF k <= Len(told) THEN told[k] ELSE calls[k - Len(told)]
    BY <1>1, <1>2, <1>3, ConcatProperties
  <2>2. Len(calls) \in Nat
    BY <1>2, LenProperties
  <2>3. n = m /\ l \in Nat
    BY <1>1, <2>2
  <2>4. /\ Len(parts) = n + l
        /\ \A k \in 1 .. n + l : parts[k] = IF k <= n THEN told[k] ELSE calls[k - n]
    BY <2>1
  <2> HIDE DEF n, l
  <2>. QED
    BY <2>1, <2>2, <2>3, <2>4 DEF l
<1>7. DOMAIN parts = 1 .. m + Len(calls) /\ DOMAIN calls = 1 .. Len(calls)
  BY <1>2, <1>6, LenProperties
<1>8. text # <<>> => parts # <<>> /\ parts[1] = Text(text)
  BY <1>1, <1>6, <1>5, EmptySeq
<1>9. ASSUME NEW k \in DOMAIN parts, k <= m PROVE k = 1 /\ parts[k].kind = "text"
  <2>1. k = 1 /\ m = 1
    BY <1>6, <1>7, <1>5, <1>9
  <2>. QED
    BY <1>1, <1>4, <1>6, <1>7, <1>9, <2>1
<1>10. ASSUME NEW k \in DOMAIN parts, k > m
       PROVE  parts[k] = calls[k - m] /\ parts[k].kind = "call" /\ k - m \in DOMAIN calls
  <2>1. k - m \in 1 .. Len(calls) /\ k \in 1 .. m + Len(calls) /\ ~(k <= m)
    BY <1>1, <1>6, <1>7, <1>10
  <2>2. parts[k] = calls[k - m]
    BY <1>6, <2>1
  <2>3. calls[k - m] \in S
    BY <1>7, <2>1, ElementOfSeq
  <2>. QED
    BY <1>7, <2>1, <2>2, <2>3
<1>. QED
  BY <1>6, <1>7, <1>8, <1>9, <1>10 DEF TextThenCalls, told, m, parts

\* What is known at the return makes the reply whole.
LEMMA WholeReply ==
  ASSUME Invariant
  PROVE  ReplyIsWhole
<1>1. SUFFICES ASSUME pc = "returned", call.stream
               PROVE  ReplyIsWhole
  BY DEF ReplyIsWhole
<1> DEFINE parts == result.parts
           calls == {k \in DOMAIN parts : parts[k].kind = "call"}
           done == IF result.failed THEN <<>> ELSE toolBlocks
           S == UNION {CallsOf(i, server.blocks[i]) : i \in Ended}
           m == Places(full)
<1>2. result.failed \in BOOLEAN /\ chunks = full
  BY DEF Invariant, CallShape, ReaderKnows, TextIsKnown
<1>3. /\ toolBlocks \in Seq(S)
      /\ \A i \in Ended : \E k \in DOMAIN toolBlocks : toolBlocks[k].id = i
      /\ \A k, l \in DOMAIN toolBlocks : toolBlocks[k].id = toolBlocks[l].id => k = l
  BY DEF Invariant, ReaderKnows, CallsAreKnown
<1>4. done \in Seq(S)
  BY <1>3
<1>5. \A c \in S :
        /\ c.kind = "call" /\ c.id \in Ended
        /\ LET b == server.blocks[c.id] IN c.input \in Parsed(b.arrived, b.parts, b.cut)
  BY DEF Call, CallsOf
<1>6. parts = TextSoFar \o done
  <2>1. parts = IF result.failed THEN TextSoFar ELSE TextSoFar \o toolBlocks
    BY <1>1 DEF Invariant, CallShape, StreamResult
  <2>2. TextSoFar \in Seq({Text(full)})
    <3> DEFINE x == Text(full)
    <3>1. TextSoFar = <<>> \/ TextSoFar = <<x>>
      BY DEF TextSoFar
    <3> HIDE DEF x
    <3>2. <<>> \in Seq({x}) /\ <<x>> \in Seq({x})
      OBVIOUS
    <3>. QED
      BY <3>1, <3>2 DEF x
  <2>3. TextSoFar \o <<>> = TextSoFar
    BY <2>2, ConcatEmptySeq
  <2>. QED
    BY <1>2, <2>1, <2>3
<1> HIDE DEF S, done, parts
<1>7. /\ DOMAIN parts = 1 .. m + Len(done) /\ Len(done) \in Nat
      /\ full # <<>> => parts # <<>> /\ parts[1] = Text(full)
      /\ \A k \in DOMAIN parts : k <= m => k = 1 /\ parts[k].kind = "text"
      /\ \A k \in DOMAIN parts : k > m => /\ parts[k] = done[k - m] /\ parts[k].kind = "call"
                                          /\ k - m \in DOMAIN done
  <2>1. parts = Told(full) \o done
    BY <1>6 DEF TextSoFar, Told
  <2>2. \A c \in S : c.kind = "call"
    BY <1>5
  <2>3. TextThenCalls(Told(full) \o done, full, done, Places(full))
    BY <1>4, <2>2, ReplyShape
  <2>. QED
    BY <2>1, <2>3 DEF TextThenCalls
<1>8. m \in {0, 1} /\ (m = 0 <=> full = <<>>)
  BY DEF Places
<1> HIDE DEF m
<1>9. DOMAIN done = 1 .. Len(done)
  BY <1>4, LenProperties
<1>10. \A k \in DOMAIN parts : k \in calls <=> k > m
  BY <1>7, <1>8
<1>11. \A j \in DOMAIN done : m + j \in calls /\ parts[m + j] = done[j]
  <2>1. SUFFICES ASSUME NEW j \in DOMAIN done PROVE m + j \in calls /\ parts[m + j] = done[j]
    OBVIOUS
  <2>2. m + j \in DOMAIN parts /\ m + j > m /\ (m + j) - m = j
    BY <1>7, <1>8, <1>9
  <2>. QED
    BY <1>7, <1>10, <2>2
<1>12. \A j \in DOMAIN done : done[j] \in S
  BY <1>4, <1>9, ElementOfSeq
<1>13. \A k \in calls : /\ k - m \in DOMAIN done /\ parts[k] = done[k - m] /\ parts[k] \in S
                        /\ k = (k - m) + m
  <2>1. SUFFICES ASSUME NEW k \in calls
                 PROVE  /\ k - m \in DOMAIN done /\ parts[k] = done[k - m] /\ parts[k] \in S
                        /\ k = (k - m) + m
    OBVIOUS
  <2>2. k \in DOMAIN parts /\ k > m
    BY <1>10
  <2>3. k = (k - m) + m
    BY <1>7, <1>8, <2>2
  <2>. QED
    BY <1>7, <1>12, <2>2, <2>3
<1>14. chunks = [n \in 1 .. server.pieces |-> n]
  BY DEF Invariant, ReaderKnows, TextIsKnown
<1>15. chunks # <<>> => parts # <<>> /\ parts[1] = Text(chunks)
  BY <1>2, <1>7
<1>16. DOMAIN parts \ calls = IF chunks = <<>> THEN {} ELSE {1}
  <2>1. \A k \in DOMAIN parts : k \notin calls <=> k <= m
    BY <1>7, <1>8, <1>10
  <2>2. CASE m = 0
    BY <1>2, <1>7, <1>8, <2>1, <2>2
  <2>3. CASE m = 1
    BY <1>2, <1>7, <1>8, <2>1, <2>3
  <2>. QED
    BY <1>8, <2>2, <2>3
<1>17. {parts[k].id : k \in calls} = IF result.failed THEN {} ELSE Ended
  <2>1. CASE result.failed
    <3>1. DOMAIN done = {}
      BY <2>1 DEF done
    <3>. QED
      BY <1>13, <2>1, <3>1
  <2>2. CASE ~result.failed
    <3>1. \A i \in Ended : \E k \in calls : parts[k].id = i
      BY <1>3, <1>11, <2>2 DEF done
    <3>2. \A k \in calls : parts[k].id \in Ended
      BY <1>5, <1>13
    <3>. QED
      BY <2>2, <3>1, <3>2
  <2>. QED
    BY <2>1, <2>2
<1>18. \A k, l \in calls : parts[k].id = parts[l].id => k = l
  <2>1. SUFFICES ASSUME NEW k \in calls, NEW l \in calls, parts[k].id = parts[l].id
                 PROVE  k = l
    OBVIOUS
  <2>2. DOMAIN done \subseteq DOMAIN toolBlocks /\ \A j \in DOMAIN done : done[j] = toolBlocks[j]
    BY DEF done
  <2>3. k - m = l - m
    BY <1>3, <1>13, <2>1, <2>2
  <2>. QED
    BY <1>13, <2>3
<1>19. \A k \in calls :
         LET block == server.blocks[parts[k].id]
             input == parts[k].input
             lossless == Len(block.arrived) = block.parts
         IN  /\ input \in {NoInput, block.arrived}
             /\ lossless /\ block.parts > 0 /\ ~block.cut => input = Whole(parts[k].id, block.parts)
             /\ block.arrived = <<>> \/ (lossless /\ block.cut) => input = NoInput
  <2> TAKE k \in calls
  <2> DEFINE i == parts[k].id
             block == server.blocks[i]
  <2>1. i \in Ended /\ parts[k].input \in Parsed(block.arrived, block.parts, block.cut)
    BY <1>5, <1>13
  <2>2. block \in BlockRecord /\ Carries(i, block)
    <3>1. ReaderKnows /\ i \in Blocks
      BY <2>1 DEF Invariant, Ended, Begun
    <3>. QED
      BY <3>1, BlockFacts DEF ReaderKnows, ServerShape
  <2> HIDE DEF i, block
  <2>. QED
    BY <2>1, <2>2, ParsedIsInput DEF i, block
<1>20. Ended = {i \in Blocks : /\ server.blocks[i].kind = "tool"
                              /\ server.blocks[i].started /\ server.blocks[i].stopped}
  BY DEF Ended, Begun
<1>. QED
  BY <1>14, <1>15, <1>16, <1>17, <1>18, <1>19, <1>20 DEF ReplyIsWhole, parts

\* What a stream returns is what arrived and was shown: its text is every piece that
\* arrived, as the caller was shown it, and its calls are the tool blocks that arrived
\* from start to stop, each once, with the fragments of its own input that arrived or
\* none, and with all of them if none was lost and the server said everything, however
\* the blocks were interleaved and whatever was damaged (parseAnthropicSSE,
\* parseOpenAISSE).
THEOREM ReplyHolds == Spec => []ReplyIsWhole
BY Inductive, WholeReply, PTL

-----------------------------------------------------------------------------
(***************************************************************************)
(* Loops over a sequence                                                   *)
(***************************************************************************)
\* A set of natural numbers with 0 and every successor has them all.
LEMMA NaturalsFrom0 ==
  ASSUME NEW T \in SUBSET Nat, 0 \in T, \A n \in T : n + 1 \in T
  PROVE  T = Nat
<1>1. SUFFICES ASSUME NEW n \in Nat, n \notin T PROVE FALSE
  OBVIOUS
<1> DEFINE Upto == {1 .. m : m \in Nat \ T}
<1>2. IsWellFoundedOn(StrictSubsetOrdering(Nat), FiniteSubsetsOf(Nat))
  BY FS_StrictSubsetOrderingWellFounded
<1>3. \A m \in Nat : 1 .. m \in FiniteSubsetsOf(Nat)
  <2>1. \A m \in Nat : 1 .. m \in SUBSET Nat /\ IsFiniteSet(1 .. m)
    BY FS_Interval
  <2>. QED
    BY <2>1 DEF FiniteSubsetsOf
<1>4. Upto \subseteq FiniteSubsetsOf(Nat) /\ 1 .. n \in Upto
  BY <1>1, <1>3
<1> HIDE DEF Upto
<1>5. PICK S \in Upto : \A U \in Upto : <<U, S>> \notin StrictSubsetOrdering(Nat)
  BY <1>2, <1>4, WFMin
<1>6. PICK m \in Nat \ T : S = 1 .. m
  BY <1>5 DEF Upto
<1>7. m # 0 /\ m - 1 \in Nat \ T
  <2>1. m - 1 + 1 = m
    OBVIOUS
  <2>. QED
    BY <2>1
<1>8. 1 .. (m - 1) \in Upto
  BY <1>7 DEF Upto
<1>9. /\ 1 .. (m - 1) \subseteq 1 .. m /\ m \in 1 .. m /\ m \notin 1 .. (m - 1) /\ 1 .. m \subseteq Nat
  BY <1>7
<1>. QED
  BY <1>5, <1>6, <1>8, <1>9 DEF StrictSubsetOrdering

\* The last of the first places.
LEMMA MaxOfFirst ==
  ASSUME NEW n \in Nat, n # 0
  PROVE  Max(1 .. n) = n /\ (1 .. n) \ {n} = 1 .. (n - 1)
<1>1. n \in 1 .. n /\ \A j \in 1 .. n : n >= j
  OBVIOUS
<1>2. Max(1 .. n) \in 1 .. n /\ \A j \in 1 .. n : Max(1 .. n) >= j
  BY <1>1, Zenon DEF Max
<1>3. Max(1 .. n) = n
  BY <1>1, <1>2
<1>4. (1 .. n) \ {n} = 1 .. (n - 1)
  OBVIOUS
<1>. QED
  BY <1>3, <1>4

\* The two loops that prepare a request, by the step they take.
Run(loop, state, message) ==
  IF loop = "hear" THEN Hear(state, message) ELSE MergeNext(state, message)

\* The last of a set of places, and the equation a loop over the places in D solves.
LastOf(s) == Max(s)
Rolls(loop, base, seq, D, it) ==
  it = [s \in SUBSET D |-> IF s = {} THEN base
                           ELSE Run(loop, it[s \ {LastOf(s)}], seq[LastOf(s)])]

\* Every set of places but the empty one has a last one.
HasLasts(D) == \A s \in SUBSET D : s # {} => LastOf(s) \in s

\* Induction over the subsets of a finite set.
LEMMA SubsetInduction ==
  ASSUME NEW S, IsFiniteSet(S), NEW P,
         \A T \in SUBSET S : (\A U \in SUBSET T : U # T => U \in P) => T \in P
  PROVE  \A T \in SUBSET S : T \in P
<1> DEFINE Q == {T \in SUBSET S : T \notin P}
<1>1. SUFFICES ASSUME Q # {} PROVE FALSE
  OBVIOUS
<1>2. IsWellFoundedOn(StrictSubsetOrdering(S), FiniteSubsetsOf(S))
  BY FS_StrictSubsetOrderingWellFounded
<1>3. Q \subseteq FiniteSubsetsOf(S)
  BY FS_Subset DEF FiniteSubsetsOf
<1>4. PICK T \in Q : \A U \in Q : <<U, T>> \notin StrictSubsetOrdering(S)
  <2> HIDE DEF Q
  <2>. QED
    BY <1>1, <1>2, <1>3, WFMin
<1>5. \A U \in SUBSET T : U # T => U \in P
  BY <1>4 DEF StrictSubsetOrdering
<1>. QED
  BY <1>4, <1>5

\* What a solution says of one set.
LEMMA RollsAt ==
  ASSUME NEW loop, NEW base, NEW seq, NEW D, NEW it, Rolls(loop, base, seq, D, it),
         HasLasts(D), NEW T \in SUBSET D
  PROVE  /\ T = {} => it[T] = base
         /\ T # {} => /\ T \ {LastOf(T)} \in SUBSET T /\ T \ {LastOf(T)} # T
                      /\ it[T] = Run(loop, it[T \ {LastOf(T)}], seq[LastOf(T)])
<1>1. it[T] = IF T = {} THEN base ELSE Run(loop, it[T \ {LastOf(T)}], seq[LastOf(T)])
  BY Zenon DEF Rolls
<1>2. T # {} => LastOf(T) \in T
  BY DEF HasLasts
<1>. QED
  BY <1>1, <1>2

\* And of the empty set.
LEMMA RollsAtNone ==
  ASSUME NEW loop, NEW base, NEW seq, NEW D, NEW it, Rolls(loop, base, seq, D, it)
  PROVE  it[{}] = base
<1>1. {} \in SUBSET D
  OBVIOUS
<1>. QED
  BY <1>1, Zenon DEF Rolls

\* Solutions for two sets agree where both are defined.
LEMMA RollsAgree ==
  ASSUME NEW loop, NEW base, NEW seq, NEW D, NEW E, NEW it, NEW jt,
         Rolls(loop, base, seq, D, it), Rolls(loop, base, seq, E, jt),
         IsFiniteSet(D), HasLasts(D), HasLasts(E), NEW T \in SUBSET D, T \subseteq E
  PROVE  it[T] = jt[T]
<1> DEFINE P == {U \in SUBSET D : U \subseteq E => it[U] = jt[U]}
<1>1. ASSUME NEW U \in SUBSET D, \A V \in SUBSET U : V # U => V \in P
      PROVE  U \in P
  <2>1. SUFFICES ASSUME U \subseteq E PROVE it[U] = jt[U]
    OBVIOUS
  <2>2. CASE U = {}
    <3>1. it[U] = base
      BY <2>2, RollsAtNone
    <3>2. jt[U] = base
      BY <2>2, RollsAtNone
    <3>. QED
      BY <3>1, <3>2
  <2>3. CASE U # {}
    <3> DEFINE V == U \ {LastOf(U)}
    <3>1. V \in SUBSET U /\ V # U /\ it[U] = Run(loop, it[V], seq[LastOf(U)])
      BY <2>3, RollsAt
    <3>2. jt[U] = Run(loop, jt[V], seq[LastOf(U)])
      BY <2>1, <2>3, RollsAt
    <3> HIDE DEF V
    <3>3. it[V] = jt[V]
      BY <1>1, <2>1, <3>1
    <3>. QED
      BY <3>1, <3>2, <3>3
  <2>. QED
    BY <2>2, <2>3
<1>2. \A U \in SUBSET D : U \in P
  <2> HIDE DEF P
  <2>. QED
    BY <1>1, SubsetInduction
<1>. QED
  BY <1>2

\* A finite set has a solution.
LEMMA RollsExist ==
  ASSUME NEW loop, NEW base, NEW seq, NEW D, IsFiniteSet(D), HasLasts(D)
  PROVE  \E it : Rolls(loop, base, seq, D, it)
<1> DEFINE P == {T \in SUBSET D : \E it : Rolls(loop, base, seq, T, it)}
<1>1. ASSUME NEW T \in SUBSET D, \A U \in SUBSET T : U # T => U \in P
      PROVE  T \in P
  <2> DEFINE of(U) == CHOOSE it : Rolls(loop, base, seq, U, it)
             it == [s \in SUBSET T |-> IF s = {} THEN base
                      ELSE Run(loop, of(s \ {LastOf(s)})[s \ {LastOf(s)}], seq[LastOf(s)])]
  <2>1. \A U \in SUBSET T : U # T => Rolls(loop, base, seq, U, of(U))
    BY <1>1
  <2>2. \A s \in SUBSET T : s # {} => LastOf(s) \in s
    BY DEF HasLasts
  <2>3. \A U \in SUBSET T : IsFiniteSet(U) /\ HasLasts(U)
    BY FS_Subset DEF HasLasts
  <2> HIDE DEF of
  <2>4. ASSUME NEW U \in SUBSET T, U # T PROVE it[U] = of(U)[U]
    <3>1. Rolls(loop, base, seq, U, of(U)) /\ HasLasts(U) /\ IsFiniteSet(U)
      BY <2>1, <2>3, <2>4
    <3>2. CASE U = {}
      <4>1. of(U)[U] = base
        BY <3>1, <3>2, RollsAtNone
      <4>. QED
        BY <3>2, <4>1
    <3>3. CASE U # {}
      <4> DEFINE V == U \ {LastOf(U)}
      <4>1. /\ V \in SUBSET U /\ V \in SUBSET T /\ V # T
            /\ of(U)[U] = Run(loop, of(U)[V], seq[LastOf(U)])
        <5>1. U \in SUBSET U
          OBVIOUS
        <5>2. V \in SUBSET U /\ V # U /\ of(U)[U] = Run(loop, of(U)[V], seq[LastOf(U)])
          BY <3>1, <3>3, <5>1, RollsAt
        <5>. QED
          BY <2>4, <5>2
      <4>2. Rolls(loop, base, seq, V, of(V)) /\ HasLasts(V) /\ IsFiniteSet(V)
        BY <2>1, <2>3, <4>1
      <4>3. it[U] = Run(loop, of(V)[V], seq[LastOf(U)])
        BY <3>3
      <4> HIDE DEF V
      <4>4. of(V)[V] = of(U)[V]
        <5>1. V \in SUBSET V /\ V \subseteq U
          BY <4>1
        <5>. QED
          BY <3>1, <4>2, <5>1, RollsAgree
      <4>. QED
        BY <4>1, <4>3, <4>4
    <3>. QED
      BY <3>2, <3>3
  <2>5. it = [s \in SUBSET T |-> IF s = {} THEN base
                                 ELSE Run(loop, it[s \ {LastOf(s)}], seq[LastOf(s)])]
    <3>1. ASSUME NEW s \in SUBSET T, s # {}
          PROVE  it[s] = Run(loop, it[s \ {LastOf(s)}], seq[LastOf(s)])
      <4>1. s \ {LastOf(s)} \in SUBSET T /\ s \ {LastOf(s)} # T
        BY <2>2, <3>1
      <4>2. it[s] = Run(loop, of(s \ {LastOf(s)})[s \ {LastOf(s)}], seq[LastOf(s)])
        BY <3>1
      <4> HIDE DEF it
      <4>. QED
        BY <2>4, <4>1, <4>2
    <3>2. it[{}] = base
      OBVIOUS
    <3>3. it = [s \in SUBSET T |-> it[s]]
      OBVIOUS
    <3> HIDE DEF it
    <3>. QED
      BY <3>1, <3>2, <3>3
  <2>6. Rolls(loop, base, seq, T, it)
    <3> HIDE DEF it
    <3>. QED
      BY <2>5 DEF Rolls
  <2>. QED
    BY <2>6
<1>2. \A T \in SUBSET D : T \in P
  <2> HIDE DEF P
  <2>. QED
    BY <1>1, SubsetInduction
<1>. QED
  BY <1>2

\* A set of numbers below another one has a last one.
LEMMA LastsOfFirst ==
  ASSUME NEW n \in Nat
  PROVE  IsFiniteSet(1 .. n) /\ HasLasts(1 .. n)
<1>1. IsFiniteSet(1 .. n)
  <2>1. 1 \in Int /\ n \in Int
    OBVIOUS
  <2>. QED
    BY <2>1, FS_Interval
<1> DEFINE T == {m \in Nat : \A s \in SUBSET (1 .. m) : s # {} => Max(s) \in s}
<1>2. 0 \in T
  <2>1. 1 .. 0 = {}
    OBVIOUS
  <2>2. \A s \in SUBSET (1 .. 0) : s # {} => Max(s) \in s
    BY <2>1
  <2>. QED
    BY <2>2
<1>3. ASSUME NEW m \in T PROVE m + 1 \in T
  <2>1. ASSUME NEW s \in SUBSET (1 .. m + 1), s # {} PROVE Max(s) \in s
    <3>1. CASE m + 1 \in s
      <4>1. \E x \in s : \A y \in s : x >= y
        BY <3>1
      <4>. QED
        BY <4>1, Zenon DEF Max
    <3>2. CASE m + 1 \notin s
      <4>1. s \in SUBSET (1 .. m)
        BY <3>2
      <4>. QED
        BY <2>1, <4>1
    <3>. QED
      BY <3>1, <3>2
  <2>. QED
    BY <2>1
<1>4. T = Nat
  <2>1. T \in SUBSET Nat
    OBVIOUS
  <2> HIDE DEF T
  <2>. QED
    BY <1>2, <1>3, <2>1, NaturalsFrom0
<1>5. \A s \in SUBSET (1 .. n) : s # {} => Max(s) \in s
  BY <1>4
<1>. QED
  BY <1>1, <1>5 DEF HasLasts, LastOf

\* A loop, pass by pass: before[k] is the state when k messages have been taken.
Passes(loop, base, seq, before) ==
  /\ before[0] = base
  /\ \A k \in 1 .. Len(seq) : before[k] = Run(loop, before[k - 1], seq[k])

\* A solution's values for the first places are the passes of the loop.
LEMMA RollsPass ==
  ASSUME NEW S, NEW seq \in Seq(S), NEW loop, NEW base, NEW it,
         Rolls(loop, base, seq, DOMAIN seq, it)
  PROVE  Passes(loop, base, seq, [k \in 0 .. Len(seq) |-> it[1 .. k]])
<1> DEFINE n == Len(seq)
           D == 1 .. n
           f == [k \in 0 .. n |-> it[1 .. k]]
<1>1. n \in Nat /\ DOMAIN seq = D
  BY LenProperties
<1> HIDE DEF n
<1>2. HasLasts(D) /\ Rolls(loop, base, seq, D, it)
  BY <1>1, LastsOfFirst
<1>3. it[1 .. 0] = base
  <2> DEFINE T == 1 .. 0
  <2>1. T = {}
    OBVIOUS
  <2>2. it[{}] = base
    BY <1>2, RollsAtNone
  <2>. QED
    BY <2>1, <2>2
<1>4. ASSUME NEW k \in 1 .. n PROVE it[1 .. k] = Run(loop, it[1 .. (k - 1)], seq[k])
  <2> DEFINE T == 1 .. k
             U == 1 .. (k - 1)
  <2>1. T \in SUBSET D /\ T # {}
    <3>1. k \in T /\ k \in Nat /\ k <= n
      BY <1>1
    <3>2. ASSUME NEW j \in T PROVE j \in D
      <4>1. j \in Nat /\ 1 <= j /\ j <= k
        BY <3>1
      <4>. QED
        BY <1>1, <3>1, <4>1
    <3> HIDE DEF T, D
    <3>. QED
      BY <3>1, <3>2
  <2>2. LastOf(T) = k /\ T \ {k} = U
    BY MaxOfFirst DEF LastOf
  <2> HIDE DEF T, U, D
  <2>3. it[T] = Run(loop, it[T \ {LastOf(T)}], seq[LastOf(T)])
    BY <1>2, <2>1, RollsAt
  <2>. QED
    BY <2>2, <2>3 DEF T, U
<1>5. f[0] = base
  BY <1>1, <1>3
<1>6. \A k \in 1 .. n : f[k] = Run(loop, f[k - 1], seq[k])
  <2>1. SUFFICES ASSUME NEW k \in 1 .. n PROVE f[k] = Run(loop, f[k - 1], seq[k])
    OBVIOUS
  <2>2. k \in 0 .. n /\ k - 1 \in 0 .. n
    BY <1>1
  <2>3. f[k] = it[1 .. k] /\ f[k - 1] = it[1 .. (k - 1)]
    BY <2>2
  <2>. QED
    BY <1>4, <2>3
<1>. QED
  BY <1>5, <1>6 DEF Passes, n

\* The equation that the fold of the first loop solves.
HearRolls(base, seq, it) ==
  it = [s \in SUBSET DOMAIN seq |-> IF s = {} THEN base
          ELSE LET x == Max(s) IN Hear(it[s \ {x}], seq[x])]

\* What the first loop makes of a history is a chosen solution's last value.
LEMMA HeardIsChosen ==
  ASSUME NEW seq
  PROVE  Heard(seq) = (CHOOSE it : HearRolls([system |-> <<>>, messages |-> <<>>], seq, it))[DOMAIN seq]
BY Zenon DEF Heard, FoldLeft, MapThenFoldSet, HearRolls

\* The equation that the fold of the second loop solves.
MergeRolls(base, seq, it) ==
  it = [s \in SUBSET DOMAIN seq |-> IF s = {} THEN base
          ELSE LET x == Max(s) IN MergeNext(it[s \ {x}], seq[x])]

\* And so is what the second loop makes of it.
LEMMA MergedIsChosen ==
  ASSUME NEW base, NEW seq
  PROVE  FoldLeft(MergeNext, base, seq) = (CHOOSE it : MergeRolls(base, seq, it))[DOMAIN seq]
BY Zenon DEF FoldLeft, MapThenFoldSet, MergeRolls

\* Their equations are those of a loop.
LEMMA RollsOfLoops ==
  ASSUME NEW base, NEW seq, NEW it
  PROVE  /\ HearRolls(base, seq, it) <=> Rolls("hear", base, seq, DOMAIN seq, it)
         /\ MergeRolls(base, seq, it) <=> Rolls("merge", base, seq, DOMAIN seq, it)
<1>1. \A a, b : Run("hear", a, b) = Hear(a, b) /\ Run("merge", a, b) = MergeNext(a, b)
  BY DEF Run
<1>2. HearRolls(base, seq, it)
        <=> it = [s \in SUBSET DOMAIN seq |-> IF s = {} THEN base
                    ELSE Hear(it[s \ {LastOf(s)}], seq[LastOf(s)])]
  BY Zenon DEF HearRolls, LastOf
<1>3. MergeRolls(base, seq, it)
        <=> it = [s \in SUBSET DOMAIN seq |-> IF s = {} THEN base
                    ELSE MergeNext(it[s \ {LastOf(s)}], seq[LastOf(s)])]
  BY Zenon DEF MergeRolls, LastOf
<1>. QED
  BY <1>1, <1>2, <1>3 DEF Rolls

\* The first loop, pass by pass.
LEMMA HeardPasses ==
  ASSUME NEW S, NEW seq \in Seq(S)
  PROVE  \E before : /\ Passes("hear", [system |-> <<>>, messages |-> <<>>], seq, before)
                     /\ Heard(seq) = before[Len(seq)]
<1> DEFINE base == [system |-> <<>>, messages |-> <<>>]
           it == CHOOSE it : HearRolls(base, seq, it)
           n == Len(seq)
<1>1. n \in Nat /\ DOMAIN seq = 1 .. n
  BY LenProperties
<1>2. IsFiniteSet(DOMAIN seq) /\ HasLasts(DOMAIN seq)
  BY <1>1, LastsOfFirst
<1>3. Heard(seq) = it[DOMAIN seq]
  BY HeardIsChosen, Zenon
<1> HIDE DEF base
<1>4. Rolls("hear", base, seq, DOMAIN seq, it)
  <2>1. \E jt : HearRolls(base, seq, jt)
    BY <1>2, RollsExist, RollsOfLoops
  <2>2. HearRolls(base, seq, it)
    BY <2>1
  <2> HIDE DEF it
  <2>. QED
    BY <2>2, RollsOfLoops
<1> HIDE DEF it
<1>5. Passes("hear", base, seq, [k \in 0 .. Len(seq) |-> it[1 .. k]])
  BY <1>4, RollsPass
<1>6. [k \in 0 .. Len(seq) |-> it[1 .. k]][n] = it[DOMAIN seq]
  BY <1>1
<1>. QED
  BY <1>3, <1>5, <1>6 DEF base

\* The second loop, pass by pass.
LEMMA MergedPasses ==
  ASSUME NEW S, NEW seq \in Seq(S), NEW base
  PROVE  \E before : /\ Passes("merge", base, seq, before)
                     /\ FoldLeft(MergeNext, base, seq) = before[Len(seq)]
<1> DEFINE it == CHOOSE it : MergeRolls(base, seq, it)
           n == Len(seq)
<1>1. n \in Nat /\ DOMAIN seq = 1 .. n
  BY LenProperties
<1>2. IsFiniteSet(DOMAIN seq) /\ HasLasts(DOMAIN seq)
  BY <1>1, LastsOfFirst
<1>3. FoldLeft(MergeNext, base, seq) = it[DOMAIN seq]
  BY MergedIsChosen, Zenon
<1>4. Rolls("merge", base, seq, DOMAIN seq, it)
  <2>1. \E jt : MergeRolls(base, seq, jt)
    BY <1>2, RollsExist, RollsOfLoops
  <2>2. MergeRolls(base, seq, it)
    BY <2>1
  <2> HIDE DEF it
  <2>. QED
    BY <2>2, RollsOfLoops
<1> HIDE DEF it
<1>5. Passes("merge", base, seq, [k \in 0 .. Len(seq) |-> it[1 .. k]])
  BY <1>4, RollsPass
<1>6. [k \in 0 .. Len(seq) |-> it[1 .. k]][n] = it[DOMAIN seq]
  BY <1>1
<1>. QED
  BY <1>3, <1>5, <1>6

-----------------------------------------------------------------------------
(***************************************************************************)
(* What a sequence of messages says                                        *)
(***************************************************************************)
\* The equation that flattening solves, for the first n of the sequences.
Flattens(seqs, n, f) == f = [i \in 1 .. n |-> IF i = 1 THEN seqs[i] ELSE f[i - 1] \o seqs[i]]

\* Flattening is the last value of a chosen solution.
LEMMA FlatIsChosen ==
  ASSUME NEW seqs, Len(seqs) # 0
  PROVE  FlattenSeq(seqs) = (CHOOSE f : Flattens(seqs, Len(seqs), f))[Len(seqs)]
BY Zenon DEF FlattenSeq, Flattens

\* What a solution says, place by place.
LEMMA FlattensAt ==
  ASSUME NEW seqs, NEW n \in Nat, NEW f, Flattens(seqs, n, f), NEW i \in 1 .. n
  PROVE  f[i] = IF i = 1 THEN seqs[i] ELSE f[i - 1] \o seqs[i]
BY Zenon DEF Flattens

\* There is a solution.
LEMMA FlattensExist ==
  ASSUME NEW seqs, NEW n \in Nat
  PROVE  \E f : Flattens(seqs, n, f)
<1> DEFINE T == {m \in Nat : \E f : Flattens(seqs, m, f)}
<1>1. 0 \in T
  <2> DEFINE f == [i \in 1 .. 0 |-> seqs[i]]
  <2>1. f = [i \in 1 .. 0 |-> IF i = 1 THEN seqs[i] ELSE f[i - 1] \o seqs[i]]
    <3>1. 1 .. 0 = {}
      OBVIOUS
    <3>. QED
      BY <3>1
  <2>2. Flattens(seqs, 0, f)
    <3> HIDE DEF f
    <3>. QED
      BY <2>1 DEF Flattens
  <2>. QED
    BY <2>2
<1>2. ASSUME NEW m \in T PROVE m + 1 \in T
  <2>1. PICK f : Flattens(seqs, m, f)
    OBVIOUS
  <2> DEFINE last == IF m = 0 THEN seqs[1] ELSE f[m] \o seqs[m + 1]
             g == [i \in 1 .. m + 1 |-> IF i = m + 1 THEN last ELSE f[i]]
  <2>2. \A i \in 1 .. m : g[i] = f[i]
    OBVIOUS
  <2>3. g[m + 1] = last
    OBVIOUS
  <2>4. g = [i \in 1 .. m + 1 |-> g[i]]
    OBVIOUS
  <2> HIDE DEF g
  <2>5. ASSUME NEW i \in 1 .. m + 1
        PROVE  g[i] = IF i = 1 THEN seqs[i] ELSE g[i - 1] \o seqs[i]
    <3>1. CASE i = m + 1
      <4>1. CASE m = 0
        BY <2>3, <3>1, <4>1
      <4>2. CASE m # 0
        <5>1. m \in 1 .. m /\ i # 1 /\ i - 1 = m
          BY <3>1, <4>2
        <5>. QED
          BY <2>2, <2>3, <3>1, <4>2, <5>1
      <4>. QED
        BY <4>1, <4>2
    <3>2. CASE i # m + 1
      <4>1. i \in 1 .. m /\ (i # 1 => i - 1 \in 1 .. m)
        BY <3>2
      <4>2. f[i] = IF i = 1 THEN seqs[i] ELSE f[i - 1] \o seqs[i]
        BY <2>1, <4>1, FlattensAt
      <4>. QED
        BY <2>2, <4>1, <4>2
    <3>. QED
      BY <3>1, <3>2
  <2>6. Flattens(seqs, m + 1, g)
    BY <2>4, <2>5, Zenon DEF Flattens
  <2>. QED
    BY <2>6
<1>3. T = Nat
  <2>1. T \in SUBSET Nat
    OBVIOUS
  <2> HIDE DEF T
  <2>. QED
    BY <1>1, <1>2, <2>1, NaturalsFrom0
<1>4. n \in T
  BY <1>3
<1>. QED
  BY <1>4

\* Two sequences have the same first n elements.
AgreeUpto(r, s, n) == \A i \in 1 .. n : r[i] = s[i]

\* The solutions for two sequences agree as far as the sequences do.
LEMMA FlattensAgree ==
  ASSUME NEW r, NEW s, NEW n \in Nat, NEW m \in Nat, n <= m, NEW f, NEW g,
         Flattens(r, n, f), Flattens(s, m, g), AgreeUpto(r, s, n)
  PROVE  AgreeUpto(f, g, n)
<1> DEFINE T == {i \in Nat : i \in 1 .. n => f[i] = g[i]}
<1>1. 0 \in T
  OBVIOUS
<1>2. ASSUME NEW i \in T PROVE i + 1 \in T
  <2>1. SUFFICES ASSUME i + 1 \in 1 .. n PROVE f[i + 1] = g[i + 1]
    OBVIOUS
  <2> DEFINE j == i + 1
  <2>2. j \in 1 .. n /\ j \in 1 .. m /\ j - 1 = i /\ (j # 1 => i \in 1 .. n)
    BY <2>1
  <2>3. j # 1 => f[i] = g[i]
    BY <1>2, <2>2
  <2> HIDE DEF j, T
  <2>4. f[j] = IF j = 1 THEN r[j] ELSE f[j - 1] \o r[j]
    BY <2>2, FlattensAt
  <2>5. g[j] = IF j = 1 THEN s[j] ELSE g[j - 1] \o s[j]
    BY <2>2, FlattensAt
  <2>6. r[j] = s[j]
    BY <2>2 DEF AgreeUpto
  <2>7. f[j] = g[j]
    BY <2>2, <2>3, <2>4, <2>5, <2>6
  <2>. QED
    BY <2>7 DEF j
<1>3. T = Nat
  <2>1. T \in SUBSET Nat
    OBVIOUS
  <2> HIDE DEF T
  <2>. QED
    BY <1>1, <1>2, <2>1, NaturalsFrom0
<1>4. \A i \in 1 .. n : f[i] = g[i]
  BY <1>3
<1>. QED
  BY <1>4 DEF AgreeUpto

\* A solution's values are sequences.
LEMMA FlattensType ==
  ASSUME NEW C, NEW seqs \in Seq(Seq(C)), NEW f, Flattens(seqs, Len(seqs), f)
  PROVE  \A i \in 1 .. Len(seqs) : f[i] \in Seq(C)
<1> DEFINE n == Len(seqs)
           T == {i \in Nat : i \in 1 .. n => f[i] \in Seq(C)}
<1>0. n \in Nat /\ \A i \in 1 .. n : seqs[i] \in Seq(C)
  BY LenProperties, ElementOfSeq
<1>1. 0 \in T
  OBVIOUS
<1>2. ASSUME NEW i \in T PROVE i + 1 \in T
  <2>1. SUFFICES ASSUME i + 1 \in 1 .. n PROVE f[i + 1] \in Seq(C)
    OBVIOUS
  <2> DEFINE j == i + 1
  <2>2. j \in 1 .. n /\ j - 1 = i /\ (j # 1 => i \in 1 .. n)
    BY <1>0, <2>1
  <2>3. j # 1 => f[i] \in Seq(C)
    BY <1>2, <2>2
  <2> HIDE DEF j, T
  <2>4. f[j] = IF j = 1 THEN seqs[j] ELSE f[j - 1] \o seqs[j]
    BY <1>0, <2>2, FlattensAt
  <2>5. f[j] \in Seq(C)
    <3>1. seqs[j] \in Seq(C)
      BY <1>0, <2>2
    <3>. QED
      BY <2>2, <2>3, <2>4, <3>1, ConcatProperties
  <2>. QED
    BY <2>5 DEF j
<1>3. T = Nat
  <2>1. T \in SUBSET Nat
    OBVIOUS
  <2> HIDE DEF T
  <2>. QED
    BY <1>1, <1>2, <2>1, NaturalsFrom0
<1>. QED
  BY <1>3

\* Flattening one sequence more appends it.
LEMMA FlatMore ==
  ASSUME NEW C, NEW seqs \in Seq(Seq(C)), NEW x \in Seq(C)
  PROVE  /\ FlattenSeq(<<>>) = <<>>
         /\ FlattenSeq(seqs) \in Seq(C)
         /\ FlattenSeq(Append(seqs, x)) = FlattenSeq(seqs) \o x
<1> DEFINE more == Append(seqs, x)
           n == Len(seqs)
<1>1. FlattenSeq(<<>>) = <<>>
  <2>1. Len(<<>>) = 0
    OBVIOUS
  <2>. QED
    BY <2>1 DEF FlattenSeq
<1>2. /\ more \in Seq(Seq(C)) /\ Len(more) = n + 1 /\ more[n + 1] = x /\ n \in Nat
      /\ \A i \in 1 .. n : more[i] = seqs[i]
  BY AppendProperties, LenProperties
<1> HIDE DEF more
<1> DEFINE g == CHOOSE g : Flattens(more, n + 1, g)
           f == CHOOSE f : Flattens(seqs, n, f)
<1>3. Flattens(more, n + 1, g) /\ Flattens(seqs, n, f)
  <2>1. n + 1 \in Nat
    BY <1>2
  <2>2. (\E h : Flattens(more, n + 1, h)) /\ (\E h : Flattens(seqs, n, h))
    BY <1>2, <2>1, FlattensExist
  <2>. QED
    BY <2>2
<1>4. FlattenSeq(more) = g[n + 1]
  <2>1. Len(more) # 0
    BY <1>2
  <2>2. FlattenSeq(more) = (CHOOSE h : Flattens(more, Len(more), h))[Len(more)]
    BY <2>1, FlatIsChosen
  <2>. QED
    BY <1>2, <2>2
<1>5. n # 0 => FlattenSeq(seqs) = f[n]
  BY FlatIsChosen
<1>6. n = 0 => seqs = <<>>
  BY EmptySeq
<1> HIDE DEF f, g
<1>7. g[n + 1] = IF n + 1 = 1 THEN more[n + 1] ELSE g[n + 1 - 1] \o more[n + 1]
  <2> DEFINE m == n + 1
  <2>1. m \in Nat /\ m \in 1 .. m /\ Flattens(more, m, g)
    BY <1>2, <1>3
  <2> HIDE DEF m
  <2>2. g[m] = IF m = 1 THEN more[m] ELSE g[m - 1] \o more[m]
    BY <2>1, FlattensAt
  <2>. QED
    BY <2>2 DEF m
<1>8. n # 0 => g[n] = f[n]
  <2> DEFINE m == n + 1
  <2>1. m \in Nat /\ n <= m /\ n \in Nat /\ Flattens(more, m, g) /\ Flattens(seqs, n, f)
    BY <1>2, <1>3
  <2>2. AgreeUpto(seqs, more, n)
    BY <1>2 DEF AgreeUpto
  <2> HIDE DEF m
  <2>3. AgreeUpto(f, g, n)
    BY <2>1, <2>2, FlattensAgree
  <2>4. n # 0 => n \in 1 .. n
    BY <1>2
  <2>. QED
    BY <2>3, <2>4 DEF AgreeUpto
<1>9. FlattenSeq(seqs) \in Seq(C)
  <2>1. CASE n = 0
    <3>1. seqs = <<>>
      BY <1>6, <2>1
    <3>2. <<>> \in Seq(C)
      BY EmptySeq
    <3>. QED
      BY <1>1, <3>1, <3>2, Zenon
  <2>2. CASE n # 0
    <3>1. n \in 1 .. n
      BY <1>2, <2>2
    <3>2. f[n] \in Seq(C)
      BY <1>3, <3>1, FlattensType
    <3>. QED
      BY <1>5, <2>2, <3>2
  <2>. QED
    BY <2>1, <2>2
<1>10. FlattenSeq(more) = FlattenSeq(seqs) \o x
  <2>1. CASE n = 0
    <3>1. g[n + 1] = x
      BY <1>2, <1>7, <2>1
    <3>2. <<>> \o x = x
      BY ConcatEmptySeq
    <3>. QED
      BY <1>1, <1>4, <1>6, <2>1, <3>1, <3>2
  <2>2. CASE n # 0
    <3>1. n + 1 # 1 /\ n + 1 - 1 = n
      BY <1>2, <2>2
    <3>2. g[n + 1] = g[n] \o x
      BY <1>2, <1>7, <3>1
    <3>. QED
      BY <1>4, <1>5, <1>8, <2>2, <3>2
  <2>. QED
    BY <2>1, <2>2
<1>. QED
  BY <1>1, <1>9, <1>10 DEF more

\* Messages with contents over C, and what one of them says in some roles.
Messages(C) == [role : Roles, content : Seq(C)]
SaidBy(roles, message) == IF message.role \in roles THEN message.content ELSE <<>>

\* One message more says what it says behind the others.
LEMMA SaidMore ==
  ASSUME NEW C, NEW roles, NEW messages \in Seq(Messages(C)), NEW m \in Messages(C)
  PROVE  /\ Said(roles, <<>>) = <<>>
         /\ Said(roles, messages) \in Seq(C) /\ SaidBy(roles, m) \in Seq(C)
         /\ Said(roles, Append(messages, m)) = Said(roles, messages) \o SaidBy(roles, m)
<1> DEFINE says(ms) == [i \in DOMAIN ms |-> SaidBy(roles, ms[i])]
           more == Append(messages, m)
           n == Len(messages)
<1>1. \A ms : Said(roles, ms) = FlattenSeq(says(ms))
  BY DEF Said, SaidBy
<1>2. \A x \in Messages(C) : SaidBy(roles, x) \in Seq(C)
  BY DEF SaidBy, Messages
<1>3. /\ more \in Seq(Messages(C)) /\ Len(more) = n + 1 /\ more[n + 1] = m /\ n \in Nat
      /\ \A i \in 1 .. n : more[i] = messages[i]
  BY AppendProperties, LenProperties
<1>4. DOMAIN more = 1 .. n + 1 /\ DOMAIN messages = 1 .. n
  BY <1>3, LenProperties
<1>5. says(messages) \in Seq(Seq(C)) /\ Len(says(messages)) = n
  <2>1. \A i \in 1 .. n : messages[i] \in Messages(C)
    BY <1>4, ElementOfSeq
  <2> DEFINE s == says(messages)
  <2>2. s = [i \in 1 .. n |-> SaidBy(roles, messages[i])]
    BY <1>4
  <2>3. \A i \in 1 .. n : SaidBy(roles, messages[i]) \in Seq(C)
    BY <1>2, <2>1
  <2> HIDE DEF s
  <2>4. s \in [1 .. n -> Seq(C)]
    BY <2>2, <2>3
  <2>5. s \in Seq(Seq(C)) /\ Len(s) = n
    BY <1>3, <2>4, IsASeq
  <2>. QED
    BY <2>5 DEF s
<1> DEFINE x == SaidBy(roles, m)
<1>6. x \in Seq(C)
  BY <1>2
<1> DEFINE old == says(messages)
           new == says(more)
<1>7. new = Append(old, x)
  <2>1. /\ DOMAIN new = 1 .. n + 1 /\ new[n + 1] = x
        /\ \A i \in 1 .. n : new[i] = old[i]
    BY <1>3, <1>4
  <2>2. new = [i \in 1 .. n + 1 |-> new[i]]
    BY <1>4
  <2>3. old \in Seq(Seq(C)) /\ Len(old) = n
    BY <1>5
  <2> HIDE DEF new, old, x, more
  <2> DEFINE a == Append(old, x)
             S == Seq(C)
  <2>4. n \in Nat
    BY <1>3
  <2>5. x \in S /\ old \in Seq(S)
    BY <1>6, <2>3
  <2> HIDE DEF n, S
  <2>6. /\ Len(a) = Len(old) + 1 /\ a[Len(old) + 1] = x
        /\ \A i \in 1 .. Len(old) : a[i] = old[i]
    BY <2>5, AppendProperties
  <2>7. a \in Seq(S)
    BY <2>5, AppendProperties
  <2> HIDE DEF a
  <2>8. Len(a) = n + 1 /\ a[n + 1] = x /\ \A i \in 1 .. n : a[i] = old[i]
    BY <2>3, <2>6
  <2>9. a = [i \in 1 .. n + 1 |-> a[i]]
    BY <2>4, <2>7, <2>8
  <2>10. ASSUME NEW i \in 1 .. n + 1 PROVE new[i] = a[i]
    <3>1. i = n + 1 \/ i \in 1 .. n
      BY <2>4
    <3>. QED
      BY <2>1, <2>8, <3>1
  <2>. QED
    BY <2>2, <2>9, <2>10 DEF a
<1>8. says(<<>>) = <<>>
  OBVIOUS
<1>9. FlattenSeq(<<>>) = <<>> /\ FlattenSeq(old) \in Seq(C) /\ FlattenSeq(Append(old, x)) = FlattenSeq(old) \o x
  <2>1. old \in Seq(Seq(C))
    BY <1>5
  <2> HIDE DEF old, x
  <2>. QED
    BY <1>6, <2>1, FlatMore
<1>. QED
  BY <1>1, <1>6, <1>7, <1>8, <1>9
\* The first k messages, and the turns that are sent.
First(messages, k) == [i \in 1 .. k |-> messages[i]]
Turns(C) == [role : {"user", "assistant"}, content : Seq(C)]

\* The first messages, one more at a time.
LEMMA FirstMore ==
  ASSUME NEW S, NEW messages \in Seq(S)
  PROVE  /\ First(messages, 0) = <<>> /\ First(messages, Len(messages)) = messages
         /\ \A k \in 0 .. Len(messages) : First(messages, k) \in Seq(S)
         /\ \A k \in 1 .. Len(messages) :
              First(messages, k) = Append(First(messages, k - 1), messages[k])
<1> DEFINE n == Len(messages)
<1>1. n \in Nat /\ DOMAIN messages = 1 .. n /\ \A i \in 1 .. n : messages[i] \in S
  BY LenProperties, ElementOfSeq
<1>2. messages = [i \in 1 .. n |-> messages[i]]
  BY LenProperties
<1> HIDE DEF n
<1>3. First(messages, 0) = <<>>
  <2>1. 1 .. 0 = {}
    OBVIOUS
  <2>. QED
    BY <2>1 DEF First
<1>4. ASSUME NEW k \in 0 .. n
      PROVE  /\ First(messages, k) \in Seq(S) /\ Len(First(messages, k)) = k
             /\ \A i \in 1 .. k : First(messages, k)[i] = messages[i]
  <2> DEFINE s == First(messages, k)
  <2>1. k \in Nat /\ \A i \in 1 .. k : messages[i] \in S
    BY <1>1
  <2>2. s = [i \in 1 .. k |-> messages[i]]
    BY DEF First
  <2> HIDE DEF s
  <2>3. s \in [1 .. k -> S]
    BY <2>1, <2>2
  <2>4. s \in Seq(S) /\ Len(s) = k
    BY <2>1, <2>3, IsASeq
  <2>5. \A i \in 1 .. k : s[i] = messages[i]
    BY <2>2
  <2>. QED
    BY <2>4, <2>5 DEF s
<1>5. ASSUME NEW k \in 1 .. n
      PROVE  First(messages, k) = Append(First(messages, k - 1), messages[k])
  <2> DEFINE s == First(messages, k)
             r == First(messages, k - 1)
             a == Append(r, messages[k])
             l == k - 1
  <2>1. l \in 0 .. n /\ k \in 0 .. n /\ messages[k] \in S /\ k = l + 1 /\ l \in Nat
    BY <1>1
  <2>2. s \in Seq(S) /\ Len(s) = k /\ \A i \in 1 .. k : s[i] = messages[i]
    BY <1>4, <2>1
  <2>3. r \in Seq(S) /\ Len(r) = l /\ \A i \in 1 .. l : r[i] = messages[i]
    BY <1>4, <2>1
  <2> HIDE DEF r, s, l
  <2>4. /\ a \in Seq(S) /\ Len(a) = Len(r) + 1 /\ a[Len(r) + 1] = messages[k]
        /\ \A i \in 1 .. Len(r) : a[i] = r[i]
    BY <2>1, <2>3, AppendProperties
  <2> HIDE DEF a
  <2>5. Len(a) = k /\ a[k] = messages[k] /\ \A i \in 1 .. l : a[i] = r[i]
    BY <2>1, <2>3, <2>4
  <2>6. ASSUME NEW i \in 1 .. k PROVE s[i] = a[i]
    <3>1. i = k \/ i \in 1 .. l
      BY <2>1
    <3>. QED
      BY <2>2, <2>3, <2>5, <3>1
  <2>7. s = [i \in 1 .. k |-> s[i]] /\ a = [i \in 1 .. k |-> a[i]]
    BY <2>1, <2>2, <2>4, <2>5
  <2>8. s = a
    BY <2>6, <2>7
  <2>. QED
    BY <2>8 DEF s, a, r
<1>6. First(messages, n) = messages
  BY <1>2 DEF First
<1>7. \A k \in 0 .. n : First(messages, k) \in Seq(S)
  BY <1>4
<1>8. \A k \in 1 .. n : First(messages, k) = Append(First(messages, k - 1), messages[k])
  BY <1>5
<1>. QED
  BY <1>3, <1>6, <1>7, <1>8 DEF n

\* Two sets of roles that mean the same before and after the tool's role is mapped.
Match(sent, meant) ==
  /\ "system" \notin meant
  /\ "user" \in sent <=> "user" \in meant
  /\ "user" \in sent <=> "tool" \in meant
  /\ "assistant" \in sent <=> "assistant" \in meant

\* What the first loop has, when it has heard the messages of prefix.
HearsWell(C, heard, prefix) ==
  /\ heard = [system |-> heard.system, messages |-> heard.messages]
  /\ heard.messages \in Seq(Turns(C))
  /\ \A sent, meant : Match(sent, meant) => Said(sent, heard.messages) = Said(meant, prefix)

\* A pass of the first loop.
LEMMA HearMore ==
  ASSUME NEW C, NEW heard, NEW prefix \in Seq(Messages(C)), NEW m \in Messages(C),
         HearsWell(C, heard, prefix)
  PROVE  HearsWell(C, Hear(heard, m), Append(prefix, m))
<1> DEFINE next == Hear(heard, m)
           turn == AsUser(m)
<1>1. m.role \in Roles /\ m.content \in Seq(C) /\ m = [role |-> m.role, content |-> m.content]
  BY DEF Messages
<1>2. /\ turn.content = m.content
      /\ turn.role = IF m.role = "tool" THEN "user" ELSE m.role
      /\ turn = [role |-> turn.role, content |-> turn.content]
  BY <1>1 DEF AsUser
<1>3. /\ heard = [system |-> heard.system, messages |-> heard.messages]
      /\ heard.messages \in Seq(Turns(C))
  BY DEF HearsWell
<1>4. ASSUME NEW sent, NEW meant, Match(sent, meant)
      PROVE  /\ Said(sent, heard.messages) = Said(meant, prefix)
             /\ Said(meant, prefix) \in Seq(C)
             /\ Said(meant, Append(prefix, m)) = Said(meant, prefix) \o SaidBy(meant, m)
  BY <1>4, SaidMore DEF HearsWell
<1>5. CASE m.role = "system"
  <2>1. /\ next = [system |-> m.content, messages |-> heard.messages]
        /\ next.messages = heard.messages
    BY <1>3, <1>5 DEF Hear
  <2> HIDE DEF next
  <2>2. ASSUME NEW sent, NEW meant, Match(sent, meant)
        PROVE  Said(sent, next.messages) = Said(meant, Append(prefix, m))
    <3>1. SaidBy(meant, m) = <<>>
      BY <1>5, <2>2 DEF SaidBy, Match
    <3>2. Said(meant, prefix) \o <<>> = Said(meant, prefix)
      BY <1>4, <2>2, ConcatEmptySeq
    <3>. QED
      BY <1>4, <2>1, <2>2, <3>1, <3>2
  <2>3. next = [system |-> next.system, messages |-> next.messages]
    BY <2>1
  <2>4. HearsWell(C, next, Append(prefix, m))
    BY <1>3, <2>1, <2>2, <2>3, Zenon DEF HearsWell
  <2>. QED
    BY <2>4 DEF next
<1>6. CASE m.role # "system"
  <2>1. turn \in Turns(C) /\ turn \in Messages(C)
    BY <1>1, <1>2, <1>6 DEF Turns, Messages, Roles
  <2>2. /\ next = [system |-> heard.system, messages |-> Append(heard.messages, turn)]
        /\ next.messages = Append(heard.messages, turn)
    BY <1>3, <1>6 DEF Hear
  <2> HIDE DEF next, turn
  <2>3. next.messages \in Seq(Turns(C))
    BY <1>3, <2>1, <2>2, AppendProperties
  <2>4. heard.messages \in Seq(Messages(C))
    <3>1. Turns(C) \in SUBSET Messages(C)
      BY DEF Turns, Messages, Roles
    <3>. QED
      BY <1>3, <3>1, SeqMonotonic
  <2>5. ASSUME NEW sent, NEW meant, Match(sent, meant)
        PROVE  Said(sent, next.messages) = Said(meant, Append(prefix, m))
    <3>1. SaidBy(meant, m) = SaidBy(sent, turn)
      BY <1>1, <1>2, <1>6, <2>5 DEF SaidBy, Match, Roles
    <3>2. Said(sent, Append(heard.messages, turn)) = Said(sent, heard.messages) \o SaidBy(sent, turn)
      BY <2>1, <2>4, SaidMore
    <3>. QED
      BY <1>4, <2>2, <2>5, <3>1, <3>2
  <2>6. next = [system |-> next.system, messages |-> next.messages]
    BY <2>2
  <2>7. HearsWell(C, next, Append(prefix, m))
    BY <2>3, <2>5, <2>6, Zenon DEF HearsWell
  <2>. QED
    BY <2>7 DEF next
<1>. QED
  BY <1>5, <1>6

\* No message says anything.
LEMMA NothingSaid == ASSUME NEW roles PROVE Said(roles, <<>>) = <<>>
<1>1. FlattenSeq(<<>>) = <<>>
  <2>1. Len(<<>>) = 0
    OBVIOUS
  <2>. QED
    BY <2>1 DEF FlattenSeq
<1>2. [i \in DOMAIN <<>> |-> IF <<>>[i].role \in roles THEN <<>>[i].content ELSE <<>>] = <<>>
  OBVIOUS
<1>. QED
  BY <1>1, <1>2 DEF Said

\* What the first loop makes of a history.
LEMMA HeardWell ==
  ASSUME NEW C, NEW history \in Seq(Messages(C))
  PROVE  HearsWell(C, Heard(history), history)
<1> DEFINE base == [system |-> <<>>, messages |-> <<>>]
           n == Len(history)
<1>1. PICK before : Passes("hear", base, history, before) /\ Heard(history) = before[n]
  BY HeardPasses
<1> DEFINE T == {k \in Nat : k \in 0 .. n => HearsWell(C, before[k], First(history, k))}
<1>2. n \in Nat
  BY LenProperties
<1>3. 0 \in T
  <2>1. before[0] = base
    BY <1>1 DEF Passes
  <2>2. First(history, 0) = <<>>
    BY FirstMore
  <2>3. base.messages = <<>> /\ base = [system |-> base.system, messages |-> base.messages]
    OBVIOUS
  <2>4. <<>> \in Seq(Turns(C))
    BY EmptySeq
  <2>5. \A roles : Said(roles, <<>>) = <<>>
    BY NothingSaid
  <2> HIDE DEF base
  <2>6. HearsWell(C, base, <<>>)
    BY <2>3, <2>4, <2>5 DEF HearsWell
  <2>7. HearsWell(C, before[0], First(history, 0))
    BY <2>1, <2>2, <2>6
  <2>. QED
    BY <2>7
<1>4. ASSUME NEW i \in T PROVE i + 1 \in T
  <2>1. SUFFICES ASSUME i + 1 \in 0 .. n PROVE HearsWell(C, before[i + 1], First(history, i + 1))
    OBVIOUS
  <2> DEFINE k == i + 1
  <2>2. k \in 1 .. n /\ k - 1 = i /\ i \in 0 .. n
    BY <1>2, <2>1
  <2>3. HearsWell(C, before[i], First(history, i))
    BY <1>4, <2>2
  <2> HIDE DEF k, T
  <2>4. before[k] = Hear(before[k - 1], history[k])
    BY <1>1, <2>2 DEF Passes, Run
  <2>5. First(history, k) = Append(First(history, k - 1), history[k])
    BY <2>2, FirstMore
  <2>6. history[k] \in Messages(C)
    BY <2>2, LenProperties, ElementOfSeq
  <2>7. First(history, i) \in Seq(Messages(C))
    BY <2>2, FirstMore
  <2>8. HearsWell(C, Hear(before[i], history[k]), Append(First(history, i), history[k]))
    BY <2>3, <2>6, <2>7, HearMore
  <2>9. HearsWell(C, before[k], First(history, k))
    BY <2>2, <2>4, <2>5, <2>8
  <2>. QED
    BY <2>9 DEF k
<1>5. T = Nat
  <2>1. T \in SUBSET Nat
    OBVIOUS
  <2> HIDE DEF T
  <2>. QED
    BY <1>3, <1>4, <2>1, NaturalsFrom0
<1>6. HearsWell(C, before[n], First(history, n))
  <2>1. n \in T /\ n \in 0 .. n
    BY <1>2, <1>5
  <2>. QED
    BY <2>1
<1>7. First(history, n) = history
  BY FirstMore
<1>. QED
  BY <1>1, <1>6, <1>7
\* No two neighbours speak in the same role.
Alternates(messages) == \A i \in 1 .. (Len(messages) - 1) : messages[i].role # messages[i + 1].role

\* One message more alternates when the one before it has another role.
LEMMA AlternatesMore ==
  ASSUME NEW S, NEW messages \in Seq(S), NEW m \in S
  PROVE  /\ Alternates(Append(messages, m))
              <=> /\ Alternates(messages)
                  /\ messages # <<>> => messages[Len(messages)].role # m.role
         /\ Append(messages, m) # <<>> /\ Append(messages, m)[Len(Append(messages, m))] = m
<1> DEFINE more == Append(messages, m)
           n == Len(messages)
<1>1. /\ Len(more) = Len(messages) + 1 /\ more[Len(messages) + 1] = m /\ more # <<>>
      /\ \A i \in 1 .. Len(messages) : more[i] = messages[i]
  BY AppendProperties
<1>2. n \in Nat /\ (messages # <<>> => n # 0)
  BY LenProperties, EmptySeq
<1>3. n = 0 => messages = <<>>
  BY EmptySeq
<1> HIDE DEF more
<1>4. Len(more) = n + 1 /\ more[n + 1] = m /\ more # <<>> /\ \A i \in 1 .. n : more[i] = messages[i]
  BY <1>1
<1> HIDE DEF n
<1>5. ASSUME Alternates(more) PROVE Alternates(messages) /\ (messages # <<>> => messages[n].role # m.role)
  <2>1. \A i \in 1 .. n : more[i].role # more[i + 1].role
    BY <1>2, <1>4, <1>5 DEF Alternates
  <2>2. ASSUME NEW i \in 1 .. n - 1 PROVE messages[i].role # messages[i + 1].role
    <3>1. i \in 1 .. n /\ i + 1 \in 1 .. n
      BY <1>2
    <3>. QED
      BY <1>4, <2>1, <3>1
  <2>3. ASSUME messages # <<>> PROVE messages[n].role # m.role
    <3>1. n \in 1 .. n
      BY <1>2, <2>3
    <3>. QED
      BY <1>4, <2>1, <3>1
  <2>4. Alternates(messages)
    BY <2>2 DEF Alternates, n
  <2>. QED
    BY <2>3, <2>4
<1>6. ASSUME Alternates(messages), messages # <<>> => messages[n].role # m.role PROVE Alternates(more)
  <2>1. \A i \in 1 .. (n - 1) : messages[i].role # messages[i + 1].role
    BY <1>6 DEF Alternates, n
  <2>2. ASSUME NEW i \in 1 .. n PROVE more[i].role # more[i + 1].role
    <3>1. CASE i = n
      <4>1. messages # <<>>
        BY <1>2, <2>2 DEF n
      <4>. QED
        BY <1>4, <1>6, <2>2, <3>1, <4>1
    <3>2. CASE i # n
      <4>1. i \in 1 .. (n - 1) /\ i + 1 \in 1 .. n
        BY <1>2, <3>2
      <4>. QED
        BY <1>4, <2>1, <4>1
    <3>. QED
      BY <3>1, <3>2
  <2>3. Len(more) - 1 = n
    BY <1>2, <1>4
  <2>. QED
    BY <2>2, <2>3 DEF Alternates
<1>7. Alternates(more) <=> Alternates(messages) /\ (messages # <<>> => messages[n].role # m.role)
  BY <1>5, <1>6
<1>. QED
  BY <1>4, <1>7 DEF more, n

\* What the second loop has, when it has seen the messages of prefix.
MergesWell(C, state, prefix) ==
  LET sofar == Append(state.merged, state.current)
  IN  /\ state = [merged |-> state.merged, current |-> state.current]
      /\ state.merged \in Seq(Turns(C)) /\ state.current \in Turns(C)
      /\ Alternates(sofar)
      /\ \A roles : Said(roles, sofar) = Said(roles, prefix)

\* A turn is a message.
LEMMA TurnsAreMessages ==
  ASSUME NEW C
  PROVE  Turns(C) \in SUBSET Messages(C) /\ Seq(Turns(C)) \in SUBSET Seq(Messages(C))
<1>1. Turns(C) \in SUBSET Messages(C)
  BY DEF Turns, Messages, Roles
<1>. QED
  BY <1>1, SeqMonotonic

\* A pass of the second loop.
LEMMA MergeMore ==
  ASSUME NEW C, NEW state, NEW prefix \in Seq(Turns(C)), NEW m \in Turns(C),
         MergesWell(C, state, prefix)
  PROVE  MergesWell(C, MergeNext(state, m), Append(prefix, m))
<1> DEFINE next == MergeNext(state, m)
           a == state.merged
           c == state.current
           T == Turns(C)
<1>1. a \in Seq(T) /\ c \in T /\ Alternates(Append(a, c)) /\ state = [merged |-> a, current |-> c]
  BY DEF MergesWell
<1>2. \A roles : Said(roles, Append(a, c)) = Said(roles, prefix)
  BY DEF MergesWell
<1>3. \A roles : Said(roles, Append(prefix, m)) = Said(roles, prefix) \o SaidBy(roles, m)
  <2>1. prefix \in Seq(Messages(C)) /\ m \in Messages(C)
    BY TurnsAreMessages
  <2>. QED
    BY <2>1, SaidMore
<1>4. /\ m.role \in {"user", "assistant"} /\ m.content \in Seq(C)
      /\ c.role \in {"user", "assistant"} /\ c.content \in Seq(C)
      /\ c = [role |-> c.role, content |-> c.content]
  BY <1>1 DEF Turns
<1>5. CASE m.role = c.role
  <2> DEFINE d == [role |-> c.role, content |-> c.content \o m.content]
  <2>1. next = [merged |-> a, current |-> d] /\ next.merged = a /\ next.current = d
    <3>1. state = [merged |-> a, current |-> [role |-> c.role, content |-> c.content]]
      BY <1>1, <1>4, Zenon
    <3>2. next = [merged |-> a, current |-> d]
      <4> DEFINE r == c.role
                 x == c.content
      <4>1. m.role = r
        BY <1>5
      <4> HIDE DEF a, r, x
      <4>2. MergeNext([merged |-> a, current |-> [role |-> r, content |-> x]], m)
              = [merged |-> a, current |-> [role |-> r, content |-> x \o m.content]]
        BY <4>1 DEF MergeNext
      <4>. QED
        BY <3>1, <4>2, Zenon DEF r, x
    <3> HIDE DEF a, d
    <3>. QED
      BY <3>2
  <2>2. c.content \o m.content \in Seq(C)
    BY <1>4, ConcatProperties
  <2>3. d \in T /\ d.role = c.role /\ d.content = c.content \o m.content
    BY <1>4, <2>2 DEF Turns
  <2> HIDE DEF next, d, a, c, T
  <2>4. Alternates(Append(a, d))
    BY <1>1, <2>3, AlternatesMore
  <2>5. ASSUME NEW roles PROVE Said(roles, Append(a, d)) = Said(roles, Append(prefix, m))
    <3>1. /\ Said(roles, Append(a, d)) = Said(roles, a) \o SaidBy(roles, d)
          /\ Said(roles, Append(a, c)) = Said(roles, a) \o SaidBy(roles, c)
          /\ Said(roles, a) \in Seq(C) /\ SaidBy(roles, c) \in Seq(C) /\ SaidBy(roles, m) \in Seq(C)
      <4>1. a \in Seq(Messages(C)) /\ c \in Messages(C) /\ d \in Messages(C) /\ m \in Messages(C)
        BY <1>1, <2>3, TurnsAreMessages DEF T
      <4>. QED
        BY <4>1, SaidMore
    <3>2. SaidBy(roles, d) = SaidBy(roles, c) \o SaidBy(roles, m)
      <4>1. CASE c.role \in roles
        BY <1>5, <2>3, <4>1 DEF SaidBy
      <4>2. CASE c.role \notin roles
        <5>1. SaidBy(roles, d) = <<>> /\ SaidBy(roles, c) = <<>> /\ SaidBy(roles, m) = <<>>
          BY <1>5, <2>3, <4>2 DEF SaidBy
        <5>2. <<>> \o <<>> = <<>>
          OBVIOUS
        <5>. QED
          BY <5>1, <5>2
      <4>. QED
        BY <4>1, <4>2
    <3>3. Said(roles, a) \o (SaidBy(roles, c) \o SaidBy(roles, m))
            = (Said(roles, a) \o SaidBy(roles, c)) \o SaidBy(roles, m)
      <4> DEFINE u == Said(roles, a)
                 v == SaidBy(roles, c)
                 w == SaidBy(roles, m)
      <4>1. u \in Seq(C) /\ v \in Seq(C) /\ w \in Seq(C)
        BY <3>1
      <4> HIDE DEF u, v, w
      <4>2. u \o (v \o w) = (u \o v) \o w
        BY <4>1, ConcatAssociative
      <4>. QED
        BY <4>2 DEF u, v, w
    <3>. QED
      BY <1>2, <1>3, <3>1, <3>2, <3>3, Zenon
  <2>6. MergesWell(C, next, Append(prefix, m))
    BY <1>1, <2>1, <2>3, <2>4, <2>5 DEF MergesWell, T
  <2>. QED
    BY <2>6 DEF next
<1>6. CASE m.role # c.role
  <2> DEFINE s == Append(a, c)
  <2>1. next = [merged |-> s, current |-> m] /\ next.merged = s /\ next.current = m
    BY <1>6 DEF MergeNext
  <2>2. s \in Seq(T) /\ s # <<>> /\ s[Len(s)] = c
    BY <1>1, AppendProperties
  <2> HIDE DEF next, a, c, T
  <2>3. Alternates(s)
    BY <1>1
  <2> HIDE DEF s
  <2>4. Alternates(Append(s, m))
    BY <1>6, <2>2, <2>3, AlternatesMore DEF T
  <2>5. ASSUME NEW roles PROVE Said(roles, Append(s, m)) = Said(roles, Append(prefix, m))
    <3>1. s \in Seq(Messages(C)) /\ m \in Messages(C)
      BY <2>2, TurnsAreMessages DEF T
    <3>2. Said(roles, Append(s, m)) = Said(roles, s) \o SaidBy(roles, m)
      BY <3>1, SaidMore
    <3>. QED
      BY <1>2, <1>3, <3>2 DEF s
  <2>6. MergesWell(C, next, Append(prefix, m))
    BY <2>1, <2>2, <2>4, <2>5 DEF MergesWell, T
  <2>. QED
    BY <2>6 DEF next
<1>. QED
  BY <1>5, <1>6

\* What the second loop makes of turns.
LEMMA MergedWell ==
  ASSUME NEW C, NEW messages \in Seq(Turns(C))
  PROVE  /\ Merged(messages) \in Seq(Turns(C)) /\ Alternates(Merged(messages))
         /\ \A roles : Said(roles, Merged(messages)) = Said(roles, messages)
<1> DEFINE n == Len(messages)
<1>1. n \in Nat /\ DOMAIN messages = 1 .. n
  BY LenProperties
<1>2. CASE n <= 1
  <2>1. Merged(messages) = messages
    BY <1>2 DEF Merged
  <2>2. 1 .. (Len(messages) - 1) = {}
    BY <1>1, <1>2
  <2>. QED
    BY <2>1, <2>2 DEF Alternates
<1>3. CASE n > 1
  <2> DEFINE base == [merged |-> <<>>, current |-> Head(messages)]
             rest == Tail(messages)
             end == FoldLeft(MergeNext, base, rest)
             l == n - 1
  <2>1. l \in Nat /\ messages # <<>>
    BY <1>1, <1>3
  <2>2. /\ rest \in Seq(Turns(C)) /\ Len(rest) = l /\ Head(messages) = messages[1]
        /\ \A k \in 1 .. l : rest[k] = messages[k + 1]
    BY <1>1, <1>3, HeadTailProperties
  <2>3. Merged(messages) = Append(end.merged, end.current)
    BY <1>1, <1>3 DEF Merged
  <2>4. PICK before : Passes("merge", base, rest, before) /\ end = before[Len(rest)]
    BY <2>2, MergedPasses
  <2> HIDE DEF rest, end
  <2>5. MergesWell(C, before[0], First(messages, 1))
    <3> DEFINE x == messages[1]
    <3>1. x \in Turns(C)
      BY <1>1, <1>3, ElementOfSeq
    <3>2. First(messages, 1) = Append(<<>>, x)
      <4>1. 1 \in 1 .. n /\ 1 - 1 = 0
        BY <1>1, <1>3
      <4>2. First(messages, 1) = Append(First(messages, 1 - 1), messages[1])
        BY <4>1, FirstMore
      <4>3. First(messages, 0) = <<>>
        BY FirstMore
      <4>. QED
        BY <4>1, <4>2, <4>3
    <3>3. before[0] = [merged |-> <<>>, current |-> x]
      BY <2>2, <2>4 DEF Passes
    <3> HIDE DEF x
    <3>4. <<>> \in Seq(Turns(C)) /\ Alternates(<<>>)
      <4>1. Len(<<>>) = 0
        OBVIOUS
      <4>2. 1 .. (Len(<<>>) - 1) = {}
        BY <4>1
      <4>3. <<>> \in Seq(Turns(C))
        BY EmptySeq
      <4>. QED
        BY <4>2, <4>3 DEF Alternates
    <3>5. Alternates(Append(<<>>, x))
      BY <3>1, <3>4, AlternatesMore
    <3>. QED
      BY <3>1, <3>2, <3>3, <3>4, <3>5 DEF MergesWell
  <2> HIDE DEF base
  <2> DEFINE T == {k \in Nat : k \in 0 .. l => MergesWell(C, before[k], First(messages, k + 1))}
  <2>6. 0 \in T
    BY <2>5
  <2>7. ASSUME NEW i \in T PROVE i + 1 \in T
    <3>1. SUFFICES ASSUME i + 1 \in 0 .. l
                   PROVE  MergesWell(C, before[i + 1], First(messages, i + 1 + 1))
      OBVIOUS
    <3> DEFINE k == i + 1
               j == k + 1
    <3>2. /\ k \in 1 .. l /\ k - 1 = i /\ i \in 0 .. l /\ k \in 0 .. n
          /\ j \in 1 .. n /\ j - 1 = k
      BY <1>1, <2>1, <3>1
    <3>3. MergesWell(C, before[i], First(messages, k))
      BY <2>7, <3>2
    <3>4. rest[k] = messages[j]
      BY <2>2, <3>2
    <3> HIDE DEF j, k, T, l
    <3>5. before[k] = MergeNext(before[k - 1], rest[k])
      BY <2>2, <2>4, <3>2 DEF Passes, Run
    <3>6. First(messages, j) = Append(First(messages, j - 1), messages[j])
      BY <3>2, FirstMore
    <3>7. messages[j] \in Turns(C)
      BY <3>2, ElementOfSeq
    <3>8. First(messages, k) \in Seq(Turns(C))
      BY <3>2, FirstMore
    <3>9. MergesWell(C, MergeNext(before[i], messages[j]), Append(First(messages, k), messages[j]))
      BY <3>3, <3>7, <3>8, MergeMore
    <3>10. MergesWell(C, before[k], First(messages, j))
      BY <3>2, <3>4, <3>5, <3>6, <3>9
    <3>. QED
      BY <3>10 DEF j, k
  <2>8. T = Nat
    <3>1. T \in SUBSET Nat
      OBVIOUS
    <3> HIDE DEF T
    <3>. QED
      BY <2>6, <2>7, <3>1, NaturalsFrom0
  <2>9. MergesWell(C, end, messages)
    <3>1. l \in T /\ l \in 0 .. l /\ l + 1 = n
      BY <1>1, <2>1, <2>8
    <3>2. First(messages, n) = messages
      BY FirstMore
    <3>3. MergesWell(C, before[l], First(messages, l + 1))
      BY <3>1
    <3>. QED
      BY <2>2, <2>4, <3>1, <3>2, <3>3
  <2>10. end.merged \in Seq(Turns(C)) /\ end.current \in Turns(C)
    BY <2>9 DEF MergesWell
  <2>11. Append(end.merged, end.current) \in Seq(Turns(C))
    BY <2>10, AppendProperties
  <2>. QED
    BY <2>3, <2>9, <2>11 DEF MergesWell
<1>. QED
  BY <1>1, <1>2, <1>3

\* What is sent of a history.
LEMMA PreparedWell ==
  ASSUME NEW C, NEW history \in Seq(Messages(C))
  PROVE  LET messages == AnthropicMessages(history)
         IN  /\ messages \in Seq(Turns(C)) /\ Alternates(messages)
             /\ \A sent, meant : Match(sent, meant) => Said(sent, messages) = Said(meant, history)
<1> DEFINE heard == Heard(history).messages
<1>1. HearsWell(C, Heard(history), history)
  BY HeardWell
<1>2. heard \in Seq(Turns(C))
  BY <1>1 DEF HearsWell
<1>3. \A sent, meant : Match(sent, meant) => Said(sent, heard) = Said(meant, history)
  BY <1>1 DEF HearsWell
<1>4. AnthropicMessages(history) = Merged(heard)
  BY DEF AnthropicMessages
<1> HIDE DEF heard
<1>5. /\ Merged(heard) \in Seq(Turns(C)) /\ Alternates(Merged(heard))
      /\ \A roles : Said(roles, Merged(heard)) = Said(roles, heard)
  BY <1>2, MergedWell
<1>. QED
  BY <1>3, <1>4, <1>5

-----------------------------------------------------------------------------
(***************************************************************************)
(* The request, and the types                                              *)
(***************************************************************************)
\* A history is a sequence of messages over some set of contents.
LEMMA HistoryIsMessages ==
  ASSUME NEW c \in Calls
  PROVE  \E C : c.history \in Seq(Messages(C))
<1> DEFINE h == c.history
           C == UNION {ToSet(m.content) : m \in ToSet(h)}
<1>1. h \in Seq(ToSet(h))
  BY CallConstants
<1>2. ASSUME NEW m \in ToSet(h) PROVE m \in Messages(C)
  <2>1. m = [role |-> m.role, content |-> m.content] /\ m.role \in Roles /\ m.content \in Seq(ToSet(m.content))
    BY CallConstants
  <2>2. ToSet(m.content) \in SUBSET C
    OBVIOUS
  <2> HIDE DEF C
  <2>3. m.content \in Seq(C)
    BY <2>1, <2>2, SeqMonotonic
  <2>. QED
    BY <2>1, <2>3 DEF Messages
<1> HIDE DEF h, C
<1>3. ToSet(h) \in SUBSET Messages(C)
  BY <1>2
<1>4. h \in Seq(Messages(C))
  BY <1>1, <1>3, SeqMonotonic
<1>. QED
  BY <1>4 DEF h

\* The request of a state that satisfies the invariant keeps the history.
LEMMA KeepsHistory == Invariant => RequestKeepsHistory
<1> DEFINE h == call.history
           messages == AnthropicMessages(h)
<1>1. SUFFICES ASSUME Invariant, pc # "prepare", call.provider = "anthropic"
               PROVE  /\ \A i \in 1 .. (Len(request.messages) - 1) :
                           request.messages[i].role # request.messages[i + 1].role
                      /\ Said(Roles, request.messages) = Said({"user", "assistant", "tool"}, h)
                      /\ Said({"user"}, request.messages) = Said({"user", "tool"}, h)
                      /\ Said({"assistant"}, request.messages) = Said({"assistant"}, h)
  BY DEF RequestKeepsHistory
<1>2. request.messages = messages
  BY <1>1 DEF Invariant, CallShape, Prepared
<1>3. PICK C : h \in Seq(Messages(C))
  BY <1>1, HistoryIsMessages DEF Invariant, CallShape
<1> HIDE DEF h
<1>4. /\ Alternates(messages)
      /\ \A sent, meant : Match(sent, meant) => Said(sent, messages) = Said(meant, h)
  BY <1>3, PreparedWell
<1>5. /\ Match(Roles, {"user", "assistant", "tool"}) /\ Match({"user"}, {"user", "tool"})
      /\ Match({"assistant"}, {"assistant"})
  BY DEF Match, Roles
<1> HIDE DEF messages
<1>6. /\ Said(Roles, messages) = Said({"user", "assistant", "tool"}, h)
      /\ Said({"user"}, messages) = Said({"user", "tool"}, h)
      /\ Said({"assistant"}, messages) = Said({"assistant"}, h)
  BY <1>4, <1>5
<1>7. \A i \in 1 .. (Len(messages) - 1) : messages[i].role # messages[i + 1].role
  BY <1>4 DEF Alternates
<1>. QED
  BY <1>2, <1>6, <1>7

\* What the Anthropic provider sends speaks in turns and says everything the
\* conversation says besides the system prompt, in its order, for every
\* conversation (prepareAnthropicMessages, mergeConsecutiveMessages).
THEOREM RequestHolds == Spec => []RequestKeepsHistory
BY Inductive, KeepsHistory, PTL

\* The messages of a request have one of the roles.
LEMMA RequestRoles ==
  ASSUME Invariant
  PROVE  \A i \in DOMAIN request.messages : request.messages[i].role \in Roles
<1>1. call \in Calls /\ call.provider \in Providers
  BY CallConstants DEF Invariant, CallShape
<1>2. PICK C : call.history \in Seq(Messages(C))
  BY <1>1, HistoryIsMessages
<1>3. CASE pc = "prepare"
  BY <1>3 DEF Invariant, CallShape
<1>4. CASE pc # "prepare"
  <2> DEFINE messages == request.messages
  <2>1. messages \in Seq(Messages(C))
    <3>1. CASE call.provider = "anthropic"
      <4>1. messages = AnthropicMessages(call.history)
        BY <1>4, <3>1 DEF Invariant, CallShape, Prepared
      <4>. QED
        BY <1>2, <4>1, PreparedWell, TurnsAreMessages
    <3>2. CASE call.provider # "anthropic"
      BY <1>2, <1>4, <3>2 DEF Invariant, CallShape, Prepared
    <3>. QED
      BY <3>1, <3>2
  <2> HIDE DEF messages
  <2>2. \A i \in DOMAIN messages : messages[i] \in Messages(C)
    BY <2>1, LenProperties, ElementOfSeq
  <2>3. \A i \in DOMAIN messages : messages[i].role \in Roles
    BY <2>2 DEF Messages
  <2>. QED
    BY <2>3 DEF messages
<1>. QED
  BY <1>3, <1>4

\* A state that satisfies the invariant has the types.
LEMMA KeepsTypes == Invariant => TypeOK
<1>1. SUFFICES ASSUME Invariant PROVE TypeOK
  OBVIOUS
<1>2. CallShape /\ ServerShape /\ TextIsKnown /\ InputsAreKnown /\ CallsAreKnown
  BY <1>1 DEF Invariant, ReaderKnows
<1>3. \A i \in DOMAIN request.messages : request.messages[i].role \in Roles
  BY <1>1, RequestRoles
<1>4. /\ server.blocks \in Seq(BlockRecord) /\ server.pieces \in 0 .. MaxPieces
      /\ server.flaws \in 0 .. MaxFlaws
  BY <1>2 DEF ServerShape
<1>5. full \in Seq(1 .. MaxPieces) /\ chunks \in Seq(1 .. MaxPieces)
  <2>1. /\ server.pieces \in Nat /\ MaxPieces \in Nat /\ server.pieces <= MaxPieces
    BY <1>4, CallConstants
  <2>2. \A n \in 1 .. server.pieces : n \in 1 .. MaxPieces
    BY <2>1
  <2>3. full \in [1 .. server.pieces -> 1 .. MaxPieces] /\ chunks = full
    BY <1>2, <2>2 DEF TextIsKnown
  <2>. QED
    BY <2>1, <2>3, IsASeq
<1>6. Blocks = 1 .. Len(server.blocks)
  BY <1>4, LenProperties DEF Blocks
<1>7. DOMAIN accumulators \subseteq {i \in Blocks : ~server.blocks[i].stopped}
  BY <1>2 DEF InputsAreKnown, Begun, Ended
<1>8. ASSUME NEW i \in DOMAIN accumulators PROVE accumulators[i] \in Seq(Blocks \X (1 .. MaxParts))
  <2>1. accumulators[i] \in Seq({i} \X (1 .. MaxParts))
    BY <1>2, <1>7 DEF InputsAreKnown, ServerShape, Carries
  <2>2. ({i} \X (1 .. MaxParts)) \in SUBSET (Blocks \X (1 .. MaxParts))
    BY <1>7
  <2>. QED
    BY <2>1, <2>2, SeqMonotonic
<1>9. ASSUME NEW k \in DOMAIN toolBlocks PROVE toolBlocks[k].kind = "call" /\ toolBlocks[k].id \in Blocks
  <2>1. toolBlocks[k] \in UNION {CallsOf(i, server.blocks[i]) : i \in Ended}
    BY <1>2, LenProperties, ElementOfSeq DEF CallsAreKnown
  <2>2. PICK i \in Ended : toolBlocks[k] \in CallsOf(i, server.blocks[i])
    BY <2>1
  <2>. QED
    BY <2>2 DEF Call, CallsOf, Ended, Begun
<1>10. /\ call \in Calls /\ pc \in {"prepare", "send", "read", "returned"}
       /\ event \in Events \cup {"none"} /\ result.failed \in BOOLEAN
  BY <1>2 DEF CallShape
<1>. QED
  BY <1>3, <1>4, <1>5, <1>7, <1>8, <1>9, <1>10 DEF TypeOK

\* Types: an accumulator exists only for a block that began and has not been seen
\* to stop, its fragments are that server's, and a finished block is a call
\* (parseAnthropicSSE).
THEOREM TypeCorrect == Spec => []TypeOK
BY Inductive, KeepsTypes, PTL

=============================================================================
