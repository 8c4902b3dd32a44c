------------------------ MODULE SkeletonSessionProofs ------------------------
(***************************************************************************)
(* Proofs about SkeletonSession, for every set of plans and every bound on *)
(* calls, sessions, crashes and failing file operations: the file of the   *)
(* newest session never claims more than was done, a leaf completes again  *)
(* only if a completion was lost, and a leaf is executed with what its     *)
(* older siblings and those of the branches above it have to tell.         *)
(***************************************************************************)
EXTENDS SkeletonSession, WellFoundedInduction, NaturalsInduction, SequenceTheorems, TLAPS

Walk == {"visit", "exec", "open", "write", "return", "cleanup"}

FileOK(f) ==
  /\ f.tree \in Plans
  /\ f.status \in [DOMAIN f.tree -> Statuses] /\ f.text \in [DOMAIN f.tree -> BOOLEAN]

\* What the planner knows of its session and its node, and that of all files only the
\* newest session's may hold pending work and be found.
PlannerKnown ==
  /\ pc \in Walk => DOMAIN childContext = DOMAIN tree
  /\ pc \notin Walk => node = 1
  /\ pc = "execute" => tree \in Plans /\ (session = 0 => status = Blank(tree, "pending"))
  /\ session # 0 => session = lastId

FilesKnown ==
  /\ DOMAIN files = Ids
  /\ \A id \in Ids : id > lastId => ~Readable(id)
  /\ \A id \in Ids : Readable(id) => FileOK(files[id])

NewestIsFound ==
  /\ pc = "plan" \/ (pc = "execute" /\ session = 0) => \A id \in Found : ~HasPending(id)
  /\ \A id \in Found : HasPending(id) => id = lastId

\* 1 if the node is completed in s, else 0.
Done(n, s) == IF n \in DOMAIN s /\ s[n] = "completed" THEN 1 ELSE 0

\* A completion in excess of what the planner's tree shows was lost.
MemoryCounted ==
  /\ pc = "exec" => node \in Leaves(tree) /\ status[node] = "running"
  /\ session # 0 =>
       /\ \A n \in Leaves(tree) : /\ status[n] = "completed" => completions[n] > 0
                                  /\ status[n] = "running" => pc = "exec" /\ n = node
       /\ \A n \in Nodes : completions[n] <= losses + Done(n, status)

\* A completion in excess of what the newest file shows was lost, or is the one that
\* is about to be written.
FileCounted ==
  lastId # 0 /\ Readable(lastId) =>
    \A n \in Nodes : ~(pc = "open" /\ n = node) =>
                        completions[n] <= losses + Done(n, files[lastId].status)

Known == TypeOK /\ PlannerKnown /\ FilesKnown /\ NewestIsFound
Counted == CheckpointNotAhead /\ MemoryCounted /\ FileCounted /\ RunAgainOnlyAfterLoss

-----------------------------------------------------------------------------
(***************************************************************************)
(* Trees                                                                   *)
(***************************************************************************)
\* The nodes are numbers, and every node but the root has a parent.
Rooted(t) ==
  /\ DOMAIN t \subseteq Nat /\ 1 \in DOMAIN t
  /\ \A n \in DOMAIN t : n # 1 => t[n] \in DOMAIN t

\* A plan is rooted, and its nodes are nodes.
LEMMA PlanFacts ==
  ASSUME NEW t \in Plans
  PROVE  Rooted(t) /\ DOMAIN t \subseteq Nodes
<1>1. PICK k \in Nodes : DOMAIN t = 1 .. k
  BY SessionConstants
<1>2. k \in Nat /\ DOMAIN t \subseteq Nodes /\ DepthFirst(t)
  BY SessionConstants
<1>3. ASSUME NEW n \in DOMAIN t, n # 1
      PROVE  t[n] \in DOMAIN t
  <2>1. n \in 1 .. k /\ t[n] \in 1 .. n - 1
    BY <1>1, <1>2, <1>3 DEF DepthFirst
  <2>. QED
    BY <1>1, <1>2, <2>1
<1>. QED
  BY <1>1, <1>2, <1>3 DEF Rooted, DepthFirst

\* The planner's tree is rooted, also the one of a planner that has no plan.
LEMMA TreeFacts ==
  ASSUME TypeOK
  PROVE  Rooted(tree) /\ (tree \in Plans => DOMAIN tree \subseteq Nodes)
<1>1. Rooted(NoPlan)
  BY DEF Rooted, NoPlan
<1>. QED
  BY <1>1, PlanFacts DEF TypeOK

\* The first of some nodes is one of them and not after any other.
LEMMA FirstIsLeast ==
  ASSUME NEW S, S \subseteq Nat, S # {}
  PROVE  First(S) \in S /\ \A m \in S : First(S) <= m
<1>1. \E n \in S : \A m \in S : ~ (<<m, n>> \in OpToRel(<, Nat))
  BY WFMin, NatLessThanWellFounded, Zenon
<1>2. ASSUME NEW n \in Nat, NEW m \in Nat, m < n
      PROVE  <<m, n>> \in OpToRel(<, Nat)
  BY <1>2, Zenon DEF OpToRel
<1>3. PICK n \in S : \A m \in S : ~ (<<m, n>> \in OpToRel(<, Nat))
  BY <1>1
<1>4. \A m \in S : ~ (m < n)
  BY <1>2, <1>3, Zenon
<1>5. \A m \in S : n <= m
  BY <1>4
<1>. QED
  BY <1>5, Zenon DEF First

-----------------------------------------------------------------------------
(***************************************************************************)
(* Types                                                                   *)
(***************************************************************************)
\* A planner that was given up, or has not begun.
LEMMA ForgetTypes ==
  ASSUME Forget
  PROVE  /\ tree' = NoPlan /\ node' \in DOMAIN tree' /\ node' = 1
         /\ status' \in [DOMAIN tree' -> Statuses] /\ text' \in [DOMAIN tree' -> BOOLEAN]
         /\ childContext' \in [DOMAIN childContext' -> Seq(Nodes)]
         /\ DOMAIN childContext' \subseteq Nodes \cup {1}
         /\ allSuccess' = TRUE /\ session' = 0 /\ cancelled' = FALSE
<1>1. DOMAIN NoPlan = {1}
  BY DEF NoPlan
<1>2. Blank(NoPlan, <<>>) \in [{1} -> Seq(Nodes)] /\ DOMAIN Blank(NoPlan, <<>>) = {1}
  BY <1>1, EmptySeq DEF Blank
<1>3. Blank(NoPlan, "pending") \in [{1} -> Statuses] /\ Blank(NoPlan, FALSE) \in [{1} -> BOOLEAN]
  BY <1>1 DEF Blank, Statuses
<1>. QED
  BY <1>1, <1>2, <1>3 DEF Forget

\* Nodes along the walk and what is stored for them.
MemoryTypes ==
  /\ tree \in Plans \cup {NoPlan} /\ node \in DOMAIN tree
  /\ status \in [DOMAIN tree -> Statuses] /\ text \in [DOMAIN tree -> BOOLEAN]
  /\ childContext \in [DOMAIN childContext -> Seq(Nodes)]
  /\ DOMAIN childContext \subseteq Nodes \cup {1}

FlagTypes ==
  /\ {allSuccess, cancelled, resumed} \subseteq BOOLEAN
  /\ outcome \in {"none", "success", "failure", "error", "crash"}

SessionTypes ==
  /\ session \in 0 .. lastId /\ (pc \in {"idle", "look", "plan"} => session = 0)
  /\ pc \in Walk => session = lastId /\ session # 0 /\ tree \in Plans
  /\ lastId \in 0 .. MaxSessions

FileTypes == \A id \in Ids : files[id].kind \in {"absent", "corrupt", "saved"}

CounterTypes ==
  /\ pc \in Labels
  /\ calls \in 0 .. MaxCalls /\ crashes \in 0 .. MaxCrashes
  /\ faults \in 0 .. MaxFaults /\ cancels \in 0 .. MaxCancels

ObservedTypes ==
  /\ ran \in Seq(Nodes)
  /\ completions \in [Nodes -> Nat] /\ losses \in Nat

\* The type invariant by its parts.
LEMMA TypeParts ==
  TypeOK <=> /\ MemoryTypes /\ FlagTypes /\ SessionTypes /\ FileTypes
             /\ CounterTypes /\ ObservedTypes
BY DEF TypeOK, MemoryTypes, FlagTypes, SessionTypes, FileTypes, CounterTypes,
       ObservedTypes, Walk

\* The planner's tree, its context and its statuses keep their types.
LEMMA MemoryStep ==
  ASSUME Known, [Next]_vars
  PROVE  MemoryTypes'
<1>0. /\ MemoryTypes /\ Rooted(tree)
      /\ tree \in Plans => DOMAIN tree \subseteq Nodes
      /\ pc \in Walk => tree \in Plans /\ DOMAIN childContext = DOMAIN tree
      /\ pc \notin Walk => node = 1
      /\ pc = "execute" => tree \in Plans
  BY TreeFacts, TypeParts DEF Known, PlannerKnown, SessionTypes
<1>1. CASE UNCHANGED <<tree, status, text, node, childContext>>
  BY <1>0, <1>1 DEF MemoryTypes
<1>2. CASE Forget
  BY <1>2, ForgetTypes DEF MemoryTypes
<1>3. CASE Resume
  <2>1. PICK id \in Found : /\ tree' = files[id].tree /\ status' = files[id].status
                            /\ text' = files[id].text
    BY <1>3 DEF Resume
  <2>2. FileOK(files[id])
    BY <2>1 DEF Known, FilesKnown, Found
  <2>3. node' = 1 /\ childContext' = childContext /\ tree' \in Plans
    BY <1>0, <1>3, <2>1, <2>2 DEF Resume, Walk, FileOK
  <2>4. Rooted(tree')
    BY <2>3, PlanFacts
  <2>. QED
    BY <1>0, <2>1, <2>2, <2>3, <2>4 DEF MemoryTypes, FileOK, Rooted
<1>4. CASE Plan
  <2>1. PICK t \in Plans : /\ tree' = t /\ status' = Blank(t, "pending")
                           /\ text' = Blank(t, FALSE)
    BY <1>4 DEF Plan
  <2>2. node' = 1 /\ childContext' = childContext
    BY <1>0, <1>4 DEF Plan, Walk
  <2>3. Rooted(t)
    BY PlanFacts
  <2>. QED
    BY <1>0, <2>1, <2>2, <2>3 DEF MemoryTypes, Rooted, Blank, Statuses
<1>5. CASE Execute
  <2>1. /\ childContext' = Blank(tree, <<>>) /\ node' = 1
        /\ UNCHANGED <<tree, status, text>> /\ tree \in Plans
    BY <1>0, <1>5 DEF Execute
  <2>2. childContext' \in [DOMAIN tree -> Seq(Nodes)]
    BY <2>1, EmptySeq DEF Blank
  <2>. QED
    BY <1>0, <2>1, <2>2 DEF MemoryTypes, Rooted
<1>6. CASE EnterBranch
  <2>1. Children(node) \subseteq DOMAIN tree /\ node' \in DOMAIN tree
    BY <1>0, <1>6, FirstIsLeast DEF EnterBranch, Children, Rooted
  <2>2. DOMAIN childContext = DOMAIN tree
    BY <1>0, <1>6 DEF EnterBranch, Walk
  <2>3. SiblingContext(node) \in Seq(Nodes)
    BY <1>0, <2>2, EmptySeq DEF SiblingContext, MemoryTypes, Rooted
  <2>. QED
    BY <1>0, <1>6, <2>1, <2>2, <2>3 DEF EnterBranch, MemoryTypes, Statuses
<1>7. CASE StartLeaf
  BY <1>0, <1>7 DEF StartLeaf, MemoryTypes, Statuses
<1>8. ASSUME NEW ok \in BOOLEAN, NEW nonempty \in BOOLEAN, FinishLeaf(ok, nonempty)
      PROVE  MemoryTypes'
  BY <1>0, <1>8 DEF FinishLeaf, StatusAfter, MemoryTypes, Statuses
<1>9. CASE NextChild
  <2>1. RemainingSiblings(node) \subseteq DOMAIN tree /\ node' \in DOMAIN tree
    BY <1>0, <1>9, FirstIsLeast DEF NextChild, NextNode, RemainingSiblings, YoungerSiblings,
                                  Rooted
  <2>2. DOMAIN childContext = DOMAIN tree /\ DOMAIN tree \subseteq Nodes
    BY <1>0, <1>9 DEF NextChild, Walk
  <2>3. Contribution(node) \in Seq(Nodes) /\ tree[node] \in DOMAIN tree
    BY <1>0, <1>9, <2>2 DEF Contribution, MemoryTypes, NextChild, Rooted
  <2>4. childContext[tree[node]] \o Contribution(node) \in Seq(Nodes)
    BY <1>0, <2>2, <2>3, ConcatProperties DEF MemoryTypes
  <2>. QED
    BY <1>0, <1>9, <2>1, <2>2, <2>3, <2>4 DEF NextChild, MemoryTypes
<1>10. CASE LeaveBranch
  <2>1. tree[node] \in DOMAIN tree
    BY <1>0, <1>10 DEF LeaveBranch, MemoryTypes, Rooted
  <2>. QED
    BY <1>0, <1>10, <2>1 DEF LeaveBranch, MemoryTypes, Statuses
<1>11. ASSUME ~UNCHANGED <<tree, status, text, node, childContext>>, ~Forget
       PROVE  \/ Resume \/ Plan \/ Execute \/ EnterBranch \/ StartLeaf
              \/ \E ok, nonempty \in BOOLEAN : FinishLeaf(ok, nonempty)
              \/ NextChild \/ LeaveBranch
  BY <1>11, Zenon DEF Next, Step, Call, NothingToResume, CallFails, SkipNode, WalkEnds,
     OpenFile, WriteFile, SaveFails, EndCall, RemoveFails, Cancel, Crash, vars, memory
<1>. QED
  BY <1>1, <1>2, <1>3, <1>4, <1>5, <1>6, <1>7, <1>8, <1>9, <1>10, <1>11

\* The program counter and the flags of a call keep their types.
LEMMA FlagStep ==
  ASSUME Known, [Next]_vars
  PROVE  FlagTypes'
<1>0. FlagTypes
  BY TypeParts DEF Known
<1>1. CASE UNCHANGED <<allSuccess, cancelled, resumed, outcome>>
  BY <1>0, <1>1 DEF FlagTypes
<1>2. /\ allSuccess' \in BOOLEAN /\ cancelled' \in BOOLEAN
      /\ resumed' \in BOOLEAN
  BY <1>0, ForgetTypes, Zenon DEF FlagTypes, Next, Step, Call, Resume, NothingToResume, Plan,
     CallFails, Execute, SkipNode, EnterBranch, StartLeaf, FinishLeaf, SuccessAfter, NextChild,
     LeaveBranch, WalkEnds, OpenFile, WriteFile, SaveFails, EndCall, RemoveFails, Cancel,
     Crash, Forget, vars, memory, observed
<1>3. outcome' \in {"none", "success", "failure", "error", "crash"}
  BY <1>0 DEF FlagTypes, Next, Step, Call, Resume, NothingToResume, Plan,
     CallFails, Execute, SkipNode, EnterBranch, StartLeaf, FinishLeaf, NextChild,
     LeaveBranch, WalkEnds, OpenFile, WriteFile, SaveFails, EndCall, RemoveFails, Cancel,
     Crash, vars
<1>. QED
  BY <1>2, <1>3 DEF FlagTypes

\* The counters that bound the environment keep their types.
LEMMA CounterStep ==
  ASSUME Known, [Next]_vars
  PROVE  CounterTypes'
<1>0. CounterTypes /\ {MaxCalls, MaxCrashes, MaxFaults, MaxCancels} \subseteq Nat
  BY TypeParts, SessionConstants DEF Known
<1>1. pc' \in Labels
  BY <1>0 DEF CounterTypes, Labels, Next, Step, Call, Resume, NothingToResume, Plan,
     CallFails, Execute, SkipNode, EnterBranch, StartLeaf, FinishLeaf, NextChild,
     LeaveBranch, WalkEnds, OpenFile, WriteFile, SaveFails, EndCall, RemoveFails, Cancel,
     Crash, vars
<1>2. /\ calls' = calls \/ (calls < MaxCalls /\ calls' = calls + 1)
      /\ crashes' = crashes \/ (crashes < MaxCrashes /\ crashes' = crashes + 1)
      /\ faults' = faults \/ (faults < MaxFaults /\ faults' = faults + 1)
      /\ cancels' = cancels \/ (cancels < MaxCancels /\ cancels' = cancels + 1)
  BY DEF Next, Step, Call, Resume, NothingToResume, Plan,
     CallFails, Execute, SkipNode, EnterBranch, StartLeaf, FinishLeaf, NextChild,
     LeaveBranch, WalkEnds, OpenFile, WriteFile, SaveFails, EndCall, RemoveFails, Cancel,
     Crash, vars, budgets
<1>. QED
  BY <1>0, <1>1, <1>2 DEF CounterTypes

\* What is recorded of completions, losses and walks keeps its type.
LEMMA ObservedStep ==
  ASSUME Known, [Next]_vars
  PROVE  ObservedTypes'
<1>0. /\ ObservedTypes
      /\ pc \in Walk => node \in Nodes
  BY TreeFacts, TypeParts DEF Known, SessionTypes, MemoryTypes
<1>1. ran' = ran \/ ran' = <<>> \/ (pc \in Walk /\ ran' = Append(ran, node))
  BY Zenon DEF Next, Step, Call, Resume, NothingToResume, Plan,
     CallFails, Execute, SkipNode, EnterBranch, StartLeaf, FinishLeaf, NextChild,
     LeaveBranch, WalkEnds, OpenFile, WriteFile, SaveFails, EndCall, RemoveFails, Cancel,
     Crash, vars, observed, Walk
<1>2. losses' = losses \/ losses' = 0 \/ losses' = losses + 1
  BY Zenon DEF Next, Step, Call, Resume, NothingToResume, Plan,
     CallFails, Execute, SkipNode, EnterBranch, StartLeaf, FinishLeaf, NextChild,
     LeaveBranch, WalkEnds, OpenFile, WriteFile, SaveFails, EndCall, RemoveFails, Cancel,
     Crash, vars, observed
<1>3. \/ completions' = completions \/ completions' = [n \in Nodes |-> 0]
      \/ pc \in Walk /\ completions' = [completions EXCEPT ![node] = @ + 1]
  BY Zenon DEF Next, Step, Call, Resume, NothingToResume, Plan,
     CallFails, Execute, SkipNode, EnterBranch, StartLeaf, FinishLeaf, NextChild,
     LeaveBranch, WalkEnds, OpenFile, WriteFile, SaveFails, EndCall, RemoveFails, Cancel,
     Crash, vars, observed, Walk
<1>4. ran' \in Seq(Nodes)
  <2>1. CASE pc \in Walk /\ ran' = Append(ran, node)
    BY <1>0, <2>1, AppendProperties DEF ObservedTypes
  <2>2. CASE ran' = <<>>
    BY <2>2, EmptySeq
  <2>. QED
    BY <1>0, <1>1, <2>1, <2>2 DEF ObservedTypes
<1>5. losses' \in Nat
  BY <1>0, <1>2 DEF ObservedTypes
<1>6. completions' \in [Nodes -> Nat]
  BY <1>0, <1>3 DEF ObservedTypes
<1>. QED
  BY <1>4, <1>5, <1>6 DEF ObservedTypes

-----------------------------------------------------------------------------
(***************************************************************************)
(* Sessions and files                                                      *)
(***************************************************************************)
\* A step of a walk may change the newest session's file, to one that cannot be
\* read or that shows the planner's tree; a walk begins with a new session or with
\* the one that was found; no other step changes a file.
FileOfWalk ==
  /\ pc \in Walk /\ UNCHANGED lastId
  /\ \E f \in {Absent, Corrupt, Saved} : files' = [files EXCEPT ![session] = f]

NewSession ==
  /\ Execute /\ session = 0 /\ lastId < MaxSessions
  /\ files' = files /\ lastId' = lastId + 1

\* A step writes the file of the walk, begins a new session, or leaves files alone.
LEMMA FileMoves ==
  ASSUME [Next]_vars
  PROVE  UNCHANGED <<files, lastId>> \/ FileOfWalk \/ NewSession
BY Zenon DEF FileOfWalk, NewSession, Next, Step, Call, Resume, NothingToResume, Plan,
   CallFails, Execute, SkipNode, EnterBranch, StartLeaf, FinishLeaf, NextChild,
   LeaveBranch, WalkEnds, OpenFile, WriteFile, SaveFails, EndCall, RemoveFails, Cancel,
   Crash, vars, budgets, Walk

\* The session of a call keeps its type and is the newest one.
LEMMA SessionStep ==
  ASSUME Known, [Next]_vars
  PROVE  SessionTypes' /\ (session' # 0 => session' = lastId')
<1>0. /\ SessionTypes /\ (session # 0 => session = lastId)
      /\ MaxSessions \in Nat /\ Ids = 1 .. MaxSessions
      /\ pc = "execute" => tree \in Plans
  BY TypeParts, SessionConstants DEF Known, PlannerKnown, Ids
<1>1. CASE Forget /\ pc' = "idle" /\ lastId' = lastId
  BY <1>0, <1>1, ForgetTypes DEF SessionTypes, Walk
<1>2. CASE UNCHANGED <<session, lastId, tree>> /\ (pc' \in Walk => pc \in Walk)
           /\ (pc' \in {"idle", "look", "plan"} => pc \in {"idle", "look", "plan"})
  BY <1>0, <1>2 DEF SessionTypes
<1>3. CASE Resume
  <2>1. PICK id \in Found : HasPending(id) /\ session' = id
    BY <1>3 DEF Resume
  <2>2. id \in Ids /\ id = lastId
    BY <2>1 DEF Known, NewestIsFound, Found
  <2>3. pc' = "execute" /\ lastId' = lastId
    BY <1>3 DEF Resume, budgets
  <2>. QED
    BY <1>0, <2>1, <2>2, <2>3 DEF SessionTypes, Walk
<1>4. CASE Plan
  <2>1. pc' = "execute" /\ session' = session /\ lastId' = lastId
    BY <1>4 DEF Plan, budgets
  <2>. QED
    BY <1>0, <2>1 DEF SessionTypes, Walk
<1>5. CASE Execute
  <2>1. pc = "execute" /\ pc' = "visit" /\ tree' = tree
        /\ \/ session = 0 /\ lastId < MaxSessions /\ lastId' = lastId + 1 /\ session' = lastId + 1
           \/ session # 0 /\ lastId' = lastId /\ session' = session
    BY <1>5 DEF Execute
  <2>. QED
    BY <1>0, <2>1 DEF SessionTypes, Walk
<1>6. \/ Forget /\ pc' = "idle" /\ lastId' = lastId
      \/ UNCHANGED <<session, lastId, tree>> /\ (pc' \in Walk => pc \in Walk)
         /\ (pc' \in {"idle", "look", "plan"} => pc \in {"idle", "look", "plan"})
      \/ Resume \/ Plan \/ Execute
  BY Zenon DEF Next, Step, Call, NothingToResume,
     CallFails, SkipNode, EnterBranch, StartLeaf, FinishLeaf, NextChild,
     LeaveBranch, WalkEnds, OpenFile, WriteFile, SaveFails, EndCall, RemoveFails, Cancel,
     Crash, vars, memory, budgets, Walk
<1>. QED
  BY <1>1, <1>2, <1>3, <1>4, <1>5, <1>6

\* The file that shows the planner's tree.
LEMMA SavedIsOK ==
  ASSUME MemoryTypes, tree \in Plans
  PROVE  FileOK(Saved) /\ Saved.kind = "saved"
BY DEF MemoryTypes, FileOK, Saved

\* The files keep their types, and a readable file is of a session begun.
LEMMA FileStep ==
  ASSUME Known, [Next]_vars
  PROVE  FileTypes' /\ FilesKnown'
<1>0. /\ FileTypes /\ FilesKnown /\ MemoryTypes /\ SessionTypes
      /\ MaxSessions \in Nat /\ Ids = 1 .. MaxSessions
      /\ lastId \in 0 .. MaxSessions
  BY TypeParts, SessionConstants DEF Known, Ids, SessionTypes
<1>1. CASE UNCHANGED <<files, lastId>>
  BY <1>0, <1>1 DEF FileTypes, FilesKnown, Readable
<1>2. CASE FileOfWalk
  <2>1. PICK f \in {Absent, Corrupt, Saved} : files' = [files EXCEPT ![session] = f]
    BY <1>2 DEF FileOfWalk
  <2>2. session = lastId /\ session \in Ids /\ tree \in Plans /\ lastId' = lastId
    BY <1>0, <1>2 DEF FileOfWalk, SessionTypes
  <2>3. f.kind \in {"absent", "corrupt", "saved"} /\ (f.kind = "saved" => FileOK(f))
    BY <1>0, <2>2, SavedIsOK DEF Absent, Corrupt
  <2>4. /\ DOMAIN files' = Ids /\ files'[session] = f
        /\ \A id \in Ids : id # session => files'[id] = files[id]
    BY <1>0, <2>1, <2>2 DEF FilesKnown
  <2>5. \A id \in Ids : id > lastId => id # session
    BY <1>0, <2>2
  <2>. QED
    BY <1>0, <2>2, <2>3, <2>4, <2>5 DEF FileTypes, FilesKnown, Readable
<1>3. CASE NewSession
  <2>1. files' = files /\ lastId' = lastId + 1
    BY <1>3 DEF NewSession
  <2>2. \A id \in Ids : id > lastId' => id > lastId
    BY <1>0, <2>1
  <2>. QED
    BY <1>0, <2>1, <2>2 DEF FileTypes, FilesKnown, Readable
<1>. QED
  BY <1>1, <1>2, <1>3, FileMoves

\* The rest of what the planner knows.
LEMMA PlannerStep ==
  ASSUME Known, [Next]_vars
  PROVE  PlannerKnown'
<1>0. /\ PlannerKnown /\ SessionTypes
      /\ pc = "plan" => session = 0
  BY TypeParts DEF Known, SessionTypes
<1>1. pc' \in Walk => DOMAIN childContext' = DOMAIN tree'
  <2>1. CASE Execute
    BY <2>1 DEF Execute, Blank
  <2>2. CASE EnterBranch
    BY <1>0, <2>2 DEF EnterBranch, PlannerKnown, Walk
  <2>3. CASE NextChild
    BY <1>0, <2>3 DEF NextChild, PlannerKnown, Walk
  <2>4. \/ Execute \/ EnterBranch \/ NextChild \/ pc' \notin Walk
        \/ pc \in Walk /\ UNCHANGED <<tree, childContext>>
    BY Zenon DEF Next, Step, Call, Resume, NothingToResume, Plan, CallFails, SkipNode,
       StartLeaf, FinishLeaf, LeaveBranch, WalkEnds, OpenFile, WriteFile, SaveFails, EndCall,
       RemoveFails, Cancel, Crash, vars, memory, Walk
  <2>. QED
    BY <1>0, <2>1, <2>2, <2>3, <2>4 DEF PlannerKnown
<1>2. pc' \notin Walk => node' = 1
  <2>1. \/ pc' \in Walk \/ node' = 1 \/ (pc \notin Walk /\ node' = node)
    BY Zenon DEF Next, Step, Call, Resume, NothingToResume, Plan, CallFails, Execute, SkipNode,
       EnterBranch, StartLeaf, FinishLeaf, NextChild, LeaveBranch, WalkEnds, OpenFile,
       WriteFile, SaveFails, EndCall, RemoveFails, Cancel, Crash, Forget, vars, memory, Walk
  <2>. QED
    BY <1>0, <2>1 DEF PlannerKnown
<1>3. pc' = "execute" => /\ tree' \in Plans
                         /\ session' = 0 => status' = Blank(tree', "pending")
  <2>1. CASE Resume
    <3>1. PICK id \in Found : tree' = files[id].tree /\ session' = id
      BY <2>1 DEF Resume
    <3>2. FileOK(files[id]) /\ id # 0
      BY <3>1, SessionConstants DEF Known, FilesKnown, Found, Ids
    <3>. QED
      BY <3>1, <3>2 DEF FileOK
  <2>2. CASE Plan
    BY <2>2 DEF Plan
  <2>3. \/ Resume \/ Plan \/ pc' # "execute"
        \/ pc = "execute" /\ UNCHANGED <<tree, status, session>>
    BY Zenon DEF Next, Step, Call, NothingToResume, CallFails, Execute, SkipNode,
       EnterBranch, StartLeaf, FinishLeaf, NextChild, LeaveBranch, WalkEnds, OpenFile,
       WriteFile, SaveFails, EndCall, RemoveFails, Cancel, Crash, vars, memory
  <2>. QED
    BY <1>0, <2>1, <2>2, <2>3 DEF PlannerKnown
<1>. QED
  BY <1>1, <1>2, <1>3, SessionStep DEF PlannerKnown

\* The files a resume would find include only the newest session with work left.
LEMMA NewestStep ==
  ASSUME Known, [Next]_vars
  PROVE  NewestIsFound'
<1>0. /\ NewestIsFound /\ FilesKnown /\ SessionTypes
      /\ MaxSessions \in Nat /\ Ids = 1 .. MaxSessions
      /\ pc = "plan" => session = 0
  BY TypeParts, SessionConstants DEF Known, Ids, SessionTypes
<1>1. CASE files' = files
  <2>1. Found' = Found /\ \A id \in Ids : HasPending(id)' <=> HasPending(id)
    BY <1>1, Zenon DEF Found, HasPending, Readable
  <2>2. \A id \in Found : id \in Ids
    BY DEF Found
  <2>3. pc' = "plan" \/ (pc' = "execute" /\ session' = 0) => \A id \in Found : ~HasPending(id)
    <3>1. CASE Resume
      BY <1>0, <3>1 DEF Resume, Found
    <3>2. CASE NothingToResume
      BY <3>2 DEF NothingToResume
    <3>3. CASE Plan
      BY <1>0, <3>3 DEF Plan, NewestIsFound
    <3>4. \/ Resume \/ NothingToResume \/ Plan \/ pc' \notin {"plan", "execute"}
          \/ UNCHANGED <<pc, session>>
      BY Zenon DEF Next, Step, Call, CallFails, Execute, SkipNode, EnterBranch, StartLeaf,
         FinishLeaf, NextChild, LeaveBranch, WalkEnds, OpenFile, WriteFile, SaveFails,
         EndCall, RemoveFails, Cancel, Crash, vars, memory
    <3>. QED
      BY <1>0, <3>1, <3>2, <3>3, <3>4 DEF NewestIsFound
  <2>4. \A id \in Found : HasPending(id) => id = lastId'
    <3>1. CASE lastId' = lastId
      BY <1>0, <3>1 DEF NewestIsFound
    <3>2. CASE NewSession
      <4>1. pc = "execute" /\ session = 0
        BY <3>2 DEF NewSession, Execute
      <4>. QED
        BY <1>0, <4>1 DEF NewestIsFound
    <3>. QED
      BY <3>1, <3>2, FileMoves DEF FileOfWalk
  <2>. QED
    BY <2>1, <2>2, <2>3, <2>4 DEF NewestIsFound
<1>2. CASE FileOfWalk /\ files' # files
  <2>1. PICK f \in {Absent, Corrupt, Saved} : files' = [files EXCEPT ![session] = f]
    BY <1>2 DEF FileOfWalk
  <2>2. session = lastId /\ session \in Ids /\ lastId' = lastId
    BY <1>0, <1>2 DEF FileOfWalk, SessionTypes
  <2>3. pc' \notin {"plan", "execute"}
    BY <1>2, Zenon DEF FileOfWalk, Walk, Next, Step, Call, Resume, NothingToResume, Plan,
       CallFails, Execute, SkipNode, EnterBranch, StartLeaf, FinishLeaf, NextChild,
       LeaveBranch, WalkEnds, OpenFile, WriteFile, SaveFails, EndCall, RemoveFails, Cancel,
       Crash, vars
  <2>4. \A id \in Ids : id # lastId => files'[id] = files[id]
    BY <1>0, <2>1, <2>2 DEF FilesKnown
  <2>5. ASSUME NEW id \in Ids, id \in Found', HasPending(id)', id # lastId
        PROVE  FALSE
    <3>1. /\ Readable(id) /\ HasPending(id)
      BY <2>4, <2>5 DEF Found, Readable, HasPending
    <3>2. id < lastId
      BY <1>0, <2>2, <2>5, <3>1 DEF FilesKnown, SessionTypes
    <3>3. \A j \in 1 .. id - 1 : j \in Ids /\ j # lastId
      BY <1>0, <2>2, <3>2
    <3>4. id \in Found
      BY <2>4, <2>5, <3>1, <3>3 DEF Found, Readable
    <3>. QED
      BY <1>0, <2>5, <3>1, <3>4 DEF NewestIsFound
  <2>. QED
    BY <2>2, <2>3, <2>5 DEF NewestIsFound, Found
<1>. QED
  BY <1>1, <1>2, FileMoves DEF NewSession

\* Types and what is known of the planner and its files are kept by every step.
LEMMA KnownStep ==
  ASSUME Known, [Next]_vars
  PROVE  Known'
BY MemoryStep, FlagStep, SessionStep, FileStep, CounterStep, ObservedStep, PlannerStep,
   NewestStep, TypeParts, PTL DEF Known

-----------------------------------------------------------------------------
(***************************************************************************)
(* Completions                                                             *)
(***************************************************************************)
\* What a step of a call does to the completions and what counts them.
Recount ==
  \/ UNCHANGED <<completions, losses>>
  \/ NewSession /\ completions' = [n \in Nodes |-> 0] /\ losses' = 0
  \/ pc = "exec" /\ losses' = losses /\ completions' = [completions EXCEPT ![node] = @ + 1]
  \/ pc \in {"open", "write"} /\ completions' = completions /\ losses' = losses + 1

\* A step that begins no session changes the counts only as a leaf finishes or is
\* lost.
LEMMA Recounts ==
  ASSUME [Next]_vars
  PROVE  Recount
BY Zenon DEF Recount, NewSession, Next, Step, Call, Resume, NothingToResume, Plan,
   CallFails, Execute, SkipNode, EnterBranch, StartLeaf, FinishLeaf, NextChild,
   LeaveBranch, WalkEnds, OpenFile, WriteFile, SaveFails, EndCall, RemoveFails, Cancel,
   Crash, vars, budgets, observed

\* Within a session the counts only grow.
LEMMA CountsGrow ==
  ASSUME Known, [Next]_vars, ~NewSession
  PROVE  \A n \in Nodes : completions'[n] >= completions[n] /\ losses' >= losses
<1>1. ObservedTypes /\ ObservedTypes'
  BY KnownStep, TypeParts, ObservedStep DEF Known
<1>. QED
  BY <1>1, Recounts DEF Recount, ObservedTypes

\* During a walk the node under way is a node of the plan, and the session is set.
LEMMA NodeOfWalk ==
  ASSUME Known, pc \in Walk
  PROVE  /\ node \in Nodes /\ node \in DOMAIN tree /\ DOMAIN tree \subseteq Nodes
         /\ status \in [DOMAIN tree -> Statuses] /\ Leaves(tree) \subseteq DOMAIN tree
         /\ session = lastId /\ session # 0 /\ session \in Ids /\ tree \in Plans
BY TreeFacts, TypeParts, SessionConstants
   DEF Known, SessionTypes, MemoryTypes, Leaves, Ids

\* The newest file, after a step in which it was not read for a new session.
LEMMA NewestFile ==
  ASSUME Known, [Next]_vars, lastId' # 0, Readable(lastId)', ~WriteFile
  PROVE  /\ lastId' = lastId /\ Readable(lastId) /\ files'[lastId] = files[lastId]
         /\ lastId \in Ids /\ ~NewSession
<1>0. /\ SessionTypes /\ FilesKnown /\ MaxSessions \in Nat /\ Ids = 1 .. MaxSessions
  BY TypeParts, SessionConstants DEF Known, Ids
<1>1. ~NewSession
  <2>1. SUFFICES ASSUME NewSession PROVE FALSE
    OBVIOUS
  <2>2. files' = files /\ lastId' = lastId + 1 /\ lastId + 1 \in Ids
    BY <1>0, <2>1 DEF NewSession, SessionTypes
  <2>3. ~Readable(lastId + 1)
    BY <1>0, <2>2 DEF FilesKnown, SessionTypes
  <2>. QED
    BY <2>2, <2>3 DEF Readable
<1>2. lastId' = lastId /\ lastId \in Ids
  BY <1>0, <1>1, FileMoves DEF FileOfWalk, SessionTypes
<1>3. files'[lastId] = files[lastId]
  <2>1. \/ files' = files
        \/ pc \in Walk /\ files' = [files EXCEPT ![session] = Corrupt]
        \/ pc \in Walk /\ files' = [files EXCEPT ![session] = Absent]
    BY Zenon DEF Next, Step, Call, Resume, NothingToResume, Plan,
       CallFails, Execute, SkipNode, EnterBranch, StartLeaf, FinishLeaf, NextChild,
       LeaveBranch, WalkEnds, OpenFile, SaveFails, EndCall, RemoveFails, Cancel,
       Crash, vars, Walk
  <2>2. files' # files => files'[lastId].kind # "saved"
    BY <1>0, <1>2, <2>1, NodeOfWalk DEF FilesKnown, Corrupt, Absent
  <2>. QED
    BY <1>2, <2>2 DEF Readable
<1>. QED
  BY <1>1, <1>2, <1>3 DEF Readable

\* The file the walk writes is the newest and shows the tree in memory.
LEMMA WrittenFile ==
  ASSUME Known, WriteFile
  PROVE  /\ lastId' = lastId /\ lastId # 0 /\ session # 0
         /\ files'[lastId].tree = tree /\ files'[lastId].status = status
         /\ UNCHANGED <<completions, losses>> /\ pc = "write" /\ pc' = "return"
<1>1. /\ pc = "write" /\ files' = [files EXCEPT ![session] = Saved] /\ pc' = "return"
      /\ lastId' = lastId /\ UNCHANGED <<completions, losses>>
  BY DEF WriteFile, budgets, observed
<1>2. session = lastId /\ session # 0 /\ session \in DOMAIN files
  BY <1>1, NodeOfWalk DEF Known, FilesKnown, Walk
<1>. QED
  BY <1>1, <1>2 DEF Saved

\* A checkpoint never runs ahead: what is written is the tree in memory, whose
\* completed leaves have completed, and which has no leaf under execution then.
LEMMA CheckpointStep ==
  ASSUME Known, MemoryCounted, CheckpointNotAhead, [Next]_vars
  PROVE  CheckpointNotAhead'
<1>1. SUFFICES ASSUME lastId' # 0, Readable(lastId)', NEW n \in Leaves(files'[lastId'].tree)
               PROVE  /\ files'[lastId'].status[n] = "completed" => completions'[n] > 0
                      /\ files'[lastId'].status[n] # "running"
  BY DEF CheckpointNotAhead
<1>2. CASE WriteFile
  BY <1>1, <1>2, WrittenFile DEF MemoryCounted
<1>3. CASE ~WriteFile
  <2>1. /\ lastId' = lastId /\ Readable(lastId) /\ files'[lastId] = files[lastId]
        /\ lastId \in Ids /\ ~NewSession
    BY <1>1, <1>3, NewestFile
  <2>2. n \in Nodes
    <3>1. files[lastId].tree \in Plans
      BY <2>1 DEF Known, FilesKnown, FileOK
    <3>. QED
      BY <1>1, <2>1, <3>1, PlanFacts DEF Leaves
  <2>3. completions'[n] >= completions[n] /\ completions[n] \in Nat /\ completions'[n] \in Nat
    BY <2>1, <2>2, CountsGrow, ObservedStep, TypeParts DEF Known, ObservedTypes
  <2>. QED
    BY <1>1, <2>1, <2>3 DEF CheckpointNotAhead
<1>. QED
  BY <1>2, <1>3

\* The planner's tree accounts for every completion of its session.
LEMMA MemoryCountStep ==
  ASSUME Known, CheckpointNotAhead, MemoryCounted, FileCounted, [Next]_vars
  PROVE  MemoryCounted'
<1>0. /\ ObservedTypes /\ ObservedTypes' /\ MemoryTypes
      /\ pc = "plan" => session = 0
  BY ObservedStep, TypeParts DEF Known, SessionTypes
<1>1. CASE Forget /\ pc' = "idle"
  BY <1>1, ForgetTypes DEF MemoryCounted
<1>2. CASE /\ UNCHANGED <<tree, status, session, completions>> /\ losses' >= losses
           /\ pc \notin {"exec", "execute"} /\ pc' # "exec"
  BY <1>0, <1>2 DEF MemoryCounted, ObservedTypes, Done
<1>3. CASE Resume
  <2>1. PICK id \in Found : /\ HasPending(id) /\ session' = id /\ tree' = files[id].tree
                            /\ status' = files[id].status
    BY <1>3 DEF Resume
  <2>2. pc = "look" /\ pc' = "execute" /\ UNCHANGED <<completions, losses>>
    BY <1>3 DEF Resume
  <2>3. id = lastId /\ lastId # 0 /\ Readable(lastId)
    BY <2>1, SessionConstants DEF Known, NewestIsFound, Found, Ids
  <2>4. \A n \in Nodes : completions[n] <= losses + Done(n, files[lastId].status)
    BY <2>2, <2>3 DEF FileCounted
  <2>. QED
    BY <2>1, <2>2, <2>3, <2>4 DEF MemoryCounted, CheckpointNotAhead, Done
<1>4. CASE Plan
  BY <1>0, <1>4 DEF Plan, MemoryCounted
<1>5. CASE NewSession
  <2>1. /\ status' = Blank(tree, "pending") /\ tree' = tree /\ pc' = "visit"
        /\ completions' = [n \in Nodes |-> 0] /\ losses' = 0
    BY <1>5 DEF NewSession, Execute, Known, PlannerKnown
  <2>2. \A n \in Leaves(tree) : status'[n] = "pending"
    BY <2>1 DEF Leaves, Blank
  <2>3. \A n \in Nodes : completions'[n] <= losses' + Done(n, status')
    BY <2>1 DEF Done
  <2>. QED
    BY <2>1, <2>2, <2>3 DEF MemoryCounted
<1>6. CASE Execute /\ session # 0
  BY <1>0, <1>6 DEF Execute, MemoryCounted, Done
<1>7. CASE EnterBranch
  <2>1. /\ status' = [status EXCEPT ![node] = "running"] /\ status[node] # "completed"
        /\ UNCHANGED <<tree, session, completions, losses>> /\ pc = "visit" /\ pc' = "visit"
        /\ node \notin Leaves(tree)
    BY <1>7 DEF EnterBranch, Skipped, Leaves, Children, observed
  <2>. QED
    BY <1>0, <2>1 DEF MemoryCounted, MemoryTypes, Done, Leaves
<1>8. CASE StartLeaf
  <2>1. /\ status' = [status EXCEPT ![node] = "running"] /\ status[node] # "completed"
        /\ UNCHANGED <<tree, session, completions, losses, node>> /\ pc = "visit"
        /\ pc' = "exec" /\ Children(node) = {}
    BY <1>8 DEF StartLeaf, Skipped
  <2>2. node \in Leaves(tree)
    BY <1>0, <2>1 DEF Leaves, Children, MemoryTypes
  <2>. QED
    BY <1>0, <2>1, <2>2 DEF MemoryCounted, MemoryTypes, Done, Leaves
<1>9. ASSUME NEW ok \in BOOLEAN, NEW nonempty \in BOOLEAN, FinishLeaf(ok, nonempty)
      PROVE  MemoryCounted'
  <2>1. /\ UNCHANGED <<tree, session, losses, node>> /\ pc = "exec" /\ pc' = "open"
        /\ node \in Leaves(tree) /\ status[node] = "running"
    BY <1>9 DEF FinishLeaf, MemoryCounted
  <2>2. node \in Nodes /\ node \in DOMAIN status
    BY <1>0, <2>1, NodeOfWalk DEF Walk, MemoryTypes
  <2>3. CASE ok
    <3>1. /\ status' = [status EXCEPT ![node] = "completed"]
          /\ completions' = [completions EXCEPT ![node] = @ + 1]
      BY <1>9, <2>3 DEF FinishLeaf, StatusAfter
    <3>2. completions'[node] = completions[node] + 1 /\ completions[node] \in Nat /\ losses \in Nat
      BY <1>0, <2>2, <3>1 DEF ObservedTypes
    <3>3. \A n \in Nodes : n # node => /\ completions'[n] = completions[n]
                                       /\ Done(n, status') = Done(n, status)
      BY <1>0, <3>1 DEF ObservedTypes, MemoryTypes, Done
    <3>4. Done(node, status) = 0 /\ Done(node, status') = 1
      BY <1>0, <2>1, <2>2, <3>1 DEF MemoryTypes, Done
    <3>5. session # 0 => \A n \in Nodes : completions'[n] <= losses + Done(n, status')
      BY <2>1, <2>2, <3>2, <3>3, <3>4 DEF MemoryCounted
    <3>6. session # 0 => \A n \in Leaves(tree) : /\ status'[n] = "completed" => completions'[n] > 0
                                                 /\ status'[n] # "running"
      <4>1. Leaves(tree) \subseteq DOMAIN tree /\ Leaves(tree) \subseteq Nodes
        BY <2>1, NodeOfWalk DEF Walk
      <4>. QED
        BY <1>0, <2>1, <2>2, <3>1, <3>2, <3>3, <4>1 DEF MemoryCounted, MemoryTypes
    <3>. QED
      BY <2>1, <3>5, <3>6 DEF MemoryCounted
  <2>4. CASE ~ok
    <3>1. status' = [status EXCEPT ![node] = "failed"] /\ completions' = completions
      BY <1>9, <2>4 DEF FinishLeaf, StatusAfter
    <3>. QED
      BY <1>0, <2>1, <2>2, <3>1 DEF MemoryCounted, MemoryTypes, Done, Leaves
  <2>. QED
    BY <2>3, <2>4
<1>10. CASE LeaveBranch
  <2>1. /\ status' = [status EXCEPT ![tree[node]] = "completed"] /\ tree[node] \notin Leaves(tree)
        /\ UNCHANGED <<tree, session, completions, losses>> /\ pc = "return" /\ pc' = "return"
    BY <1>0, <1>10 DEF LeaveBranch, Leaves, observed, MemoryTypes
  <2>. QED
    BY <1>0, <2>1 DEF MemoryCounted, MemoryTypes, ObservedTypes, Done, Leaves
<1>11. \/ Forget /\ pc' = "idle"
       \/ /\ UNCHANGED <<tree, status, session, completions>>
          /\ losses' = losses \/ losses' = losses + 1
          /\ \/ pc \notin {"exec", "execute"} /\ pc' # "exec"
             \/ UNCHANGED <<pc, node, losses>>
       \/ Resume \/ Plan \/ Execute \/ EnterBranch \/ StartLeaf
       \/ \E ok, nonempty \in BOOLEAN : FinishLeaf(ok, nonempty)
       \/ LeaveBranch
  BY Zenon DEF Next, Step, Call, NothingToResume, CallFails, SkipNode, NextChild,
     WalkEnds, OpenFile, WriteFile, SaveFails, EndCall, RemoveFails, Cancel,
     Crash, vars, memory, observed
<1>12. CASE UNCHANGED <<tree, status, session, completions, losses, pc, node>>
  BY <1>12 DEF MemoryCounted, Done
<1>13. losses' = losses \/ losses' = losses + 1 => losses' >= losses
  BY <1>0 DEF ObservedTypes
<1>14. Execute /\ session = 0 => NewSession
  BY DEF Execute, NewSession
<1>. QED
  BY <1>1, <1>2, <1>3, <1>4, <1>5, <1>6, <1>7, <1>8, <1>9, <1>10, <1>11, <1>12, <1>13, <1>14

\* The newest file accounts for all but the completion about to be written and the lost
\* ones.
LEMMA FileCountStep ==
  ASSUME Known, MemoryCounted, FileCounted, [Next]_vars
  PROVE  FileCounted'
<1>0. ObservedTypes /\ ObservedTypes'
  BY ObservedStep, TypeParts DEF Known
<1>1. SUFFICES ASSUME lastId' # 0, Readable(lastId)', NEW n \in Nodes, ~(pc' = "open" /\ n = node')
               PROVE  completions'[n] <= losses' + Done(n, files'[lastId'].status)
  BY DEF FileCounted
<1>2. CASE WriteFile
  BY <1>2, WrittenFile DEF MemoryCounted
<1>3. CASE ~WriteFile
  <2>1. /\ lastId' = lastId /\ Readable(lastId) /\ files'[lastId] = files[lastId] /\ ~NewSession
    BY <1>1, <1>3, NewestFile
  <2> DEFINE d == Done(n, files[lastId].status)
  <2>2. d \in {0, 1} /\ completions[n] \in Nat /\ losses \in Nat
    BY <1>0 DEF Done, ObservedTypes
  <2>3. ~(pc = "open" /\ n = node) => completions[n] <= losses + d
    BY <1>1, <2>1 DEF FileCounted
  <2> HIDE DEF d
  <2>4. completions'[n] <= losses' + d
    <3>1. CASE UNCHANGED <<completions, losses>> /\ ~(pc = "open" /\ n = node)
      BY <2>3, <3>1
    <3>2. CASE pc = "exec" /\ losses' = losses /\ completions' = [completions EXCEPT ![node] = @ + 1]
      <4>1. pc' = "open" /\ node' = node
        <5>1. completions' # completions
          BY <1>0, <3>2, NodeOfWalk DEF ObservedTypes, Walk
        <5>. QED
          BY <3>2, <5>1, Zenon DEF Next, Step, Call, Resume, NothingToResume, Plan, CallFails, Execute,
             SkipNode, EnterBranch, StartLeaf, FinishLeaf, NextChild, LeaveBranch, WalkEnds,
             OpenFile, WriteFile, SaveFails, EndCall, RemoveFails, Cancel, Crash, vars, memory,
             observed
      <4>. QED
        BY <1>0, <1>1, <2>3, <3>2, <4>1 DEF ObservedTypes
    <3>3. CASE /\ pc \in {"open", "write"} /\ completions' = completions
               /\ losses' = losses + 1
      <4>1. completions[n] <= losses + Done(n, status)
        BY <3>3, NodeOfWalk DEF MemoryCounted, Walk
      <4>2. Done(n, status) \in {0, 1}
        BY DEF Done
      <4>. QED
        BY <2>2, <3>3, <4>1, <4>2
    <3>4. CASE UNCHANGED <<completions, losses>> /\ pc = "open" /\ n = node
      <4>1. OpenFile \/ UNCHANGED <<pc, node>> \/ losses' = losses + 1
        BY <3>4, Zenon DEF Next, Step, Call, Resume, NothingToResume, Plan, CallFails, Execute,
           SkipNode, EnterBranch, StartLeaf, FinishLeaf, NextChild, LeaveBranch, WalkEnds,
           OpenFile, WriteFile, SaveFails, EndCall, RemoveFails, Cancel, Crash, vars, memory,
           observed
      <4>2. ~OpenFile
        BY <1>1, <2>1, <3>4, NodeOfWalk DEF OpenFile, Corrupt, Readable, Known, FilesKnown, Walk
      <4>. QED
        BY <1>1, <2>2, <3>4, <4>1, <4>2
    <3>. QED
      BY <2>1, <3>1, <3>2, <3>3, <3>4, Recounts DEF Recount
  <2>. QED
    BY <2>1, <2>4 DEF d
<1>. QED
  BY <1>2, <1>3

\* A leaf completes once more only if a completion was lost before.
LEMMA RunAgainStep ==
  ASSUME Known, MemoryCounted, RunAgainOnlyAfterLoss, [Next]_vars
  PROVE  RunAgainOnlyAfterLoss'
<1>0. ObservedTypes /\ ObservedTypes'
  BY ObservedStep, TypeParts DEF Known
<1>1. SUFFICES ASSUME NEW n \in Nodes PROVE completions'[n] <= 1 + losses'
  BY DEF RunAgainOnlyAfterLoss
<1>2. completions[n] <= 1 + losses /\ completions[n] \in Nat /\ losses \in Nat
  BY <1>0 DEF RunAgainOnlyAfterLoss, ObservedTypes
<1>3. CASE pc = "exec" /\ losses' = losses /\ completions' = [completions EXCEPT ![node] = @ + 1]
  <2>1. completions[node] <= losses + Done(node, status) /\ status[node] = "running"
        /\ node \in Nodes
    BY <1>3, NodeOfWalk DEF MemoryCounted, Walk
  <2>2. completions[node] <= losses
    BY <1>0, <2>1 DEF Done, ObservedTypes
  <2>. QED
    BY <1>0, <1>2, <1>3, <2>1, <2>2 DEF ObservedTypes
<1>. QED
  BY <1>0, <1>1, <1>2, <1>3, Recounts DEF Recount, ObservedTypes

-----------------------------------------------------------------------------
(***************************************************************************)
(* The order of the walk                                                   *)
(***************************************************************************)
\* The nodes after the subtree of n: from the first one that hangs higher up.
Beyond(t, n) == {x \in DOMAIN t : \E m \in n + 1 .. x : t[m] < n}

\* The nodes the walk has not reached when it is at n.
Ahead(t, where, n) ==
  CASE where = "visit" -> {x \in DOMAIN t : x >= n}
    [] where \in {"exec", "open", "write"} -> {x \in DOMAIN t : x > n}
    [] where = "return" -> Beyond(t, n)
    [] OTHER -> {}

\* In a depth-first plan the nodes between a parent and its child are below that parent.
LEMMA PlanOrder ==
  ASSUME NEW t \in Plans
  PROVE  \E k \in Nat : /\ DOMAIN t = 1 .. k /\ 1 \in DOMAIN t
                        /\ \A n \in DOMAIN t : n # 1 => t[n] \in 1 .. n - 1
                        /\ \A n \in DOMAIN t : n # 1 =>
                             \A m \in t[n] + 1 .. n - 1 : t[m] >= t[n] /\ t[m] \in 1 .. m - 1
<1>1. PICK k \in Nodes : DOMAIN t = 1 .. k
  BY SessionConstants
<1>2. k \in Nat /\ DepthFirst(t)
  BY SessionConstants
<1>3. \A n \in DOMAIN t : n # 1 => t[n] \in 1 .. n - 1
  BY <1>2 DEF DepthFirst
<1>4. ASSUME NEW n \in DOMAIN t, n # 1, NEW m \in t[n] + 1 .. n - 1
      PROVE  t[m] >= t[n] /\ t[m] \in 1 .. m - 1
  <2>1. t[n] \in 1 .. n - 1 /\ n \in 1 .. k
    BY <1>1, <1>3, <1>4
  <2>2. m \in DOMAIN t /\ m # 1
    BY <1>1, <1>2, <1>4, <2>1
  <2>. QED
    BY <1>2, <1>3, <1>4, <2>2 DEF DepthFirst
<1>. QED
  BY <1>1, <1>2, <1>3, <1>4 DEF DepthFirst

\* The first younger sibling comes right after the subtree.
LEMMA SiblingIsNext ==
  ASSUME NEW t \in Plans, NEW n \in DOMAIN t, n # 1, NEW s \in DOMAIN t,
         t[s] = t[n], s > n, \A x \in DOMAIN t : t[x] = t[n] /\ x > n => s <= x
  PROVE  Beyond(t, n) = {x \in DOMAIN t : x >= s}
<1>1. PICK k \in Nat : /\ DOMAIN t = 1 .. k
                       /\ \A j \in DOMAIN t : j # 1 => t[j] \in 1 .. j - 1
                       /\ \A j \in DOMAIN t : j # 1 =>
                            \A m \in t[j] + 1 .. j - 1 : t[m] >= t[j] /\ t[m] \in 1 .. m - 1
  BY PlanOrder
<1>2. ASSUME NEW x \in DOMAIN t, NEW m \in n + 1 .. x, t[m] < n
      PROVE  x >= s
  <2>1. SUFFICES ASSUME x < s PROVE FALSE
    BY <1>1
  <2>a. m \in DOMAIN t /\ m # 1 /\ m > n /\ m < s /\ m \in Nat /\ n \in Nat
    BY <1>1, <1>2, <2>1
  <2>b. t[m] \in 1 .. m - 1 /\ t[n] \in 1 .. n - 1
    BY <1>1, <2>a
  <2>2. /\ m \in DOMAIN t /\ m # 1 /\ m > n /\ m < s /\ t[m] \in Nat /\ t[n] \in Nat
        /\ t[n] < n
    BY <2>a, <2>b
  <2>3. t[n] >= t[m]
    <3>1. n \in t[m] + 1 .. m - 1
      BY <1>2, <2>a, <2>b
    <3>. QED
      BY <1>1, <2>a, <3>1
  <2>4. t[m] >= t[s]
    BY <1>1, <2>2
  <2>5. t[m] = t[n]
    BY <2>2, <2>3, <2>4
  <2>6. s <= m
    BY <2>2, <2>5
  <2>. QED
    BY <1>1, <2>2, <2>6
<1>3. ASSUME NEW x \in DOMAIN t, x >= s
      PROVE  \E m \in n + 1 .. x : t[m] < n
  <2>1. s \in n + 1 .. x /\ t[s] < n
    BY <1>1, <1>3
  <2>. QED
    BY <2>1
<1>. QED
  BY <1>2, <1>3 DEF Beyond

\* After the last sibling comes what is beyond the parent.
LEMMA ParentIsNext ==
  ASSUME NEW t \in Plans, NEW n \in DOMAIN t, n # 1,
         \A x \in DOMAIN t : ~(t[x] = t[n] /\ x > n)
  PROVE  Beyond(t, n) = Beyond(t, t[n])
<1>1. PICK k \in Nat : /\ DOMAIN t = 1 .. k
                       /\ \A j \in DOMAIN t : j # 1 => t[j] \in 1 .. j - 1
                       /\ \A j \in DOMAIN t : j # 1 =>
                            \A m \in t[j] + 1 .. j - 1 : t[m] >= t[j] /\ t[m] \in 1 .. m - 1
  BY PlanOrder
<1>2. t[n] \in 1 .. n - 1 /\ n \in 1 .. k
  BY <1>1
<1>3. ASSUME NEW x \in DOMAIN t, NEW m \in n + 1 .. x, t[m] < n
      PROVE  m \in t[n] + 1 .. x /\ t[m] < t[n]
  <2>1. m \in DOMAIN t /\ m # 1 /\ m > n /\ t[m] \in Nat
    BY <1>1, <1>2, <1>3
  <2>2. t[n] >= t[m] /\ t[m] # t[n]
    BY <1>1, <1>2, <1>3, <2>1
  <2>. QED
    BY <1>1, <1>2, <1>3, <2>1, <2>2
<1>4. ASSUME NEW x \in DOMAIN t, NEW m \in t[n] + 1 .. x, t[m] < t[n]
      PROVE  m \in n + 1 .. x /\ t[m] < n
  <2>1. m \in DOMAIN t /\ m # 1 /\ t[m] \in Nat
    BY <1>1, <1>2, <1>4
  <2>2. ~(m \in t[n] + 1 .. n - 1) /\ m # n
    BY <1>1, <1>2, <1>4, <2>1
  <2>. QED
    BY <1>1, <1>2, <1>4, <2>1, <2>2
<1>. QED
  BY <1>3, <1>4 DEF Beyond

\* The first child comes right after its parent.
LEMMA ChildIsNext ==
  ASSUME NEW t \in Plans, NEW n \in DOMAIN t, NEW c \in DOMAIN t,
         t[c] = n, \A x \in DOMAIN t : t[x] = n => c <= x
  PROVE  c = n + 1
<1>1. PICK k \in Nat : /\ DOMAIN t = 1 .. k
                       /\ \A j \in DOMAIN t : j # 1 => t[j] \in 1 .. j - 1
                       /\ \A j \in DOMAIN t : j # 1 =>
                            \A m \in t[j] + 1 .. j - 1 : t[m] >= t[j] /\ t[m] \in 1 .. m - 1
  BY PlanOrder
<1>2. c # 1
  BY <1>1, PlanFacts, SessionConstants DEF DepthFirst
<1>3. n + 1 \in DOMAIN t /\ n + 1 <= c
  BY <1>1, <1>2
<1>4. n + 1 # c => t[n + 1] = n
  BY <1>1, <1>2, <1>3
<1>. QED
  BY <1>1, <1>3, <1>4

\* A leaf is its own subtree, and nothing is beyond the root's.
LEMMA LeafIsAlone ==
  ASSUME NEW t \in Plans, NEW n \in Leaves(t)
  PROVE  Beyond(t, n) = {x \in DOMAIN t : x > n}
<1>1. PICK k \in Nat : /\ DOMAIN t = 1 .. k
                       /\ \A j \in DOMAIN t : j # 1 => t[j] \in 1 .. j - 1
  BY PlanOrder
<1>2. n \in DOMAIN t /\ \A x \in DOMAIN t : t[x] # n
  BY DEF Leaves
<1>3. ASSUME NEW x \in DOMAIN t, x > n
      PROVE  n + 1 \in n + 1 .. x /\ t[n + 1] < n
  BY <1>1, <1>2, <1>3
<1>4. ASSUME NEW x \in DOMAIN t, NEW m \in n + 1 .. x
      PROVE  x > n
  BY <1>1, <1>2, <1>4
<1>. QED
  BY <1>3, <1>4 DEF Beyond

\* Nothing of a plan is beyond its root.
LEMMA RootIsAll ==
  ASSUME NEW t \in Plans
  PROVE  Beyond(t, 1) = {}
<1>1. PICK k \in Nat : /\ DOMAIN t = 1 .. k
                       /\ \A j \in DOMAIN t : j # 1 => t[j] \in 1 .. j - 1
  BY PlanOrder
<1>2. \A x \in DOMAIN t : \A m \in 1 + 1 .. x : m \in DOMAIN t /\ m # 1 /\ t[m] >= 1
  BY <1>1
<1>3. \A x \in DOMAIN t : \A m \in 1 + 1 .. x : t[m] \in Nat
  BY <1>1
<1>. QED
  BY <1>2, <1>3 DEF Beyond

\* The leaves this call has executed.
Ran == {ran[i] : i \in DOMAIN ran}
Now == Ahead(tree, pc, node)

RanInOrder == \A i \in 1 .. Len(ran) - 1 : ran[i] < ran[i + 1]

RanBehind == pc \in Walk => Ran \subseteq Leaves(tree) \ Now

\* A walk of a plan that is new, as long as nobody cancels it.
FreshWalk ==
  pc \in Walk /\ ~resumed /\ ~cancelled =>
    /\ \A n \in Now : status[n] = "pending"
    /\ \A n \in Leaves(tree) \ Now :
         /\ n \in Ran
         /\ allSuccess => status[n] = "completed" \/ (pc = "exec" /\ n = node)

CallBegins ==
  /\ pc \in {"look", "plan", "execute"} => ran = <<>>
  /\ pc \in {"look", "plan"} => resumed = FALSE
  /\ pc = "execute" /\ ~resumed => session = 0
  /\ pc \in {"open", "write"} => node \in Leaves(tree)

Ordered == RanInOrder /\ RanBehind /\ FreshWalk /\ CallBegins
Invariant == Known /\ Counted /\ Ordered

\* A call has executed nothing before its walk, and has resumed nothing before it
\* looked for a session.
LEMMA BeginStep ==
  ASSUME Known, MemoryCounted, CallBegins, [Next]_vars
  PROVE  CallBegins'
<1>1. pc' \in {"look", "plan", "execute"} => ran' = <<>>
  BY Zenon DEF CallBegins, Next, Step, Call, Resume, NothingToResume, Plan, CallFails, Execute,
     SkipNode, EnterBranch, StartLeaf, FinishLeaf, NextChild, LeaveBranch, WalkEnds,
     OpenFile, WriteFile, SaveFails, EndCall, RemoveFails, Cancel, Crash, vars, memory, observed
<1>2. pc' \in {"look", "plan"} => resumed' = FALSE
  BY Zenon DEF CallBegins, Next, Step, Call, Resume, NothingToResume, Plan, CallFails, Execute,
     SkipNode, EnterBranch, StartLeaf, FinishLeaf, NextChild, LeaveBranch, WalkEnds,
     OpenFile, WriteFile, SaveFails, EndCall, RemoveFails, Cancel, Crash, vars, memory, observed
<1>3. pc' = "execute" /\ ~resumed' => session' = 0
  <2>1. pc = "plan" => session = 0
    BY TypeParts DEF Known, SessionTypes
  <2>2. \/ pc' # "execute" \/ resumed' = TRUE \/ (pc = "plan" /\ session' = session)
        \/ UNCHANGED <<pc, resumed, session>>
    BY Zenon DEF Next, Step, Call, Resume, NothingToResume, Plan, CallFails, Execute,
     SkipNode, EnterBranch, StartLeaf, FinishLeaf, NextChild, LeaveBranch, WalkEnds,
     OpenFile, WriteFile, SaveFails, EndCall, RemoveFails, Cancel, Crash, vars, memory, observed
  <2>. QED
    BY <2>1, <2>2 DEF CallBegins
<1>4. pc' \in {"open", "write"} => node' \in Leaves(tree')
  <2>1. \/ pc' \notin {"open", "write"}
        \/ pc \in {"exec", "open", "write"} /\ UNCHANGED <<tree, node>>
    BY Zenon DEF Next, Step, Call, Resume, NothingToResume, Plan, CallFails, Execute,
     SkipNode, EnterBranch, StartLeaf, FinishLeaf, NextChild, LeaveBranch, WalkEnds,
     OpenFile, WriteFile, SaveFails, EndCall, RemoveFails, Cancel, Crash, vars, memory, observed
  <2>. QED
    BY <2>1 DEF CallBegins, MemoryCounted
<1>. QED
  BY <1>1, <1>2, <1>3, <1>4 DEF CallBegins

\* A walk moves on by leaving a subtree out, by entering a branch or a leaf, or by a
\* step that reaches no other node.
LEMMA WalkMoves ==
  ASSUME Known, MemoryCounted, CallBegins, [Next]_vars, pc \in Walk, pc' \in Walk
  PROVE  /\ UNCHANGED <<tree, resumed>> /\ node \in DOMAIN tree /\ tree \in Plans
         /\ \/ SkipNode /\ Now' \subseteq Now
            \/ EnterBranch /\ node \notin Leaves(tree) /\ Now' = Now \ {node}
            \/ /\ StartLeaf /\ node \in Leaves(tree) /\ Now' = Now \ {node}
               /\ Now = {x \in DOMAIN tree : x >= node}
            \/ /\ Now' = Now /\ ran' = ran
               /\ \/ \E ok, nonempty \in BOOLEAN : FinishLeaf(ok, nonempty)
                  \/ LeaveBranch
                  \/ UNCHANGED <<status, allSuccess>> /\ UNCHANGED <<pc, node>>
                  \/ UNCHANGED <<status, allSuccess>> /\ pc # "exec"
<1>0. /\ node \in DOMAIN tree /\ tree \in Plans /\ Rooted(tree) /\ node \in Nat
  BY NodeOfWalk, PlanFacts DEF Rooted
<1>1. CASE SkipNode
  <2>1. pc = "visit" /\ pc' = "return" /\ UNCHANGED <<tree, node, resumed>>
    BY <1>1 DEF SkipNode, memory, observed
  <2>2. Beyond(tree, node) \subseteq {x \in DOMAIN tree : x >= node}
    BY <1>0 DEF Beyond, Rooted
  <2>. QED
    BY <1>0, <1>1, <2>1, <2>2 DEF Now, Ahead
<1>2. CASE EnterBranch
  <2>1. /\ pc = "visit" /\ pc' = "visit" /\ UNCHANGED <<tree, resumed>>
        /\ Children(node) # {} /\ node' = First(Children(node))
    BY <1>2 DEF EnterBranch, observed
  <2>2. /\ node' \in DOMAIN tree /\ tree[node'] = node
        /\ \A x \in DOMAIN tree : tree[x] = node => node' <= x
    BY <1>0, <2>1, FirstIsLeast DEF Children, Rooted
  <2>3. node' = node + 1
    BY <1>0, <2>2, ChildIsNext
  <2>4. {x \in DOMAIN tree : x >= node + 1} = {x \in DOMAIN tree : x >= node} \ {node}
    BY <1>0 DEF Rooted
  <2>5. node \notin Leaves(tree)
    BY <2>2 DEF Leaves
  <2>. QED
    BY <1>0, <1>2, <2>1, <2>3, <2>4, <2>5 DEF Now, Ahead
<1>3. CASE StartLeaf
  <2>1. /\ pc = "visit" /\ pc' = "exec" /\ UNCHANGED <<tree, node, resumed>>
        /\ Children(node) = {}
    BY <1>3 DEF StartLeaf
  <2>2. {x \in DOMAIN tree : x > node} = {x \in DOMAIN tree : x >= node} \ {node}
    BY <1>0 DEF Rooted
  <2>3. node \in Leaves(tree)
    BY <1>0, <2>1 DEF Leaves, Children
  <2>. QED
    BY <1>0, <1>3, <2>1, <2>2, <2>3 DEF Now, Ahead
<1>4. CASE pc \in {"exec", "open", "write"} /\ pc' \in {"exec", "open", "write"}
           /\ UNCHANGED <<tree, node>>
  <2>1. Now' = Now
    BY <1>4 DEF Now, Ahead
  <2>2. UNCHANGED <<resumed, ran>>
        /\ \/ \E ok, nonempty \in BOOLEAN : FinishLeaf(ok, nonempty)
           \/ UNCHANGED <<status, allSuccess>> /\ UNCHANGED <<pc, node>>
           \/ UNCHANGED <<status, allSuccess>> /\ pc # "exec"
    BY <1>4, Zenon DEF Next, Step, Call, Resume, NothingToResume, Plan, CallFails, Execute,
     SkipNode, EnterBranch, StartLeaf, FinishLeaf, NextChild, LeaveBranch, WalkEnds,
     OpenFile, WriteFile, SaveFails, EndCall, RemoveFails, Cancel, Crash, vars, memory, observed
  <2>. QED
    BY <1>0, <1>4, <2>1, <2>2
<1>5. CASE pc \in {"open", "write"} /\ pc' = "return" /\ UNCHANGED <<tree, node>>
  <2>1. Now' = Now
    BY <1>5, <1>0, LeafIsAlone DEF Now, Ahead, CallBegins
  <2>2. UNCHANGED <<resumed, ran, status, allSuccess>>
    BY <1>5, Zenon DEF Next, Step, Call, Resume, NothingToResume, Plan, CallFails, Execute,
     SkipNode, EnterBranch, StartLeaf, FinishLeaf, NextChild, LeaveBranch, WalkEnds,
     OpenFile, WriteFile, SaveFails, EndCall, RemoveFails, Cancel, Crash, vars, memory, observed
  <2>. QED
    BY <1>0, <1>5, <2>1, <2>2
<1>6. CASE NextChild
  <2>1. /\ pc = "return" /\ pc' = "visit" /\ UNCHANGED <<tree, resumed, ran, status, allSuccess>>
        /\ node # 1 /\ RemainingSiblings(node) # {} /\ node' = First(RemainingSiblings(node))
    BY <1>6 DEF NextChild, NextNode, observed
  <2>2. /\ node' \in DOMAIN tree /\ tree[node'] = tree[node] /\ node' > node
        /\ \A x \in DOMAIN tree : tree[x] = tree[node] /\ x > node => node' <= x
    BY <1>0, <2>1, FirstIsLeast DEF RemainingSiblings, YoungerSiblings, Rooted
  <2>3. Beyond(tree, node) = {x \in DOMAIN tree : x >= node'}
    BY <1>0, <2>1, <2>2, SiblingIsNext
  <2>. QED
    BY <1>0, <2>1, <2>3 DEF Now, Ahead
<1>7. CASE LeaveBranch
  <2>1. /\ pc = "return" /\ pc' = "return" /\ UNCHANGED <<tree, resumed, ran>>
        /\ node # 1 /\ RemainingSiblings(node) = {} /\ node' = tree[node]
    BY <1>7 DEF LeaveBranch, observed
  <2>2. Beyond(tree, node) = Beyond(tree, tree[node])
    BY <1>0, <2>1, ParentIsNext DEF RemainingSiblings, YoungerSiblings
  <2>. QED
    BY <1>0, <1>7, <2>1, <2>2 DEF Now, Ahead
<1>8. CASE WalkEnds
  <2>1. /\ pc = "return" /\ pc' = "cleanup" /\ node = 1
        /\ UNCHANGED <<tree, resumed, ran, status, allSuccess>>
    BY <1>8 DEF WalkEnds, memory, observed
  <2>2. Beyond(tree, node) = {}
    BY <1>0, <2>1, RootIsAll
  <2>. QED
    BY <1>0, <2>1, <2>2 DEF Now, Ahead
<1>9. CASE UNCHANGED <<pc, tree, node, status, allSuccess, resumed, ran>>
  BY <1>0, <1>9 DEF Now, Ahead
<1>10. \/ SkipNode \/ EnterBranch \/ StartLeaf
       \/ /\ pc \in {"exec", "open", "write"} /\ pc' \in {"exec", "open", "write"}
          /\ UNCHANGED <<tree, node>>
       \/ pc \in {"open", "write"} /\ pc' = "return" /\ UNCHANGED <<tree, node>>
       \/ NextChild \/ LeaveBranch \/ WalkEnds
       \/ UNCHANGED <<pc, tree, node, status, allSuccess, resumed, ran>>
  BY Zenon DEF Next, Step, Call, Resume, NothingToResume, Plan, CallFails, Execute, FinishLeaf,
     OpenFile, WriteFile, SaveFails, EndCall, RemoveFails, Cancel, Crash, vars, memory,
     observed, Walk
<1>. QED
  BY <1>1, <1>2, <1>3, <1>4, <1>5, <1>6, <1>7, <1>8, <1>9, <1>10

\* A walk begins at the root with nothing executed, and on a new plan nothing done.
LEMMA WalkBegins ==
  ASSUME Known, CallBegins, [Next]_vars, pc \notin Walk, pc' \in Walk
  PROVE  /\ ran' = <<>> /\ Now' = DOMAIN tree' /\ tree' = tree /\ tree \in Plans
         /\ ~resumed' => status' = Blank(tree', "pending")
<1>1. Execute
  BY Zenon DEF Next, Step, Call, Resume, NothingToResume, Plan, CallFails, SkipNode,
     EnterBranch, StartLeaf, FinishLeaf, NextChild, LeaveBranch, WalkEnds, OpenFile,
     WriteFile, SaveFails, EndCall, RemoveFails, Cancel, Crash, vars, Walk
<1>2. /\ pc = "execute" /\ pc' = "visit" /\ UNCHANGED <<tree, status, ran, resumed>>
      /\ node' = 1
  BY <1>1 DEF Execute
<1>3. tree \in Plans /\ ran = <<>> /\ (~resumed => status = Blank(tree, "pending"))
  BY <1>2 DEF Known, PlannerKnown, CallBegins
<1>4. {x \in DOMAIN tree : x >= 1} = DOMAIN tree
  <2>1. \E k \in Nat : DOMAIN tree = 1 .. k
    BY <1>3, PlanOrder
  <2>. QED
    BY <2>1
<1>. QED
  BY <1>2, <1>3, <1>4 DEF Now, Ahead

\* What one more executed leaf changes in the record of executed leaves.
LEMMA AppendRan ==
  ASSUME ran \in Seq(Nodes), NEW n \in Nodes, ran' = Append(ran, n)
  PROVE  /\ Ran' = Ran \cup {n} /\ Len(ran') = Len(ran) + 1
         /\ ran'[Len(ran) + 1] = n
         /\ \A i \in 1 .. Len(ran) : ran'[i] = ran[i] /\ ran[i] \in Ran
<1>1. /\ DOMAIN ran = 1 .. Len(ran) /\ Len(ran) \in Nat
      /\ Len(ran') = Len(ran) + 1 /\ DOMAIN ran' = 1 .. Len(ran) + 1
      /\ ran'[Len(ran) + 1] = n
      /\ \A i \in 1 .. Len(ran) : ran'[i] = ran[i]
  BY AppendProperties, LenProperties
<1>2. \A i \in 1 .. Len(ran) + 1 : i \in 1 .. Len(ran) \/ i = Len(ran) + 1
  BY <1>1
<1>3. Len(ran) + 1 \in DOMAIN ran' /\ DOMAIN ran \subseteq DOMAIN ran'
  BY <1>1
<1>. QED
  BY <1>1, <1>2, <1>3 DEF Ran

\* A walk executes leaves in the order of the plan, each behind the place it has
\* reached.
LEMMA OrderStep ==
  ASSUME Known, MemoryCounted, Ordered, [Next]_vars
  PROVE  RanInOrder' /\ RanBehind'
<1>0. /\ ran \in Seq(Nodes) /\ DOMAIN ran = 1 .. Len(ran) /\ Len(ran) \in Nat
      /\ RanInOrder /\ RanBehind /\ CallBegins
  BY TypeParts, LenProperties DEF Known, ObservedTypes, Ordered
<1>1. CASE StartLeaf
  <2>1. pc \in Walk /\ pc' \in Walk /\ ran' = Append(ran, node)
    BY <1>1 DEF StartLeaf, Walk
  <2>2. /\ node \in Leaves(tree) /\ Now' = Now \ {node} /\ tree' = tree
        /\ node \in Nodes /\ DOMAIN tree \subseteq Nat /\ Leaves(tree) \subseteq DOMAIN tree
        /\ Now = {x \in DOMAIN tree : x >= node}
    <3>1. pc = "visit" /\ pc' = "exec" /\ tree' = tree
      BY <1>1 DEF StartLeaf
    <3>2. ~SkipNode /\ ~EnterBranch
      BY <1>1 DEF StartLeaf, SkipNode, EnterBranch
    <3>3. ~LeaveBranch /\ pc # pc' /\ ~(\E ok, nonempty \in BOOLEAN : FinishLeaf(ok, nonempty))
      BY <3>1 DEF LeaveBranch, FinishLeaf
    <3>4. ran' # ran
      <4>1. node \in Nodes
        BY <2>1, NodeOfWalk
      <4>2. Len(ran') = Len(ran) + 1
        BY <1>0, <2>1, <4>1, AppendRan
      <4>. QED
        BY <1>0, <4>2
    <3>. QED
      BY <1>0, <2>1, <3>1, <3>2, <3>3, <3>4, WalkMoves, NodeOfWalk, PlanFacts DEF Rooted
  <2>3. /\ Ran' = Ran \cup {node} /\ Len(ran') = Len(ran) + 1 /\ ran'[Len(ran) + 1] = node
        /\ \A i \in 1 .. Len(ran) : ran'[i] = ran[i] /\ ran[i] \in Ran
    BY <1>0, <2>1, <2>2, AppendRan
  <2>4. \A i \in 1 .. Len(ran) : ran[i] < node
    BY <1>0, <2>1, <2>2, <2>3 DEF RanBehind
  <2>5. RanInOrder'
    <3>1. SUFFICES ASSUME NEW i \in 1 .. Len(ran) PROVE ran'[i] < ran'[i + 1]
      BY <1>0, <2>3 DEF RanInOrder
    <3>2. CASE i = Len(ran)
      BY <1>0, <2>3, <2>4, <3>2
    <3>3. CASE i # Len(ran)
      <4>1. i \in 1 .. Len(ran) - 1 /\ i + 1 \in 1 .. Len(ran)
        <5>1. Len(ran) \in Nat
          BY <1>0
        <5>2. i \in Nat /\ 1 <= i /\ i <= Len(ran) /\ i # Len(ran)
          BY <3>3, <5>1
        <5>. QED
          BY <5>1, <5>2
      <4>2. ran[i] < ran[i + 1]
        BY <1>0, <4>1 DEF RanInOrder
      <4>3. ran'[i] = ran[i] /\ ran'[i + 1] = ran[i + 1]
        BY <2>3, <4>1
      <4>. QED
        BY <4>2, <4>3
    <3>. QED
      BY <3>2, <3>3
  <2>6. RanBehind'
    BY <1>0, <2>1, <2>2, <2>3 DEF RanBehind, Leaves
  <2>. QED
    BY <2>5, <2>6
<1>2. CASE ~StartLeaf
  <2>1. ran' = ran \/ ran' = <<>>
    BY <1>2, Zenon DEF Next, Step, Call, Resume, NothingToResume, Plan, CallFails, Execute,
     SkipNode, EnterBranch, FinishLeaf, NextChild, LeaveBranch, WalkEnds, OpenFile,
     WriteFile, SaveFails, EndCall, RemoveFails, Cancel, Crash, vars, observed
  <2>2. RanInOrder'
    BY <1>0, <2>1 DEF RanInOrder
  <2>3. CASE pc' \in Walk /\ pc \in Walk
    <3>1. ran' = ran
      BY <1>2, <2>3, Zenon DEF Next, Step, Call, Resume, NothingToResume, Plan, CallFails, Execute,
       SkipNode, EnterBranch, FinishLeaf, NextChild, LeaveBranch, WalkEnds, OpenFile,
       WriteFile, SaveFails, EndCall, RemoveFails, Cancel, Crash, vars, observed, Walk,
       CallBegins
    <3>2. Now' \subseteq Now /\ tree' = tree
      BY <1>0, <2>3, WalkMoves
    <3>3. Ran' = Ran /\ Leaves(tree)' = Leaves(tree)
      BY <3>1, <3>2 DEF Ran, Leaves
    <3>. QED
      BY <1>0, <2>2, <2>3, <3>2, <3>3 DEF RanBehind
  <2>4. CASE pc' \in Walk /\ pc \notin Walk
    <3>1. Ran' = {}
      BY <1>0, <2>4, WalkBegins DEF Ran
    <3>. QED
      BY <2>2, <3>1 DEF RanBehind
  <2>. QED
    BY <2>2, <2>3, <2>4 DEF RanBehind
<1>. QED
  BY <1>1, <1>2

\* Nobody has been here before a fresh walk: it skips nothing, enters every branch and
\* leaf in turn, and keeps its success only as long as every leaf completes.
LEMMA FreshStep ==
  ASSUME Known, MemoryCounted, Ordered, [Next]_vars
  PROVE  FreshWalk'
<1>0. /\ CallBegins /\ FreshWalk /\ MemoryTypes
  BY TypeParts DEF Known, Ordered
<1>1. SUFFICES ASSUME pc' \in Walk, ~resumed', ~cancelled'
               PROVE  /\ \A n \in Now' : status'[n] = "pending"
                      /\ \A n \in Leaves(tree') \ Now' :
                           /\ n \in Ran'
                           /\ allSuccess' =>
                                status'[n] = "completed" \/ (pc' = "exec" /\ n = node')
  BY DEF FreshWalk
<1>2. CASE pc \notin Walk
  BY <1>0, <1>1, <1>2, WalkBegins DEF Leaves, Blank
<1>3. CASE pc \in Walk
  <2>1. /\ UNCHANGED <<tree, resumed>> /\ node \in DOMAIN tree /\ tree \in Plans
        /\ Leaves(tree') = Leaves(tree) /\ Leaves(tree) \subseteq DOMAIN tree
    BY <1>0, <1>1, <1>3, WalkMoves DEF Leaves
  <2>2. ~cancelled
    BY <1>1, <1>3, Zenon DEF Next, Step, Call, Resume, NothingToResume, Plan, CallFails, Execute,
     SkipNode, EnterBranch, StartLeaf, FinishLeaf, NextChild, LeaveBranch, WalkEnds, OpenFile,
     WriteFile, SaveFails, EndCall, RemoveFails, Cancel, Crash, vars, memory, Walk
  <2>3. /\ \A n \in Now : status[n] = "pending"
        /\ \A n \in Leaves(tree) \ Now :
             /\ n \in Ran
             /\ allSuccess => status[n] = "completed" \/ (pc = "exec" /\ n = node)
    BY <1>0, <1>1, <1>3, <2>1, <2>2 DEF FreshWalk
  <2>4. CASE SkipNode
    <3>1. pc = "visit" /\ status[node] = "completed"
      BY <2>2, <2>4 DEF SkipNode, Skipped
    <3>2. node \in Now /\ DOMAIN tree \subseteq Nat
      BY <2>1, <3>1, PlanFacts DEF Now, Ahead, Rooted
    <3>. QED
      BY <2>3, <3>1, <3>2
  <2>5. CASE EnterBranch /\ node \notin Leaves(tree) /\ Now' = Now \ {node}
    <3>1. /\ pc = "visit" /\ status' = [status EXCEPT ![node] = "running"]
          /\ allSuccess' = allSuccess /\ ran' = ran
      BY <2>5 DEF EnterBranch, observed
    <3>2. \A n \in Leaves(tree) \ Now' : n \in Leaves(tree) \ Now /\ n # node
      BY <2>5
    <3>3. \A n : n # node => status'[n] = status[n]
      BY <1>0, <3>1 DEF MemoryTypes
    <3>. QED
      BY <2>1, <2>3, <2>5, <3>1, <3>2, <3>3 DEF Ran
  <2>6. CASE StartLeaf /\ Now' = Now \ {node}
    <3>1. /\ pc = "visit" /\ pc' = "exec" /\ status' = [status EXCEPT ![node] = "running"]
          /\ allSuccess' = allSuccess /\ ran' = Append(ran, node) /\ node' = node
      BY <2>6 DEF StartLeaf
    <3>2. Ran' = Ran \cup {node}
      BY <1>3, <3>1, NodeOfWalk, AppendRan, TypeParts DEF Known, ObservedTypes
    <3>3. \A n : n # node => status'[n] = status[n]
      BY <1>0, <3>1 DEF MemoryTypes
    <3>. QED
      BY <2>1, <2>3, <2>6, <3>1, <3>2, <3>3
  <2>7. ASSUME NEW ok \in BOOLEAN, NEW nonempty \in BOOLEAN, FinishLeaf(ok, nonempty),
               Now' = Now, ran' = ran
        PROVE  FreshWalk'
    <3>1. /\ pc = "exec" /\ status' = [status EXCEPT ![node] = StatusAfter(ok)]
          /\ node' = node /\ allSuccess' = SuccessAfter(ok)
      BY <2>7 DEF FinishLeaf
    <3>2. node \notin Now
      BY <2>1, <3>1, PlanFacts DEF Now, Ahead, Rooted
    <3>3. \A n : n # node => status'[n] = status[n]
      BY <1>0, <3>1 DEF MemoryTypes
    <3>4. allSuccess' => allSuccess /\ status'[node] = "completed"
      BY <1>0, <2>1, <3>1 DEF SuccessAfter, StatusAfter, MemoryTypes
    <3>5. Ran' = Ran
      BY <2>7 DEF Ran
    <3>. QED
      BY <2>1, <2>3, <2>7, <3>2, <3>3, <3>4, <3>5 DEF FreshWalk
  <2>8. CASE LeaveBranch /\ Now' = Now /\ ran' = ran
    <3>1. /\ pc = "return" /\ status' = [status EXCEPT ![tree[node]] = "completed"]
          /\ allSuccess' = allSuccess /\ node # 1
      BY <2>8 DEF LeaveBranch
    <3>2. tree[node] \notin Leaves(tree)
      BY <2>1 DEF Leaves
    <3>3. tree[node] \notin Now
      <4>1. PICK k \in Nat : /\ DOMAIN tree = 1 .. k
                             /\ \A j \in DOMAIN tree : j # 1 => tree[j] \in 1 .. j - 1
        BY <2>1, PlanOrder
      <4>2. tree[node] < node /\ node \in Nat /\ tree[node] \in Nat
        BY <2>1, <3>1, <4>1
      <4>. QED
        BY <3>1, <4>2 DEF Now, Ahead, Beyond
    <3>4. \A n : n # tree[node] => status'[n] = status[n]
      BY <1>0, <3>1 DEF MemoryTypes
    <3>5. Ran' = Ran
      BY <2>8 DEF Ran
    <3>. QED
      BY <2>1, <2>3, <2>8, <3>1, <3>2, <3>3, <3>4, <3>5
  <2>9. CASE /\ Now' = Now /\ ran' = ran /\ UNCHANGED <<status, allSuccess>>
             /\ UNCHANGED <<pc, node>> \/ pc # "exec"
    <3>1. Ran' = Ran
      BY <2>9 DEF Ran
    <3>. QED
      BY <2>1, <2>3, <2>9, <3>1
  <2>. QED
    BY <1>0, <1>1, <1>3, <2>4, <2>5, <2>6, <2>7, <2>8, <2>9, WalkMoves DEF FreshWalk
<1>. QED
  BY <1>2, <1>3

\* At the end of a walk nothing is ahead.
LEMMA WalkDone ==
  ASSUME Known, Ordered
  PROVE  WalkIsComplete /\ SuccessIsComplete
<1>1. CASE pc = "cleanup"
  <2>1. Now = {} /\ pc \in Walk
    BY <1>1 DEF Now, Ahead, Walk
  <2>2. Ran \subseteq Leaves(tree)
    BY <2>1 DEF Ordered, RanBehind
  <2>3. ~resumed /\ ~cancelled =>
          \A n \in Leaves(tree) : n \in Ran /\ (allSuccess => status[n] = "completed")
    BY <1>1, <2>1 DEF Ordered, FreshWalk
  <2>. QED
    BY <2>2, <2>3 DEF WalkIsComplete, SuccessIsComplete, Ordered, RanInOrder, Ran
<1>2. CASE pc # "cleanup"
  BY <1>2 DEF WalkIsComplete, SuccessIsComplete, Ordered, RanInOrder
<1>. QED
  BY <1>1, <1>2

-----------------------------------------------------------------------------
(***************************************************************************)
(* Theorems                                                                *)
(***************************************************************************)
\* A process begins with no planner, no session and no files.
LEMMA Initially ==
  ASSUME Init
  PROVE  Invariant
<1>0. /\ DOMAIN NoPlan = {1} /\ Leaves(NoPlan) \subseteq {1}
      /\ {MaxSessions, MaxCalls, MaxCrashes, MaxFaults, MaxCancels} \subseteq Nat
  BY SessionConstants DEF NoPlan, Leaves
<1>1. MemoryTypes
  <2>1. Blank(NoPlan, <<>>) \in [{1} -> Seq(Nodes)] /\ DOMAIN Blank(NoPlan, <<>>) = {1}
    BY <1>0, EmptySeq DEF Blank
  <2>. QED
    BY <1>0, <2>1 DEF Init, MemoryTypes, Blank, Statuses
<1>2. FlagTypes
  BY DEF Init, FlagTypes
<1>3. /\ SessionTypes /\ CounterTypes
  BY <1>0 DEF Init, SessionTypes, CounterTypes, Walk, Labels
<1>4. FileTypes /\ ObservedTypes
  BY EmptySeq DEF Init, FileTypes, ObservedTypes, Absent
<1>5. \A id \in Ids : ~Readable(id)
  BY DEF Init, Readable, Absent
<1>6. PlannerKnown /\ FilesKnown /\ NewestIsFound
  BY <1>5 DEF Init, PlannerKnown, FilesKnown, NewestIsFound, Found, Walk
<1>7. Counted
  BY DEF Init, Counted, CheckpointNotAhead, MemoryCounted, FileCounted, RunAgainOnlyAfterLoss
<1>8. Ordered
  <2>1. Len(ran) = 0 /\ Ran = {}
    BY DEF Init, Ran
  <2>. QED
    BY <2>1 DEF Init, Ordered, RanInOrder, RanBehind, FreshWalk, CallBegins, Walk
<1>. QED
  BY <1>8, <1>1, <1>2, <1>3, <1>4, <1>6, <1>7, TypeParts DEF Invariant, Known

\* What is known of the planner and its files, the counts of completions and the
\* order of the walk are kept by every step of every session (PlanAndExecute, executeNode
\* and checkpoint).
THEOREM Inductive == Spec => []Invariant
<1>1. Init => Invariant
  BY Initially
<1>2. Invariant /\ [Next]_vars => Invariant'
  BY KnownStep, CheckpointStep, MemoryCountStep, FileCountStep, RunAgainStep,
     BeginStep, OrderStep, FreshStep DEF Invariant, Counted, Ordered
<1>. QED
  BY <1>1, <1>2, PTL DEF Spec

\* The variables of a call, its session and the files keep their types, and a call
\* under way has the newest session, also when it resumes one (PlanAndExecute and
\* findExistingSession of internal/planner/skeleton.go).
THEOREM TypeCorrect == Spec => []TypeOK
BY Inductive, PTL DEF Invariant, Known

\* No checkpoint (saveSession) shows a leaf completed that did not complete, or one
\* under execution, whatever crashes and whichever write fails.
THEOREM CheckpointHolds == Spec => []CheckpointNotAhead
BY Inductive, PTL DEF Invariant, Counted

\* What executeNode completed it executes to completion again only after a checkpoint
\* failed or a crash came before the checkpoint was on disk.
THEOREM RunAgainHolds == Spec => []RunAgainOnlyAfterLoss
BY Inductive, PTL DEF Invariant, Counted

\* executeNode visits the leaves in the order of the plan and none twice, and leaves none
\* of a new plan out unless the call is cancelled.
THEOREM WalkHolds == Spec => []WalkIsComplete
<1>1. Invariant => WalkIsComplete
  BY WalkDone DEF Invariant
<1>. QED
  BY Inductive, <1>1, PTL

\* A success that Execute reports of a new plan covers every leaf of it.
THEOREM SuccessHolds == Spec => []SuccessIsComplete
<1>1. Invariant => SuccessIsComplete
  BY WalkDone DEF Invariant
<1>. QED
  BY Inductive, <1>1, PTL

-----------------------------------------------------------------------------
(***************************************************************************)
(* The context of a leaf                                                   *)
(***************************************************************************)
\* The equation the nodes above each node solve, and its chosen solution.
Climbs(t, f) == f = [m \in DOMAIN t |-> IF m = 1 THEN {} ELSE {t[m]} \cup f[t[m]]]
Above(t, n) == (CHOOSE f : Climbs(t, f))[n]

\* The recursive function of the model is this solution.
LEMMA AncestorsAbove ==
  ASSUME NEW n
  PROVE  Ancestors(n) = Above(tree, n)
BY Zenon DEF Ancestors, Above, Climbs

\* The equation has a solution, as a parent comes before its children: one for the
\* first nodes of a plan extends to the next node.
LEMMA ClimbExists ==
  ASSUME NEW t \in Plans
  PROVE  \E f : Climbs(t, f)
<1>1. PICK k \in Nat : /\ DOMAIN t = 1 .. k
                       /\ \A n \in DOMAIN t : n # 1 => t[n] \in 1 .. n - 1
  BY PlanOrder
<1> DEFINE Upto(j, f) == f = [m \in 1 .. j |-> IF m = 1 THEN {} ELSE {t[m]} \cup f[t[m]]]
           S == {j \in 0 .. k : ~ \E f : Upto(j, f)}
<1>2. SUFFICES ASSUME S # {} PROVE FALSE
  <2>1. k \in 0 .. k
    BY <1>1
  <2>2. k \notin S
    <3> HIDE DEF S
    <3>. QED
      BY <1>2
  <2>3. \E f : Upto(k, f)
    BY <2>1, <2>2
  <2>. QED
    BY <1>1, <2>3 DEF Climbs
<1>3. PICK j \in S : \A i \in S : j <= i
  <2>1. S \subseteq Nat
    BY <1>1
  <2> HIDE DEF S
  <2>. QED
    BY <1>2, <2>1, FirstIsLeast
<1>4. CASE j = 0
  <2> DEFINE g == [m \in 1 .. 0 |-> {}]
  <2>1. Upto(0, g)
    <3>1. \A m \in 1 .. 0 : g[m] = IF m = 1 THEN {} ELSE {t[m]} \cup g[t[m]]
      OBVIOUS
    <3>2. g = [m \in 1 .. 0 |-> g[m]]
      OBVIOUS
    <3> HIDE DEF g
    <3>. QED
      BY <3>1, <3>2
  <2>. QED
    BY <1>4, <2>1
<1>5. CASE j # 0
  <2>1. j - 1 \in 0 .. k /\ j - 1 \notin S /\ j \in 1 .. k
    <3>1. j \in 0 .. k
      OBVIOUS
    <3>2. j - 1 \in 0 .. k /\ j \in 1 .. k /\ ~(j <= j - 1)
      BY <1>1, <1>5, <3>1
    <3> HIDE DEF S
    <3>. QED
      BY <1>3, <3>2
  <2>2. PICK f : Upto(j - 1, f)
    BY <2>1
  <2> DEFINE g == [m \in 1 .. j |-> IF m = 1 THEN {} ELSE {t[m]} \cup f[t[m]]]
  <2>3. ASSUME NEW m \in 1 .. j - 1 PROVE g[m] = f[m]
    <3>1. f[m] = IF m = 1 THEN {} ELSE {t[m]} \cup f[t[m]]
      BY <2>2, Zenon
    <3>2. m \in 1 .. j
      BY <2>1
    <3>. QED
      BY <3>1, <3>2
  <2>4. ASSUME NEW m \in 1 .. j, m # 1 PROVE g[t[m]] = f[t[m]]
    <3>1. m \in DOMAIN t
      BY <1>1, <2>1
    <3>2. t[m] \in 1 .. m - 1
      BY <1>1, <2>4, <3>1
    <3>3. t[m] \in 1 .. j - 1
      BY <2>1, <3>2
    <3> HIDE DEF g
    <3>. QED
      BY <2>3, <3>3
  <2>5. g = [m \in 1 .. j |-> IF m = 1 THEN {} ELSE {t[m]} \cup g[t[m]]]
    <3>1. \A m \in 1 .. j : g[m] = IF m = 1 THEN {} ELSE {t[m]} \cup g[t[m]]
      <4>1. \A m \in 1 .. j : g[m] = IF m = 1 THEN {} ELSE {t[m]} \cup f[t[m]]
        OBVIOUS
      <4> HIDE DEF g
      <4>. QED
        BY <2>4, <4>1
    <3>2. g = [m \in 1 .. j |-> g[m]]
      OBVIOUS
    <3> HIDE DEF g
    <3>. QED
      BY <3>1, <3>2
  <2>6. Upto(j, g)
    <3> HIDE DEF g
    <3>. QED
      BY <2>5
  <2>. QED
    BY <2>6
<1>. QED
  BY <1>4, <1>5

\* Above the root is nothing; above another node are its parent and what is above that.
LEMMA AboveParent ==
  ASSUME NEW t \in Plans, NEW n \in DOMAIN t
  PROVE  Above(t, n) = IF n = 1 THEN {} ELSE {t[n]} \cup Above(t, t[n])
<1> DEFINE f == CHOOSE f : Climbs(t, f)
<1>1. Climbs(t, f)
  BY ClimbExists
<1>2. \A m : Above(t, m) = f[m]
  BY Zenon DEF Above
<1> HIDE DEF f
<1>3. f = [m \in DOMAIN t |-> IF m = 1 THEN {} ELSE {t[m]} \cup f[t[m]]]
  BY <1>1, Zenon DEF Climbs
<1>4. f[n] = IF n = 1 THEN {} ELSE {t[n]} \cup f[t[n]]
  BY <1>3, Zenon
<1>. QED
  BY <1>2, <1>4

\* What is above a node comes before it.
LEMMA AboveBefore ==
  ASSUME NEW t \in Plans, NEW n \in DOMAIN t, NEW a \in Above(t, n)
  PROVE  a \in DOMAIN t /\ a < n /\ n # 1
<1>1. PICK k \in Nat : /\ DOMAIN t = 1 .. k
                       /\ \A m \in DOMAIN t : m # 1 => t[m] \in 1 .. m - 1
  BY PlanOrder
<1> DEFINE S == {m \in DOMAIN t : ~ \A x \in Above(t, m) : x \in DOMAIN t /\ x < m}
<1>2. SUFFICES ASSUME S # {} PROVE FALSE
  <2>1. \A x \in Above(t, n) : x \in DOMAIN t /\ x < n
    BY <1>2
  <2>. QED
    BY <2>1, AboveParent
<1>3. PICK m \in S : \A i \in S : m <= i
  <2>1. S \subseteq Nat
    BY <1>1
  <2> HIDE DEF S
  <2>. QED
    BY <1>2, <2>1, FirstIsLeast
<1>4. m \in DOMAIN t /\ m \in Nat
  BY <1>1
<1>5. m # 1
  BY <1>4, AboveParent
<1>6. t[m] \in DOMAIN t /\ t[m] < m /\ t[m] \in Nat
  BY <1>1, <1>4, <1>5
<1>7. t[m] \notin S
  BY <1>3, <1>4, <1>6
<1>8. \A x \in Above(t, t[m]) : x \in DOMAIN t /\ x < t[m]
  BY <1>6, <1>7
<1>9. \A x \in Above(t, m) : x \in DOMAIN t /\ x < m
  BY <1>1, <1>4, <1>5, <1>6, <1>8, AboveParent
<1>. QED
  BY <1>9

\* The root is below no node.
LEMMA RootAlone ==
  ASSUME NEW t \in Plans, NEW n \in DOMAIN t
  PROVE  t[1] \notin Above(t, n)
<1>1. t[1] = 0 /\ DOMAIN t \subseteq Nat \ {0}
  BY SessionConstants DEF DepthFirst
<1>. QED
  BY <1>1, AboveBefore

\* The older siblings of a node and of the branches above it.
Older(t, n) == {m \in DOMAIN t : m < n /\ m \notin Above(t, n) /\ t[m] \in Above(t, n)}

\* The root has none, and those of a first child are those of its parent.
LEMMA OlderOfChild ==
  ASSUME NEW t \in Plans, NEW n \in DOMAIN t, NEW c \in DOMAIN t, t[c] = n, c = n + 1
  PROVE  /\ c # 1 /\ Above(t, c) = {n} \cup Above(t, n)
         /\ Older(t, c) = Older(t, n) /\ Older(t, 1) = {}
<1>1. PICK k \in Nat : /\ DOMAIN t = 1 .. k
                       /\ \A j \in DOMAIN t : j # 1 => t[j] \in 1 .. j - 1
  BY PlanOrder
<1>2. n \in Nat /\ c \in Nat /\ c # 1
  BY <1>1
<1>3. Above(t, c) = {n} \cup Above(t, n)
  BY <1>2, AboveParent
<1>4. ASSUME NEW m \in Older(t, c) PROVE m \in Older(t, n)
  <2>1. m \in DOMAIN t /\ m < c /\ m \notin Above(t, c) /\ t[m] \in Above(t, c)
    BY DEF Older
  <2>2. m # 1 /\ m # n /\ m \in Nat
    BY <1>1, <1>3, <2>1, RootAlone
  <2>3. m < n /\ t[m] < m /\ t[m] \in Nat
    BY <1>1, <1>2, <2>1, <2>2
  <2>4. t[m] # n
    BY <1>2, <2>2, <2>3
  <2>. QED
    BY <1>3, <2>1, <2>3, <2>4 DEF Older
<1>5. ASSUME NEW m \in Older(t, n) PROVE m \in Older(t, c)
  <2>1. m \in DOMAIN t /\ m < n /\ m \notin Above(t, n) /\ t[m] \in Above(t, n)
    BY DEF Older
  <2>2. m \in Nat /\ m # n /\ m < c
    BY <1>1, <1>2, <2>1
  <2>. QED
    BY <1>3, <2>1, <2>2 DEF Older
<1>6. Older(t, 1) = {}
  <2>1. 1 \in DOMAIN t
    BY PlanFacts DEF Rooted
  <2>2. Above(t, 1) = {}
    BY <2>1, AboveParent
  <2>. QED
    BY <2>2 DEF Older
<1>. QED
  BY <1>2, <1>3, <1>4, <1>5, <1>6

\* c is the sibling after n.
IsNextSibling(t, n, c) ==
  /\ c \in DOMAIN t /\ t[c] = t[n] /\ c > n
  /\ \A x \in DOMAIN t : t[x] = t[n] /\ x > n => c <= x

\* Those of the next sibling are this node and those of this node.
LEMMA OlderOfSibling ==
  ASSUME NEW t \in Plans, NEW n \in DOMAIN t, n # 1, NEW c, IsNextSibling(t, n, c)
  PROVE  /\ c # 1 /\ Above(t, c) = Above(t, n) /\ Above(t, n) = {t[n]} \cup Above(t, t[n])
         /\ Older(t, c) = Older(t, n) \cup {n}
<1>0. /\ c \in DOMAIN t /\ t[c] = t[n] /\ c > n
      /\ \A x \in DOMAIN t : t[x] = t[n] /\ x > n => c <= x
  BY DEF IsNextSibling
<1>1. PICK k \in Nat : /\ DOMAIN t = 1 .. k
                       /\ \A j \in DOMAIN t : j # 1 => t[j] \in 1 .. j - 1
  BY PlanOrder
<1>2. n \in Nat /\ c \in Nat /\ c # 1 /\ n >= 1
  BY <1>0, <1>1
<1>3. Above(t, n) = {t[n]} \cup Above(t, t[n])
  BY AboveParent
<1>4. Above(t, c) = Above(t, n)
  BY <1>0, <1>2, <1>3, AboveParent
<1>5. ASSUME NEW m \in Older(t, c), m # n PROVE m \in Older(t, n)
  <2>1. m \in DOMAIN t /\ m < c /\ m \notin Above(t, c) /\ t[m] \in Above(t, c) /\ m \in Nat
    BY <1>1 DEF Older
  <2>2. CASE m < n
    BY <1>4, <2>1, <2>2 DEF Older
  <2>3. CASE m > n
    <3>1. ~(m >= c)
      BY <1>2, <2>1
    <3>2. m \notin Beyond(t, n)
      BY <1>0, <3>1, SiblingIsNext
    <3>3. m \in n + 1 .. m
      BY <1>2, <2>1, <2>3
    <3>4. ~(t[m] < n)
      BY <2>1, <3>2, <3>3 DEF Beyond
    <3>. QED
      BY <1>4, <2>1, <3>4, AboveBefore
  <2>. QED
    BY <1>2, <1>5, <2>1, <2>2, <2>3
<1>6. ASSUME NEW m \in Older(t, n) PROVE m \in Older(t, c)
  <2>1. m \in DOMAIN t /\ m < n /\ m \in Nat
    BY <1>1 DEF Older
  <2>2. m < c
    BY <1>0, <1>2, <2>1
  <2>. QED
    BY <1>4, <2>1, <2>2 DEF Older
<1>7. n \in Older(t, c)
  <2>1. n \notin Above(t, n)
    BY <1>2, AboveBefore
  <2>. QED
    BY <1>0, <1>2, <1>3, <1>4, <2>1 DEF Older
<1>. QED
  BY <1>2, <1>3, <1>4, <1>5, <1>6, <1>7

\* The node has something to tell its younger siblings.
Telling(n) == status[n] = "failed" \/ (status[n] = "completed" /\ text[n])

\* Of the siblings of a node and of the branches above it, the older ones that tell
\* something.
Told(n) == {m \in Older(tree, n) : Telling(m)}

\* A context names each of some nodes, in their order.
Names(context, S) ==
  /\ {context[i] : i \in DOMAIN context} = S
  /\ \A i \in 1 .. Len(context) - 1 : context[i] < context[i + 1]

\* Along the path to the node of the walk, the parent of each has built the context
\* this one is to see.
ContextsHold ==
  pc \in Walk =>
    \A c \in {node} \cup Above(tree, node) : c # 1 => Names(childContext[tree[c]], Told(c))

\* One more name, of a later node.
LEMMA OneMoreName ==
  ASSUME NEW context \in Seq(Nodes), NEW S, Names(context, S), NEW n \in Nodes,
         \A m \in S : m < n
  PROVE  Names(context \o <<n>>, S \cup {n})
<1>1. /\ DOMAIN context = 1 .. Len(context) /\ Len(context) \in Nat
      /\ context \o <<n>> = Append(context, n)
  BY LenProperties
<1> DEFINE longer == Append(context, n)
<1>2. /\ Len(longer) = Len(context) + 1 /\ DOMAIN longer = 1 .. Len(context) + 1
      /\ longer[Len(context) + 1] = n
      /\ \A i \in 1 .. Len(context) : longer[i] = context[i]
  BY <1>1, AppendProperties, LenProperties
<1> HIDE DEF longer
<1>3. {longer[i] : i \in DOMAIN longer} = S \cup {n}
  <2>1. \A i \in 1 .. Len(context) + 1 : i \in 1 .. Len(context) \/ i = Len(context) + 1
    BY <1>1
  <2>2. Len(context) + 1 \in DOMAIN longer /\ DOMAIN context \subseteq DOMAIN longer
    BY <1>1, <1>2
  <2>. QED
    BY <1>1, <1>2, <2>1, <2>2 DEF Names
<1>4. ASSUME NEW i \in 1 .. Len(longer) - 1 PROVE longer[i] < longer[i + 1]
  <2>1. i \in 1 .. Len(context)
    BY <1>1, <1>2
  <2>2. longer[i] = context[i] /\ context[i] \in S
    BY <1>1, <1>2, <2>1 DEF Names
  <2>3. CASE i = Len(context)
    BY <1>2, <2>2, <2>3
  <2>4. CASE i # Len(context)
    <3>1. i \in 1 .. Len(context) - 1 /\ i + 1 \in 1 .. Len(context)
      <4>1. Len(context) \in Nat
        BY <1>1
      <4>2. i \in Nat /\ 1 <= i /\ i <= Len(context) /\ i # Len(context)
        BY <2>1, <2>4, <4>1
      <4>. QED
        BY <4>1, <4>2
    <3>. QED
      BY <1>2, <2>2, <3>1 DEF Names
  <2>. QED
    BY <2>3, <2>4
<1>. QED
  BY <1>1, <1>3, <1>4 DEF Names, longer

\* What happens to a node on the path, or after it, changes nothing of what the nodes
\* of the path are told.
LEMMA ToldOfOthers ==
  ASSUME tree \in Plans, tree' = tree, NEW n \in DOMAIN tree,
         \A m \in DOMAIN tree : m # n => status'[m] = status[m] /\ text'[m] = text[m],
         NEW c \in DOMAIN tree, c <= n
  PROVE  Told(c)' = Told(c)
<1>1. DOMAIN tree \subseteq Nat
  BY PlanFacts DEF Rooted
<1>2. \A m \in DOMAIN tree : m < c => m # n
  BY <1>1
<1>. QED
  BY <1>2 DEF Told, Telling, Older

\* What changes nothing that the path is told keeps the contexts.
LEMMA ContextsKept ==
  ASSUME tree \in Plans, UNCHANGED <<tree, childContext>>, ContextsHold, pc \in Walk,
         node \in DOMAIN tree,
         {node'} \cup Above(tree, node') \subseteq {node} \cup Above(tree, node),
         \A m \in DOMAIN tree : m < node' => status'[m] = status[m] /\ text'[m] = text[m]
  PROVE  ContextsHold'
<1>1. DOMAIN tree \subseteq Nat
  BY PlanFacts DEF Rooted
<1>2. node' \in DOMAIN tree
  BY AboveBefore
<1>3. ASSUME NEW c \in {node'} \cup Above(tree, node') PROVE Told(c)' = Told(c)
  <2>1. c \in DOMAIN tree /\ c <= node'
    BY <1>1, <1>2, AboveBefore
  <2>2. \A m \in DOMAIN tree : m < c => m < node'
    BY <1>1, <1>2, <2>1
  <2>. QED
    BY <2>2 DEF Told, Telling, Older
<1>. QED
  BY <1>3 DEF ContextsHold

\* The walk keeps for each branch of the path the context its next child is to see.
LEMMA ContextsStep ==
  ASSUME Known, MemoryCounted, CallBegins, ContextsHold, [Next]_vars
  PROVE  ContextsHold'
<1>0. SUFFICES ASSUME pc' \in Walk PROVE ContextsHold'
  BY DEF ContextsHold
<1>1. CASE pc \notin Walk
  <2>1. Execute
    BY <1>0, <1>1, Zenon DEF Next, Step, Call, Resume, NothingToResume, Plan, CallFails, SkipNode,
       EnterBranch, StartLeaf, FinishLeaf, NextChild, LeaveBranch, WalkEnds, OpenFile,
       WriteFile, SaveFails, EndCall, RemoveFails, Cancel, Crash, vars, Walk
  <2>2. node' = 1 /\ tree' = tree /\ tree \in Plans
    BY <2>1 DEF Execute, Known, PlannerKnown
  <2>3. Above(tree', node') = {}
    BY <2>2, AboveParent, PlanFacts DEF Rooted
  <2>. QED
    BY <2>2, <2>3 DEF ContextsHold
<1>2. CASE pc \in Walk
  <2>1. /\ node \in DOMAIN tree /\ tree \in Plans /\ node \in Nat /\ DOMAIN tree \subseteq Nat
        /\ DOMAIN tree \subseteq Nodes /\ 1 \in DOMAIN tree /\ DOMAIN childContext = DOMAIN tree
        /\ \A n \in DOMAIN tree : childContext[n] \in Seq(Nodes)
    <3>1. node \in DOMAIN tree /\ tree \in Plans
      BY <1>2, NodeOfWalk
    <3>2. childContext \in [DOMAIN childContext -> Seq(Nodes)] /\ DOMAIN childContext = DOMAIN tree
      BY <1>2 DEF Known, TypeOK, PlannerKnown
    <3>. QED
      BY <3>1, <3>2, PlanFacts DEF Rooted
  <2>2. PICK k \in Nat : /\ DOMAIN tree = 1 .. k
                         /\ \A j \in DOMAIN tree : j # 1 => tree[j] \in 1 .. j - 1
    BY <2>1, PlanOrder
  <2>3. CASE EnterBranch
    <3> DEFINE c == node'
    <3>1. /\ c \in DOMAIN tree /\ tree[c] = node /\ c = node + 1 /\ tree' = tree
          /\ \A m \in DOMAIN tree : m # node => status'[m] = status[m] /\ text'[m] = text[m]
          /\ childContext' = [childContext EXCEPT ![node] = SiblingContext(node)]
      <4>1. /\ tree' = tree /\ text' = text /\ Children(node) # {} /\ c = First(Children(node))
            /\ status' = [status EXCEPT ![node] = "running"]
            /\ childContext' = [childContext EXCEPT ![node] = SiblingContext(node)]
        BY <2>3 DEF EnterBranch
      <4>2. c \in DOMAIN tree /\ tree[c] = node /\ \A x \in DOMAIN tree : tree[x] = node => c <= x
        BY <2>1, <4>1, FirstIsLeast DEF Children
      <4>3. c = node + 1
        BY <2>1, <4>2, ChildIsNext
      <4>4. status \in [DOMAIN tree -> Statuses]
        BY DEF Known, TypeOK
      <4>. QED
        BY <4>1, <4>2, <4>3, <4>4
    <3>2. /\ c # 1 /\ Above(tree, c) = {node} \cup Above(tree, node)
          /\ Older(tree, c) = Older(tree, node) /\ Older(tree, 1) = {}
      <4>1. c \in DOMAIN tree /\ tree[c] = node /\ c = node + 1
        BY <3>1
      <4> HIDE DEF c
      <4>. QED
        BY <2>1, <4>1, OlderOfChild
    <3>3. Told(node)' = Told(node)
      <4>1. \A m \in Older(tree, node) : m \in DOMAIN tree /\ m # node
        BY <2>1 DEF Older
      <4>2. \A m \in Older(tree, node) : Telling(m)' <=> Telling(m)
        BY <3>1, <4>1 DEF Telling
      <4>3. Told(node)' = {m \in Older(tree', node') : Telling(m)'}
        BY DEF Told
      <4>. QED
        BY <3>1, <3>2, <4>2, <4>3 DEF Told
    <3>4. Names(childContext'[node], Told(node)')
      <4>1. childContext'[node] = SiblingContext(node)
        BY <2>1, <3>1
      <4>2. CASE node = 1
        BY <3>2, <3>3, <4>1, <4>2 DEF SiblingContext, Names, Told
      <4>3. CASE node # 1
        BY <1>2, <3>3, <4>1, <4>3 DEF SiblingContext, ContextsHold
      <4>. QED
        BY <4>2, <4>3
    <3>5. ASSUME NEW a \in {node} \cup Above(tree, node), a # 1
          PROVE  Names(childContext'[tree[a]], Told(a)')
      <4>1. a \in DOMAIN tree /\ a <= node
        BY <2>1, AboveBefore
      <4>2. tree[a] \in DOMAIN tree /\ tree[a] # node
        BY <2>1, <2>2, <3>5, <4>1, PlanFacts DEF Rooted
      <4>3. childContext'[tree[a]] = childContext[tree[a]]
        BY <2>1, <3>1, <4>2
      <4>4. Told(a)' = Told(a)
        BY <2>1, <3>1, <4>1, ToldOfOthers
      <4>. QED
        BY <1>2, <3>5, <4>3, <4>4 DEF ContextsHold
    <3>6. ASSUME NEW a \in {c} \cup Above(tree, c), a # 1
          PROVE  Names(childContext'[tree[a]], Told(a)')
      <4>1. CASE a = c
        BY <3>1, <3>4, <4>1
      <4>2. CASE a # c
        <5>1. a \in {node} \cup Above(tree, node)
          BY <3>2, <4>2
        <5>. QED
          BY <3>5, <3>6, <5>1
      <4>. QED
        BY <4>1, <4>2
    <3>. QED
      BY <3>1, <3>6 DEF ContextsHold
  <2>4. CASE NextChild
    <3> DEFINE c == node'
               p == tree[node]
    <3>1. /\ node # 1 /\ tree' = tree /\ status' = status /\ text' = text
          /\ childContext' = [childContext EXCEPT ![p] = @ \o Contribution(node)]
          /\ RemainingSiblings(node) # {} /\ c = First(RemainingSiblings(node))
      BY <2>4 DEF NextChild, NextNode
    <3>2. /\ c \in DOMAIN tree /\ tree[c] = p /\ c > node
          /\ \A x \in DOMAIN tree : tree[x] = p /\ x > node => c <= x
      BY <2>1, <3>1, FirstIsLeast DEF RemainingSiblings, YoungerSiblings
    <3>3. p \in DOMAIN tree /\ p < node /\ p \in Nat /\ c # 1
      BY <2>1, <2>2, <3>1, <3>2
    <3>4. /\ Above(tree, c) = Above(tree, node) /\ Above(tree, node) = {p} \cup Above(tree, p)
          /\ Older(tree, c) = Older(tree, node) \cup {node}
      <4>1. IsNextSibling(tree, node, c)
        BY <3>2 DEF IsNextSibling
      <4>2. tree \in Plans /\ node \in DOMAIN tree /\ node # 1
        BY <2>1, <3>1
      <4> HIDE DEF c
      <4>. QED
        BY <4>1, <4>2, OlderOfSibling
    <3>6. Told(node)' = Told(node) \cup {m \in {node} : Telling(m)}
      <4>1. \A m : Telling(m)' <=> Telling(m)
        BY <3>1 DEF Telling
      <4>2. Told(node)' = {m \in Older(tree', node') : Telling(m)'}
        BY DEF Told
      <4>. QED
        BY <3>1, <3>4, <4>1, <4>2 DEF Told
    <3>7. Names(childContext[p], Told(node)) /\ childContext[p] \in Seq(Nodes)
      BY <1>2, <2>1, <3>1, <3>3 DEF ContextsHold
    <3>8. childContext'[p] = childContext[p] \o Contribution(node)
      BY <2>1, <3>1, <3>3
    <3>9. Names(childContext'[p], Told(node)')
      <4>1. CASE Telling(node)
        <5>1. Contribution(node) = <<node>> /\ Told(node)' = Told(node) \cup {node}
          BY <3>6, <4>1 DEF Contribution, Telling
        <5>2. node \in Nodes /\ \A m \in Told(node) : m < node
          BY <2>1 DEF Told, Older
        <5>. QED
          BY <3>7, <3>8, <5>1, <5>2, OneMoreName
      <4>2. CASE ~Telling(node)
        <5>1. Contribution(node) = <<>> /\ Told(node)' = Told(node)
          BY <3>6, <4>2 DEF Contribution, Telling
        <5>2. childContext[p] \o <<>> = childContext[p]
          BY <3>7, ConcatEmptySeq
        <5>. QED
          BY <3>7, <3>8, <5>1, <5>2
      <4>. QED
        BY <4>1, <4>2
    <3>10. ASSUME NEW a \in Above(tree, c), a # 1
           PROVE  Names(childContext'[tree[a]], Told(a)')
      <4>1. a \in DOMAIN tree /\ a <= p /\ a \in Above(tree, node)
        BY <2>1, <3>3, <3>4, AboveBefore
      <4>2. tree[a] \in DOMAIN tree /\ tree[a] # p
        BY <2>1, <2>2, <3>3, <3>10, <4>1, PlanFacts DEF Rooted
      <4>3. childContext'[tree[a]] = childContext[tree[a]]
        BY <2>1, <3>1, <4>2
      <4>4. Told(a)' = Told(a)
        BY <3>1 DEF Told, Telling, Older
      <4>. QED
        BY <1>2, <3>10, <4>1, <4>3, <4>4 DEF ContextsHold
    <3>. QED
      BY <3>1, <3>2, <3>9, <3>10 DEF ContextsHold
  <2>5. CASE LeaveBranch
    <3>1. /\ node # 1 /\ UNCHANGED <<tree, childContext>> /\ node' = tree[node]
          /\ \A m \in DOMAIN tree : m # node' => status'[m] = status[m] /\ text'[m] = text[m]
      <4>1. status \in [DOMAIN tree -> Statuses] /\ text \in [DOMAIN tree -> BOOLEAN]
        BY DEF Known, TypeOK
      <4>. QED
        BY <2>5, <4>1 DEF LeaveBranch
    <3>2. Above(tree, node) = {node'} \cup Above(tree, node')
      BY <2>1, <3>1, AboveParent
    <3>3. \A m \in DOMAIN tree : m < node' => m # node'
      BY <2>1, <2>2, <3>1
    <3>. QED
      BY <1>2, <2>1, <3>1, <3>2, <3>3, ContextsKept
  <2>6. CASE UNCHANGED <<tree, childContext, node>>
             /\ \A m \in DOMAIN tree : m # node => status'[m] = status[m] /\ text'[m] = text[m]
    <3>1. \A m \in DOMAIN tree : m < node' => m # node
      BY <2>1, <2>6
    <3>. QED
      BY <1>2, <2>1, <2>6, <3>1, ContextsKept
  <2>7. \/ EnterBranch \/ NextChild \/ LeaveBranch
        \/ UNCHANGED <<tree, childContext, node>>
           /\ \A m \in DOMAIN tree : m # node => status'[m] = status[m] /\ text'[m] = text[m]
    <3>1. status \in [DOMAIN tree -> Statuses] /\ text \in [DOMAIN tree -> BOOLEAN]
      BY DEF Known, TypeOK
    <3>2. CASE StartLeaf
      BY <3>1, <3>2 DEF StartLeaf
    <3>3. ASSUME NEW ok \in BOOLEAN, NEW nonempty \in BOOLEAN, FinishLeaf(ok, nonempty)
          PROVE  UNCHANGED <<tree, childContext, node>>
                 /\ \A m \in DOMAIN tree : m # node => status'[m] = status[m] /\ text'[m] = text[m]
      BY <3>1, <3>3 DEF FinishLeaf
    <3>4. CASE UNCHANGED <<tree, childContext, node, status, text>>
      BY <3>4
    <3>5. \/ EnterBranch \/ NextChild \/ LeaveBranch \/ StartLeaf
          \/ \E ok, nonempty \in BOOLEAN : FinishLeaf(ok, nonempty)
          \/ UNCHANGED <<tree, childContext, node, status, text>>
      BY <1>0, <1>2, Zenon DEF Next, Step, Call, Resume, NothingToResume, Plan, CallFails, Execute,
         SkipNode, WalkEnds, OpenFile, WriteFile, SaveFails, EndCall, RemoveFails, Cancel,
         Crash, vars, memory, observed, Walk
    <3>. QED
      BY <3>2, <3>3, <3>4, <3>5
  <2>. QED
    BY <2>3, <2>4, <2>5, <2>6, <2>7
<1>. QED
  BY <1>1, <1>2

\* The context a leaf is executed with names, in the order of the plan, what there is
\* to tell of the older siblings on its path (executeNode).
THEOREM ContextHolds == Spec => []ContextIsComplete
<1>1. Init => ContextsHold
  BY DEF Init, ContextsHold, Walk
<1>2. Invariant /\ ContextsHold /\ [Next]_vars => ContextsHold'
  BY ContextsStep DEF Invariant, Counted, Ordered
<1>3. Invariant /\ ContextsHold => ContextIsComplete
  <2>1. SUFFICES ASSUME Invariant, ContextsHold, pc = "exec"
                 PROVE  Names(SiblingContext(node), Told(node))
    BY AncestorsAbove, Zenon DEF ContextIsComplete, Names, Told, Telling, Older
  <2>2. pc \in Walk /\ tree \in Plans /\ node \in DOMAIN tree /\ DOMAIN tree \subseteq Nat
    BY <2>1, NodeOfWalk, PlanFacts DEF Invariant, Walk, Rooted
  <2>3. CASE node = 1
    <3>1. Above(tree, node) = {}
      BY <2>2, <2>3, AboveParent
    <3>. QED
      BY <2>3, <3>1 DEF SiblingContext, Names, Told, Older
  <2>4. CASE node # 1
    BY <2>1, <2>2, <2>4 DEF SiblingContext, ContextsHold
  <2>. QED
    BY <2>3, <2>4
<1>. QED
  BY <1>1, <1>2, <1>3, Inductive, PTL DEF Spec

==============================================================================
