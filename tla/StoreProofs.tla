---------------------------- MODULE StoreProofs ----------------------------
(***************************************************************************)
(* Theorems about the two stores a search of the project draws on: the     *)
(* rows of the incremental indexer (Indexer), for every set of files,      *)
(* items and contents, and the vector store with its index (VectorStore),  *)
(* for every set of embeddings, every distance, and any width of the beam  *)
(* and of the lists. The two share no variable and no lemma but those      *)
(* about sequences and sets.                                               *)
(***************************************************************************)
EXTENDS Indexer, VectorStore, FiniteSetTheorems, SequenceTheorems,
        WellFoundedInduction, TLAPS

-----------------------------------------------------------------------------
(***************************************************************************)
(* The loop and the two transactions                                       *)
(***************************************************************************)
\* While there are files to visit, the loop is at one of them.
LEMMA PathIsToVisit ==
  ASSUME todo \subseteq Nat, todo # {}
  PROVE  Path \in todo
<1>1. \E f \in todo : \A g \in todo : ~ (<<g, f>> \in OpToRel(<, Nat))
  BY WFMin, NatLessThanWellFounded, Zenon
<1>2. ASSUME NEW f \in Nat, NEW g \in Nat, g < f
      PROVE  <<g, f>> \in OpToRel(<, Nat)
  BY <1>2, Zenon DEF OpToRel
<1>3. PICK f \in todo : \A g \in todo : ~ (<<g, f>> \in OpToRel(<, Nat))
  BY <1>1
<1>4. \A g \in todo : ~ (g < f)
  BY <1>2, <1>3, Zenon
<1>5. \A g \in todo : f <= g
  BY <1>4
<1> QED
  BY <1>5, Zenon DEF Path

\* DeleteByFile leaves a table of rows, none of them of the file.
LEMMA WithoutFileRows ==
  ASSUME NEW table \in [Items -> Row \cup {NoRow}], NEW f \in Files
  PROVE  /\ WithoutFile(table, f) \in [Items -> Row \cup {NoRow}]
         /\ \A i \in Items : /\ WithoutFile(table, f)[i].file # f
                             /\ WithoutFile(table, f)[i] \in {table[i], NoRow}
                             /\ table[i].file # f => WithoutFile(table, f)[i] = table[i]
  BY IndexerConstants, SMT DEF WithoutFile, NoRow

\* IngestResult writes the items of the content and no others.
LEMMA UpsertedRows ==
  ASSUME NEW table \in [Items -> Row \cup {NoRow}], NEW f \in Files, NEW content \in Content
  PROVE  /\ Upserted(table, f, content) \in [Items -> Row \cup {NoRow}]
         /\ \A i \in content.items :
               /\ i \in Items
               /\ Upserted(table, f, content)[i] = [file |-> f, from |-> content]
         /\ \A i \in Items \ content.items : Upserted(table, f, content)[i] = table[i]
  BY SMT DEF Upserted, Row, Content

\* The rows of a file that is nobody's do not exist.
LEMMA NoFileOfNoRow == NoRow.file \notin Files /\ NoRow \notin Row
  BY IndexerConstants, SMT DEF NoRow, Row

-----------------------------------------------------------------------------
(***************************************************************************)
(* Type correctness                                                        *)
(***************************************************************************)
\* The bounds are numbers.
LEMMA Bounds == /\ MaxCalls \in Nat /\ MaxEdits \in Nat
                /\ MaxFaults \in Nat /\ MaxRestarts \in Nat
  BY IndexerConstants

\* A file that is not there has the content of none of its versions.
LEMMA MissingIsContent == Missing \in Content /\ NoRow.file = 0 /\ NoRow.from = Missing
  BY DEF Missing, Content, NoRow

\* Whatever a file may hold is a content.
LEMMA ContentsAreContent ==
  ASSUME NEW f \in Files, NEW content \in Contents[f] \cup {Missing}
  PROVE  content \in Content
  BY IndexerConstants, MissingIsContent DEF Content

\* The disk, the database's rows and the run's variables keep their types through
\* every edit, run, failure and crash (IndexAll and IndexChanged).
THEOREM TypeCorrect == Spec => []TypeOK
<1> USE Bounds
<1>1. Init => TypeOK
  <2> SUFFICES ASSUME Init PROVE TypeOK
    OBVIOUS
  <2>1. disk \in [Files -> Content]
    BY ContentsAreContent DEF Init
  <2>2. state \in [Files -> Content] /\ rows \in [Items -> Row \cup {NoRow}]
    BY MissingIsContent DEF Init
  <2>3. /\ pc = "idle" /\ full = FALSE /\ todo = {} /\ current = {}
        /\ hash = Missing /\ parsed = Missing
        /\ calls = 0 /\ edits = 0 /\ faults = 0 /\ restarts = 0
        /\ disturbed = FALSE /\ done = {} /\ untracked = {} /\ raced = {}
    BY DEF Init
  <2>4. full \in BOOLEAN /\ disturbed \in BOOLEAN
    BY <2>3, Zenon
  <2>5. /\ calls \in 0 .. MaxCalls /\ edits \in 0 .. MaxEdits
        /\ faults \in 0 .. MaxFaults /\ restarts \in 0 .. MaxRestarts
    <3>1. calls = 0 /\ edits = 0 /\ faults = 0 /\ restarts = 0
      BY <2>3
    <3> QED
      BY <3>1
  <2>6. /\ todo \subseteq Files /\ current \subseteq Files /\ todo \subseteq current
        /\ pc \in {"idle", "walk", "parse", "delete", "ingest"}
        /\ pc \notin {"parse", "delete", "ingest"} /\ todo = {}
        /\ hash \in Content /\ parsed \in Content
        /\ done \subseteq Files /\ untracked \subseteq Files /\ raced \subseteq Files
    <3>1. /\ pc = "idle" /\ todo = {} /\ current = {} /\ hash = Missing
          /\ parsed = Missing /\ done = {} /\ untracked = {} /\ raced = {}
      BY <2>3
    <3> QED
      BY <3>1, MissingIsContent
  <2> QED
    BY <2>1, <2>2, <2>4, <2>5, <2>6 DEF TypeOK
<1>2. TypeOK /\ [Next]_vars => TypeOK'
  <2> SUFFICES ASSUME TypeOK, [Next]_vars PROVE TypeOK'
    OBVIOUS
  <2>0. todo # {} => Path \in todo /\ Path \in Files
    BY PathIsToVisit, IndexerConstants DEF TypeOK
  <2>1. ASSUME NEW all \in BOOLEAN, NEW seen \in SUBSET Existing, StartCall(all, seen)
        PROVE  TypeOK'
    <3>1. seen \subseteq Files
      BY <2>1 DEF Existing
    <3>2. disturbed' \in BOOLEAN /\ full' \in BOOLEAN
      BY <2>1, Zenon DEF StartCall
    <3>3. faults' \in 0 .. MaxFaults /\ calls' \in 0 .. MaxCalls
      <4>1. (faults' = faults \/ (faults < MaxFaults /\ faults' = faults + 1))
            /\ calls < MaxCalls /\ calls' = calls + 1
        BY <2>1 DEF StartCall
      <4> QED
        BY <4>1 DEF TypeOK
    <3>4. /\ pc' = "walk" /\ todo' = seen /\ current' = seen /\ done' = {}
          /\ UNCHANGED <<disk, rows, state, hash, parsed, edits, restarts, untracked, raced>>
      BY <2>1 DEF StartCall
    <3> QED
      BY <3>1, <3>2, <3>3, <3>4 DEF TypeOK
  <2>2. CASE SkipFile
    BY <2>2 DEF TypeOK, SkipFile, NextFile, budgets, observed
  <2>3. CASE HashFile
    BY <2>0, <2>3 DEF TypeOK, HashFile, budgets, observed
  <2>4. CASE IndexFile
    BY <2>4 DEF TypeOK, IndexFile, budgets, observed
  <2>5. CASE ParseFile
    BY <2>0, <2>5 DEF TypeOK, ParseFile, NextFile, budgets, observed
  <2>6. CASE DeleteOld
    <3>1. rows' \in [Items -> Row \cup {NoRow}]
      BY <2>0, <2>6, WithoutFileRows DEF TypeOK, DeleteOld
    <3> QED
      BY <2>6, <3>1 DEF TypeOK, DeleteOld, budgets, observed
  <2>7. CASE IngestNew
    <3>1. rows' \in [Items -> Row \cup {NoRow}]
      BY <2>0, <2>7, UpsertedRows DEF TypeOK, IngestNew
    <3>2. state' \in [Files -> Content]
      BY <2>7 DEF TypeOK, IngestNew
    <3>3. done' \subseteq Files /\ raced' \subseteq Files /\ untracked' \subseteq Files
      BY <2>0, <2>7 DEF TypeOK, IngestNew
    <3> QED
      BY <2>7, <3>1, <3>2, <3>3 DEF TypeOK, IngestNew, NextFile, budgets
  <2>8. CASE FileFails
    BY <2>0, <2>8 DEF TypeOK, FileFails, NextFile
  <2>9. ASSUME NEW f \in Files, RemoveGone(f) PROVE TypeOK'
    <3>1. rows' \in [Items -> Row \cup {NoRow}]
      <4>1. WithoutFile(rows, f) \in [Items -> Row \cup {NoRow}]
        BY WithoutFileRows DEF TypeOK
      <4> QED
        BY <2>9, <4>1 DEF TypeOK, RemoveGone, RemainingRows
    <3>2. state' \in [Files -> Content]
      BY <2>9, MissingIsContent DEF TypeOK, RemoveGone
    <3>3. disturbed' \in BOOLEAN
      BY <2>9, Zenon DEF TypeOK, RemoveGone
    <3>4. faults' \in 0 .. MaxFaults
      <4>1. faults' = faults \/ (faults < MaxFaults /\ faults' = faults + 1)
        BY <2>9 DEF RemoveGone
      <4> QED
        BY <4>1 DEF TypeOK
    <3>5. untracked' \subseteq Files /\ raced' \subseteq Files
      BY <2>9 DEF TypeOK, RemoveGone
    <3>6. UNCHANGED <<disk, pc, full, todo, current, hash, parsed, calls, edits, restarts, done>>
      BY <2>9 DEF RemoveGone, call
    <3> QED
      BY <3>1, <3>2, <3>3, <3>4, <3>5, <3>6 DEF TypeOK
  <2>10. CASE EndCall
    BY <2>10 DEF TypeOK, EndCall, budgets, observed
  <2>11. ASSUME NEW f \in Files, NEW content \in Contents[f] \cup {Missing},
                Edit(f, content)
         PROVE  TypeOK'
    <3>1. disk' \in [Files -> Content]
      BY <2>11, ContentsAreContent DEF TypeOK, Edit
    <3> QED
      BY <2>11, <3>1 DEF TypeOK, Edit, call
  <2>12. CASE Restart
    <3>1. state' \in [Files -> Content]
      BY <2>12, MissingIsContent DEF Restart
    <3>2. untracked' \subseteq Files
      BY <2>12, MissingIsContent DEF TypeOK, Restart, Row
    <3> QED
      BY <2>12, <3>1, <3>2 DEF TypeOK, Restart
  <2>13. CASE UNCHANGED vars
    BY <2>13 DEF TypeOK, vars, call, budgets, observed
  <2> QED
    BY <2>1, <2>2, <2>3, <2>4, <2>5, <2>6, <2>7, <2>8, <2>9, <2>10, <2>11, <2>12, <2>13
       DEF Next
<1> QED
  BY <1>1, <1>2, PTL DEF Spec

-----------------------------------------------------------------------------
(***************************************************************************)
(* The graph is tracked                                                    *)
(***************************************************************************)
\* Whatever the graph holds of a file, IndexChanged has a hash for the file and will
\* notice that it is gone, but for the files GraphIsTracked names.
THEOREM Tracked == Spec => []GraphIsTracked
<1>1. Init => GraphIsTracked
  BY DEF Init, GraphIsTracked
<1>2. TypeOK /\ GraphIsTracked /\ [Next]_vars => GraphIsTracked'
  <2> SUFFICES ASSUME TypeOK, GraphIsTracked, [Next]_vars,
                      NEW i \in Items, rows'[i] # NoRow
               PROVE  state'[rows'[i].file] # Missing \/ rows'[i].file \in untracked'
    BY DEF GraphIsTracked
  <2>0. todo # {} => Path \in Files
    BY PathIsToVisit, IndexerConstants DEF TypeOK
  <2>a. rows[i] # NoRow => state[rows[i].file] # Missing \/ rows[i].file \in untracked
    BY DEF GraphIsTracked
  <2>b. rows \in [Items -> Row \cup {NoRow}] /\ state \in [Files -> Content]
    BY DEF TypeOK
  <2>c. rows[i] # NoRow => rows[i].file \in Files
    BY <2>b DEF Row
  <2>1. CASE UNCHANGED <<rows, state, untracked>>
    BY <2>1, <2>a
  <2>2. CASE DeleteOld
    <3>1. rows'[i] = rows[i] /\ UNCHANGED <<state, untracked>>
      BY <2>0, <2>2, <2>b, WithoutFileRows DEF TypeOK, DeleteOld, observed
    <3> QED
      BY <3>1, <2>a
  <2>3. CASE IngestNew
    <3>0. Path \in Files /\ parsed \in Content
      BY <2>0, <2>3 DEF TypeOK, IngestNew
    <3>u. rows' = Upserted(rows, Path, parsed)
      BY <2>3 DEF IngestNew
    <3>v. /\ \A j \in parsed.items : rows'[j] = [file |-> Path, from |-> parsed]
          /\ \A j \in Items \ parsed.items : rows'[j] = rows[j]
      BY <2>b, <3>0, <3>u, UpsertedRows
    <3>1. CASE i \in parsed.items
      <4>1. rows'[i].file = Path
        BY <3>v, <3>1
      <4> QED
        BY <2>3, <4>1 DEF IngestNew
    <3>2. CASE i \notin parsed.items
      <4>1. rows'[i] = rows[i]
        BY <3>v, <3>2
      <4>2. CASE rows[i].file = Path
        BY <2>3, <4>1, <4>2 DEF IngestNew
      <4>3. CASE rows[i].file # Path
        BY <2>3, <2>a, <2>b, <2>c, <4>1, <4>3 DEF IngestNew
      <4> QED
        BY <4>2, <4>3
    <3> QED
      BY <3>1, <3>2
  <2>4. ASSUME NEW f \in Files, RemoveGone(f)
        PROVE  state'[rows'[i].file] # Missing \/ rows'[i].file \in untracked'
    <3>1. state' = [state EXCEPT ![f] = Missing]
      BY <2>4 DEF RemoveGone
    <3>2. CASE rows' = WithoutFile(rows, f) /\ untracked' = untracked \ {f}
      <4>1. rows'[i] = rows[i] /\ rows[i].file # f
        BY <2>b, <3>2, WithoutFileRows
      <4> QED
        BY <2>a, <2>b, <2>c, <3>1, <3>2, <4>1
    <3>3. CASE rows' = rows /\ untracked' = untracked \cup {f}
      BY <2>a, <2>b, <2>c, <3>1, <3>3
    <3> QED
      BY <2>4, <3>2, <3>3 DEF RemoveGone, RemainingRows
  <2>5. CASE Restart
    <3>1. rows' = rows /\ untracked' = {rows[j].file : j \in Items} \ {0}
      BY <2>5 DEF Restart
    <3> QED
      BY <2>c, <3>1, IndexerConstants
  <2> QED
    BY <2>1, <2>2, <2>3, <2>4, <2>5
       DEF Next, StartCall, SkipFile, HashFile, IndexFile, ParseFile, FileFails,
           EndCall, Edit, vars, budgets, observed
<1> QED
  BY <1>1, <1>2, TypeCorrect, PTL DEF Spec

-----------------------------------------------------------------------------
(***************************************************************************)
(* Where a file's rows stand between its two transactions                  *)
(***************************************************************************)
\* Files and what is parsed of them have the contents they may have.
ContentIsKnown ==
  /\ \A f \in Files : disk[f] \in Contents[f] \cup {Missing}
  /\ pc \in {"delete", "ingest"} => parsed \in Contents[Path]

\* The second transaction begins with nothing left of the file.
PathIsDeleted ==
  pc = "ingest" => \A i \in Items : rows[i].file # Path

TransactionInv == ContentIsKnown /\ PathIsDeleted

\* What is parsed is a content of its file, and the rows of a path are gone between
\* its deletion and its insertion (DeleteByFile and IngestResult in graphdb.go).
LEMMA TransactionsHold == Spec => []TransactionInv
<1>1. Init => TransactionInv
  BY DEF Init, TransactionInv, ContentIsKnown, PathIsDeleted
<1>2. TypeOK /\ TransactionInv /\ [Next]_vars => TransactionInv'
  <2> SUFFICES ASSUME TypeOK, ContentIsKnown, PathIsDeleted, [Next]_vars
               PROVE  ContentIsKnown' /\ PathIsDeleted'
    BY DEF TransactionInv
  <2>0. todo # {} => Path \in Files
    BY PathIsToVisit, IndexerConstants DEF TypeOK
  <2>1. CASE UNCHANGED <<disk, rows, pc, todo, parsed>>
    <3>1. Path' = Path
      BY <2>1 DEF Path
    <3> QED
      BY <2>1, <3>1 DEF ContentIsKnown, PathIsDeleted
  <2>2. CASE pc' \notin {"delete", "ingest"} /\ disk' = disk
    BY <2>2 DEF ContentIsKnown, PathIsDeleted
  <2>3. CASE ParseFile
    <3>1. disk[Path] \in Contents[Path] \cup {Missing}
      BY <2>0, <2>3 DEF TypeOK, ContentIsKnown, ParseFile
    <3>2. CASE disk[Path].kind = "source"
      <4>1. disk[Path] # Missing
        BY <3>2 DEF Missing
      <4>2. Path' = Path /\ parsed' = disk[Path] /\ pc' = "delete" /\ disk' = disk
        BY <2>3, <3>2 DEF ParseFile, Path
      <4> QED
        BY <3>1, <4>1, <4>2 DEF ContentIsKnown, PathIsDeleted
    <3>3. CASE disk[Path].kind # "source"
      BY <2>2, <2>3, <3>3 DEF ParseFile, NextFile
    <3> QED
      BY <3>2, <3>3
  <2>4. CASE DeleteOld
    <3>1. Path' = Path /\ Path \in Files
      BY <2>0, <2>4 DEF TypeOK, DeleteOld, Path
    <3>2. \A i \in Items : rows'[i].file # Path
      BY <2>4, <3>1, WithoutFileRows DEF TypeOK, DeleteOld
    <3> QED
      BY <2>4, <3>1, <3>2 DEF ContentIsKnown, PathIsDeleted, DeleteOld
  <2>5. ASSUME NEW f \in Files, NEW content \in Contents[f] \cup {Missing},
               Edit(f, content)
        PROVE  ContentIsKnown' /\ PathIsDeleted'
    <3>1. Path' = Path /\ UNCHANGED <<rows, pc, todo, parsed>>
      BY <2>5 DEF Edit, call, Path
    <3>2. \A g \in Files : disk'[g] \in Contents[g] \cup {Missing}
      BY <2>5 DEF TypeOK, ContentIsKnown, Edit
    <3> QED
      BY <3>1, <3>2 DEF ContentIsKnown, PathIsDeleted
  <2>6. CASE EndCall \/ (\E f \in Files : RemoveGone(f)) \/ Restart \/ IngestNew \/ FileFails
    BY <2>2, <2>6 DEF EndCall, RemoveGone, Restart, IngestNew, FileFails, NextFile, call
  <2>7. CASE \/ SkipFile \/ HashFile \/ IndexFile
             \/ \E all \in BOOLEAN, seen \in SUBSET Existing : StartCall(all, seen)
    BY <2>2, <2>7 DEF SkipFile, HashFile, IndexFile, StartCall, NextFile
  <2> QED
    BY <2>1, <2>3, <2>4, <2>5, <2>6, <2>7 DEF Next, vars, call
<1> QED
  BY <1>1, <1>2, TypeCorrect, PTL DEF Spec

-----------------------------------------------------------------------------
(***************************************************************************)
(* Recorded hashes                                                         *)
(***************************************************************************)
\* What HashDescribesGraph says of one file.
Described(f) ==
  /\ \A i \in Items : rows[i].file = f => rows[i].from = state[f]
  /\ \A i \in Own(f) \cap state[f].items : rows[i].file = f

\* The file is one HashDescribesGraph speaks of.
Covered(f) == f \notin raced /\ state[f] # Missing /\ ~(pc = "ingest" /\ f = Path)

\* The invariant on hashes, file by file.
LEMMA HashByFile ==
  HashDescribesGraph <=> \A f \in Files : Covered(f) => Described(f)
  BY DEF HashDescribesGraph, Covered, Described

\* Items of a content another file may have are not the file's own.
LEMMA OwnItems ==
  ASSUME NEW f \in Files, NEW g \in Files, f # g, NEW content \in Contents[g], NEW i \in Own(f)
  PROVE  i \in Items /\ i \notin content.items
  BY DEF Own

\* A file's stored hash describes the rows of the graph that come from the file, but
\* for files that raced with a run (IndexChanged and indexFile).
THEOREM HashDescribes == Spec => []HashDescribesGraph
<1>1. Init => HashDescribesGraph
  BY DEF Init, HashDescribesGraph
<1>2. TypeOK /\ TransactionInv /\ HashDescribesGraph /\ [Next]_vars => HashDescribesGraph'
  <2> SUFFICES ASSUME TypeOK, TransactionInv, HashDescribesGraph, [Next]_vars,
                      NEW f \in Files, Covered(f)'
               PROVE  Described(f)'
    BY DEF HashDescribesGraph, Covered, Described
  <2>0. todo # {} => Path \in Files
    BY PathIsToVisit, IndexerConstants DEF TypeOK
  <2>a. Covered(f) => Described(f)
    BY HashByFile
  <2>b. rows \in [Items -> Row \cup {NoRow}] /\ state \in [Files -> Content]
    BY DEF TypeOK
  <2>c. Own(f) \subseteq Items
    BY DEF Own
  <2>d. ASSUME rows' = rows, state'[f] = state[f], Covered(f) PROVE Described(f)'
    BY <2>a, <2>d DEF Described, Own
  <2>1. CASE UNCHANGED <<rows, state, raced>> /\ pc # "ingest"
    BY <2>1, <2>d DEF Covered
  <2>2. CASE UNCHANGED <<rows, state, raced, pc, todo>>
    <3>1. Path' = Path
      BY <2>2 DEF Path
    <3> QED
      BY <2>2, <2>d, <3>1 DEF Covered
  <2>3. CASE DeleteOld
    <3>1. Path' = Path /\ pc' = "ingest" /\ pc = "delete" /\ Path \in Files
          /\ UNCHANGED <<state, raced>> /\ rows' = WithoutFile(rows, Path)
      BY <2>0, <2>3 DEF TypeOK, DeleteOld, observed, Path
    <3>2. f # Path /\ Covered(f)
      BY <3>1 DEF Covered
    <3>3. \A i \in Items : /\ rows[i].file # Path => rows'[i] = rows[i]
                           /\ rows'[i].file # f \/ rows'[i] = rows[i]
      BY <2>b, <3>1, WithoutFileRows, NoFileOfNoRow
    <3> QED
      BY <2>a, <2>c, <3>1, <3>2, <3>3 DEF Described, Own
  <2>4. CASE IngestNew
    <3>0. /\ Path \in Files /\ parsed \in Content /\ parsed \in Contents[Path]
          /\ \A i \in Items : rows[i].file # Path
      BY <2>0, <2>4 DEF TypeOK, TransactionInv, ContentIsKnown, PathIsDeleted, IngestNew
    <3>u. rows' = Upserted(rows, Path, parsed)
      BY <2>4 DEF IngestNew
    <3>v. /\ \A i \in parsed.items : rows'[i] = [file |-> Path, from |-> parsed]
          /\ \A i \in Items \ parsed.items : rows'[i] = rows[i]
      BY <2>b, <3>0, <3>u, UpsertedRows
    <3>1. CASE f = Path
      <4>1. state'[f] = parsed
        BY <2>4, <3>1 DEF Covered, IngestNew
      <4> QED
        BY <2>c, <3>0, <3>v, <3>1, <4>1 DEF Described, Own
    <3>2. CASE f # Path
      <4>1. state'[f] = state[f] /\ Covered(f)
        BY <2>4, <2>b, <3>2 DEF Covered, IngestNew
      <4>2. \A i \in Items : rows'[i].file = f => rows'[i] = rows[i]
        BY <3>v, <3>2
      <4>3. \A i \in Own(f) : rows'[i] = rows[i]
        BY <3>0, <3>v, <3>2, OwnItems
      <4> QED
        BY <2>a, <2>c, <4>1, <4>2, <4>3 DEF Described, Own
    <3> QED
      BY <3>1, <3>2
  <2>5. CASE FileFails
    <3>1. Covered(f) /\ UNCHANGED <<rows, state>>
      BY <2>5 DEF Covered, FileFails
    <3> QED
      BY <2>d, <3>1
  <2>6. ASSUME NEW g \in Files, RemoveGone(g) PROVE Described(f)'
    <3>1. /\ state' = [state EXCEPT ![g] = Missing] /\ raced' = raced \ {g}
          /\ rows' = WithoutFile(rows, g) \/ rows' = rows
          /\ pc = "walk"
      BY <2>6 DEF RemoveGone, RemainingRows
    <3>2. f # g /\ state'[f] = state[f] /\ Covered(f)
      BY <2>b, <3>1 DEF Covered
    <3>3. \A i \in Items : /\ rows[i].file = f => rows'[i] = rows[i]
                           /\ rows'[i].file # f \/ rows'[i] = rows[i]
      BY <2>b, <3>1, <3>2, WithoutFileRows, NoFileOfNoRow
    <3> QED
      BY <2>a, <2>c, <3>2, <3>3 DEF Described, Own
  <2>7. CASE Restart
    BY <2>7 DEF Covered, Restart
  <2> QED
    BY <2>1, <2>2, <2>3, <2>4, <2>5, <2>6, <2>7
       DEF Next, StartCall, SkipFile, HashFile, IndexFile, ParseFile, EndCall, Edit,
           vars, call, observed
<1> QED
  BY <1>1, <1>2, TypeCorrect, TransactionsHold, PTL DEF Spec

-----------------------------------------------------------------------------
(***************************************************************************)
(* What a quiet call has indexed                                           *)
(***************************************************************************)
\* All items of the file are there, of the contents now on disk.
Shown(f) ==
  /\ \A i \in disk[f].items : /\ rows[i].file \in done
                              /\ rows[i].from = disk[rows[i].file]
  /\ \A i \in Items : rows[i].file = f => rows[i].from = disk[f]

\* As long as nothing changes or fails, that is so of the files indexed so far, and
\* what was parsed is on disk.
IndexedSoFar ==
  ~disturbed =>
    /\ done \subseteq current \ todo
    /\ pc \in {"delete", "ingest"} => parsed = disk[Path]
    /\ \A f \in done : Shown(f)

\* After a run that nothing disturbed the graph holds exactly what the files on disk
\* declare (IndexAll and IndexChanged).
THEOREM IndexedExactly == Spec => []IndexedIsExact
<1>1. Init => IndexedSoFar
  BY DEF Init, IndexedSoFar
<1>2. TypeOK /\ TransactionInv /\ IndexedSoFar /\ [Next]_vars => IndexedSoFar'
  <2> SUFFICES ASSUME TypeOK, TransactionInv, IndexedSoFar, [Next]_vars, ~disturbed'
               PROVE  /\ done' \subseteq current' \ todo'
                      /\ pc' \in {"delete", "ingest"} => parsed' = disk'[Path']
                      /\ \A f \in done' : Shown(f)'
    BY DEF IndexedSoFar
  <2>0. todo # {} => Path \in Files /\ Path \in todo
    BY PathIsToVisit, IndexerConstants DEF TypeOK
  <2>b. /\ rows \in [Items -> Row \cup {NoRow}] /\ disk \in [Files -> Content]
        /\ done \subseteq Files /\ todo \subseteq current
    BY DEF TypeOK
  <2>c. \A f \in Files : disk[f].items \subseteq Items
    BY <2>b DEF Content
  <2>a. ~disturbed => /\ done \subseteq current \ todo
                      /\ pc \in {"delete", "ingest"} => parsed = disk[Path]
                      /\ \A f \in done : Shown(f)
    BY DEF IndexedSoFar
  <2>d. ASSUME UNCHANGED <<rows, disk, done>>, ~disturbed PROVE \A f \in done' : Shown(f)'
    BY <2>a, <2>d DEF Shown
  <2>1. CASE UNCHANGED <<disk, rows, pc, todo, current, parsed, disturbed, done>>
    <3>1. Path' = Path
      BY <2>1 DEF Path
    <3> QED
      BY <2>1, <2>a, <2>d, <3>1
  <2>2. ASSUME NEW all \in BOOLEAN, NEW seen \in SUBSET Existing, StartCall(all, seen)
        PROVE  /\ done' \subseteq current' \ todo'
               /\ pc' \in {"delete", "ingest"} => parsed' = disk'[Path']
               /\ \A f \in done' : Shown(f)'
    BY <2>2 DEF StartCall
  <2>3. CASE /\ UNCHANGED <<disk, rows, current, disturbed, done>> /\ todo' \subseteq todo
             /\ pc' \notin {"delete", "ingest"}
    BY <2>3, <2>a, <2>d
  <2>4. CASE ParseFile
    <3>1. UNCHANGED <<disk, rows, current, disturbed, done>> /\ todo' \subseteq todo
      BY <2>4 DEF ParseFile, NextFile, observed
    <3>2. CASE disk[Path].kind = "source"
      <4>1. Path' = Path /\ parsed' = disk[Path]
        BY <2>4, <3>2 DEF ParseFile, Path
      <4> QED
        BY <2>a, <2>d, <3>1, <4>1
    <3>3. CASE disk[Path].kind # "source"
      <4>1. pc' = "walk"
        BY <2>4, <3>3 DEF ParseFile, NextFile
      <4> QED
        BY <2>3, <3>1, <4>1
    <3> QED
      BY <3>2, <3>3
  <2>5. CASE DeleteOld
    <3>1. /\ Path' = Path /\ pc = "delete" /\ Path \in Files /\ Path \in todo
          /\ UNCHANGED <<disk, todo, current, parsed, disturbed, done>>
          /\ rows' = WithoutFile(rows, Path)
      BY <2>0, <2>5 DEF TypeOK, DeleteOld, observed, Path
    <3>2. \A i \in Items : /\ rows[i].file # Path => rows'[i] = rows[i]
                           /\ rows'[i].file \notin Files \/ rows'[i] = rows[i]
      BY <2>b, <3>1, WithoutFileRows, NoFileOfNoRow
    <3>3. ASSUME NEW f \in done PROVE Shown(f)'
      <4>1. f \in Files /\ Shown(f) /\ Path \notin done
        BY <2>a, <2>b, <3>1, <3>3
      <4>2. ASSUME NEW i \in disk[f].items
            PROVE  rows'[i].file \in done /\ rows'[i].from = disk[rows'[i].file]
        <5>1. i \in Items /\ rows[i].file \in done /\ rows[i].from = disk[rows[i].file]
          BY <2>c, <4>1, <4>2 DEF Shown
        <5> QED
          BY <3>2, <4>1, <5>1
      <4>3. \A i \in Items : rows'[i].file = f => rows'[i].from = disk[f]
        BY <3>2, <4>1 DEF Shown
      <4> QED
        BY <3>1, <4>2, <4>3 DEF Shown
    <3> QED
      BY <2>a, <3>1, <3>3
  <2>6. CASE IngestNew
    <3>1. /\ pc = "ingest" /\ Path \in Files /\ Path \in todo /\ Path \in current
          /\ parsed \in Content /\ parsed = disk[Path] /\ ~disturbed
          /\ \A i \in Items : rows[i].file # Path
      BY <2>0, <2>6, <2>a DEF TypeOK, TransactionInv, PathIsDeleted, IngestNew
    <3>2. /\ UNCHANGED <<disk, current, parsed, disturbed>> /\ done' = done \cup {Path}
          /\ rows' = Upserted(rows, Path, parsed)
          /\ todo' = todo \ {Path} /\ pc' = "walk"
      BY <2>6 DEF IngestNew, NextFile
    <3>3. /\ \A i \in parsed.items : rows'[i] = [file |-> Path, from |-> parsed]
          /\ \A i \in Items \ parsed.items : rows'[i] = rows[i]
      BY <2>b, <3>1, <3>2, UpsertedRows
    <3>4. \A i \in parsed.items : rows'[i].file = Path /\ rows'[i].from = disk[Path]
      BY <3>1, <3>3
    <3>0. PICK path : path = Path
      OBVIOUS
    <3>5. Shown(path)'
      <4>1. \A i \in disk[path].items : rows'[i].file \in done' /\ rows'[i].from = disk'[rows'[i].file]
        BY <3>0, <3>1, <3>2, <3>4
      <4>2. \A i \in Items : rows'[i].file = path => rows'[i].from = disk'[path]
        BY <3>0, <3>1, <3>2, <3>3, <3>4
      <4> QED
        BY <3>2, <4>1, <4>2 DEF Shown
    <3>6. ASSUME NEW f \in done PROVE Shown(f)'
      <4>1. f \in Files /\ Shown(f) /\ f # Path
        BY <2>a, <2>b, <3>1, <3>6
      <4>2. ASSUME NEW i \in disk[f].items
            PROVE  rows'[i].file \in done' /\ rows'[i].from = disk[rows'[i].file]
        <5>1. i \in Items /\ rows[i].file \in done /\ rows[i].from = disk[rows[i].file]
          BY <2>c, <4>1, <4>2 DEF Shown
        <5> QED
          BY <3>2, <3>3, <3>4, <5>1
      <4>3. \A i \in Items : rows'[i].file = f => rows'[i].from = disk[f]
        BY <3>3, <3>4, <4>1 DEF Shown
      <4> QED
        BY <3>2, <4>2, <4>3 DEF Shown
    <3> QED
      BY <2>a, <3>0, <3>1, <3>2, <3>5, <3>6
  <2>7. ASSUME NEW g \in Files, RemoveGone(g)
        PROVE  /\ done' \subseteq current' \ todo'
               /\ pc' \in {"delete", "ingest"} => parsed' = disk'[Path']
               /\ \A f \in done' : Shown(f)'
    <3>1. /\ g \notin current /\ rows' = WithoutFile(rows, g) /\ pc' = "walk"
          /\ UNCHANGED <<disk, todo, current, parsed, disturbed, done>> /\ ~disturbed
      BY <2>7 DEF RemoveGone, RemainingRows, Gone, call
    <3>2. \A i \in Items : /\ rows[i].file # g => rows'[i] = rows[i]
                           /\ rows'[i].file \notin Files \/ rows'[i] = rows[i]
      BY <2>b, <3>1, WithoutFileRows, NoFileOfNoRow
    <3>3. ASSUME NEW f \in done PROVE Shown(f)'
      <4>1. f \in Files /\ Shown(f) /\ g \notin done
        BY <2>a, <2>b, <3>1, <3>3
      <4>2. ASSUME NEW i \in disk[f].items
            PROVE  rows'[i].file \in done /\ rows'[i].from = disk[rows'[i].file]
        <5>1. i \in Items /\ rows[i].file \in done /\ rows[i].from = disk[rows[i].file]
          BY <2>c, <4>1, <4>2 DEF Shown
        <5> QED
          BY <3>2, <4>1, <5>1
      <4>3. \A i \in Items : rows'[i].file = f => rows'[i].from = disk[f]
        BY <3>2, <4>1 DEF Shown
      <4> QED
        BY <3>1, <4>2, <4>3 DEF Shown
    <3> QED
      BY <2>a, <3>1, <3>3
  <2>8. CASE FileFails \/ Restart
    BY <2>8 DEF FileFails, Restart
  <2>9. ASSUME NEW f \in Files, NEW content \in Contents[f] \cup {Missing}, Edit(f, content)
        PROVE  FALSE
    BY <2>9 DEF Edit
  <2>10. CASE SkipFile \/ HashFile \/ IndexFile \/ EndCall
    BY <2>3, <2>10 DEF SkipFile, HashFile, IndexFile, EndCall, NextFile, observed
  <2> QED
    BY <2>1, <2>2, <2>4, <2>5, <2>6, <2>7, <2>8, <2>9, <2>10 DEF Next, vars, call, observed
<1>3. IndexedSoFar => IndexedIsExact
  BY DEF IndexedSoFar, IndexedIsExact, Shown
<1> QED
  BY <1>1, <1>2, <1>3, TypeCorrect, TransactionsHold, PTL DEF Spec

-----------------------------------------------------------------------------
(***************************************************************************)
(* The vector store: rankings and sets of nodes                            *)
(***************************************************************************)
\* The first places of a finite ranking are a sequence without repetitions, sorted, and
\* not longer than asked for.
LEMMA NearestFirstIs ==
  ASSUME NEW far, IsFiniteSet(DOMAIN far), NEW k \in Nat, NEW s \in NearestFirst(far, k)
  PROVE  /\ s \in Seq(DOMAIN far) /\ Len(s) <= k /\ IsInjective(s)
         /\ \A i, j \in DOMAIN s : i < j => far[s[i]] <= far[s[j]]
<1> DEFINE all == Cardinality(DOMAIN far)
           size == IF all > k THEN k ELSE all
<1>1. all \in Nat
  BY FS_CardinalityType
<1>2. size \in Nat /\ size <= k
  BY <1>1
<1>3. /\ s \in [1 .. size -> DOMAIN far] /\ IsInjective(s)
      /\ \A i, j \in 1 .. size : i < j => far[s[i]] <= far[s[j]]
  BY Zenon DEF NearestFirst
<1> HIDE DEF size
<1>4. s \in Seq(DOMAIN far) /\ Len(s) = size /\ DOMAIN s = 1 .. size
  BY <1>2, <1>3
<1> QED
  BY <1>2, <1>3, <1>4

\* A set of nodes is finite.
LEMMA NodesAreFinite ==
  ASSUME nodes \in Seq([id : Nat, vec : Vectors]), NEW S, S \subseteq DOMAIN nodes
  PROVE  IsFiniteSet(S)
<1>1. DOMAIN nodes = 1 .. Len(nodes) /\ Len(nodes) \in Nat
  OBVIOUS
<1>2. IsFiniteSet(DOMAIN nodes)
  BY <1>1, FS_Interval
<1> QED
  BY <1>2, FS_Subset

-----------------------------------------------------------------------------
(***************************************************************************)
(* The index during a call                                                 *)
(***************************************************************************)
\* The nodes of finished insertions, and those of them that reach the layer the call
\* is on.
Settled == DOMAIN nodes \ {arriving}
Reaching == {n \in Settled : layer \in DOMAIN links[n]}

\* What the locals of a call hold in each of its phases: only nodes that reach the
\* layer, and none that another phase has left behind.
CallIsKnown ==
  /\ phase = "idle" => layer = 0 /\ ep = 0
  /\ phase \in {"idle", "found"} => arriving = 0
  /\ phase \in {"idle", "descend", "explored"} => pending = <<>>
  /\ phase \notin {"idle", "found"} => ep \in Reaching
  /\ phase \in {"explore", "explored", "connect"} => layer <= target
  /\ phase \notin {"explore", "explored"} => results = {}
  /\ phase # "explore" => visited = {} /\ candidates = {}
  /\ visited \cup candidates \cup results \subseteq Reaching
  /\ phase \in {"explore", "connect"} => Range(pending) \subseteq Reaching

\* A node that is being inserted reaches its level, and no list of a layer that is
\* still to be linked holds it: on the layer that is being linked it may be in those of
\* the neighbours that have been told.
ArrivalIsKnown ==
  /\ phase = "connect" => IsInjective(pending) /\ arriving # 0
  /\ arriving # 0 =>
       /\ entryPoint # arriving /\ DOMAIN links[arriving] = 0 .. target
       /\ \A n \in Settled : \A l \in DOMAIN links[n] :
            l < layer \/ (l = layer /\ (phase = "connect" => n \in Range(pending)))
              => arriving \notin Range(links[n][l])

\* The invariant of the index.
CallInv == HnswTypeOK /\ CallIsKnown /\ ArrivalIsKnown

\* The parameters of the index are numbers.
LEMMA MaxConnIs == \A l \in Nat : MaxConn(l) \in Nat
  BY HnswConstants DEF MaxConn

\* A list of a node on a layer it reaches.
LEMMA ListAt ==
  ASSUME WellFormed, NEW n \in DOMAIN nodes, NEW l \in DOMAIN links[n]
  PROVE  /\ l \in Nat /\ 0 .. l \subseteq DOMAIN links[n]
         /\ links[n][l] \in Seq(DOMAIN nodes) /\ Len(links[n][l]) <= MaxConn(l)
         /\ IsInjective(links[n][l])
         /\ \A m \in Range(links[n][l]) : m \in DOMAIN nodes /\ m # n /\ l \in DOMAIN links[m]
<1>1. l \in Nat /\ 0 .. l \subseteq DOMAIN links[n] /\ ListIsWell(n, l)
  BY Zenon DEF WellFormed
<1>2. /\ links[n][l] \in Seq(DOMAIN nodes) /\ Len(links[n][l]) <= MaxConn(l)
      /\ IsInjective(links[n][l])
      /\ \A m \in Range(links[n][l]) : m # n /\ l \in DOMAIN links[m]
  BY <1>1, Zenon DEF ListIsWell
<1>3. \A m \in Range(links[n][l]) : m \in DOMAIN nodes
  BY <1>2 DEF Range
<1> QED
  BY <1>1, <1>2, <1>3, Zenon

\* The neighbours of a node that reaches the layer reach it, and the arriving node is
\* none of them before it is linked.
LEMMA NeighborsReach ==
  ASSUME HnswTypeOK, ArrivalIsKnown, NEW n \in Reaching, phase # "connect"
  PROVE  /\ NeighborsAt(n, layer) \in Seq(DOMAIN nodes)
         /\ Range(NeighborsAt(n, layer)) \subseteq Reaching
<1>1. n \in DOMAIN nodes /\ n # arriving /\ layer \in DOMAIN links[n]
  BY Zenon DEF Reaching, Settled
<1>2. NeighborsAt(n, layer) = links[n][layer]
  BY <1>1, Zenon DEF NeighborsAt
<1>3. WellFormed /\ (arriving = 0 => arriving \notin DOMAIN nodes)
  BY DEF HnswTypeOK
<1>4. /\ links[n][layer] \in Seq(DOMAIN nodes)
      /\ \A m \in Range(links[n][layer]) : m \in DOMAIN nodes /\ layer \in DOMAIN links[m]
  BY <1>1, <1>3, ListAt, Zenon
<1>5. arriving = 0 \/ arriving \notin Range(links[n][layer])
  BY <1>1, Zenon DEF ArrivalIsKnown, Settled
<1>6. arriving \notin Range(links[n][layer])
  BY <1>3, <1>4, <1>5, Zenon
<1> QED
  BY <1>2, <1>4, <1>6, Zenon DEF Reaching, Settled

\* While the index stays and the layer too, the same nodes reach it.
LEMMA SameIndex ==
  ASSUME WellFormed, UNCHANGED <<index, arriving>>
  PROVE  /\ WellFormed' /\ Settled' = Settled
         /\ layer' = layer => Reaching' = Reaching
<1>1. /\ nodes' = nodes /\ links' = links /\ entryPoint' = entryPoint
      /\ maxLevel' = maxLevel /\ arriving' = arriving
  BY Zenon DEF index
<1>2. WellFormed'
  <2>1. \A n \in DOMAIN nodes : \A l \in DOMAIN links[n] : ListIsWell(n, l)'
    <3>1. ASSUME NEW n \in DOMAIN nodes, NEW l \in DOMAIN links[n] PROVE ListIsWell(n, l)'
      <4>1. ListIsWell(n, l)
        BY Zenon DEF WellFormed
      <4> QED
        BY <1>1, <4>1, Zenon DEF ListIsWell
    <3> QED
      BY <3>1, Zenon
  <2>2. /\ DOMAIN links' = DOMAIN nodes'
        /\ IF nodes' = <<>> THEN entryPoint' = 0 /\ maxLevel' = 0
             ELSE entryPoint' \in DOMAIN nodes' /\ DOMAIN links'[entryPoint'] = 0 .. maxLevel'
    BY <1>1, Zenon DEF WellFormed
  <2>3. \A n \in DOMAIN nodes' :
          /\ n # arriving' => DOMAIN links'[n] \subseteq 0 .. maxLevel'
          /\ 0 \in DOMAIN links'[n]
          /\ \A l \in DOMAIN links'[n] :
               l \in Nat /\ 0 .. l \subseteq DOMAIN links'[n] /\ ListIsWell(n, l)'
    BY <1>1, <2>1, Zenon DEF WellFormed
  <2> QED
    BY <2>2, <2>3, Zenon DEF WellFormed
<1>3. Settled' = Settled
  BY <1>1, Zenon DEF Settled
<1>4. layer' = layer => Reaching' = Reaching
  BY <1>1, <1>3, Zenon DEF Reaching
<1> QED
  BY <1>2, <1>3, <1>4

\* greedyClosest goes to another node of the layer.
LEMMA GreedyStepKeeps == ASSUME CallInv, GreedyStep PROVE CallInv'
<1>1. HnswTypeOK /\ CallIsKnown /\ ArrivalIsKnown /\ WellFormed /\ phase = "descend"
  BY Zenon DEF CallInv, HnswTypeOK, GreedyStep
<1>2. ep \in Reaching
  BY <1>1 DEF CallIsKnown
<1>3. ep' \in Range(NeighborsAt(ep, layer))
  BY Zenon DEF GreedyStep, Nearer
<1>4. ep' \in Reaching
  BY <1>1, <1>2, <1>3, NeighborsReach
<1>5. /\ UNCHANGED <<nodes, links, entryPoint, maxLevel, phase, arriving, query, target, layer>>
      /\ UNCHANGED <<visited, candidates, results, pending>>
  BY Zenon DEF GreedyStep, index, beam
<1>6. WellFormed' /\ Settled' = Settled /\ Reaching' = Reaching
  BY <1>1, <1>5, SameIndex, Zenon DEF index
<1>7. HnswTypeOK'
  BY <1>1, <1>4, <1>5, <1>6 DEF HnswTypeOK, Reaching, Settled
<1>8. CallIsKnown'
  BY <1>1, <1>4, <1>5, <1>6 DEF CallIsKnown
<1>9. ArrivalIsKnown'
  BY <1>1, <1>5, <1>6, Zenon DEF ArrivalIsKnown
<1> QED
  BY <1>7, <1>8, <1>9, Zenon DEF CallInv

\* Nodes that reach a layer reach the one below, where none of them has a link to the
\* new node yet.
LEMMA LowerLayer ==
  ASSUME HnswTypeOK, ArrivalIsKnown, UNCHANGED <<index, arriving, target>>,
         layer > 0, layer' = layer - 1, phase' = "descend"
  PROVE  /\ WellFormed' /\ ArrivalIsKnown' /\ Reaching \subseteq Reaching'
         /\ layer' \in 0 .. maxLevel
<1>1. /\ WellFormed /\ layer \in Nat /\ maxLevel \in Nat /\ layer <= maxLevel
      /\ layer' = layer - 1 /\ UNCHANGED <<nodes, links, entryPoint, maxLevel, arriving>>
  BY DEF HnswTypeOK, index
<1>2. WellFormed' /\ Settled' = Settled
  BY <1>1, SameIndex, Zenon DEF index
<1>3. ASSUME NEW n \in Reaching PROVE n \in Reaching'
  <2>1. n \in DOMAIN nodes /\ n \in Settled /\ layer \in DOMAIN links[n]
    BY Zenon DEF Reaching, Settled
  <2>2. layer - 1 \in DOMAIN links[n]
    BY <1>1, <2>1, ListAt
  <2> QED
    BY <1>1, <1>2, <2>1, <2>2, Zenon DEF Reaching
<1>4. ASSUME NEW n \in Settled, NEW l \in DOMAIN links[n], arriving # 0,
             l < layer - 1 \/ l = layer - 1
      PROVE  arriving \notin Range(links[n][l])
  <2>1. l \in Nat
    BY <1>1, <1>4, ListAt DEF Settled
  <2>2. l < layer
    BY <1>1, <1>4, <2>1
  <2> QED
    BY <1>4, <2>2, Zenon DEF ArrivalIsKnown
<1>5. ArrivalIsKnown'
  BY <1>1, <1>2, <1>4 DEF ArrivalIsKnown
<1> QED
  BY <1>1, <1>2, <1>3, <1>5

\* greedyClosest ends on a layer.
LEMMA LayerDownKeeps == ASSUME CallInv, LayerDown PROVE CallInv'
<1>1. /\ HnswTypeOK /\ CallIsKnown /\ ArrivalIsKnown /\ phase = "descend" /\ layer > target
  BY Zenon DEF CallInv, LayerDown
<1>2. ep \in Reaching /\ visited = {} /\ candidates = {} /\ results = {} /\ pending = <<>>
  BY <1>1 DEF CallIsKnown
<1>3. /\ UNCHANGED <<nodes, links, entryPoint, maxLevel, phase, arriving, query, target, ep>>
      /\ UNCHANGED <<visited, candidates, results, pending>> /\ layer' = layer - 1
  BY Zenon DEF LayerDown, index, beam
<1>4. layer > 0
  BY <1>1 DEF HnswTypeOK
<1>5. /\ WellFormed' /\ ArrivalIsKnown' /\ Reaching \subseteq Reaching'
      /\ layer' \in 0 .. maxLevel
  BY <1>1, <1>3, <1>4, LowerLayer, Zenon DEF index
<1>6. HnswTypeOK'
  BY <1>1, <1>3, <1>5 DEF HnswTypeOK
<1>7. CallIsKnown'
  BY <1>1, <1>2, <1>3, <1>5 DEF CallIsKnown
<1> QED
  BY <1>5, <1>6, <1>7, Zenon DEF CallInv

\* A search of a layer begins where the descent has ended.
LEMMA SearchLevelKeeps == ASSUME CallInv, SearchLevel PROVE CallInv'
<1>1. /\ HnswTypeOK /\ CallIsKnown /\ ArrivalIsKnown /\ WellFormed
      /\ phase = "descend" /\ layer <= target
  BY Zenon DEF CallInv, HnswTypeOK, SearchLevel
<1>2. ep \in Reaching /\ pending = <<>> /\ ep \in DOMAIN nodes
  BY <1>1 DEF CallIsKnown, Reaching, Settled
<1>3. /\ UNCHANGED <<nodes, links, entryPoint, maxLevel, arriving, query, target, layer, ep>>
      /\ UNCHANGED pending /\ phase' = "explore"
      /\ visited' = {ep} /\ candidates' = {ep} /\ results' = {ep}
  BY Zenon DEF SearchLevel, index
<1>4. WellFormed' /\ Settled' = Settled /\ Reaching' = Reaching
  BY <1>1, <1>3, SameIndex, Zenon DEF index
<1>5. Range(pending) = {}
  BY <1>2 DEF Range
<1>6. HnswTypeOK'
  BY <1>1, <1>2, <1>3, <1>4 DEF HnswTypeOK
<1>7. CallIsKnown'
  BY <1>1, <1>2, <1>3, <1>4, <1>5 DEF CallIsKnown
<1>8. ArrivalIsKnown'
  BY <1>1, <1>3, <1>4 DEF ArrivalIsKnown
<1> QED
  BY <1>6, <1>7, <1>8, Zenon DEF CallInv

\* What is left of a list after its first element.
LEMMA TailIs ==
  ASSUME NEW S, NEW s \in Seq(S), s # <<>>
  PROVE  /\ Head(s) \in S /\ Head(s) \in Range(s) /\ Tail(s) \in Seq(S)
         /\ Range(Tail(s)) \subseteq Range(s) /\ Len(Tail(s)) + 1 = Len(s)
         /\ \A i \in DOMAIN Tail(s) : i \in Nat /\ i + 1 \in DOMAIN s /\ Tail(s)[i] = s[i + 1]
         /\ IsInjective(s) => IsInjective(Tail(s)) /\ Head(s) \notin Range(Tail(s))
         /\ \A x \in Range(s) : x = Head(s) \/ x \in Range(Tail(s))
<1>1. /\ Len(s) \in Nat \ {0} /\ Head(s) = s[1] /\ Tail(s) \in Seq(S)
      /\ DOMAIN s = 1 .. Len(s) /\ DOMAIN Tail(s) = 1 .. Len(s) - 1
      /\ Len(Tail(s)) = Len(s) - 1
      /\ \A i \in 1 .. Len(s) - 1 : Tail(s)[i] = s[i + 1]
  OBVIOUS
<1>2. \A i \in DOMAIN Tail(s) : i \in Nat /\ i + 1 \in DOMAIN s /\ Tail(s)[i] = s[i + 1]
  BY <1>1
<1>3. 1 \in DOMAIN s /\ \A i \in DOMAIN Tail(s) : i + 1 # 1
  BY <1>1
<1>4. Range(Tail(s)) \subseteq Range(s) /\ Head(s) \in Range(s) /\ Head(s) \in S
  BY <1>1, <1>2, <1>3 DEF Range
<1>5. ASSUME IsInjective(s) PROVE IsInjective(Tail(s)) /\ Head(s) \notin Range(Tail(s))
  BY <1>1, <1>2, <1>3, <1>5 DEF IsInjective, Range
<1>6. ASSUME NEW x \in Range(s), x # Head(s) PROVE x \in Range(Tail(s))
  <2>1. PICK j \in DOMAIN s : s[j] = x
    BY DEF Range
  <2>2. j - 1 \in DOMAIN Tail(s) /\ Tail(s)[j - 1] = x
    BY <1>1, <1>6, <2>1
  <2> QED
    BY <2>2 DEF Range
<1> QED
  BY <1>1, <1>2, <1>4, <1>5, <1>6

\* The neighbours of a candidate are of the layer.
LEMMA ExpandKeeps == ASSUME CallInv, Expand PROVE CallInv'
<1>1. /\ HnswTypeOK /\ CallIsKnown /\ ArrivalIsKnown /\ WellFormed /\ phase = "explore"
  BY Zenon DEF CallInv, HnswTypeOK, Expand
<1>2. PICK nearest \in candidates : /\ candidates' = candidates \ {nearest}
                                    /\ pending' = NeighborsAt(nearest, layer)
  BY Zenon DEF Expand, Closest
<1>3. /\ UNCHANGED <<nodes, links, entryPoint, maxLevel, phase, arriving, query, target, layer>>
      /\ UNCHANGED <<ep, visited, results>>
  BY Zenon DEF Expand, index
<1>4. nearest \in Reaching
  BY <1>1, Zenon DEF CallIsKnown
<1>5. pending' \in Seq(DOMAIN nodes) /\ Range(pending') \subseteq Reaching
  BY <1>1, <1>2, <1>4, NeighborsReach
<1>6. WellFormed' /\ Settled' = Settled /\ Reaching' = Reaching
  BY <1>1, <1>3, SameIndex, Zenon DEF index
<1>7. HnswTypeOK'
  BY <1>1, <1>2, <1>3, <1>5, <1>6 DEF HnswTypeOK
<1>8. CallIsKnown'
  BY <1>1, <1>2, <1>3, <1>5, <1>6 DEF CallIsKnown
<1>9. ArrivalIsKnown'
  BY <1>1, <1>3, <1>6 DEF ArrivalIsKnown
<1> QED
  BY <1>7, <1>8, <1>9, Zenon DEF CallInv

\* A neighbour is visited.
LEMMA VisitKeeps == ASSUME CallInv, Visit PROVE CallInv'
<1> DEFINE n == Head(pending)
<1>1. /\ HnswTypeOK /\ CallIsKnown /\ ArrivalIsKnown /\ WellFormed
      /\ phase = "explore" /\ pending # <<>>
  BY Zenon DEF CallInv, HnswTypeOK, Visit
<1>2. /\ UNCHANGED <<nodes, links, entryPoint, maxLevel, phase, arriving, query, target, layer, ep>>
      /\ pending' = Tail(pending) /\ visited' = visited \cup {n}
      /\ candidates' \subseteq candidates \cup {n} /\ results' \subseteq results \cup {n}
  BY Zenon DEF Visit, index
<1>3. pending \in Seq(DOMAIN nodes) /\ Range(pending) \subseteq Reaching
  BY <1>1 DEF HnswTypeOK, CallIsKnown
<1>4. /\ n \in DOMAIN nodes /\ n \in Reaching
      /\ pending' \in Seq(DOMAIN nodes) /\ Range(pending') \subseteq Reaching
  BY <1>1, <1>2, <1>3, TailIs
<1> HIDE DEF n
<1>5. WellFormed' /\ Settled' = Settled /\ Reaching' = Reaching
  BY <1>1, <1>2, SameIndex, Zenon DEF index
<1>6. HnswTypeOK'
  BY <1>1, <1>2, <1>4, <1>5 DEF HnswTypeOK
<1>7. CallIsKnown'
  BY <1>1, <1>2, <1>4, <1>5 DEF CallIsKnown
<1>8. ArrivalIsKnown'
  BY <1>1, <1>2, <1>5 DEF ArrivalIsKnown
<1> QED
  BY <1>6, <1>7, <1>8, Zenon DEF CallInv

\* The results are left of a search of a layer.
LEMMA ExploreEndsKeeps == ASSUME CallInv, ExploreEnds PROVE CallInv'
<1>1. /\ HnswTypeOK /\ CallIsKnown /\ ArrivalIsKnown /\ WellFormed
      /\ phase = "explore" /\ pending = <<>>
  BY Zenon DEF CallInv, HnswTypeOK, ExploreEnds
<1>2. /\ UNCHANGED <<nodes, links, entryPoint, maxLevel, arriving, query, target, layer, ep>>
      /\ UNCHANGED <<results, pending>>
      /\ phase' = "explored" /\ visited' = {} /\ candidates' = {}
  BY Zenon DEF ExploreEnds, index
<1>3. WellFormed' /\ Settled' = Settled /\ Reaching' = Reaching
  BY <1>1, <1>2, SameIndex, Zenon DEF index
<1>4. HnswTypeOK'
  BY <1>1, <1>2, <1>3 DEF HnswTypeOK
<1>5. CallIsKnown'
  BY <1>1, <1>2, <1>3 DEF CallIsKnown
<1>6. ArrivalIsKnown'
  BY <1>1, <1>2, <1>3 DEF ArrivalIsKnown
<1> QED
  BY <1>4, <1>5, <1>6, Zenon DEF CallInv

\* One list on the layer is replaced, and nothing else of the index changes.
Relinks(from, list) ==
  /\ UNCHANGED <<nodes, entryPoint, maxLevel, arriving, layer>>
  /\ DOMAIN links' = DOMAIN links
  /\ \A n \in DOMAIN nodes : DOMAIN links'[n] = DOMAIN links[n]
  /\ \A n \in DOMAIN nodes : \A l \in DOMAIN links[n] :
       n # from \/ l # layer => links'[n][l] = links[n][l]
  /\ links'[from][layer] = list

\* The index is well formed if the list is.
LEMMA RelinksWell ==
  ASSUME WellFormed, NEW from \in DOMAIN nodes, layer \in DOMAIN links[from],
         NEW list \in Seq(DOMAIN nodes), Relinks(from, list),
         Len(list) <= MaxConn(layer), IsInjective(list),
         \A m \in Range(list) : m # from /\ layer \in DOMAIN links[m]
  PROVE  WellFormed' /\ Settled' = Settled /\ Reaching' = Reaching
<1>1. /\ nodes' = nodes /\ entryPoint' = entryPoint /\ maxLevel' = maxLevel
      /\ arriving' = arriving /\ layer' = layer /\ DOMAIN links' = DOMAIN links
      /\ \A n \in DOMAIN nodes : DOMAIN links'[n] = DOMAIN links[n]
      /\ \A n \in DOMAIN nodes : \A l \in DOMAIN links[n] :
           n # from \/ l # layer => links'[n][l] = links[n][l]
      /\ links'[from][layer] = list
  BY Zenon DEF Relinks
<1>2. ASSUME NEW n \in DOMAIN nodes, NEW l \in DOMAIN links[n]
      PROVE  ListIsWell(n, l)'
  <2>1. \A m \in Range(links'[n][l]) : m # n /\ m \in DOMAIN nodes /\ l \in DOMAIN links[m]
    <3>1. CASE n = from /\ l = layer
      <4>1. Range(list) \subseteq DOMAIN nodes
        BY DEF Range
      <4> QED
        BY <1>1, <3>1, <4>1, Zenon
    <3>2. CASE n # from \/ l # layer
      BY <1>1, <1>2, <3>2, ListAt, Zenon
    <3> QED
      BY <3>1, <3>2, Zenon
  <2>2. /\ links'[n][l] \in Seq(DOMAIN nodes) /\ Len(links'[n][l]) <= MaxConn(l)
        /\ IsInjective(links'[n][l])
    <3>1. CASE n = from /\ l = layer
      BY <1>1, <3>1, Zenon
    <3>2. CASE n # from \/ l # layer
      BY <1>1, <1>2, <3>2, ListAt, Zenon
    <3> QED
      BY <3>1, <3>2, Zenon
  <2> QED
    BY <1>1, <2>1, <2>2, Zenon DEF ListIsWell
<1>3. entryPoint \in DOMAIN nodes => DOMAIN links'[entryPoint] = DOMAIN links[entryPoint]
  BY <1>1, Zenon
<1>4. \A n \in DOMAIN nodes : /\ n # arriving => DOMAIN links'[n] \subseteq 0 .. maxLevel
                              /\ 0 \in DOMAIN links'[n]
  BY <1>1, Zenon DEF WellFormed
<1>5. \A n \in DOMAIN nodes : \A l \in DOMAIN links'[n] :
        l \in Nat /\ 0 .. l \subseteq DOMAIN links'[n] /\ ListIsWell(n, l)'
  BY <1>1, <1>2, ListAt, Zenon
<1>6. WellFormed'
  BY <1>1, <1>3, <1>4, <1>5, Zenon DEF WellFormed
<1>7. Settled' = Settled
  BY <1>1, Zenon DEF Settled
<1>8. \A n \in Settled : layer' \in DOMAIN links'[n] <=> layer \in DOMAIN links[n]
  BY <1>1, Zenon DEF Settled
<1> QED
  BY <1>6, <1>7, <1>8 DEF Reaching

\* The results are old nodes of the layer, and so are those selected from them.
LEMMA ResultsRanked ==
  ASSUME HnswTypeOK, CallIsKnown, NEW k \in Nat,
         NEW s \in NearestFirst([n \in results |-> ToQuery(n)], k)
  PROVE  /\ s \in Seq(DOMAIN nodes) /\ Range(s) \subseteq Reaching
         /\ Len(s) <= k /\ IsInjective(s)
         /\ \A i, j \in DOMAIN s : i < j => ToQuery(s[i]) <= ToQuery(s[j])
<1> DEFINE far == [n \in results |-> ToQuery(n)]
<1>1. results \subseteq DOMAIN nodes /\ results \subseteq Reaching /\ DOMAIN far = results
  BY DEF HnswTypeOK, CallIsKnown
<1>2. IsFiniteSet(DOMAIN far)
  BY <1>1, NodesAreFinite DEF HnswTypeOK
<1>3. \A x \in results : far[x] = ToQuery(x)
  OBVIOUS
<1> HIDE DEF far
<1>4. /\ s \in Seq(results) /\ Len(s) <= k /\ IsInjective(s)
      /\ \A i, j \in DOMAIN s : i < j => far[s[i]] <= far[s[j]]
  BY <1>1, <1>2, NearestFirstIs, Zenon DEF far
<1>5. Range(s) \subseteq results /\ \A i \in DOMAIN s : s[i] \in results
  BY <1>4 DEF Range
<1> QED
  BY <1>1, <1>3, <1>4, <1>5, SMT

\* The new node is linked to nodes of the layer.
LEMMA SelectNeighborsKeeps == ASSUME CallInv, SelectNeighbors PROVE CallInv'
<1>1. /\ HnswTypeOK /\ CallIsKnown /\ ArrivalIsKnown /\ WellFormed
      /\ phase = "explored" /\ arriving # 0
  BY Zenon DEF CallInv, HnswTypeOK, SelectNeighbors
<1>2. PICK selected \in NearestFirst([n \in results |-> ToQuery(n)], MaxConn(layer)) :
        /\ links' = [links EXCEPT ![arriving][layer] = selected]
        /\ pending' = selected
  BY Zenon DEF SelectNeighbors
<1>3. /\ UNCHANGED <<nodes, entryPoint, maxLevel, arriving, query, target, layer, ep>>
      /\ phase' = "connect" /\ visited' = {} /\ candidates' = {} /\ results' = {}
  BY Zenon DEF SelectNeighbors, EmptyBeam
<1>4. /\ layer \in Nat /\ target \in Nat /\ layer <= target /\ ep \in Reaching
      /\ DOMAIN links[arriving] = 0 .. target
  BY <1>1 DEF HnswTypeOK, CallIsKnown, ArrivalIsKnown
<1>5. arriving \in DOMAIN nodes /\ DOMAIN links = DOMAIN nodes /\ layer \in DOMAIN links[arriving]
  BY <1>1, <1>4 DEF HnswTypeOK, Reaching, Settled, WellFormed
<1>6. /\ selected \in Seq(DOMAIN nodes) /\ Range(selected) \subseteq Reaching
      /\ Len(selected) <= MaxConn(layer) /\ IsInjective(selected)
  <2>1. MaxConn(layer) \in Nat
    BY <1>4, MaxConnIs
  <2> QED
    BY <1>1, <2>1, ResultsRanked, Zenon
<1>7. Relinks(arriving, selected)
  BY <1>2, <1>3, <1>5 DEF Relinks
<1>8. WellFormed' /\ Settled' = Settled /\ Reaching' = Reaching
  <2>1. \A m \in Range(selected) : m # arriving /\ layer \in DOMAIN links[m]
    BY <1>6, Zenon DEF Reaching, Settled
  <2> QED
    BY <1>1, <1>5, <1>6, <1>7, <2>1, RelinksWell, Zenon
<1>9. HnswTypeOK'
  BY <1>1, <1>2, <1>3, <1>6, <1>8 DEF HnswTypeOK
<1>10. CallIsKnown'
  BY <1>1, <1>2, <1>3, <1>4, <1>6, <1>8 DEF CallIsKnown
<1>11. ArrivalIsKnown'
  <2>1. \A n \in Settled : n \in DOMAIN nodes /\ DOMAIN links'[n] = DOMAIN links[n] /\
          \A l \in DOMAIN links[n] : links'[n][l] = links[n][l]
    BY <1>7, Zenon DEF Settled, Relinks
  <2>2. DOMAIN links'[arriving] = 0 .. target
    BY <1>4, <1>5, <1>7, Zenon DEF Relinks
  <2> QED
    BY <1>1, <1>2, <1>3, <1>6, <1>8, <2>1, <2>2 DEF ArrivalIsKnown
<1> QED
  BY <1>9, <1>10, <1>11, Zenon DEF CallInv

\* A list with a new element at its end.
LEMMA AppendIs ==
  ASSUME NEW S, NEW s \in Seq(S), NEW x \in S, IsInjective(s), x \notin Range(s)
  PROVE  /\ Append(s, x) \in Seq(S) /\ IsInjective(Append(s, x))
         /\ Range(Append(s, x)) = Range(s) \cup {x}
<1>1. /\ Append(s, x) \in Seq(S) /\ Len(s) \in Nat /\ DOMAIN s = 1 .. Len(s)
      /\ DOMAIN Append(s, x) = 1 .. Len(s) + 1 /\ Append(s, x)[Len(s) + 1] = x
      /\ \A i \in 1 .. Len(s) : Append(s, x)[i] = s[i]
  OBVIOUS
<1> DEFINE t == Append(s, x)
<1> HIDE DEF t
<1>6. /\ DOMAIN t = 1 .. Len(s) + 1 /\ t[Len(s) + 1] = x
      /\ \A i \in 1 .. Len(s) : t[i] = s[i]
  BY <1>1, Zenon DEF t
<1>2. /\ \A i \in DOMAIN t : (i \in DOMAIN s /\ t[i] = s[i]) \/ (i = Len(s) + 1 /\ t[i] = x)
      /\ \A i \in DOMAIN s : i \in DOMAIN t /\ t[i] = s[i]
      /\ Len(s) + 1 \in DOMAIN t /\ t[Len(s) + 1] = x
  BY <1>1, <1>6
<1>3. \A i \in DOMAIN s : s[i] # x
  BY DEF Range
<1>4. IsInjective(t)
  BY <1>2, <1>3 DEF IsInjective
<1>5. Range(t) = Range(s) \cup {x}
  BY <1>2 DEF Range
<1> QED
  BY <1>1, <1>4, <1>5 DEF t

\* A list with the link back names other nodes of the layer, each once, and is within
\* its capacity.
LEMMA RelinkedIs ==
  ASSUME CallInv, phase = "connect", NEW from \in Reaching, from \in Range(pending),
         NEW kept \in Relinked(from)
  PROVE  /\ kept \in Seq(DOMAIN nodes) /\ Len(kept) <= MaxConn(layer) /\ IsInjective(kept)
         /\ \A m \in Range(kept) : m # from /\ layer \in DOMAIN links[m]
<1> DEFINE list == Append(NeighborsAt(from, layer), arriving)
<1>1. /\ HnswTypeOK /\ CallIsKnown /\ ArrivalIsKnown /\ WellFormed /\ arriving # 0
      /\ layer \in Nat /\ layer <= target /\ target \in Nat
      /\ DOMAIN links[arriving] = 0 .. target
  BY DEF CallInv, HnswTypeOK, CallIsKnown, ArrivalIsKnown
<1>2. /\ from \in DOMAIN nodes /\ from \in Settled /\ from # arriving
      /\ layer \in DOMAIN links[from] /\ NeighborsAt(from, layer) = links[from][layer]
  BY Zenon DEF Reaching, Settled, NeighborsAt
<1>3. arriving \in DOMAIN nodes
  BY <1>1, <1>2 DEF HnswTypeOK
<1>4. arriving \notin Range(links[from][layer])
  BY <1>1, <1>2, Zenon DEF ArrivalIsKnown
<1>5. /\ links[from][layer] \in Seq(DOMAIN nodes) /\ IsInjective(links[from][layer])
      /\ \A m \in Range(links[from][layer]) : m # from /\ layer \in DOMAIN links[m]
  BY <1>1, <1>2, ListAt, Zenon
<1>6. /\ list \in Seq(DOMAIN nodes) /\ IsInjective(list)
      /\ Range(list) = Range(links[from][layer]) \cup {arriving}
  BY <1>2, <1>3, <1>4, <1>5, AppendIs
<1>7. \A m \in Range(list) : m \in DOMAIN nodes /\ m # from /\ layer \in DOMAIN links[m]
  <2>1. layer \in DOMAIN links[arriving]
    BY <1>1
  <2>2. \A m \in Range(links[from][layer]) : m \in DOMAIN nodes
    BY <1>5 DEF Range
  <2> QED
    BY <1>2, <1>3, <1>5, <1>6, <2>1, <2>2, Zenon
<1>8. MaxConn(layer) \in Nat
  BY <1>1, MaxConnIs
<1> DEFINE far == [n \in Range(list) |-> Between(from, n)]
<1>9. Relinked(from) = IF Len(list) > MaxConn(layer) THEN NearestFirst(far, MaxConn(layer))
                                                     ELSE {list}
  BY Zenon DEF Relinked, Capacity
<1>10. IsFiniteSet(DOMAIN far) /\ DOMAIN far = Range(list)
  BY <1>1, <1>7, NodesAreFinite DEF HnswTypeOK
<1> HIDE DEF list, far
<1>11. CASE Len(list) > MaxConn(layer)
  <2>1. kept \in Seq(DOMAIN far) /\ Len(kept) <= MaxConn(layer) /\ IsInjective(kept)
    BY <1>8, <1>9, <1>10, <1>11, NearestFirstIs, Zenon
  <2>2. Range(kept) \subseteq Range(list)
    BY <1>10, <2>1 DEF Range
  <2>3. kept \in Seq(DOMAIN nodes)
    BY <1>7, <1>10, <2>1
  <2> QED
    BY <1>7, <2>1, <2>2, <2>3, Zenon
<1>12. CASE ~(Len(list) > MaxConn(layer))
  <2>1. kept = list
    BY <1>9, <1>12, Zenon
  <2>2. Len(list) <= MaxConn(layer)
    BY <1>6, <1>8, <1>12
  <2> QED
    BY <1>6, <1>7, <2>1, <2>2, Zenon
<1> QED
  BY <1>11, <1>12, Zenon

\* The link back, with or without pruning.
LEMMA AddConnectionKeeps == ASSUME CallInv, AddConnection PROVE CallInv'
<1> DEFINE from == Head(pending)
<1>1. /\ HnswTypeOK /\ CallIsKnown /\ ArrivalIsKnown /\ WellFormed
      /\ phase = "connect" /\ pending # <<>>
  BY Zenon DEF CallInv, HnswTypeOK, AddConnection
<1>2. PICK kept \in Relinked(from) :
        links' = [links EXCEPT ![from] = [l \in DOMAIN links[from] \cup 0 .. layer |->
                                            IF l = layer THEN kept ELSE NeighborsAt(from, l)]]
  BY Zenon DEF AddConnection
<1>3. /\ UNCHANGED <<nodes, entryPoint, maxLevel, phase, arriving, query, target, layer, ep>>
      /\ UNCHANGED <<visited, candidates, results>> /\ pending' = Tail(pending)
  BY Zenon DEF AddConnection, beam
<1>4. /\ pending \in Seq(DOMAIN nodes) /\ Range(pending) \subseteq Reaching
      /\ IsInjective(pending) /\ arriving # 0 /\ ep \in Reaching /\ layer <= target
      /\ visited = {} /\ candidates = {} /\ results = {}
  BY <1>1 DEF HnswTypeOK, CallIsKnown, ArrivalIsKnown
<1>5. /\ from \in Range(pending) /\ pending' \in Seq(DOMAIN nodes)
      /\ Range(pending') \subseteq Range(pending) /\ from \notin Range(pending')
      /\ IsInjective(pending')
  BY <1>1, <1>3, <1>4, TailIs
<1> HIDE DEF from
<1>6. /\ from \in Reaching /\ from \in DOMAIN nodes /\ layer \in DOMAIN links[from]
      /\ from # arriving
  BY <1>4, <1>5, Zenon DEF Reaching, Settled
<1>7. /\ kept \in Seq(DOMAIN nodes) /\ Len(kept) <= MaxConn(layer) /\ IsInjective(kept)
      /\ \A m \in Range(kept) : m # from /\ layer \in DOMAIN links[m]
  BY <1>1, <1>5, <1>6, RelinkedIs, Zenon
<1>8. Relinks(from, kept)
  <2> DEFINE new == [l \in DOMAIN links[from] \cup 0 .. layer |->
                       IF l = layer THEN kept ELSE NeighborsAt(from, l)]
  <2>1. DOMAIN links[from] \cup 0 .. layer = DOMAIN links[from]
    BY <1>1, <1>6, ListAt, Zenon
  <2>2. DOMAIN new = DOMAIN links[from] /\ new[layer] = kept
    BY <1>6, <2>1
  <2>3. \A l \in DOMAIN links[from] : l # layer => new[l] = links[from][l]
    BY Zenon DEF NeighborsAt
  <2>4. links' = [links EXCEPT ![from] = new] /\ DOMAIN links = DOMAIN nodes
    BY <1>1, <1>2, Zenon DEF WellFormed
  <2> HIDE DEF new
  <2> QED
    BY <1>3, <1>6, <2>2, <2>3, <2>4 DEF Relinks
<1>9. WellFormed' /\ Settled' = Settled /\ Reaching' = Reaching
  BY <1>1, <1>6, <1>7, <1>8, RelinksWell, Zenon
<1>10. HnswTypeOK'
  BY <1>1, <1>3, <1>5, <1>9 DEF HnswTypeOK
<1>11. CallIsKnown'
  BY <1>1, <1>3, <1>4, <1>5, <1>9 DEF CallIsKnown
<1>12. ArrivalIsKnown'
  <2>1. \A n \in Settled : /\ DOMAIN links'[n] = DOMAIN links[n]
                           /\ \A l \in DOMAIN links[n] :
                                n # from \/ l # layer => links'[n][l] = links[n][l]
    BY <1>8, Zenon DEF Settled, Relinks
  <2>2. DOMAIN links'[arriving] = 0 .. target /\ entryPoint # arriving
    <3>1. arriving \in DOMAIN nodes
      BY <1>1, <1>4, <1>6 DEF HnswTypeOK
    <3> QED
      BY <1>1, <1>4, <1>8, <3>1, Zenon DEF Relinks, ArrivalIsKnown
  <2>3. ASSUME NEW n \in Settled, NEW l \in DOMAIN links[n],
               l < layer \/ (l = layer /\ n \in Range(pending'))
        PROVE  arriving \notin Range(links'[n][l])
    <3>1. layer \in Nat /\ l \in Nat
      BY <1>1, <2>3, ListAt DEF HnswTypeOK, Settled
    <3>2. links'[n][l] = links[n][l]
      BY <1>5, <2>1, <2>3, <3>1
    <3>3. l < layer \/ (l = layer /\ n \in Range(pending))
      BY <1>5, <2>3
    <3> QED
      BY <1>1, <1>4, <2>3, <3>2, <3>3, Zenon DEF ArrivalIsKnown
  <2> QED
    BY <1>1, <1>3, <1>5, <1>9, <2>1, <2>2, <2>3 DEF ArrivalIsKnown
<1> QED
  BY <1>10, <1>11, <1>12, Zenon DEF CallInv

\* The nearest of the selected nodes begins the next layer.
LEMMA NextLayerKeeps == ASSUME CallInv, NextLayer PROVE CallInv'
<1>1. /\ HnswTypeOK /\ CallIsKnown /\ ArrivalIsKnown /\ WellFormed
      /\ phase = "connect" /\ pending = <<>> /\ layer > 0
  BY Zenon DEF CallInv, HnswTypeOK, NextLayer
<1>2. /\ ep \in Reaching /\ visited = {} /\ candidates = {} /\ results = {}
      /\ arriving # 0 /\ layer <= target
  BY <1>1 DEF CallIsKnown, ArrivalIsKnown
<1>3. /\ UNCHANGED <<nodes, links, entryPoint, maxLevel, arriving, query, target>>
      /\ UNCHANGED <<visited, candidates, results, pending>>
      /\ layer' = layer - 1 /\ phase' = "descend"
      /\ ep' = IF links[arriving][layer] # <<>> THEN Head(links[arriving][layer]) ELSE ep
  BY Zenon DEF NextLayer, index, beam
<1>4. /\ WellFormed' /\ ArrivalIsKnown' /\ Reaching \subseteq Reaching'
      /\ layer' \in 0 .. maxLevel
  BY <1>1, <1>3, LowerLayer, Zenon DEF index
<1>5. ep' \in Reaching
  <2>1. arriving \in DOMAIN nodes /\ layer \in DOMAIN links[arriving]
    <3>1. arriving \in DOMAIN nodes
      BY <1>1, <1>2 DEF HnswTypeOK, Reaching, Settled
    <3>2. DOMAIN links[arriving] = 0 .. target /\ layer \in Nat /\ target \in Nat
      BY <1>1, <1>2 DEF HnswTypeOK, ArrivalIsKnown
    <3> QED
      BY <1>2, <3>1, <3>2
  <2>2. CASE links[arriving][layer] # <<>>
    <3>1. /\ links[arriving][layer] \in Seq(DOMAIN nodes)
          /\ \A m \in Range(links[arriving][layer]) :
               m \in DOMAIN nodes /\ m # arriving /\ layer \in DOMAIN links[m]
      BY <1>1, <2>1, ListAt, Zenon
    <3>2. Head(links[arriving][layer]) \in Range(links[arriving][layer])
      BY <2>2, <3>1, TailIs
    <3> QED
      BY <1>3, <2>2, <3>1, <3>2, Zenon DEF Reaching, Settled
  <2>3. CASE links[arriving][layer] = <<>>
    BY <1>2, <1>3, <2>3, Zenon
  <2> QED
    BY <2>2, <2>3, Zenon
<1>6. ep' \in DOMAIN nodes /\ ep' \in Reaching'
  BY <1>4, <1>5 DEF Reaching, Settled
<1>7. HnswTypeOK'
  BY <1>1, <1>3, <1>4, <1>6 DEF HnswTypeOK
<1>8. CallIsKnown'
  BY <1>1, <1>2, <1>3, <1>6 DEF CallIsKnown
<1> QED
  BY <1>4, <1>7, <1>8, Zenon DEF CallInv

\* Between two calls nothing is left of the first.
LEMMA NoCallKeeps ==
  ASSUME WellFormed', nodes' \in Seq([id : Nat, vec : Vectors]), maxLevel' \in Nat, NoCall
  PROVE  CallInv'
<1>1. /\ phase' = "idle" /\ arriving' = 0 /\ query' = NoVector /\ target' = 0 /\ layer' = 0
      /\ ep' = 0 /\ visited' = {} /\ candidates' = {} /\ results' = {} /\ pending' = <<>>
  BY Zenon DEF NoCall, EmptyBeam
<1>2. HnswTypeOK'
  BY <1>1 DEF HnswTypeOK
<1>3. CallIsKnown'
  BY <1>1 DEF CallIsKnown
<1>4. ArrivalIsKnown'
  BY <1>1 DEF ArrivalIsKnown
<1> QED
  BY <1>2, <1>3, <1>4, Zenon DEF CallInv

\* A new node above all layers raises the highest one, and the entry point with it.
LEMMA InsertEndsKeeps == ASSUME CallInv, InsertEnds PROVE CallInv'
<1>1. /\ HnswTypeOK /\ CallIsKnown /\ ArrivalIsKnown /\ WellFormed /\ phase = "connect"
      /\ NoCall /\ UNCHANGED <<nodes, links>>
      /\ IF target > maxLevel THEN maxLevel' = target /\ entryPoint' = arriving
                              ELSE UNCHANGED <<maxLevel, entryPoint>>
  BY Zenon DEF CallInv, HnswTypeOK, InsertEnds
<1>2. /\ arriving # 0 /\ ep \in Reaching /\ DOMAIN links[arriving] = 0 .. target
      /\ target \in Nat /\ maxLevel \in Nat /\ nodes \in Seq([id : Nat, vec : Vectors])
  BY <1>1 DEF HnswTypeOK, CallIsKnown, ArrivalIsKnown
<1>3. arriving \in DOMAIN nodes /\ nodes # <<>>
  BY <1>1, <1>2 DEF HnswTypeOK, Reaching, Settled
<1>4. maxLevel' \in Nat /\ maxLevel <= maxLevel' /\ target <= maxLevel'
  BY <1>1, <1>2
<1>5. entryPoint' \in DOMAIN nodes /\ DOMAIN links[entryPoint'] = 0 .. maxLevel'
  BY <1>1, <1>2, <1>3, <1>4 DEF WellFormed
<1>6. ASSUME NEW n \in DOMAIN nodes PROVE DOMAIN links[n] \subseteq 0 .. maxLevel'
  <2>1. n # arriving => DOMAIN links[n] \subseteq 0 .. maxLevel
    BY <1>1, Zenon DEF WellFormed
  <2>2. 0 .. maxLevel \subseteq 0 .. maxLevel' /\ 0 .. target \subseteq 0 .. maxLevel'
    BY <1>2, <1>4
  <2> QED
    BY <1>2, <2>1, <2>2
<1>7. WellFormed'
  <2>4. nodes' = nodes /\ links' = links
    BY <1>1, Zenon
  <2>5. /\ DOMAIN links' = DOMAIN nodes'
        /\ \A n \in DOMAIN nodes' : 0 \in DOMAIN links'[n]
    BY <1>1, <2>4, Zenon DEF WellFormed
  <2>6. \A n \in DOMAIN nodes' : \A l \in DOMAIN links'[n] :
          l \in Nat /\ 0 .. l \subseteq DOMAIN links'[n] /\ ListIsWell(n, l)
    BY <1>1, <2>4, Zenon DEF WellFormed
  <2>7. ASSUME NEW n, NEW l, ListIsWell(n, l) PROVE ListIsWell(n, l)'
    BY <2>4, <2>7, Zenon DEF ListIsWell
  <2>1. /\ DOMAIN links' = DOMAIN nodes'
        /\ \A n \in DOMAIN nodes' : 0 \in DOMAIN links'[n]
        /\ \A n \in DOMAIN nodes' : \A l \in DOMAIN links'[n] :
             l \in Nat /\ 0 .. l \subseteq DOMAIN links'[n] /\ ListIsWell(n, l)'
    BY <2>5, <2>6, <2>7, Zenon
  <2>2. nodes' # <<>> /\ entryPoint' \in DOMAIN nodes'
        /\ DOMAIN links'[entryPoint'] = 0 .. maxLevel'
    BY <1>1, <1>3, <1>5, Zenon
  <2>3. \A n \in DOMAIN nodes' : DOMAIN links'[n] \subseteq 0 .. maxLevel'
    BY <1>1, <1>6, Zenon
  <2> QED
    BY <2>1, <2>2, <2>3, Zenon DEF WellFormed
<1> QED
  BY <1>1, <1>2, <1>4, <1>7, NoCallKeeps, Zenon

\* A search leaves the nearest of its results.
LEMMA SearchEndsKeeps == ASSUME CallInv, SearchEnds PROVE CallInv'
<1>1. /\ HnswTypeOK /\ CallIsKnown /\ ArrivalIsKnown /\ WellFormed
      /\ phase = "explored" /\ arriving = 0
      /\ pending' \in NearestFirst([n \in results |-> ToQuery(n)], TopK)
  BY Zenon DEF CallInv, HnswTypeOK, SearchEnds
<1>2. /\ UNCHANGED <<nodes, links, entryPoint, maxLevel, arriving, query, target, layer, ep>>
      /\ phase' = "found" /\ visited' = {} /\ candidates' = {} /\ results' = {}
  BY Zenon DEF SearchEnds, EmptyBeam, index
<1>3. pending' \in Seq(DOMAIN nodes)
  BY <1>1, ResultsRanked, HnswConstants, Zenon
<1>4. WellFormed'
  BY <1>1, <1>2, SameIndex, Zenon DEF index
<1>5. HnswTypeOK'
  BY <1>1, <1>2, <1>3, <1>4 DEF HnswTypeOK
<1>6. CallIsKnown'
  BY <1>1, <1>2 DEF CallIsKnown
<1>7. ArrivalIsKnown'
  BY <1>1, <1>2 DEF ArrivalIsKnown
<1> QED
  BY <1>5, <1>6, <1>7, Zenon DEF CallInv

\* Every iteration of a loop of the index.
LEMMA IndexStepKeeps == ASSUME CallInv, IndexStep PROVE CallInv'
  BY GreedyStepKeeps, LayerDownKeeps, SearchLevelKeeps, ExpandKeeps, VisitKeeps,
     ExploreEndsKeeps, SelectNeighborsKeeps, AddConnectionKeeps, NextLayerKeeps,
     InsertEndsKeeps, SearchEndsKeeps, Zenon DEF IndexStep

\* Between two calls no node is arriving.
LEMMA IdleIs ==
  ASSUME CallInv, phase = "idle"
  PROVE  /\ WellFormed /\ nodes \in Seq([id : Nat, vec : Vectors]) /\ maxLevel \in Nat
         /\ arriving = 0 /\ layer = 0 /\ ep = 0 /\ pending = <<>>
         /\ visited = {} /\ candidates = {} /\ results = {}
  BY DEF CallInv, HnswTypeOK, CallIsKnown

\* A call begins at the entry point, which reaches the highest layer.
LEMMA BeginIs ==
  ASSUME WellFormed', nodes' \in Seq([id : Nat, vec : Vectors]), maxLevel' \in Nat,
         NEW v \in Vectors, NEW l \in Nat, Begin(v, l), UNCHANGED maxLevel,
         entryPoint' = entryPoint, entryPoint \in DOMAIN nodes' \ {arriving'},
         DOMAIN links'[entryPoint] = 0 .. maxLevel, arriving' \in {0, Len(nodes')},
         visited = {}, candidates = {}, results = {}, pending = <<>>
  PROVE  HnswTypeOK' /\ CallIsKnown' /\ phase' = "descend" /\ layer' = maxLevel /\ target' = l
<1>1. /\ phase' = "descend" /\ query' = v /\ target' = l /\ layer' = maxLevel
      /\ ep' = entryPoint /\ visited' = {} /\ candidates' = {} /\ results' = {}
      /\ pending' = <<>>
  BY Zenon DEF Begin, beam
<1>2. layer' \in 0 .. maxLevel'
  BY <1>1
<1>3. ep' \in Reaching'
  BY <1>1, <1>2 DEF Reaching, Settled
<1>4. HnswTypeOK'
  BY <1>1, <1>2, <1>3 DEF HnswTypeOK
<1>5. CallIsKnown'
  BY <1>1, <1>3 DEF CallIsKnown
<1> QED
  BY <1>1, <1>4, <1>5

\* A new node joins the index, without any link.
LEMMA InsertNodeKeeps ==
  ASSUME CallInv, NEW i \in Nat, NEW v \in Vectors, NEW top \in Nat, InsertNode(i, v, top)
  PROVE  CallInv'
<1>0. PICK new : new = Len(nodes')
  OBVIOUS
<1>1. /\ phase = "idle" /\ nodes' = Append(nodes, [id |-> i, vec |-> v])
      /\ links' = [n \in DOMAIN nodes' |->
                     IF n \in DOMAIN nodes THEN links[n] ELSE [l \in 0 .. top |-> <<>>]]
      /\ IF entryPoint = 0
           THEN entryPoint' = new /\ maxLevel' = top /\ UNCHANGED locals
           ELSE arriving' = new /\ Begin(v, top) /\ UNCHANGED <<entryPoint, maxLevel>>
  BY <1>0, Zenon DEF InsertNode
<1>2. /\ WellFormed /\ nodes \in Seq([id : Nat, vec : Vectors]) /\ maxLevel \in Nat
      /\ arriving = 0 /\ layer = 0 /\ ep = 0 /\ pending = <<>>
      /\ visited = {} /\ candidates = {} /\ results = {}
  BY <1>1, IdleIs, Zenon
<1>3. /\ nodes' \in Seq([id : Nat, vec : Vectors]) /\ new = Len(nodes) + 1 /\ new \in Nat \ {0}
      /\ DOMAIN nodes' = 1 .. new /\ DOMAIN nodes = 1 .. Len(nodes) /\ nodes' # <<>>
  BY <1>0, <1>1, <1>2
<1>4. /\ DOMAIN nodes' = DOMAIN nodes \cup {new} /\ new \notin DOMAIN nodes
      /\ 0 \notin DOMAIN nodes'
  BY <1>2, <1>3
<1>5. /\ DOMAIN links' = DOMAIN nodes'
      /\ \A n \in DOMAIN nodes : links'[n] = links[n]
      /\ links'[new] = [l \in 0 .. top |-> <<>>]
  BY <1>1, <1>4, Zenon
<1>6. /\ DOMAIN links'[new] = 0 .. top
      /\ \A l \in 0 .. top : links'[new][l] = <<>>
  BY <1>5
<1>7. ASSUME NEW n \in DOMAIN nodes, NEW l \in DOMAIN links[n]
      PROVE  ListIsWell(n, l)' /\ new \notin Range(links[n][l])
  <2>1. /\ links[n][l] \in Seq(DOMAIN nodes) /\ Len(links[n][l]) <= MaxConn(l)
        /\ IsInjective(links[n][l])
        /\ \A m \in Range(links[n][l]) : m \in DOMAIN nodes /\ m # n /\ l \in DOMAIN links[m]
    BY <1>2, <1>7, ListAt, Zenon
  <2>2. links'[n][l] = links[n][l]
    BY <1>5, <1>7, Zenon
  <2>3. links[n][l] \in Seq(DOMAIN nodes')
    BY <1>4, <2>1
  <2>4. \A m \in Range(links[n][l]) : m # n /\ l \in DOMAIN links'[m]
    BY <1>5, <2>1, Zenon
  <2> QED
    BY <1>4, <2>1, <2>2, <2>3, <2>4, Zenon DEF ListIsWell
<1>8. ASSUME NEW l \in 0 .. top PROVE l \in Nat /\ 0 .. l \subseteq 0 .. top /\ ListIsWell(new, l)'
  <2>1. l \in Nat /\ 0 .. l \subseteq 0 .. top
    OBVIOUS
  <2>2. links'[new][l] = <<>> /\ MaxConn(l) \in Nat
    BY <1>6, <2>1, MaxConnIs
  <2>3. <<>> \in Seq(DOMAIN nodes') /\ Len(<<>>) <= MaxConn(l)
    BY <2>2
  <2>4. IsInjective(<<>>) /\ Range(<<>>) = {}
    BY DEF IsInjective, Range
  <2>5. ListIsWell(new, l)'
    BY <2>2, <2>3, <2>4, Zenon DEF ListIsWell
  <2> QED
    BY <2>1, <2>5
<1>9. \A n \in DOMAIN nodes' :
        /\ 0 \in DOMAIN links'[n]
        /\ \A l \in DOMAIN links'[n] :
             l \in Nat /\ 0 .. l \subseteq DOMAIN links'[n] /\ ListIsWell(n, l)'
  <2>1. ASSUME NEW n \in DOMAIN nodes
        PROVE  /\ 0 \in DOMAIN links'[n]
               /\ \A l \in DOMAIN links'[n] :
                    l \in Nat /\ 0 .. l \subseteq DOMAIN links'[n] /\ ListIsWell(n, l)'
    BY <1>2, <1>5, <1>7, <2>1, Zenon DEF WellFormed
  <2>2. 0 \in 0 .. top
    OBVIOUS
  <2> QED
    BY <1>4, <1>6, <1>8, <2>1, <2>2, Zenon
<1>10. CASE entryPoint = 0
  <2>1. entryPoint' = new /\ maxLevel' = top /\ UNCHANGED locals
    BY <1>1, <1>10, Zenon
  <2>2. /\ UNCHANGED <<phase, arriving, query, target, layer, ep, pending>>
        /\ UNCHANGED <<visited, candidates, results>>
    BY <2>1, Zenon DEF locals, beam
  <2>3. DOMAIN nodes = {} /\ nodes = <<>>
    BY <1>2, <1>3, <1>10 DEF WellFormed
  <2>4. WellFormed'
    BY <1>3, <1>4, <1>5, <1>6, <1>9, <2>1, <2>3, Zenon DEF WellFormed
  <2>5. HnswTypeOK'
    BY <1>1, <1>2, <1>3, <2>1, <2>2, <2>4 DEF CallInv, HnswTypeOK
  <2>6. CallIsKnown'
    BY <1>1, <1>2, <2>2 DEF CallIsKnown
  <2>7. ArrivalIsKnown'
    BY <1>1, <1>2, <2>2 DEF ArrivalIsKnown
  <2> QED
    BY <2>5, <2>6, <2>7, Zenon DEF CallInv
<1>11. CASE entryPoint # 0
  <2>1. arriving' = new /\ Begin(v, top) /\ UNCHANGED <<entryPoint, maxLevel>>
    BY <1>1, <1>11, Zenon
  <2>2. entryPoint \in DOMAIN nodes /\ DOMAIN links[entryPoint] = 0 .. maxLevel
    BY <1>2, <1>11, Zenon DEF WellFormed
  <2>3. \A n \in DOMAIN nodes' : n # arriving' => DOMAIN links'[n] \subseteq 0 .. maxLevel'
    <3>1. ASSUME NEW n \in DOMAIN nodes PROVE DOMAIN links[n] \subseteq 0 .. maxLevel
      BY <1>2, <1>4, Zenon DEF WellFormed
    <3> QED
      BY <1>4, <1>5, <2>1, <3>1, Zenon
  <2>4. /\ entryPoint' \in DOMAIN nodes' /\ entryPoint # arriving'
        /\ DOMAIN links'[entryPoint] = 0 .. maxLevel
    BY <1>4, <1>5, <2>1, <2>2, Zenon
  <2>5. WellFormed'
    BY <1>3, <1>5, <1>9, <2>1, <2>3, <2>4, Zenon DEF WellFormed
  <2>6. HnswTypeOK' /\ CallIsKnown' /\ phase' = "descend" /\ layer' = maxLevel /\ target' = top
    BY <1>0, <1>2, <1>3, <2>1, <2>4, <2>5, BeginIs
  <2>7. ArrivalIsKnown'
    <3>1. \A n \in Settled' : n \in DOMAIN nodes /\ links'[n] = links[n]
      BY <1>4, <1>5, <2>1, Zenon DEF Settled
    <3>2. \A n \in Settled' : \A l \in DOMAIN links'[n] : arriving' \notin Range(links'[n][l])
      BY <1>7, <2>1, <3>1, Zenon
    <3> QED
      BY <1>6, <2>1, <2>4, <2>6, <3>2, Zenon DEF ArrivalIsKnown
  <2> QED
    BY <2>6, <2>7, Zenon DEF CallInv
<1> QED
  BY <1>10, <1>11, Zenon

\* A search begins in an index that is not empty.
LEMMA SearchIndexKeeps ==
  ASSUME CallInv, NEW v \in Vectors, SearchIndex(v), nodes # <<>> PROVE CallInv'
<1>1. /\ phase = "idle" /\ Begin(v, 0) /\ UNCHANGED <<nodes, links, entryPoint, maxLevel, arriving>>
  BY Zenon DEF SearchIndex, index
<1>2. /\ WellFormed /\ nodes \in Seq([id : Nat, vec : Vectors]) /\ maxLevel \in Nat
      /\ arriving = 0 /\ pending = <<>> /\ visited = {} /\ candidates = {} /\ results = {}
  BY <1>1, IdleIs, Zenon
<1>3. WellFormed'
  BY <1>1, <1>2, SameIndex, Zenon DEF index
<1>4. /\ entryPoint \in DOMAIN nodes' \ {arriving'} /\ DOMAIN links'[entryPoint] = 0 .. maxLevel
      /\ arriving' \in {0, Len(nodes')}
  BY <1>1, <1>2 DEF WellFormed
<1>5. HnswTypeOK' /\ CallIsKnown' /\ phase' = "descend"
  BY <1>1, <1>2, <1>3, <1>4, BeginIs
<1>6. ArrivalIsKnown'
  BY <1>1, <1>2, <1>5 DEF ArrivalIsKnown
<1> QED
  BY <1>5, <1>6, Zenon DEF CallInv

\* The empty index is well formed.
LEMMA NewIndexIs ==
  ASSUME NewIndex
  PROVE  WellFormed' /\ nodes' \in Seq([id : Nat, vec : Vectors]) /\ maxLevel' \in Nat
<1>1. nodes' = <<>> /\ links' = <<>> /\ entryPoint' = 0 /\ maxLevel' = 0
  BY Zenon DEF NewIndex
<1> QED
  BY <1>1 DEF WellFormed

-----------------------------------------------------------------------------
(***************************************************************************)
(* The vector store: type correctness                                      *)
(***************************************************************************)
\* The invariant of the store.
StoreInv == StoreTypeOK /\ CallIsKnown /\ ArrivalIsKnown

\* An iteration changes neither the nodes nor the search's query before it returns.
LEMMA IndexStepSame == ASSUME IndexStep PROVE nodes' = nodes
  BY Zenon DEF IndexStep, GreedyStep, LayerDown, SearchLevel, Expand, Visit, ExploreEnds,
     SelectNeighbors, AddConnection, NextLayer, InsertEnds, SearchEnds, index

\* The node that joins the index has the id and the vector it is given.
LEMMA InsertNodeIs ==
  ASSUME CallInv, NEW i \in Nat, NEW v \in Vectors, NEW top, InsertNode(i, v, top)
  PROVE  /\ phase = "idle" /\ phase' \in {"idle", "descend"}
         /\ DOMAIN nodes' = DOMAIN nodes \cup {Len(nodes) + 1}
         /\ Len(nodes) + 1 \notin DOMAIN nodes
         /\ nodes'[Len(nodes) + 1] = [id |-> i, vec |-> v]
         /\ \A n \in DOMAIN nodes : nodes'[n] = nodes[n]
<1>1. /\ phase = "idle" /\ nodes' = Append(nodes, [id |-> i, vec |-> v])
      /\ phase' \in {"idle", "descend"}
  BY Zenon DEF InsertNode, Begin, locals
<1>2. nodes \in Seq([id : Nat, vec : Vectors])
  BY DEF CallInv, HnswTypeOK
<1> QED
  BY <1>1, <1>2

\* The ids the index knows after it.
LEMMA InsertNodeIndexed ==
  ASSUME CallInv, NEW i \in Nat, NEW v \in Vectors, NEW top, InsertNode(i, v, top)
  PROVE  Indexed' = Indexed \cup {i}
<1> DEFINE new == Len(nodes) + 1
<1>1. /\ DOMAIN nodes' = DOMAIN nodes \cup {new} /\ nodes'[new] = [id |-> i, vec |-> v]
      /\ \A n \in DOMAIN nodes : nodes'[n] = nodes[n]
  BY InsertNodeIs
<1>2. nodes'[new].id = i
  BY <1>1
<1> HIDE DEF new
<1> QED
  BY <1>1, <1>2 DEF Indexed

\* New rows come after all the others, which stay.
LEMMA InsertingIs ==
  ASSUME StoreTypeOK, NEW batch \in Seq(Vectors), Inserting(batch)
  PROVE  /\ lastId \in Nat /\ lastId' \in Nat /\ lastId' = lastId + Len(batch)
         /\ chunks' \in [DOMAIN chunks' -> Vectors]
         /\ DOMAIN chunks' = DOMAIN chunks \cup NextId .. lastId'
         /\ \A i \in DOMAIN chunks : i \in 1 .. lastId /\ chunks'[i] = chunks[i]
         /\ \A i \in NextId .. lastId' : i > lastId /\ chunks'[i] = batch[i - lastId]
         /\ used' \subseteq Vectors
<1>1. /\ lastId \in Nat /\ DOMAIN chunks \subseteq 1 .. lastId
      /\ chunks \in [DOMAIN chunks -> Vectors] /\ used \subseteq Vectors
  BY Zenon DEF StoreTypeOK
<1>2. /\ NextId = lastId + 1 /\ Len(batch) \in Nat
      /\ lastId' = NextId + Len(batch) - 1 /\ used' = used \cup Range(batch)
      /\ chunks' = [i \in DOMAIN chunks \cup NextId .. NextId + Len(batch) - 1 |->
                      IF i \in NextId .. NextId + Len(batch) - 1
                        THEN batch[i - NextId + 1] ELSE chunks[i]]
  BY DEF Inserting, NextId
<1>3. lastId' \in Nat /\ lastId' = lastId + Len(batch)
  BY <1>1, <1>2
<1>4. \A i \in NextId .. lastId' : /\ i > lastId /\ i \notin DOMAIN chunks
                                   /\ i - lastId \in 1 .. Len(batch)
                                   /\ i - NextId + 1 = i - lastId
  BY <1>1, <1>2, <1>3
<1>5. /\ DOMAIN chunks' = DOMAIN chunks \cup NextId .. lastId'
      /\ \A i \in NextId .. lastId' : chunks'[i] = batch[i - NextId + 1]
      /\ \A i \in DOMAIN chunks : i \notin NextId .. lastId' => chunks'[i] = chunks[i]
      /\ chunks' = [i \in DOMAIN chunks' |-> chunks'[i]]
  BY <1>2, Zenon
<1>6. \A i \in 1 .. Len(batch) : batch[i] \in Vectors
  OBVIOUS
<1>7. /\ \A i \in DOMAIN chunks : chunks'[i] = chunks[i] /\ chunks'[i] \in Vectors
      /\ \A i \in NextId .. lastId' : chunks'[i] = batch[i - lastId] /\ chunks'[i] \in Vectors
  BY <1>1, <1>4, <1>5, <1>6
<1>8. \A i \in DOMAIN chunks' : chunks'[i] \in Vectors
  BY <1>5, <1>7, Zenon
<1>9. Range(batch) \subseteq Vectors
  BY DEF Range
<1> QED
  BY <1>1, <1>2, <1>3, <1>4, <1>5, <1>7, <1>8, <1>9

\* The table and the observers keep their types.
TableIsTyped ==
  /\ chunks \in [DOMAIN chunks -> Vectors] /\ DOMAIN chunks \subseteq 1 .. lastId
  /\ lastId \in Nat /\ scanned \in 0 .. lastId
  /\ built \in BOOLEAN /\ building \in BOOLEAN /\ (building => built)
  /\ used \subseteq Vectors /\ unseen \subseteq 1 .. lastId
  /\ opens \in 1 .. MaxOpens
  /\ hits \in Seq(1 .. lastId)
  /\ Indexed \subseteq 1 .. lastId

\* The invariant is of the table and of the index.
LEMMA StoreInvIs == StoreInv <=> TableIsTyped /\ CallInv
  BY Zenon DEF StoreInv, StoreTypeOK, TableIsTyped, CallInv

\* Index and call stay as they are.
LEMMA SameCall ==
  ASSUME CallInv, UNCHANGED <<index, locals>>
  PROVE  CallInv' /\ Indexed' = Indexed
<1>1. /\ UNCHANGED <<nodes, links, entryPoint, maxLevel, phase, arriving, query, target, layer>>
      /\ UNCHANGED <<ep, visited, candidates, results, pending>>
  BY Zenon DEF index, locals, beam
<1>2. HnswTypeOK /\ CallIsKnown /\ ArrivalIsKnown /\ WellFormed
  BY Zenon DEF CallInv, HnswTypeOK
<1>3. WellFormed' /\ Settled' = Settled /\ Reaching' = Reaching
  BY <1>1, <1>2, SameIndex, Zenon DEF index
<1>4. HnswTypeOK'
  BY <1>1, <1>2, <1>3, Zenon DEF HnswTypeOK
<1>5. CallIsKnown'
  BY <1>1, <1>2, <1>3, Zenon DEF CallIsKnown
<1>6. ArrivalIsKnown'
  BY <1>1, <1>2, <1>3, Zenon DEF ArrivalIsKnown
<1>7. Indexed' = Indexed
  BY <1>1, Zenon DEF Indexed
<1> QED
  BY <1>4, <1>5, <1>6, <1>7, Zenon DEF CallInv

\* With more ids every set and sequence of ids keeps its type.
LEMMA MoreIds ==
  ASSUME TableIsTyped, lastId' \in Nat, lastId <= lastId'
  PROVE  /\ 1 .. lastId \subseteq 1 .. lastId' /\ unseen \subseteq 1 .. lastId'
         /\ Indexed \subseteq 1 .. lastId' /\ scanned \in 0 .. lastId'
         /\ hits \in Seq(1 .. lastId')
<1>1. 1 .. lastId \subseteq 1 .. lastId' /\ 0 .. lastId \subseteq 0 .. lastId'
  BY DEF TableIsTyped
<1> QED
  BY <1>1 DEF TableIsTyped

\* A chunk is a sequence of one, two chunks are one of two.
LEMMA InsertedIs ==
  /\ \A v \in Fresh : v \in Vectors /\ <<v>> \in Seq(Vectors) /\ Len(<<v>>) = 1 /\ <<v>>[1] = v
  /\ \A b \in Batches : b \in Seq(Vectors) /\ Len(b) = 2
  BY DEF Fresh, Batches

\* One chunk reaches the table, and the index if there is one.
LEMMA InsertKeeps ==
  ASSUME StoreInv, NEW v \in Fresh, NEW top \in Levels, Insert(v, top)
  PROVE  StoreInv'
<1>1. TableIsTyped /\ CallInv /\ StoreTypeOK
  BY StoreInvIs, Zenon DEF StoreInv
<1>2. v \in Vectors /\ <<v>> \in Seq(Vectors) /\ Len(<<v>>) = 1
  BY InsertedIs
<1>3. /\ Inserting(<<v>>)
      /\ UNCHANGED <<built, building, scanned, hits, unseen, opens>>
      /\ IF built THEN InsertNode(NextId, v, top) ELSE UNCHANGED <<index, locals>>
  BY Zenon DEF Insert
<1>4. /\ lastId \in Nat /\ lastId' \in Nat /\ lastId' = lastId + 1
      /\ chunks' \in [DOMAIN chunks' -> Vectors]
      /\ DOMAIN chunks' = DOMAIN chunks \cup NextId .. lastId' /\ used' \subseteq Vectors
  BY <1>1, <1>2, <1>3, InsertingIs
<1>5. /\ NextId \in Nat /\ NextId \in 1 .. lastId' /\ NextId .. lastId' \subseteq 1 .. lastId'
      /\ top \in Nat /\ lastId <= lastId'
  BY <1>4, StoreConstants DEF NextId
<1>6. CallInv' /\ Indexed' \subseteq Indexed \cup {NextId}
  <2>1. CASE built
    BY <1>1, <1>2, <1>3, <1>5, <2>1, InsertNodeKeeps, InsertNodeIndexed, Zenon
  <2>2. CASE ~built
    BY <1>1, <1>3, <2>2, SameCall, Zenon
  <2> QED
    BY <2>1, <2>2, Zenon
<1>7. TableIsTyped'
  <2>1. /\ 1 .. lastId \subseteq 1 .. lastId' /\ unseen \subseteq 1 .. lastId'
        /\ Indexed \subseteq 1 .. lastId' /\ scanned \in 0 .. lastId'
        /\ hits \in Seq(1 .. lastId')
    BY <1>1, <1>4, <1>5, MoreIds, Zenon
  <2> QED
    BY <1>1, <1>3, <1>4, <1>5, <1>6, <2>1, Zenon DEF TableIsTyped
<1> QED
  BY <1>6, <1>7, StoreInvIs, PTL

\* A batch reaches the table only.
LEMMA InsertBatchKeeps ==
  ASSUME StoreInv, NEW batch \in Batches, InsertBatch(batch)
  PROVE  StoreInv'
<1>1. TableIsTyped /\ CallInv /\ StoreTypeOK
  BY StoreInvIs, Zenon DEF StoreInv
<1>2. batch \in Seq(Vectors) /\ Len(batch) \in Nat
  BY InsertedIs
<1>3. /\ Inserting(batch) /\ UNCHANGED <<index, locals>>
      /\ UNCHANGED <<built, building, scanned, hits, opens>>
      /\ unseen' = IF built THEN unseen \cup NextId .. lastId' ELSE unseen
  BY Zenon DEF InsertBatch
<1>4. /\ lastId \in Nat /\ lastId' \in Nat /\ lastId' = lastId + Len(batch)
      /\ chunks' \in [DOMAIN chunks' -> Vectors]
      /\ DOMAIN chunks' = DOMAIN chunks \cup NextId .. lastId' /\ used' \subseteq Vectors
  BY <1>1, <1>2, <1>3, InsertingIs
<1>5. NextId .. lastId' \subseteq 1 .. lastId' /\ lastId <= lastId'
  BY <1>2, <1>4 DEF NextId
<1>6. CallInv' /\ Indexed' = Indexed
  BY <1>1, <1>3, SameCall, Zenon
<1>7. TableIsTyped'
  <2>1. /\ 1 .. lastId \subseteq 1 .. lastId' /\ unseen \subseteq 1 .. lastId'
        /\ Indexed \subseteq 1 .. lastId' /\ scanned \in 0 .. lastId'
        /\ hits \in Seq(1 .. lastId')
    BY <1>1, <1>4, <1>5, MoreIds, Zenon
  <2> QED
    BY <1>1, <1>3, <1>4, <1>5, <1>6, <2>1, Zenon DEF TableIsTyped
<1> QED
  BY <1>6, <1>7, StoreInvIs, PTL

\* The rows of a source are deleted from the table only.
LEMMA DeleteBySourceKeeps ==
  ASSUME StoreInv, NEW source, DeleteBySource(source)
  PROVE  StoreInv'
<1>1. TableIsTyped /\ CallInv
  BY StoreInvIs, Zenon
<1>2. /\ UNCHANGED <<index, locals>>
      /\ UNCHANGED <<lastId, built, building, scanned, hits, used, unseen, opens>>
      /\ chunks' = Restrict(chunks, {i \in DOMAIN chunks : SourceOf[chunks[i]] # source})
  BY Zenon DEF DeleteBySource
<1>3. chunks' \in [DOMAIN chunks' -> Vectors] /\ DOMAIN chunks' \subseteq DOMAIN chunks
  BY <1>1, <1>2 DEF TableIsTyped, Restrict
<1>4. CallInv' /\ Indexed' = Indexed
  BY <1>1, <1>2, SameCall, Zenon
<1>5. TableIsTyped'
  BY <1>1, <1>2, <1>3, <1>4 DEF TableIsTyped
<1> QED
  BY <1>4, <1>5, StoreInvIs, PTL

\* An empty index knows no id.
LEMMA NewIndexKnows == ASSUME NewIndex PROVE Indexed' = {}
<1>1. DOMAIN nodes' = {}
  BY DEF NewIndex
<1> QED
  BY <1>1 DEF Indexed

\* An empty index takes the place of the index while no call is under way.
LEMMA NewIndexKeeps ==
  ASSUME CallInv, phase = "idle", NewIndex, UNCHANGED locals
  PROVE  CallInv'
<1>1. /\ WellFormed' /\ nodes' = <<>> /\ maxLevel' \in Nat /\ maxLevel' = 0
      /\ nodes' \in Seq([id : Nat, vec : Vectors])
  BY NewIndexIs DEF NewIndex
<1>2. /\ arriving = 0 /\ layer = 0 /\ ep = 0 /\ pending = <<>>
      /\ visited = {} /\ candidates = {} /\ results = {} /\ target \in Nat /\ query = NoVector
  BY DEF CallInv, HnswTypeOK, CallIsKnown
<1>3. /\ UNCHANGED <<phase, arriving, query, target, layer, ep, pending>>
      /\ UNCHANGED <<visited, candidates, results>>
  BY Zenon DEF locals, beam
<1>4. HnswTypeOK'
  BY <1>1, <1>2, <1>3 DEF HnswTypeOK
<1>5. CallIsKnown'
  BY <1>2, <1>3 DEF CallIsKnown
<1>6. ArrivalIsKnown'
  BY <1>2, <1>3 DEF ArrivalIsKnown
<1> QED
  BY <1>4, <1>5, <1>6, Zenon DEF CallInv

\* A build begins with an empty index.
LEMMA BuildIndexKeeps ==
  ASSUME StoreInv, BuildIndex
  PROVE  StoreInv'
<1>1. TableIsTyped /\ CallInv
  BY StoreInvIs, Zenon
<1>2. /\ phase = "idle" /\ NewIndex /\ UNCHANGED locals
      /\ built' = TRUE /\ building' = TRUE /\ unseen' = {}
      /\ UNCHANGED <<chunks, lastId, scanned, hits, used, opens>>
  BY Zenon DEF BuildIndex, Ready
<1>3. CallInv' /\ Indexed' = {}
  BY <1>1, <1>2, NewIndexKeeps, NewIndexKnows, Zenon
<1>4. TableIsTyped'
  BY <1>1, <1>2, <1>3 DEF TableIsTyped
<1> QED
  BY <1>3, <1>4, StoreInvIs, PTL

\* A row that is read joins the index.
LEMMA ScanRowKeeps ==
  ASSUME StoreInv, NEW top \in Levels, ScanRow(top)
  PROVE  StoreInv'
<1>1. TableIsTyped /\ CallInv
  BY StoreInvIs, Zenon
<1>2. PICK i \in DOMAIN chunks : InsertNode(i, chunks[i], top) /\ scanned' = i
  BY Zenon DEF ScanRow, Unscanned
<1>3. UNCHANGED <<chunks, lastId, built, building, hits, used, unseen, opens>>
  BY Zenon DEF ScanRow
<1>4. i \in 1 .. lastId /\ i \in Nat /\ i \in 0 .. lastId /\ chunks[i] \in Vectors /\ top \in Nat
  BY <1>1, StoreConstants DEF TableIsTyped
<1>5. CallInv' /\ Indexed' = Indexed \cup {i}
  BY <1>1, <1>2, <1>4, InsertNodeKeeps, InsertNodeIndexed, Zenon
<1>6. TableIsTyped'
  BY <1>1, <1>2, <1>3, <1>4, <1>5 DEF TableIsTyped
<1> QED
  BY <1>5, <1>6, StoreInvIs, PTL

\* A build ends.
LEMMA ScanEndsKeeps ==
  ASSUME StoreInv, ScanEnds
  PROVE  StoreInv'
<1>1. TableIsTyped /\ CallInv
  BY StoreInvIs, Zenon
<1>2. /\ building' = FALSE /\ scanned' = 0 /\ unseen' = Unscanned
      /\ UNCHANGED <<index, locals>> /\ UNCHANGED <<chunks, lastId, built, hits, used, opens>>
  BY Zenon DEF ScanEnds
<1>3. CallInv' /\ Indexed' = Indexed
  BY <1>1, <1>2, SameCall, Zenon
<1>4. Unscanned \subseteq 1 .. lastId /\ 0 \in 0 .. lastId
  BY <1>1 DEF Unscanned, TableIsTyped
<1>5. TableIsTyped'
  BY <1>1, <1>2, <1>3, <1>4, Zenon DEF TableIsTyped
<1> QED
  BY <1>3, <1>5, StoreInvIs, PTL

\* A sequence of elements of a set is one of a larger set.
LEMMA WiderSeq ==
  ASSUME NEW S, NEW T, S \subseteq T, NEW s \in Seq(S)
  PROVE  s \in Seq(T)
<1>1. Len(s) \in Nat /\ s \in [1 .. Len(s) -> S]
  OBVIOUS
<1>2. s \in [1 .. Len(s) -> T]
  BY <1>1
<1> QED
  BY <1>1, <1>2

\* The rows a search without an index returns.
LEMMA BruteForceIs ==
  ASSUME StoreInv, NEW v \in Vectors, BruteForce(v)
  PROVE  /\ hits' \in Seq(DOMAIN chunks) /\ Len(hits') <= TopK /\ IsInjective(hits')
         /\ \A i, j \in DOMAIN hits' :
              i < j => Distance[v, chunks[hits'[i]]] <= Distance[v, chunks[hits'[j]]]
<1> DEFINE far == [i \in DOMAIN chunks |-> Distance[v, chunks[i]]]
<1>1. DOMAIN chunks \subseteq 1 .. lastId /\ lastId \in Nat /\ TopK \in Nat
  BY HnswConstants DEF StoreInv, StoreTypeOK
<1>2. IsFiniteSet(DOMAIN chunks)
  <2>1. IsFiniteSet(1 .. lastId)
    BY <1>1, FS_Interval
  <2> QED
    BY <1>1, <2>1, FS_Subset
<1>3. DOMAIN far = DOMAIN chunks /\ \A i \in DOMAIN chunks : far[i] = Distance[v, chunks[i]]
  OBVIOUS
<1>4. hits' \in NearestFirst(far, TopK)
  BY Zenon DEF BruteForce
<1> HIDE DEF far
<1>5. /\ hits' \in Seq(DOMAIN far) /\ Len(hits') <= TopK /\ IsInjective(hits')
      /\ \A i, j \in DOMAIN hits' : i < j => far[hits'[i]] <= far[hits'[j]]
  BY <1>1, <1>2, <1>3, <1>4, NearestFirstIs
<1>6. \A i \in DOMAIN hits' : hits'[i] \in DOMAIN far
  BY <1>5
<1> QED
  BY <1>3, <1>5, <1>6, Zenon

\* A search begins, in the index or in the table.
LEMMA SearchKeeps ==
  ASSUME StoreInv, NEW v \in Vectors, Search(v)
  PROVE  StoreInv'
<1>1. TableIsTyped /\ CallInv
  BY StoreInvIs, Zenon
<1>2. /\ phase = "idle"
      /\ UNCHANGED <<chunks, lastId, built, building, scanned, used, unseen, opens>>
      /\ IF UsesIndex THEN SearchIndex(v) /\ UNCHANGED hits ELSE BruteForce(v)
  BY Zenon DEF Search, Ready
<1>3. CASE UsesIndex
  <2>1. SearchIndex(v) /\ hits' = hits /\ nodes # <<>>
    BY <1>2, <1>3, Zenon DEF UsesIndex
  <2>2. CallInv' /\ nodes' = nodes
    BY <1>1, <2>1, SearchIndexKeeps, Zenon DEF SearchIndex, index
  <2>3. TableIsTyped'
    BY <1>1, <1>2, <2>1, <2>2, Zenon DEF TableIsTyped, Indexed
  <2> QED
    BY <2>2, <2>3, StoreInvIs, PTL
<1>4. CASE ~UsesIndex
  <2>1. BruteForce(v)
    BY <1>2, <1>4, Zenon
  <2>2. /\ UNCHANGED <<nodes, links, entryPoint, maxLevel, arriving, target, layer, ep>>
        /\ UNCHANGED <<visited, candidates, results, pending>>
        /\ phase' = "found" /\ query' = v
    BY <2>1, Zenon DEF BruteForce, index, beam
  <2>3. /\ HnswTypeOK /\ CallIsKnown /\ ArrivalIsKnown /\ WellFormed
        /\ arriving = 0 /\ visited = {} /\ candidates = {} /\ results = {}
    BY <1>1, <1>2 DEF CallInv, HnswTypeOK, CallIsKnown
  <2>4. WellFormed' /\ Settled' = Settled /\ Reaching' = Reaching
    BY <2>2, <2>3, SameIndex, Zenon DEF index
  <2>5. HnswTypeOK'
    BY <2>2, <2>3, <2>4 DEF HnswTypeOK
  <2>6. CallIsKnown'
    BY <2>2, <2>3, <2>4 DEF CallIsKnown
  <2>7. ArrivalIsKnown'
    BY <2>2, <2>3, <2>4 DEF ArrivalIsKnown
  <2>8. hits' \in Seq(1 .. lastId)
    <3>1. hits' \in Seq(DOMAIN chunks) /\ DOMAIN chunks \subseteq 1 .. lastId
      BY <1>1, <2>1, BruteForceIs, Zenon DEF TableIsTyped
    <3> QED
      BY <3>1, WiderSeq
  <2>9. TableIsTyped'
    BY <1>1, <1>2, <2>2, <2>8, Zenon DEF TableIsTyped, Indexed
  <2>10. CallInv'
    BY <2>5, <2>6, <2>7, Zenon DEF CallInv
  <2> QED
    BY <2>9, <2>10, StoreInvIs, PTL
<1> QED
  BY <1>3, <1>4, Zenon

\* An iteration of the call under way leaves the table alone.
LEMMA CallStepKeeps ==
  ASSUME StoreInv, IndexStep,
         UNCHANGED <<chunks, lastId, built, building, scanned, hits, used, unseen, opens>>
  PROVE  StoreInv'
<1>1. TableIsTyped /\ CallInv
  BY StoreInvIs, Zenon
<1>2. CallInv' /\ Indexed' = Indexed
  BY <1>1, IndexStepKeeps, IndexStepSame, Zenon DEF Indexed
<1>3. TableIsTyped'
  BY <1>1, <1>2, Zenon DEF TableIsTyped
<1> QED
  BY <1>2, <1>3, StoreInvIs, PTL

\* A node that was found is looked up in the table.
LEMMA FetchHitKeeps ==
  ASSUME StoreInv, FetchHit
  PROVE  StoreInv'
<1>1. TableIsTyped /\ CallInv /\ HnswTypeOK /\ CallIsKnown /\ ArrivalIsKnown /\ WellFormed
  BY StoreInvIs, Zenon DEF CallInv, HnswTypeOK
<1>2. /\ phase = "found" /\ pending # <<>> /\ pending' = Tail(pending)
      /\ UNCHANGED <<nodes, links, entryPoint, maxLevel, phase, arriving, query, target, layer>>
      /\ UNCHANGED <<ep, visited, candidates, results>>
      /\ UNCHANGED <<chunks, lastId, built, building, scanned, used, unseen, opens>>
      /\ (hits' = hits \/ \E id \in DOMAIN chunks : hits' = Append(hits, id))
  BY Zenon DEF FetchHit, index, beam
<1>3. pending \in Seq(DOMAIN nodes) /\ Tail(pending) \in Seq(DOMAIN nodes)
  BY <1>1, <1>2, TailIs, Zenon DEF HnswTypeOK
<1>4. WellFormed' /\ Settled' = Settled /\ Reaching' = Reaching
  BY <1>1, <1>2, SameIndex, Zenon DEF index
<1>5. HnswTypeOK'
  BY <1>1, <1>2, <1>3, <1>4, Zenon DEF HnswTypeOK
<1>6. CallIsKnown'
  BY <1>1, <1>2, <1>4 DEF CallIsKnown
<1>7. ArrivalIsKnown'
  BY <1>1, <1>2, <1>4 DEF ArrivalIsKnown
<1>8. hits' \in Seq(1 .. lastId)
  <2>1. hits \in Seq(1 .. lastId) /\ DOMAIN chunks \subseteq 1 .. lastId
    BY <1>1, Zenon DEF TableIsTyped
  <2>2. ASSUME NEW id \in 1 .. lastId PROVE Append(hits, id) \in Seq(1 .. lastId)
    BY <2>1
  <2> QED
    BY <1>2, <2>1, <2>2, Zenon
<1>9. TableIsTyped'
  BY <1>1, <1>2, <1>8, Zenon DEF TableIsTyped, Indexed
<1>10. CallInv'
  BY <1>5, <1>6, <1>7, Zenon DEF CallInv
<1> QED
  BY <1>9, <1>10, StoreInvIs, PTL

\* A search returns.
LEMMA SearchReturnsKeeps ==
  ASSUME StoreInv, SearchReturns
  PROVE  StoreInv'
<1>1. TableIsTyped /\ CallInv /\ HnswTypeOK /\ CallIsKnown
  BY StoreInvIs, Zenon DEF CallInv
<1>2. /\ phase = "found" /\ NoCall /\ hits' = <<>>
      /\ UNCHANGED <<nodes, links, entryPoint, maxLevel>>
      /\ UNCHANGED <<chunks, lastId, built, building, scanned, used, unseen, opens>>
  BY Zenon DEF SearchReturns, index
<1>3. arriving' = arriving
  BY <1>1, <1>2 DEF CallIsKnown, NoCall
<1>4. WellFormed'
  BY <1>1, <1>2, <1>3, SameIndex, Zenon DEF HnswTypeOK, index
<1>5. nodes' \in Seq([id : Nat, vec : Vectors]) /\ maxLevel' \in Nat
  BY <1>1, <1>2, Zenon DEF HnswTypeOK
<1>6. CallInv'
  BY <1>2, <1>4, <1>5, NoCallKeeps, Zenon
<1>7. <<>> \in Seq(1 .. lastId)
  OBVIOUS
<1>8. TableIsTyped'
  BY <1>1, <1>2, <1>7, Zenon DEF TableIsTyped, Indexed
<1> QED
  BY <1>6, <1>8, StoreInvIs, PTL

\* A store that is opened has no index and no call.
LEMMA ReopenKeeps ==
  ASSUME StoreInv, Reopen
  PROVE  StoreInv'
<1>1. TableIsTyped /\ CallInv
  BY StoreInvIs, Zenon
<1>2. /\ NewIndex /\ NoCall /\ opens < MaxOpens /\ opens' = opens + 1
      /\ built' = FALSE /\ building' = FALSE /\ scanned' = 0 /\ hits' = <<>> /\ unseen' = {}
      /\ UNCHANGED <<chunks, lastId, used>>
  BY Zenon DEF Reopen
<1>3. CallInv' /\ Indexed' = {}
  BY <1>2, NewIndexIs, NewIndexKnows, NoCallKeeps, Zenon
<1>4. /\ 0 \in 0 .. lastId /\ opens' \in 1 .. MaxOpens /\ <<>> \in Seq(1 .. lastId)
  BY <1>1, <1>2, StoreConstants DEF TableIsTyped
<1>5. TableIsTyped'
  BY <1>1, <1>2, <1>3, <1>4 DEF TableIsTyped
<1> QED
  BY <1>3, <1>5, StoreInvIs, PTL

\* A new store.
LEMMA StoreBegins == StoreInit => StoreInv
<1> SUFFICES ASSUME StoreInit PROVE StoreInv
  OBVIOUS
<1>1. /\ nodes = <<>> /\ links = <<>> /\ entryPoint = 0 /\ maxLevel = 0 /\ phase = "idle"
      /\ arriving = 0 /\ query = NoVector /\ target = 0 /\ layer = 0 /\ ep = 0
      /\ visited = {} /\ candidates = {} /\ results = {} /\ pending = <<>>
  BY Zenon DEF StoreInit, HnswInit
<1>2. HnswTypeOK /\ CallIsKnown /\ ArrivalIsKnown
  BY <1>1 DEF HnswTypeOK, WellFormed, CallIsKnown, ArrivalIsKnown
<1>3. /\ chunks = [i \in {} |-> NoVector] /\ lastId = 0 /\ built = FALSE /\ building = FALSE
      /\ scanned = 0 /\ hits = <<>> /\ used = {} /\ unseen = {} /\ opens = 1
  BY Zenon DEF StoreInit
<1>4. DOMAIN nodes = {} /\ DOMAIN chunks = {}
  BY <1>1, <1>3
<1>5. chunks \in [DOMAIN chunks -> Vectors]
  BY <1>3, <1>4
<1>6. Indexed = {}
  BY <1>4 DEF Indexed
<1>7. /\ 0 \in Nat /\ 0 \in 0 .. 0 /\ 1 \in 1 .. MaxOpens /\ <<>> \in Seq(1 .. 0)
      /\ FALSE \in BOOLEAN /\ {} \subseteq 1 .. 0 /\ {} \subseteq Vectors
  BY StoreConstants
<1>8. TableIsTyped
  BY <1>3, <1>4, <1>5, <1>6, <1>7, Zenon DEF TableIsTyped
<1> QED
  BY <1>2, <1>8, StoreInvIs, Zenon DEF CallInv

\* Every operation of the store keeps the index well formed.
LEMMA StoreStepKeeps == StoreInv /\ [StoreNext]_storeVars => StoreInv'
<1> SUFFICES ASSUME StoreInv, [StoreNext]_storeVars PROVE StoreInv'
  OBVIOUS
<1>1. CASE \E chunk \in Fresh, level \in Levels : Insert(chunk, level)
  BY <1>1, InsertKeeps, Zenon
<1>2. CASE \E batch \in Batches : InsertBatch(batch)
  BY <1>2, InsertBatchKeeps, Zenon
<1>3. CASE \E source \in Range(SourceOf) : DeleteBySource(source)
  BY <1>3, DeleteBySourceKeeps, Zenon
<1>4. CASE BuildIndex \/ EnsureIndex
  BY <1>4, BuildIndexKeeps, Zenon DEF EnsureIndex
<1>5. CASE \E level \in Levels : ScanRow(level)
  BY <1>5, ScanRowKeeps, Zenon
<1>6. CASE ScanEnds
  BY <1>6, ScanEndsKeeps, Zenon
<1>7. CASE \E vec \in Vectors : Search(vec)
  BY <1>7, SearchKeeps, Zenon
<1>8. CASE IndexStep /\ UNCHANGED <<chunks, lastId, built, building, scanned, hits, used, unseen,
                                    opens>>
  BY <1>8, CallStepKeeps, Zenon
<1>9. CASE FetchHit
  BY <1>9, FetchHitKeeps, Zenon
<1>10. CASE SearchReturns
  BY <1>10, SearchReturnsKeeps, Zenon
<1>11. CASE Reopen
  BY <1>11, ReopenKeeps, Zenon
<1>12. CASE UNCHANGED storeVars
  <2>1. TableIsTyped /\ CallInv
    BY StoreInvIs, Zenon
  <2>2. CallInv' /\ Indexed' = Indexed
    BY <1>12, <2>1, SameCall, Zenon DEF storeVars
  <2>3. TableIsTyped'
    BY <1>12, <2>1, <2>2, Zenon DEF storeVars, TableIsTyped
  <2> QED
    BY <2>2, <2>3, StoreInvIs, PTL
<1> QED
  BY <1>1, <1>2, <1>3, <1>4, <1>5, <1>6, <1>7, <1>8, <1>9, <1>10, <1>11, <1>12, Zenon
     DEF StoreNext

\* Every variable of the store and of its index has its type, and the index is well
\* formed in the middle of an insertion, of a build and of a search: a list names
\* other nodes of its layer, each once and not more than its capacity
\* (hnsw.go:73-138, 269-301).
THEOREM StoreTypeCorrect == StoreSpec => []StoreTypeOK
<1>1. StoreInv => StoreTypeOK
  BY Zenon DEF StoreInv
<1> QED
  BY <1>1, StoreBegins, StoreStepKeeps, PTL DEF StoreSpec

-----------------------------------------------------------------------------
(***************************************************************************)
(* The search of a layer                                                   *)
(***************************************************************************)
\* In the middle of it: a node that was visited and is no result is no nearer than any
\* of a full set of results, and the neighbours of a result that is no candidate any
\* more are visited or about to be.
BeamIsKnown ==
  phase = "explore" =>
    /\ candidates \cup results \subseteq visited
    /\ results # {} /\ Cardinality(results) <= Ef
    /\ \A v \in visited \ results :
         Cardinality(results) = Ef /\ \A r \in results : ToQuery(v) >= ToQuery(r)
    /\ \A r \in results \ candidates :
         Range(NeighborsAt(r, layer)) \subseteq visited \cup Range(pending)

\* The two invariants of the search of a layer.
BeamInv == BeamIsKnown /\ SearchIsLocallyOptimal

\* A node has an id and a vector.
LEMMA NodeIs ==
  ASSUME nodes \in Seq([id : Nat, vec : Vectors]), NEW n \in DOMAIN nodes
  PROVE  nodes[n].id \in Nat /\ nodes[n].vec \in Vectors
<1>1. n \in 1 .. Len(nodes)
  OBVIOUS
<1>2. nodes[n] \in [id : Nat, vec : Vectors]
  BY <1>1, ElementOfSeq, Zenon
<1> QED
  BY <1>2

\* The width of the beam is positive, and distances are numbers.
LEMMA MeasuresAre ==
  ASSUME HnswTypeOK
  PROVE  /\ Ef \in Nat \ {0}
         /\ phase # "idle" => \A n \in DOMAIN nodes : ToQuery(n) \in Nat
<1>1. Ef \in Nat \ {0}
  BY HnswConstants DEF Ef
<1>2. ASSUME phase # "idle", NEW n \in DOMAIN nodes PROVE ToQuery(n) \in Nat
  <2>1. query \in Vectors /\ nodes \in Seq([id : Nat, vec : Vectors])
    BY <1>2, Zenon DEF HnswTypeOK
  <2>2. nodes[n].vec \in Vectors
    BY <2>1, NodeIs, Zenon
  <2> QED
    BY <2>1, <2>2, HnswConstants DEF ToQuery
<1> QED
  BY <1>1, <1>2

\* What has to be shown of the sets an iteration leaves.
LEMMA BeamMoves ==
  ASSUME UNCHANGED <<nodes, links, arriving, query, layer>>,
         NEW V, NEW C, NEW R, NEW P,
         visited' = V, candidates' = C, results' = R, pending' = P,
         C \cup R \subseteq V, R # {}, Cardinality(R) <= Ef,
         \A v \in V \ R : Cardinality(R) = Ef /\ \A r \in R : ToQuery(v) >= ToQuery(r),
         \A r \in R \ C : Range(NeighborsAt(r, layer)) \subseteq V \cup Range(P)
  PROVE  BeamIsKnown'
<1>1. nodes' = nodes /\ links' = links /\ query' = query /\ layer' = layer /\ Ef' = Ef
  BY Zenon DEF Ef
<1>2. /\ candidates' \cup results' \subseteq visited'
      /\ results' # {} /\ Cardinality(results') <= Ef
      /\ \A v \in visited' \ results' :
           Cardinality(results') = Ef /\ \A r \in results' : ToQuery(v) >= ToQuery(r)
      /\ \A r \in results' \ candidates' :
           Range(NeighborsAt(r, layer)) \subseteq visited' \cup Range(pending')
  BY Zenon
<1> QED
  BY <1>1, <1>2, Zenon DEF BeamIsKnown, ToQuery, NeighborsAt

\* The beam begins with one node.
LEMMA SearchLevelBeam == ASSUME CallInv, SearchLevel PROVE BeamIsKnown'
<1>1. HnswTypeOK /\ Ef \in Nat \ {0} /\ Cardinality({ep}) = 1
  BY MeasuresAre, FS_Singleton DEF CallInv
<1>2. /\ UNCHANGED <<nodes, links, arriving, query, layer>> /\ pending' = pending
      /\ visited' = {ep} /\ candidates' = {ep} /\ results' = {ep}
  BY Zenon DEF SearchLevel, index
<1>3. Cardinality({ep}) <= Ef
  BY <1>1
<1> QED
  BY <1>2, <1>3, BeamMoves, Zenon

\* All neighbours of the candidate that is taken are about to be visited.
LEMMA ExpandBeam == ASSUME BeamIsKnown, Expand PROVE BeamIsKnown'
<1>1. PICK nearest \in candidates : /\ candidates' = candidates \ {nearest}
                                    /\ pending' = NeighborsAt(nearest, layer)
  BY Zenon DEF Expand, Closest
<1>2. /\ UNCHANGED <<nodes, links, arriving, query, layer>> /\ phase = "explore"
      /\ visited' = visited /\ results' = results /\ Range(pending) = {}
  BY DEF Expand, index, Range
<1>3. \A r \in results \ (candidates \ {nearest}) :
        Range(NeighborsAt(r, layer)) \subseteq visited \cup Range(NeighborsAt(nearest, layer))
  BY <1>2 DEF BeamIsKnown
<1>4. (candidates \ {nearest}) \cup results \subseteq visited
  BY <1>2 DEF BeamIsKnown
<1>5. /\ results # {} /\ Cardinality(results) <= Ef
      /\ \A v \in visited \ results :
           Cardinality(results) = Ef /\ \A r \in results : ToQuery(v) >= ToQuery(r)
  BY <1>2, Zenon DEF BeamIsKnown
<1> QED
  BY <1>1, <1>2, <1>3, <1>4, <1>5, BeamMoves, Zenon

\* A neighbour that is visited joins the results, displaces the worst of them, or is no
\* nearer than any.
LEMMA VisitBeam == ASSUME CallInv, BeamIsKnown, Visit PROVE BeamIsKnown'
<1> DEFINE n == Head(pending)
           V == visited \cup {n}
           isFull == Cardinality(results) >= Ef
           better == \E r \in results : ToQuery(n) < ToQuery(r)
<1>1. /\ HnswTypeOK /\ CallIsKnown /\ phase = "explore" /\ pending # <<>>
      /\ UNCHANGED <<nodes, links, arriving, query, layer>>
      /\ visited' = V /\ pending' = Tail(pending)
  BY Zenon DEF CallInv, Visit, index
<1>2. /\ Ef \in Nat \ {0} /\ visited \subseteq DOMAIN nodes /\ pending \in Seq(DOMAIN nodes)
      /\ \A m \in DOMAIN nodes : ToQuery(m) \in Nat
  BY <1>1, MeasuresAre DEF HnswTypeOK
<1>3. n \in DOMAIN nodes /\ \A x \in Range(pending) : x = n \/ x \in Range(Tail(pending))
  BY <1>1, <1>2, TailIs
<1> HIDE DEF n
<1>4. /\ candidates \cup results \subseteq visited
      /\ results # {} /\ Cardinality(results) <= Ef
      /\ \A v \in visited \ results :
           Cardinality(results) = Ef /\ \A r \in results : ToQuery(v) >= ToQuery(r)
      /\ \A r \in results \ candidates :
           Range(NeighborsAt(r, layer)) \subseteq visited \cup Range(pending)
  BY <1>1, Zenon DEF BeamIsKnown
<1>5. results \subseteq DOMAIN nodes /\ IsFiniteSet(results) /\ Cardinality(results) \in Nat
  <2>1. results \subseteq DOMAIN nodes /\ IsFiniteSet(results)
    BY <1>1, <1>2, <1>4, NodesAreFinite DEF HnswTypeOK
  <2> QED
    BY <2>1, FS_CardinalityType
<1>6. \A r \in results \ candidates :
        Range(NeighborsAt(r, layer)) \subseteq V \cup Range(Tail(pending))
  BY <1>3, <1>4
<1>7. CASE (n \in visited \/ (isFull /\ ~better)) /\ UNCHANGED <<candidates, results>>
  <2>1. candidates \cup results \subseteq V
    BY <1>4
  <2>2. \A v \in V \ results :
          Cardinality(results) = Ef /\ \A r \in results : ToQuery(v) >= ToQuery(r)
    <3>1. CASE n \in visited
      BY <1>4, <3>1
    <3>2. CASE isFull /\ ~better
      <4>1. Cardinality(results) = Ef /\ \A r \in results : ToQuery(n) >= ToQuery(r)
        BY <1>2, <1>3, <1>4, <1>5, <3>2
      <4> QED
        BY <1>4, <4>1
    <3> QED
      BY <1>7, <3>1, <3>2
  <2>3. /\ candidates' = candidates /\ results' = results
        /\ results # {} /\ Cardinality(results) <= Ef
    BY <1>4, <1>7, Zenon
  <2> QED
    BY <1>1, <1>6, <2>1, <2>2, <2>3, BeamMoves, Zenon
<1>8. CASE /\ n \notin visited /\ ~isFull
           /\ candidates' = candidates \cup {n} /\ results' = results \cup {n}
  <2>1. Cardinality(results \cup {n}) = Cardinality(results) + 1
    BY <1>4, <1>5, <1>8, FS_AddElement
  <2>2. Cardinality(results \cup {n}) <= Ef /\ visited \ results = {}
    BY <1>2, <1>4, <1>5, <1>8, <2>1
  <2>3. /\ (candidates \cup {n}) \cup (results \cup {n}) \subseteq V /\ results \cup {n} # {}
        /\ V \ (results \cup {n}) = {}
    BY <1>4, <2>2
  <2>4. \A r \in (results \cup {n}) \ (candidates \cup {n}) :
          Range(NeighborsAt(r, layer)) \subseteq V \cup Range(Tail(pending))
    BY <1>6
  <2> QED
    BY <1>1, <1>8, <2>2, <2>3, <2>4, BeamMoves, Zenon
<1>9. ASSUME NEW w \in results, \A s \in results : ToQuery(w) >= ToQuery(s),
             n \notin visited, isFull, better,
             candidates' = candidates \cup {n}, results' = (results \ {w}) \cup {n}
      PROVE  BeamIsKnown'
  <2> DEFINE R == (results \ {w}) \cup {n}
             C == candidates \cup {n}
  <2>1. Cardinality(results) = Ef /\ n \notin results /\ n \notin results \ {w}
    BY <1>2, <1>4, <1>5, <1>9
  <2>2. IsFiniteSet(results \ {w}) /\ Cardinality(results \ {w}) = Cardinality(results) - 1
    BY <1>5, <1>9, FS_RemoveElement
  <2>3. Cardinality(R) = Ef
    <3>1. Cardinality(R) = Cardinality(results \ {w}) + 1
      BY <2>1, <2>2, FS_AddElement
    <3> QED
      BY <1>2, <2>1, <2>2, <3>1
  <2>4. ToQuery(n) < ToQuery(w)
    <3>1. PICK r \in results : ToQuery(n) < ToQuery(r)
      BY <1>9
    <3>2. ToQuery(w) >= ToQuery(r)
      BY <1>9
    <3> QED
      BY <1>2, <1>3, <1>5, <1>9, <3>1, <3>2
  <2>5. ASSUME NEW v \in V \ R, NEW r \in R
        PROVE  ToQuery(v) >= ToQuery(r)
    <3>1. ToQuery(v) \in Nat /\ ToQuery(r) \in Nat /\ ToQuery(n) \in Nat /\ ToQuery(w) \in Nat
      BY <1>2, <1>3, <1>5, <1>9
    <3>2. v = w \/ v \in visited \ results
      OBVIOUS
    <3>3. ToQuery(v) >= ToQuery(w)
      BY <1>4, <1>9, <3>1, <3>2
    <3>4. ToQuery(w) >= ToQuery(r)
      <4>1. CASE r = n
        BY <2>4, <3>1, <4>1
      <4>2. CASE r \in results
        BY <1>9, <4>2
      <4> QED
        BY <4>1, <4>2
    <3> QED
      BY <3>1, <3>3, <3>4
  <2>6. C \cup R \subseteq V /\ R # {} /\ Cardinality(R) <= Ef
    BY <1>2, <1>4, <2>3
  <2>7. \A r \in R \ C : Range(NeighborsAt(r, layer)) \subseteq V \cup Range(Tail(pending))
    BY <1>6
  <2> HIDE DEF R, C
  <2>8. \A v \in V \ R : Cardinality(R) = Ef /\ \A r \in R : ToQuery(v) >= ToQuery(r)
    BY <2>3, <2>5, Zenon
  <2>9. results' = R /\ candidates' = C
    BY <1>9 DEF R, C
  <2> QED
    BY <1>1, <2>6, <2>7, <2>8, <2>9, BeamMoves, Zenon
<1>10. \/ (n \in visited \/ (isFull /\ ~better)) /\ UNCHANGED <<candidates, results>>
       \/ /\ n \notin visited /\ ~isFull
          /\ candidates' = candidates \cup {n} /\ results' = results \cup {n}
       \/ \E w \in results : /\ \A s \in results : ToQuery(w) >= ToQuery(s)
                             /\ n \notin visited /\ isFull /\ better
                             /\ candidates' = candidates \cup {n}
                             /\ results' = (results \ {w}) \cup {n}
  BY Zenon DEF Visit, n
<1> QED
  BY <1>7, <1>8, <1>9, <1>10, Zenon

\* Where the search of a layer ends no result is a candidate any more: there is none,
\* or the nearest of them is farther than every result.
LEMMA ExploreEndsBeam ==
  ASSUME CallInv, BeamIsKnown, ExploreEnds PROVE SearchIsLocallyOptimal'
<1>1. /\ HnswTypeOK /\ phase = "explore" /\ pending = <<>>
      /\ UNCHANGED <<nodes, links, arriving, query, layer>> /\ results' = results
      /\ candidates = {} \/ \E nearest \in Closest : BeamDone(nearest)
  BY Zenon DEF CallInv, ExploreEnds, index
<1>2. /\ candidates \cup results \subseteq visited
      /\ results # {} /\ Cardinality(results) <= Ef
      /\ \A v \in visited \ results :
           Cardinality(results) = Ef /\ \A r \in results : ToQuery(v) >= ToQuery(r)
      /\ \A r \in results \ candidates :
           Range(NeighborsAt(r, layer)) \subseteq visited \cup Range(pending)
  BY <1>1, Zenon DEF BeamIsKnown
<1>3. results \cap candidates = {}
  <2>1. CASE candidates = {}
    BY <2>1
  <2>2. CASE \E nearest \in Closest : BeamDone(nearest)
    <3>1. PICK nearest \in candidates : /\ \A d \in candidates : ToQuery(nearest) <= ToQuery(d)
                                        /\ \A r \in results : ToQuery(nearest) > ToQuery(r)
      BY <2>2, Zenon DEF Closest, BeamDone
    <3>2. \A m \in candidates : ToQuery(m) \in Nat
      BY <1>1, MeasuresAre DEF HnswTypeOK
    <3> QED
      BY <3>1, <3>2
  <2> QED
    BY <1>1, <2>1, <2>2, Zenon
<1>4. Range(pending) = {}
  BY <1>1 DEF Range
<1>5. \A r \in results : Range(NeighborsAt(r, layer)) \subseteq visited
  BY <1>2, <1>3, <1>4
<1>6. \A r \in results : \A n \in Range(NeighborsAt(r, layer)) \ results :
        Cardinality(results) = Ef /\ \A s \in results : ToQuery(n) >= ToQuery(s)
  BY <1>2, <1>5
<1>7. nodes' = nodes /\ links' = links /\ query' = query /\ layer' = layer /\ Ef' = Ef
  BY <1>1, Zenon DEF Ef
<1> QED
  BY <1>1, <1>2, <1>6, <1>7, Zenon DEF SearchIsLocallyOptimal, ToQuery, NeighborsAt

\* Every iteration keeps what is known of the beam.
LEMMA IndexStepBeam == ASSUME CallInv, BeamInv, IndexStep PROVE BeamInv'
<1>1. BeamIsKnown
  BY Zenon DEF BeamInv
<1>2. CASE SearchLevel \/ Expand \/ Visit
  <2>1. BeamIsKnown'
    BY <1>1, <1>2, SearchLevelBeam, ExpandBeam, VisitBeam, Zenon
  <2>2. phase' = "explore"
    BY <1>2 DEF SearchLevel, Expand, Visit
  <2>3. SearchIsLocallyOptimal'
    BY <2>2 DEF SearchIsLocallyOptimal
  <2> QED
    BY <2>1, <2>3, Zenon DEF BeamInv
<1>3. CASE ExploreEnds
  <2>1. SearchIsLocallyOptimal' /\ phase' = "explored"
    BY <1>1, <1>3, ExploreEndsBeam, Zenon DEF ExploreEnds
  <2>2. BeamIsKnown'
    BY <2>1 DEF BeamIsKnown
  <2> QED
    BY <2>1, <2>2, Zenon DEF BeamInv
<1>4. CASE \/ GreedyStep \/ LayerDown \/ SelectNeighbors \/ AddConnection \/ NextLayer
           \/ InsertEnds \/ SearchEnds
  <2>1. phase' \notin {"explore", "explored"}
    BY <1>4 DEF GreedyStep, LayerDown, SelectNeighbors, AddConnection, NextLayer, InsertEnds,
       SearchEnds, NoCall
  <2> QED
    BY <2>1 DEF BeamInv, BeamIsKnown, SearchIsLocallyOptimal
<1> QED
  BY <1>2, <1>3, <1>4, Zenon DEF IndexStep

\* No other operation of the store is under way while a layer is searched.
LEMMA StoreStepBeam ==
  StoreInv /\ BeamInv /\ [StoreNext]_storeVars => BeamInv'
<1> SUFFICES ASSUME StoreInv, BeamInv, [StoreNext]_storeVars PROVE BeamInv'
  OBVIOUS
<1>1. CallInv
  BY StoreInvIs, Zenon
<1>2. CASE IndexStep
  BY <1>1, <1>2, IndexStepBeam, Zenon
<1>3. ASSUME phase' \notin {"explore", "explored"} PROVE BeamInv'
  BY <1>3 DEF BeamInv, BeamIsKnown, SearchIsLocallyOptimal
<1>4. ASSUME NEW i, NEW v, NEW top, InsertNode(i, v, top)
      PROVE  phase' \notin {"explore", "explored"}
  <2>1. phase = "idle" /\ (phase' = phase \/ phase' = "descend")
    BY <1>4, Zenon DEF InsertNode, Begin, locals
  <2> QED
    BY <2>1
<1>5. CASE \E chunk \in Fresh, level \in Levels : Insert(chunk, level)
  <2>1. phase = "idle" /\ (phase' = phase \/ \E i, v, top : InsertNode(i, v, top))
    BY <1>5, Zenon DEF Insert, Ready, locals
  <2> QED
    BY <1>3, <1>4, <2>1
<1>6. CASE \/ \E batch \in Batches : InsertBatch(batch)
           \/ \E source \in Range(SourceOf) : DeleteBySource(source)
           \/ BuildIndex \/ EnsureIndex \/ ScanEnds
  <2>1. phase = "idle" /\ phase' = phase
    BY <1>6, Zenon DEF InsertBatch, DeleteBySource, EnsureIndex, BuildIndex, ScanEnds, Ready, locals
  <2> QED
    BY <1>3, <2>1
<1>7. CASE \E level \in Levels : ScanRow(level)
  BY <1>3, <1>4, <1>7, Zenon DEF ScanRow
<1>8. CASE \E vec \in Vectors : Search(vec)
  <2>1. phase' = "descend" \/ phase' = "found"
    BY <1>8, Zenon DEF Search, SearchIndex, BruteForce, Begin
  <2> QED
    BY <1>3, <2>1
<1>9. CASE FetchHit \/ SearchReturns \/ Reopen
  <2>1. phase' = "idle" \/ phase' = "found"
    BY <1>9, Zenon DEF FetchHit, SearchReturns, Reopen, NoCall
  <2> QED
    BY <1>3, <2>1
<1>10. CASE UNCHANGED storeVars
  <2>1. /\ nodes' = nodes /\ links' = links /\ arriving' = arriving /\ query' = query
        /\ layer' = layer /\ phase' = phase /\ visited' = visited
        /\ candidates' = candidates /\ results' = results /\ pending' = pending
    BY <1>10, Zenon DEF storeVars, index, locals, beam
  <2>2. Ef' = Ef
    BY <2>1, Zenon DEF Ef
  <2>3. BeamIsKnown'
    BY <2>1, <2>2, Zenon DEF BeamInv, BeamIsKnown, ToQuery, NeighborsAt
  <2>4. SearchIsLocallyOptimal'
    BY <2>1, <2>2, Zenon DEF BeamInv, SearchIsLocallyOptimal, ToQuery, NeighborsAt
  <2> QED
    BY <2>3, <2>4, Zenon DEF BeamInv
<1> QED
  BY <1>2, <1>5, <1>6, <1>7, <1>8, <1>9, <1>10, Zenon DEF StoreNext

\* On whatever layer a beam search ends, it leaves no result's neighbour behind that is
\* nearer than the worst result, and keeps fewer results than its width only if nothing
\* else can be reached from them (hnsw.go:205-255).
THEOREM SearchEndsLocallyOptimal == StoreSpec => []SearchIsLocallyOptimal
<1>1. StoreInit => BeamInv
  BY DEF StoreInit, HnswInit, BeamInv, BeamIsKnown, SearchIsLocallyOptimal
<1>2. BeamInv => SearchIsLocallyOptimal
  BY Zenon DEF BeamInv
<1> QED
  BY <1>1, <1>2, StoreBegins, StoreStepKeeps, StoreStepBeam, PTL DEF StoreSpec

-----------------------------------------------------------------------------
(***************************************************************************)
(* The agreement of index and table                                        *)
(***************************************************************************)
\* What the index knows. During a build no id exceeds the last one that was read.
IndexKnowsRows ==
  /\ \A m, n \in DOMAIN nodes : nodes[m].id = nodes[n].id => m = n
  /\ \A n \in DOMAIN nodes :
       nodes[n].id \in DOMAIN chunks => chunks[nodes[n].id] = nodes[n].vec
  /\ built => DOMAIN chunks \subseteq
                unseen \cup Indexed \cup (IF building THEN Unscanned ELSE {})
  /\ building => unseen = {} /\ \A n \in DOMAIN nodes : nodes[n].id <= scanned
  /\ ~building => scanned = 0

\* Ids and embeddings after a node has joined the index.
LEMMA NodeJoins ==
  ASSUME CallInv, IndexKnowsRows, NEW i \in Nat, NEW v \in Vectors, NEW top,
         InsertNode(i, v, top), i \notin Indexed, chunks'[i] = v,
         \A j \in Indexed \cap DOMAIN chunks' : j \in DOMAIN chunks /\ chunks'[j] = chunks[j]
  PROVE  /\ \A m, n \in DOMAIN nodes' : nodes'[m].id = nodes'[n].id => m = n
         /\ \A n \in DOMAIN nodes' :
              nodes'[n].id \in DOMAIN chunks' => chunks'[nodes'[n].id] = nodes'[n].vec
<1> DEFINE new == Len(nodes) + 1
<1>1. /\ DOMAIN nodes' = DOMAIN nodes \cup {new} /\ new \notin DOMAIN nodes
      /\ nodes'[new] = [id |-> i, vec |-> v] /\ \A n \in DOMAIN nodes : nodes'[n] = nodes[n]
  BY InsertNodeIs
<1>2. nodes'[new].id = i /\ nodes'[new].vec = v
  BY <1>1
<1> HIDE DEF new
<1>3. \A n \in DOMAIN nodes : nodes[n].id \in Indexed
  BY DEF Indexed
<1>4. ASSUME NEW m \in DOMAIN nodes', NEW n \in DOMAIN nodes', nodes'[m].id = nodes'[n].id
      PROVE  m = n
  <2>1. CASE m = new \/ n = new
    <3>1. \A k \in DOMAIN nodes : nodes'[k].id # i
      BY <1>1, <1>3, Zenon
    <3> QED
      BY <1>1, <1>2, <1>4, <2>1, <3>1
  <2>2. CASE m # new /\ n # new
    <3>1. /\ m \in DOMAIN nodes /\ n \in DOMAIN nodes
          /\ nodes'[m] = nodes[m] /\ nodes'[n] = nodes[n]
      BY <1>1, <1>4, <2>2
    <3> QED
      BY <1>4, <3>1, Zenon DEF IndexKnowsRows
  <2> QED
    BY <2>1, <2>2, Zenon
<1>5. ASSUME NEW n \in DOMAIN nodes', nodes'[n].id \in DOMAIN chunks'
      PROVE  chunks'[nodes'[n].id] = nodes'[n].vec
  <2>1. CASE n = new
    BY <1>2, <2>1, Zenon
  <2>2. CASE n \in DOMAIN nodes
    <3>1. nodes'[n] = nodes[n] /\ nodes[n].id \in Indexed \cap DOMAIN chunks'
      BY <1>1, <1>3, <1>5, <2>2
    <3> QED
      BY <2>2, <3>1, Zenon DEF IndexKnowsRows
  <2> QED
    BY <1>1, <1>5, <2>1, <2>2
<1> QED
  BY <1>4, <1>5, Zenon

\* A chunk that is inserted gets an id no node has, and joins an index that exists.
LEMMA InsertKnows ==
  ASSUME StoreInv, IndexKnowsRows, NEW v \in Fresh, NEW top \in Levels, Insert(v, top)
  PROVE  IndexKnowsRows'
<1>1. TableIsTyped /\ CallInv /\ StoreTypeOK
  BY StoreInvIs, Zenon DEF StoreInv
<1>2. v \in Vectors /\ <<v>> \in Seq(Vectors) /\ Len(<<v>>) = 1 /\ <<v>>[1] = v
  BY InsertedIs
<1>3. /\ Inserting(<<v>>) /\ ~building
      /\ UNCHANGED <<built, building, scanned, unseen>>
      /\ IF built THEN InsertNode(NextId, v, top) ELSE UNCHANGED <<index, locals>>
  BY Zenon DEF Insert, Ready
<1>4. /\ lastId \in Nat /\ lastId' = lastId + 1 /\ NextId = lastId + 1
      /\ DOMAIN chunks' = DOMAIN chunks \cup NextId .. lastId'
      /\ \A i \in DOMAIN chunks : i \in 1 .. lastId /\ chunks'[i] = chunks[i]
      /\ \A i \in NextId .. lastId' : chunks'[i] = <<v>>[i - lastId]
  BY <1>1, <1>2, <1>3, InsertingIs DEF NextId
<1>5. /\ NextId \in Nat /\ DOMAIN chunks' = DOMAIN chunks \cup {NextId}
      /\ chunks'[NextId] = v /\ NextId \notin 1 .. lastId
  <2>1. NextId .. lastId' = {NextId} /\ NextId - lastId = 1
    BY <1>4
  <2> QED
    BY <1>2, <1>4, <2>1
<1>6. Indexed \subseteq 1 .. lastId
  BY <1>1, Zenon DEF TableIsTyped
<1>7. CASE built
  <2>1. InsertNode(NextId, v, top) /\ NextId \notin Indexed
    BY <1>3, <1>5, <1>6, <1>7
  <2>2. \A j \in Indexed \cap DOMAIN chunks' : j \in DOMAIN chunks /\ chunks'[j] = chunks[j]
    BY <1>4, <1>5, <1>6
  <2>3. /\ \A m, n \in DOMAIN nodes' : nodes'[m].id = nodes'[n].id => m = n
        /\ \A n \in DOMAIN nodes' :
             nodes'[n].id \in DOMAIN chunks' => chunks'[nodes'[n].id] = nodes'[n].vec
    BY <1>1, <1>2, <1>5, <2>1, <2>2, NodeJoins
  <2>4. Indexed' = Indexed \cup {NextId}
    BY <1>1, <1>2, <1>5, <2>1, InsertNodeIndexed, Zenon
  <2>5. DOMAIN chunks \subseteq unseen \cup Indexed
    BY <1>3, <1>7 DEF IndexKnowsRows
  <2>6. DOMAIN chunks' \subseteq unseen' \cup Indexed'
    BY <1>3, <1>5, <2>4, <2>5
  <2> QED
    BY <1>3, <2>3, <2>6 DEF IndexKnowsRows
<1>8. CASE ~built
  <2>1. nodes' = nodes /\ ~built'
    BY <1>3, <1>8, Zenon DEF index
  <2>2. ASSUME NEW n \in DOMAIN nodes, nodes[n].id \in DOMAIN chunks'
        PROVE  chunks'[nodes[n].id] = nodes[n].vec
    <3>1. nodes[n].id \in 1 .. lastId
      BY <1>6 DEF Indexed
    <3>2. nodes[n].id \in DOMAIN chunks
      BY <1>5, <2>2, <3>1
    <3> QED
      BY <1>4, <3>2, Zenon DEF IndexKnowsRows
  <2> QED
    BY <1>3, <2>1, <2>2, Zenon DEF IndexKnowsRows
<1> QED
  BY <1>7, <1>8, Zenon

\* The ids of a batch are new to the index, which may never learn of them.
LEMMA InsertBatchKnows ==
  ASSUME StoreInv, IndexKnowsRows, NEW batch \in Batches, InsertBatch(batch)
  PROVE  IndexKnowsRows'
<1>1. TableIsTyped /\ StoreTypeOK
  BY StoreInvIs, Zenon DEF StoreInv
<1>2. batch \in Seq(Vectors)
  BY InsertedIs
<1>3. /\ Inserting(batch) /\ nodes' = nodes /\ ~building
      /\ UNCHANGED <<built, building, scanned>>
      /\ unseen' = IF built THEN unseen \cup NextId .. lastId' ELSE unseen
  BY Zenon DEF InsertBatch, Ready, index
<1>4. /\ DOMAIN chunks' = DOMAIN chunks \cup NextId .. lastId'
      /\ \A i \in DOMAIN chunks : chunks'[i] = chunks[i]
      /\ \A i \in NextId .. lastId' : i > lastId
  BY <1>1, <1>2, <1>3, InsertingIs
<1>5. Indexed \subseteq 1 .. lastId /\ lastId \in Nat
  BY <1>1, Zenon DEF TableIsTyped
<1>6. ASSUME NEW n \in DOMAIN nodes, nodes[n].id \in DOMAIN chunks'
      PROVE  chunks'[nodes[n].id] = nodes[n].vec
  <2>1. nodes[n].id \in 1 .. lastId
    BY <1>5 DEF Indexed
  <2>2. nodes[n].id \in DOMAIN chunks
    BY <1>4, <1>5, <1>6, <2>1
  <2> QED
    BY <1>4, <2>2, Zenon DEF IndexKnowsRows
<1>7. Indexed' = Indexed
  BY <1>3, Zenon DEF Indexed
<1>8. built => DOMAIN chunks' \subseteq unseen' \cup Indexed'
  BY <1>3, <1>4, <1>7 DEF IndexKnowsRows
<1> QED
  BY <1>3, <1>6, <1>8, Zenon DEF IndexKnowsRows

\* A deletion leaves nodes in the index that have no row any more.
LEMMA DeleteBySourceKnows ==
  ASSUME IndexKnowsRows, NEW source, DeleteBySource(source)
  PROVE  IndexKnowsRows'
<1>1. /\ nodes' = nodes /\ ~building /\ UNCHANGED <<built, building, scanned, unseen>>
      /\ chunks' = Restrict(chunks, {i \in DOMAIN chunks : SourceOf[chunks[i]] # source})
  BY Zenon DEF DeleteBySource, Ready, index
<1>2. DOMAIN chunks' \subseteq DOMAIN chunks /\ \A i \in DOMAIN chunks' : chunks'[i] = chunks[i]
  BY <1>1 DEF Restrict
<1>3. \A n \in DOMAIN nodes :
        nodes[n].id \in DOMAIN chunks' => chunks'[nodes[n].id] = nodes[n].vec
  BY <1>2, Zenon DEF IndexKnowsRows
<1>4. Indexed' = Indexed
  BY <1>1, Zenon DEF Indexed
<1>5. built => DOMAIN chunks' \subseteq unseen' \cup Indexed'
  BY <1>1, <1>2, <1>4 DEF IndexKnowsRows
<1> QED
  BY <1>1, <1>3, <1>5, Zenon DEF IndexKnowsRows

\* Before a build all rows are unread.
LEMMA BuildIndexKnows ==
  ASSUME StoreInv, IndexKnowsRows, BuildIndex
  PROVE  IndexKnowsRows'
<1>1. /\ DOMAIN nodes' = {} /\ ~building /\ building' = TRUE /\ unseen' = {}
      /\ chunks' = chunks /\ scanned' = scanned
  BY DEF BuildIndex, NewIndex, Ready
<1>2. DOMAIN chunks \subseteq 1 .. lastId /\ lastId \in Nat /\ scanned = 0
  BY <1>1 DEF StoreInv, StoreTypeOK, IndexKnowsRows
<1>3. DOMAIN chunks' \subseteq Unscanned'
  BY <1>1, <1>2 DEF Unscanned
<1> QED
  BY <1>1, <1>3 DEF IndexKnowsRows

\* The rows are read in the order of their ids.
LEMMA ScanRowKnows ==
  ASSUME StoreInv, IndexKnowsRows, NEW top \in Levels, ScanRow(top)
  PROVE  IndexKnowsRows'
<1>1. TableIsTyped /\ CallInv
  BY StoreInvIs, Zenon
<1>2. PICK i \in Unscanned : /\ \A j \in Unscanned : i <= j
                             /\ InsertNode(i, chunks[i], top) /\ scanned' = i
  BY Zenon DEF ScanRow
<1>3. building /\ UNCHANGED <<chunks, built, building, unseen>>
  BY Zenon DEF ScanRow
<1>4. /\ i \in DOMAIN chunks /\ i > scanned /\ i \in Nat /\ scanned \in Nat
      /\ DOMAIN chunks \subseteq Nat /\ chunks[i] \in Vectors
  BY <1>1, <1>2 DEF Unscanned, TableIsTyped
<1>5. \A j \in Indexed : j <= scanned /\ j \in Nat
  BY <1>1, <1>3 DEF IndexKnowsRows, Indexed, TableIsTyped
<1>6. i \notin Indexed
  BY <1>4, <1>5
<1>7. Indexed' = Indexed \cup {i}
  BY <1>1, <1>2, <1>4, InsertNodeIndexed, Zenon
<1>8. /\ \A m, n \in DOMAIN nodes' : nodes'[m].id = nodes'[n].id => m = n
      /\ \A n \in DOMAIN nodes' :
           nodes'[n].id \in DOMAIN chunks' => chunks'[nodes'[n].id] = nodes'[n].vec
  <2>1. /\ chunks'[i] = chunks[i]
        /\ \A j \in Indexed \cap DOMAIN chunks' : j \in DOMAIN chunks /\ chunks'[j] = chunks[j]
    BY <1>3
  <2> QED
    BY <1>1, <1>2, <1>4, <1>6, <2>1, NodeJoins, Zenon
<1>9. \A j \in Indexed' : j <= scanned'
  BY <1>2, <1>4, <1>5, <1>7
<1>10. \A n \in DOMAIN nodes' : nodes'[n].id <= scanned'
  BY <1>9 DEF Indexed
<1>11. Unscanned \subseteq Unscanned' \cup {i}
  BY <1>2, <1>3, <1>4 DEF Unscanned
<1>12. DOMAIN chunks' \subseteq Indexed' \cup Unscanned'
  BY <1>3, <1>7, <1>11, <1>1 DEF IndexKnowsRows, TableIsTyped
<1> QED
  BY <1>3, <1>8, <1>10, <1>12 DEF IndexKnowsRows

\* The rows a build has not reached are what its index lacks.
LEMMA ScanEndsKnows ==
  ASSUME IndexKnowsRows, ScanEnds
  PROVE  IndexKnowsRows'
<1>1. /\ nodes' = nodes /\ building /\ building' = FALSE /\ scanned' = 0
      /\ unseen' = Unscanned /\ UNCHANGED <<chunks, built>>
  BY Zenon DEF ScanEnds, index
<1>2. Indexed' = Indexed
  BY <1>1, Zenon DEF Indexed
<1>3. built => DOMAIN chunks \subseteq Unscanned \cup Indexed
  BY <1>1 DEF IndexKnowsRows
<1> QED
  BY <1>1, <1>2, <1>3 DEF IndexKnowsRows

\* Nothing else changes the nodes or the rows.
LEMMA OthersKnow ==
  ASSUME IndexKnowsRows, nodes' = nodes, UNCHANGED <<chunks, built, building, scanned, unseen>>
  PROVE  IndexKnowsRows'
  BY Zenon DEF IndexKnowsRows, Indexed, Unscanned

\* Every operation keeps what the index knows.
LEMMA StoreStepKnows ==
  StoreInv /\ IndexKnowsRows /\ [StoreNext]_storeVars => IndexKnowsRows'
<1> SUFFICES ASSUME StoreInv, IndexKnowsRows, [StoreNext]_storeVars PROVE IndexKnowsRows'
  OBVIOUS
<1>1. CASE \E chunk \in Fresh, level \in Levels : Insert(chunk, level)
  BY <1>1, InsertKnows, Zenon
<1>2. CASE \E batch \in Batches : InsertBatch(batch)
  BY <1>2, InsertBatchKnows, Zenon
<1>3. CASE \E source \in Range(SourceOf) : DeleteBySource(source)
  BY <1>3, DeleteBySourceKnows, Zenon
<1>4. CASE BuildIndex \/ EnsureIndex
  BY <1>4, BuildIndexKnows, Zenon DEF EnsureIndex
<1>5. CASE \E level \in Levels : ScanRow(level)
  BY <1>5, ScanRowKnows, Zenon
<1>6. CASE ScanEnds
  BY <1>6, ScanEndsKnows, Zenon
<1>7. CASE \/ \E vec \in Vectors : Search(vec)
           \/ FetchHit \/ SearchReturns \/ UNCHANGED storeVars
  <2>1. nodes' = nodes /\ UNCHANGED <<chunks, built, building, scanned, unseen>>
    BY <1>7, Zenon DEF Search, SearchIndex, BruteForce, FetchHit, SearchReturns, storeVars, index
  <2> QED
    BY <2>1, OthersKnow, Zenon
<1>8. CASE IndexStep /\ UNCHANGED <<chunks, lastId, built, building, scanned, hits, used, unseen,
                                    opens>>
  BY <1>8, IndexStepSame, OthersKnow, Zenon
<1>9. CASE Reopen
  <2>1. DOMAIN nodes' = {} /\ built' = FALSE /\ building' = FALSE /\ scanned' = 0
    BY <1>9 DEF Reopen, NewIndex
  <2> QED
    BY <2>1 DEF IndexKnowsRows
<1> QED
  BY <1>1, <1>2, <1>3, <1>4, <1>5, <1>6, <1>7, <1>8, <1>9, Zenon DEF StoreNext

\* What a search has found: rows, each once, the nearest first. What it is still to
\* look up comes after them and holds none of them.
SearchFindsRows ==
  /\ Range(hits) \subseteq DOMAIN chunks /\ Len(hits) <= TopK /\ IsInjective(hits)
  /\ \A i, j \in DOMAIN hits :
       i < j => Distance[query, chunks[hits[i]]] <= Distance[query, chunks[hits[j]]]
  /\ phase # "found" => hits = <<>>
  /\ phase = "found" =>
       /\ Len(hits) + Len(pending) <= TopK /\ IsInjective(pending)
       /\ \A i, j \in DOMAIN pending : i < j => ToQuery(pending[i]) <= ToQuery(pending[j])
       /\ \A i \in DOMAIN hits, j \in DOMAIN pending :
            /\ hits[i] # nodes[pending[j]].id
            /\ Distance[query, chunks[hits[i]]] <= ToQuery(pending[j])

\* A search that has found nothing yet.
LEMMA NothingFound ==
  ASSUME hits' = <<>>, phase' # "found"
  PROVE  SearchFindsRows'
<1>1. /\ Range(hits') = {} /\ Len(hits') = 0 /\ DOMAIN hits' = {} /\ IsInjective(hits')
  BY DEF Range, IsInjective
<1>2. 0 <= TopK
  BY HnswConstants
<1> QED
  BY <1>1, <1>2 DEF SearchFindsRows

\* A search of the table has found all its rows at once.
LEMMA BruteForceFinds ==
  ASSUME StoreInv, NEW v \in Vectors, BruteForce(v), phase = "idle", chunks' = chunks
  PROVE  SearchFindsRows'
<1>1. /\ hits' \in Seq(DOMAIN chunks) /\ Len(hits') <= TopK /\ IsInjective(hits')
      /\ \A i, j \in DOMAIN hits' :
           i < j => Distance[v, chunks[hits'[i]]] <= Distance[v, chunks[hits'[j]]]
  BY BruteForceIs
<1>2. /\ pending' = <<>> /\ query' = v /\ chunks' = chunks /\ phase' = "found"
  BY DEF StoreInv, CallIsKnown, BruteForce
<1>3. hits' \in Seq(DOMAIN chunks) /\ Len(hits') <= TopK
  BY <1>1, Zenon
<1>4. Len(pending') = 0 /\ DOMAIN pending' = {} /\ IsInjective(pending')
  BY <1>2 DEF IsInjective
<1>5. Range(hits') \subseteq DOMAIN chunks /\ Len(hits') \in Nat
  BY <1>3 DEF Range
<1>6. Len(hits') + Len(pending') <= TopK
  BY <1>3, <1>4, <1>5, HnswConstants
<1> QED
  BY <1>1, <1>2, <1>3, <1>4, <1>5, <1>6, Zenon DEF SearchFindsRows

\* The nodes a search of the index returns are ranked.
LEMMA SearchEndsFinds ==
  ASSUME CallInv, SearchEnds, hits = <<>>, hits' = <<>>
  PROVE  SearchFindsRows'
<1>1. HnswTypeOK /\ CallIsKnown /\ phase = "explored" /\ TopK \in Nat
  BY HnswConstants DEF CallInv, SearchEnds
<1>2. /\ UNCHANGED <<nodes, query>> /\ phase' = "found"
      /\ pending' \in NearestFirst([n \in results |-> ToQuery(n)], TopK)
  BY Zenon DEF SearchEnds, index
<1>3. /\ Len(pending') <= TopK /\ IsInjective(pending') /\ pending' \in Seq(DOMAIN nodes)
      /\ \A i, j \in DOMAIN pending' : i < j => ToQuery(pending'[i]) <= ToQuery(pending'[j])
  BY <1>1, <1>2, ResultsRanked, Zenon
<1>4. /\ Range(hits') = {} /\ Len(hits') = 0 /\ DOMAIN hits' = {} /\ IsInjective(hits')
      /\ Len(pending') \in Nat
  BY <1>3 DEF Range, IsInjective
<1>5. Len(hits') + Len(pending') <= TopK /\ Len(hits') <= TopK
  BY <1>1, <1>3, <1>4
<1>6. \A i, j \in DOMAIN pending' :
        i < j => Distance[query', nodes'[pending'[i]].vec]
                   <= Distance[query', nodes'[pending'[j]].vec]
  BY <1>2, <1>3, Zenon DEF ToQuery
<1> QED
  BY <1>2, <1>3, <1>4, <1>5, <1>6 DEF SearchFindsRows, ToQuery

\* A sequence with a new element at its end, place by place.
LEMMA AppendPlaces ==
  ASSUME NEW S, NEW s \in Seq(S), NEW x \in S
  PROVE  /\ Len(Append(s, x)) = Len(s) + 1
         /\ \A i \in DOMAIN Append(s, x) :
              \/ i \in DOMAIN s /\ Append(s, x)[i] = s[i]
              \/ i = Len(s) + 1 /\ Append(s, x)[i] = x
         /\ \A i, j \in DOMAIN Append(s, x) : i < j => i \in DOMAIN s
<1>1. /\ Len(s) \in Nat /\ DOMAIN s = 1 .. Len(s) /\ Len(Append(s, x)) = Len(s) + 1
      /\ DOMAIN Append(s, x) = 1 .. Len(s) + 1 /\ Append(s, x)[Len(s) + 1] = x
      /\ \A i \in 1 .. Len(s) : Append(s, x)[i] = s[i]
  OBVIOUS
<1> DEFINE t == Append(s, x)
<1> HIDE DEF t
<1>2. /\ DOMAIN t = 1 .. Len(s) + 1 /\ t[Len(s) + 1] = x /\ Len(t) = Len(s) + 1
      /\ \A i \in 1 .. Len(s) : t[i] = s[i]
  BY <1>1, Zenon DEF t
<1>3. /\ \A i \in DOMAIN t : (i \in DOMAIN s /\ t[i] = s[i]) \/ (i = Len(s) + 1 /\ t[i] = x)
      /\ \A i, j \in DOMAIN t : i < j => i \in DOMAIN s
  BY <1>1, <1>2
<1> QED
  BY <1>2, <1>3, Zenon DEF t

\* What has to be shown of the sequences a look-up leaves.
LEMMA FoundMoves ==
  ASSUME UNCHANGED <<nodes, query, chunks>>, phase' = "found",
         NEW H, NEW P, hits' = H, pending' = P,
         Range(H) \subseteq DOMAIN chunks, Len(H) <= TopK, IsInjective(H),
         \A i, j \in DOMAIN H :
           i < j => Distance[query, chunks[H[i]]] <= Distance[query, chunks[H[j]]],
         Len(H) + Len(P) <= TopK, IsInjective(P),
         \A i, j \in DOMAIN P : i < j => ToQuery(P[i]) <= ToQuery(P[j]),
         \A i \in DOMAIN H, j \in DOMAIN P :
           /\ H[i] # nodes[P[j]].id
           /\ Distance[query, chunks[H[i]]] <= ToQuery(P[j])
  PROVE  SearchFindsRows'
<1>1. nodes' = nodes /\ query' = query /\ chunks' = chunks
  OBVIOUS
<1>2. /\ Range(hits') \subseteq DOMAIN chunks' /\ Len(hits') <= TopK /\ IsInjective(hits')
      /\ phase' # "found" => hits' = <<>>
      /\ Len(hits') + Len(pending') <= TopK /\ IsInjective(pending')
  BY <1>1, Zenon
<1>3. \A i, j \in DOMAIN hits' :
        i < j => Distance[query', chunks'[hits'[i]]] <= Distance[query', chunks'[hits'[j]]]
  BY <1>1, Zenon
<1>4. \A i, j \in DOMAIN pending' :
        i < j => Distance[query', nodes'[pending'[i]].vec]
                   <= Distance[query', nodes'[pending'[j]].vec]
  BY <1>1, Zenon DEF ToQuery
<1>5. \A i \in DOMAIN hits', j \in DOMAIN pending' :
        /\ hits'[i] # nodes'[pending'[j]].id
        /\ Distance[query', chunks'[hits'[i]]] <= Distance[query', nodes'[pending'[j]].vec]
  <2>1. ASSUME NEW i \in DOMAIN H, NEW j \in DOMAIN P
        PROVE  /\ H[i] # nodes'[P[j]].id
               /\ Distance[query', chunks'[H[i]]] <= Distance[query', nodes'[P[j]].vec]
    BY <1>1, Zenon DEF ToQuery
  <2> QED
    BY <2>1, Zenon
<1> QED
  BY <1>2, <1>3, <1>4, <1>5 DEF SearchFindsRows, ToQuery

\* The row of a node has the embedding the node was ranked by, and its id differs from
\* those of the nodes that are left.
LEMMA FetchHitFinds ==
  ASSUME StoreInv, IndexKnowsRows, SearchFindsRows, FetchHit
  PROVE  SearchFindsRows'
<1> DEFINE h == Head(pending)
           id == nodes[h].id
           P == Tail(pending)
<1>1. /\ phase = "found" /\ pending # <<>> /\ pending' = P
      /\ UNCHANGED <<nodes, query, chunks>> /\ phase' = "found"
      /\ ((id \in DOMAIN chunks /\ hits' = Append(hits, id)) \/ hits' = hits)
  BY Zenon DEF FetchHit, index
<1>2. /\ pending \in Seq(DOMAIN nodes) /\ hits \in Seq(1 .. lastId)
      /\ DOMAIN chunks \subseteq 1 .. lastId /\ TopK \in Nat
  BY HnswConstants, Zenon DEF StoreInv, StoreTypeOK, HnswTypeOK
<1>3. /\ Range(hits) \subseteq DOMAIN chunks /\ Len(hits) <= TopK /\ IsInjective(hits)
      /\ \A i, j \in DOMAIN hits :
           i < j => Distance[query, chunks[hits[i]]] <= Distance[query, chunks[hits[j]]]
      /\ Len(hits) + Len(pending) <= TopK /\ IsInjective(pending)
      /\ \A i, j \in DOMAIN pending : i < j => ToQuery(pending[i]) <= ToQuery(pending[j])
      /\ \A i \in DOMAIN hits, j \in DOMAIN pending :
           /\ hits[i] # nodes[pending[j]].id
           /\ Distance[query, chunks[hits[i]]] <= ToQuery(pending[j])
  BY <1>1, Zenon DEF SearchFindsRows
<1>4. /\ h \in DOMAIN nodes /\ P \in Seq(DOMAIN nodes) /\ Len(P) + 1 = Len(pending)
      /\ \A j \in DOMAIN P : j \in Nat /\ j + 1 \in DOMAIN pending /\ P[j] = pending[j + 1]
      /\ IsInjective(P) /\ h \notin Range(P)
  BY <1>1, <1>2, <1>3, TailIs
<1>5. 1 \in DOMAIN pending /\ pending[1] = h /\ Len(P) \in Nat /\ Len(hits) \in Nat
  BY <1>1, <1>2
<1>12. Len(hits) + Len(P) + 1 <= TopK
  <2>1. /\ Len(hits) + Len(pending) <= TopK /\ Len(P) + 1 = Len(pending)
        /\ Len(hits) \in Nat /\ Len(P) \in Nat /\ TopK \in Nat
    BY <1>2, <1>3, <1>4, <1>5, Zenon
  <2> QED
    BY <2>1
<1>6. \A j \in DOMAIN P : j \in Nat /\ j # 0 /\ P[j] \in DOMAIN nodes /\ P[j] \in Range(P)
  BY <1>4 DEF Range
<1> HIDE DEF h, P
<1>7. ASSUME NEW j \in DOMAIN P
      PROVE  id # nodes[P[j]].id /\ ToQuery(h) <= ToQuery(P[j])
  <2>1. P[j] \in DOMAIN nodes /\ h # P[j]
    BY <1>4, <1>6
  <2>2. id # nodes[P[j]].id
    BY <1>4, <2>1, Zenon DEF IndexKnowsRows
  <2>3. 1 < j + 1 /\ j + 1 \in DOMAIN pending /\ P[j] = pending[j + 1]
    BY <1>4, <1>6
  <2>4. ToQuery(pending[1]) <= ToQuery(pending[j + 1])
    BY <1>3, <1>5, <2>3, Zenon
  <2> QED
    BY <1>5, <2>2, <2>3, <2>4, Zenon
<1>8. \A i, j \in DOMAIN P : i < j => ToQuery(P[i]) <= ToQuery(P[j])
  <2> SUFFICES ASSUME NEW i \in DOMAIN P, NEW j \in DOMAIN P, i < j
               PROVE  ToQuery(P[i]) <= ToQuery(P[j])
    OBVIOUS
  <2>1. i + 1 < j + 1
    BY <1>6
  <2> QED
    BY <1>3, <1>4, <2>1, Zenon
<1>9. \A i \in DOMAIN hits, j \in DOMAIN P :
        /\ hits[i] # nodes[P[j]].id
        /\ Distance[query, chunks[hits[i]]] <= ToQuery(P[j])
  <2> SUFFICES ASSUME NEW i \in DOMAIN hits, NEW j \in DOMAIN P
               PROVE  /\ hits[i] # nodes[P[j]].id
                      /\ Distance[query, chunks[hits[i]]] <= ToQuery(P[j])
    OBVIOUS
  <2>1. ASSUME NEW n, \E k \in DOMAIN pending : n = pending[k]
        PROVE  hits[i] # nodes[n].id /\ Distance[query, chunks[hits[i]]] <= ToQuery(n)
    BY <1>3, <2>1, Zenon
  <2>2. \E k \in DOMAIN pending : P[j] = pending[k]
    BY <1>4, Zenon
  <2> QED
    BY <2>1, <2>2, Zenon
<1>10. CASE hits' = hits
  <2>1. Len(hits) + Len(P) <= TopK
    BY <1>2, <1>5, <1>12
  <2> QED
    BY <1>1, <1>3, <1>4, <1>8, <1>9, <1>10, <2>1, FoundMoves, Zenon
<1>11. CASE id \in DOMAIN chunks /\ hits' = Append(hits, id)
  <2> DEFINE H == Append(hits, id)
  <2>1. hits \in Seq(DOMAIN chunks)
    <3>1. \A i \in DOMAIN hits : hits[i] \in DOMAIN chunks
      BY <1>3 DEF Range
    <3>2. hits \in [1 .. Len(hits) -> DOMAIN chunks]
      BY <1>2, <3>1
    <3> QED
      BY <1>5, <3>2
  <2>2. id \notin Range(hits)
    <3>1. \A i \in DOMAIN hits : hits[i] # id
      BY <1>3, <1>5, Zenon
    <3> QED
      BY <3>1 DEF Range
  <2>3. ToQuery(h) = Distance[query, chunks[id]]
    BY <1>4, <1>11, Zenon DEF IndexKnowsRows, ToQuery
  <2>4. /\ H \in Seq(DOMAIN chunks) /\ IsInjective(H) /\ Range(H) = Range(hits) \cup {id}
        /\ Len(H) = Len(hits) + 1
        /\ \A i \in DOMAIN H :
             (i \in DOMAIN hits /\ H[i] = hits[i]) \/ (i = Len(hits) + 1 /\ H[i] = id)
        /\ \A i, j \in DOMAIN H : i < j => i \in DOMAIN hits
    <3>1. id \in DOMAIN chunks /\ IsInjective(hits)
      BY <1>3, <1>11, Zenon
    <3>2. H \in Seq(DOMAIN chunks) /\ IsInjective(H) /\ Range(H) = Range(hits) \cup {id}
      BY <2>1, <2>2, <3>1, AppendIs
    <3>3. /\ Len(H) = Len(hits) + 1
          /\ \A i \in DOMAIN H :
               (i \in DOMAIN hits /\ H[i] = hits[i]) \/ (i = Len(hits) + 1 /\ H[i] = id)
          /\ \A i, j \in DOMAIN H : i < j => i \in DOMAIN hits
      BY <2>1, <3>1, AppendPlaces, Zenon
    <3> QED
      BY <3>2, <3>3, Zenon
  <2> HIDE DEF H
  <2>5. Range(H) \subseteq DOMAIN chunks /\ Len(H) + Len(P) <= TopK /\ Len(H) <= TopK
    <3>1. Len(H) = Len(hits) + 1 /\ Range(H) = Range(hits) \cup {id}
      BY <2>4, Zenon
    <3>2. Len(H) + Len(P) <= TopK /\ Len(H) <= TopK
      BY <1>2, <1>5, <1>12, <3>1
    <3>3. Range(H) \subseteq DOMAIN chunks
      BY <1>3, <1>11, <3>1, Zenon
    <3> QED
      BY <3>2, <3>3
  <2>6. \A i \in DOMAIN hits : Distance[query, chunks[hits[i]]] <= Distance[query, chunks[id]]
    BY <1>3, <1>5, <2>3, Zenon
  <2>7. ASSUME NEW i \in DOMAIN H, NEW j \in DOMAIN H, i < j
        PROVE  Distance[query, chunks[H[i]]] <= Distance[query, chunks[H[j]]]
    <3>1. i \in DOMAIN hits /\ H[i] = hits[i]
      <4>1. i \in DOMAIN hits /\ i # Len(hits) + 1
        BY <1>2, <2>4, <2>7
      <4> QED
        BY <2>4, <4>1
    <3>2. CASE j \in DOMAIN hits /\ H[j] = hits[j]
      BY <1>3, <2>7, <3>1, <3>2, Zenon
    <3>3. CASE H[j] = id
      BY <2>6, <3>1, <3>3, Zenon
    <3> QED
      BY <2>4, <3>2, <3>3, Zenon
  <2>8. ASSUME NEW i \in DOMAIN H, NEW j \in DOMAIN P
        PROVE  H[i] # nodes[P[j]].id /\ Distance[query, chunks[H[i]]] <= ToQuery(P[j])
    <3>1. CASE i \in DOMAIN hits /\ H[i] = hits[i]
      BY <1>9, <3>1, Zenon
    <3>2. CASE H[i] = id
      BY <1>7, <2>3, <3>2, Zenon
    <3> QED
      BY <2>4, <3>1, <3>2, Zenon
  <2>9. hits' = H
    BY <1>11 DEF H
  <2> QED
    BY <1>1, <1>4, <1>8, <2>4, <2>5, <2>7, <2>8, <2>9, FoundMoves, Zenon
<1> QED
  BY <1>1, <1>10, <1>11, Zenon

\* An iteration finds nothing before the search of the index ends.
LEMMA CallStepFinds ==
  ASSUME CallInv, SearchFindsRows, IndexStep, hits' = hits
  PROVE  SearchFindsRows'
<1>1. phase # "found"
  BY DEF IndexStep, GreedyStep, LayerDown, SearchLevel, Expand, Visit, ExploreEnds,
     SelectNeighbors, AddConnection, NextLayer, InsertEnds, SearchEnds
<1>2. hits = <<>> /\ hits' = <<>>
  BY <1>1, Zenon DEF SearchFindsRows
<1>3. CASE SearchEnds
  BY <1>2, <1>3, SearchEndsFinds, Zenon
<1>4. CASE \/ GreedyStep \/ LayerDown \/ SearchLevel \/ Expand \/ Visit \/ ExploreEnds
           \/ SelectNeighbors \/ AddConnection \/ NextLayer \/ InsertEnds
  <2>1. phase' # "found"
    BY <1>1, <1>4 DEF GreedyStep, LayerDown, SearchLevel, Expand, Visit, ExploreEnds,
       SelectNeighbors, AddConnection, NextLayer, InsertEnds, NoCall
  <2> QED
    BY <1>2, <2>1, NothingFound, Zenon
<1> QED
  BY <1>3, <1>4, Zenon DEF IndexStep

\* What a search has found stays true until it returns, and nothing is found outside.
LEMMA StoreStepFinds ==
  StoreInv /\ IndexKnowsRows /\ SearchFindsRows /\ [StoreNext]_storeVars => SearchFindsRows'
<1> SUFFICES ASSUME StoreInv, IndexKnowsRows, SearchFindsRows, [StoreNext]_storeVars
             PROVE  SearchFindsRows'
  OBVIOUS
<1>1. CallInv
  BY StoreInvIs, Zenon
<1>2. ASSUME phase = "idle", hits' = hits, phase' = phase \/ phase' = "descend"
      PROVE  SearchFindsRows'
  <2>1. hits' = <<>> /\ phase' # "found"
    BY <1>2 DEF SearchFindsRows
  <2> QED
    BY <2>1, NothingFound, Zenon
<1>3. ASSUME NEW i, NEW v, NEW top, InsertNode(i, v, top)
      PROVE  phase = "idle" /\ (phase' = phase \/ phase' = "descend")
  BY <1>3, Zenon DEF InsertNode, Begin, locals
<1>4. CASE \/ \E chunk \in Fresh, level \in Levels : Insert(chunk, level)
           \/ \E level \in Levels : ScanRow(level)
  <2>1. /\ hits' = hits
        /\ (phase = "idle" /\ phase' = phase) \/ \E i, v, top : InsertNode(i, v, top)
    BY <1>4, Zenon DEF Insert, ScanRow, Ready, locals
  <2> QED
    BY <1>2, <1>3, <2>1, Zenon
<1>5. CASE \/ \E batch \in Batches : InsertBatch(batch)
           \/ \E source \in Range(SourceOf) : DeleteBySource(source)
           \/ BuildIndex \/ EnsureIndex \/ ScanEnds
  <2>1. phase = "idle" /\ phase' = phase /\ hits' = hits
    BY <1>5, Zenon DEF InsertBatch, DeleteBySource, EnsureIndex, BuildIndex, ScanEnds, Ready, locals
  <2> QED
    BY <1>2, <2>1, Zenon
<1>6. CASE \E vec \in Vectors : Search(vec)
  <2>1. PICK v \in Vectors : Search(v)
    BY <1>6, Zenon
  <2>2. CASE UsesIndex
    <3>1. phase = "idle" /\ phase' = "descend" /\ hits' = hits
      BY <2>1, <2>2, Zenon DEF Search, SearchIndex, Begin
    <3> QED
      BY <1>2, <3>1, Zenon
  <2>3. CASE ~UsesIndex
    <3>1. phase = "idle" /\ BruteForce(v) /\ chunks' = chunks
      BY <2>1, <2>3, Zenon DEF Search, Ready
    <3> QED
      BY <3>1, BruteForceFinds, Zenon
  <2> QED
    BY <2>2, <2>3, Zenon
<1>7. CASE IndexStep /\ UNCHANGED <<chunks, lastId, built, building, scanned, hits, used, unseen,
                                    opens>>
  BY <1>1, <1>7, CallStepFinds, Zenon
<1>8. CASE FetchHit
  BY <1>8, FetchHitFinds, Zenon
<1>9. CASE SearchReturns \/ Reopen
  <2>1. hits' = <<>> /\ phase' # "found"
    BY <1>9 DEF SearchReturns, Reopen, NoCall
  <2> QED
    BY <2>1, NothingFound, Zenon
<1>10. CASE UNCHANGED storeVars
  <2>1. /\ nodes' = nodes /\ query' = query /\ phase' = phase /\ pending' = pending
        /\ hits' = hits /\ chunks' = chunks
    BY <1>10, Zenon DEF storeVars, index, locals
  <2> QED
    BY <2>1, Zenon DEF SearchFindsRows, ToQuery
<1> QED
  BY <1>4, <1>5, <1>6, <1>7, <1>8, <1>9, <1>10, Zenon DEF StoreNext

\* A new store has no rows and no nodes.
LEMMA AgreementBegins == StoreInit => IndexKnowsRows /\ SearchFindsRows
<1> SUFFICES ASSUME StoreInit PROVE IndexKnowsRows /\ SearchFindsRows
  OBVIOUS
<1>1. /\ DOMAIN nodes = {} /\ built = FALSE /\ building = FALSE /\ scanned = 0
      /\ hits = <<>> /\ phase = "idle"
  BY DEF StoreInit, HnswInit
<1>2. IndexKnowsRows
  BY <1>1 DEF IndexKnowsRows
<1>3. Range(hits) = {} /\ Len(hits) = 0 /\ DOMAIN hits = {} /\ IsInjective(hits) /\ 0 <= TopK
  BY <1>1, HnswConstants DEF Range, IsInjective
<1>4. SearchFindsRows
  BY <1>1, <1>3 DEF SearchFindsRows
<1> QED
  BY <1>2, <1>4

\* Index and table, updated by different operations, agree as far as a search can tell:
\* an id is in the index once, with the embedding its row has if there is one; a row the
\* index lacks was inserted by a batch or not reached by the build; and what a search
\* finds are rows, each once, the nearest first (vectorstore.go:87-256).
THEOREM IndexAndRowsAgree == StoreSpec => []IndexAgreesWithRows
<1>1. IndexKnowsRows /\ SearchFindsRows => IndexAgreesWithRows
  BY Zenon DEF IndexKnowsRows, SearchFindsRows, IndexAgreesWithRows
<1> QED
  BY <1>1, AgreementBegins, StoreBegins, StoreStepKeeps, StoreStepKnows, StoreStepFinds, PTL
     DEF StoreSpec

=============================================================================
