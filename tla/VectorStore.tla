---------------------------- MODULE VectorStore ----------------------------
(***************************************************************************)
(* The vector store of internal/memory/vectorstore.go: chunks in a table   *)
(* of the database and, from a certain number on, an index of them in      *)
(* memory (Hnsw). The two are updated by different operations: an index is *)
(* built from the table, an insertion of one chunk reaches both, and a     *)
(* batch or a deletion only the table.                                     *)
(*                                                                         *)
(* The database may refuse any operation, and may stop a build of the      *)
(* index in the middle of the rows. A process that opens the store anew    *)
(* has no index. Names are not shared with Indexer, the other store.       *)
(***************************************************************************)
EXTENDS Hnsw

CONSTANTS
  Threshold,  \* hnswThreshold
  SourceOf,   \* embedding -> the source file of this chunk
  Levels,     \* levels randomLevel may draw
  MaxOpens    \* bound of the model: times the store is opened

ASSUME StoreConstants ==
  /\ Threshold \in Nat \ {0} /\ MaxOpens \in Nat \ {0}
  /\ Levels \subseteq Nat
  /\ SourceOf \in [Vectors -> Range(SourceOf)]

VARIABLES
  chunks,    \* id -> embedding, the table
  lastId,    \* the sequence AUTOINCREMENT draws ids from
  built,     \* VectorStore.index # nil
  building,  \* BuildIndex is reading the rows
  scanned,   \* id of the last row it has read
  hits       \* what the search under way has found

\* What an observer remembers; no action reads these but to bound the model.
VARIABLES
  used,      \* the chunks that were ever inserted
  unseen,    \* ids an index in memory could not learn of
  opens

storeVars == <<index, locals, chunks, lastId, built, building, scanned, hits,
               used, unseen, opens>>

StoreInit ==
  /\ HnswInit
  /\ chunks = [i \in {} |-> NoVector] /\ lastId = 0
  /\ built = FALSE /\ building = FALSE /\ scanned = 0 /\ hits = <<>>
  /\ used = {} /\ unseen = {} /\ opens = 1

\* No operation is under way.
Ready == phase = "idle" /\ ~building

-----------------------------------------------------------------------------
\* Mutant: the table draws the next id from the rows it has.
NextRowid == IF DOMAIN chunks = {} THEN 1
             ELSE 1 + CHOOSE i \in DOMAIN chunks : \A j \in DOMAIN chunks : i >= j

NextId == lastId + 1

\* Rows with consecutive ids from NextId on.
Inserting(batch) ==
  LET first == NextId
      last == NextId + Len(batch) - 1
  IN /\ chunks' = [i \in DOMAIN chunks \cup first .. last |->
                     IF i \in first .. last THEN batch[i - first + 1] ELSE chunks[i]]
     /\ lastId' = last
     /\ used' = used \cup Range(batch)

\* Insert: the row, then the node of an index that exists.
Insert(chunk, level) ==
  /\ Ready
  /\ Inserting(<<chunk>>)
  /\ IF built THEN InsertNode(NextId, chunk, level) ELSE UNCHANGED <<index, locals>>
  /\ UNCHANGED <<built, building, scanned, hits, unseen, opens>>

\* InsertBatch: one transaction, of the rows only.
InsertBatch(batch) ==
  /\ Ready
  /\ Inserting(batch)
  /\ unseen' = IF built THEN unseen \cup NextId .. lastId' ELSE unseen
  /\ UNCHANGED <<index, locals, built, building, scanned, hits, opens>>

\* DeleteBySource: the rows only.
DeleteBySource(source) ==
  /\ Ready
  /\ chunks' = Restrict(chunks, {i \in DOMAIN chunks : SourceOf[chunks[i]] # source})
  /\ UNCHANGED <<index, locals, lastId, built, building, scanned, hits, used, unseen, opens>>

-----------------------------------------------------------------------------
(***************************************************************************)
(* BuildIndex                                                              *)
(***************************************************************************)
\* A new index replaces the old one before the rows are read.
BuildIndex ==
  /\ Ready /\ Cardinality(DOMAIN chunks) >= Threshold
  /\ NewIndex
  /\ built' = TRUE /\ building' = TRUE /\ unseen' = {}
  /\ UNCHANGED <<locals, chunks, lastId, scanned, hits, used, opens>>

\* EnsureIndex: builds the index unless there is one, of whatever rows.
EnsureIndex == ~built /\ BuildIndex

Unscanned == {i \in DOMAIN chunks : i > scanned}

\* The next row, in the order of the ids.
ScanRow(level) ==
  /\ building
  /\ \E i \in Unscanned : /\ \A j \in Unscanned : i <= j
                          /\ InsertNode(i, chunks[i], level)
                          /\ scanned' = i
  /\ UNCHANGED <<chunks, lastId, built, building, hits, used, unseen, opens>>

\* After the last row, or at an error, which leaves a partial index.
ScanEnds ==
  /\ building /\ phase = "idle"
  /\ building' = FALSE /\ scanned' = 0
  /\ unseen' = Unscanned
  /\ UNCHANGED <<index, locals, chunks, lastId, built, hits, used, opens>>

-----------------------------------------------------------------------------
(***************************************************************************)
(* Search                                                                  *)
(***************************************************************************)
UsesIndex == built /\ nodes # <<>>

\* searchBruteForce: the k nearest rows, as ids.
BruteForce(vec) ==
  /\ hits' \in NearestFirst([i \in DOMAIN chunks |-> Distance[vec, chunks[i]]], TopK)
  /\ phase' = "found" /\ query' = vec
  /\ UNCHANGED <<index, arriving, target, layer, ep, beam, pending>>

Search(vec) ==
  /\ Ready
  /\ IF UsesIndex THEN SearchIndex(vec) /\ UNCHANGED hits ELSE BruteForce(vec)
  /\ UNCHANGED <<chunks, lastId, built, building, scanned, used, unseen, opens>>

\* searchHNSW: the row of each node that was found; one that cannot be read, because
\* it is gone or the query fails, is passed over.
FetchHit ==
  LET id == nodes[Head(pending)].id
  IN /\ phase = "found" /\ pending # <<>>
     /\ \/ id \in DOMAIN chunks /\ hits' = Append(hits, id)
        \/ UNCHANGED hits
     /\ pending' = Tail(pending)
     /\ UNCHANGED <<index, phase, arriving, query, target, layer, ep, beam, chunks, lastId,
                    built, building, scanned, used, unseen, opens>>

SearchReturns ==
  /\ phase = "found" /\ pending = <<>>
  /\ hits' = <<>> /\ NoCall
  /\ UNCHANGED <<index, chunks, lastId, built, building, scanned, used, unseen, opens>>

\* The store is closed, or its process ends, also in the middle of an operation, and
\* it is opened again.
Reopen ==
  /\ opens < MaxOpens
  /\ opens' = opens + 1
  /\ NewIndex /\ NoCall
  /\ built' = FALSE /\ building' = FALSE /\ scanned' = 0 /\ hits' = <<>> /\ unseen' = {}
  /\ UNCHANGED <<chunks, lastId, used>>

-----------------------------------------------------------------------------
\* No chunk of the model is inserted twice.
Fresh == Vectors \ used
Batches == {b \in Fresh \X Fresh : b[1] # b[2]}

StoreNext ==
  \/ \E chunk \in Fresh, level \in Levels : Insert(chunk, level)
  \/ \E batch \in Batches : InsertBatch(batch)
  \/ \E source \in Range(SourceOf) : DeleteBySource(source)
  \/ BuildIndex \/ EnsureIndex
  \/ \E level \in Levels : ScanRow(level)
  \/ ScanEnds
  \/ \E vec \in Vectors : Search(vec)
  \/ IndexStep /\ UNCHANGED <<chunks, lastId, built, building, scanned, hits, used, unseen,
                              opens>>
  \/ FetchHit \/ SearchReturns
  \/ Reopen

StoreSpec == StoreInit /\ [][StoreNext]_storeVars

-----------------------------------------------------------------------------
(***************************************************************************)
(* Properties                                                              *)
(***************************************************************************)
\* The ids the index knows.
Indexed == {nodes[n].id : n \in DOMAIN nodes}

\* Every variable holds a value of its type, and the index is well formed whatever
\* was inserted in whatever order, with whatever levels.
StoreTypeOK ==
  /\ chunks \in [DOMAIN chunks -> Vectors] /\ DOMAIN chunks \subseteq 1 .. lastId
  /\ lastId \in Nat /\ scanned \in 0 .. lastId
  /\ built \in BOOLEAN /\ building \in BOOLEAN /\ (building => built)
  /\ used \subseteq Vectors /\ unseen \subseteq 1 .. lastId
  /\ opens \in 1 .. MaxOpens
  /\ hits \in Seq(1 .. lastId)
  /\ Indexed \subseteq 1 .. lastId
  /\ HnswTypeOK

\* Index and table, updated by different operations, agree as far as a search can
\* tell: a chunk is in the index once; the embedding the index knows under an id is
\* that of the row with this id, so that what is left of a deleted chunk never
\* speaks for another one; and a row the index lacks was inserted by a batch, or not
\* reached by the build. What a search has found so far are rows, each once, the
\* nearest first, and no more of them than it was asked for.
IndexAgreesWithRows ==
  /\ \A m, n \in DOMAIN nodes : nodes[m].id = nodes[n].id => m = n
  /\ \A n \in DOMAIN nodes :
       nodes[n].id \in DOMAIN chunks => chunks[nodes[n].id] = nodes[n].vec
  /\ built => DOMAIN chunks \subseteq
                unseen \cup Indexed \cup (IF building THEN Unscanned ELSE {})
  /\ Range(hits) \subseteq DOMAIN chunks /\ Len(hits) <= TopK /\ IsInjective(hits)
  /\ \A i, j \in DOMAIN hits :
       i < j => Distance[query, chunks[hits[i]]] <= Distance[query, chunks[hits[j]]]

=============================================================================
