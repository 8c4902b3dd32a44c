------------------------------- MODULE Indexer -------------------------------
(***************************************************************************)
(* The incremental indexer of internal/knowledge/indexer.go on top of the  *)
(* tables of graphdb.go: IndexAll, IndexChanged, indexFile, IngestResult   *)
(* and DeleteByFile. The files change while they are indexed, transactions *)
(* fail, and a new Indexer may be made over the same database.             *)
(*                                                                         *)
(* A node or an edge is an item, known by the primary key of its table;    *)
(* the parsers give the same id to items of several files, as to the       *)
(* package's node. The content of a file is what parsing it yields. Its    *)
(* hash is the content itself: SHA-256 is taken to have no collisions.     *)
(***************************************************************************)
EXTENDS Integers

CONSTANTS
  Files,        \* paths of supported files, numbers in the order of the walk
  Items,        \* primary keys of nodes and edges
  Contents,     \* file -> the contents it may have
  MaxCalls,     \* bound of the model: calls of IndexAll and IndexChanged
  MaxEdits,     \* bound of the model: changes of files
  MaxFaults,    \* bound of the model: failures of transactions, reads and the walk
  MaxRestarts   \* bound of the model: new Indexers over the database

Content == [kind : {"source", "broken", "missing"}, items : SUBSET Items]
Missing == [kind |-> "missing", items |-> {}]

ASSUME IndexerConstants ==
  /\ Files \subseteq Nat \ {0}
  /\ Contents \in [Files -> SUBSET [kind : {"source", "broken"}, items : SUBSET Items]]
  /\ {MaxCalls, MaxEdits, MaxFaults, MaxRestarts} \subseteq Nat

\* A row names the file it was found in, and holds what the parser found there.
Row == [file : Files, from : Content]
NoRow == [file |-> 0, from |-> Missing]

VARIABLES
  disk,     \* file -> its content
  rows,     \* item -> its row in the database
  state,    \* Indexer.state: file -> recorded hash, Missing if none is recorded
  pc,       \* "idle", "walk" over the files, "parse", "delete" or "ingest"
  full,     \* the call is IndexAll
  todo,     \* discovered files still to visit
  current,  \* currentFiles
  hash,     \* hash of the file being indexed
  parsed    \* its ParseResult

VARIABLES calls, edits, faults, restarts

\* What an observer remembers; no action reads these.
VARIABLES
  disturbed,  \* an edit, a fault or a restart since the last call began
  done,       \* files this call has indexed
  untracked,  \* files whose rows came into the database, or stayed, without a state
  raced       \* files whose rows are not of the recorded hash

call == <<pc, full, todo, current, hash, parsed>>
budgets == <<calls, edits, faults, restarts>>
observed == <<disturbed, done, untracked, raced>>
vars == <<disk, rows, state, call, budgets, observed>>

-----------------------------------------------------------------------------
(***************************************************************************)
(* The two transactions of the database                                    *)
(***************************************************************************)
\* Mutant: only the rows that are found again are replaced.
NothingDeleted(table, f) == table

\* DeleteByFile.
WithoutFile(table, f) ==
  [i \in Items |-> IF table[i].file = f THEN NoRow ELSE table[i]]

\* Mutant: an item that is in the table keeps its row.
FirstWins(table, f, content) ==
  [i \in Items |-> IF i \in content.items /\ table[i] = NoRow
                     THEN [file |-> f, from |-> content] ELSE table[i]]

\* IngestResult: rows are inserted, or updated with all their columns.
Upserted(table, f, content) ==
  [i \in Items |-> IF i \in content.items
                     THEN [file |-> f, from |-> content] ELSE table[i]]

-----------------------------------------------------------------------------
Init ==
  /\ disk \in [Files -> UNION {Contents[f] : f \in Files} \cup {Missing}]
  /\ \A f \in Files : disk[f] \in Contents[f] \cup {Missing}
  /\ rows = [i \in Items |-> NoRow]
  /\ state = [f \in Files |-> Missing]
  /\ pc = "idle" /\ full = FALSE /\ todo = {} /\ current = {}
  /\ hash = Missing /\ parsed = Missing
  /\ calls = 0 /\ edits = 0 /\ faults = 0 /\ restarts = 0
  /\ disturbed = FALSE /\ done = {} /\ untracked = {} /\ raced = {}

Existing == {f \in Files : disk[f] # Missing}

\* discoverFiles: what the walk cannot read it passes over.
StartCall(all, seen) ==
  /\ pc = "idle" /\ calls < MaxCalls
  /\ calls' = calls + 1
  /\ pc' = "walk" /\ full' = all /\ todo' = seen /\ current' = seen
  /\ \/ seen = Existing /\ UNCHANGED faults /\ disturbed' = FALSE
     \/ /\ seen # Existing /\ faults < MaxFaults
        /\ faults' = faults + 1 /\ disturbed' = TRUE
  /\ done' = {}
  /\ UNCHANGED <<disk, rows, state, hash, parsed, edits, restarts, untracked, raced>>

\* The file the loop is at.
Path == CHOOSE f \in todo : \A g \in todo : f <= g

\* Mutant: a file that failed is not followed by a continue.
ContinueForgotten == UNCHANGED pc /\ todo' = todo \ {Path}

\* The loop goes on to the next file.
NextFile == pc' = "walk" /\ todo' = todo \ {Path}

\* IndexChanged hashes the file: it goes on when that fails, because the file is
\* gone, and when the hash is the recorded one.
SkipFile ==
  /\ pc = "walk" /\ ~full /\ todo # {}
  /\ disk[Path] \in {Missing, state[Path]}
  /\ NextFile
  /\ UNCHANGED <<disk, rows, state, full, current, hash, parsed, budgets, observed>>

HashFile ==
  /\ pc = "walk" /\ ~full /\ todo # {}
  /\ disk[Path] \notin {Missing, state[Path]}
  /\ hash' = disk[Path]
  /\ pc' = "parse"
  /\ UNCHANGED <<disk, rows, state, full, todo, current, parsed, budgets, observed>>

\* IndexAll indexes every file it has found.
IndexFile ==
  /\ pc = "walk" /\ full /\ todo # {}
  /\ pc' = "parse"
  /\ UNCHANGED <<disk, rows, state, full, todo, current, hash, parsed, budgets, observed>>

\* The parser reads the file again, and may find it gone or not to be parsed.
ParseFile ==
  /\ pc = "parse"
  /\ IF disk[Path].kind = "source"
       THEN /\ parsed' = disk[Path] /\ pc' = "delete"
            /\ UNCHANGED todo
       ELSE NextFile /\ UNCHANGED parsed
  /\ UNCHANGED <<disk, rows, state, full, current, hash, budgets, observed>>

DeleteOld ==
  /\ pc = "delete"
  /\ rows' = WithoutFile(rows, Path)
  /\ pc' = "ingest"
  /\ UNCHANGED <<disk, state, full, todo, current, hash, parsed, budgets, observed>>

\* IngestResult commits; IndexChanged, unlike IndexAll, then records the hash.
IngestNew ==
  /\ pc = "ingest"
  /\ rows' = Upserted(rows, Path, parsed)
  /\ state' = IF full THEN state ELSE [state EXCEPT ![Path] = hash]
  /\ done' = done \cup {Path}
  /\ raced' = IF state'[Path] = parsed THEN raced \ {Path} ELSE raced \cup {Path}
  /\ untracked' = IF state'[Path] # Missing THEN untracked \ {Path}
                                            ELSE untracked \cup {Path}
  /\ NextFile
  /\ UNCHANGED <<disk, full, current, hash, parsed, budgets, disturbed>>

\* A file that exists cannot be read, when it is hashed or when it is parsed, or
\* either transaction fails and is rolled back; the file is passed over.
FileFails ==
  /\ \/ pc \in {"delete", "ingest"}
     \/ pc = "parse" /\ disk[Path] # Missing
     \/ pc = "walk" /\ ~full /\ todo # {} /\ disk[Path] # Missing
  /\ faults < MaxFaults
  /\ faults' = faults + 1 /\ disturbed' = TRUE
  /\ raced' = IF pc = "ingest" THEN raced \cup {Path} ELSE raced
  /\ NextFile
  /\ UNCHANGED <<disk, rows, state, full, current, hash, parsed, calls, edits, restarts,
                 done, untracked>>

\* The recorded files that the walk has not found.
Gone == {f \in Files : state[f] # Missing /\ f \notin current}

\* Mutant: the file's state is dropped and its rows are not.
RowsLeft(table, f) == table

\* A gone file leaves the graph and the states, the latter also when its rows could
\* not be deleted: the error is dropped.
RemainingRows(table, f) == WithoutFile(table, f)

RemoveGone(f) ==
  /\ pc = "walk" /\ ~full /\ todo = {} /\ f \in Gone
  /\ state' = [state EXCEPT ![f] = Missing]
  /\ \/ /\ rows' = RemainingRows(rows, f)
        /\ untracked' = untracked \ {f} /\ UNCHANGED <<faults, disturbed>>
     \/ /\ faults < MaxFaults
        /\ faults' = faults + 1 /\ disturbed' = TRUE
        /\ untracked' = untracked \cup {f} /\ UNCHANGED rows
  /\ raced' = raced \ {f}
  /\ UNCHANGED <<disk, call, calls, edits, restarts, done>>

EndCall ==
  /\ pc = "walk" /\ todo = {} /\ (full \/ Gone = {})
  /\ pc' = "idle"
  /\ UNCHANGED <<disk, rows, state, full, todo, current, hash, parsed, budgets, observed>>

-----------------------------------------------------------------------------
(***************************************************************************)
(* The environment                                                         *)
(***************************************************************************)
\* A file is created, changed or removed, also while a call is under way.
Edit(f, content) ==
  /\ edits < MaxEdits /\ disk[f] # content
  /\ edits' = edits + 1
  /\ disk' = [disk EXCEPT ![f] = content]
  /\ disturbed' = TRUE
  /\ UNCHANGED <<rows, state, call, calls, faults, restarts, done, untracked, raced>>

\* The states are in memory only: a new Indexer begins without any.
Restart ==
  /\ restarts < MaxRestarts
  /\ restarts' = restarts + 1
  /\ state' = [f \in Files |-> Missing]
  /\ pc' = "idle" /\ todo' = {}
  /\ disturbed' = TRUE
  /\ untracked' = {rows[i].file : i \in Items} \ {0}
  /\ raced' = {}
  /\ UNCHANGED <<disk, rows, full, current, hash, parsed, calls, edits, faults, done>>

Next ==
  \/ \E all \in BOOLEAN, seen \in SUBSET Existing : StartCall(all, seen)
  \/ SkipFile \/ HashFile \/ IndexFile \/ ParseFile
  \/ DeleteOld \/ IngestNew \/ FileFails
  \/ \E f \in Files : RemoveGone(f)
  \/ EndCall
  \/ \E f \in Files : \E content \in Contents[f] \cup {Missing} : Edit(f, content)
  \/ Restart

Spec == Init /\ [][Next]_vars

-----------------------------------------------------------------------------
(***************************************************************************)
(* Properties                                                              *)
(***************************************************************************)
\* Every variable holds a value of its type, and a file is being indexed exactly
\* while the call is past its hash.
TypeOK ==
  /\ disk \in [Files -> Content] /\ state \in [Files -> Content]
  /\ rows \in [Items -> Row \cup {NoRow}]
  /\ pc \in {"idle", "walk", "parse", "delete", "ingest"} /\ full \in BOOLEAN
  /\ todo \subseteq Files /\ current \subseteq Files /\ todo \subseteq current
  /\ pc \in {"parse", "delete", "ingest"} => todo # {}
  /\ pc = "idle" => todo = {}
  /\ hash \in Content /\ parsed \in Content
  /\ pc \in {"delete", "ingest"} => parsed.kind = "source"
  /\ calls \in 0 .. MaxCalls /\ edits \in 0 .. MaxEdits
  /\ faults \in 0 .. MaxFaults /\ restarts \in 0 .. MaxRestarts
  /\ disturbed \in BOOLEAN
  /\ done \subseteq Files /\ untracked \subseteq Files /\ raced \subseteq Files

\* Whatever the graph holds of a file, the indexer has a state for the file and
\* will find it gone when it is, except for a file that only IndexAll has indexed,
\* that was indexed before a restart, or whose deletion from the graph failed.
GraphIsTracked ==
  \A i \in Items : rows[i] # NoRow =>
    state[rows[i].file] # Missing \/ rows[i].file \in untracked

\* Items that no other file may hold.
Own(f) == {i \in Items : \A g \in Files \ {f} : \A c \in Contents[g] : i \notin c.items}

\* Between the indexing of two files a recorded hash describes what the graph holds
\* of the file: its rows are of that content, and all of its own items are there.
\* The exceptions: the file changed between its hash and its parsing, IndexAll has
\* indexed it since, or its new rows could not be inserted after the old ones were
\* deleted.
HashDescribesGraph ==
  \A f \in Files \ raced :
    state[f] # Missing /\ ~(pc = "ingest" /\ f = Path) =>
      /\ \A i \in Items : rows[i].file = f => rows[i].from = state[f]
      /\ \A i \in Own(f) \cap state[f].items : rows[i].file = f

\* A call during which nothing changed or failed leaves every file it has indexed
\* in the graph, item by item: each has a row of this call, and nothing is left of
\* an earlier content of the file.
IndexedIsExact ==
  pc = "idle" /\ ~disturbed =>
    \A f \in done :
      /\ \A i \in disk[f].items : /\ rows[i].file \in done
                                  /\ rows[i].from = disk[rows[i].file]
      /\ \A i \in Items : rows[i].file = f => rows[i].from = disk[f]

-----------------------------------------------------------------------------
\* internal/knowledge/indexer.go:98 says of the end of IndexChanged: "Remove
\* deleted files from the graph". After an IndexChanged during which nothing changed
\* or failed, the graph holds nothing of a file that is not on disk.
DeletedFilesLeave ==
  pc = "idle" /\ calls > 0 /\ ~full /\ ~disturbed =>
    \A i \in Items : rows[i] # NoRow => disk[rows[i].file] # Missing

=============================================================================
