-------------------------- MODULE ManifoldSearch --------------------------
(***************************************************************************)
(* One call of the tool manifold_search                                    *)
(* (src/internal/tools/manifold.go): the query is routed to a strategy     *)
(* (src/internal/retrieval/router.go), structural and hybrid queries are   *)
(* first put to the knowledge graph, by walks over its call edges          *)
(* (src/internal/knowledge/graphdb.go), and what the graph does not answer *)
(* goes to the retrieval executor, which fuses the ranked lists of its     *)
(* backends (src/internal/retrieval/executor.go).                          *)
(*                                                                         *)
(* A query is reduced to the patterns it matches and the symbol extracted  *)
(* from it; a result to the key that deduplication compares.  The          *)
(* executor's backends are interfaces without an implementation in the     *)
(* repository: they return any of Rankings, or fail.                       *)
(***************************************************************************)
EXTENDS Integers, Sequences, FiniteSets, SequencesExt, FiniteSetsExt

CONSTANTS Scenarios,  \* [nodes, calls, extends, matches, query, graphDB, executor,
                      \*   backends]: the graph's nodes, its edges of two kinds as
                      \*   pairs <<source, target>>, the nodes a search for a symbol
                      \*   finds, in order, the query, and what is not nil
          Rankings,   \* the lists of results a backend may return
          MaxDepth,   \* the depth of a walk (3 in manifold.go)
          TopK,       \* the limit of the executor
          Unit        \* the score 1, a multiple of all 60 + rank

ASSUME SearchConstants ==
  /\ {MaxDepth, TopK, Unit} \subseteq Nat
  /\ \A s \in Scenarios : IsFiniteSet(s.nodes)
  /\ \A list \in Rankings : /\ list \in Seq(ToSet(list))
                            /\ \A rank \in DOMAIN list : Unit % (60 + rank) = 0

VARIABLES scenario,   \* one of Scenarios
          pc,
          decision,   \* [strategy, op, confidence]: RoutingDecision
          walk,       \* the locals of ResolveCallers and GetBlastRadius
          resolved,   \* whether the symbol was replaced by a search's first match
          lists,      \* what the executor's backends returned
          answer      \* [from, items]

vars == <<scenario, pc, decision, walk, resolved, lists, answer>>

Query == scenario.query
NoWalk == [target |-> "none", depth |-> 0, frontier |-> <<>>, next |-> <<>>, visited |-> {}, found |-> <<>>]
NoDecision == [strategy |-> "none", op |-> "none", confidence |-> 0]
NoLists == [semantic |-> <<>>, structural |-> <<>>]
---------------------------------------------------------------------------
(* Route: a query of white space is not looked at, of any other the first  *)
(* pattern that matches decides; a hybrid indicator turns a structural     *)
(* query into a hybrid one.  Confidence in hundredths.                     *)

Structural(op, confidence, mixed) ==
  [strategy |-> IF mixed THEN "hybrid" ELSE "structural", op |-> op, confidence |-> confidence]
Plain(strategy, confidence) == [strategy |-> strategy, op |-> "search", confidence |-> confidence]

Patterns == <<"blank", "caller", "callee", "blast", "inheritance", "todo", "quoted", "symbol",
              "semantic">>
FirstPattern(q) ==
  LET matched == {i \in DOMAIN Patterns : Patterns[i] \in q.patterns}
  IN  IF matched = {} THEN "unknown" ELSE Patterns[Min(matched)]

Routed(q) ==
  LET first == FirstPattern(q)
      mixed == "hybrid" \in q.patterns
  IN  CASE first = "blank"       -> Plain("semantic", 0)
        [] first = "caller"      -> Structural("callers", 90, mixed)
        [] first = "callee"      -> Structural("callees", 90, mixed)
        [] first = "blast"       -> Structural("blast", 85, mixed)
        [] first = "inheritance" -> Structural("inheritance", 85, mixed)
        [] first = "todo"        -> Plain("keyword", 90)
        [] first = "quoted"      -> Plain("keyword", 85)
        [] first = "symbol"      -> Structural("search", 70, mixed \/ "semantic" \in q.patterns)
        [] first = "semantic"    -> Plain("semantic", 70)
        [] first = "unknown"     -> Plain("semantic", 50)

GraphFirst == decision.strategy \in {"structural", "hybrid"} /\ scenario.graphDB

Init ==
  /\ scenario \in Scenarios
  /\ pc = "route" /\ decision = NoDecision /\ walk = NoWalk /\ resolved = FALSE
  /\ lists = NoLists /\ answer = [from |-> "none", items |-> <<>>]

Answer(from, items) == pc' = "done" /\ answer' = [from |-> from, items |-> items]

Route ==
  /\ pc = "route"
  /\ decision' = Routed(Query)
  /\ pc' = "ask"
  /\ UNCHANGED <<scenario, walk, resolved, lists, answer>>
---------------------------------------------------------------------------
(* The graph.  A query of the database returns its rows in no particular   *)
(* order, or fails.  The source of an edge is a node's id, its target the  *)
(* name in the text, which is an id only if it is written with the module. *)

Callers(target) == {n \in scenario.nodes : <<n, target>> \in scenario.calls}
Callees(source) == {n \in scenario.nodes : <<source, n>> \in scenario.calls}
Heirs(base) == {n \in scenario.nodes : <<n, base>> \in scenario.extends}
Matches(symbol) == scenario.matches[symbol]

IsWalk == decision.op \in {"callers", "blast"}
StartWalk(target) ==
  /\ pc' = "walk"
  /\ walk' = [NoWalk EXCEPT !.target = target, !.frontier = <<target>>, !.visited = {target}]

AskGraph ==
  /\ pc = "ask" /\ GraphFirst
  /\ IF IsWalk THEN StartWalk(Query.symbol) ELSE pc' = "look" /\ UNCHANGED walk
  /\ UNCHANGED <<scenario, decision, resolved, lists, answer>>

\* A level too many, and a depth counted by nodes: plausible slips.
OneLevelMore == walk.depth > MaxDepth \/ walk.frontier = <<>>
EveryNodeIsALevel == Len(walk.found) >= MaxDepth \/ walk.frontier = <<>>
WalkOver == walk.depth = MaxDepth \/ walk.frontier = <<>>

\* Of the rows of one GetCallers, in any order, those not visited yet are
\* visited, reported and, one level deeper, asked for their own callers.
Unseen(target) == Callers(target) \ walk.visited
WalkStep ==
  /\ pc = "walk" /\ ~WalkOver
  /\ \E rows \in SetToSeqs(Unseen(Head(walk.frontier))) :
       LET last == Len(walk.frontier) = 1
           next == walk.next \o rows
       IN  walk' = [walk EXCEPT !.visited = @ \cup ToSet(rows),
                                !.found = @ \o rows,
                                !.frontier = IF last THEN next ELSE Tail(@),
                                !.next = IF last THEN <<>> ELSE next,
                                !.depth = IF last THEN @ + 1 ELSE @]
  /\ UNCHANGED <<scenario, pc, decision, resolved, lists, answer>>

WalkReturns ==
  /\ pc = "walk" /\ WalkOver
  /\ pc' = "walked"
  /\ UNCHANGED <<scenario, decision, walk, resolved, lists, answer>>

\* What a failed or empty answer leads to: a search for the symbol, once, then
\* the executor.
SearchOrGiveUp ==
  /\ pc' = IF resolved THEN "execute" ELSE "search"
  /\ walk' = NoWalk

\* FormatNodes of what was found; of a second walk also if it found nothing.
WalkAnswers ==
  /\ pc = "walked"
  /\ IF walk.found # <<>> \/ resolved
     THEN Answer("graph", walk.found) /\ walk' = NoWalk
     ELSE SearchOrGiveUp /\ UNCHANGED answer
  /\ UNCHANGED <<scenario, decision, resolved, lists>>

WalkFails ==
  /\ pc = "walk" /\ ~WalkOver
  /\ SearchOrGiveUp
  /\ UNCHANGED <<scenario, decision, resolved, lists, answer>>

\* SearchNodes for the extracted symbol.
SearchGraph ==
  /\ pc = "search"
  /\ resolved' = TRUE
  /\ \/ /\ Matches(Query.symbol) = <<>>
        /\ pc' = "execute" /\ UNCHANGED <<walk, answer>>
     \/ /\ Matches(Query.symbol) # <<>>
        /\ LET first == Head(Matches(Query.symbol))
           IN  IF IsWalk THEN StartWalk(first) /\ UNCHANGED answer
               ELSE \E rows \in SetToSeqs(Callees(first)) : Answer("graph", rows) /\ UNCHANGED walk
  /\ UNCHANGED <<scenario, decision, lists>>

\* The operations that are one query: callees, which are searched for like
\* callers, inheritance and a plain search, whose empty answer is an answer.
LookUp ==
  /\ pc = "look"
  /\ \/ /\ decision.op = "callees"
        /\ LET rows == Callees(Query.symbol)
           IN  IF rows = {} THEN pc' = "search" /\ UNCHANGED answer
               ELSE \E order \in SetToSeqs(rows) : Answer("graph", order)
     \/ decision.op = "inheritance" /\ \E order \in SetToSeqs(Heirs(Query.symbol)) : Answer("graph", order)
     \/ decision.op = "search" /\ Answer("graph", Matches(Query.symbol))
  /\ UNCHANGED <<scenario, decision, walk, resolved, lists>>

\* A failed search and a failed lookup; the failed lookup of callees is searched
\* for, too.
LookUpFails ==
  /\ pc \in {"look", "search"}
  /\ pc' = IF pc = "look" /\ decision.op = "callees" THEN "search" ELSE "execute"
  /\ UNCHANGED <<scenario, decision, walk, resolved, lists, answer>>
---------------------------------------------------------------------------
(* The executor. *)

SkipGraph ==
  /\ pc = "ask" /\ ~GraphFirst
  /\ pc' = "execute"
  /\ UNCHANGED <<scenario, decision, walk, resolved, lists, answer>>

NoExecutor ==
  /\ pc = "execute" /\ ~scenario.executor
  /\ Answer("none", <<>>)
  /\ UNCHANGED <<scenario, decision, walk, resolved, lists>>

Backend == CASE decision.strategy = "semantic" -> "vector"
             [] decision.strategy = "structural" -> "graph"
             [] OTHER -> "keyword"

\* executeSemantic, executeStructural, executeKeyword: the backend's list as it
\* is, nothing without a backend, an error if it fails.
ExecuteOne ==
  /\ pc = "execute" /\ scenario.executor /\ decision.strategy # "hybrid"
  /\ \/ Backend \notin scenario.backends /\ Answer("executor", <<>>)
     \/ /\ Backend \in scenario.backends
        /\ \/ \E list \in Rankings : Answer("executor", list)
           \/ Answer("error", <<>>)
  /\ UNCHANGED <<scenario, decision, walk, resolved, lists>>

\* executeHybrid asks both backends; a missing or failing one counts as empty.
Returned(backend) == IF backend \in scenario.backends THEN Rankings \cup {<<>>} ELSE {<<>>}
AskBoth ==
  /\ pc = "execute" /\ scenario.executor /\ decision.strategy = "hybrid"
  /\ \E semantic \in Returned("vector"), structural \in Returned("graph") :
       lists' = [semantic |-> semantic, structural |-> structural]
  /\ pc' = "fuse"
  /\ UNCHANGED <<scenario, decision, walk, resolved, answer>>

\* reciprocalRankFusion: scoreMap after one list, entry by entry.
Share(rank, weight) == (Unit \div (60 + rank)) * weight
Scored(scores, list, weight) ==
  FoldLeftDomain(LAMBDA map, rank :
                   [key \in DOMAIN map \cup {list[rank]} |->
                      (IF key \in DOMAIN map THEN map[key] ELSE 0)
                      + (IF key = list[rank] THEN Share(rank, weight) ELSE 0)],
                 scores, list)
ScoreMap == Scored(Scored(<<>>, lists.semantic, 100), lists.structural, decision.confidence)

\* sort.Slice over the iteration of a map: equal scores come in any order.
SortedBy(scores) ==
  {order \in SetToSeqs(DOMAIN scores) :
     \A i \in 1..(Len(order) - 1) : scores[order[i]] >= scores[order[i + 1]]}

\* A plausible slip: the lists are cut before they are sorted.
CutFirst(scores) ==
  {SortSeq(SubSeq(order, 1, Min({TopK, Len(order)})), LAMBDA a, b : scores[a] > scores[b]) :
     order \in SetToSeqs(DOMAIN scores)}
Fused(scores) == {SubSeq(order, 1, Min({TopK, Len(order)})) : order \in SortedBy(scores)}

Fuse ==
  /\ pc = "fuse"
  /\ \E items \in Fused(ScoreMap) : Answer("fusion", items)
  /\ UNCHANGED <<scenario, decision, walk, resolved, lists>>

Next ==
  \/ Route \/ AskGraph \/ WalkStep \/ WalkReturns \/ WalkAnswers \/ WalkFails
  \/ SearchGraph \/ LookUp \/ LookUpFails
  \/ SkipGraph \/ NoExecutor \/ ExecuteOne \/ AskBoth \/ Fuse

Spec == Init /\ [][Next]_vars
---------------------------------------------------------------------------
\* Type invariant; nothing is visited that is neither reported nor the target.
TypeOK ==
  /\ pc \in {"route", "ask", "walk", "walked", "look", "search", "execute", "fuse", "done"}
  /\ decision.strategy \in {"none", "semantic", "structural", "hybrid", "keyword"}
  /\ decision.confidence \in {0, 50, 70, 85, 90}
  /\ walk.depth \in 0..MaxDepth
  /\ ToSet(walk.found) \subseteq scenario.nodes
  /\ walk # NoWalk => walk.visited = ToSet(walk.found) \cup {walk.target}
  /\ ToSet(walk.frontier \o walk.next) \subseteq walk.visited
  /\ resolved \in BOOLEAN
  /\ lists \in [semantic : Rankings \cup {<<>>}, structural : Rankings \cup {<<>>}]
  /\ answer.from \in {"none", "graph", "executor", "fusion", "error"}

\* The nodes from which d calls or fewer lead to the walk's target.
Within ==
  LET near[d \in 0..MaxDepth] ==
        IF d = 0 THEN {walk.target}
        ELSE near[d - 1] \cup UNION {Callers(n) : n \in near[d - 1]}
  IN  near

\* A walk that returns has found exactly the nodes from which MaxDepth calls or
\* fewer lead to its target, each once and the closer ones first, in graphs with
\* cycles, with several ways to a node and with calls that name no node
\* (ResolveCallers).
WalkIsExact ==
  pc = "walked" /\ decision.op = "callers" =>
    LET distance(n) == Min({d \in 0..MaxDepth : n \in Within[d]})
    IN  /\ ToSet(walk.found) = Within[MaxDepth] \ {walk.target}
        /\ IsInjective(walk.found)
        /\ \A i, j \in DOMAIN walk.found : i < j => distance(walk.found[i]) <= distance(walk.found[j])

\* Reciprocal rank fusion by its formula.
Score(key) ==
  LET over(list, weight) == MapThenSumSet(LAMBDA rank : Share(rank, weight), {r \in DOMAIN list : list[r] = key})
  IN  over(lists.semantic, 100) + over(lists.structural, decision.confidence)

\* The answer of a fusion is a best one: as many different results as there are,
\* up to the limit, in the order of their scores, and none that was left out has
\* a higher score than one that was kept; which of equal ones are kept is open
\* (executeHybrid, reciprocalRankFusion).
FusionKeepsTheBest ==
  answer.from = "fusion" =>
    LET keys == ToSet(lists.semantic) \cup ToSet(lists.structural)
        kept == ToSet(answer.items)
    IN  /\ kept \subseteq keys /\ IsInjective(answer.items)
        /\ Len(answer.items) = Min({TopK, Cardinality(keys)})
        /\ \A i, j \in DOMAIN answer.items : i < j => Score(answer.items[i]) >= Score(answer.items[j])
        /\ \A key \in keys \ kept : \A item \in kept : Score(key) <= Score(item)

=============================================================================
