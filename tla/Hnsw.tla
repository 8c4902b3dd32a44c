-------------------------------- MODULE Hnsw --------------------------------
(***************************************************************************)
(* The index of internal/memory/hnsw.go: layers of neighbour lists, an     *)
(* insertion that links a new node on every layer it reaches, and a search *)
(* that descends to the lowest layer and explores it with a bounded set of *)
(* results (the beam). One action stands for one iteration of one of the   *)
(* loops; the variables of the call are reset when it returns.             *)
(*                                                                         *)
(* Of a distance only its order is used. Equal distances are allowed: sort *)
(* is not stable and leaves them in any order.                             *)
(***************************************************************************)
EXTENDS Integers, Sequences, FiniteSets, Functions

CONSTANTS
  Vectors,         \* the embeddings
  NoVector,        \* none of them
  Distance,        \* cosineDistance: pair of vectors -> its distance
  M,               \* links of a node on a layer above the lowest
  EfConstruction,  \* width of the beam of an insertion
  EfSearch,        \* width of the beam of a search
  TopK             \* results a search asks for

ASSUME HnswConstants ==
  /\ NoVector \notin Vectors /\ Distance \in [Vectors \X Vectors -> Nat]
  /\ M \in Nat \ {0} /\ EfConstruction \in Nat \ {0} /\ EfSearch \in Nat \ {0}
  /\ TopK \in Nat

\* The index. A node is known by its position in nodes.
VARIABLES
  nodes,       \* sequence of [id, vec]
  links,       \* node -> layer -> its neighbours on this layer
  entryPoint,  \* 0 for -1
  maxLevel

\* The call of Insert or Search under way.
VARIABLES
  phase,       \* "idle", "descend", "explore", "explored", "connect" or "found"
  arriving,    \* the node being inserted, 0 in a search
  query,       \* its vector, or the one searched for
  target,      \* its level, 0 in a search
  layer,       \* level
  ep,
  visited, candidates, results,  \* of searchLevel
  pending      \* what is left of the list that is looped over

index == <<nodes, links, entryPoint, maxLevel>>
beam == <<visited, candidates, results>>
locals == <<phase, arriving, query, target, layer, ep, beam, pending>>

\* NewHNSWIndex.
NewIndex == nodes' = <<>> /\ links' = <<>> /\ entryPoint' = 0 /\ maxLevel' = 0

EmptyBeam == visited' = {} /\ candidates' = {} /\ results' = {}

NoCall ==
  /\ phase' = "idle" /\ arriving' = 0 /\ query' = NoVector
  /\ target' = 0 /\ layer' = 0 /\ ep' = 0
  /\ EmptyBeam /\ pending' = <<>>

HnswInit ==
  /\ nodes = <<>> /\ links = <<>> /\ entryPoint = 0 /\ maxLevel = 0
  /\ phase = "idle" /\ arriving = 0 /\ query = NoVector
  /\ target = 0 /\ layer = 0 /\ ep = 0
  /\ visited = {} /\ candidates = {} /\ results = {} /\ pending = <<>>

-----------------------------------------------------------------------------
Between(m, n) == Distance[nodes[m].vec, nodes[n].vec]

ToQuery(n) == Distance[query, nodes[n].vec]

\* The neighbours of a node on a layer; none if it does not reach that layer.
NeighborsAt(n, level) == IF level \in DOMAIN links[n] THEN links[n][level] ELSE <<>>

\* The first k places of what far measures, sorted by it.
NearestFirst(far, k) ==
  LET all == Cardinality(DOMAIN far)
      places == 1 .. (IF all > k THEN k ELSE all)
  IN {s \in [places -> DOMAIN far] :
        /\ IsInjective(s)
        /\ \A i, j \in places : i < j => far[s[i]] <= far[s[j]]
        /\ \A x \in DOMAIN far \ Range(s) : \A i \in places : far[s[i]] <= far[x]}

MaxConn(level) == IF level = 0 THEN 2 * M ELSE M

\* Mutant: a full list of neighbours grows by one more before it is pruned.
PruneLate(level) == MaxConn(level) + 1

Capacity(level) == MaxConn(level)

\* The width of the beam.
Ef == IF arriving # 0 THEN EfConstruction ELSE IF EfSearch < TopK THEN TopK ELSE EfSearch

-----------------------------------------------------------------------------
\* A call begins at the entry point, on the highest layer.
Begin(vec, level) ==
  /\ phase' = "descend" /\ query' = vec /\ target' = level
  /\ layer' = maxLevel /\ ep' = entryPoint
  /\ UNCHANGED <<beam, pending>>

\* Insert, for a level drawn by randomLevel: the first node becomes the entry point.
InsertNode(id, vec, level) ==
  /\ phase = "idle"
  /\ nodes' = Append(nodes, [id |-> id, vec |-> vec])
  /\ links' = [n \in DOMAIN nodes' |->
                 IF n \in DOMAIN nodes THEN links[n] ELSE [l \in 0 .. level |-> <<>>]]
  /\ IF entryPoint = 0
       THEN entryPoint' = Len(nodes') /\ maxLevel' = level /\ UNCHANGED locals
       ELSE /\ arriving' = Len(nodes') /\ Begin(vec, level)
            /\ UNCHANGED <<entryPoint, maxLevel>>

SearchIndex(vec) ==
  /\ phase = "idle"
  /\ Begin(vec, 0)
  /\ UNCHANGED <<index, arriving>>

\* The neighbours of ep that are nearer to the query.
Nearer == {n \in Range(NeighborsAt(ep, layer)) : ToQuery(n) < ToQuery(ep)}

\* greedyClosest: to the nearest neighbour, as long as that comes closer.
GreedyStep ==
  /\ phase = "descend" /\ layer > target
  /\ \E n \in Nearer : (\A m \in Nearer : ToQuery(n) <= ToQuery(m)) /\ ep' = n
  /\ UNCHANGED <<index, phase, arriving, query, target, layer, beam, pending>>

LayerDown ==
  /\ phase = "descend" /\ layer > target /\ Nearer = {}
  /\ layer' = layer - 1
  /\ UNCHANGED <<index, phase, arriving, query, target, ep, beam, pending>>

-----------------------------------------------------------------------------
(***************************************************************************)
(* searchLevel                                                             *)
(***************************************************************************)
SearchLevel ==
  /\ phase = "descend" /\ layer <= target
  /\ phase' = "explore"
  /\ visited' = {ep} /\ candidates' = {ep} /\ results' = {ep}
  /\ UNCHANGED <<index, arriving, query, target, layer, ep, pending>>

Closest == {c \in candidates : \A d \in candidates : ToQuery(c) <= ToQuery(d)}

\* Mutant: the search ends at the first candidate that is not the best so far.
StopEarly(current) == \E r \in results : ToQuery(current) > ToQuery(r)

\* The nearest candidate is farther than the worst of a full set of results.
BeamDone(current) ==
  /\ \A r \in results : ToQuery(current) > ToQuery(r)
  /\ Cardinality(results) >= Ef

Expand ==
  /\ phase = "explore" /\ pending = <<>>
  /\ \E current \in Closest :
       /\ ~BeamDone(current)
       /\ candidates' = candidates \ {current}
       /\ pending' = NeighborsAt(current, layer)
  /\ UNCHANGED <<index, phase, arriving, query, target, layer, ep, visited, results>>

\* A neighbour joins the results, and the candidates, if there is room for it or if
\* it is nearer than the worst of them, which it then displaces.
Visit ==
  LET n == Head(pending)
      full == Cardinality(results) >= Ef
      worst == {r \in results : \A s \in results : ToQuery(r) >= ToQuery(s)}
      better == \E r \in results : ToQuery(n) < ToQuery(r)
  IN /\ phase = "explore" /\ pending # <<>>
     /\ pending' = Tail(pending)
     /\ visited' = visited \cup {n}
     /\ \/ /\ n \in visited \/ (full /\ ~better)
           /\ UNCHANGED <<candidates, results>>
        \/ /\ n \notin visited /\ ~full
           /\ candidates' = candidates \cup {n}
           /\ results' = results \cup {n}
        \/ /\ n \notin visited /\ full /\ better
           /\ candidates' = candidates \cup {n}
           /\ \E w \in worst : results' = (results \ {w}) \cup {n}
     /\ UNCHANGED <<index, phase, arriving, query, target, layer, ep>>

ExploreEnds ==
  /\ phase = "explore" /\ pending = <<>>
  /\ candidates = {} \/ \E current \in Closest : BeamDone(current)
  /\ phase' = "explored"
  /\ visited' = {} /\ candidates' = {}
  /\ UNCHANGED <<index, arriving, query, target, layer, ep, results, pending>>

-----------------------------------------------------------------------------
(***************************************************************************)
(* The links of the new node on a layer                                    *)
(***************************************************************************)
\* selectNeighbors, and the links of the new node.
SelectNeighbors ==
  /\ phase = "explored" /\ arriving # 0
  /\ \E selected \in NearestFirst([n \in results |-> ToQuery(n)], MaxConn(layer)) :
       /\ links' = [links EXCEPT ![arriving][layer] = selected]
       /\ pending' = selected
  /\ phase' = "connect" /\ EmptyBeam
  /\ UNCHANGED <<nodes, entryPoint, maxLevel, arriving, query, target, layer, ep>>

\* The list of a node with the link back; one over capacity keeps the nearest.
Relinked(from) ==
  LET list == Append(NeighborsAt(from, layer), arriving)
  IN IF Len(list) > Capacity(layer)
       THEN NearestFirst([n \in Range(list) |-> Between(from, n)], MaxConn(layer))
       ELSE {list}

\* addConnection: the layers the node may lack are added to it. A neighbour that is
\* dropped from its list is not told.
AddConnection ==
  LET from == Head(pending)
  IN /\ phase = "connect" /\ pending # <<>>
     /\ \E kept \in Relinked(from) :
          links' = [links EXCEPT ![from] =
                      [l \in DOMAIN links[from] \cup 0 .. layer |->
                         IF l = layer THEN kept ELSE NeighborsAt(from, l)]]
     /\ pending' = Tail(pending)
     /\ UNCHANGED <<nodes, entryPoint, maxLevel, phase, arriving, query, target, layer,
                    ep, beam>>

\* The nearest of the selected is where the next layer begins.
NextLayer ==
  /\ phase = "connect" /\ pending = <<>> /\ layer > 0
  /\ ep' = IF links[arriving][layer] # <<>> THEN Head(links[arriving][layer]) ELSE ep
  /\ layer' = layer - 1
  /\ phase' = "descend"
  /\ UNCHANGED <<index, arriving, query, target, beam, pending>>

\* A node above all layers becomes the entry point.
InsertEnds ==
  /\ phase = "connect" /\ pending = <<>> /\ layer = 0
  /\ IF target > maxLevel THEN maxLevel' = target /\ entryPoint' = arriving
                          ELSE UNCHANGED <<maxLevel, entryPoint>>
  /\ NoCall
  /\ UNCHANGED <<nodes, links>>

\* The k nearest results of a search.
SearchEnds ==
  /\ phase = "explored" /\ arriving = 0
  /\ pending' \in NearestFirst([n \in results |-> ToQuery(n)], TopK)
  /\ phase' = "found" /\ EmptyBeam
  /\ UNCHANGED <<index, arriving, query, target, layer, ep>>

IndexStep ==
  \/ GreedyStep \/ LayerDown \/ SearchLevel \/ Expand \/ Visit \/ ExploreEnds
  \/ SelectNeighbors \/ AddConnection \/ NextLayer \/ InsertEnds \/ SearchEnds

-----------------------------------------------------------------------------
\* The lists stay small and the layers nest, also in the middle of an insertion: a
\* list on a layer names other nodes that reach this layer, each once and no more than
\* its capacity. The entry point reaches the top layer, and only the node being
\* inserted may reach a higher one. An insertion relinks several nodes on several
\* layers.
ListIsWell(n, level) ==
  LET list == links[n][level]
  IN /\ list \in Seq(DOMAIN nodes) /\ Len(list) <= MaxConn(level) /\ IsInjective(list)
     /\ \A m \in Range(list) : m # n /\ level \in DOMAIN links[m]

WellFormed ==
  /\ DOMAIN links = DOMAIN nodes
  /\ IF nodes = <<>> THEN entryPoint = 0 /\ maxLevel = 0
       ELSE entryPoint \in DOMAIN nodes /\ DOMAIN links[entryPoint] = 0 .. maxLevel
  /\ \A n \in DOMAIN nodes :
       /\ n # arriving => DOMAIN links[n] \subseteq 0 .. maxLevel
       /\ 0 \in DOMAIN links[n]
       /\ \A level \in DOMAIN links[n] :
            level \in Nat /\ 0 .. level \subseteq DOMAIN links[n] /\ ListIsWell(n, level)

\* Every variable of the index and of its call holds a value of its type.
HnswTypeOK ==
  /\ nodes \in Seq([id : Nat, vec : Vectors]) /\ maxLevel \in Nat
  /\ phase \in {"idle", "descend", "explore", "explored", "connect", "found"}
  /\ IF phase = "idle" THEN query = NoVector ELSE query \in Vectors
  /\ arriving \in {0, Len(nodes)}
  /\ target \in Nat /\ layer \in 0 .. maxLevel
  /\ ep \in DOMAIN nodes \cup {0}
  /\ visited \subseteq DOMAIN nodes
  /\ candidates \subseteq DOMAIN nodes /\ results \subseteq DOMAIN nodes
  /\ pending \in Seq(DOMAIN nodes)
  /\ WellFormed

\* A beam search may miss the nearest node, but on whatever layer it ends, of an
\* insertion or a search, it leaves no result's neighbour behind that is nearer than
\* the worst result, and keeps fewer results than its width only if nothing else can
\* be reached from them.
SearchIsLocallyOptimal ==
  phase = "explored" =>
    /\ results # {} /\ Cardinality(results) <= Ef
    /\ \A r \in results : \A n \in Range(NeighborsAt(r, layer)) \ results :
         Cardinality(results) = Ef /\ \A s \in results : ToQuery(n) >= ToQuery(s)

=============================================================================
