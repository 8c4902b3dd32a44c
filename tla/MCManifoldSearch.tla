------------------------- MODULE MCManifoldSearch -------------------------
(***************************************************************************)
(* Small instances of ManifoldSearch: walks of depth two over every graph  *)
(* of four functions that call at most one other each, a search and        *)
(* lookups over a few graphs, and fusions of two lists of up to three      *)
(* results.                                                                *)
(***************************************************************************)
EXTENDS ManifoldSearch

Functions4 == {"p.a", "p.b", "q.c", "r.d"}
MCRankings == BoundedSeq({"x", "y", "z"}, 2) \cup {<<"x", "y", "z">>, <<"z", "z", "y">>}

\* A call within module p is written without the module.
Written(caller, callee) ==
  IF {caller, callee} \subseteq {"p.a", "p.b"} THEN IF callee = "p.a" THEN "a" ELSE "b" ELSE callee

\* An id, a name that a search finds, and a name that is called but no node.
MCMatches == [s \in {"p.a", "a", "gone"} |-> IF s = "gone" THEN <<>> ELSE <<"p.a">>]

Scenario(calls, patterns, symbol, graphDB, executor, backends) ==
  [nodes |-> Functions4, calls |-> calls, extends |-> {<<"q.c", "a">>, <<"r.d", "a">>},
   matches |-> MCMatches, query |-> [patterns |-> patterns, symbol |-> symbol],
   graphDB |-> graphDB, executor |-> executor, backends |-> backends]

\* Every function calls one, or none.
OneCallEach ==
  {{<<n, Written(n, callee[n])>> : n \in {m \in Functions4 : callee[m] # "none"}} :
     callee \in [Functions4 -> Functions4 \cup {"gone", "none"}]}
\* Two ways to a node, a cycle, and a name for a node.
Diamond == {<<"p.b", "a">>, <<"q.c", "p.a">>, <<"q.c", "p.b">>, <<"r.d", "q.c">>, <<"r.d", "p.a">>,
            <<"p.a", "r.d">>, <<"p.a", "gone">>}

Walks == {Scenario(calls, {op}, symbol, TRUE, FALSE, {}) :
            calls \in OneCallEach \cup {Diamond}, op \in {"caller", "blast"}, symbol \in {"p.a", "a", "gone"}}
LookUps == {Scenario(calls, patterns, symbol, TRUE, TRUE, {"vector"}) :
              calls \in {{}, Diamond}, symbol \in {"p.a", "a", "gone"},
              patterns \in {{"callee"}, {"callee", "blast"}, {"inheritance"}, {"symbol"}, {"symbol", "semantic"},
                            {"todo", "semantic"}, {"quoted"}, {"semantic"}, {"blank"}, {}}}
Fusions == {Scenario({}, patterns, "gone", graphDB, TRUE, backends) :
              graphDB \in BOOLEAN, backends \in {{"vector", "graph", "keyword"}, {"graph"}},
              patterns \in {{"caller", "hybrid"}, {"blast", "hybrid"}, {"symbol", "semantic"},
                            {"blast"}, {"semantic"}, {"todo"}}}
MCScenarios == Walks \cup LookUps \cup Fusions

=============================================================================
