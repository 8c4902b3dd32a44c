--------------------------- MODULE MCVectorStore ---------------------------
(***************************************************************************)
(* A small instance of VectorStore: four embeddings, points of a line with *)
(* different distances but for one pair, two layers, lists of one and two  *)
(* links, so that the fourth insertion already prunes, and a beam narrower *)
(* than the index.                                                         *)
(***************************************************************************)
EXTENDS VectorStore

MCVectors == {0, 1, 4, 7}
MCDistance == [p \in MCVectors \X MCVectors |->
                 IF p[1] > p[2] THEN p[1] - p[2] ELSE p[2] - p[1]]
MCSourceOf == [v \in MCVectors |-> IF v < 4 THEN "a.go" ELSE "b.go"]

=============================================================================
