------------------------- MODULE MCSkeletonSession -------------------------
(***************************************************************************)
(* A small instance of SkeletonSession: a plan with a branch between two   *)
(* leaves, so that a branch is entered with a context and left into one,   *)
(* or, from a model that answers without a list, a single leaf.            *)
(***************************************************************************)
EXTENDS SkeletonSession

MCNodes == 1 .. 5

\* The root has the children 2, 3 and 5; the branch 3 has the leaf 4.
Branching == <<0, 1, 1, 3, 1>>
SingleLeaf == <<0>>

MCPlans == {Branching, SingleLeaf}

\* The branch 2 has the leaf 3; the root's other children are leaves.
MCBranchFirst == {<<0, 1, 2, 1, 1>>}

=============================================================================
