-------------------------- MODULE MCAdjacencyList --------------------------
(***************************************************************************)
(* Instances of AdjacencyList for TLC; addresses are interchangeable.      *)
(***************************************************************************)
EXTENDS AdjacencyList, TLC

Symmetry == Permutations(Vertices) \cup Permutations(Edges)
=============================================================================
