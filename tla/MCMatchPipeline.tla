-------------------------- MODULE MCMatchPipeline --------------------------
(***************************************************************************)
(* Instances of MatchPipeline for TLC.  The tracks are interchangeable.    *)
(***************************************************************************)
EXTENDS MatchPipeline, TLC

Symmetry == Permutations(Tasks)
=============================================================================
