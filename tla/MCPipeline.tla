----------------------------- MODULE MCPipeline ----------------------------
(* Two pull requests whose jobs follow or overlap each other. *)
EXTENDS Pipeline, TLC

Symmetry == Permutations(Jobs)
=============================================================================
