-------------------------- MODULE MCPipelineFixed --------------------------
(* Finite instances of PipelineFixed for TLC.                               *)
EXTENDS PipelineFixed, TLC

Symmetry == Permutations(Requests)

=============================================================================
