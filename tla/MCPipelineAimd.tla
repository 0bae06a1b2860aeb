--------------------------- MODULE MCPipelineAimd ---------------------------
(* Finite instances of PipelineAimd for TLC.                                *)
EXTENDS PipelineAimd, TLC

Symmetry == Permutations(Requests)

=============================================================================
