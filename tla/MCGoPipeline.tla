---------------------------- MODULE MCGoPipeline ----------------------------
(* A finite instance of GoPipeline for TLC.                                 *)
EXTENDS GoPipeline

=============================================================================
