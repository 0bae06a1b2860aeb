------------------------------- MODULE MCFace -------------------------------
(* Finite instances of Face for TLC.                                        *)
EXTENDS Face

=============================================================================
