-------------------------- MODULE MCXrdNdnProducer --------------------------
(* A finite instance of XrdNdnProducer for TLC: two Interests, which may    *)
(* have one name, one file or different files.                              *)
EXTENDS XrdNdnProducer

CONSTANTS p1, p2

MCNames == {[call |-> "open", path |-> p1], [call |-> "read", path |-> p1],
            [call |-> "fstat", path |-> p2]}

=============================================================================
