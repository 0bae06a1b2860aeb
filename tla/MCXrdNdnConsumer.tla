-------------------------- MODULE MCXrdNdnConsumer --------------------------
(* Finite instances of XrdNdnConsumer for TLC.                              *)
EXTENDS XrdNdnConsumer

MCThreads == Readers \cup {Main}

\* A read across two segments, one across the end of the file, one past it.
MCReads == {<<1, 2>>, <<2, 2>>, <<5, 1>>}

=============================================================================
