----------------------------- MODULE MCPosixOss -----------------------------
(* Finite instances of PosixOss for TLC.                                    *)
EXTENDS PosixOss

\* A read from inside a segment across the end of the file, one past it, and one
\* of nothing.
MCReads == {<<1, 4>>, <<7, 1>>, <<3, 0>>}

\* In segments of three octets the second name lies in two.
MCListing == << <<1>>, <<2, 3>> >>

MCAsked == {-1, 0, 1}

=============================================================================
