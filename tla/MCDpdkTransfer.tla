--------------------------- MODULE MCDpdkTransfer ---------------------------
(* The first file is reported as five segments, so that one worker reads    *)
(* twice, the second as empty or as one.  The third path fits no packet.    *)
EXTENDS DpdkTransfer
MCFiles == <<"f1", "f2", "long">>
MCLongNames == {"long"}
MCReported == [p \in {"f1", "f2", "long"} |-> IF p = "f1" THEN {5} ELSE {0, 1}]
=============================================================================
