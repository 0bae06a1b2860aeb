--------------------------- MODULE MCFileTransfer ---------------------------
(* Finite instances of FileTransfer for TLC: a directory with a file and a  *)
(* directory, listed in two segments, and a file apart.  "b" is empty and   *)
(* "c" has a segment that is not full; they take 1 and 3 requests.          *)
(* The listing of "d" and the file in it have the same key.                 *)
EXTENDS FileTransfer

MCTree ==
    [path \in {"/", "a", "d", "b", "c"} |->
        CASE path = "/" -> [kind |-> "dir", size |-> 0, key |-> 1, listing |-> <<<<"a">>, <<"d">>>>]
          [] path = "d" -> [kind |-> "dir", size |-> 0, key |-> 2, listing |-> <<<<"b">>>>]
          [] path = "a" -> [kind |-> "file", size |-> 2, key |-> 1]
          [] path = "b" -> [kind |-> "file", size |-> 0, key |-> 2]
          [] path = "c" -> [kind |-> "file", size |-> 3, key |-> 1]]

MCPathLists == {<<"/">>, <<"a", "a">>, <<"c">>, <<"none", "b", "a">>}

=============================================================================
