------------------------------ MODULE PosixOss ------------------------------
(***************************************************************************)
(* The XRootD plugin of NDNc (XrdNdnOss): its configuration, the one       *)
(* Consumer that all files and directories share, the directories          *)
(* (XrdNdnOssDir over ndnc::posix::Dir) and the stat of a path, next to    *)
(* the threads that use a File (module PosixFile).                         *)
(*                                                                         *)
(* A directory belongs to one thread.  Its requests go out one at a time   *)
(* under an identifier of their own.                                       *)
(***************************************************************************)
EXTENDS PosixFile

CONSTANTS
    Listing,     \* the names in the directory, sequences of octets
    Nul,         \* the octet that ends a name
    Asked,       \* pipeline sizes in the configuration file
    DefaultSize  \* ConsumerOptions::pipelineSize

ASSUME PosixOssAssumption ==
    /\ Asked \subseteq Int
    /\ DefaultSize \in Nat \ {0}
    /\ Junk # Nul
    /\ Listing \in Seq(Range(Listing))
    /\ \A k \in DOMAIN Listing :
        /\ Listing[k] \in Seq(Range(Listing[k])) \ {<<>>}
        /\ Nul \notin Range(Listing[k])

VARIABLES
    oss,  \* the storage system: "start", "configured", "up" or "none"
    dir   \* the directory of each handler

vars == <<pc, calls, call, args, left, got, buf, metadata, ids, pipelineSize, pending, orphans,
          queue, closedBy, refused, oss, dir>>

\* content_, onReadNextEntryPos_, and the loop of getDirContent; listed and end
\* are history: the names returned in this pass, and whether it is over.
NoDir == [opened |-> FALSE, content |-> <<>>, pos |-> 0, seg |-> 0, bytes |-> <<>>,
          listed |-> <<>>, end |-> FALSE]

-----------------------------------------------------------------------------
(* XrdOssGetStorageSystem.                                                  *)

\* A bad gqlserver, mtu or prefix is an error.  Of a negative pipeline size it
\* is said that it is ignored; 0 is taken.
Config ==
    /\ oss = "start"
    /\ \/ oss' = "none" /\ UNCHANGED pipelineSize
       \/ /\ oss' = "configured"
          /\ \E asked \in Asked : pipelineSize' = IF asked < 0 THEN DefaultSize ELSE asked
    /\ UNCHANGED <<pc, callVars, args, readVars, fileVars, pending, orphans, queue, closedBy,
                   refused, dir>>

\* The face of the Consumer connects or does not.
OssInit ==
    /\ oss = "configured"
    /\ oss' \in {"none", "up"}
    /\ UNCHANGED <<pc, callVars, args, readVars, fileVars, pipelineVars, dir>>

\* The signal handler calls exit, whose destructors stop the Consumer while the
\* server's threads go on.
sigint_handler == Close("down") /\ UNCHANGED <<oss, dir>>

-----------------------------------------------------------------------------
(* Requests for one packet.                                                 *)

\* Pushes the request for seg; a closed pipeline is a response of null.
PushOne(h, seg, waiting) ==
    /\ IF isClosed
       THEN Goto(h, "idle") /\ UNCHANGED pending
       ELSE Goto(h, waiting) /\ pending' = pending \cup Asks(h, {seg})
    /\ UNCHANGED <<callVars, readVars, fileVars, pipelineSize, orphans, queue, closedBy, refused,
                   oss>>

\* Waits for the response like openWait, and unregisters once nothing follows.
PopOne(h) ==
    /\ ~isClosed /\ queue[h] # <<>>
    /\ queue' = [queue EXCEPT ![h] = Tail(@)]
    /\ UNCHANGED <<callVars, readVars, fileVars, pipelineSize, pending, orphans, closedBy,
                   refused, oss>>

-----------------------------------------------------------------------------
(* Dir::open after newDir, and XrdNdnOss::Stat, which makes a File of its   *)
(* own for the call.                                                        *)

\* newDir refuses when the consumer is not valid.  The path is one of a
\* directory or of a file.
Opendir(h) ==
    /\ ~isClosed
    /\ \E path \in {"dir", "file"} : Start(h, "metaPush", path)
    /\ dir' = [dir EXCEPT ![h] = NoDir]
    /\ UNCHANGED oss

Stat(h) == Start(h, "metaPush", "stat") /\ UNCHANGED <<oss, dir>>

metaPush(h) == pc[h] = "metaPush" /\ PushOne(h, Meta, "metaWait") /\ UNCHANGED dir

\* A path that is no directory is closed again; a stat's File is destroyed.
metaWait(h) ==
    /\ pc[h] = "metaWait"
    /\ PopOne(h)
    /\ Goto(h, "idle")
    /\ dir' = [dir EXCEPT ![h].opened =
                  @ \/ (Head(queue[h]).kind = "data" /\ args[h] = "dir")]

-----------------------------------------------------------------------------
(* Dir::read and Dir::close.                                                *)

\* The server's listing: each name with the octet that ends it.
Octets == FlattenSeq([k \in DOMAIN Listing |-> Append(Listing[k], Nul)])

FinalBlock == Max({0, ((Len(Octets) + P - 1) \div P) - 1})

ListingContent(seg) == SubSeq(Octets, seg * P + 1, Min({(seg + 1) * P, Len(Octets)}))

\* The names in bytes: one ends at each Nul, and an empty one ends the list.  The
\* loop looks at one octet behind the last, which nobody has set.
ParseNames(bytes, behind) ==
    LET b == Append(bytes, behind)
        step(acc, j) ==
            IF acc.over \/ b[j] # Nul THEN acc
            ELSE IF b[acc.i] = Nul THEN [acc EXCEPT !.over = TRUE]
            ELSE [acc EXCEPT !.names = Append(@, SubSeq(b, acc.i, j - 1)), !.i = j + 1]
        upTo[j \in 0 .. Len(b)] ==
            IF j = 0 THEN [names |-> <<>>, i |-> 1, over |-> FALSE] ELSE step(upTo[j - 1], j)
    IN  upTo[Len(b)].names

\* The next name, or the end, after which the next read starts over.
NextEntry(d) ==
    LET listed == IF d.end THEN <<>> ELSE d.listed
    IN  IF d.pos < Len(d.content)
        THEN [d EXCEPT !.pos = @ + 1, !.listed = Append(listed, d.content[d.pos + 1]),
                       !.end = FALSE]
        ELSE [d EXCEPT !.content = <<>>, !.pos = 0, !.listed = listed, !.end = TRUE]

\* The server reads a directory that it could open.
Readdir(h) ==
    /\ dir[h].opened
    /\ IF dir[h].content = <<>>
       THEN Start(h, "listPush", "readdir") /\ UNCHANGED dir
       ELSE Start(h, "idle", "readdir") /\ dir' = [dir EXCEPT ![h] = NextEntry(@)]
    /\ UNCHANGED oss

\* A failure drops what was read so far.
Restart(d) == [d EXCEPT !.seg = 0, !.bytes = <<>>]

listPush(h) ==
    /\ pc[h] = "listPush"
    /\ PushOne(h, dir[h].seg, "listWait")
    /\ dir' = IF isClosed THEN [dir EXCEPT ![h] = Restart(@)] ELSE dir

\* One round of getDirContent, of which more may follow.
ListRound(h, more) ==
    /\ pc[h] = "listWait"
    /\ PopOne(h)
    /\ LET d == [dir[h] EXCEPT !.bytes = @ \o ListingContent(dir[h].seg)]
       IN  IF Head(queue[h]).kind = "null"
           THEN Goto(h, "idle") /\ dir' = [dir EXCEPT ![h] = Restart(@)]
           ELSE IF more
           THEN Goto(h, "listPush") /\ dir' = [dir EXCEPT ![h] = [d EXCEPT !.seg = @ + 1]]
           ELSE /\ Goto(h, "idle")
                /\ \E behind \in {Nul, Junk} :
                    LET names == ParseNames(d.bytes, behind)
                    IN  dir' = [dir EXCEPT ![h] = NextEntry([Restart(d) EXCEPT !.content = names])]

\* Mutant: the last segment is not asked for.
listWaitShort(h) == ListRound(h, dir[h].seg + 1 < FinalBlock)

listWait(h) == ListRound(h, dir[h].seg < FinalBlock)

Closedir(h) ==
    /\ Start(h, "idle", "closedir")
    /\ dir' = [dir EXCEPT ![h] = NoDir]
    /\ UNCHANGED oss

-----------------------------------------------------------------------------
Init ==
    /\ FileInit
    /\ pipelineSize = DefaultSize
    /\ oss = "start"
    /\ dir = [h \in Handlers |-> NoDir]

FileNext ==
    /\ Pipeline \/ \E t \in Threads : FileCalls(t) \/ FileSteps(t)
    /\ UNCHANGED <<oss, dir>>

DirCalls(h) == Opendir(h) \/ Stat(h) \/ Readdir(h) \/ Closedir(h)
DirSteps(h) == metaPush(h) \/ metaWait(h) \/ listPush(h) \/ listWait(h)

Next ==
    \/ Config \/ OssInit
    \/ oss = "up" /\ Alive
        /\ (FileNext \/ sigint_handler \/ \E h \in Handlers : DirCalls(h) \/ DirSteps(h))

\* As long as a thread can go on with its call, or the pipeline has a request to
\* answer (ImplementsRequestResponse of module PipelineInterests), one of them does.
\* That is less than fairness for each, and enough: every call is finitely many steps.
Progress ==
    /\ oss = "up" /\ Alive
    /\ \/ \E h \in Handlers : DirSteps(h)
       \/ /\ \/ \E t \in Threads : FileSteps(t)
             \/ \E r \in pending : \E kind \in {"data", "null"} : Answer(r, kind)
          /\ UNCHANGED <<oss, dir>>

Spec == Init /\ [][Next]_vars /\ WF_vars(Progress)

-----------------------------------------------------------------------------
\* A pass over a directory returns its names, in order and each once, also when
\* a name lies across two segments and when a read failed before; at its end it
\* has returned all of them (Dir::read, getDirContent).
ListingComplete ==
    \A h \in Handlers :
        /\ IsPrefix(dir[h].listed, Listing)
        /\ dir[h].end => dir[h].listed = Listing

\* The calls, of which there are MaxCalls, all return, or the process ends; except
\* that a request for one packet waits for ever when the pipeline closes (the
\* while of syncRequestDataFor), or when the configuration gave it a size of 0.
CallsReturn ==
    <>[] \/ ~Alive
         \/ \A t \in Users :
                \/ pc[t] = "idle"
                \/ /\ pc[t] \in {"openWait", "metaWait", "listWait"}
                   /\ isClosed \/ pipelineSize = 0

=============================================================================
