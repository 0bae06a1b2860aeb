--------------------------- MODULE XrdNdnConsumer ---------------------------
(***************************************************************************)
(* The Consumer of the xrootd-ndn-oss-plugin and the two programs that use *)
(* it: xrdndn-consumer, which opens a file, reads its size and lets        *)
(* nthreads threads read its blocks and write them to the output file; and *)
(* the plugin (XrdNdnOssFile), whose server opens the file, reads its size *)
(* and then reads any octets from several threads.                         *)
(*                                                                         *)
(* An octet of the file is its position.  Data for segment s carries the   *)
(* octets from s * P on, as many as there are up to P.                     *)
(***************************************************************************)
EXTENDS XrdNdnPipeline, SequencesExt

CONSTANTS
    Programs,    \* which of "copy" and "plugin" may run
    Main,        \* the thread that opens and closes the file
    Asked,       \* pipeline sizes a user may ask for
    MinSize,     \* XRDNDN_MINPIPELINESZ
    MaxSize,     \* XRDNDN_MAXPIPELINESZ
    DefaultSize, \* XRDNDN_DEFAULT_PIPELINESZ
    NThreads,    \* nthreads: the readers are 0 to NThreads - 1
    P,           \* XRDNDN_MAX_PAYLOAD_SIZE
    FileSize,    \* octets in the file
    BSize,       \* bsize, octets in a block of the copy
    Reads,       \* <<offset, length>> of the reads the server may ask for
    Junk         \* an octet that is not the file's

Readers == 0 .. NThreads - 1

ASSUME ConsumerAssumption ==
    /\ Threads = Readers \cup {Main}
    /\ Main \notin Readers
    /\ Programs \subseteq {"copy", "plugin"}
    /\ Asked \subseteq Int
    /\ {MinSize, MaxSize, NThreads, P, BSize} \subseteq Nat \ {0}
    /\ DefaultSize \in MinSize .. MaxSize
    /\ FileSize \in Nat
    /\ Reads \subseteq Nat \X (Nat \ {0})
    /\ Word > FileSize + P + BSize + MaxSize
    /\ Junk \notin 0 .. FileSize

VARIABLES
    prog,     \* the program
    call,     \* the call each thread is in or has made last
    offset,   \* where each reader reads next
    store,    \* contentStore of each reader: what its reads returned
    output,   \* the octets of the output file
    bad,      \* the state of its stream
    exit      \* what the program returned

progVars == <<prog, call, offset, store, output, bad, exit>>
vars == <<pipelineVars, progVars>>

-----------------------------------------------------------------------------
(* The arithmetic of Consumer::Read.                                        *)

\* What the producer's pread yields for a segment: nothing past the end.
Content(seg) == [k \in 1 .. Min({P, Max({0, FileSize - seg * P})}) |-> seg * P + k - 1]

\* Mutant: the segments are counted from the length alone.
SegmentsOfLength(off, len) ==
    [k \in 1 .. (len + P - 1) \div P |-> (off \div P) + k - 1]

\* firstSegmentIdx up to lastSegmentIdx, which is rounded up.
SegmentsOf(off, len) ==
    [k \in 1 .. ((off + len + P - 1) \div P) - (off \div P) |-> (off \div P) + k - 1]

\* Copies from contentoff on, at most blen octets.  The difference of two
\* size_t wraps around when contentoff lies past the content: what follows
\* it in memory is copied.
putData(buff, seg, contentoff) ==
    LET content == Content(seg)
        len == Min({(Len(content) - contentoff) % Word, buff.blen})
        octet(k) == IF k <= Len(content) THEN content[k] ELSE Junk
    IN  [octets |-> buff.octets \o [k \in 1 .. len |-> octet(contentoff + k)],
         blen |-> buff.blen - len]

\* dataStore is a map: the segments come in order, however Data arrived.
returnData(off, len) ==
    LET segs == SegmentsOf(off, len)
        buff[k \in 1 .. Len(segs)] ==
            IF k = 1 THEN putData([octets |-> <<>>, blen |-> len], segs[1], off % P)
            ELSE putData(buff[k - 1], segs[k], 0)
    IN  buff[Len(segs)].octets

-----------------------------------------------------------------------------
(* The thread that opens the file.                                          *)

\* Open and Fstat ask for segment 0 of a name of their own.
Request(t, op, off, len) ==
    /\ UNCHANGED size
    /\ Call(t, IF op = "read" THEN SegmentsOf(off, len) ELSE <<0>>)
    /\ call' = [call EXCEPT ![t] = [op |-> op, off |-> off, len |-> len]]

Accepted(asked) == asked \in MinSize .. MaxSize

\* xrdndn-consumer refuses an option out of its range (the pipeline size; the
\* block size, the number of threads and the lifetime are checked alike).
main ==
    /\ pc[Main] = "main" /\ prog = "copy"
    /\ \E asked \in Asked :
        IF Accepted(asked)
        THEN size' = asked /\ Goto(Main, "start") /\ UNCHANGED exit
        ELSE exit' = 2 /\ Goto(Main, "done") /\ UNCHANGED size
    /\ UNCHANGED <<todo, first, mutex, windowSize, stopped, faceVars, window, prog, call,
                   offset, store, output, bad>>

\* The plugin keeps the default instead.
Configure ==
    /\ pc[Main] = "main" /\ prog = "plugin"
    /\ \E asked \in Asked : size' = IF Accepted(asked) THEN asked ELSE DefaultSize
    /\ Goto(Main, "start")
    /\ UNCHANGED <<todo, first, mutex, windowSize, stopped, faceVars, window, progVars>>

Quit(code) == Goto(Main, "leave") /\ exit' = code /\ UNCHANGED <<threadVars, call>>

\* The constructor of Consumer runs the events of the face once, to find out
\* whether there is a forwarder, and starts the face thread; Open follows.
Construct ==
    /\ pc[Main] = "start"
    /\ \/ /\ Quit(2)
          /\ stopped' = TRUE
          /\ UNCHANGED faceUp
       \/ /\ Request(Main, "open", 0, 0)
          /\ faceUp' = TRUE
          /\ UNCHANGED <<stopped, exit>>
    /\ UNCHANGED <<mutex, windowSize, face, window, prog, offset, store, output, bad>>

\* run and copyFile of xrdndn-consumer, and XrdNdnOssFile::Open, begin with it;
\* the server opens each of its file objects once.
CopyOpen == prog = "copy" /\ Construct
OssOpen == prog = "plugin" /\ Construct

\* The answer to an open that failed is an application level Nack.
OpenEnds(outcome) ==
    /\ call[Main].op = "open"
    /\ Ends(Main, outcome)
    /\ IF outcome = "ok" THEN Request(Main, "fstat", 0, 0) /\ UNCHANGED exit ELSE Quit(2)
    /\ UNCHANGED <<mutex, windowSize, stopped, faceVars, window, prog, offset, store,
                   output, bad>>

\* The file is there: the readers start.
FstatEnds(outcome) ==
    /\ call[Main].op = "fstat"
    /\ Ends(Main, outcome)
    /\ IF outcome = "ok"
       THEN /\ pc' = [t \in Threads |-> IF t = Main THEN "join" ELSE "next"]
            /\ UNCHANGED <<threadVars, call, exit>>
       ELSE Quit(2)
    /\ UNCHANGED <<mutex, windowSize, stopped, faceVars, window, prog, offset, store,
                   output, bad>>

\* join_all and Close, which only prints the statistics.
Join ==
    /\ pc[Main] = "join"
    /\ \A t \in Readers : pc[t] = "done"
    /\ Quit(0)
    /\ UNCHANGED <<mutex, windowSize, stopped, faceVars, window, prog, offset, store,
                   output, bad>>

\* ~Consumer: Interests still out are dropped and the face thread is joined.
Destroy ==
    /\ pc[Main] = "leave"
    /\ Goto(Main, "done")
    /\ stopped' = TRUE
    /\ faceUp' = FALSE
    /\ window' = [t \in Threads |-> [k \in DOMAIN window[t] |->
            IF window[t][k].net = "pending"
            THEN [window[t][k] EXCEPT !.net = "removed"] ELSE window[t][k]]]
    /\ UNCHANGED <<threadVars, mutex, windowSize, face, progVars>>

-----------------------------------------------------------------------------
(* The readers.                                                             *)

\* Mutant: a thread moves on by one block more than there are threads.
StrideLong(t) == offset[t] + BSize * (NThreads + 1)

\* Each thread takes every NThreads-th block.
Stride(t) == offset[t] + BSize * NThreads

\* The copy reads the next block, cut at the end of the file.
ReadBlock(t) ==
    /\ pc[t] = "next" /\ prog = "copy"
    /\ \/ /\ offset[t] >= FileSize
          /\ Goto(t, "write")
          /\ UNCHANGED <<threadVars, call>>
       \/ /\ offset[t] < FileSize
          /\ Request(t, "read", offset[t], Min({BSize, FileSize - offset[t]}))
    /\ UNCHANGED <<mutex, windowSize, stopped, faceVars, window, prog, offset, store,
                   output, bad, exit>>

\* XrdNdnOssFile::Read, with what a client of the server asks for.
OssRead(t) ==
    /\ pc[t] = "next" /\ prog = "plugin"
    /\ \E r \in Reads : Request(t, "read", r[1], r[2])
    /\ UNCHANGED <<mutex, windowSize, stopped, faceVars, window, prog, offset, store,
                   output, bad, exit>>

\* A read that returned nothing or an error is the last one of its thread.
ReadEnds(t, outcome) ==
    /\ call[t].op = "read"
    /\ Ends(t, outcome)
    /\ LET octets == IF outcome = "ok" THEN returnData(call[t].off, call[t].len) ELSE <<>>
       IN  /\ store' = [store EXCEPT ![t] = Append(@, [off |-> call[t].off,
                            len |-> call[t].len, octets |-> octets, ret |-> outcome])]
           /\ Goto(t, IF prog = "plugin" THEN "done" ELSE IF octets = <<>> THEN "write" ELSE "next")
    /\ offset' = [offset EXCEPT ![t] = Stride(t)]
    /\ UNCHANGED <<threadVars, mutex, windowSize, stopped, faceVars, window, prog, call,
                   output, bad, exit>>

\* SynchronizedWrite::write, for each entry of contentStore.  The length of a
\* failed read is its error code: a negative length breaks the stream, and a
\* broken stream takes nothing more.
write(t) ==
    /\ pc[t] = "write"
    /\ IF store[t] = <<>>
       THEN Goto(t, "done") /\ UNCHANGED <<store, output, bad>>
       ELSE LET b == Head(store[t]) IN
            /\ store' = [store EXCEPT ![t] = Tail(@)]
            /\ bad' = (bad \/ b.ret # "ok")
            /\ output' = IF bad' THEN output
                         ELSE [p \in DOMAIN output \cup b.off .. b.off + Len(b.octets) - 1 |->
                                IF p \in b.off .. b.off + Len(b.octets) - 1
                                THEN b.octets[p - b.off + 1] ELSE output[p]]
            /\ UNCHANGED pc
    /\ UNCHANGED <<threadVars, mutex, windowSize, stopped, faceVars, window, prog, call,
                   offset, exit>>

Outcomes == {"ok", "nack", "error", "aborted"}

MainStep ==
    \/ main \/ Configure \/ CopyOpen \/ OssOpen
    \/ \E o \in Outcomes : OpenEnds(o) \/ FstatEnds(o)
    \/ Join \/ Destroy

ReaderStep(t) ==
    ReadBlock(t) \/ OssRead(t) \/ (\E o \in Outcomes : ReadEnds(t, o)) \/ write(t)

ThreadStep(t) ==
    \/ insert(t) /\ UNCHANGED progVars
    \/ t = Main /\ MainStep
    \/ t \in Readers /\ ReaderStep(t)

AnswerStep(i) == (Answer(i) \/ BackoffOver(i)) /\ UNCHANGED progVars

Init ==
    /\ prog \in Programs
    /\ pc = [t \in Threads |-> IF t = Main THEN "main" ELSE "new"]
    /\ todo = [t \in Threads |-> <<>>]
    /\ first = [t \in Threads |-> 0]
    /\ size = DefaultSize
    /\ mutex = NoThread
    /\ windowSize = 0
    /\ stopped = FALSE
    /\ faceUp = FALSE
    /\ face = "idle"
    /\ window = [t \in Threads |-> <<>>]
    /\ call = [t \in Threads |-> [op |-> "none", off |-> 0, len |-> 0]]
    /\ offset = [t \in Readers |-> BSize * t]
    /\ store = [t \in Readers |-> <<>>]
    /\ output = <<>>
    /\ bad = FALSE
    /\ exit = -1

Next ==
    \/ \E t \in Threads : ThreadStep(t)
    \/ \E i \in Interests : AnswerStep(i)
    \/ Callback /\ UNCHANGED progVars
    \/ FaceFails /\ UNCHANGED progVars

\* Every thread keeps running; the face goes on calling back (with the timeout
\* if nothing else) and running what was scheduled.
Fairness ==
    /\ \A t \in Threads : WF_vars(ThreadStep(t))
    /\ WF_vars(\E i \in Interests : AnswerStep(i))
    /\ WF_vars(Callback /\ UNCHANGED progVars)

Spec == Init /\ [][Next]_vars /\ Fairness

-----------------------------------------------------------------------------
Lost == {i \in Interests : Fetcher(i).net = "lost"}

\* A thread sleeps in insert although there is room or the pipeline has been
\* stopped: it missed the notification.
MissedWakeup == \E t \in Threads : pc[t] = "waiting" /\ (windowSize < size \/ stopped)

FaceDied == pc[Main] \notin {"main", "start"} /\ ~faceUp

\* Whatever Nacks and timeouts come, every call returns and the program comes
\* to its end.  Three things keep it from that for ever: an Interest that
\* expressInterest threw at, whose future is never ready; a missed
\* notification; and a face that broke down, because stopping the pipeline
\* leaves the futures of the Interests that are out as they are.
ProgramEnds == <>[](exit # -1 \/ Lost # {} \/ MissedWakeup \/ FaceDied)

\* The octets from off on, as many as were asked for and the file has.
FileOctets(off, len) == [k \in 1 .. Min({len, Max({0, FileSize - off})}) |-> off + k - 1]

\* In whatever order the segments of a read arrive and wherever it starts and
\* ends in them, it returns the octets asked for, as far as the file has them
\* (Consumer::Read, returnData).  The exception is a read that starts past the
\* end of the file and not on a segment: its length wraps around and it
\* returns what is behind the content in memory.
ReadsReturnContent ==
    \A t \in Readers : \A b \in ToSet(store[t]) :
        b.ret = "ok" /\ (b.off <= FileSize \/ b.off % P = 0) =>
            b.octets = FileOctets(b.off, b.len)

\* Nothing the copy writes is out of place, and when it returns 0 the output
\* is the file, or the stream broke, which takes a fetch that failed or a face
\* that did.  The exit status does not tell: copyFile does not look at it.
CopyIsFaithful ==
    /\ \A p \in DOMAIN output : output[p] = p
    /\ prog = "copy" /\ exit = 0 =>
        \/ DOMAIN output = 0 .. FileSize - 1
        \/ bad /\ (stopped \/ \E i \in Interests : Fetcher(i).task \notin {<<>>, <<"ok">>})

=============================================================================
