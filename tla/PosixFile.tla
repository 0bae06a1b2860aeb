----------------------------- MODULE PosixFile -----------------------------
(***************************************************************************)
(* ndnc::posix::File, shared by the threads of the XRootD plugin, and the  *)
(* synchronous calls of ndnc::posix::Consumer it is built on.              *)
(*                                                                         *)
(* Every thread that uses a File gets a consumer identifier of its own in  *)
(* the pipeline, and with it a response queue.  The pipeline is the one of *)
(* module PipelineInterests, reduced to what it promises: a request is     *)
(* answered once, with Data or with null, in any order, until the pipeline *)
(* closes; and it closes when it has an answer for an identifier that is   *)
(* not registered any more (WorkerClosesForOrphans).                       *)
(*                                                                         *)
(* File keeps metadata_ without a lock: a call that reads it several times *)
(* takes several steps, with those of other threads in between.            *)
(***************************************************************************)
EXTENDS Integers, Sequences, FiniteSets, SequencesExt

CONSTANTS
    Threads,      \* threads that use the File
    Handlers,     \* other threads that use the same Consumer
    P,            \* getSegmentSize()
    FileSize,     \* octets in the file; an octet is its position
    Reads,        \* <<offset, length>> of the reads a thread may ask for
    Word,         \* bound: size_t is modulo Word
    Junk,         \* an octet that is not the file's
    MaxCalls      \* bound: calls the threads make in all

Users == Threads \cup Handlers

ASSUME PosixFileAssumption ==
    /\ Threads \cap Handlers = {}
    /\ {P, Word} \subseteq Nat \ {0}
    /\ {FileSize, MaxCalls} \subseteq Nat
    /\ Reads \subseteq Nat \X Nat
    /\ \A r \in Reads : Word > FileSize + r[1] + r[2] + P
    /\ Junk \notin 0 .. FileSize

VARIABLES
    pc,           \* where each thread is in its call
    calls,        \* the number of calls made so far
    call,         \* the number of reads each thread made under its identifier
    args,         \* what the call it is in was given
    left,         \* responses a read has yet to pop
    got,          \* the responses it has popped
    buf,          \* the octets a read copied
    metadata,     \* metadata_ is not null: the file is opened
    ids,          \* the threads in consumer_ids_
    pipelineSize, \* window of the pipeline: with 0 it sends nothing
    pending,      \* requests the pipeline holds for registered identifiers
    orphans,      \* whether it holds any for identifiers that are gone
    queue,        \* the response queue of each registered thread
    closedBy,     \* who closed the pipeline: "none" while it is open
    refused       \* history: threads of the File that got null for a request

callVars == <<calls, call>>
readVars == <<left, got, buf>>
fileVars == <<metadata, ids>>
pipelineVars == <<pipelineSize, pending, orphans, queue, closedBy, refused>>

isClosed == closedBy # "none"

\* A null dereference, or an exception that nobody catches, ends the process.
Alive == \A t \in Users : pc[t] # "crashed"

\* A call that returns forgets its arguments.
Goto(t, label) ==
    /\ pc' = [pc EXCEPT ![t] = label]
    /\ args' = IF label = "idle" THEN [args EXCEPT ![t] = "none"] ELSE args

-----------------------------------------------------------------------------
(* The arithmetic of File::read.                                            *)

\* The name of a request for metadata has no segment.
Meta == -1

\* What the server has for a segment: past the end nothing, and a Nack of the
\* application is not told from that.
Content(seg) == [k \in 1 .. Min({P, Max({0, FileSize - seg * P})}) |-> seg * P + k - 1]

\* indexFirstSegment up to indexLastSegment, which is rounded up.
Segments(off, len) == (off \div P) .. ((off + len + P - 1) \div P) - 1

\* copyDataContent: at most blen octets of a segment, from off on.  The
\* difference wraps around when off lies past the content.
copyDataContent(b, seg, off) ==
    LET content == Content(seg)
        len == Min({(Len(content) - off) % Word, b.blen})
        octet(k) == IF k <= Len(content) THEN content[k] ELSE Junk
    IN  [octets |-> b.octets \o [k \in 1 .. len |-> octet(off + k)], blen |-> b.blen - len]

\* The responses sorted by segment, whatever calls they were for.
Sorted(responses) ==
    CHOOSE s \in [1 .. Cardinality(responses) -> responses] :
        /\ \A r \in responses : \E k \in DOMAIN s : s[k] = r
        /\ \A j, k \in DOMAIN s : j < k => s[j] # s[k] /\ s[j].seg <= s[k].seg

Copied(responses, off, len) ==
    LET segs == Sorted(responses)
        buff[k \in 1 .. Len(segs)] ==
            IF k = 1 THEN copyDataContent([octets |-> <<>>, blen |-> len], segs[1].seg, off % P)
            ELSE copyDataContent(buff[k - 1], segs[k].seg, 0)
    IN  buff[Len(segs)].octets

\* The octets from off on, as many as were asked for and the file has.
FileOctets(off, len) == [k \in 1 .. Max({0, Min({off + len, FileSize}) - off}) |-> off + k - 1]

-----------------------------------------------------------------------------
(* The pipeline, as File sees it.                                           *)

\* A response for a registered thread.  "null" also stands for Data that the
\* caller rejects: no content, a Nack, a name that is no segment.
Answer(r, kind) ==
    /\ ~isClosed /\ pipelineSize > 0
    /\ pending' = pending \ {r}
    /\ queue' = [queue EXCEPT ![r.thread] =
                    Append(@, [call |-> r.call, seg |-> r.seg, kind |-> kind])]
    /\ refused' = IF kind = "null" THEN refused \cup ({r.thread} \cap Threads) ELSE refused
    /\ UNCHANGED <<pc, callVars, args, readVars, fileVars, pipelineSize, orphans, closedBy>>

Close(who) ==
    /\ ~isClosed
    /\ closedBy' = who
    /\ UNCHANGED <<pc, callVars, args, readVars, fileVars, pipelineSize, pending, orphans, queue,
                   refused>>

AnswerOrphan == orphans /\ pipelineSize > 0 /\ Close("worker")

LinkDown == Close("down")

Pipeline ==
    \/ \E r \in pending : \E kind \in {"data", "null"} : Answer(r, kind)
    \/ AnswerOrphan
    \/ LinkDown

-----------------------------------------------------------------------------
(* Identifiers: getConsumerId registers the thread if it is new.            *)

Asks(t, segs) == [thread: {t}, call: {call[t]}, seg: segs]

Push(t, segs, next) ==
    /\ ids' = ids \cup {t}
    /\ queue' = [queue EXCEPT ![t] = IF t \in ids THEN @ ELSE <<>>]
    /\ IF isClosed
       THEN Goto(t, next.failed) /\ UNCHANGED <<pending, left>>
       ELSE /\ pending' = pending \cup Asks(t, segs)
            /\ left' = [left EXCEPT ![t] = Cardinality(segs)]
            /\ Goto(t, next.pushed)
    /\ UNCHANGED <<callVars, got, buf, metadata, pipelineSize, orphans, closedBy, refused>>

MayCall(t) ==
    /\ pc[t] = "idle"
    /\ calls < MaxCalls
    /\ calls' = calls + 1

\* A call begins with its first look at metadata_.
Begin(t, label, arg) ==
    /\ MayCall(t)
    /\ pc' = [pc EXCEPT ![t] = label]
    /\ args' = [args EXCEPT ![t] = IF label = "idle" THEN "none" ELSE arg]
    /\ UNCHANGED <<readVars, fileVars, pipelineVars>>

Start(t, label, arg) == Begin(t, label, arg) /\ UNCHANGED call

-----------------------------------------------------------------------------
(* File::open, and File::stat, which opens a file that is not opened:       *)
(* getFileMetadata, over the synchronous request for one packet.            *)

\* getFileMetadata fails when the file is opened already.
open(t) == Start(t, IF metadata THEN "close" ELSE "openPush", "none")

stat(t) == Start(t, IF metadata THEN "fstat" ELSE "open", "stat")

\* The open of a stat looks again.
getFileMetadata(t) ==
    /\ pc[t] = "open"
    /\ Goto(t, IF metadata THEN "close" ELSE "openPush")
    /\ UNCHANGED <<callVars, readVars, fileVars, pipelineVars>>

openPush(t) ==
    /\ pc[t] = "openPush"
    /\ Push(t, {Meta}, [failed |-> "close", pushed |-> "openWait"])

\* FileMetadata::decode throws on the content of a segment, which has no Name.
decodes(pkt) == pkt.seg = Meta

\* The loop evaluates isValid() and drops its value: only a response ends it.
openWait(t) ==
    /\ pc[t] = "openWait"
    /\ ~isClosed /\ queue[t] # <<>>
    /\ queue' = [queue EXCEPT ![t] = Tail(@)]
    /\ left' = [left EXCEPT ![t] = 0]
    /\ LET pkt == Head(queue[t]) IN
        /\ Goto(t, IF pkt.kind = "null" THEN "close"
                   ELSE IF decodes(pkt) THEN "openCheck" ELSE "crashed")
        /\ metadata' = (metadata \/ (pkt.kind = "data" /\ decodes(pkt)))
    /\ UNCHANGED <<callVars, got, buf, ids, pipelineSize, pending, orphans, closedBy, refused>>

\* isOpened() once more, ...
openCheck(t) ==
    /\ pc[t] = "openCheck"
    /\ Goto(t, IF metadata THEN "openCheckAgain" ELSE "close")
    /\ UNCHANGED <<callVars, readVars, fileVars, pipelineVars>>

\* ... and again, where nothing is closed; stat goes on to use metadata_.
openCheckAgain(t) ==
    /\ pc[t] = "openCheckAgain"
    /\ Goto(t, IF metadata /\ args[t] = "stat" THEN "fstatCopy" ELSE "idle")
    /\ UNCHANGED <<callVars, readVars, fileVars, pipelineVars>>

-----------------------------------------------------------------------------
(* File::close, also called by an open that failed.                         *)

\* Takes the identifiers of the threads in gone out of the pipeline.
Unregister(gone) ==
    /\ orphans' = (orphans \/ \E r \in pending : r.thread \in gone)
    /\ pending' = {r \in pending : r.thread \notin gone}
    /\ queue' = [u \in Users |-> IF u \in gone THEN <<>> ELSE queue[u]]
    /\ call' = [u \in Users |-> IF u \in gone THEN 0 ELSE call[u]]
    /\ UNCHANGED <<pipelineSize, closedBy, refused>>

\* Mutant: close drops the identifiers of all threads.
closeLockedAll(t) ==
    /\ ids' = {}
    /\ metadata' = FALSE
    /\ Unregister(ids)
    /\ Goto(t, "idle")
    /\ UNCHANGED readVars

closeLocked(t) ==
    /\ ids' = ids \ {t}
    /\ metadata' = (metadata /\ ids \ {t} = {})
    /\ Unregister(ids \cap {t})
    /\ Goto(t, "idle")
    /\ UNCHANGED readVars

close(t) == MayCall(t) /\ closeLocked(t)

openFailed(t) == pc[t] = "close" /\ closeLocked(t) /\ UNCHANGED calls

-----------------------------------------------------------------------------
(* File::fstat (also the stat of an opened file) and File::read: both check *)
(* isOpened and then dereference metadata_; read does so again at the end.  *)

Dereference(t, next) ==
    /\ Goto(t, IF metadata THEN next ELSE "crashed")
    /\ UNCHANGED <<callVars, readVars, fileVars, pipelineVars>>

fstat(t) == Start(t, IF metadata THEN "fstatCopy" ELSE "idle", "none")

\* The fstat of a stat looks again.
fstatCheck(t) ==
    /\ pc[t] = "fstat"
    /\ Goto(t, IF metadata THEN "fstatCopy" ELSE "idle")
    /\ UNCHANGED <<callVars, readVars, fileVars, pipelineVars>>

fstatCopy(t) == pc[t] = "fstatCopy" /\ Dereference(t, "idle")

read(t) ==
    /\ \E r \in Reads : Begin(t, IF metadata THEN "readNames" ELSE "idle", r)
    /\ call' = IF metadata THEN [call EXCEPT ![t] = @ + 1] ELSE call

readNames(t) == pc[t] = "readNames" /\ Dereference(t, "readPush")

readPush(t) ==
    /\ pc[t] = "readPush"
    /\ LET segs == Segments(args[t][1], args[t][2])
       IN  Push(t, segs, [failed |-> "idle", pushed |-> IF segs = {} THEN "idle" ELSE "readWait"])

\* One round of syncRequestDataFor: the next response, whatever it is for.
\* Null ends the read at once; what is still to come stays in the pipeline and
\* in the queue.
Pop(t, last) ==
    /\ ~isClosed /\ queue[t] # <<>>
    /\ queue' = [queue EXCEPT ![t] = Tail(@)]
    /\ LET pkt == Head(queue[t]) IN
        IF pkt.kind = "null"
        THEN Goto(t, "idle") /\ left' = [left EXCEPT ![t] = 0] /\ got' = [got EXCEPT ![t] = {}]
        ELSE /\ left' = [left EXCEPT ![t] = @ - 1]
             /\ got' = [got EXCEPT ![t] = @ \cup {pkt}]
             /\ Goto(t, IF last THEN "readCopy" ELSE "readWait")

\* A consumer that is not valid ends the read as well.
GiveUp(t) ==
    /\ isClosed
    /\ Goto(t, "idle")
    /\ left' = [left EXCEPT ![t] = 0]
    /\ got' = [got EXCEPT ![t] = {}]
    /\ UNCHANGED queue

\* Mutant: the loop over the responses ends after the first.
readWaitFirstOnly(t) ==
    /\ pc[t] = "readWait"
    /\ Pop(t, TRUE) \/ GiveUp(t)
    /\ UNCHANGED <<callVars, buf, fileVars, pipelineSize, pending, orphans, closedBy, refused>>

\* Mutant: the loop does not look at isValid().
readWaitForever(t) ==
    /\ pc[t] = "readWait"
    /\ Pop(t, left[t] = 1)
    /\ UNCHANGED <<callVars, buf, fileVars, pipelineSize, pending, orphans, closedBy, refused>>

readWait(t) ==
    /\ pc[t] = "readWait"
    /\ Pop(t, left[t] = 1) \/ GiveUp(t)
    /\ UNCHANGED <<callVars, buf, fileVars, pipelineSize, pending, orphans, closedBy, refused>>

readCopy(t) ==
    /\ pc[t] = "readCopy"
    /\ Goto(t, IF metadata THEN "readDone" ELSE "crashed")
    /\ buf' = [buf EXCEPT ![t] = IF metadata THEN Copied(got[t], args[t][1], args[t][2]) ELSE @]
    /\ UNCHANGED <<callVars, left, got, fileVars, pipelineVars>>

\* The caller has its octets.
readDone(t) ==
    /\ pc[t] = "readDone"
    /\ Goto(t, "idle")
    /\ buf' = [buf EXCEPT ![t] = <<>>]
    /\ got' = [got EXCEPT ![t] = {}]
    /\ UNCHANGED <<callVars, left, fileVars, pipelineVars>>

-----------------------------------------------------------------------------
FileInit ==
    /\ pc = [t \in Users |-> "idle"]
    /\ calls = 0
    /\ call = [t \in Users |-> 0]
    /\ args = [t \in Users |-> "none"]
    /\ left = [t \in Threads |-> 0]
    /\ got = [t \in Threads |-> {}]
    /\ buf = [t \in Threads |-> <<>>]
    /\ metadata = FALSE
    /\ ids = {}
    /\ pending = {}
    /\ orphans = FALSE
    /\ queue = [t \in Users |-> <<>>]
    /\ closedBy = "none"
    /\ refused = {}

FileCalls(t) == open(t) \/ stat(t) \/ fstat(t) \/ read(t) \/ close(t)

FileSteps(t) ==
    \/ getFileMetadata(t) \/ openPush(t) \/ openWait(t) \/ openCheck(t) \/ openCheckAgain(t)
    \/ openFailed(t)
    \/ fstatCheck(t) \/ fstatCopy(t)
    \/ readNames(t) \/ readPush(t) \/ readWait(t) \/ readCopy(t) \/ readDone(t)

-----------------------------------------------------------------------------
\* Closing a file, by any thread and however calls interleave, takes the shared
\* pipeline down only when some request got no Data before: a read that was
\* given all it asked for, a listing and a stat leave nothing behind
\* (syncRequestDataFor, close, getDirContent).
CloseKeepsPipeline == closedBy = "worker" => refused # {}

\* A read returns the octets of the file from its offset on, as many as it
\* asked for and the file has, whatever order the segments arrive in and what
\* other threads do; except that a thread that met a null response may take what
\* an earlier read left behind, and that a read from past the end inside a
\* segment copies what lies behind the content (File::read).
ReadsOwnOctets ==
    \A t \in Threads :
        pc[t] = "readDone" =>
            \/ t \in refused
            \/ args[t][1] > FileSize /\ args[t][1] % P # 0
            \/ buf[t] = FileOctets(args[t][1], args[t][2])

\* file.cpp logs "Ref count +1" in open and "Ref count -1" in close: between
\* calls the file is opened exactly while a thread holds a reference to it.
RefCounted == (\A t \in Users : pc[t] = "idle") => (metadata <=> ids # {})

=============================================================================
