---------------------------- MODULE DpdkTransfer ----------------------------
(***************************************************************************)
(* The NDN-DPDK consumer and producer.  The consumer's app transfers its   *)
(* files one after the other: FileInfo, then two workers that Read         *)
(* interleaved blocks.  A call puts a request on a ring; the TX thread     *)
(* sends its Interests in bursts, the RX thread hands every answer to a    *)
(* goroutine of its own, and all the goroutines send on one unbuffered     *)
(* channel, from which all the callers receive: whoever comes first takes  *)
(* any answer.  Nothing times out and nothing is sent again.               *)
(*                                                                         *)
(* The producer is one thread over a FileSystem whose garbage collector    *)
(* thread closes the descriptors.  Offsets and sizes are in segments of    *)
(* XRDNDNDPDK_MAX_PAYLOAD_SIZE bytes.  Undefined behaviour ends the model. *)
(***************************************************************************)
EXTENDS Integers, Sequences, FiniteSets, SequencesExt

CONSTANTS
    Files,       \* app.files: a sequence of distinct paths
    LongNames,   \* paths whose name does not fit a packet
    FileSize,    \* size of every file
    Reported,    \* sizes the consumer may find in an answer to FILEINFO, by path
    BufferSz,    \* buffersz (1 MB)
    MaxBurst,    \* CONSUMER_TX_MAX_BURST_SIZE
    MaxFaults,   \* bound: packets dropped or refused, empty pools, signals, reused requests
    MaxGc        \* bound: rounds of the garbage collector

Paths == Range(Files)
Workers == {0, 1}
None == 0

ASSUME DpdkAssumption ==
    /\ Files \in Seq(Paths) /\ IsInjective(Files) /\ Files # <<>>
    /\ LongNames \subseteq Paths
    /\ FileSize \in Nat /\ Reported \in [Paths -> SUBSET Nat]
    /\ {BufferSz, MaxBurst} \subseteq Nat \ {0}
    /\ {MaxFaults, MaxGc} \subseteq Nat

VARIABLES
    app,       \* the main goroutine: where it is, which file, the size it was told
    worker,    \* the reading goroutines: where, at which offset, messages to come
    signalled, \* where the goroutine that waits for a signal is
    threads,   \* the TX and RX threads and their memory
    ring,      \* requestQueue
    interests, \* Interests on their way to the producer
    answers,   \* packets on their way to the consumer
    messages,  \* goroutines blocked on messagesRx, each with its message
    producer,  \* the producer thread: where it is, the Interest, the descriptor
    handlers,  \* m_FileHandlers
    fds,       \* open descriptors
    gcRounds,  \* rounds the garbage collector has made
    faults,    \* what has gone wrong or come from outside, see MaxFaults
    lost,      \* history: an Interest was left without an answer
    errors,    \* history: a message that carries an error was sent
    taken,     \* history: the last message FileInfo took
    undefined  \* undefined behaviour has been reached

vars == <<app, worker, signalled, threads, ring, interests, answers, messages, producer, handlers,
          fds, gcRounds, faults, lost, errors, taken, undefined>>
goVars == <<app, worker, signalled>>
netVars == <<interests, answers>>
fsVars == <<handlers, fds, gcRounds>>
histVars == <<lost, errors, taken>>

Path == Files[app.file]
Ended == app.pc \in {"exited", "aborted"}
Running == threads = "running" /\ ~Ended
ProducerGone == producer.pc \in {"crashed", "exited"}

\* Something happens that MaxFaults counts.
Fault == faults < MaxFaults /\ faults' = faults + 1

Message(err, i) == [err |-> err, pt |-> i.pt, path |-> i.path, off |-> i.off]

-----------------------------------------------------------------------------
(* Consumer: RequestData, FileInfo and Read.                                *)

\* The request goes on the ring.  After Close the ring has been freed.
RequestData(pt, off, n) ==
    /\ undefined' = (threads = "freed")
    /\ ring' = IF threads = "freed" THEN ring
               ELSE Append(ring, [pt |-> pt, path |-> Path, off |-> off, n |-> n])

FileInfo ==
    /\ app.pc = "transfer" /\ ~undefined
    /\ RequestData("fileinfo", 0, 1)
    /\ app' = [app EXCEPT !.pc = "fileinfo"]
    /\ UNCHANGED <<worker, signalled, threads, netVars, messages, producer, fsVars, faults, histVars>>

\* Run goes on to the next file, or closes.
NextFile == IF app.file < Len(Files) THEN [app EXCEPT !.pc = "transfer", !.file = @ + 1]
            ELSE [app EXCEPT !.pc = "stop"]

\* The size is read from the answer as if it were a struct stat, which no
\* answer is long enough for: it is whatever lies behind the packet.  An
\* answer to a Read is taken for a size as well, that of one segment.
FileInfoReturns ==
    /\ app.pc = "fileinfo" /\ ~undefined
    /\ \E m \in messages :
        /\ messages' = messages \ {m}
        /\ taken' = [pt |-> m.pt, path |-> m.path]
        /\ \/ m.err /\ app' = NextFile /\ UNCHANGED worker
           \/ /\ ~m.err
              /\ \E filesize \in IF m.pt = "fileinfo" THEN Reported[m.path] ELSE {1} :
                    app' = [app EXCEPT !.pc = "workers", !.filesize = filesize]
              /\ worker' = [w \in Workers |-> [pc |-> "loop", off |-> w * BufferSz, left |-> 0]]
    /\ UNCHANGED <<signalled, threads, ring, netVars, producer, fsVars, faults, lost, errors, undefined>>

\* One round of a worker: the last block of the file is shorter.
Read(w) ==
    /\ app.pc = "workers" /\ worker[w].pc = "loop" /\ ~undefined
    /\ worker[w].off < app.filesize
    /\ LET rest == app.filesize - worker[w].off
           n == IF rest < BufferSz THEN rest ELSE BufferSz
       IN  /\ RequestData("read", worker[w].off, n)
           /\ worker' = [worker EXCEPT ![w].pc = "read", ![w].left = n]
    /\ UNCHANGED <<app, signalled, threads, netVars, messages, producer, fsVars, faults, histVars>>

\* Mutant: one message less is received.
ReadReceivesShort(w) ==
    /\ app.pc = "workers" /\ worker[w].pc = "read" /\ ~undefined
    /\ \E m \in messages :
        /\ messages' = messages \ {m}
        /\ worker' = [worker EXCEPT ![w] =
                IF m.err \/ @.left <= 2 THEN [pc |-> "loop", off |-> @.off + 2 * BufferSz, left |-> 0]
                ELSE [pc |-> "read", off |-> @.off, left |-> @.left - 1]]
    /\ UNCHANGED <<app, signalled, threads, ring, netVars, producer, fsVars, faults, histVars, undefined>>

\* Any message will do.  An error ends the Read, and the worker ignores it.
ReadReceives(w) ==
    /\ app.pc = "workers" /\ worker[w].pc = "read" /\ ~undefined
    /\ \E m \in messages :
        /\ messages' = messages \ {m}
        /\ worker' = [worker EXCEPT ![w] =
                IF m.err \/ @.left = 1 THEN [pc |-> "loop", off |-> @.off + 2 * BufferSz, left |-> 0]
                ELSE [pc |-> "read", off |-> @.off, left |-> @.left - 1]]
    /\ UNCHANGED <<app, signalled, threads, ring, netVars, producer, fsVars, faults, histVars, undefined>>

WorkerEnds(w) ==
    /\ app.pc = "workers" /\ worker[w].pc = "loop" /\ ~undefined
    /\ worker[w].off >= app.filesize
    /\ worker' = [worker EXCEPT ![w].pc = "done"]
    /\ UNCHANGED <<app, signalled, threads, ring, netVars, messages, producer, fsVars, faults,
                   histVars, undefined>>

\* Both results have come.
TransferFileEnds ==
    /\ app.pc = "workers" /\ ~undefined
    /\ \A w \in Workers : worker[w].pc = "done"
    /\ app' = NextFile
    /\ UNCHANGED <<worker, signalled, threads, ring, netVars, messages, producer, fsVars, faults,
                   histVars, undefined>>

-----------------------------------------------------------------------------
(* Consumer: Close, by main after the last file and by the signal handler.  *)

\* Stop waits for both threads, Close frees their memory.
StopThreads == threads' = IF threads = "running" THEN "stopped" ELSE threads
FreeThreads == threads' = "freed" /\ undefined' = (threads = "freed")

MainCloses ==
    /\ ~undefined
    /\ \/ app.pc = "stop" /\ StopThreads /\ app' = [app EXCEPT !.pc = "free"] /\ UNCHANGED undefined
       \/ app.pc = "free" /\ FreeThreads /\ app' = [app EXCEPT !.pc = "exited"]
    /\ UNCHANGED <<worker, signalled, ring, netVars, messages, producer, fsVars, faults, histVars>>

Signal ==
    /\ signalled = "no" /\ ~Ended /\ ~undefined /\ Fault
    /\ signalled' = "stop"
    /\ UNCHANGED <<app, worker, threads, ring, netVars, messages, producer, fsVars, histVars, undefined>>

SignalCloses ==
    /\ ~Ended /\ ~undefined
    /\ \/ signalled = "stop" /\ StopThreads /\ signalled' = "free" /\ UNCHANGED <<app, undefined>>
       \/ signalled = "free" /\ FreeThreads /\ signalled' = "exit" /\ UNCHANGED app
       \/ /\ signalled = "exit" /\ signalled' = "done"
          /\ app' = [app EXCEPT !.pc = "exited"]
          /\ UNCHANGED <<threads, undefined>>
    /\ UNCHANGED <<worker, ring, netVars, messages, producer, fsVars, faults, histVars>>

-----------------------------------------------------------------------------
(* Consumer: the TX thread.                                                 *)

onError(i) == messages' = messages \cup {Message(TRUE, i)} /\ errors' = TRUE

ExpressFileInfoInterest ==
    /\ Running /\ ~undefined
    /\ ring # <<>> /\ Head(ring).pt = "fileinfo"
    /\ ring' = Tail(ring)
    /\ \/ /\ Head(ring).path \in LongNames /\ onError(Head(ring))
          /\ UNCHANGED <<interests, faults>>
       \/ Head(ring).path \notin LongNames /\ Fault /\ onError(Head(ring)) /\ UNCHANGED interests
       \/ /\ Head(ring).path \notin LongNames
          /\ interests' = interests \cup {[pt |-> "fileinfo", path |-> Head(ring).path, off |-> 0]}
          /\ UNCHANGED <<messages, errors, faults>>
    /\ UNCHANGED <<goVars, threads, answers, producer, fsVars, lost, taken, undefined>>

\* Mutant: what is left of a request after a burst is not put back.
ExpressReadInterestsOnce ==
    /\ Running /\ ~undefined
    /\ ring # <<>> /\ Head(ring).pt = "read"
    /\ LET req == Head(ring)
           nTx == IF req.n > MaxBurst THEN MaxBurst ELSE req.n
       IN  /\ ring' = Tail(ring)
           /\ interests' = interests \cup
                    {[pt |-> "read", path |-> req.path, off |-> req.off + i] : i \in 0..nTx - 1}
    /\ UNCHANGED <<goVars, threads, answers, messages, producer, fsVars, faults, histVars, undefined>>

\* A burst of Interests; the rest of the request goes to the end of the ring.
\* Without buffers in interestMp the whole rest is dropped, with one error for all of it.
ExpressReadInterests ==
    /\ Running /\ ~undefined
    /\ ring # <<>> /\ Head(ring).pt = "read"
    /\ LET req == Head(ring)
           nTx == IF req.n > MaxBurst THEN MaxBurst ELSE req.n
       IN  \/ /\ Fault /\ onError(req)
              /\ ring' = Tail(ring)
              /\ lost' = (lost \/ req.n > 1)
              /\ UNCHANGED interests
           \/ /\ interests' = interests \cup
                    {[pt |-> "read", path |-> req.path, off |-> req.off + i] : i \in 0..nTx - 1}
              /\ ring' = IF req.n > nTx
                         THEN Append(Tail(ring), [req EXCEPT !.n = @ - nTx, !.off = @ + nTx])
                         ELSE Tail(ring)
              /\ UNCHANGED <<messages, errors, lost, faults>>
    /\ UNCHANGED <<goVars, threads, answers, producer, fsVars, taken, undefined>>

\* The request on the ring is memory of RequestData, which has returned: once
\* the Go runtime reuses it the TX thread reads something else.
RequestReused ==
    /\ Running /\ ~undefined /\ ring # <<>> /\ Fault
    /\ undefined' = TRUE
    /\ UNCHANGED <<goVars, threads, ring, netVars, messages, producer, fsVars, histVars>>

-----------------------------------------------------------------------------
(* Consumer: the RX thread.                                                 *)

\* Data_Decode leaves contentT at 0, so Data_IsAppLvlNack never holds and an
\* application-level Nack is content like any other.
processData ==
    /\ Running /\ ~undefined
    /\ \E a \in answers :
        /\ a.type \in {"data", "appnack"}
        /\ answers' = answers \ {a}
        /\ messages' = messages \cup {Message(FALSE, a)}
    /\ UNCHANGED <<goVars, threads, ring, interests, producer, fsVars, faults, histVars, undefined>>

\* Data without a Content element, the answer to a read at or past the end of
\* the file: an assertion fails, or in a build without them 0 bytes came.
processEmptyData ==
    /\ Running /\ ~undefined
    /\ \E a \in answers :
        /\ a.type = "empty"
        /\ answers' = answers \ {a}
        /\ \/ messages' = messages \cup {Message(FALSE, a)} /\ UNCHANGED app
           \/ app' = [app EXCEPT !.pc = "aborted"] /\ UNCHANGED messages
    /\ UNCHANGED <<worker, signalled, threads, ring, interests, producer, fsVars, faults, histVars,
                   undefined>>

processNackPacket ==
    /\ Running /\ ~undefined
    /\ \E a \in answers :
        /\ a.type = "nack"
        /\ answers' = answers \ {a}
        /\ onError(a)
    /\ UNCHANGED <<goVars, threads, ring, interests, producer, fsVars, faults, lost, taken, undefined>>

-----------------------------------------------------------------------------
(* The network.                                                             *)

Answer(type, i) == [type |-> type, pt |-> i.pt, path |-> i.path, off |-> i.off]

NetworkNack ==
    /\ Fault /\ ~undefined
    /\ \E i \in interests :
        /\ interests' = interests \ {i}
        /\ answers' = answers \cup {Answer("nack", i)}
    /\ UNCHANGED <<goVars, threads, ring, messages, producer, fsVars, histVars, undefined>>

Drop ==
    /\ Fault /\ ~undefined
    /\ \/ \E i \in interests : interests' = interests \ {i} /\ UNCHANGED answers
       \/ \E a \in answers : answers' = answers \ {a} /\ UNCHANGED interests
    /\ lost' = TRUE
    /\ UNCHANGED <<goVars, threads, ring, messages, producer, fsVars, errors, taken, undefined>>

-----------------------------------------------------------------------------
(* Producer.                                                                *)

Serves == ~undefined /\ ~ProducerGone

processInterest ==
    /\ Serves /\ producer.pc = "idle"
    /\ \E i \in interests :
        /\ interests' = interests \ {i}
        /\ producer' = [pc |-> IF i.pt = "fileinfo" THEN "open" ELSE "get", int |-> i, fd |-> None]
    /\ UNCHANGED <<goVars, threads, ring, answers, messages, fsVars, faults, histVars, undefined>>

\* Producer_EncodeData and Producer_EncodeDataAsError: payloadMp may be empty,
\* and then nothing is sent.
EncodeData(type) ==
    /\ producer' = [producer EXCEPT !.pc = "idle", !.fd = None]
    /\ \/ /\ answers' = answers \cup {Answer(type, producer.int)}
          /\ UNCHANGED <<faults, lost>>
       \/ Fault /\ lost' = TRUE /\ UNCHANGED answers
    /\ UNCHANGED <<goVars, threads, ring, interests, messages, errors, taken, undefined>>

Elsewhere == <<goVars, threads, ring, netVars, messages, histVars, undefined>>
Steps == UNCHANGED <<Elsewhere, faults>>

\* A file that is stored already is open; one that cannot be opened is an error.
open ==
    /\ Serves /\ producer.pc = "open"
    /\ \/ /\ handlers[producer.int.path] # None
          /\ producer' = [producer EXCEPT !.pc = "opened"]
          /\ UNCHANGED fsVars /\ Steps
       \/ /\ handlers[producer.int.path] = None
          /\ LET fd == CHOOSE n \in 1..Cardinality(fds) + 1 : n \notin fds
             IN  fds' = fds \cup {fd} /\ producer' = [producer EXCEPT !.pc = "store", !.fd = fd]
          /\ UNCHANGED <<handlers, gcRounds>> /\ Steps
       \/ handlers[producer.int.path] = None /\ EncodeData("appnack") /\ UNCHANGED fsVars

\* The descriptor is stored; had another thread stored one, it would be closed.
storeFileHandler ==
    /\ Serves /\ producer.pc = "store"
    /\ handlers[producer.int.path] = None
    /\ handlers' = [handlers EXCEPT ![producer.int.path] = producer.fd]
    /\ producer' = [producer EXCEPT !.pc = "opened", !.fd = None]
    /\ UNCHANGED <<fds, gcRounds>> /\ Steps

\* After open: OnFileInfoInterest asks for the size by the path.
fstat ==
    /\ Serves /\ producer.pc = "opened" /\ producer.int.pt = "fileinfo"
    /\ \E type \in {"data", "appnack"} : EncodeData(type)
    /\ UNCHANGED fsVars

\* FileSystem::read: the descriptor, and if there is none open and look again.
getFileHandler ==
    /\ Serves /\ producer.pc = "get"
    /\ LET fd == handlers[producer.int.path]
       IN  producer' = [producer EXCEPT !.pc = IF fd = None THEN "open" ELSE "pread", !.fd = fd]
    /\ UNCHANGED fsVars /\ Steps

\* The second look finds nothing if the collector ran in between, and the
\* any_cast of nothing throws in a thread that catches nothing.
getFileHandlerAgain ==
    /\ Serves /\ producer.pc = "opened" /\ producer.int.pt = "read"
    /\ LET fd == handlers[producer.int.path]
       IN  producer' = [producer EXCEPT !.pc = IF fd = None THEN "crashed" ELSE "pread", !.fd = fd]
    /\ UNCHANGED fsVars /\ Steps

pread ==
    /\ Serves /\ producer.pc = "pread"
    /\ EncodeData(CASE producer.fd \notin fds -> "appnack"
                    [] producer.int.off >= FileSize -> "empty"
                    [] OTHER -> "data")
    /\ UNCHANGED fsVars

\* openTimestamp is never set, so every entry is older than the interval: all
\* of them are closed and erased, under the lock of the map.  While the object
\* is being destroyed close is a pure virtual function.
onGarbageCollector ==
    /\ Serves /\ gcRounds < MaxGc
    /\ gcRounds' = gcRounds + 1
    /\ IF producer.pc = "destroy" /\ \E p \in Paths : handlers[p] # None
       THEN producer' = [producer EXCEPT !.pc = "crashed"] /\ UNCHANGED <<handlers, fds>>
       ELSE /\ fds' = fds \ Range(handlers)
            /\ handlers' = [p \in Paths |-> None]
            /\ UNCHANGED producer
    /\ Steps

\* A signal: Stop waits for the thread, the file system is deleted (its
\* destructor clears the map, which closes nothing), the process exits.
ProducerCloses ==
    /\ Serves /\ producer.pc = "idle" /\ Fault
    /\ producer' = [producer EXCEPT !.pc = "destroy"]
    /\ UNCHANGED <<fsVars, Elsewhere>>

ProducerExits ==
    /\ Serves /\ producer.pc = "destroy"
    /\ producer' = [producer EXCEPT !.pc = "exited"]
    /\ UNCHANGED fsVars /\ Steps

-----------------------------------------------------------------------------

\* NewConsumer and NewProducer are done and the threads are launched.
Init ==
    /\ app = [pc |-> "transfer", file |-> 1, filesize |-> 0]
    /\ worker = [w \in Workers |-> [pc |-> "done", off |-> 0, left |-> 0]]
    /\ signalled = "no"
    /\ threads = "running"
    /\ ring = <<>>
    /\ interests = {} /\ answers = {} /\ messages = {}
    /\ producer = [pc |-> "idle", int |-> [pt |-> "read", path |-> Files[1], off |-> 0], fd |-> None]
    /\ handlers = [p \in Paths |-> None]
    /\ fds = {} /\ gcRounds = 0 /\ faults = 0
    /\ lost = FALSE /\ errors = FALSE
    /\ taken = [pt |-> "fileinfo", path |-> Files[1]]
    /\ undefined = FALSE

Main == FileInfo \/ FileInfoReturns \/ TransferFileEnds \/ MainCloses
Worker(w) == Read(w) \/ ReadReceives(w) \/ WorkerEnds(w)
ConsumerTx_Run == ExpressFileInfoInterest \/ ExpressReadInterests
ConsumerRx_Run == processData \/ processEmptyData \/ processNackPacket
Producer_Run ==
    \/ processInterest \/ open \/ storeFileHandler \/ fstat
    \/ getFileHandler \/ getFileHandlerAgain \/ pread

Next ==
    \/ Main
    \/ \E w \in Workers : Worker(w)
    \/ Signal \/ SignalCloses
    \/ ConsumerTx_Run \/ RequestReused \/ ConsumerRx_Run
    \/ NetworkNack \/ Drop
    \/ Producer_Run \/ onGarbageCollector \/ ProducerCloses \/ ProducerExits

\* The goroutines, the polling threads and the threads of the file system run.
Fairness ==
    /\ WF_vars(Main) /\ \A w \in Workers : WF_vars(Worker(w))
    /\ WF_vars(SignalCloses)
    /\ WF_vars(ConsumerTx_Run) /\ WF_vars(ConsumerRx_Run)
    /\ WF_vars(Producer_Run) /\ WF_vars(ProducerExits)

Spec == Init /\ [][Next]_vars /\ Fairness

-----------------------------------------------------------------------------

\* As long as no error has been sent, the answer FileInfo takes from the shared
\* channel is the answer to its own Interest, never what a Read of the file
\* before left behind.
FileInfoTakesOwn ==
    app.pc = "workers" /\ ~errors => taken = [pt |-> "fileinfo", path |-> Path]

\* The consumer ends, although its workers take each other's answers, whatever
\* the producer answers and whatever the network refuses: only an Interest
\* left without any answer (dropped, or an empty pool) or a producer that is
\* gone makes it wait for ever.
TransferEnds == <>(Ended \/ lost \/ ProducerGone \/ undefined)
=============================================================================
