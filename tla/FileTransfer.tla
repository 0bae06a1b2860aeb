---------------------------- MODULE FileTransfer ----------------------------
(***************************************************************************)
(* The file transfer client: its main program, the Client it drives, and   *)
(* the file server at the other end.                                       *)
(*                                                                         *)
(* main lists what the paths of the command line name, one synchronous     *)
(* request at a time, opens every entry, and starts for each stream a      *)
(* thread that requests and a thread that receives the entries i,          *)
(* i + streams, ...  The threads share stop_, error_ and the pipeline.     *)
(*                                                                         *)
(* The pipeline is the one of module PipelineInterests reduced to what it  *)
(* promises: a request is answered once, with Data or with null, in any    *)
(* order, until the pipeline closes; and it closes when it has an answer   *)
(* for an identifier that is not registered any more.                      *)
(***************************************************************************)
EXTENDS Integers, Sequences, FiniteSets, SequencesExt

CONSTANTS
    Tree,          \* what the server has: a record for each path that exists
    PathLists,     \* the path arguments the client may be given
    SegmentSize,   \* octets of file content in a Data packet
    MaxStreams,    \* the limit main puts on the number of streams (16)
    MaxRepeat,     \* bound: times a copy is repeated
    Burst,         \* Interests requested at once (64)
    Bulk,          \* Data packets popped at once (16)
    MaxNull        \* bound: requests that the pipeline answers with null

ASSUME FileTransferAssumption ==
    /\ SegmentSize \in Nat \ {0}
    /\ MaxStreams \in Nat \ {0}
    /\ {MaxRepeat, MaxNull} \subseteq Nat
    /\ {Burst, Bulk} \subseteq Nat \ {0}
    /\ \A p \in DOMAIN Tree : {Tree[p].size, Tree[p].key} \subseteq Nat
                             /\ Tree[p].kind \in {"file", "dir"}

VARIABLES
    pc,         \* where main is
    opts,       \* the options of the command line
    args,       \* the paths main has not looked at
    dirs,       \* paths: the directories listDirRecursive has still to list
    listing,    \* the listDir that is running: its path, segments, names and result
    partial,    \* what the listing of the current path has found
    metadata,   \* the entries to transfer
    files,      \* files_: the identifier of each opened name
    ids,        \* identifiers the pipeline knows
    round,      \* r: copies finished
    rx, tx,     \* the receiving and the requesting thread of each stream
    error,      \* error_
    stop,       \* stop_
    pending,    \* requests the pipeline holds
    queue,      \* the response queue of each identifier
    closedBy,   \* who closed the pipeline: "none" while it is open
    nulls,      \* answers that were null
    nacked,     \* history: a path or a directory was refused by the server
    got         \* history: what was received for each entry in this round

vars == <<pc, opts, args, dirs, listing, partial, metadata, files, ids, round, rx, tx,
          error, stop, pending, queue, closedBy, nulls, nacked, got>>
listVars == <<args, dirs, listing, partial, metadata, nacked>>
openVars == <<files, ids>>
workerVars == <<round, rx, tx, got>>
pipelineVars == <<pending, queue, closedBy, nulls>>

NoListing == [path |-> "", seg |-> 0, names |-> <<>>, all |-> <<>>]
Thread == [i |-> 0, n |-> 0]

isClosed == closedBy # "none"
canContinue == ~stop /\ ~error /\ ~isClosed

Ended == pc \in {"exited", "aborted"}

-----------------------------------------------------------------------------
(* The file server.  Names are paths: the version of a name only changes    *)
(* with the file.  Directory listings come from the NDN-DPDK file server,   *)
(* for which this repository has no code; the server here refuses them.     *)

Ceil(a, b) == (a + b - 1) \div b

\* FileMetadata::prepare, and decode at the other end.
prepare(path) ==
    [path |-> path, kind |-> Tree[path].kind, size |-> Tree[path].size,
     finalBlockId |-> Ceil(Tree[path].size, SegmentSize)]

getFileMetadata(path) ==
    IF path \in DOMAIN Tree THEN [kind |-> "data", md |-> prepare(path)] ELSE [kind |-> "nack"]

\* getFileContentData has the payload for every segment.
getFileContentData(path, seg) == [kind |-> "data", path |-> path, seg |-> seg]

\* The answers to a discovery of the directory listing.
ListingMetadata(path) ==
    {[kind |-> "nack"]} \cup
    (IF path \in DOMAIN Tree THEN {[kind |-> "data", md |-> prepare(path)]} ELSE {})

\* The answers to a segment of a listing: the names in it and the number of the
\* last one, or a Nack, which Data whose FinalBlockId is no segment equals.
ListingSegment(path, seg) ==
    {[kind |-> "nack"],
     [kind |-> "data", names |-> Tree[path].listing[seg + 1],
      finalBlockId |-> Len(Tree[path].listing) - 1]}

onInterest(r) ==
    CASE r.op = "file" -> {getFileMetadata(r.path)}
      [] r.op = "dir" -> ListingMetadata(r.path)
      [] r.op = "listing" -> ListingSegment(r.path, r.seg)
      [] r.op = "content" -> {getFileContentData(r.path, r.seg)}

-----------------------------------------------------------------------------
(* The pipeline.                                                            *)

Put(r, response) ==
    /\ pending' = pending \ {r}
    /\ queue' = [queue EXCEPT ![r.id] = Append(@, response)]
    /\ UNCHANGED <<pc, opts, listVars, openVars, workerVars, error, stop, closedBy>>

Answer ==
    /\ ~Ended /\ ~isClosed
    /\ \E r \in pending :
        /\ r.id \in ids
        /\ \/ \E data \in onInterest(r) : Put(r, data) /\ UNCHANGED nulls
           \/ nulls < MaxNull /\ nulls' = nulls + 1 /\ Put(r, [kind |-> "null"])

AnswerOrphan ==
    /\ ~Ended /\ ~isClosed
    /\ \E r \in pending : r.id \notin ids
    /\ closedBy' = "worker"
    /\ UNCHANGED <<pc, opts, listVars, openVars, workerVars, error, stop, pending, queue, nulls>>

LinkDown ==
    /\ ~Ended /\ ~isClosed /\ pc # "options"
    /\ closedBy' = "link"
    /\ UNCHANGED <<pc, opts, listVars, openVars, workerVars, error, stop, pending, queue, nulls>>

-----------------------------------------------------------------------------
(* main: options, the consumer and the listing.                             *)

programOptions ==
    /\ pc = "options"
    /\ \E paths \in PathLists, copy, list, recursive \in BOOLEAN,
          streams \in 0..MaxStreams + 1, repeat \in -1..MaxRepeat, connected \in BOOLEAN :
        IF copy = list \/ streams \notin 1..MaxStreams \/ ~connected
        THEN pc' = "exited" /\ UNCHANGED <<opts, args>>
        ELSE /\ opts' = [paths |-> paths, list |-> list, recursive |-> recursive,
                         streams |-> streams, repeat |-> IF repeat < 0 THEN 0 ELSE repeat]
             /\ args' = paths
             /\ pc' = "args"
    /\ UNCHANGED <<dirs, listing, partial, metadata, nacked, openVars, workerVars, error, stop,
                   pipelineVars>>

\* syncRequestDataFor, with identifier 0: a closed pipeline refuses the request.
Ask(op, path, seg, wait) ==
    /\ pc' = wait
    /\ IF isClosed
       THEN pending' = pending /\ queue' = [queue EXCEPT ![0] = <<[kind |-> "refused"]>>]
       ELSE /\ pending' = pending \cup {[id |-> 0, op |-> op, path |-> path, seg |-> seg]}
            /\ UNCHANGED queue
    /\ UNCHANGED <<opts, openVars, workerVars, error, stop, closedBy, nulls>>

\* The response, and what it does to error_: null is an error everywhere, a
\* Nack only for a segment of a listing.  A pipeline that closes while main
\* waits gives nothing any more, and main does not look at isValid().
Response(wait) ==
    /\ pc = wait
    /\ queue[0] # <<>>
    /\ isClosed => Head(queue[0]).kind = "refused"
    /\ queue' = [queue EXCEPT ![0] = Tail(@)]
    /\ error' = (error \/ Head(queue[0]).kind \in {"null", "refused"}
                       \/ (wait = "segmentWait" /\ Head(queue[0]).kind = "nack"))
    /\ nacked' = (nacked \/ Head(queue[0]).kind = "nack")
    /\ UNCHANGED <<opts, openVars, workerVars, stop, pending, closedBy, nulls>>

\* The next path of the command line.
listFile ==
    /\ pc = "args" /\ args # <<>>
    /\ Ask("file", Head(args), 0, "fileWait")
    /\ UNCHANGED listVars

listFileDone ==
    /\ Response("fileWait")
    /\ LET data == Head(queue[0]) IN
       /\ args' = Tail(args)
       /\ IF data.kind = "data" /\ data.md.kind = "dir"
          THEN dirs' = <<Head(args)>> /\ pc' = "listDir" /\ UNCHANGED metadata
          ELSE /\ metadata' = IF data.kind = "data" THEN Append(metadata, data.md) ELSE metadata
               /\ pc' = "args"
               /\ UNCHANGED dirs
    /\ UNCHANGED <<listing, partial>>

\* listDir: the metadata of the listing, ...
listDir ==
    /\ pc = "listDir" /\ dirs # <<>>
    /\ listing' = [NoListing EXCEPT !.path = Head(dirs)]
    /\ dirs' = Tail(dirs)
    /\ Ask("dir", Head(dirs), 0, "dirWait")
    /\ UNCHANGED <<args, partial, metadata, nacked>>

listDirMetadata ==
    /\ Response("dirWait")
    /\ LET data == Head(queue[0]) IN
       pc' = IF data.kind = "data" /\ data.md.kind = "dir" THEN "segment" ELSE "listed"
    /\ UNCHANGED <<args, dirs, listing, partial, metadata>>

\* ... its content, segment by segment up to the FinalBlockId of the last one, ...
listDirSegment ==
    /\ pc = "segment"
    /\ Ask("listing", listing.path, listing.seg, "segmentWait")
    /\ UNCHANGED listVars

listDirContent ==
    /\ Response("segmentWait")
    /\ LET data == Head(queue[0]) IN
       IF data.kind # "data" THEN pc' = "listed" /\ UNCHANGED listing
       ELSE /\ listing' = [listing EXCEPT !.seg = @ + 1, !.names = @ \o data.names]
            /\ pc' = IF listing.seg < data.finalBlockId THEN "segment" ELSE "child"
    /\ UNCHANGED <<args, dirs, partial, metadata>>

\* ... and the metadata of every name in it; one that fails is left out.
listDirChild ==
    /\ pc = "child"
    /\ IF listing.names = <<>>
       THEN pc' = "listed" /\ UNCHANGED <<opts, openVars, workerVars, error, stop, pipelineVars>>
       ELSE Ask("file", Head(listing.names), 0, "childWait")
    /\ UNCHANGED listVars

listDirChildDone ==
    /\ Response("childWait")
    /\ LET data == Head(queue[0]) IN
       listing' = [listing EXCEPT !.names = Tail(@),
                                  !.all = IF data.kind = "data" THEN Append(@, data.md) ELSE @]
    /\ pc' = "child"
    /\ UNCHANGED <<args, dirs, partial, metadata>>

IsDir(md) == md.kind = "dir"

\* Mutant: a directory that is found is queued twice.
listDirRecursiveTwice ==
    /\ pc = "listed"
    /\ LET found == [k \in 1..Len(SelectSeq(listing.all, IsDir)) |->
                        SelectSeq(listing.all, IsDir)[k].path] IN
       /\ partial' = partial \o listing.all
       /\ dirs' = IF opts.recursive THEN dirs \o found \o found ELSE dirs
       /\ pc' = "listDir"
    /\ listing' = NoListing
    /\ UNCHANGED <<opts, args, metadata, nacked, openVars, workerVars, error, stop, pipelineVars>>

\* listDirRecursive: the directories that were found are listed next.
listDirRecursive ==
    /\ pc = "listed"
    /\ LET found == [k \in 1..Len(SelectSeq(listing.all, IsDir)) |->
                        SelectSeq(listing.all, IsDir)[k].path] IN
       /\ partial' = partial \o listing.all
       /\ dirs' = IF opts.recursive THEN dirs \o found ELSE dirs
       /\ pc' = "listDir"
    /\ listing' = NoListing
    /\ UNCHANGED <<opts, args, metadata, nacked, openVars, workerVars, error, stop, pipelineVars>>

\* The results of its std::sort, which compares what rdrDirUri leaves of the
\* names (key) and puts entries that have that in common in any order.
Sorted(all) ==
    {[k \in DOMAIN all |-> all[f[k]]] :
        f \in {g \in Bijection(DOMAIN all, DOMAIN all) : \A i, j \in DOMAIN all :
                  i < j => Tree[all[g[i]].path].key <= Tree[all[g[j]].path].key}}

listDirEnds ==
    /\ pc = "listDir" /\ dirs = <<>>
    /\ \E found \in IF opts.recursive THEN Sorted(partial) ELSE {partial} :
          metadata' = metadata \o found
    /\ partial' = <<>>
    /\ pc' = "args"
    /\ UNCHANGED <<opts, args, dirs, listing, nacked, openVars, workerVars, error, stop,
                   pipelineVars>>

-----------------------------------------------------------------------------
(* main: the transfer.                                                      *)

Streams == 0..opts.streams - 1
Entry(i) == metadata[i + 1]

TotalByteCount == FoldSeq(LAMBDA md, sum : sum + md.size, 0, SelectSeq(metadata, LAMBDA md : ~IsDir(md)))

\* openFile for every entry: a name that is open already keeps its identifier,
\* and the new one stays registered.
openFile ==
    /\ LET Index(path) == CHOOSE i \in 0..Len(metadata) - 1 :
                              /\ Entry(i).path = path
                              /\ \A j \in 0..i - 1 : Entry(j).path # path
       IN  files' = [path \in {Entry(i).path : i \in 0..Len(metadata) - 1} |-> Index(path) + 1]
    /\ ids' = ids \cup 1..Len(metadata)
    /\ queue' = [id \in {0} \cup 1..Len(metadata) |-> IF id = 0 THEN queue[0] ELSE <<>>]

\* Both threads of every stream.
StartWorkers ==
    /\ rx' = [s \in Streams |-> [Thread EXCEPT !.i = s]]
    /\ tx' = [s \in Streams |-> [Thread EXCEPT !.i = s]]
    /\ got' = [i \in 0..Len(metadata) - 1 |-> [n |-> 0, pkts |-> {}]]

\* A list of files, or one that has no content, ends here.
Transfer ==
    /\ pc = "args" /\ args = <<>>
    /\ IF opts.list \/ TotalByteCount = 0
       THEN pc' = "exited" /\ stop' = TRUE /\ UNCHANGED <<openVars, workerVars, queue>>
       ELSE openFile /\ StartWorkers /\ pc' = "join" /\ UNCHANGED <<round, stop>>
    /\ UNCHANGED <<opts, listVars, error, pending, closedBy, nulls>>

Done(thread) == thread.i >= Len(metadata)
WorkersDone == \A s \in Streams : Done(rx[s]) /\ Done(tx[s])

Join ==
    /\ pc = "join" /\ WorkersDone
    /\ IF round < opts.repeat
       THEN round' = round + 1 /\ StartWorkers /\ UNCHANGED pc
       ELSE pc' = "close" /\ rx' = [rx EXCEPT ![0] = Thread] /\ UNCHANGED <<round, tx, got>>
    /\ UNCHANGED <<opts, listVars, openVars, error, stop, pipelineVars>>

-----------------------------------------------------------------------------
(* The threads of a stream.                                                 *)

NextEntry(thread) == [i |-> thread.i + opts.streams, n |-> 0]

\* requestFileContent: one burst of Interests.  canContinue has just seen the
\* pipeline open; it may close before the push, which is then an error.
requestFileContent(s) ==
    /\ pc \in {"join", "terminate"} /\ ~Done(tx[s])
    /\ LET md == Entry(tx[s].i)
           segs == {n \in tx[s].n..tx[s].n + Burst - 1 : n <= md.finalBlockId}
           id == files[md.path]
       IN
       IF tx[s].n > md.finalBlockId \/ ~canContinue
       THEN /\ tx' = [tx EXCEPT ![s] = NextEntry(@)]
            /\ error' \in {error, error \/ (isClosed /\ tx[s].n <= md.finalBlockId)}
            /\ UNCHANGED pending
       ELSE /\ pending' = pending \cup [id: {id}, op: {"content"}, path: {md.path}, seg: segs,
                                        entry: {tx[s].i}]
            /\ tx' = [tx EXCEPT ![s].n = @ + Burst]
            /\ UNCHANGED error
    /\ UNCHANGED <<pc, opts, listVars, openVars, round, rx, got, stop, queue, closedBy, nulls>>

\* Mutant: the receiver does not look at error_.
receiveFileContentIgnoresError(s) ==
    /\ pc \in {"join", "terminate"} /\ ~Done(rx[s])
    /\ LET md == Entry(rx[s].i)
           id == files[md.path]
           n == IF Len(queue[id]) < Bulk THEN Len(queue[id]) ELSE Bulk
           pkts == SubSeq(queue[id], 1, n)
       IN
       IF rx[s].n > md.finalBlockId \/ stop \/ isClosed
       THEN rx' = [rx EXCEPT ![s] = NextEntry(@)] /\ UNCHANGED <<error, queue, got>>
       ELSE /\ n > 0
            /\ queue' = [queue EXCEPT ![id] = SubSeq(@, n + 1, Len(@))]
            /\ got' = [got EXCEPT ![rx[s].i] = [n |-> @.n + n, pkts |-> @.pkts \cup ToSet(pkts)]]
            /\ IF \E k \in 1..n : pkts[k].kind = "null"
               THEN error' = TRUE /\ rx' = [rx EXCEPT ![s] = NextEntry(@)]
               ELSE rx' = [rx EXCEPT ![s].n = @ + n] /\ UNCHANGED error
    /\ UNCHANGED <<pc, opts, listVars, openVars, round, tx, stop, pending, closedBy, nulls>>

\* Mutant: the receiver stops one segment early.
receiveFileContentShort(s) ==
    /\ pc \in {"join", "terminate"} /\ ~Done(rx[s])
    /\ LET md == Entry(rx[s].i)
           id == files[md.path]
           n == IF Len(queue[id]) < Bulk THEN Len(queue[id]) ELSE Bulk
           pkts == SubSeq(queue[id], 1, n)
       IN
       IF rx[s].n >= md.finalBlockId \/ ~canContinue
       THEN rx' = [rx EXCEPT ![s] = NextEntry(@)] /\ UNCHANGED <<error, queue, got>>
       ELSE /\ n > 0
            /\ queue' = [queue EXCEPT ![id] = SubSeq(@, n + 1, Len(@))]
            /\ got' = [got EXCEPT ![rx[s].i] = [n |-> @.n + n, pkts |-> @.pkts \cup ToSet(pkts)]]
            /\ IF \E k \in 1..n : pkts[k].kind = "null"
               THEN error' = TRUE /\ rx' = [rx EXCEPT ![s] = NextEntry(@)]
               ELSE rx' = [rx EXCEPT ![s].n = @ + n] /\ UNCHANGED error
    /\ UNCHANGED <<pc, opts, listVars, openVars, round, tx, stop, pending, closedBy, nulls>>

\* receiveFileContent: one round of its loop.  The first null response is an
\* error and ends it; what else was popped with it is dropped.
receiveFileContent(s) ==
    /\ pc \in {"join", "terminate"} /\ ~Done(rx[s])
    /\ LET md == Entry(rx[s].i)
           id == files[md.path]
           n == IF Len(queue[id]) < Bulk THEN Len(queue[id]) ELSE Bulk
           pkts == SubSeq(queue[id], 1, n)
       IN
       IF rx[s].n > md.finalBlockId \/ ~canContinue
       THEN rx' = [rx EXCEPT ![s] = NextEntry(@)] /\ UNCHANGED <<error, queue, got>>
       ELSE /\ n > 0
            /\ queue' = [queue EXCEPT ![id] = SubSeq(@, n + 1, Len(@))]
            /\ got' = [got EXCEPT ![rx[s].i] = [n |-> @.n + n, pkts |-> @.pkts \cup ToSet(pkts)]]
            /\ IF \E k \in 1..n : pkts[k].kind = "null"
               THEN error' = TRUE /\ rx' = [rx EXCEPT ![s] = NextEntry(@)]
               ELSE rx' = [rx EXCEPT ![s].n = @ + n] /\ UNCHANGED error
    /\ UNCHANGED <<pc, opts, listVars, openVars, round, tx, stop, pending, closedBy, nulls>>

-----------------------------------------------------------------------------
(* main: the end.  "Downloaded" is printed for every file, error or not;    *)
(* rx[0].i counts the entries.  A directory is transferred but not closed.  *)

closeFile ==
    /\ pc = "close" /\ ~Done(rx[0])
    /\ LET path == Entry(rx[0].i).path IN
       IF IsDir(Entry(rx[0].i)) \/ path \notin DOMAIN files THEN UNCHANGED openVars
       ELSE /\ ids' = ids \ {files[path]}
            /\ files' = [p \in DOMAIN files \ {path} |-> files[p]]
    /\ rx' = [rx EXCEPT ![0].i = @ + 1]
    /\ UNCHANGED <<pc, opts, listVars, round, tx, got, error, stop, pipelineVars>>

programTerminate ==
    /\ \/ pc = "close" /\ Done(rx[0])
       \/ pc = "terminate" /\ WorkersDone
    /\ stop' = TRUE
    /\ pc' = "exited"
    /\ UNCHANGED <<opts, listVars, openVars, workerVars, error, pipelineVars>>

\* SIGINT: the handler stops the client and joins the threads.  A join of the
\* thread it runs on, or of one that main is joining, throws and aborts.
signalHandler ==
    /\ ~Ended /\ pc # "terminate" /\ ~stop
    /\ stop' = TRUE
    /\ IF pc = "join" THEN pc' \in {"terminate", "aborted"} ELSE pc' = "exited"
    /\ UNCHANGED <<opts, listVars, openVars, workerVars, error, pipelineVars>>

-----------------------------------------------------------------------------
Init ==
    /\ pc = "options"
    /\ opts = [paths |-> <<>>, list |-> FALSE, recursive |-> FALSE, streams |-> 1, repeat |-> 0]
    /\ args = <<>> /\ dirs = <<>> /\ partial = <<>> /\ metadata = <<>>
    /\ listing = NoListing
    /\ files = <<>>
    /\ ids = {0}
    /\ round = 0
    /\ rx = <<>> /\ tx = <<>> /\ got = <<>>
    /\ error = FALSE /\ stop = FALSE /\ nacked = FALSE
    /\ pending = {}
    /\ queue = [id \in {0} |-> <<>>]
    /\ closedBy = "none"
    /\ nulls = 0

Main ==
    \/ programOptions \/ listFile \/ listFileDone \/ listDir \/ listDirMetadata
    \/ listDirSegment \/ listDirContent \/ listDirChild \/ listDirChildDone
    \/ listDirRecursive \/ listDirEnds \/ Transfer \/ Join \/ closeFile \/ programTerminate

Next ==
    \/ Main \/ Answer \/ AnswerOrphan \/ LinkDown \/ signalHandler
    \/ \E s \in Streams : requestFileContent(s) \/ receiveFileContent(s)

\* main and the threads run, and the pipeline answers every request or closes
\* (ImplementsRequestResponse of module PipelineInterests).
Fairness ==
    /\ WF_vars(Main)
    /\ WF_vars(Answer)
    /\ \A s \in 0..MaxStreams - 1 :
        /\ WF_vars(s \in Streams /\ requestFileContent(s))
        /\ WF_vars(s \in Streams /\ receiveFileContent(s))

Spec == Init /\ [][Next]_vars /\ Fairness

-----------------------------------------------------------------------------
\* The entries below a directory, as the least set that has its children and
\* theirs, and the entries that a path of the command line stands for.
Children(path) == IF Tree[path].kind = "dir" THEN ToSet(FlattenSeq(Tree[path].listing)) ELSE {}

Below(path) ==
    {p \in DOMAIN Tree : \A S \in SUBSET DOMAIN Tree :
        Children(path) \subseteq S /\ (\A q \in S : Children(q) \subseteq S) => p \in S}

StandsFor(path) ==
    CASE path \notin DOMAIN Tree -> {}
      [] path \in DOMAIN Tree /\ Tree[path].kind = "file" -> {path}
      [] OTHER -> IF opts.recursive THEN Below(path) ELSE Children(path)

\* When nothing was refused and nothing failed, the list that main transfers
\* or prints has every entry its paths stand for, once for each of them: no
\* directory is left out by the queue of listDirRecursive and none is listed
\* twice (listFile, listDir, listDirRecursive and the loop of main).
ListsTree ==
    pc = "args" /\ args = <<>> /\ ~nacked /\ ~error =>
        \A p \in DOMAIN Tree :
            Cardinality({k \in DOMAIN metadata : metadata[k].path = p})
                = Cardinality({k \in DOMAIN opts.paths : p \in StandsFor(opts.paths[k])})

\* No two entries have one name.
Distinct == \A i, j \in DOMAIN metadata : metadata[i].path = metadata[j].path => i = j

\* "Downloaded" is true unless something failed: when main prints it every
\* entry has got each of its segments once and nothing of another entry,
\* whatever the streams and however often the copy is repeated, and no
\* response is left over (requestFileContent, receiveFileContent).
DownloadsComplete ==
    pc = "close" /\ canContinue /\ Distinct =>
        \A i \in DOMAIN got :
            /\ got[i].n = Entry(i).finalBlockId + 1
            /\ got[i].pkts = {getFileContentData(Entry(i).path, n) : n \in 0..Entry(i).finalBlockId}

\* Closing the files takes the pipeline down, because an answer finds no
\* queue, only after an error or a stop: the threads leave no request behind
\* (closeFile after the joins of main).
ClosesOnlyAfterFailure == closedBy = "worker" => error \/ stop

\* The program ends: an error or a stop that one thread meets ends them all,
\* and no receiver waits for a segment that nobody requests.  Except when the
\* pipeline closes while main waits for a listing, and when a name is given
\* twice: one receiver may then pop what the other one waits for.
TransferEnds ==
    <>(Ended \/ ~Distinct
       \/ (isClosed /\ pc \in {"fileWait", "dirWait", "segmentWait", "childWait"}))

=============================================================================
