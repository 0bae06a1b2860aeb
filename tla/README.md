# Specifications of sandie-ndn

TLA+ modules, TLC configurations and TLAPS proofs for the programs of
`sandie-ndn`, which give XRootD and command line tools access to files over
Named Data Networking. All paths below are relative to `src/`.

## Inventory

| Part | State it keeps | Operations | What is hard |
| --- | --- | --- | --- |
| **NDNc Interest pipeline** (`NDNc/congestion-control`) | request queue, response queue per consumer, PIT, timeout queue, closed flag, window | push, pop, register, unregister, close; worker loop: receive, time out, send | threads against the worker, late and repeated packets, partial sends, retries, close at any point |
| **posix consumer, file, directory** (`NDNc/lib/posix`) | metadata, thread identifiers | open, stat, read, close; synchronous and asynchronous requests | several threads on one file, responses left over, waiting on a closed pipeline |
| **XRootD plugin of NDNc** (`NDNc/lib/xrdndnoss`) | one consumer, a file or directory per handle | forwards to posix | configuration |
| **face and memif transport** (`NDNc/face`) | connection, rings, packet handler | connect, loop, send, receive, disconnect | full rings, disconnects during a call, buffers given back |
| **management client** (`NDNc/mgmt`) | face and FIB identifiers | create and delete face, advertise | remote calls |
| **file transfer, ping** (`NDNc/app`) | files in transfer, counters | list, request, receive, serve | a requesting and a receiving thread per file |
| **consumer of the XRootD plugin** (`xrootd-ndn-oss-plugin/src/xrdndn-consumer`) | window counter, stop flag, fetchers, futures | Open, Fstat, Read, insert, callbacks of the face | reading threads against the face thread, lost wakeups, retries, failure of one fetch |
| **producer of the XRootD plugin** (`.../xrdndn-producer`) | file handlers, descriptors | open, fstat, read Interests, garbage collector | worker threads against the collector |
| **Go consumer and producer** (`go/internal/pkg`) | pending Interests, channels | fetch, retry, read | goroutines that block on each other |
| **DPDK consumer and producer** (`xrootd-ndn-dpdk-oss-plugin`) | requests and a channel shared with C threads | request data, file info, read | messages of a failed read in the channel of the next |

How they interact: a plugin handle or the file transfer client calls the posix
layer, which pushes Interests into the pipeline and pops responses from it; the
pipeline's worker thread drives the face, whose callbacks (packet received,
disconnected) run on that thread. In the older plugin the reading threads insert
into a window guarded by a mutex and wait on futures that the face thread
completes.

What makes each part correct:
* a pipeline answers every request once, to the consumer that asked, eventually
  or not at all after a close, and keeps its window;
* a file serves several threads, each read returning what it asked for, and no
  call of one thread harms another;
* the older pipeline lets in as many Interests as its size says, wakes up who
  waits, and ends every fetch;
* a producer closes what it opened and not what is in use; a transport loses no
  buffer; a transfer receives every segment.

The hazards behind these, line by line, are in `PROJECT.json`.

## Plan

1. *Done:* the NDNc pipeline (shared part, fixed window, AIMD window), its
   abstract specification, and proofs of both; the older plugin's pipeline; the
   posix file over the pipeline.
2. *Done:* the programs around them: the older plugin's producer
   (`XrdNdnProducer`), the Go consumer (`GoPipeline`), the file transfer programs
   (`FileTransfer`), the face with the memif transport, the management client and
   the programs that own a face (`Face`), the DPDK consumer and producer
   (`DpdkTransfer`), the older plugin's consumer with the copy program and the file
   object of the plugin (`XrdNdnConsumer`), the XRootD plugin of NDNc with its
   directories (`PosixOss`).
3. *Done:* proofs of the safety properties of the NDNc pipelines, `Face`,
   `XrdNdnProducer`, the counter of `XrdNdnPipeline`, the reads and closes of
   `PosixFile`, and `GoPipeline`.
4. *Done:* proofs of what the reads and the copy of `XrdNdnConsumer` return, the
   octets of a read of `PosixFile`, the listing of `PosixOss`, the downloads of
   `FileTransfer` and the answers of `DpdkTransfer`. Of the safety properties that the
   runs check, `ListsTree` alone has no proof.

## Modules

| Module | Models |
| --- | --- |
| `RequestResponse` | abstract: what a pipeline promises its consumers |
| `PipelineInterests` | `pipeline-interests.hpp`, `pending-interest.hpp`, and the loop and handlers that `-fixed.cpp` and `-aimd.cpp` have in common |
| `PipelineFixed`, `PipelineAimd` | the two window policies; they extend `PipelineInterests` |
| `PosixFile` | `lib/posix/file.cpp`, the synchronous calls of `lib/posix/consumer.cpp`, over the promise of the pipeline |
| `PosixOss` | `xrd-ndn-oss.cpp`, `xrd-ndn-oss-dir.cpp`, `lib/posix/dir.cpp`, next to the file threads; it extends `PosixFile` |
| `XrdNdnPipeline` | `xrdndn-pipeline.cc`, `xrdndn-data-fetcher.cc`: the window, the fetchers, the face thread |
| `XrdNdnConsumer` | `xrdndn-consumer.cc`, `xrdndn-consumer-main.cc`, the configuration of `xrdndn-oss.cc`, `xrdndn-oss-file.cc`; it extends `XrdNdnPipeline` |
| `XrdNdnProducer` | the producer of the older plugin: `xrdndn-producer.cc`, `xrdndn-interest-manager.cc`, `xrdndn-file-handler.cc`, `xrdndn-packager.cc` and its main |
| `GoPipeline` | the Go consumer: its main, `app.go`, `consumer.go`, `pipeline-fixed.go`, `fetcher.go` |
| `FileTransfer` | the file transfer client (`ft-client.cpp`, its `main.cpp`, the requests of `consumer.cpp`), the answers of the server (`ft-server.cpp`, `file-metadata.hpp`), over the promise of the pipeline |
| `Face` | `face.cpp`, `memif.cpp`, `mgmt/client.cpp`, and from start to exit the ping client and the two servers |
| `DpdkTransfer` | the DPDK consumer (Go and C) and the DPDK producer with its file system, composed |
| `MC...` | finite instances for TLC |
| `PipelineProofs` | theorems on the NDNc pipelines, with both window policies |
| `FaceProofs`, `XrdNdnProducerProofs`, `GoPipelineProofs`, `FileTransferProofs`, `DpdkTransferProofs` | theorems on the modules of these names |
| `XrdNdnConsumerProofs` | theorems on `XrdNdnPipeline` and `XrdNdnConsumer` |
| `PosixProofs` | theorems on `PosixFile` and `PosixOss` |

Definitions called `Mutant: ...` in their comment are deliberately wrong
variants of the definition that follows; nothing uses them. They document which
mistake each property would catch.

### PipelineInterests, PipelineFixed, PipelineAimd

A `PendingInterest` is a record of request, consumer, number of refreshes and
retries. Its PIT token is the pair of request and number of refreshes: tokens are
random 64-bit numbers in the code, and collisions are left out. `pit` is the set of
entries on the network, `piq` the queue of tokens waiting for their timeout,
`requestQueue` a set, because the concurrent queue orders only what one thread
enqueued and hands the rest out in any order. `batch` is what `open` popped and
the face has not taken (`pendingInterests[index..]`, `size`).

Each operation of a consumer thread is one action. Between the check of the closed
flag and the enqueue of a push other threads may close, push or pop; all of these
commute with the enqueue, so one step is enough. The worker goes through
`loop`, `rx`, `timeout`, `send`; handlers are actions possible in `rx`, and each
iteration of `onTimeout` is an action. The network is open: for an entry of the
PIT Data, a Nack or nothing may come at any time, and a packet for an unknown token
changes nothing but counters. Expiry is a free choice when the head of the queue is
looked at. `owner` and `answers` are history. The face builds a Nack without its
reason (`face.cpp:134`), so today only the reason NONE reaches `onNack`; the other
branches are modelled too, as the handlers stand.

The constructor of the base class starts the worker before the derived object
exists; `PureVirtualCall` is that outcome. Reading a window that is not initialised
yet, and a face destroyed by `Consumer::stop` while the worker runs, are left out.

`PipelineFixed` has the constant window; its own actions and formulas are called
`fixed...` and `Fixed...` (`FixedSpec`), so that one module can prove about both policies.
`PipelineAimd` adds the window as a record: slow start, congestion avoidance, and
halving at most once per `MAX_RTT`; `recentDecrease` is the clock's part in it.

### PosixFile, PosixOss

Threads call open, stat, fstat, read and close on one `File`; the plugin makes a new
`File` for every `Open` of XRootD, so concurrent opens of one are more than it does, and
what the class itself has to stand. `metadata_` is
checked and dereferenced without a lock, so each of those is a step of its own; a
null dereference is the end of the process (`crashed`), and so is the exception that
the decoder throws when an open takes the Data of an earlier read for its metadata.
`consumer_ids_` is changed under the mutex, in one step. The pipeline is reduced to
its promise: a request is answered once, in any order, with Data or null, until it
closes, and it closes when it has an answer for an identifier that was unregistered.
Octets are positions in the file, as in `XrdNdnConsumer`; `Segments`,
`copyDataContent` and `Copied` are the arithmetic of `File::read`. A Nack of the
application is empty content to a read, which does not look at the content type.

`PosixOss` is the plugin around it: the configuration (of which the pipeline size has
an effect), the start, the signal, and threads that open and read a directory or stat
a path through the same `Consumer`. A directory is read octet by octet: the listing
comes in segments, `ParseNames` cuts it at each Nul and looks at one octet behind the
last, which may be anything, and `NextEntry` returns name after name. `Dir::read` copies
`blen` octets from a name that is shorter; what lies behind its Nul is left out. So is
`StatRet`, which only copies.

### XrdNdnPipeline, XrdNdnConsumer

A reading thread goes through `Pipeline::insert` step by step (lock, predicate,
sleep, express, count), since the face thread changes the counter and notifies
without the lock. Its callback is a sequence of steps as well: complete the future,
change the counter or the flag, notify. `m_windowSize` is a `uint64_t` and wraps
(`Word`). Backoff times are left out: a retry comes some time later.

`XrdNdnConsumer` adds the two programs, from `main` or `Configure` to the exit: the
pipeline size that is accepted, refused or replaced by the default, the constructor
that finds a forwarder or does not, open, fstat, the reading threads with their
strides or the reads of the server, `SynchronizedWrite`, and the destructor. Octets
are modelled: an octet of the file is its position, `SegmentsOf`, `putData` and
`returnData` are the arithmetic of `Consumer::Read`, and a `size_t` that wraps makes
`putData` copy what lies behind the content in memory (`Junk`; that the process may
die there instead is left out). A negative length breaks the output stream (`bad`). The
copy always has an output file, the server opens a file object once and asks for at
least one octet, and an empty path is left out.

### XrdNdnProducer

The face thread posts every Interest to an `io_service`; worker threads look the
`FileHandler` of the path up under a mutex (`Lock`, `getFileHandler`), and open,
stat or read in steps of their own; the garbage collector is a task of the same
`io_service`. A handler lives as long as the table or a worker points to it (`Live`)
and closes its descriptor when it dies (`Drop`); descriptors are the lowest free
numbers, so that one closed too early would be another file's. What is posted refers
to an Interest that belongs to the face: reading it after the face dropped it is
undefined behaviour, which ends the model (`undefined`). A prefix that could not be
registered is a run in which no Interest arrives. `path.empty()` cannot occur, since
every name that matches the filter has a path.

### GoPipeline

One variable per goroutine and per channel. Buffered channels are sequences of the
capacity the code gives them; an unbuffered send and its receive are one step. The
network keeps how many copies of an Interest are out and answers each with Data or a
Nack, or loses it. The properties set an Interest that was sent twice apart: the
second Data is counted by `ReadAt` for a segment that did not come, or taken by a
later read, where the slice is out of range. They set a close apart too: after a
signal closed the pipeline, the closed error channel always has a nil for the select
of `ReadAt` (`consumer.go:128`), also while Data is left, and the call returns what it
has without an error (`GetClosed`); `GetFile` writes it and ends as if all were well.
`holes` is the history of segments that such reads ended without. The buffer is
written whole, also behind the end of the file; what lies there is left out. An output
file that cannot be created or written is one of the errors. A download that asks for more at once
than `interestChannel`, the window and `sendLoop` hold, `Batch > InterestCap + Window +
1`, would block before it receives; the code's 512 <= 512 + 64 + 1 does not.

### FileTransfer

`main` is a sequence of synchronous requests, one step for the push and one for the
answer, until the threads of the streams start. Every call of `requestFileContent`
and `receiveFileContent` in its loop is a step. `Tree` is what the server has, with
sizes in octets, and `prepare` computes `finalBlockId`. The listing of a directory
comes from NDN-DPDK's file server, which is external: it may refuse the metadata or a
segment with a Nack (Data whose FinalBlockId is no segment has the same effect), and its
versioned names carry the component `32=ls`, for which `rdrDirUri` gives back the path of
the directory, so `listDirRecursive` queues paths. The client asks for the
segments 0 to `finalBlockId`, one past the end; the server answers every name.
"Downloaded" is printed after an error too: `DownloadsComplete` is about the state in
which nothing failed.

### Face

A server is one thread; an interrupt hands it a burst and it answers every Interest
in it, one step each, while the forwarder fills and drains the rings. A management
request is done, refused, or done with the response lost. `is_connected` is not
initialised by the constructor, so `createInterface` leaves it open. The servers set
no `onDisconnect` handler, and calling an empty function ends them (`aborted`); so does
a block that is no packet or an Interest without a PIT token, since `Face::receive` throws
below a `noexcept` function (`transport.hpp:70`). The
ping client's pipeline is reduced to its promise.

### DpdkTransfer

The app's main goroutine and two reading goroutines, the TX and the RX thread, the
goroutines that wait to send on the one channel (`messages`), the producer's thread
and the garbage collector of its file system. Sizes are in segments. Undefined
behaviour ends the model: a request on the ring that lies in memory Go has freed
(`consumer.go:196`), and a channel or ring used after `Close`. The size that
`FileInfo` returns is one of `Reported`: the RX thread reads the content as a
`struct stat` (`consumer-rx.c:60`). An application-level Nack is never recognised,
since the decoder overwrites the content type (`data.c:115`). The ring has 1024
places and never fills. What the producer sends in a burst is sent singly. The
garbage collector closes every descriptor it finds, because `openTimestamp` is never
set.

## Runs

| Run | Bounds | Shows |
| --- | --- | --- |
| `fixed` | 3 requests, 2 consumers, window 2, bursts of 2, 1 retry, 1 duplicate Nack; symmetric requests | one response per request and to its owner; nothing lost or copied between the queues; every pending Interest has its timeout; the worker closes for orphans only; the window holds |
| `fixed_live` | 2 requests, window 1 | the refinement of `RequestResponse` with its liveness; the worker stops |
| `aimd` | 5 requests, window 1 to 3 | window bounds and the limit on what is in flight; refinement (safety) |
| `posix_file` | 2 threads on a file of 4 octets in segments of 3, one thread with a directory of 2 names in 2 segments, 4 calls in all, pipeline sizes 0 and 1 | only a request without Data can make a close harmful; reads return the file's octets, listings all names; calls return |
| `posix_file_refs` | the same without the directory, 3 calls | *violated:* the reference count of `File::close` |
| `xrd_consumer` | both programs; 2 readers, a file of 3 octets in segments of 2, blocks of 1, 3 reads at or past the edges; sizes 1 and 2 of 0 to 3 asked for; 1 Nack and 1 timeout retry | the counter is what is in flight, one completion per fetch, who is turned away; a read returns the file's octets, the copy is the file; the program ends |
| `xrd_wakeup` | the plugin with one reader, size 1 | *violated:* a free slot wakes a waiting thread |
| `xrd_producer` | 2 Interests, 1 or 2 threads, 2 files, 2 descriptors, 3 handlers, 1 handler grown old | a read reads its file; no descriptor lost; an Interest is there when a worker reads it; Interests are answered; unused files are closed |
| `go_pipeline` | 3 segments, 2 at once, window 1, 1 retry of each kind, 2 faults | reads complete and panics explained unless an Interest went out twice or a signal closed the pipeline; every download ends |
| `file_transfer` | 5 paths, 4 command lines, 1 or 2 streams, 1 repetition, 1 null answer | the listing is the tree; downloads complete; closing leaves nobody's request; the program ends |
| `face` | rings and bursts of 2, 4 packets, 2 pings | the forwarder is left clean; no slot of the receive ring is lost; the count of packets transmitted is true; the program ends |
| `dpdk` | 3 files, one of 5 segments, 2 per read, 1 fault, 1 collection | `FileInfo` takes its own answer; the transfer ends |

The bounds let the interesting cases happen: more requests than the window, a burst
the face takes in part while others wait, a retry after which one gives up, a
consumer that leaves with requests outstanding while another goes on, a window
halved below what is pending, a thread that sleeps while another holds the slots;
for a file, an opened file, a read that fails, a read after it and a close, a read
inside a segment and across the end of the file, a name across two segments; two
workers that open one file while its handler is collected; a timeout of an Interest
that is in its backoff; a directory in a directory, a file with an empty and one with
a partial last segment, a path that does not exist and one given twice; a full ring;
a worker that reads twice while the other one takes its messages.
The systems really stop (a closed pipeline, all calls made, a program that has
ended), so deadlock is not checked.

Where a property has an exception, the exception is a weakness of the code that the
model has as well, and the property says that nothing else leads there:
`NoDescriptorLost` (a file that did not open at first is opened by two workers at
once), `InterestStillThere` (an Interest that expired, or two of one name),
`ReadsComplete` and `PanicsExplained` (an Interest sent twice, a signal that closes the
pipeline under a read), `FileTransfer`'s
`TransferEnds` (the pipeline closes during a listing; a path given twice, whose
receivers share one queue), `RxSlotsReturned` (an invalid block), `ForwarderClean`
(an early return of main, a refused request), `AppEnds` (a ping client whose pipeline
closes while it waits), `FileInfoTakesOwn` (after an error), `DpdkTransfer`'s
`TransferEnds` (a packet lost: nothing is sent again), `ReadsReturnContent` (a read
that starts past the end of the file and inside a segment), `CopyIsFaithful` (a fetch
that failed: the exit status is 0 all the same), `ProgramEnds` (an `expressInterest`
that threw, a missed notification, a face that broke down).

**Fairness.** The worker thread of a pipeline keeps running (weak fairness of its
steps). An entry looked at again and again is found expired some time, because the
clock advances, and the face takes some packet of a burst some time, because the
peer drains its ring; both are offered only now and then, hence strong fairness.
Nothing is assumed about Data, Nacks, consumers or closes. In `XrdNdnConsumer`
every thread runs and the face, while it is up, goes on calling back, for every
Interest with the timeout if with nothing else. In `PosixOss`, `FileTransfer` and `Face` the pipeline answers or
closes, which is what `fixed_live` shows of it; in `PosixOss` it is enough that
some thread or the pipeline goes on as long as one of them can. The worker threads of `XrdNdnProducer`
share a queue and a mutex: each task is taken and each waiter gets the mutex some time
(strong fairness), which the `io_service` and the mutex provide in practice. In
`GoPipeline` every goroutine that can run does so, timers expire, and the network
answers an Interest or loses it. In `DpdkTransfer` goroutines and polling threads run.
Nothing is assumed of the forwarder, of users or of signals.

**What the violated runs show.** `File::close` has its condition the wrong way
round: the last close leaves the file opened, so it cannot be opened again, and an
earlier one takes the metadata from the threads that still use it. In the older
pipeline a notification that falls between the predicate and the sleep is lost,
since the face thread does not take the mutex. Two passing properties carry an exception
that is a weakness of the code as well: `CallsReturn` (a request for one packet spins when
the pipeline closes, because of a comma for an `&&`, and waits for ever when the
configured pipeline size is 0), and `ReadsOwnOctets` (after a read that failed, the
thread's next read can return the leftovers; a read from past the end inside a segment
copies what lies behind the content).

## Proofs

`PipelineProofs` shows that `PipelineInv` is inductive for the shared code, for all
finite sets of requests, all consumers and all bounds. It is the conjunction of the
properties that `fixed` checks, with one strengthening, `EntriesKeepOwner`: an entry
carries the consumer that pushed its request, and that consumer had been registered.
Without it a response could not be traced to its owner. `NothingLost` and
`OneEntryPerRequest` need each other: erasing the entry that was answered is right
only if it was the only one. There is one lemma per kind of step (`PushDataInv`,
`RefreshInv`, `SendInv`, ...), and `BaseStepInv` puts them together. As the actions
leave `windowSize` open, both policies use it:

* `FixedAccounting`, `AimdAccounting`: all the safety properties, of `FixedSpec` and of
  the `Spec` of `PipelineAimd`;
* `FixedWindow`: what is pending and what is left of a burst fit into the window
  (with the constant window size this is inductive together with `PipelineInv`);
* `AimdWindow`: the window's bounds and slow start, from an invariant on the record
  that `decreaseWindow` and `increaseWindow` preserve. The proof needed the case
  of an initial ssthresh above `MAX_WINDOW` to be set apart: there the first increase
  after slow start cuts the window below ssthresh;
* `AimdFlight`: the limit on what is in flight, and the overshoot below one burst;
* `FixedRefines`, `AimdRefines`: the safety part of `RequestResponse`.

Assumptions are those of the modules (`PipelineAssumption`, `WindowAssumption`,
`AimdAssumption`): finitely many requests, a default consumer, bursts of at least
one, a window that fits an `int`, `MIN_WINDOW` positive and at most `MAX_WINDOW`.

Four of the parts are not repeated as properties of a run, since the proofs cover
them: `RetriesBounded`, `OneEntryPerRequest`, `SlowStartOnlyAtStart` and
`OvershootBelowBurst`.

**`FaceProofs`** (`FaceInv`). The slots of the receive ring are conserved across an
interrupt, during which the forwarder goes on filling; to say so for every state one
has to know that nothing is received before the link comes up, and that it comes up
once (`LinkInv`). What is left on the forwarder follows from `MgmtInv`: the client
knows what the forwarder has, unless a request failed at the start. Rings, bursts and
the number of packets are arbitrary.

**`XrdNdnProducerProofs`** has two invariants. `InterestsInv`: what is posted and not
yet taken has been read by nobody, and the face holds it. Without "read by nobody" the
Data of another Interest might have satisfied it; this is why the theorem excepts names
that come twice. `FilesInv`: a `FileHandler` has one path, shared by the map and by all
workers that point to it, and its descriptor has that file open and is no other
handler's. That a closed number is given out again at once (`open` returns the lowest
free one) makes the last part necessary: a descriptor closed too early would be a
different file's. The bound on handlers keeps `getFileHandler` from finding none free.

**`XrdNdnConsumerProofs`** (`ConsumerInv`). The counter is exact only when nobody is
between two steps; the invariant says what it is in between: `Due`, the Interests in
flight and the one a callback has not taken off yet, or one less while a thread has
expressed its Interest and not counted it. As the counter wraps, "one less" than
zero is the largest word (`Pred`), a state that does occur. `RoomOK` carries the check
of the window from the predicate to the express, `LockOK` says that a single thread is
in that part, and `CalledWhenSettled` that a task has been called exactly for settled
Interests.

What is read and copied needs a second invariant on top of it, `CopyInv`. A call that
ended well asked for every segment of its read, so it returns what `returnData` makes of
their contents, and `returnData` is the file's octets from the offset on (the step from
segment to segment is shown by least counterexample: a first segment after which the
octets would be wrong). The copy then depends on its threads as a whole: thread `t` reads
the blocks `t`, `t + n`, ..., so every octet is in a block of one of them (`EveryOwned`);
what a thread has passed is written or waits in its `contentStore` (`CoveredOK`),
and a thread stops short of the end of the file only after a failure (`FinishedOK`).
The last two need each other: that nothing is missing at the exit follows from what the
threads passed and from where they stopped.

**`PosixProofs`** (`PosixInv`). For a thread that has not met a null response, each
request of the call is to come, in its queue or popped, and `left` is their number
(`Accounted`); outside a call nothing is left (`Clear`). Steps of other threads do not
touch this, which one frame lemma shows for all of them. From it, a close orphans a
request only after a failure, and a finished read has all of its segments and no
others. `CopyExact` is that `copyDataContent` then makes the right octets of them. It is
a recursive function over the segments; the proof takes the least segment after which
its value would not be the run of octets from the offset, and shows that the step from
the one before cannot go wrong, which is induction by least counterexample and needs no
theorem with an operator as a parameter.

For the directories (`PosixListsDirectory`) the invariant is `DirInv`: the octets a
handler has are the listing up to a segment (`Sound`), the names it returned are the
directory's first ones, and while it asks for segments it has no content yet. `ParseExact` is the same kind
of argument about `ParseNames`, along the positions of the Nuls: cut at every Nul, the
octets of a listing are its names, whatever octet lies behind.

**`GoPipelineProofs`** (`GoInv`). `ReadAt` counts packets and does not look at their
names. That this is enough needs `FlowInv`: as long as no Interest was sent twice, each
name of the call is at one place at most, not asked for yet, in one of the channels, in
a goroutine's hands, on the network or taken, and no name of another call is around.
Every step moves one name to the next place (`OneMoves`), loses one or moves nothing
(`NothingMoves`). When as many were taken as the call has names, all were, and the
pipeline is empty for the next call. `FetcherInv` adds that everything the fetcher
sends again is marked as a retry or still has its entry, so that `resent` notices.
A read that ends on the closed channels breaks the count off with names left on their
way; `CloseInv` shows that no call follows it, since only the signal handler closes the
pipeline under a call, and `GetFile` sees the signal before its next read.

**`FileTransferProofs`** (`FtInv`). The receiver of a stream counts what it pops and
stops at a number, so that an entry is complete holds of no thread by itself; it follows
when all have been joined. Until then, as long as the client can continue, the invariant
(`JoinFacts`) says that stream `s` has the entries `i` with `i % streams = s`, in order;
that for every identifier the segments nobody requested, the requests and the queued
responses are together no more than the segments its receivers wait for (`Counted`); and
that every segment of every entry is unrequested, requested, queued (or a null is, which
becomes an error when it is popped) or received (`Covered`). When the threads have ended
nothing is waited for, so by the first nothing is outstanding, and by the second nothing
is missing. A path given twice makes two entries share an identifier, and their receivers
pop each other's segments: the count is therefore per identifier, and only completeness,
not the absence of leftovers, needs distinct names. While main makes its list, what it
asked for is either pending or answered, once (`Conversation`).

**`DpdkTransferProofs`** (`DpdkInv`). All callers of the NDN-DPDK consumer receive from
one channel, and nothing but their number ties the messages to the calls. As long as no
error was sent, the Interests that the requests on the ring still ask for, the Interests
on the network, the one in the producer's hands, the answers and the messages are
together no more than the messages that the app and its workers still wait for
(`LoadBounded`). At the end of a transfer nothing is waited for, so nothing is about when
the next `FileInfo` asks, and what it takes is its own.

All of these hold for every value of the constants that the named assumptions allow;
the bounds on calls, faults and packets are constants as well and may be any number.

Only model-checked:
* liveness and the liveness part of the refinement (`ImplementsRequestResponse` with its
  fairness, and the properties that programs and calls end), which the proof system does
  not handle;
* `ListsTree`: the entries that a path stands for are a least set closed under
  `Children`, and that each is listed once needs the tree to be one, with an induction
  along it that the installed provers cannot do. `MCFileTransfer` has trees with a
  directory in a directory.

## Not modelled

* Vendored code: the concurrent queue (4760 lines, modelled by its contract), the
  progress bars (4729) and two copies of zf_log (4660). It is more than half of the
  lines of the repository.
* Logging, statistics, the text of options and of configuration files, start-up of
  DPDK, packet encoding and signing, and the operations of XRootD's plugin interfaces
  that do nothing but return a code.
* `pow2` of the transport, and the copying of segments in the programs whose reads are
  counted in segments (`GoPipeline`, `DpdkTransfer`, `FileTransfer`).
* The lifetimes of C++ objects, except where a model says so: `Consumer::stop` frees
  the face while the worker may be in it.
* The liveness of the AIMD pipeline on its own: its worker loop and handlers are the
  ones of the fixed window, for which `fixed_live` checks it.
* `Pipeline::stop` of the older plugin cancels no Interest, although its comment says
  so (`xrdndn-pipeline.hh:51`); `ProgramEnds` excepts a face that broke down.
