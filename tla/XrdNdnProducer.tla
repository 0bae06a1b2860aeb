--------------------------- MODULE XrdNdnProducer ---------------------------
(***************************************************************************)
(* The producer of the xrootd-ndn-oss-plugin.  The face thread posts every *)
(* Interest to the io_service of InterestManager; its worker threads look  *)
(* the FileHandler of the path up, or create it, build the Data and post   *)
(* it back to the face.  A timer of the same io_service is the garbage     *)
(* collector: it erases the FileHandlers nobody has used for a while.      *)
(*                                                                         *)
(* A FileHandler lives as long as m_FileHandlers or a worker has a         *)
(* shared_ptr to it and closes its descriptor when it dies; descriptors    *)
(* are numbers the kernel hands out again.  What is posted refers to the   *)
(* Interest in the face, which drops it once it is answered or its         *)
(* lifetime is over: a later read of it is undefined.                      *)
(***************************************************************************)
EXTENDS Integers, Sequences, FiniteSets

CONSTANTS
    Paths,        \* files asked for
    Names,        \* names of Interests: records with a call and a path
    NoPath,
    MaxInterests, \* bound: Interest packets that arrive
    MaxThreads,   \* bound: worker threads
    MaxHandlers,  \* bound: FileHandler objects alive at once
    MaxFds,       \* the process's limit on descriptors
    MaxAges       \* bound: how often a FileHandler is left unused too long

Interests == 1..MaxInterests
Workers == 1..MaxThreads
Handlers == 1..MaxHandlers
Fds == 1..MaxFds

ASSUME XrdNdnProducerAssumption ==
    /\ MaxThreads \in Nat \ {0} /\ MaxHandlers \in Nat \ {0}
    /\ MaxFds \in Nat /\ MaxAges \in Nat /\ MaxInterests \in Nat
    /\ Names \subseteq [call: {"open", "fstat", "read"}, path: Paths]
    /\ NoPath \notin Paths

VARIABLES
    state,      \* where main is
    threads,    \* how many worker threads it started
    name,       \* the names of the Interests that arrived
    pit,        \* the Interests the face holds
    tasks,      \* Interests posted to the io_service
    puts,       \* the names of Data posted to the face
    timer,      \* the timer of the garbage collector is armed
    pc,         \* where each worker is
    job,        \* the name each worker handles
    fh,         \* the FileHandler it has: 0 for none
    mutex,      \* the worker that holds m_FileHandlersMtx: 0 for none
    map,        \* m_FileHandlers: 0 for no entry
    fd,         \* m_fd of each FileHandler: 0 for XRDNDN_EFAILURE
    stale,      \* FileHandlers whose accessTime is gbFileLifeTime ago
    ages,       \* how often one became stale
    files,      \* the file each descriptor of the process has open
    failed,     \* history: paths a FileHandler was made for that did not open
    expired,    \* history: the lifetime of an Interest was over
    undefined   \* what made the program's behaviour undefined

workerVars == <<pc, job, fh>>
handlerVars == <<map, fd, stale, ages, files, failed>>
faceVars == <<name, pit, puts>>
errorVars == <<expired, undefined>>
vars == <<state, threads, faceVars, tasks, timer, workerVars, mutex, handlerVars, errorVars>>

\* Once it used memory that is gone the program may do anything, from a crash
\* to an answer to another Interest: the model ends there, and nothing is
\* claimed of what follows.
Defined == undefined = {}

Goto(w, label) == pc' = [pc EXCEPT ![w] = label]

NoName == [call |-> "none", path |-> NoPath]

-----------------------------------------------------------------------------
(* FileHandler objects and descriptors.                                     *)

\* The FileHandlers that m, an m_FileHandlers, or f, the workers, point to.
Live(m, f) == ({m[p] : p \in Paths} \cup {f[w] : w \in Workers}) \ {0}

\* Mutant: ~FileHandler does not close the descriptor.
DropKeepsOpen(m, f, S) ==
    /\ map' = m /\ fh' = f
    /\ fd' = [h \in Handlers |-> IF h \in Live(m, f) THEN fd[h] ELSE 0]
    /\ stale' = S \cap Live(m, f)
    /\ UNCHANGED files

\* The pointers change; ~FileHandler closes the files of the objects that
\* nobody points to any more.  S are the stale FileHandlers.
Drop(m, f, S) ==
    /\ map' = m /\ fh' = f
    /\ files' = [d \in Fds |-> IF \E h \in Live(map, fh) \ Live(m, f) : fd[h] = d
                               THEN NoPath ELSE files[d]]
    /\ fd' = [h \in Handlers |-> IF h \in Live(m, f) THEN fd[h] ELSE 0]
    /\ stale' = S \cap Live(m, f)

Least(S) == CHOOSE x \in S : \A y \in S : x <= y

FreeFds == {d \in Fds : files[d] = NoPath}

\* open(2) on p for handler h: the result overwrites m_fd.
OpenFile(h, p) ==
    \/ /\ fd' = [fd EXCEPT ![h] = 0]
       /\ UNCHANGED files
    \/ /\ FreeFds # {}
       /\ fd' = [fd EXCEPT ![h] = Least(FreeFds)]
       /\ files' = [files EXCEPT ![Least(FreeFds)] = p]

-----------------------------------------------------------------------------
(* main and the constructors.                                               *)

\* Options that do not parse, or are below their minimum, end the program.
main ==
    /\ state = "main"
    /\ \E nthreads \in 0..MaxThreads :
          /\ threads' = nthreads
          /\ state' \in IF nthreads < 1 THEN {"exit"} ELSE {"exit", "connect"}
    /\ UNCHANGED <<faceVars, tasks, timer, workerVars, mutex, handlerVars, errorVars>>

\* Producer: processEvents may throw; InterestManager starts the threads.
Construct ==
    /\ state = "connect"
    /\ \/ state' = "exit" /\ UNCHANGED timer
       \/ state' = "run" /\ timer' = TRUE
    /\ UNCHANGED <<threads, faceVars, tasks, workerVars, mutex, handlerVars, errorVars>>

-----------------------------------------------------------------------------
(* The face thread.                                                         *)

\* An Interest under one of the three prefixes is posted.
Arrive(n) ==
    /\ state = "run" /\ Len(name) < MaxInterests
    /\ name' = Append(name, n)
    /\ pit' = pit \cup {Len(name')}
    /\ tasks' = Append(tasks, Len(name'))
    /\ UNCHANGED <<state, threads, puts, timer, workerVars, mutex, handlerVars, errorVars>>

\* Mutant: the face drops all its Interests for any Data.
PutForgetsAll ==
    /\ state = "run" /\ puts # <<>>
    /\ puts' = Tail(puts)
    /\ pit' = {}
    /\ UNCHANGED <<state, threads, name, tasks, timer, workerVars, mutex, handlerVars,
                   errorVars>>

\* m_face.put, run by the face: every Interest of that name is answered.
Put ==
    /\ state = "run" /\ puts # <<>>
    /\ puts' = Tail(puts)
    /\ pit' = {i \in pit : name[i] # Head(puts)}
    /\ UNCHANGED <<state, threads, name, tasks, timer, workerVars, mutex, handlerVars,
                   errorVars>>

\* The lifetime of an Interest is over (bound: of one) before it was read;
\* after that nobody would notice.
Expire(i) ==
    /\ state = "run" /\ ~expired
    /\ i \in pit /\ i \in {tasks[k] : k \in 1..Len(tasks)}
    /\ pit' = pit \ {i}
    /\ expired' = TRUE
    /\ UNCHANGED <<state, threads, name, tasks, puts, timer, workerVars, mutex, handlerVars,
                   undefined>>

\* A FileHandler has not been accessed for longer than gbFileLifeTime.
Age(h) ==
    /\ state = "run" /\ ages < MaxAges
    /\ h \in Live(map, fh) \ stale
    /\ stale' = stale \cup {h}
    /\ ages' = ages + 1
    /\ UNCHANGED <<state, threads, faceVars, tasks, timer, workerVars, mutex, map, fd, files,
                   failed, errorVars>>

-----------------------------------------------------------------------------
(* The worker threads, which run what is posted while the io_service runs.  *)

Free(w) == state \in {"run", "clear"} /\ w <= threads /\ pc[w] = "idle"

\* The first statement of the posted function reads the Interest, which the
\* face may have dropped.
Take(w) ==
    /\ Free(w) /\ tasks # <<>>
    /\ tasks' = Tail(tasks)
    /\ IF Head(tasks) \in pit
       THEN job' = [job EXCEPT ![w] = name[Head(tasks)]] /\ UNCHANGED undefined
       ELSE undefined' = {"interest"} /\ UNCHANGED job
    /\ Goto(w, "lock")
    /\ UNCHANGED <<state, threads, faceVars, timer, fh, mutex, handlerVars, expired>>

Lock(w) ==
    /\ pc[w] \in {"lock", "gcLock"} /\ mutex = 0
    /\ mutex' = w
    /\ Goto(w, IF pc[w] = "lock" THEN "find" ELSE "sweep")
    /\ UNCHANGED <<state, threads, faceVars, tasks, timer, job, fh, handlerVars, errorVars>>

\* Mutant: the lock is kept when the FileHandler is new.
getFileHandlerKeepsLock(w) ==
    /\ pc[w] = "find"
    /\ Goto(w, job[w].call)
    /\ LET p == job[w].path  h == Least(Handlers \ Live(map, fh)) IN
       IF map[p] # 0
       THEN /\ mutex' = 0
            /\ fh' = [fh EXCEPT ![w] = map[p]]
            /\ UNCHANGED <<map, fd, stale, files, failed>>
       ELSE /\ Handlers # Live(map, fh)
            /\ fh' = [fh EXCEPT ![w] = h]
            /\ map' = [map EXCEPT ![p] = h]
            /\ OpenFile(h, p)
            /\ failed' = IF fd'[h] = 0 THEN failed \cup {p} ELSE failed
            /\ stale' = stale \ {h}
            /\ UNCHANGED mutex
    /\ UNCHANGED <<state, threads, faceVars, tasks, timer, job, ages, errorVars>>

\* getFileHandler, with the lock: the constructor of a new FileHandler opens
\* the file, and a file that did not open is entered all the same.
getFileHandler(w) ==
    /\ pc[w] = "find"
    /\ mutex' = 0
    /\ Goto(w, job[w].call)
    /\ LET p == job[w].path  h == Least(Handlers \ Live(map, fh)) IN
       IF map[p] # 0
       THEN fh' = [fh EXCEPT ![w] = map[p]] /\ UNCHANGED <<map, fd, stale, files, failed>>
       ELSE /\ Handlers # Live(map, fh)
            /\ fh' = [fh EXCEPT ![w] = h]
            /\ map' = [map EXCEPT ![p] = h]
            /\ OpenFile(h, p)
            /\ failed' = IF fd'[h] = 0 THEN failed \cup {p} ELSE failed
            /\ stale' = stale \ {h}
    /\ UNCHANGED <<state, threads, faceVars, tasks, timer, job, ages, errorVars>>

\* The Data is made (an error makes Data too, an application level Nack) and
\* m_onDataCallback posts it to the face; then the worker's pointer goes.
Deliver(w, S) ==
    /\ puts' = Append(puts, job[w])
    /\ Drop(map, [fh EXCEPT ![w] = 0], S)
    /\ job' = [job EXCEPT ![w] = NoName]
    /\ Goto(w, "idle")

\* Every call first sets accessTime, without the lock.
Accessed(w) == stale \ {fh[w]}

\* Open: a file that is open is not opened again; isOpened takes no lock.
Open(w) ==
    /\ pc[w] = "open"
    /\ \/ fd[fh[w]] # 0 /\ Deliver(w, Accessed(w))
       \/ /\ fd[fh[w]] = 0
          /\ stale' = Accessed(w)
          /\ Goto(w, "opening")
          /\ UNCHANGED <<puts, map, fh, job, fd, files>>
    /\ UNCHANGED <<state, threads, name, pit, tasks, timer, mutex, ages, failed, errorVars>>

Opening(w) ==
    /\ pc[w] = "opening"
    /\ OpenFile(fh[w], job[w].path)
    /\ Goto(w, "opened")
    /\ UNCHANGED <<state, threads, faceVars, tasks, timer, job, fh, mutex, map, stale, ages,
                   failed, errorVars>>

Opened(w) ==
    /\ pc[w] = "opened"
    /\ Deliver(w, stale)
    /\ UNCHANGED <<state, threads, name, pit, tasks, timer, mutex, ages, failed, errorVars>>

\* Fstat calls stat(2) with the path.
Fstat(w) ==
    /\ pc[w] = "fstat"
    /\ Deliver(w, Accessed(w))
    /\ UNCHANGED <<state, threads, name, pit, tasks, timer, mutex, ages, failed, errorVars>>

\* The file pread(2) reads for worker w, whatever m_fd is by now.
FileRead(w) == IF fd[fh[w]] = 0 THEN NoPath ELSE files[fd[fh[w]]]

Read(w) ==
    /\ pc[w] = "read"
    /\ Deliver(w, Accessed(w))
    /\ UNCHANGED <<state, threads, name, pit, tasks, timer, mutex, ages, failed, errorVars>>

\* The timer expired, or was cancelled: the handler runs in either case.
TimerFires(w) ==
    /\ Free(w) /\ timer
    /\ timer' = FALSE
    /\ Goto(w, "gcLock")
    /\ UNCHANGED <<state, threads, faceVars, tasks, job, fh, mutex, handlerVars, errorVars>>

\* Mutant: the garbage collector does not arm its timer again.
onGarbageCollectorOnce(w) ==
    /\ pc[w] = "sweep"
    /\ Drop([p \in Paths |-> IF map[p] \in stale THEN 0 ELSE map[p]], fh, stale)
    /\ mutex' = 0
    /\ Goto(w, "idle")
    /\ UNCHANGED <<state, threads, faceVars, tasks, timer, job, ages, failed,
                   errorVars>>

\* Mutant: the garbage collector closes the files it erases.
onGarbageCollectorCloses(w) ==
    /\ pc[w] = "sweep"
    /\ map' = [p \in Paths |-> IF map[p] \in stale THEN 0 ELSE map[p]]
    /\ files' = [d \in Fds |-> IF \E p \in Paths : map[p] \in stale /\ fd[map[p]] = d
                               THEN NoPath ELSE files[d]]
    /\ timer' = TRUE
    /\ mutex' = 0
    /\ Goto(w, "idle")
    /\ UNCHANGED <<state, threads, faceVars, tasks, job, fh, fd, stale, ages, failed,
                   errorVars>>

onGarbageCollector(w) ==
    /\ pc[w] = "sweep"
    /\ Drop([p \in Paths |-> IF map[p] \in stale THEN 0 ELSE map[p]], fh, stale)
    /\ timer' = TRUE
    /\ mutex' = 0
    /\ Goto(w, "idle")
    /\ UNCHANGED <<state, threads, faceVars, tasks, job, ages, failed, errorVars>>

Worker(w) ==
    \/ Take(w) \/ Lock(w) \/ getFileHandler(w) \/ Open(w) \/ Opening(w) \/ Opened(w)
    \/ Fstat(w) \/ Read(w) \/ TimerFires(w) \/ onGarbageCollector(w)

-----------------------------------------------------------------------------
(* The end: processEvents of run threw.                                     *)

\* ~Producer, then ~InterestManager, which clears the map without the lock: a
\* worker that is using the map makes that undefined.
Shutdown ==
    /\ state = "run"
    /\ state' = "clear"
    /\ undefined' = IF mutex = 0 THEN {} ELSE {"map"}
    /\ Drop([p \in Paths |-> 0], fh, stale)
    /\ pit' = {}
    /\ UNCHANGED <<threads, name, puts, tasks, timer, pc, job, mutex, ages,
                   failed, expired>>

Stop ==
    /\ state = "clear"
    /\ state' = "join"
    /\ UNCHANGED <<threads, faceVars, tasks, timer, workerVars, mutex, handlerVars, errorVars>>

\* join_all; then the map's destructor, for what was entered after the clear.
Join ==
    /\ state = "join"
    /\ \A w \in Workers : pc[w] = "idle"
    /\ state' = "exit"
    /\ Drop([p \in Paths |-> 0], fh, stale)
    /\ UNCHANGED <<threads, faceVars, tasks, timer, pc, job, mutex, ages,
                   failed, errorVars>>

-----------------------------------------------------------------------------
Init ==
    /\ state = "main"
    /\ threads = 0
    /\ name = <<>>
    /\ pit = {}
    /\ tasks = <<>> /\ puts = <<>>
    /\ timer = FALSE
    /\ pc = [w \in Workers |-> "idle"]
    /\ job = [w \in Workers |-> NoName]
    /\ fh = [w \in Workers |-> 0]
    /\ mutex = 0
    /\ map = [p \in Paths |-> 0]
    /\ fd = [h \in Handlers |-> 0]
    /\ stale = {}
    /\ ages = 0
    /\ files = [d \in Fds |-> NoPath]
    /\ failed = {}
    /\ expired = FALSE
    /\ undefined = {}

FaceThread ==
    \/ main \/ Construct \/ Put \/ Shutdown \/ Stop \/ Join
    \/ \E i \in Interests : Expire(i)
    \/ \E n \in Names : Arrive(n)

Next ==
    /\ Defined
    /\ FaceThread \/ (\E h \in Handlers : Age(h)) \/ \E w \in Workers : Worker(w)

\* Every thread keeps running and gets the mutex in the end; the io_service
\* hands out what is posted, and the timer's handler, in turn.
Fairness ==
    /\ WF_vars(Defined /\ Put)
    /\ SF_vars(Defined /\ \E w \in Workers : Take(w))
    /\ SF_vars(Defined /\ \E w \in Workers : TimerFires(w))
    /\ \A w \in Workers : SF_vars(Defined /\ Lock(w))
    /\ \A w \in Workers : WF_vars(Defined /\ pc[w] # "idle" /\ Worker(w))

Spec == Init /\ [][Next]_vars /\ Fairness

-----------------------------------------------------------------------------
\* A read gets content of the file it names, or an error: a descriptor that a
\* worker is about to use is not closed, and its number not given to another
\* file, whatever the garbage collector and other workers do meanwhile
\* (getFileHandler, onGarbageCollector, ~FileHandler).
ReadsNamedFile ==
    \A w \in Workers :
        pc[w] = "read" /\ fd[fh[w]] # 0 => FileRead(w) = job[w].path

\* Every descriptor that is open belongs to a FileHandler somebody points to,
\* so that none is left when the program ends; a descriptor is lost only for a
\* file that did not open at first, whose opens then race (FileHandler::Open).
NoDescriptorLost ==
    \A d \in Fds : \/ files[d] = NoPath \/ files[d] \in failed
                   \/ \E h \in Live(map, fh) : fd[h] = d

\* The posted function finds the Interest it refers to, as long as the program
\* runs, no lifetime is over and no two Interests have the same name: then
\* nothing the producer sends makes the face drop an Interest that is still
\* to be read (openInterest, fstatInterest, readInterest, onData).
InterestStillThere ==
    "interest" \in undefined =>
        \/ expired \/ state # "run"
        \/ \E i, j \in 1..Len(name) : i # j /\ name[i] = name[j]

\* An Interest the face holds is answered: the workers neither block each
\* other nor starve behind the garbage collector (m_FileHandlersMtx).
InterestsAnswered ==
    \A i \in Interests : i \in pit ~> (i \notin pit \/ state # "run" \/ ~Defined)

\* A file that is not used any more is closed in the end: its FileHandler is
\* erased, or used again, or the program ends (onGarbageCollector).
UnusedFilesErased ==
    \A p \in Paths :
        map[p] \in stale ~> (map[p] \notin stale \/ state # "run" \/ ~Defined)

=============================================================================
