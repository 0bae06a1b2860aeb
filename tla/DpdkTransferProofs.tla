------------------------- MODULE DpdkTransferProofs -------------------------
(***************************************************************************)
(* FileInfo takes its own answer.  All callers of the NDN-DPDK consumer    *)
(* receive from one channel, so nothing but their number ties answers to   *)
(* the calls: as long as no error has been sent, there are never more      *)
(* requests, Interests and answers about than messages the callers still   *)
(* wait for.  None is left when the workers are done, and what FileInfo    *)
(* then finds in the channel can only be what it asked for.                *)
(***************************************************************************)
EXTENDS DpdkTransfer, FiniteSetTheorems, TLAPS

-----------------------------------------------------------------------------
(* Counting.                                                               *)

\* One token for every Interest the requests of the ring r still ask for.
Tokens(r) == {x \in (1..Len(r)) \X Nat : x[2] < r[x[1]].n}
Finite(S) == IsFiniteSet(S) /\ Cardinality(S) \in Nat

\* A set with one more element.
LEMMA CardAdd ==
    ASSUME NEW S, Finite(S), NEW x
    PROVE  Finite(S \cup {x}) /\ Cardinality(S \cup {x}) <= Cardinality(S) + 1
<1>1. IsFiniteSet(S \cup {x})
  BY FS_AddElement DEF Finite
<1>2. Cardinality(S \cup {x}) = IF x \in S THEN Cardinality(S) ELSE Cardinality(S) + 1
  BY FS_AddElement DEF Finite
<1> QED
  BY <1>1, <1>2 DEF Finite

\* A set with one of its elements removed.
LEMMA CardRemove ==
    ASSUME NEW S, Finite(S), NEW x \in S
    PROVE  Finite(S \ {x}) /\ Cardinality(S \ {x}) = Cardinality(S) - 1
BY FS_RemoveElement, FS_CardinalityType DEF Finite

\* A finite set with no elements is empty.
LEMMA CardZero ==
    ASSUME NEW S, Finite(S), Cardinality(S) <= 0
    PROVE  S = {}
BY FS_EmptySet DEF Finite

\* The naturals below n are n.
LEMMA CardBelow ==
    ASSUME NEW n, n \in Nat
    PROVE  IsFiniteSet(0..n-1) /\ Cardinality(0..n-1) = n
BY FS_Interval

\* The elements of f on 0..n-1 add at most n to a set.
LEMMA CardUnion ==
    ASSUME NEW S, Finite(S), NEW n \in Nat, NEW f, DOMAIN f = 0..n-1,
           NEW T, T = {f[i] : i \in 0..n-1}
    PROVE  Finite(S \cup T) /\ Cardinality(S \cup T) <= Cardinality(S) + n
<1>1. IsFiniteSet(0..n-1) /\ Cardinality(0..n-1) = n
  BY CardBelow
<1>2. [i \in 0..n-1 |-> f[i]] \in Surjection(0..n-1, T)
  BY DEF Surjection
<1>3. IsFiniteSet(T) /\ Cardinality(T) <= n
  BY <1>1, <1>2, FS_Surjection
<1>4. IsFiniteSet(S \cap T) /\ Cardinality(S \cap T) \in Nat /\ Cardinality(T) \in Nat
  BY <1>3, FS_Intersection, FS_CardinalityType
<1>5. IsFiniteSet(S \cup T)
  BY <1>3, FS_Union DEF Finite
<1>6. Cardinality(S \cup T) = Cardinality(S) + Cardinality(T) - Cardinality(S \cap T)
  BY <1>3, FS_Union DEF Finite
<1>7. Cardinality(S \cup T) \in Nat
  BY <1>5, FS_CardinalityType
<1> QED
  BY <1>3, <1>4, <1>5, <1>6, <1>7 DEF Finite

Request == [pt : {"fileinfo", "read"}, path : Paths, off : Nat, n : Nat \ {0}]

\* A request at the end of the ring adds at most its Interests.
LEMMA TokensAppend ==
    ASSUME NEW r \in Seq(Request), Finite(Tokens(r)), NEW e \in Request
    PROVE  /\ Finite(Tokens(Append(r, e)))
           /\ Cardinality(Tokens(Append(r, e))) <= Cardinality(Tokens(r)) + e.n
<1> DEFINE f == [k \in 0..e.n-1 |-> <<Len(r) + 1, k>>]
           T == {f[k] : k \in 0..e.n-1}
<1>1. e.n \in Nat
  BY DEF Request
<1>2. Tokens(Append(r, e)) = Tokens(r) \cup T
  <2>1. Len(Append(r, e)) = Len(r) + 1 /\ Len(r) \in Nat /\ Append(r, e)[Len(r) + 1] = e
    OBVIOUS
  <2>2. \A i \in 1..Len(r) : Append(r, e)[i] = r[i]
    OBVIOUS
  <2>3. T = {<<Len(r) + 1, k>> : k \in 0..e.n-1}
    OBVIOUS
  <2> HIDE DEF T
  <2>4. ASSUME NEW x \in Tokens(Append(r, e))
        PROVE  x \in Tokens(r) \cup T
    <3>1. x \in (1..Len(r) + 1) \X Nat /\ x[2] < Append(r, e)[x[1]].n
      BY <2>1 DEF Tokens
    <3>2. CASE x[1] = Len(r) + 1
      <4>1. x = <<Len(r) + 1, x[2]>> /\ x[2] \in 0..e.n-1
        BY <1>1, <2>1, <3>1, <3>2
      <4> QED
        BY <2>3, <4>1
    <3>3. CASE x[1] # Len(r) + 1
      BY <2>1, <2>2, <3>1, <3>3 DEF Tokens
    <3> QED
      BY <3>2, <3>3
  <2>5. ASSUME NEW x \in Tokens(r) \cup T
        PROVE  x \in Tokens(Append(r, e))
    <3>1. CASE x \in Tokens(r)
      BY <2>1, <2>2, <3>1 DEF Tokens
    <3>2. CASE x \in T
      BY <1>1, <2>1, <2>3, <3>2 DEF Tokens
    <3> QED
      BY <3>1, <3>2
  <2> QED
    BY <2>4, <2>5
<1>3. DOMAIN f = 0..e.n-1
  OBVIOUS
<1> HIDE DEF f
<1>4. Finite(Tokens(r) \cup T) /\ Cardinality(Tokens(r) \cup T) <= Cardinality(Tokens(r)) + e.n
  BY <1>1, <1>3, CardUnion
<1> QED
  BY <1>2, <1>4

\* Taking the first request from the ring takes all its tokens.
LEMMA TokensTail ==
    ASSUME NEW r \in Seq(Request), Finite(Tokens(r)), r # <<>>
    PROVE  /\ Finite(Tokens(Tail(r)))
           /\ Cardinality(Tokens(Tail(r))) <= Cardinality(Tokens(r)) - Head(r).n
<1> DEFINE n == Head(r).n
           A == {x \in Tokens(r) : x[1] = 1}
           B == Tokens(r) \ A
           g == [k \in 0..n-1 |-> <<1, k>>]
           f == [x \in B |-> <<x[1] - 1, x[2]>>]
<1>1. n \in Nat /\ Len(r) \in Nat /\ Len(r) >= 1 /\ Head(r) = r[1]
  <2>1. Len(r) \in Nat /\ Len(r) >= 1 /\ Head(r) = r[1]
    OBVIOUS
  <2>2. r[1] \in Request
    BY <2>1
  <2> QED
    BY <2>1, <2>2 DEF Request
<1>2. IsFiniteSet(A) /\ IsFiniteSet(B) /\ A \cap B = {} /\ A \cup B = Tokens(r)
  BY FS_Subset DEF Finite
<1>3. Cardinality(Tokens(r)) = Cardinality(A) + Cardinality(B)
  <2>1. Cardinality(A) \in Nat /\ Cardinality(B) \in Nat
    BY <1>2, FS_CardinalityType
  <2> HIDE DEF A, B
  <2> QED
    <3>1. Cardinality(A \cup B) = Cardinality(A) + Cardinality(B) - Cardinality(A \cap B)
      BY <1>2, FS_Union
    <3>2. Cardinality(A \cap B) = 0
      BY <1>2, FS_EmptySet
    <3>3. Cardinality(Tokens(r)) = Cardinality(A \cup B)
      BY <1>2, Zenon
    <3> QED
      BY <2>1, <3>1, <3>2, <3>3
<1>4. Cardinality(A) = n
  <2>1. A = {<<1, k>> : k \in 0..n-1}
    BY <1>1 DEF Tokens
  <2>2. g \in Bijection(0..n-1, A)
    BY <2>1, <1>1 DEF Bijection, Injection, Surjection, IsInjective
  <2>3. ExistsBijection(0..n-1, A)
    BY <2>2 DEF ExistsBijection
  <2> QED
    <3> HIDE DEF n, A
    <3>1. IsFiniteSet(0..n-1) /\ Cardinality(0..n-1) = n
      BY <1>1, CardBelow
    <3> QED
      BY <3>1, <2>3, FS_Bijection
<1>5. IsFiniteSet(Tokens(Tail(r))) /\ Cardinality(Tokens(Tail(r))) <= Cardinality(B)
  <2>1. Len(Tail(r)) = Len(r) - 1 /\ \A i \in 1..Len(r) - 1 : Tail(r)[i] = r[i + 1]
    BY <1>1
  <2>2. f \in [B -> Tokens(Tail(r))]
    BY <1>1, <2>1 DEF Tokens
  <2>3. \A y \in Tokens(Tail(r)) : \E x \in B : f[x] = y
    <3> TAKE y \in Tokens(Tail(r))
    <3>1. y \in (1..Len(r) - 1) \X Nat /\ y[2] < r[y[1] + 1].n
      BY <1>1, <2>1 DEF Tokens
    <3>2. <<y[1] + 1, y[2]>> \in B
      BY <3>1, <1>1 DEF Tokens
    <3> QED
      BY <3>1, <3>2
  <2>4. f \in Surjection(B, Tokens(Tail(r)))
    BY <2>2, <2>3 DEF Surjection
  <2> QED
    BY <1>2, <2>4, FS_Surjection
<1> QED
  BY <1>1, <1>2, <1>3, <1>4, <1>5, FS_CardinalityType DEF Finite

-----------------------------------------------------------------------------
(* The invariant.                                                          *)

Phases == {"transfer", "fileinfo", "workers"}
\* No error has been sent and the files are being transferred.
Quiet == ~errors /\ app.pc \in Phases

\* Where the producer has an Interest that it has not answered.
Asking == {"open", "store", "opened", "get", "pread"}
Busy == IF producer.pc \in Asking THEN 1 ELSE 0

\* What may still become a message, and the messages the callers wait for.
Load == Cardinality(Tokens(ring)) + Cardinality(interests) + Busy
        + Cardinality(answers) + Cardinality(messages)
Awaited == CASE app.pc = "workers" -> worker[0].left + worker[1].left
             [] app.pc = "fileinfo" -> 1
             [] OTHER -> 0

Own(e) == e.pt = "fileinfo" /\ e.path = Path

Shape ==
    /\ DOMAIN app = {"pc", "file", "filesize"}
    /\ DOMAIN producer = {"pc", "int", "fd"}
AppTyped == app \in [pc : Phases, file : 1..Len(Files), filesize : Nat]
WorkersTyped ==
    /\ worker \in [Workers -> [pc : {"loop", "read", "done"}, off : Nat, left : Nat]]
    /\ \A w \in Workers : worker[w].pc = "read" <=> worker[w].left # 0
QueuesTyped ==
    /\ ring \in Seq(Request) /\ Finite(Tokens(ring))
    /\ Finite(interests) /\ Finite(answers) /\ Finite(messages)
    /\ \A m \in messages : ~m.err
LoadBounded == Load <= Awaited
OnlyOwn ==
    app.pc = "fileinfo" =>
        /\ \A i \in 1..Len(ring) : Own(ring[i])
        /\ \A e \in interests \cup answers \cup messages : Own(e)
        /\ producer.pc \in Asking => Own(producer.int)
TookOwn == app.pc = "workers" => taken = [pt |-> "fileinfo", path |-> Path]

Facts == AppTyped /\ WorkersTyped /\ QueuesTyped /\ LoadBounded /\ OnlyOwn /\ TookOwn
DpdkInv == Shape /\ (Quiet => Facts)

\* The paths of app.files are the paths of the model.
LEMMA FilesTyped ==
    /\ Len(Files) \in Nat /\ Len(Files) >= 1
    /\ \A i \in 1..Len(Files) : Files[i] \in Paths
BY DpdkAssumption

\* The shape of the records, and that Quiet never comes back.
LEMMA ShapeStep ==
    ASSUME Shape, [Next]_vars
    PROVE  Shape' /\ (Quiet' => Quiet)
<1> USE DEF Shape, Quiet, Phases
<1>1. CASE Main
  <2>1. CASE FileInfo
    BY <2>1 DEF FileInfo, histVars
  <2>2. CASE FileInfoReturns
    BY <2>2 DEF FileInfoReturns, NextFile
  <2>3. CASE TransferFileEnds
    BY <2>3 DEF TransferFileEnds, NextFile, histVars
  <2>4. CASE MainCloses
    BY <2>4 DEF MainCloses, histVars
  <2> QED
    BY <1>1, <2>1, <2>2, <2>3, <2>4 DEF Main
<1>2. ASSUME NEW w \in Workers, Worker(w)
      PROVE  Shape' /\ (Quiet' => Quiet)
  BY <1>2 DEF Worker, Read, ReadReceives, WorkerEnds, histVars
<1>3. CASE Signal \/ SignalCloses
  BY <1>3 DEF Signal, SignalCloses, histVars
<1>4. CASE ConsumerTx_Run \/ RequestReused
  <2>1. CASE ExpressFileInfoInterest
    <3>1. UNCHANGED <<app, producer>>
      BY <2>1 DEF ExpressFileInfoInterest, goVars
    <3>2. errors' = errors \/ errors' = TRUE
      BY <2>1 DEF ExpressFileInfoInterest, onError
    <3> QED
      BY <3>1, <3>2
  <2>2. CASE ExpressReadInterests
    <3>1. UNCHANGED <<app, producer>>
      BY <2>2 DEF ExpressReadInterests, goVars
    <3>2. errors' = errors \/ errors' = TRUE
      BY <2>2 DEF ExpressReadInterests, onError
    <3> QED
      BY <3>1, <3>2
  <2>3. CASE RequestReused
    BY <2>3 DEF RequestReused, goVars, histVars
  <2> QED
    BY <1>4, <2>1, <2>2, <2>3 DEF ConsumerTx_Run
<1>5. CASE ConsumerRx_Run
  <2>1. CASE processData
    BY <2>1 DEF processData, goVars, histVars
  <2>2. CASE processEmptyData
    BY <2>2 DEF processEmptyData, histVars
  <2>3. CASE processNackPacket
    BY <2>3 DEF processNackPacket, goVars, onError
  <2> QED
    BY <1>5, <2>1, <2>2, <2>3 DEF ConsumerRx_Run
<1>6. CASE NetworkNack \/ Drop
  BY <1>6 DEF NetworkNack, Drop, goVars, histVars
<1>7. CASE Producer_Run
  <2> USE DEF Serves, EncodeData, Elsewhere, Steps, goVars, histVars
  <2>1. CASE processInterest
    BY <2>1 DEF processInterest
  <2>2. CASE open
    <3>1. DOMAIN producer' = DOMAIN producer
      BY <2>2 DEF open
    <3>2. UNCHANGED <<app, errors>>
      BY <2>2 DEF open
    <3> QED
      BY <3>1, <3>2
  <2>3. CASE storeFileHandler
    BY <2>3 DEF storeFileHandler
  <2>4. CASE fstat
    BY <2>4 DEF fstat
  <2>5. CASE getFileHandler \/ getFileHandlerAgain
    <3>1. DOMAIN producer' = DOMAIN producer
      BY <2>5 DEF getFileHandler, getFileHandlerAgain
    <3>2. UNCHANGED <<app, errors>>
      BY <2>5 DEF getFileHandler, getFileHandlerAgain
    <3> QED
      BY <3>1, <3>2
  <2>6. CASE pread
    BY <2>6 DEF pread
  <2> QED
    BY <1>7, <2>1, <2>2, <2>3, <2>4, <2>5, <2>6 DEF Producer_Run
<1>8. CASE onGarbageCollector \/ ProducerCloses \/ ProducerExits
  BY <1>8 DEF onGarbageCollector, ProducerCloses, ProducerExits, Steps, Elsewhere, goVars, histVars
<1>9. CASE UNCHANGED vars
  BY <1>9 DEF vars
<1> QED
  BY <1>1, <1>2, <1>3, <1>4, <1>5, <1>6, <1>7, <1>8, <1>9 DEF Next

\* The queues, the producer and the callers are as they were.
SameLoad == UNCHANGED <<ring, interests, answers, messages, producer>>

\* A step that leaves the queues alone leaves the load alone.
LEMMA SameLoadKeeps ==
    ASSUME SameLoad, QueuesTyped
    PROVE  QueuesTyped' /\ Load' = Load /\ Load \in Nat
BY DEF SameLoad, QueuesTyped, Load, Busy, Finite

\* The load is a natural number, and with no load all queues are empty.
LEMMA LoadTyped ==
    ASSUME QueuesTyped
    PROVE  Load \in Nat
BY DEF QueuesTyped, Load, Busy, Finite

\* With no load nothing is on its way.
LEMMA NoLoad ==
    ASSUME QueuesTyped, Load <= 0
    PROVE  /\ ring = <<>> /\ interests = {} /\ answers = {} /\ messages = {}
           /\ producer.pc \notin Asking
<1>1. /\ Cardinality(Tokens(ring)) <= 0 /\ Cardinality(interests) <= 0
      /\ Cardinality(answers) <= 0 /\ Cardinality(messages) <= 0 /\ Busy = 0
  BY DEF QueuesTyped, Load, Busy, Finite
<1>2. /\ Tokens(ring) = {} /\ interests = {} /\ answers = {} /\ messages = {}
  BY <1>1, CardZero DEF QueuesTyped
<1>3. ring = <<>>
  <2>1. SUFFICES ASSUME ring # <<>> PROVE FALSE
    OBVIOUS
  <2>2. ring[1] \in Request /\ Len(ring) >= 1 /\ Len(ring) \in Nat
    BY <2>1 DEF QueuesTyped
  <2>3. 0 < ring[1].n
    BY <2>2 DEF Request
  <2>4. <<1, 0>> \in Tokens(ring)
    BY <2>2, <2>3 DEF Tokens
  <2> QED
    BY <1>2, <2>4
<1> QED
  BY <1>1, <1>2, <1>3 DEF Busy

-----------------------------------------------------------------------------
(* The steps of the callers.                                               *)

\* The five parts of the load in numbers.
Parts(t, i, b, a, m) ==
    /\ t = Cardinality(Tokens(ring)) /\ i = Cardinality(interests) /\ b = Busy
    /\ a = Cardinality(answers) /\ m = Cardinality(messages)

\* The load is the sum of its parts, before a step.
LEMMA LoadParts ==
    ASSUME QueuesTyped
    PROVE  \E t, i, b, a, m \in Nat : Parts(t, i, b, a, m) /\ Load = t + i + b + a + m
BY DEF QueuesTyped, Load, Parts, Busy, Finite

\* The load is the sum of its parts, after a step.
LEMMA LoadPartsNext ==
    ASSUME QueuesTyped'
    PROVE  \E t, i, b, a, m \in Nat : Parts(t, i, b, a, m)' /\ Load' = t + i + b + a + m
BY DEF QueuesTyped, Load, Parts, Busy, Finite

\* FileInfo asks for one message when nothing is on its way.
LEMMA FileInfoKeeps ==
    ASSUME Shape, Facts, FileInfo
    PROVE  Facts'
<1> USE DEF Facts
<1>1. /\ app.pc = "transfer" /\ app' = [app EXCEPT !.pc = "fileinfo"]
      /\ UNCHANGED <<worker, interests, answers, messages, producer, taken>>
  BY DEF FileInfo, netVars, histVars
<1>2. Path \in Paths /\ Path' = Path
  BY <1>1, FilesTyped DEF Path, AppTyped
<1> DEFINE req == [pt |-> "fileinfo", path |-> Path, off |-> 0, n |-> 1]
<1>3. ring' = ring \/ ring' = Append(ring, req)
  BY DEF FileInfo, RequestData
<1>4. req \in Request /\ req.n = 1 /\ Own(req)
  BY <1>2 DEF Request, Own
<1>5. /\ ring = <<>> /\ interests = {} /\ answers = {} /\ messages = {}
      /\ producer.pc \notin Asking /\ Load = 0
  BY <1>1, NoLoad, LoadTyped DEF LoadBounded, Awaited
<1> HIDE DEF req
<1>6. QueuesTyped' /\ Cardinality(Tokens(ring')) <= Cardinality(Tokens(ring)) + 1
  <2>1. CASE ring' = ring
    BY <1>1, <2>1 DEF QueuesTyped, Finite
  <2>2. CASE ring' = Append(ring, req)
    BY <1>1, <2>2, <1>4, TokensAppend DEF QueuesTyped
  <2> QED
    BY <1>3, <2>1, <2>2
<1>7. LoadBounded'
  BY <1>1, <1>5, <1>6 DEF LoadBounded, Load, Awaited, Busy, QueuesTyped, Finite, AppTyped
<1>8. OnlyOwn'
  <2>1. \A i \in 1..Len(ring') : ring'[i] = req
    BY <1>3, <1>5
  <2> QED
    BY <1>1, <1>2, <1>4, <1>5, <2>1 DEF OnlyOwn, Own
<1>9. AppTyped' /\ WorkersTyped' /\ TookOwn'
  BY <1>1 DEF AppTyped, WorkersTyped, TookOwn, Phases
<1> QED
  BY <1>6, <1>7, <1>8, <1>9

\* The one message FileInfo waits for is its own, and was all there was.
LEMMA FileInfoReturnsKeeps ==
    ASSUME Shape, Facts, FileInfoReturns
    PROVE  Facts'
<1> USE DEF Facts
<1>1. /\ app.pc = "fileinfo" /\ UNCHANGED <<ring, interests, answers, producer>>
  BY DEF FileInfoReturns, netVars
<1>2. PICK m \in messages :
        /\ messages' = messages \ {m}
        /\ taken' = [pt |-> m.pt, path |-> m.path]
        /\ \/ m.err /\ app' = NextFile /\ UNCHANGED worker
           \/ /\ ~m.err
              /\ \E filesize \in IF m.pt = "fileinfo" THEN Reported[m.path] ELSE {1} :
                    app' = [app EXCEPT !.pc = "workers", !.filesize = filesize]
              /\ worker' = [w \in Workers |-> [pc |-> "loop", off |-> w * BufferSz, left |-> 0]]
  BY DEF FileInfoReturns
<1>3. Own(m) /\ ~m.err /\ Path \in Paths
  BY <1>1, FilesTyped DEF OnlyOwn, QueuesTyped, AppTyped, Path
<1>4. PICK filesize \in Reported[m.path] :
        app' = [app EXCEPT !.pc = "workers", !.filesize = filesize]
  BY <1>2, <1>3 DEF Own
<1>5. filesize \in Nat
  BY <1>3, <1>4, DpdkAssumption DEF Own
<1>6. worker' = [w \in Workers |-> [pc |-> "loop", off |-> w * BufferSz, left |-> 0]]
  BY <1>2, <1>3
<1>7. WorkersTyped' /\ worker'[0].left = 0 /\ worker'[1].left = 0
  BY <1>6, DpdkAssumption DEF WorkersTyped, Workers
<1>8. AppTyped' /\ Path' = Path /\ app'.pc = "workers"
  BY <1>4, <1>5 DEF AppTyped, Path, Phases
<1>9. QueuesTyped' /\ Cardinality(messages') = Cardinality(messages) - 1
  BY <1>1, <1>2, CardRemove DEF QueuesTyped
<1>10. LoadBounded'
  BY <1>1, <1>7, <1>8, <1>9 DEF LoadBounded, Load, Awaited, Busy, QueuesTyped, Finite
<1>11. OnlyOwn' /\ TookOwn'
  BY <1>2, <1>3, <1>8 DEF OnlyOwn, TookOwn, Own
<1> QED
  BY <1>7, <1>8, <1>9, <1>10, <1>11

\* Both workers are done and wait for nothing: the next file starts with no load.
LEMMA TransferFileEndsKeeps ==
    ASSUME Shape, Facts, TransferFileEnds, Quiet'
    PROVE  Facts'
<1> USE DEF Facts
<1>1. /\ app.pc = "workers" /\ SameLoad /\ UNCHANGED <<worker, taken>>
      /\ app' = NextFile /\ \A w \in Workers : worker[w].pc = "done"
  BY DEF TransferFileEnds, netVars, histVars, SameLoad
<1>2. app' = [app EXCEPT !.pc = "transfer", !.file = @ + 1] /\ app.file < Len(Files)
  BY <1>1 DEF NextFile, Quiet, Phases, Shape
<1>3. AppTyped' /\ app'.pc = "transfer"
  <2>1. app.file + 1 \in 1..Len(Files)
    BY <1>2, FilesTyped DEF AppTyped
  <2> QED
    BY <1>2, <2>1 DEF AppTyped, Phases
<1>4. worker[0].left = 0 /\ worker[1].left = 0
  BY <1>1 DEF WorkersTyped, Workers
<1>5. QueuesTyped' /\ LoadBounded'
  BY <1>1, <1>3, <1>4, SameLoadKeeps DEF LoadBounded, Awaited
<1> QED
  BY <1>1, <1>3, <1>5 DEF WorkersTyped, OnlyOwn, TookOwn

\* Read waits for as many messages as it asks for Interests.
LEMMA ReadKeeps ==
    ASSUME Shape, Facts, NEW w \in Workers, Read(w)
    PROVE  Facts'
<1> USE DEF Facts
<1> DEFINE rest == app.filesize - worker[w].off
           n == IF rest < BufferSz THEN rest ELSE BufferSz
           req == [pt |-> "read", path |-> Path, off |-> worker[w].off, n |-> n]
<1>1. /\ app.pc = "workers" /\ worker[w].pc = "loop" /\ worker[w].off < app.filesize
      /\ worker' = [worker EXCEPT ![w].pc = "read", ![w].left = n]
      /\ UNCHANGED <<app, interests, answers, messages, producer, taken>>
      /\ ring' = ring \/ ring' = Append(ring, req)
  BY DEF Read, netVars, histVars, RequestData
<1>2. n \in Nat \ {0}
  BY <1>1, DpdkAssumption DEF AppTyped, WorkersTyped
<1>3. req \in Request /\ req.n = n
  BY <1>2, FilesTyped DEF Request, Path, AppTyped, WorkersTyped
<1> HIDE DEF n, req
<1>4. QueuesTyped' /\ Cardinality(Tokens(ring')) <= Cardinality(Tokens(ring)) + n
  <2>1. CASE ring' = ring
    BY <1>1, <1>2, <2>1 DEF QueuesTyped, Finite
  <2>2. CASE ring' = Append(ring, req)
    BY <1>1, <2>2, <1>3, TokensAppend DEF QueuesTyped
  <2> QED
    BY <1>1, <2>1, <2>2
<1>5. WorkersTyped' /\ worker'[0].left + worker'[1].left = worker[0].left + worker[1].left + n
  <2>1. WorkersTyped'
    BY <1>1, <1>2 DEF WorkersTyped
  <2>2. worker[w].left = 0 /\ worker'[w].left = n /\ \A v \in Workers \ {w} : worker'[v] = worker[v]
    BY <1>1, <1>2 DEF WorkersTyped
  <2> QED
    BY <1>2, <2>1, <2>2 DEF WorkersTyped, Workers
<1>6. LoadBounded'
  <2>1. Load' <= Load + n /\ Load \in Nat /\ Load' \in Nat
    <3>1. PICK t, i, b, a, m \in Nat : Parts(t, i, b, a, m) /\ Load = t + i + b + a + m
      BY LoadParts
    <3>2. PICK t1, i1, b1, a1, m1 \in Nat :
            Parts(t1, i1, b1, a1, m1)' /\ Load' = t1 + i1 + b1 + a1 + m1
      BY <1>4, LoadPartsNext
    <3>3. t1 <= t + n /\ i1 = i /\ b1 = b /\ a1 = a /\ m1 = m
      BY <1>1, <1>4, <3>1, <3>2 DEF Parts, Busy
    <3> QED
      BY <1>2, <3>1, <3>2, <3>3
  <2>2. Awaited' = Awaited + n /\ Awaited \in Nat
    <3>1. worker[0].left + worker[1].left \in Nat
      BY DEF WorkersTyped, Workers
    <3> QED
      BY <1>1, <1>2, <1>5, <3>1 DEF Awaited
  <2> QED
    BY <1>2, <2>1, <2>2 DEF LoadBounded
<1>7. AppTyped' /\ OnlyOwn' /\ TookOwn'
  BY <1>1 DEF AppTyped, OnlyOwn, TookOwn, Path
<1> QED
  BY <1>4, <1>5, <1>6, <1>7

\* A message is taken, and its worker waits for one less.
LEMMA ReadReceivesKeeps ==
    ASSUME Shape, Facts, NEW w \in Workers, ReadReceives(w)
    PROVE  Facts'
<1> USE DEF Facts
<1>1. /\ app.pc = "workers" /\ worker[w].pc = "read"
      /\ UNCHANGED <<app, ring, interests, answers, producer, taken>>
  BY DEF ReadReceives, netVars, histVars
<1>2. PICK m \in messages :
        /\ messages' = messages \ {m}
        /\ worker' = [worker EXCEPT ![w] =
                IF m.err \/ @.left = 1 THEN [pc |-> "loop", off |-> @.off + 2 * BufferSz, left |-> 0]
                ELSE [pc |-> "read", off |-> @.off, left |-> @.left - 1]]
  BY DEF ReadReceives
<1>3. QueuesTyped' /\ Cardinality(messages') = Cardinality(messages) - 1 /\ ~m.err
  BY <1>1, <1>2, CardRemove DEF QueuesTyped
<1>4. Load' = Load - 1 /\ Load \in Nat /\ Load' \in Nat
  <2>1. PICK t, i, b, a, k \in Nat : Parts(t, i, b, a, k) /\ Load = t + i + b + a + k
    BY LoadParts
  <2>2. PICK t1, i1, b1, a1, k1 \in Nat :
          Parts(t1, i1, b1, a1, k1)' /\ Load' = t1 + i1 + b1 + a1 + k1
    BY <1>3, LoadPartsNext
  <2>3. t1 = t /\ i1 = i /\ b1 = b /\ a1 = a /\ k1 = k - 1
    BY <1>1, <1>3, <2>1, <2>2 DEF Parts, Busy
  <2> QED
    BY <2>1, <2>2, <2>3
<1>5. WorkersTyped' /\ worker'[w].left = worker[w].left - 1
      /\ \A v \in Workers \ {w} : worker'[v] = worker[v]
  <2>1. worker[w].left \in Nat \ {0} /\ worker[w].off + 2 * BufferSz \in Nat
    BY <1>1, DpdkAssumption DEF WorkersTyped
  <2>2. CASE worker[w].left = 1
    <3>1. worker' = [worker EXCEPT ![w] =
                        [pc |-> "loop", off |-> worker[w].off + 2 * BufferSz, left |-> 0]]
      BY <1>2, <2>2
    <3> QED
      BY <2>1, <2>2, <3>1 DEF WorkersTyped
  <2>3. CASE worker[w].left # 1
    <3>1. worker' = [worker EXCEPT ![w] =
                        [pc |-> "read", off |-> worker[w].off, left |-> worker[w].left - 1]]
      BY <1>2, <1>3, <2>3
    <3> QED
      BY <2>1, <2>3, <3>1 DEF WorkersTyped
  <2> QED
    BY <2>2, <2>3
<1>6. Awaited' = Awaited - 1 /\ Awaited \in Nat
  <2>1. worker[0].left \in Nat /\ worker[1].left \in Nat
    BY DEF WorkersTyped, Workers
  <2>2. worker'[0].left + worker'[1].left = worker[0].left + worker[1].left - 1
    BY <1>5, <2>1 DEF Workers
  <2> QED
    BY <1>1, <2>1, <2>2 DEF Awaited
<1>7. AppTyped' /\ LoadBounded' /\ OnlyOwn' /\ TookOwn'
  BY <1>1, <1>4, <1>6 DEF AppTyped, LoadBounded, OnlyOwn, TookOwn, Path
<1> QED
  BY <1>3, <1>5, <1>7

\* A worker ends when it waits for nothing.
LEMMA WorkerEndsKeeps ==
    ASSUME Shape, Facts, NEW w \in Workers, WorkerEnds(w)
    PROVE  Facts'
<1> USE DEF Facts
<1>1. /\ app.pc = "workers" /\ worker[w].pc = "loop"
      /\ SameLoad /\ UNCHANGED <<app, taken>>
      /\ worker' = [worker EXCEPT ![w].pc = "done"]
  BY DEF WorkerEnds, netVars, histVars, SameLoad
<1>2. WorkersTyped' /\ \A v \in Workers : worker'[v].left = worker[v].left
  BY <1>1 DEF WorkersTyped
<1>3. QueuesTyped' /\ LoadBounded'
  BY <1>1, <1>2, SameLoadKeeps DEF LoadBounded, Awaited, Workers
<1> QED
  BY <1>1, <1>2, <1>3 DEF AppTyped, OnlyOwn, TookOwn, Path

-----------------------------------------------------------------------------
(* The steps of the threads, the network and the producer.                 *)

\* The callers stay where they are and nothing is added to the load.
LEMMA ElsewhereKeeps ==
    ASSUME Facts, UNCHANGED <<app, worker, taken>>, QueuesTyped', Load' <= Load, OnlyOwn'
    PROVE  Facts'
<1>1. Load \in Nat /\ Awaited' = Awaited
  BY LoadTyped DEF Facts, Awaited
<1>2. Load' \in Nat
  BY LoadPartsNext
<1>3. Awaited \in Nat
  BY DEF Awaited, Facts, WorkersTyped, Workers
<1>4. LoadBounded'
  BY <1>1, <1>2, <1>3 DEF LoadBounded, Facts
<1> QED
  BY <1>4 DEF Facts, AppTyped, WorkersTyped, TookOwn, Path

\* A request for FILEINFO becomes one Interest.
LEMMA ExpressFileInfoInterestKeeps ==
    ASSUME Facts, ExpressFileInfoInterest, ~errors'
    PROVE  Facts'
<1> USE DEF Facts
<1> DEFINE int == [pt |-> "fileinfo", path |-> Head(ring).path, off |-> 0]
<1>1. /\ ring # <<>> /\ Head(ring).pt = "fileinfo"
      /\ UNCHANGED <<app, worker, taken, answers, producer>>
      /\ ring' = Tail(ring)
  BY DEF ExpressFileInfoInterest, goVars
<1>2. interests' = interests \cup {int} /\ UNCHANGED messages
  BY DEF ExpressFileInfoInterest, onError
<1>3. Head(ring).n \in Nat \ {0} /\ Head(ring) = ring[1] /\ Len(ring) \in Nat /\ Len(ring) >= 1
  <2>1. Head(ring) = ring[1] /\ Len(ring) \in Nat /\ Len(ring) >= 1 /\ ring[1] \in Request
    BY <1>1 DEF QueuesTyped
  <2> QED
    BY <2>1 DEF Request
<1>4. ring' \in Seq(Request) /\ Finite(Tokens(ring'))
      /\ Cardinality(Tokens(ring')) <= Cardinality(Tokens(ring)) - Head(ring).n
  BY <1>1, TokensTail DEF QueuesTyped
<1>5. Finite(interests') /\ Cardinality(interests') <= Cardinality(interests) + 1
  BY <1>2, CardAdd DEF QueuesTyped
<1>6. QueuesTyped'
  BY <1>1, <1>2, <1>4, <1>5 DEF QueuesTyped
<1>7. Load' <= Load
  <2>1. PICK t, i, b, a, m \in Nat : Parts(t, i, b, a, m) /\ Load = t + i + b + a + m
    BY LoadParts
  <2>2. PICK t1, i1, b1, a1, m1 \in Nat :
          Parts(t1, i1, b1, a1, m1)' /\ Load' = t1 + i1 + b1 + a1 + m1
    BY <1>6, LoadPartsNext
  <2>3. t1 <= t - Head(ring).n /\ i1 <= i + 1 /\ b1 = b /\ a1 = a /\ m1 = m
    BY <1>1, <1>2, <1>4, <1>5, <2>1, <2>2 DEF Parts, Busy
  <2> QED
    BY <1>3, <2>1, <2>2, <2>3
<1>8. OnlyOwn'
  <2>1. app.pc = "fileinfo" => Own(int)
    BY <1>3 DEF OnlyOwn, Own
  <2>2. \A i \in 1..Len(ring') : \E j \in 1..Len(ring) : ring'[i] = ring[j]
    BY <1>1, <1>3
  <2> HIDE DEF int
  <2> QED
    BY <1>1, <1>2, <2>1, <2>2 DEF OnlyOwn, Own, Path
<1> QED
  BY <1>1, <1>6, <1>7, <1>8, ElsewhereKeeps

\* A burst turns as many tokens of the ring into Interests.
LEMMA ExpressReadInterestsKeeps ==
    ASSUME Facts, ExpressReadInterests, ~errors'
    PROVE  Facts'
<1> USE DEF Facts
<1> DEFINE req == Head(ring)
           nTx == IF req.n > MaxBurst THEN MaxBurst ELSE req.n
           put == [req EXCEPT !.n = @ - nTx, !.off = @ + nTx]
           int == [i \in 0..nTx-1 |-> [pt |-> "read", path |-> req.path, off |-> req.off + i]]
           burst == {[pt |-> "read", path |-> req.path, off |-> req.off + i] : i \in 0..nTx - 1}
<1>1. /\ ring # <<>> /\ req.pt = "read"
      /\ UNCHANGED <<app, worker, taken, answers, producer>>
  BY DEF ExpressReadInterests, goVars
<1>2. /\ interests' = interests \cup burst /\ UNCHANGED messages
      /\ ring' = IF req.n > nTx THEN Append(Tail(ring), put) ELSE Tail(ring)
  BY DEF ExpressReadInterests, onError
<1>3. /\ req \in Request /\ req.n \in Nat \ {0} /\ nTx \in Nat /\ nTx <= req.n
      /\ req = ring[1] /\ Len(ring) \in Nat /\ Len(ring) >= 1
  <2>1. req = ring[1] /\ Len(ring) \in Nat /\ Len(ring) >= 1 /\ ring[1] \in Request
    BY <1>1 DEF QueuesTyped
  <2>2. req.n \in Nat \ {0}
    BY <2>1 DEF Request
  <2> QED
    BY <2>1, <2>2, DpdkAssumption
<1>4. Finite(interests') /\ Cardinality(interests') <= Cardinality(interests) + nTx
  <2>1. DOMAIN int = 0..nTx-1 /\ burst = {int[i] : i \in 0..nTx-1}
    OBVIOUS
  <2> HIDE DEF int, nTx, burst
  <2> QED
    BY <1>2, <1>3, <2>1, CardUnion DEF QueuesTyped
<1>5. /\ Tail(ring) \in Seq(Request) /\ Finite(Tokens(Tail(ring)))
      /\ Cardinality(Tokens(Tail(ring))) <= Cardinality(Tokens(ring)) - req.n
  BY <1>1, TokensTail DEF QueuesTyped
<1>6. /\ ring' \in Seq(Request) /\ Finite(Tokens(ring'))
      /\ Cardinality(Tokens(ring')) <= Cardinality(Tokens(ring)) - nTx
  <2>1. CASE req.n > nTx
    <3>1. put \in Request /\ put.n = req.n - nTx
      <4> HIDE DEF req, nTx
      <4>1. req.off \in Nat /\ req.pt \in {"fileinfo", "read"} /\ req.path \in Paths
        BY <1>3 DEF Request
      <4>2. req.n - nTx \in Nat \ {0} /\ req.off + nTx \in Nat
        BY <1>3, <2>1, <4>1
      <4>3. put.n = req.n - nTx
        BY <1>3 DEF Request
      <4>4. put \in Request
        BY <1>3, <4>2 DEF Request
      <4> QED
        BY <4>3, <4>4
    <3>2. ring' = Append(Tail(ring), put)
      BY <1>2, <2>1
    <3> HIDE DEF put, nTx, req
    <3>3. Finite(Tokens(Append(Tail(ring), put)))
          /\ Cardinality(Tokens(Append(Tail(ring), put))) <= Cardinality(Tokens(Tail(ring))) + put.n
      BY <1>5, <3>1, TokensAppend
    <3>4. Append(Tail(ring), put) \in Seq(Request)
      BY <1>5, <3>1
    <3>5. Finite(Tokens(ring')) /\ ring' \in Seq(Request)
          /\ Cardinality(Tokens(ring')) <= Cardinality(Tokens(Tail(ring))) + put.n
      BY <3>2, <3>3, <3>4
    <3> QED
      <4>1. /\ Cardinality(Tokens(ring)) \in Nat /\ Cardinality(Tokens(Tail(ring))) \in Nat
            /\ Cardinality(Tokens(ring')) \in Nat /\ req.n \in Nat /\ nTx \in Nat
        BY <1>3, <1>5, <3>5 DEF QueuesTyped, Finite
      <4>2. /\ Cardinality(Tokens(Tail(ring))) <= Cardinality(Tokens(ring)) - req.n
            /\ Cardinality(Tokens(ring')) <= Cardinality(Tokens(Tail(ring))) + (req.n - nTx)
        BY <1>5, <3>1, <3>5
      <4>3. Cardinality(Tokens(ring')) <= Cardinality(Tokens(ring)) - nTx
        BY ONLY <4>1, <4>2
      <4> QED
        BY <3>5, <4>3
  <2>2. CASE ~(req.n > nTx)
    <3>1. ring' = Tail(ring) /\ nTx = req.n
      BY <1>2, <1>3, <2>2
    <3> HIDE DEF nTx
    <3> QED
      BY <1>5, <3>1
  <2> QED
    BY <2>1, <2>2
<1> HIDE DEF nTx, put, int, burst
<1>7. QueuesTyped'
  BY <1>1, <1>2, <1>4, <1>6 DEF QueuesTyped
<1>8. Load' <= Load
  <2>1. PICK t, i, b, a, m \in Nat : Parts(t, i, b, a, m) /\ Load = t + i + b + a + m
    BY LoadParts
  <2>2. PICK t1, i1, b1, a1, m1 \in Nat :
          Parts(t1, i1, b1, a1, m1)' /\ Load' = t1 + i1 + b1 + a1 + m1
    BY <1>7, LoadPartsNext
  <2>3. t1 <= t - nTx /\ i1 <= i + nTx /\ b1 = b /\ a1 = a /\ m1 = m
    BY <1>1, <1>2, <1>4, <1>6, <2>1, <2>2 DEF Parts, Busy
  <2> QED
    BY <1>3, <2>1, <2>2, <2>3
<1>9. OnlyOwn'
  BY <1>1, <1>3 DEF OnlyOwn, Own
<1> QED
  BY <1>1, <1>7, <1>8, <1>9, ElsewhereKeeps

\* An answer becomes a message without an error.
LEMMA AnswerToMessage ==
    ASSUME Facts, UNCHANGED <<app, worker, taken, ring, interests, producer>>,
           NEW a \in answers, answers' = answers \ {a},
           messages' = messages \cup {Message(FALSE, a)}
    PROVE  Facts'
<1> USE DEF Facts
<1>1. Finite(answers') /\ Cardinality(answers') = Cardinality(answers) - 1
  BY CardRemove DEF QueuesTyped
<1>2. Finite(messages') /\ Cardinality(messages') <= Cardinality(messages) + 1
  BY CardAdd DEF QueuesTyped
<1>3. QueuesTyped'
  BY <1>1, <1>2 DEF QueuesTyped, Message
<1>4. Load' <= Load
  <2>1. PICK t, i, b, k, m \in Nat : Parts(t, i, b, k, m) /\ Load = t + i + b + k + m
    BY LoadParts
  <2>2. PICK t1, i1, b1, k1, m1 \in Nat :
          Parts(t1, i1, b1, k1, m1)' /\ Load' = t1 + i1 + b1 + k1 + m1
    BY <1>3, LoadPartsNext
  <2>3. t1 = t /\ i1 = i /\ b1 = b /\ k1 = k - 1 /\ m1 <= m + 1
    BY <1>1, <1>2, <2>1, <2>2 DEF Parts, Busy
  <2> QED
    BY <2>1, <2>2, <2>3
<1>5. OnlyOwn'
  BY DEF OnlyOwn, Own, Path, Message
<1> QED
  BY <1>3, <1>4, <1>5, ElsewhereKeeps

\* Packets are only lost, and the producer may give up its Interest.
LEMMA LossKeeps ==
    ASSUME Facts, UNCHANGED <<app, worker, taken, ring, messages>>,
           interests' \subseteq interests, answers' \subseteq answers,
           producer'.pc \in Asking => producer.pc \in Asking /\ producer'.int = producer.int
    PROVE  Facts'
<1> USE DEF Facts
<1>1. /\ Finite(interests') /\ Cardinality(interests') <= Cardinality(interests)
      /\ Finite(answers') /\ Cardinality(answers') <= Cardinality(answers)
  BY FS_Subset, FS_CardinalityType DEF QueuesTyped, Finite
<1>2. QueuesTyped'
  BY <1>1 DEF QueuesTyped
<1>3. Load' <= Load
  <2>1. PICK t, i, b, k, m \in Nat : Parts(t, i, b, k, m) /\ Load = t + i + b + k + m
    BY LoadParts
  <2>2. PICK t1, i1, b1, k1, m1 \in Nat :
          Parts(t1, i1, b1, k1, m1)' /\ Load' = t1 + i1 + b1 + k1 + m1
    BY <1>2, LoadPartsNext
  <2>3. t1 = t /\ i1 <= i /\ b1 <= b /\ k1 <= k /\ m1 = m
    BY <1>1, <2>1, <2>2 DEF Parts, Busy
  <2> QED
    BY <2>1, <2>2, <2>3
<1>4. OnlyOwn'
  BY DEF OnlyOwn, Own, Path
<1> QED
  BY <1>2, <1>3, <1>4, ElsewhereKeeps

\* An answer for an Interest that is taken from the network.
LEMMA NetworkNackKeeps ==
    ASSUME Facts, NetworkNack
    PROVE  Facts'
<1> USE DEF Facts
<1>1. UNCHANGED <<app, worker, taken, ring, messages, producer>>
  BY DEF NetworkNack, goVars, histVars
<1>2. PICK e \in interests :
        interests' = interests \ {e} /\ answers' = answers \cup {Answer("nack", e)}
  BY DEF NetworkNack
<1>3. /\ Finite(interests') /\ Cardinality(interests') = Cardinality(interests) - 1
      /\ Finite(answers') /\ Cardinality(answers') <= Cardinality(answers) + 1
  BY <1>2, CardRemove, CardAdd DEF QueuesTyped
<1>4. QueuesTyped'
  BY <1>1, <1>3 DEF QueuesTyped
<1>5. Load' <= Load
  <2>1. PICK t, i, b, k, m \in Nat : Parts(t, i, b, k, m) /\ Load = t + i + b + k + m
    BY LoadParts
  <2>2. PICK t1, i1, b1, k1, m1 \in Nat :
          Parts(t1, i1, b1, k1, m1)' /\ Load' = t1 + i1 + b1 + k1 + m1
    BY <1>4, LoadPartsNext
  <2>3. t1 = t /\ i1 = i - 1 /\ b1 = b /\ k1 <= k + 1 /\ m1 = m
    BY <1>1, <1>3, <2>1, <2>2 DEF Parts, Busy
  <2> QED
    BY <2>1, <2>2, <2>3
<1>6. OnlyOwn'
  BY <1>1, <1>2 DEF OnlyOwn, Own, Path, Answer
<1> QED
  BY <1>1, <1>4, <1>5, <1>6, ElsewhereKeeps

\* The producer takes an Interest from the network.
LEMMA ProcessInterestKeeps ==
    ASSUME Facts, processInterest
    PROVE  Facts'
<1> USE DEF Facts
<1>1. UNCHANGED <<app, worker, taken, ring, messages, answers>> /\ producer.pc = "idle"
  BY DEF processInterest, goVars, histVars
<1>2. PICK e \in interests : interests' = interests \ {e} /\ producer'.int = e
  BY DEF processInterest
<1>3. Finite(interests') /\ Cardinality(interests') = Cardinality(interests) - 1
  BY <1>2, CardRemove DEF QueuesTyped
<1>4. QueuesTyped'
  BY <1>1, <1>3 DEF QueuesTyped
<1>5. Load' <= Load
  <2>1. PICK t, i, b, k, m \in Nat : Parts(t, i, b, k, m) /\ Load = t + i + b + k + m
    BY LoadParts
  <2>2. PICK t1, i1, b1, k1, m1 \in Nat :
          Parts(t1, i1, b1, k1, m1)' /\ Load' = t1 + i1 + b1 + k1 + m1
    BY <1>4, LoadPartsNext
  <2>3. t1 = t /\ i1 = i - 1 /\ b1 <= b + 1 /\ k1 = k /\ m1 = m
    BY <1>1, <1>3, <2>1, <2>2 DEF Parts, Busy, Asking
  <2> QED
    BY <2>1, <2>2, <2>3
<1>6. OnlyOwn'
  BY <1>1, <1>2 DEF OnlyOwn, Own, Path
<1> QED
  BY <1>1, <1>4, <1>5, <1>6, ElsewhereKeeps

\* The producer answers its Interest, or has no buffer for the answer.
LEMMA EncodeDataKeeps ==
    ASSUME Shape, Facts, NEW type, EncodeData(type), producer.pc \in Asking
    PROVE  Facts'
<1> USE DEF Facts
<1>1. /\ UNCHANGED <<app, worker, taken, ring, messages, interests>>
      /\ producer'.pc \notin Asking
  BY DEF EncodeData, goVars, histVars, Shape, Asking
<1>2. CASE UNCHANGED answers
  BY <1>1, <1>2, LossKeeps
<1>3. CASE answers' = answers \cup {Answer(type, producer.int)}
  <2>1. Finite(answers') /\ Cardinality(answers') <= Cardinality(answers) + 1
    BY <1>3, CardAdd DEF QueuesTyped
  <2>2. QueuesTyped'
    BY <1>1, <2>1 DEF QueuesTyped
  <2>3. Load' <= Load
    <3>1. PICK t, i, b, k, m \in Nat : Parts(t, i, b, k, m) /\ Load = t + i + b + k + m
      BY LoadParts
    <3>2. PICK t1, i1, b1, k1, m1 \in Nat :
            Parts(t1, i1, b1, k1, m1)' /\ Load' = t1 + i1 + b1 + k1 + m1
      BY <2>2, LoadPartsNext
    <3>3. t1 = t /\ i1 = i /\ b1 = b - 1 /\ k1 <= k + 1 /\ m1 = m
      BY <1>1, <2>1, <3>1, <3>2 DEF Parts, Busy
    <3> QED
      BY <3>1, <3>2, <3>3
  <2>4. OnlyOwn'
    BY <1>1, <1>3 DEF OnlyOwn, Own, Path, Answer
  <2> QED
    BY <1>1, <2>2, <2>3, <2>4, ElsewhereKeeps
<1> QED
  BY <1>2, <1>3 DEF EncodeData

\* A step of the producer that sends nothing and stays with its Interest.
LEMMA ProducerStepKeeps ==
    ASSUME Facts, Steps \/ UNCHANGED Elsewhere,
           producer'.pc \in Asking => producer.pc \in Asking /\ producer'.int = producer.int
    PROVE  Facts'
<1>1. UNCHANGED <<app, worker, taken, ring, messages, interests, answers>>
  BY DEF Steps, Elsewhere, goVars, netVars, histVars
<1> QED
  BY <1>1, LossKeeps

\* The steps of the producer thread.
LEMMA ProducerRunKeeps ==
    ASSUME Shape, Facts, Producer_Run
    PROVE  Facts'
<1>1. CASE processInterest
  BY <1>1, ProcessInterestKeeps
<1>2. CASE open
  <2>1. producer.pc \in Asking
    BY <1>2 DEF open, Asking
  <2>2. ASSUME EncodeData("appnack") PROVE Facts'
    BY <2>1, <2>2, EncodeDataKeeps
  <2>3. ASSUME NEW fd, Steps, producer' = [producer EXCEPT !.pc = "store", !.fd = fd]
        PROVE  Facts'
    BY <2>1, <2>3, ProducerStepKeeps DEF Shape
  <2>4. ASSUME Steps, producer' = [producer EXCEPT !.pc = "opened"]
        PROVE  Facts'
    BY <2>1, <2>4, ProducerStepKeeps DEF Shape
  <2> QED
    BY <1>2, <2>2, <2>3, <2>4 DEF open
<1>3. CASE storeFileHandler
  <2>1. producer.pc \in Asking /\ Steps /\ producer'.int = producer.int
    BY <1>3 DEF storeFileHandler, Asking, Shape
  <2> QED
    BY <2>1, ProducerStepKeeps
<1>4. CASE fstat
  <2>1. producer.pc \in Asking
    BY <1>4 DEF fstat, Asking
  <2> QED
    BY <1>4, <2>1, EncodeDataKeeps DEF fstat
<1>5. CASE getFileHandler
  <2>1. producer.pc \in Asking /\ Steps /\ producer'.int = producer.int
    BY <1>5 DEF getFileHandler, Asking, Shape
  <2> QED
    BY <2>1, ProducerStepKeeps
<1>6. CASE getFileHandlerAgain
  <2>1. producer.pc \in Asking /\ Steps /\ producer'.int = producer.int
    BY <1>6 DEF getFileHandlerAgain, Asking, Shape
  <2> QED
    BY <2>1, ProducerStepKeeps
<1>7. CASE pread
  <2>1. producer.pc \in Asking
    BY <1>7 DEF pread, Asking
  <2> QED
    BY <1>7, <2>1, EncodeDataKeeps DEF pread
<1> QED
  BY <1>1, <1>2, <1>3, <1>4, <1>5, <1>6, <1>7 DEF Producer_Run

\* The garbage collector and the end of the producer.
LEMMA ProducerEndKeeps ==
    ASSUME Shape, Facts, onGarbageCollector \/ ProducerCloses \/ ProducerExits
    PROVE  Facts'
<1>1. CASE onGarbageCollector
  <2>1. Steps /\ (producer' = producer \/ producer' = [producer EXCEPT !.pc = "crashed"])
    BY <1>1 DEF onGarbageCollector
  <2> QED
    BY <2>1, ProducerStepKeeps DEF Shape, Asking
<1>2. CASE ProducerCloses
  <2>1. UNCHANGED Elsewhere /\ producer' = [producer EXCEPT !.pc = "destroy"]
    BY <1>2 DEF ProducerCloses
  <2> QED
    BY <2>1, ProducerStepKeeps DEF Shape, Asking
<1>3. CASE ProducerExits
  <2>1. Steps /\ producer' = [producer EXCEPT !.pc = "exited"]
    BY <1>3 DEF ProducerExits
  <2> QED
    BY <2>1, ProducerStepKeeps DEF Shape, Asking
<1> QED
  BY <1>1, <1>2, <1>3

\* The steps of the RX thread.
LEMMA RxKeeps ==
    ASSUME Shape, Facts, ConsumerRx_Run, Quiet'
    PROVE  Facts'
<1>1. CASE processData
  <2>1. UNCHANGED <<app, worker, taken, ring, interests, producer>>
    BY <1>1 DEF processData, goVars, histVars
  <2>2. PICK a \in answers : answers' = answers \ {a} /\ messages' = messages \cup {Message(FALSE, a)}
    BY <1>1 DEF processData
  <2> QED
    BY <2>1, <2>2, AnswerToMessage
<1>2. CASE processEmptyData
  <2>1. app' # [app EXCEPT !.pc = "aborted"]
    BY DEF Shape, Quiet, Phases
  <2>2. UNCHANGED <<worker, taken, ring, interests, producer>>
    BY <1>2 DEF processEmptyData, histVars
  <2>3. PICK a \in answers : /\ answers' = answers \ {a}
                             /\ messages' = messages \cup {Message(FALSE, a)} /\ UNCHANGED app
    BY <1>2, <2>1 DEF processEmptyData
  <2> QED
    BY <2>2, <2>3, AnswerToMessage
<1>3. CASE processNackPacket
  BY <1>3 DEF processNackPacket, onError, Quiet
<1> QED
  BY <1>1, <1>2, <1>3 DEF ConsumerRx_Run

\* No queue and no counter changes.
LEMMA IdleKeeps ==
    ASSUME Facts, SameLoad, UNCHANGED <<app, worker, taken>>
    PROVE  Facts'
BY LossKeeps DEF SameLoad

\* Every step that leaves no error keeps the facts.
LEMMA FactsStep ==
    ASSUME Shape, Facts, Next, Quiet'
    PROVE  Facts'
<1>1. CASE Main
  <2>1. ~MainCloses
    BY DEF MainCloses, Facts, AppTyped, Phases
  <2> QED
    BY <1>1, <2>1, FileInfoKeeps, FileInfoReturnsKeeps, TransferFileEndsKeeps DEF Main
<1>2. ASSUME NEW w \in Workers, Worker(w)
      PROVE  Facts'
  BY <1>2, ReadKeeps, ReadReceivesKeeps, WorkerEndsKeeps DEF Worker
<1>3. CASE Signal
  <2>1. SameLoad /\ UNCHANGED <<app, worker, taken>>
    BY <1>3 DEF Signal, SameLoad, netVars, histVars
  <2> QED
    BY <2>1, IdleKeeps
<1>4. CASE SignalCloses
  <2>1. app' # [app EXCEPT !.pc = "exited"]
    BY DEF Shape, Quiet, Phases
  <2>2. SameLoad /\ UNCHANGED <<app, worker, taken>>
    BY <1>4, <2>1 DEF SignalCloses, SameLoad, netVars, histVars
  <2> QED
    BY <2>2, IdleKeeps
<1>5. CASE ConsumerTx_Run
  BY <1>5, ExpressFileInfoInterestKeeps, ExpressReadInterestsKeeps DEF ConsumerTx_Run, Quiet
<1>6. CASE RequestReused
  <2>1. SameLoad /\ UNCHANGED <<app, worker, taken>>
    BY <1>6 DEF RequestReused, SameLoad, goVars, netVars, histVars
  <2> QED
    BY <2>1, IdleKeeps
<1>7. CASE ConsumerRx_Run
  BY <1>7, RxKeeps
<1>8. CASE NetworkNack
  BY <1>8, NetworkNackKeeps
<1>9. CASE Drop
  <2>1. /\ UNCHANGED <<app, worker, taken, ring, messages, producer>>
        /\ interests' \subseteq interests /\ answers' \subseteq answers
    BY <1>9 DEF Drop, goVars
  <2> QED
    BY <2>1, LossKeeps
<1>10. CASE Producer_Run
  BY <1>10, ProducerRunKeeps
<1>11. CASE onGarbageCollector \/ ProducerCloses \/ ProducerExits
  BY <1>11, ProducerEndKeeps
<1> QED
  BY <1>1, <1>2, <1>3, <1>4, <1>5, <1>6, <1>7, <1>8, <1>9, <1>10, <1>11 DEF Next

\* The facts hold when the threads are launched.
LEMMA DpdkInit ==
    ASSUME Init
    PROVE  DpdkInv
<1>1. Shape
  BY DEF Init, Shape
<1>2. AppTyped /\ WorkersTyped
  BY FilesTyped DEF Init, AppTyped, Phases, WorkersTyped, Workers
<1>3. Tokens(ring) = {} /\ interests = {} /\ answers = {} /\ messages = {} /\ ring \in Seq(Request)
  BY DEF Init, Tokens
<1>4. Finite({}) /\ Cardinality({}) = 0
  BY FS_EmptySet DEF Finite
<1>5. Busy = 0 /\ Awaited = 0
  BY DEF Init, Busy, Asking, Awaited
<1>6. QueuesTyped
  <2>1. Finite(Tokens(ring)) /\ Finite(interests) /\ Finite(answers) /\ Finite(messages)
    BY <1>3, <1>4, Zenon
  <2> QED
    BY <1>3, <2>1 DEF QueuesTyped
<1>7. LoadBounded
  <2>1. /\ Cardinality(Tokens(ring)) = 0 /\ Cardinality(interests) = 0
        /\ Cardinality(answers) = 0 /\ Cardinality(messages) = 0
    BY <1>3, <1>4, Zenon
  <2> QED
    BY <1>5, <2>1 DEF LoadBounded, Load
<1> QED
  BY <1>1, <1>2, <1>6, <1>7 DEF Init, DpdkInv, Facts, OnlyOwn, TookOwn

\* As long as no error has been sent, there are never more requests, Interests
\* and answers about than messages the callers of the consumer wait for.
THEOREM DpdkInvariant == Spec => []DpdkInv
<1>1. Init => DpdkInv
  BY DpdkInit
<1>2. DpdkInv /\ [Next]_vars => DpdkInv'
  <2>1. SUFFICES ASSUME DpdkInv, [Next]_vars PROVE DpdkInv'
    OBVIOUS
  <2>2. Shape' /\ (Quiet' => Quiet)
    BY <2>1, ShapeStep DEF DpdkInv
  <2>3. ASSUME Quiet', Next PROVE Facts'
    BY <2>1, <2>2, <2>3, FactsStep DEF DpdkInv
  <2>4. ASSUME Quiet', UNCHANGED vars PROVE Facts'
    BY <2>1, <2>2, <2>4, IdleKeeps DEF DpdkInv, vars, SameLoad
  <2> QED
    BY <2>1, <2>2, <2>3, <2>4 DEF DpdkInv
<1> QED
  BY <1>1, <1>2, PTL DEF Spec

\* FileInfo never takes the answer of a Read of the file before for its own,
\* as long as no error has been sent.
THEOREM DpdkFileInfoTakesOwn == Spec => []FileInfoTakesOwn
<1>1. DpdkInv => FileInfoTakesOwn
  BY DEF DpdkInv, Quiet, Phases, Facts, TookOwn, FileInfoTakesOwn
<1> QED
  BY <1>1, DpdkInvariant, PTL
=============================================================================
