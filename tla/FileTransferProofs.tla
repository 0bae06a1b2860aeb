------------------------- MODULE FileTransferProofs -------------------------
(***************************************************************************)
(* A download that finishes without an error is complete, and closing the  *)
(* files then finds nothing outstanding, for every tree, every list of     *)
(* paths and every number of streams and repetitions.                      *)
(*                                                                         *)
(* The receivers only count what they pop, so that an entry is complete is *)
(* no invariant of one thread: it follows when all have ended.  Until then *)
(*   - stream s works on the entries i with i % streams = s, in order;     *)
(*   - for every identifier, the segments not yet requested, the requests  *)
(*     and the queued responses together are no more than the segments its *)
(*     receivers wait for (Counted), so that nothing is left at the end;   *)
(*   - every segment of every entry is not yet requested, requested,       *)
(*     queued (or a null is, which will be an error) or received           *)
(*     (Covered), so that nothing is missing at the end.                   *)
(* All of it holds only while the client can continue: after an error, a   *)
(* stop or a close the threads skip what is left.                          *)
(***************************************************************************)
EXTENDS FileTransfer, FiniteSetTheorems, SequenceTheorems, WellFoundedInduction, TLAPS

-----------------------------------------------------------------------------
(* Arithmetic of the streams.                                              *)

\* A set of natural numbers has a least element.
LEMMA LeastNat ==
    ASSUME NEW T \in SUBSET Nat, T # {}
    PROVE  \E x \in T : \A y \in T : x <= y
<1> DEFINE Less == {xy \in Nat \X Nat : xy[1] < xy[2]}
<1>1. OpToRel(<, Nat) = Less
  BY Zenon DEF OpToRel
<1>2. IsWellFoundedOn(Less, Nat)
  BY <1>1, NatLessThanWellFounded
<1> HIDE DEF Less
<1>3. PICK x \in T : \A y \in T : ~(<<y, x>> \in Less)
  BY <1>2, WFMin
<1>4. ASSUME NEW y \in T PROVE x <= y
  <2>1. x \in Nat /\ y \in Nat /\ ~(<<y, x>> \in Less)
    BY <1>3
  <2> QED
    BY <2>1 DEF Less
<1> QED
  BY <1>4

\* More than one multiple of S apart.
LEMMA Multiples ==
    ASSUME NEW S \in Nat \ {0}, NEW k \in Nat, NEW l \in Nat, k < l
    PROVE  S * l >= S * k + S /\ S * l \in Nat /\ S * k \in Nat
OBVIOUS

\* Entries of one stream are S apart.
LEMMA LaneApart ==
    ASSUME NEW S \in Nat \ {0}, NEW i \in Nat, NEW j \in Nat, i < j, i % S = j % S
    PROVE  i + S <= j
<1>1. /\ i = S * (i \div S) + (i % S) /\ j = S * (j \div S) + (j % S)
      /\ i \div S \in Nat /\ j \div S \in Nat /\ i % S \in Nat
  OBVIOUS
<1> DEFINE k == i \div S
           l == j \div S
           r == i % S
<1>2. k \in Nat /\ l \in Nat /\ r \in Nat /\ i = S * k + r /\ j = S * l + r
  BY <1>1
<1> HIDE DEF k, l, r
<1>3. S * k \in Nat /\ S * l \in Nat
  BY <1>2
<1>4. CASE k < l
  BY <1>2, <1>3, <1>4, Multiples
<1>5. CASE l < k
  BY <1>2, <1>3, <1>5, Multiples
<1>6. CASE k = l
  BY <1>2, <1>3, <1>6
<1> QED
  BY <1>2, <1>4, <1>5, <1>6

\* The next entry of a stream is of that stream.
LEMMA LaneNext ==
    ASSUME NEW S \in Nat \ {0}, NEW i \in Nat
    PROVE  (i + S) % S = i % S
<1>1. /\ i = S * (i \div S) + (i % S) /\ i + S = S * ((i + S) \div S) + ((i + S) % S)
      /\ i \div S \in Nat /\ (i + S) \div S \in Nat /\ i % S \in 0..S-1 /\ (i + S) % S \in 0..S-1
  OBVIOUS
<1> DEFINE k == (i \div S)
           l == (i + S) \div S
           r == i % S
           q == (i + S) % S
<1>2. /\ k \in Nat /\ l \in Nat /\ r \in 0..S-1 /\ q \in 0..S-1
      /\ i = S * k + r /\ i + S = S * l + q
  BY <1>1
<1> HIDE DEF k, l, r, q
<1>3. S * k \in Nat /\ S * l \in Nat /\ S * (k + 1) = S * k + S
  BY <1>2
<1>4. CASE k + 1 < l
  <2>1. S * l >= S * (k + 1) + S
    BY <1>2, <1>4, Multiples
  <2> QED
    BY <1>2, <1>3, <2>1
<1>5. CASE l < k + 1
  <2>1. S * (k + 1) >= S * l + S
    BY <1>2, <1>5, Multiples
  <2> QED
    BY <1>2, <1>3, <2>1
<1>6. CASE k + 1 = l
  <2>1. q = r
    BY <1>2, <1>3, <1>6
  <2> QED
    BY <2>1 DEF q, r
<1> QED
  BY <1>2, <1>4, <1>5, <1>6

-----------------------------------------------------------------------------
(* The invariant while main makes its list.                                *)

MD == {prepare(p) : p \in DOMAIN Tree}

Waits == {"fileWait", "dirWait", "segmentWait", "childWait"}
Early == Waits \cup {"options", "args", "listDir", "segment", "child", "listed", "exited"}

OpOf(wait) == CASE wait = "dirWait" -> "dir" [] wait = "segmentWait" -> "listing" [] OTHER -> "file"
Fits(wait, d) == wait # "segmentWait" /\ d.kind = "data" => d.md \in MD

\* main has asked for one thing, and either the request or its answer is there.
Asked ==
    \/ queue[0] = <<>> /\ \E r : pending = {r} /\ r.id = 0 /\ r.op = OpOf(pc)
    \/ pending = {} /\ \E d : queue[0] = <<d>> /\ Fits(pc, d)

Conversation ==
    /\ DOMAIN queue = {0} /\ ids = {0}
    /\ pc \in Waits => Asked
    /\ pc \notin Waits => pending = {} /\ queue[0] = <<>>

ListsTyped ==
    /\ metadata \in Seq(MD) /\ partial \in Seq(MD) /\ listing.all \in Seq(MD)
    /\ DOMAIN listing = {"path", "seg", "names", "all"}

\* What prepare computes is a number of segments.
LEMMA MDTyped ==
    ASSUME NEW md \in MD
    PROVE  md.finalBlockId \in Nat
<1>1. PICK p \in DOMAIN Tree : md = prepare(p)
  BY DEF MD
<1> DEFINE size == Tree[p].size
<1>2. size \in Nat /\ SegmentSize \in Nat \ {0}
  BY FileTransferAssumption
<1>3. md.finalBlockId = (size + SegmentSize - 1) \div SegmentSize
  BY <1>1 DEF prepare, Ceil
<1> HIDE DEF size
<1>4. size + SegmentSize - 1 \in Nat
  BY <1>2
<1> DEFINE a == size + SegmentSize - 1
<1> HIDE DEF a
<1>5. a \in Nat => a \div SegmentSize \in Nat
  BY <1>2
<1> QED
  BY <1>3, <1>4, <1>5 DEF a

\* What was found, sorted, is made of what was found.
LEMMA SortedTyped ==
    ASSUME NEW all \in Seq(MD), NEW found \in Sorted(all)
    PROVE  found \in Seq(MD)
<1>1. PICK f \in Bijection(DOMAIN all, DOMAIN all) : found = [k \in DOMAIN all |-> all[f[k]]]
  BY DEF Sorted
<1>2. f \in [DOMAIN all -> DOMAIN all]
  BY <1>1 DEF Bijection, Injection
<1> QED
  BY <1>1, <1>2

\* Nothing but main's own steps and the answers happens while it makes its list.
EarlyFacts == pc \in Early /\ ListsTyped /\ Conversation

\* main asks when nothing is outstanding.
LEMMA AskKeeps ==
    ASSUME Conversation, pc \notin Waits, ~isClosed, NEW op, NEW path, NEW seg, NEW wait \in Waits,
           op = OpOf(wait), Ask(op, path, seg, wait)
    PROVE  Conversation' /\ pc' \in Early
<1>1. pending = {} /\ queue[0] = <<>>
  BY DEF Conversation
<1>2. pending' = {[id |-> 0, op |-> op, path |-> path, seg |-> seg]} /\ queue' = queue
      /\ pc' = wait /\ ids' = ids
  BY <1>1 DEF Ask, openVars
<1>3. Asked'
  <2> DEFINE r == [id |-> 0, op |-> op, path |-> path, seg |-> seg]
  <2>1. pending' = {r} /\ r.id = 0 /\ r.op = OpOf(pc')
    BY <1>2
  <2> HIDE DEF r
  <2> QED
    BY <1>1, <1>2, <2>1 DEF Asked
<1> QED
  BY <1>2, <1>3 DEF Conversation, Early

\* main takes the answer, and nothing is outstanding.
LEMMA ResponseKeeps ==
    ASSUME Conversation, NEW wait \in Waits, Response(wait), pc' \notin Waits
    PROVE  Conversation' /\ Fits(pc, Head(queue[0])) /\ pc = wait
<1>1. pc = wait /\ queue[0] # <<>> /\ queue' = [queue EXCEPT ![0] = Tail(@)]
      /\ pending' = pending /\ ids' = ids
  BY DEF Response, openVars
<1>2. PICK d : pending = {} /\ queue[0] = <<d>> /\ Fits(pc, d)
  BY <1>1 DEF Conversation, Asked
<1>3. queue'[0] = <<>> /\ DOMAIN queue' = {0} /\ Head(queue[0]) = d
  BY <1>1, <1>2 DEF Conversation
<1> QED
  BY <1>1, <1>2, <1>3 DEF Conversation

\* The pipeline answers what main has asked.
LEMMA EarlyAnswer ==
    ASSUME EarlyFacts, Answer
    PROVE  EarlyFacts'
<1>1. PICK r \in pending :
        \/ \E data \in onInterest(r) : Put(r, data)
        \/ Put(r, [kind |-> "null"])
  BY DEF Answer
<1>2. pc \in Waits /\ queue[0] = <<>> /\ pending = {r} /\ r.id = 0 /\ r.op = OpOf(pc)
  BY DEF EarlyFacts, Conversation, Asked
<1>3. ASSUME NEW d, Put(r, d), Fits(pc, d)
      PROVE  EarlyFacts'
  <2>1. UNCHANGED <<pc, metadata, partial, listing, ids>> /\ pending' = {}
        /\ queue' = [queue EXCEPT ![0] = Append(@, d)]
    BY <1>2, <1>3 DEF Put, listVars, openVars
  <2>2. queue'[0] = <<d>> /\ DOMAIN queue' = {0}
    BY <1>2, <2>1 DEF EarlyFacts, Conversation
  <2>3. Asked'
    BY <1>3, <2>1, <2>2 DEF Asked, Fits
  <2> QED
    BY <1>2, <2>1, <2>2, <2>3 DEF EarlyFacts, Conversation, ListsTyped
<1>4. Fits(pc, [kind |-> "null"])
  BY DEF Fits
<1>5. ASSUME NEW d \in onInterest(r)
      PROVE  Fits(pc, d)
  <2>1. CASE pc = "segmentWait"
    BY <2>1 DEF Fits
  <2>2. CASE pc = "dirWait"
    <3>1. r.op = "dir"
      BY <1>2, <2>2 DEF OpOf
    <3>2. d \in ListingMetadata(r.path)
      BY <3>1 DEF onInterest
    <3>3. d.kind = "nack" \/ (r.path \in DOMAIN Tree /\ d = [kind |-> "data", md |-> prepare(r.path)])
      BY <3>2 DEF ListingMetadata
    <3> QED
      BY <3>3 DEF Fits, MD
  <2>3. CASE pc \notin {"segmentWait", "dirWait"}
    <3>1. r.op = "file"
      BY <1>2, <2>3 DEF OpOf, Waits
    <3>2. d = getFileMetadata(r.path)
      BY <3>1 DEF onInterest
    <3>3. d.kind = "nack" \/ (r.path \in DOMAIN Tree /\ d = [kind |-> "data", md |-> prepare(r.path)])
      BY <3>2 DEF getFileMetadata
    <3> QED
      BY <3>3 DEF Fits, MD
  <2> QED
    BY <2>1, <2>2, <2>3
<1> QED
  BY <1>1, <1>3, <1>4, <1>5

\* main's steps while it makes its list.
LEMMA EarlyStep ==
    ASSUME EarlyFacts, ~isClosed,
           \/ programOptions \/ listFile \/ listFileDone \/ listDir \/ listDirMetadata
           \/ listDirSegment \/ listDirContent \/ listDirChild \/ listDirChildDone
           \/ listDirRecursive \/ listDirEnds
    PROVE  EarlyFacts'
<1> USE DEF EarlyFacts
<1>1. CASE programOptions
  <2>1. pc = "options" /\ pc' \in {"exited", "args"}
        /\ UNCHANGED <<metadata, partial, listing, ids, pending, queue>>
    BY <1>1 DEF programOptions, openVars, pipelineVars
  <2> QED
    BY <2>1 DEF Early, Waits, Conversation, ListsTyped
<1>2. CASE listFile
  <2>1. pc = "args" /\ Ask("file", Head(args), 0, "fileWait") /\ UNCHANGED <<metadata, partial, listing>>
    BY <1>2 DEF listFile, listVars
  <2>2. "file" = OpOf("fileWait") /\ "fileWait" \in Waits /\ pc \notin Waits
    BY <2>1 DEF OpOf, Waits
  <2>3. Conversation' /\ pc' \in Early
    BY <2>1, <2>2, AskKeeps
  <2> QED
    BY <2>1, <2>3 DEF ListsTyped
<1>3. CASE listFileDone
  <2> DEFINE data == Head(queue[0])
  <2>1. Response("fileWait") /\ pc' \in {"listDir", "args"} /\ UNCHANGED <<partial, listing>>
        /\ (metadata' = metadata \/ (data.kind = "data" /\ metadata' = Append(metadata, data.md)))
    BY <1>3 DEF listFileDone
  <2>2. "fileWait" \in Waits /\ pc' \notin Waits /\ pc' \in Early
    BY <2>1 DEF Waits, Early
  <2>3. Conversation' /\ Fits("fileWait", data)
    BY <2>1, <2>2, ResponseKeeps
  <2>4. data.kind = "data" => data.md \in MD
    BY <2>3 DEF Fits
  <2>5. metadata' \in Seq(MD)
    <3>1. metadata \in Seq(MD)
      BY DEF ListsTyped
    <3>2. ASSUME NEW md \in MD PROVE Append(metadata, md) \in Seq(MD)
      BY <3>1
    <3> HIDE DEF data
    <3> QED
      BY ONLY <2>1, <2>4, <3>1, <3>2
  <2> QED
    BY <2>1, <2>2, <2>3, <2>5 DEF ListsTyped
<1>4. CASE listDir
  <2>1. pc = "listDir" /\ Ask("dir", Head(dirs), 0, "dirWait") /\ UNCHANGED <<metadata, partial>>
        /\ listing' = [NoListing EXCEPT !.path = Head(dirs)]
    BY <1>4 DEF listDir
  <2>2. "dir" = OpOf("dirWait") /\ "dirWait" \in Waits /\ pc \notin Waits
    BY <2>1 DEF OpOf, Waits
  <2>3. Conversation' /\ pc' \in Early
    BY <2>1, <2>2, AskKeeps
  <2>4. listing'.all = <<>> /\ DOMAIN listing' = {"path", "seg", "names", "all"}
    BY <2>1 DEF NoListing
  <2>5. <<>> \in Seq(MD)
    OBVIOUS
  <2>6. listing'.all \in Seq(MD)
    BY <2>4, <2>5
  <2> QED
    BY <2>1, <2>3, <2>4, <2>6 DEF ListsTyped
<1>5. CASE listDirMetadata
  <2>1. Response("dirWait") /\ pc' \in {"segment", "listed"} /\ UNCHANGED <<metadata, partial, listing>>
    BY <1>5 DEF listDirMetadata
  <2>2. "dirWait" \in Waits /\ pc' \notin Waits /\ pc' \in Early
    BY <2>1 DEF Waits, Early
  <2>3. Conversation'
    BY <2>1, <2>2, ResponseKeeps
  <2> QED
    BY <2>1, <2>2, <2>3 DEF ListsTyped
<1>6. CASE listDirSegment
  <2>1. pc = "segment" /\ Ask("listing", listing.path, listing.seg, "segmentWait")
        /\ UNCHANGED <<metadata, partial, listing>>
    BY <1>6 DEF listDirSegment, listVars
  <2>2. "listing" = OpOf("segmentWait") /\ "segmentWait" \in Waits /\ pc \notin Waits
    BY <2>1 DEF OpOf, Waits
  <2>3. Conversation' /\ pc' \in Early
    BY <2>1, <2>2, AskKeeps
  <2> QED
    BY <2>1, <2>3 DEF ListsTyped
<1>7. CASE listDirContent
  <2>1. Response("segmentWait") /\ pc' \in {"segment", "listed", "child"} /\ UNCHANGED <<metadata, partial>>
        /\ (listing' = listing
            \/ listing' = [listing EXCEPT !.seg = @ + 1, !.names = @ \o Head(queue[0]).names])
    BY <1>7 DEF listDirContent
  <2>2. "segmentWait" \in Waits /\ pc' \notin Waits /\ pc' \in Early
    BY <2>1 DEF Waits, Early
  <2>3. Conversation'
    BY <2>1, <2>2, ResponseKeeps
  <2>4. listing'.all = listing.all /\ DOMAIN listing' = DOMAIN listing
    BY <2>1 DEF ListsTyped
  <2> QED
    BY <2>1, <2>2, <2>3, <2>4 DEF ListsTyped
<1>8. CASE listDirChild
  <2>1. pc = "child" /\ UNCHANGED <<metadata, partial, listing>>
    BY <1>8 DEF listDirChild, listVars
  <2>2. CASE listing.names = <<>>
    <3>1. pc' = "listed" /\ UNCHANGED <<ids, pending, queue>>
      BY <1>8, <2>2 DEF listDirChild, openVars, pipelineVars
    <3> QED
      BY <2>1, <3>1 DEF Early, Waits, Conversation, ListsTyped
  <2>3. CASE listing.names # <<>>
    <3>1. Ask("file", Head(listing.names), 0, "childWait")
      BY <1>8, <2>3 DEF listDirChild
    <3>2. "file" = OpOf("childWait") /\ "childWait" \in Waits /\ pc \notin Waits
      BY <2>1 DEF OpOf, Waits
    <3>3. Conversation' /\ pc' \in Early
      BY <3>1, <3>2, AskKeeps
    <3> QED
      BY <2>1, <3>3 DEF ListsTyped
  <2> QED
    BY <2>2, <2>3
<1>9. CASE listDirChildDone
  <2> DEFINE data == Head(queue[0])
             more == IF data.kind = "data" THEN Append(listing.all, data.md) ELSE listing.all
  <2>1. Response("childWait") /\ pc' = "child" /\ UNCHANGED <<metadata, partial>>
        /\ listing' = [listing EXCEPT !.names = Tail(@),
                                      !.all = IF data.kind = "data" THEN Append(@, data.md) ELSE @]
    BY <1>9 DEF listDirChildDone
  <2>2. "childWait" \in Waits /\ pc' \notin Waits /\ pc' \in Early
    BY <2>1 DEF Waits, Early
  <2>3. Conversation' /\ Fits("childWait", data)
    BY <2>1, <2>2, ResponseKeeps
  <2>4. listing'.all = more /\ DOMAIN listing' = DOMAIN listing
    BY <2>1 DEF ListsTyped
  <2>5. more \in Seq(MD)
    BY <2>3 DEF Fits, ListsTyped
  <2> QED
    BY <2>1, <2>2, <2>3, <2>4, <2>5 DEF ListsTyped
<1>10. CASE listDirRecursive
  <2>1. pc = "listed" /\ pc' = "listDir" /\ UNCHANGED <<metadata, ids, pending, queue>>
        /\ partial' = partial \o listing.all /\ listing' = NoListing
    BY <1>10 DEF listDirRecursive, openVars, pipelineVars
  <2>2. partial \o listing.all \in Seq(MD)
    BY DEF ListsTyped
  <2>3. listing'.all = <<>> /\ DOMAIN listing' = {"path", "seg", "names", "all"}
    BY <2>1 DEF NoListing
  <2>4. listing'.all \in Seq(MD)
    BY <2>3
  <2>5. ListsTyped'
    BY <2>1, <2>2, <2>3, <2>4 DEF ListsTyped
  <2> QED
    BY <2>1, <2>5 DEF Early, Waits, Conversation
<1>11. CASE listDirEnds
  <2>1. pc = "listDir" /\ pc' = "args" /\ UNCHANGED <<listing, ids, pending, queue>>
        /\ partial' = <<>>
    BY <1>11 DEF listDirEnds, openVars, pipelineVars
  <2>2. PICK found \in IF opts.recursive THEN Sorted(partial) ELSE {partial} :
            metadata' = metadata \o found
    BY <1>11 DEF listDirEnds
  <2>3. found \in Seq(MD)
    BY <2>2, SortedTyped DEF ListsTyped
  <2>4. ListsTyped'
    BY <2>1, <2>2, <2>3 DEF ListsTyped
  <2> QED
    BY <2>1, <2>4 DEF Early, Waits, Conversation
<1> QED
  BY <1>1, <1>2, <1>3, <1>4, <1>5, <1>6, <1>7, <1>8, <1>9, <1>10, <1>11

-----------------------------------------------------------------------------
(* The invariant while the streams run.                                    *)

Entries == 0..Len(metadata) - 1
Idents == 1..Len(metadata)
Id(i) == files[Entry(i).path]
Final(i) == Entry(i).finalBlockId
Lane(i) == i % opts.streams
Segment(i, n) == getFileContentData(Entry(i).path, n)

\* The segments that the entries with identifier g consist of, those nobody
\* has requested, those nobody has received, and the requests for them.
OfId(g) == {x \in Entries \X Nat : Id(x[1]) = g /\ x[2] <= Final(x[1])}
Unsent(i, n) == tx[Lane(i)].i < i \/ (tx[Lane(i)].i = i /\ tx[Lane(i)].n <= n)
Unrequested(g) == {x \in OfId(g) : Unsent(x[1], x[2])}
Unreceived(g) == {x \in OfId(g) : got[x[1]].n <= x[2]}
PendingOf(g) == {r \in pending : r.id = g}
Responses(g) == {[kind |-> "null"]} \cup {Segment(x[1], x[2]) : x \in OfId(g)}
Finite(T) == IsFiniteSet(T) /\ Cardinality(T) \in Nat

Opened ==
    /\ metadata \in Seq(MD) /\ opts.streams \in Nat \ {0}
    /\ ids = {0} \cup Idents
    /\ \A i \in Entries : Id(i) \in Idents /\ Entry(Id(i) - 1).path = Entry(i).path
    /\ \A g \in Idents : Finite(OfId(g))
QueuesTyped ==
    /\ DOMAIN queue = {0} \cup Idents
    /\ \A g \in Idents : queue[g] \in Seq(Responses(g))
ThreadsTyped ==
    /\ tx \in [Streams -> [i : Nat, n : Nat]] /\ \A s \in Streams : Lane(tx[s].i) = s
    /\ rx \in [Streams -> [i : Nat, n : Nat]] /\ \A s \in Streams : Lane(rx[s].i) = s
    /\ DOMAIN got = Entries
    /\ \A i \in Entries : got[i].n \in Nat /\ got[i].pkts \subseteq Responses(Id(i)) \ {[kind |-> "null"]}
PendingTyped ==
    \A r \in pending : /\ r.entry \in Entries /\ r.seg \in 0..Final(r.entry)
                       /\ r.id = Id(r.entry) /\ r.op = "content" /\ r.path = Entry(r.entry).path
Received ==
    \A i \in Entries : /\ rx[Lane(i)].i > i => got[i].n > Final(i)
                       /\ rx[Lane(i)].i = i => got[i].n = rx[Lane(i)].n
                       /\ rx[Lane(i)].i < i => got[i].n = 0
Count(g) ==
    /\ Finite(PendingOf(g))
    /\ Cardinality(Unrequested(g)) + Cardinality(PendingOf(g)) + Len(queue[g])
            <= Cardinality(Unreceived(g))
Counted == \A g \in Idents : Count(g)
Somewhere(i, n) ==
    \/ Unsent(i, n)
    \/ \E r \in pending : r.entry = i /\ r.seg = n
    \/ \E k \in 1..Len(queue[Id(i)]) : queue[Id(i)][k] \in {[kind |-> "null"], Segment(i, n)}
    \/ \E j \in Entries : Id(j) = Id(i) /\ Segment(i, n) \in got[j].pkts
Covered == \A i \in Entries : \A n \in 0..Final(i) : Somewhere(i, n)
NotTooMuch == Distinct => \A i \in Entries : got[i].n <= Final(i) + 1

JoinFacts ==
    /\ Opened /\ QueuesTyped /\ ThreadsTyped /\ PendingTyped /\ Received /\ Counted
    /\ Covered /\ NotTooMuch

\* The threads of all streams have just been started.
Started ==
    /\ tx = [s \in Streams |-> [i |-> s, n |-> 0]]
    /\ rx = [s \in Streams |-> [i |-> s, n |-> 0]]
    /\ got = [i \in Entries |-> [n |-> 0, pkts |-> {}]]
    /\ pending = {} /\ \A g \in Idents : queue[g] = <<>>

\* An entry and its stream.
LEMMA LaneTyped ==
    ASSUME Opened, NEW i \in Nat
    PROVE  Lane(i) \in Streams /\ Lane(i) <= i /\ (i \in Streams => Lane(i) = i)
<1> DEFINE S == opts.streams
<1>1. S \in Nat \ {0}
  BY DEF Opened
<1> HIDE DEF S
<1>2. i % S \in 0..S-1 /\ i % S <= i
  BY <1>1
<1>3. i \in 0..S-1 => i % S = i
  BY <1>1
<1> QED
  BY <1>2, <1>3 DEF Lane, Streams, S

\* The entries have numbers of segments.
LEMMA FinalTyped ==
    ASSUME Opened, NEW i \in Entries
    PROVE  Final(i) \in Nat /\ i \in Nat /\ Id(i) \in Idents
<1>1. metadata[i + 1] \in MD /\ i \in Nat
  BY DEF Opened, Entries
<1> QED
  BY <1>1, MDTyped DEF Opened, Final, Entry

\* The parts of a finite set.
LEMMA PartsFinite ==
    ASSUME Opened, NEW g \in Idents
    PROVE  Finite(Unrequested(g)) /\ Finite(Unreceived(g))
<1>1. Finite(OfId(g)) /\ Unrequested(g) \subseteq OfId(g) /\ Unreceived(g) \subseteq OfId(g)
  BY DEF Opened, Unrequested, Unreceived
<1> QED
  BY <1>1, FS_Subset, FS_CardinalityType DEF Finite

\* Everything is to be requested, and as much is to be received.
LEMMA StartedFacts == Opened /\ QueuesTyped /\ Started => JoinFacts
<1> SUFFICES ASSUME Opened, QueuesTyped, Started PROVE JoinFacts
  OBVIOUS
<1>1. ThreadsTyped
  <2>1. \A s \in Streams : s \in Nat /\ Lane(s) = s
    BY LaneTyped DEF Opened, Streams
  <2> QED
    BY <2>1 DEF Started, ThreadsTyped
<1>2. PendingTyped
  BY DEF Started, PendingTyped
<1>3. ASSUME NEW i \in Entries
      PROVE  Lane(i) \in Streams /\ Lane(i) <= i /\ i \in Nat /\ tx[Lane(i)].i = Lane(i)
             /\ rx[Lane(i)].i = Lane(i) /\ tx[Lane(i)].n = 0 /\ rx[Lane(i)].n = 0 /\ got[i].n = 0
  BY LaneTyped, FinalTyped DEF Started
<1>4. Received
  BY <1>3, <1>1 DEF Received, Streams, Opened
<1>5. ASSUME NEW i \in Entries, NEW n \in Nat PROVE Unsent(i, n)
  BY <1>3 DEF Unsent, Streams, Opened
<1>6. Counted
  <2> SUFFICES ASSUME NEW g \in Idents PROVE Count(g)
    BY DEF Counted
  <2>1. PendingOf(g) = {} /\ queue[g] = <<>>
    BY DEF PendingOf, Started
  <2>2. Finite(PendingOf(g)) /\ Cardinality(PendingOf(g)) = 0
    BY <2>1, FS_EmptySet DEF Finite
  <2>3. Unreceived(g) = OfId(g) /\ Unrequested(g) = OfId(g)
    BY <1>3, <1>5 DEF Unreceived, Unrequested, OfId
  <2>4. Finite(OfId(g)) /\ Len(queue[g]) = 0
    BY <2>1 DEF Opened
  <2> QED
    BY <2>2, <2>3, <2>4 DEF Count, Finite
<1>7. Covered /\ NotTooMuch
  BY <1>3, <1>5, FinalTyped DEF Covered, Somewhere, NotTooMuch
<1> QED
  BY <1>1, <1>2, <1>4, <1>6, <1>7 DEF JoinFacts

\* The same in the next state.
LEMMA StartedFactsNext == Opened' /\ QueuesTyped' /\ Started' => JoinFacts'
BY StartedFacts, PTL

-----------------------------------------------------------------------------
(* Counting.                                                               *)

\* A set with one of its elements removed.
LEMMA CardRemove ==
    ASSUME NEW T, Finite(T), NEW x \in T
    PROVE  Finite(T \ {x}) /\ Cardinality(T \ {x}) = Cardinality(T) - 1
BY FS_RemoveElement, FS_CardinalityType DEF Finite

\* A set without a part of it.
LEMMA CardMinus ==
    ASSUME NEW T, Finite(T), NEW A \in SUBSET T
    PROVE  /\ Finite(T \ A) /\ Finite(A)
           /\ Cardinality(T \ A) = Cardinality(T) - Cardinality(A)
<1>1. IsFiniteSet(T \ A) /\ IsFiniteSet(A)
  BY FS_Subset DEF Finite
<1>2. Cardinality(T \ A) \in Nat /\ Cardinality(A) \in Nat
  BY <1>1, FS_CardinalityType
<1>3. Cardinality((T \ A) \cup A) = Cardinality(T \ A) + Cardinality(A) - Cardinality((T \ A) \cap A)
  BY <1>1, FS_Union
<1>4. (T \ A) \cup A = T /\ (T \ A) \cap A = {}
  OBVIOUS
<1>5. Cardinality((T \ A) \cup A) = Cardinality(T) /\ Cardinality((T \ A) \cap A) = Cardinality({})
  BY <1>4, Zenon
<1>6. Cardinality({}) = 0
  BY FS_EmptySet
<1> QED
  BY <1>1, <1>2, <1>3, <1>5, <1>6 DEF Finite

\* The image of A adds no more to a set than A has.
LEMMA CardUnion ==
    ASSUME NEW T, Finite(T), NEW A, Finite(A), NEW f, NEW B, f \in Surjection(A, B)
    PROVE  Finite(T \cup B) /\ Cardinality(T \cup B) <= Cardinality(T) + Cardinality(A)
<1>1. IsFiniteSet(B) /\ Cardinality(B) <= Cardinality(A)
  BY FS_Surjection DEF Finite
<1>2. IsFiniteSet(T \cap B) /\ Cardinality(T \cap B) \in Nat /\ Cardinality(B) \in Nat
  BY <1>1, FS_Intersection, FS_CardinalityType
<1>3. IsFiniteSet(T \cup B)
  BY <1>1, FS_Union DEF Finite
<1>4. Cardinality(T \cup B) = Cardinality(T) + Cardinality(B) - Cardinality(T \cap B)
  BY <1>1, FS_Union DEF Finite
<1>5. Cardinality(T \cup B) \in Nat
  BY <1>3, FS_CardinalityType
<1> QED
  BY <1>1, <1>2, <1>3, <1>4, <1>5 DEF Finite

\* A part of n consecutive segments of one entry has at most n.
LEMMA CardRun ==
    ASSUME NEW i, NEW a \in Nat, NEW n \in Nat, NEW C, Finite(C),
           \A x \in C : \E k \in a..a + n - 1 : x = <<i, k>>
    PROVE  Cardinality(C) <= n
<1> DEFINE R == a..a + n - 1
           D == {<<i, k>> : k \in R}
           f == [k \in R |-> <<i, k>>]
<1>1. IsFiniteSet(R) /\ Cardinality(R) = n
  <2>1. a + n - 1 \in Int
    OBVIOUS
  <2>2. IsFiniteSet(R) /\ Cardinality(R) = IF a > a + n - 1 THEN 0 ELSE (a + n - 1) - a + 1
    BY <2>1, FS_Interval
  <2> QED
    BY <2>2
<1>2. f \in Surjection(R, D)
  BY DEF Surjection
<1> HIDE DEF R
<1>3. IsFiniteSet(D) /\ Cardinality(D) <= n
  BY <1>1, <1>2, FS_Surjection
<1>4. C \subseteq D
  BY DEF R
<1>5. Cardinality(C) <= Cardinality(D) /\ Cardinality(D) \in Nat
  BY <1>3, <1>4, FS_Subset, FS_CardinalityType
<1> QED
  BY <1>3, <1>5 DEF Finite

-----------------------------------------------------------------------------
(* The steps of the pipeline and of the threads.                           *)

\* What the threads work on does not change while they run.
SameNames ==
    /\ Entries' = Entries /\ Idents' = Idents /\ Streams' = Streams
    /\ \A i : Id(i)' = Id(i) /\ Final(i)' = Final(i) /\ Lane(i)' = Lane(i)
    /\ \A i, n : Segment(i, n)' = Segment(i, n)
    /\ \A i : Entry(i)' = Entry(i)
    /\ \A g : OfId(g)' = OfId(g) /\ Responses(g)' = Responses(g)
    /\ Distinct' = Distinct

\* A step that leaves the entries, the options and files_ alone.
LEMMA NamesStay ==
    ASSUME UNCHANGED <<metadata, opts, files>>
    PROVE  SameNames
<1>1. /\ Entries' = Entries /\ Idents' = Idents /\ Streams' = Streams
      /\ \A i : Id(i)' = Id(i) /\ Final(i)' = Final(i) /\ Lane(i)' = Lane(i)
      /\ \A i, n : Segment(i, n)' = Segment(i, n)
      /\ \A i : Entry(i)' = Entry(i)
      /\ Distinct' = Distinct
  BY DEF Entries, Idents, Streams, Id, Final, Lane, Segment, Entry, Distinct, getFileContentData
<1>2. ASSUME NEW g PROVE OfId(g)' = OfId(g)
  BY DEF OfId, Entries, Id, Final, Entry
<1>3. ASSUME NEW g PROVE Responses(g)' = Responses(g)
  BY DEF Responses, OfId, Entries, Id, Final, Entry, Segment, getFileContentData
<1> QED
  BY <1>1, <1>2, <1>3 DEF SameNames

\* A part of Opened that stays.
LEMMA OpenedStays ==
    ASSUME Opened, UNCHANGED <<metadata, opts, files, ids>>
    PROVE  Opened'
<1>1. SameNames
  BY NamesStay
<1> QED
  BY <1>1 DEF Opened, SameNames, Finite

\* The pipeline answers a request for a segment.
LEMMA JoinAnswer ==
    ASSUME JoinFacts, Answer
    PROVE  JoinFacts'
<1> USE DEF JoinFacts
<1>1. PICK r \in pending :
        r.id \in ids /\ (\/ \E data \in onInterest(r) : Put(r, data)
                         \/ Put(r, [kind |-> "null"]))
  BY DEF Answer
<1>2. /\ r.entry \in Entries /\ r.seg \in 0..Final(r.entry)
      /\ r.id = Id(r.entry) /\ r.op = "content" /\ r.path = Entry(r.entry).path
      /\ r.id \in Idents /\ r.seg \in Nat
  BY FinalTyped DEF PendingTyped
<1>3. onInterest(r) = {Segment(r.entry, r.seg)}
  BY <1>2 DEF onInterest, Segment
<1>4. PICK d \in {[kind |-> "null"], Segment(r.entry, r.seg)} : Put(r, d)
  BY <1>1, <1>3
<1>5. /\ pending' = pending \ {r} /\ queue' = [queue EXCEPT ![r.id] = Append(@, d)]
      /\ UNCHANGED <<metadata, opts, files, ids, tx, rx, got>>
  BY <1>4 DEF Put, listVars, openVars, workerVars
<1>6. SameNames /\ Opened'
  BY <1>5, NamesStay, OpenedStays
<1>7. d \in Responses(r.id)
  <2>1. <<r.entry, r.seg>> \in OfId(r.id)
    BY <1>2, FinalTyped DEF OfId
  <2>2. Segment(r.entry, r.seg) \in {Segment(x[1], x[2]) : x \in OfId(r.id)}
    BY <2>1
  <2> QED
    BY <1>4, <2>2 DEF Responses
<1>8. queue[r.id] \in Seq(Responses(r.id)) /\ queue'[r.id] = Append(queue[r.id], d)
      /\ \A g \in Idents \ {r.id} : queue'[g] = queue[g]
  BY <1>2, <1>5 DEF QueuesTyped
<1>9. QueuesTyped'
  <2>1. DOMAIN queue' = {0} \cup Idents
    BY <1>5 DEF QueuesTyped
  <2>2. ASSUME NEW g \in Idents PROVE queue'[g] \in Seq(Responses(g))
    <3>1. CASE g = r.id
      BY <1>7, <1>8, <3>1
    <3>2. CASE g # r.id
      BY <1>8, <3>2 DEF QueuesTyped
    <3> QED
      BY <3>1, <3>2
  <2> QED
    BY <1>6, <2>1, <2>2 DEF QueuesTyped, SameNames
<1>10. ThreadsTyped' /\ Received'
  BY <1>5, <1>6 DEF ThreadsTyped, Received, SameNames
<1>11. PendingTyped'
  BY <1>5, <1>6 DEF PendingTyped, SameNames
<1>12. \A i, n : Unsent(i, n)' = Unsent(i, n)
  BY <1>5, <1>6 DEF Unsent, SameNames
<1>13. \A g : Unrequested(g)' = Unrequested(g) /\ Unreceived(g)' = Unreceived(g)
  BY <1>5, <1>6, <1>12 DEF Unrequested, Unreceived, SameNames
<1>14. Counted'
  <2> SUFFICES ASSUME NEW g \in Idents PROVE Count(g)'
    BY <1>6 DEF Counted, SameNames
  <2>1. Count(g) /\ Finite(Unrequested(g)) /\ Finite(Unreceived(g))
    BY PartsFinite DEF Counted
  <2>2. CASE g = r.id
    <3>1. PendingOf(g)' = PendingOf(g) \ {r} /\ r \in PendingOf(g)
      BY <1>5, <2>2 DEF PendingOf
    <3>2. Finite(PendingOf(g)') /\ Cardinality(PendingOf(g)') = Cardinality(PendingOf(g)) - 1
      BY <2>1, <3>1, CardRemove DEF Count
    <3>3. Len(queue'[g]) = Len(queue[g]) + 1 /\ Len(queue[g]) \in Nat
      BY <1>8, <2>2
    <3> QED
      BY <1>13, <2>1, <3>2, <3>3 DEF Count, Finite
  <2>3. CASE g # r.id
    <3>1. PendingOf(g)' = PendingOf(g)
      BY <1>5, <2>3 DEF PendingOf
    <3> QED
      BY <1>8, <1>13, <2>1, <2>3, <3>1 DEF Count
  <2> QED
    BY <2>2, <2>3
<1>15. Covered'
  <2> SUFFICES ASSUME NEW i \in Entries, NEW n \in 0..Final(i) PROVE Somewhere(i, n)'
    BY <1>6 DEF Covered, SameNames
  <2>1. Somewhere(i, n) /\ Id(i) \in Idents
    BY FinalTyped DEF Covered
  <2>2. CASE \E k \in 1..Len(queue[Id(i)]) : queue[Id(i)][k] \in {[kind |-> "null"], Segment(i, n)}
    <3>1. \A k \in 1..Len(queue[Id(i)]) : k \in 1..Len(queue'[Id(i)]) /\ queue'[Id(i)][k] = queue[Id(i)][k]
      <4>1. CASE Id(i) = r.id
        BY <1>8, <4>1
      <4>2. CASE Id(i) # r.id
        BY <1>8, <2>1, <4>2
      <4> QED
        BY <4>1, <4>2
    <3> QED
      BY <1>6, <2>2, <3>1 DEF Somewhere, SameNames
  <2>3. CASE r.entry = i /\ r.seg = n
    <3>1. Id(i) = r.id /\ d \in {[kind |-> "null"], Segment(i, n)}
      BY <1>2, <1>4, <2>3
    <3>2. Len(queue'[Id(i)]) \in 1..Len(queue'[Id(i)]) /\ queue'[Id(i)][Len(queue'[Id(i)])] = d
      BY <1>8, <3>1
    <3> QED
      BY <1>6, <3>1, <3>2 DEF Somewhere, SameNames
  <2>4. CASE \E q \in pending : q # r /\ q.entry = i /\ q.seg = n
    BY <1>5, <2>4 DEF Somewhere
  <2>5. CASE Unsent(i, n) \/ \E j \in Entries : Id(j) = Id(i) /\ Segment(i, n) \in got[j].pkts
    BY <1>5, <1>6, <1>12, <2>5 DEF Somewhere, SameNames
  <2> QED
    BY <2>1, <2>2, <2>3, <2>4, <2>5 DEF Somewhere
<1>16. NotTooMuch'
  BY <1>5, <1>6 DEF NotTooMuch, SameNames
<1> QED
  BY <1>6, <1>9, <1>10, <1>11, <1>14, <1>15, <1>16

\* A later entry of a stream is at least a stride away.
LEMMA NextInLane ==
    ASSUME Opened, NEW e \in Nat, NEW i \in Nat
    PROVE  /\ Lane(e + opts.streams) = Lane(e) /\ e + opts.streams \in Nat /\ opts.streams > 0
           /\ Lane(i) = Lane(e) => (e < i <=> e + opts.streams <= i)
<1> DEFINE S == opts.streams
<1>1. S \in Nat \ {0}
  BY DEF Opened
<1> HIDE DEF S
<1>2. (e + S) % S = e % S
  BY <1>1, LaneNext
<1>3. ASSUME i % S = e % S, e < i PROVE e + S <= i
  BY <1>1, <1>3, LaneApart
<1>4. e + S <= i => e < i
  BY <1>1
<1> QED
  BY <1>1, <1>2, <1>3, <1>4 DEF Lane, S

\* The requesting thread has asked for all segments of its entry.
LEMMA RequestSkips ==
    ASSUME JoinFacts, NEW s \in Streams, ~Done(tx[s]), tx[s].n > Entry(tx[s].i).finalBlockId,
           tx' = [tx EXCEPT ![s] = NextEntry(@)],
           UNCHANGED <<metadata, opts, files, ids, rx, got, pending, queue>>
    PROVE  JoinFacts'
<1> USE DEF JoinFacts
<1> DEFINE e == tx[s].i
<1>1. SameNames /\ Opened'
  BY NamesStay, OpenedStays
<1>2. e \in Nat /\ tx[s].n \in Nat /\ Lane(e) = s /\ e \in Entries /\ tx[s].n > Final(e)
  BY DEF ThreadsTyped, Done, Entries, Final, Opened
<1>3. tx'[s] = [i |-> e + opts.streams, n |-> 0] /\ \A z \in Streams \ {s} : tx'[z] = tx[z]
  BY DEF NextEntry, ThreadsTyped
<1>4. ThreadsTyped'
  <2>1. Lane(e + opts.streams) = s /\ e + opts.streams \in Nat
    BY <1>1, <1>2, NextInLane
  <2>2. tx' \in [Streams -> [i : Nat, n : Nat]]
    BY <1>3, <2>1 DEF ThreadsTyped
  <2>3. \A z \in Streams : Lane(tx'[z].i) = z
    BY <1>3, <2>1 DEF ThreadsTyped
  <2> QED
    BY <1>1, <2>2, <2>3 DEF ThreadsTyped, SameNames
<1>5. ASSUME NEW i \in Entries, NEW n \in Nat, n <= Final(i)
      PROVE  Unsent(i, n)' = Unsent(i, n)
  <2>1. i \in Nat /\ Lane(i) \in Streams
    BY FinalTyped, LaneTyped
  <2>2. CASE Lane(i) # s
    BY <1>1, <1>3, <2>1, <2>2 DEF Unsent, SameNames
  <2>3. CASE Lane(i) = s
    <3>1. e < i <=> e + opts.streams <= i
      BY <1>2, <2>1, <2>3, NextInLane
    <3>2. Unsent(i, n) <=> e < i
      BY <1>2, <1>5, <2>1, <2>3, FinalTyped DEF Unsent
    <3>3. Unsent(i, n)' <=> e + opts.streams <= i
      BY <1>1, <1>2, <1>3, <2>1, <2>3, NextInLane DEF Unsent, SameNames
    <3>4. Unsent(i, n)' \in BOOLEAN /\ Unsent(i, n) \in BOOLEAN
      BY DEF Unsent
    <3> QED
      BY <3>1, <3>2, <3>3, <3>4
  <2> QED
    BY <2>2, <2>3
<1>6. \A g : Unrequested(g)' = Unrequested(g) /\ Unreceived(g)' = Unreceived(g)
  BY <1>1, <1>5 DEF Unrequested, Unreceived, OfId, SameNames
<1>7. Counted'
  BY <1>1, <1>6 DEF Counted, Count, PendingOf, SameNames, Finite
<1>8. Covered'
  <2> SUFFICES ASSUME NEW i \in Entries, NEW n \in 0..Final(i) PROVE Somewhere(i, n)'
    BY <1>1 DEF Covered, SameNames
  <2>1. Somewhere(i, n) /\ Unsent(i, n)' = Unsent(i, n)
    BY <1>5, FinalTyped DEF Covered
  <2> QED
    BY <1>1, <2>1 DEF Somewhere, SameNames
<1> QED
  BY <1>1, <1>4, <1>7, <1>8 DEF QueuesTyped, PendingTyped, Received, NotTooMuch, SameNames

\* The requesting thread asks for a burst of segments.
LEMMA RequestBurst ==
    ASSUME JoinFacts, NEW s \in Streams, ~Done(tx[s]), tx[s].n <= Entry(tx[s].i).finalBlockId,
           NEW segs, segs = {n \in tx[s].n..tx[s].n + Burst - 1 : n <= Entry(tx[s].i).finalBlockId},
           pending' = pending \cup
                [id : {files[Entry(tx[s].i).path]}, op : {"content"}, path : {Entry(tx[s].i).path},
                 seg : segs, entry : {tx[s].i}],
           tx' = [tx EXCEPT ![s].n = @ + Burst],
           UNCHANGED <<metadata, opts, files, ids, rx, got, queue>>
    PROVE  JoinFacts'
<1> USE DEF JoinFacts
<1> DEFINE e == tx[s].i
           m == tx[s].n
           Req(n) == [id |-> Id(e), op |-> "content", path |-> Entry(e).path, seg |-> n, entry |-> e]
           B == {Req(n) : n \in segs}
<1>1. SameNames /\ Opened'
  BY NamesStay, OpenedStays
<1>2. e \in Nat /\ m \in Nat /\ Lane(e) = s /\ e \in Entries /\ m <= Final(e) /\ Burst \in Nat \ {0}
      /\ Final(e) \in Nat /\ Id(e) \in Idents
  <2>1. e \in Nat /\ m \in Nat /\ Lane(e) = s /\ e \in Entries /\ m <= Final(e)
    BY DEF ThreadsTyped, Done, Entries, Final, Opened
  <2> QED
    BY <2>1, FinalTyped, FileTransferAssumption
<1>3. tx'[s] = [i |-> e, n |-> m + Burst] /\ \A z \in Streams \ {s} : tx'[z] = tx[z]
      /\ tx' \in [Streams -> [i : Nat, n : Nat]]
  BY <1>2 DEF ThreadsTyped
<1>4. segs = {n \in Nat : m <= n /\ n < m + Burst /\ n <= Final(e)}
  BY <1>2 DEF Final
<1>5. pending' = pending \cup B
  <2> DEFINE R == [id : {Id(e)}, op : {"content"}, path : {Entry(e).path}, seg : segs, entry : {e}]
  <2>1. R = B
    <3>1. ASSUME NEW x \in R PROVE x \in B
      <4>1. x.seg \in segs /\ x = Req(x.seg)
        OBVIOUS
      <4> HIDE DEF Req
      <4> QED
        BY <4>1
    <3>2. ASSUME NEW n \in segs PROVE Req(n) \in R
      OBVIOUS
    <3> HIDE DEF R, Req
    <3> QED
      BY <3>1, <3>2
  <2> QED
    BY <2>1 DEF Id
<1> HIDE DEF B
<1>6. ThreadsTyped'
  BY <1>1, <1>2, <1>3 DEF ThreadsTyped, SameNames
<1>7. PendingTyped'
  <2>1. ASSUME NEW r \in B
        PROVE  /\ r.entry \in Entries /\ r.seg \in 0..Final(r.entry)
               /\ r.id = Id(r.entry) /\ r.op = "content" /\ r.path = Entry(r.entry).path
    BY <1>2, <1>4 DEF B
  <2> QED
    BY <1>1, <1>5, <2>1 DEF PendingTyped, SameNames
<1>8. ASSUME NEW i \in Entries, NEW n \in Nat
      PROVE  Unsent(i, n)' <=> Unsent(i, n) /\ ~(i = e /\ n < m + Burst)
  <2>1. i \in Nat /\ Lane(i) \in Streams
    BY FinalTyped, LaneTyped
  <2>2. CASE Lane(i) # s
    BY <1>1, <1>2, <1>3, <2>1, <2>2 DEF Unsent, SameNames
  <2>3. CASE Lane(i) = s
    BY <1>1, <1>2, <1>3, <2>1, <2>3 DEF Unsent, SameNames
  <2> QED
    BY <2>2, <2>3
<1>9. \A g : Unreceived(g)' = Unreceived(g)
  BY <1>1 DEF Unreceived, SameNames
<1>10. Counted'
  <2> SUFFICES ASSUME NEW g \in Idents PROVE Count(g)'
    BY <1>1 DEF Counted, SameNames
  <2>1. Count(g) /\ Finite(Unrequested(g)) /\ Finite(Unreceived(g)) /\ Len(queue[g]) \in Nat
    BY PartsFinite DEF Counted, QueuesTyped
  <2>2. CASE g = Id(e)
    <3> DEFINE A == {x \in Unrequested(g) : x[1] = e /\ x[2] < m + Burst}
               f == [x \in A |-> Req(x[2])]
    <3>1. A \in SUBSET Unrequested(g) /\ Unrequested(g)' = Unrequested(g) \ A
      BY <1>1, <1>8 DEF Unrequested, OfId, SameNames
    <3>2. f \in Surjection(A, B)
      <4>1. ASSUME NEW x \in A PROVE Req(x[2]) \in B
        <5>1. x[2] \in segs
          BY <1>2, <1>4, FinalTyped DEF Unrequested, OfId, Unsent
        <5> QED
          BY <5>1 DEF B
      <4>2. ASSUME NEW n \in segs PROVE <<e, n>> \in A
        BY <1>2, <1>4, <2>2 DEF Unrequested, OfId, Unsent
      <4>3. ASSUME NEW b \in B PROVE \E x \in A : f[x] = b
        <5>1. PICK n \in segs : b = Req(n)
          BY DEF B
        <5>2. f[<<e, n>>] = Req(n)
          BY <4>2
        <5> QED
          BY <4>2, <5>1, <5>2
      <4> QED
        BY <4>1, <4>3 DEF Surjection
    <3>3. PendingOf(g)' = PendingOf(g) \cup B
      BY <1>5, <2>2 DEF PendingOf, B
    <3> HIDE DEF A, f
    <3>4. Finite(Unrequested(g)') /\ Finite(A)
          /\ Cardinality(Unrequested(g)') = Cardinality(Unrequested(g)) - Cardinality(A)
      BY <2>1, <3>1, CardMinus
    <3>5. Finite(PendingOf(g)')
          /\ Cardinality(PendingOf(g)') <= Cardinality(PendingOf(g)) + Cardinality(A)
      BY <2>1, <3>2, <3>3, <3>4, CardUnion DEF Count
    <3>6. /\ Cardinality(Unrequested(g)) \in Nat /\ Cardinality(A) \in Nat
          /\ Cardinality(Unrequested(g)') \in Nat /\ Cardinality(Unreceived(g)) \in Nat
          /\ Cardinality(PendingOf(g)) \in Nat /\ Cardinality(PendingOf(g)') \in Nat
          /\ Len(queue[g]) \in Nat
      BY <2>1, <3>4, <3>5 DEF Count, Finite
    <3>7. Cardinality(Unrequested(g)) + Cardinality(PendingOf(g)) + Len(queue[g])
            <= Cardinality(Unreceived(g))
      BY <2>1 DEF Count
    <3>8. Cardinality(Unrequested(g)') + Cardinality(PendingOf(g)') + Len(queue[g])
            <= Cardinality(Unreceived(g))
      <4>1. PICK u, a, u1, v, p, p1, q \in Nat :
                /\ u = Cardinality(Unrequested(g)) /\ a = Cardinality(A)
                /\ u1 = Cardinality(Unrequested(g)') /\ v = Cardinality(Unreceived(g))
                /\ p = Cardinality(PendingOf(g)) /\ p1 = Cardinality(PendingOf(g)')
                /\ q = Len(queue[g])
        BY <3>6
      <4>2. u1 = u - a /\ p1 <= p + a /\ u + p + q <= v
        BY <3>4, <3>5, <3>7, <4>1
      <4>3. u1 + p1 + q <= v
        BY <4>2
      <4> QED
        BY <4>1, <4>3
    <3> QED
      BY <1>9, <3>5, <3>8 DEF Count
  <2>3. CASE g # Id(e)
    <3>1. PendingOf(g)' = PendingOf(g)
      BY <1>5, <2>3 DEF PendingOf, B
    <3>2. Unrequested(g)' = Unrequested(g)
      BY <1>1, <1>8, <2>3 DEF Unrequested, OfId, SameNames
    <3> QED
      BY <1>9, <2>1, <3>1, <3>2 DEF Count
  <2> QED
    BY <2>2, <2>3
<1>11. Covered'
  <2> SUFFICES ASSUME NEW i \in Entries, NEW n \in 0..Final(i) PROVE Somewhere(i, n)'
    BY <1>1 DEF Covered, SameNames
  <2>1. Somewhere(i, n) /\ n \in Nat /\ i \in Nat
    BY FinalTyped DEF Covered
  <2>2. CASE i = e /\ m <= n /\ n < m + Burst
    <3>1. n \in segs
      BY <1>2, <1>4, <2>1, <2>2
    <3>2. Req(n) \in pending' /\ Req(n).entry = i /\ Req(n).seg = n
      BY <1>5, <2>2, <3>1 DEF B
    <3> HIDE DEF Req
    <3> QED
      BY <3>2 DEF Somewhere
  <2>3. CASE Unsent(i, n) /\ ~(i = e /\ m <= n /\ n < m + Burst)
    <3>1. Unsent(i, n)'
      BY <1>2, <1>8, <2>1, <2>3 DEF Unsent
    <3> QED
      BY <3>1 DEF Somewhere
  <2>4. CASE ~Unsent(i, n)
    BY <1>1, <1>5, <2>1, <2>4 DEF Somewhere, SameNames
  <2> QED
    BY <2>2, <2>3, <2>4
<1> QED
  BY <1>1, <1>6, <1>7, <1>10, <1>11 DEF QueuesTyped, Received, NotTooMuch, SameNames

\* Under Distinct an identifier belongs to one entry.
LEMMA OneEntry ==
    ASSUME Opened, Distinct, NEW i \in Entries, NEW j \in Entries, Id(i) = Id(j)
    PROVE  i = j
<1>1. Entry(i).path = Entry(j).path
  BY DEF Opened
<1>2. i + 1 \in DOMAIN metadata /\ j + 1 \in DOMAIN metadata /\ i \in Nat /\ j \in Nat
  BY DEF Opened, Entries
<1>3. i + 1 = j + 1
  BY <1>1, <1>2 DEF Distinct, Entry
<1> QED
  BY <1>2, <1>3

\* The receiving thread has got as many segments as its entry has.
LEMMA ReceiveSkips ==
    ASSUME JoinFacts, NEW s \in Streams, ~Done(rx[s]), rx[s].n > Entry(rx[s].i).finalBlockId,
           rx' = [rx EXCEPT ![s] = NextEntry(@)],
           UNCHANGED <<metadata, opts, files, ids, tx, got, pending, queue>>
    PROVE  JoinFacts'
<1> USE DEF JoinFacts
<1> DEFINE e == rx[s].i
<1>1. SameNames /\ Opened'
  BY NamesStay, OpenedStays
<1>2. e \in Nat /\ rx[s].n \in Nat /\ Lane(e) = s /\ e \in Entries /\ rx[s].n > Final(e)
  BY DEF ThreadsTyped, Done, Entries, Final, Opened
<1>3. rx'[s] = [i |-> e + opts.streams, n |-> 0] /\ \A z \in Streams \ {s} : rx'[z] = rx[z]
  BY DEF NextEntry, ThreadsTyped
<1>4. ThreadsTyped'
  <2>1. Lane(e + opts.streams) = s /\ e + opts.streams \in Nat
    BY <1>1, <1>2, NextInLane
  <2>2. rx' \in [Streams -> [i : Nat, n : Nat]]
    BY <1>3, <2>1 DEF ThreadsTyped
  <2>3. \A z \in Streams : Lane(rx'[z].i) = z
    BY <1>3, <2>1 DEF ThreadsTyped
  <2> QED
    BY <1>1, <2>2, <2>3 DEF ThreadsTyped, SameNames
<1>5. Received'
  <2> SUFFICES ASSUME NEW i \in Entries
               PROVE  /\ rx'[Lane(i)].i > i => got[i].n > Final(i)
                      /\ rx'[Lane(i)].i = i => got[i].n = rx'[Lane(i)].n
                      /\ rx'[Lane(i)].i < i => got[i].n = 0
    BY <1>1 DEF Received, SameNames
  <2>1. i \in Nat /\ Lane(i) \in Streams /\ Final(i) \in Nat /\ got[i].n \in Nat
    BY FinalTyped, LaneTyped DEF ThreadsTyped
  <2>2. /\ rx[Lane(i)].i > i => got[i].n > Final(i)
        /\ rx[Lane(i)].i = i => got[i].n = rx[Lane(i)].n
        /\ rx[Lane(i)].i < i => got[i].n = 0
    BY DEF Received
  <2>3. CASE Lane(i) # s
    BY <1>3, <2>1, <2>2, <2>3
  <2>4. CASE Lane(i) = s
    <3>1. (e < i <=> e + opts.streams <= i) /\ e + opts.streams \in Nat
      BY <1>2, <2>1, <2>4, NextInLane
    <3>2. rx'[Lane(i)].i = e + opts.streams /\ rx'[Lane(i)].n = 0 /\ rx[Lane(i)].i = e
      BY <1>3, <2>4
    <3>3. e = i => got[i].n > Final(i)
      BY <1>2, <2>2, <2>4
    <3> QED
      BY <1>2, <2>1, <2>2, <3>1, <3>2, <3>3
  <2> QED
    BY <2>3, <2>4
<1>6. \A i, n : Unsent(i, n)' = Unsent(i, n)
  BY <1>1 DEF Unsent, SameNames
<1>7. \A g : Unrequested(g)' = Unrequested(g) /\ Unreceived(g)' = Unreceived(g)
  BY <1>1, <1>6 DEF Unrequested, Unreceived, SameNames
<1>8. Counted'
  BY <1>1, <1>7 DEF Counted, Count, PendingOf, SameNames, Finite
<1>9. Covered'
  BY <1>1, <1>6 DEF Covered, Somewhere, SameNames
<1> QED
  BY <1>1, <1>4, <1>5, <1>8, <1>9 DEF QueuesTyped, PendingTyped, NotTooMuch, SameNames

\* The first c elements of a sequence, and what is left without them.
Popped(q, c) == {q[k] : k \in 1..c}
Rest(q, c, rest) == Len(rest) = Len(q) - c /\ \A k \in 1..Len(rest) : rest[k] = q[k + c]

\* One pop of the receiving thread of stream s.
Pop(s, g, c, rest, front) ==
    /\ ~Done(rx[s]) /\ g = files[Entry(rx[s].i).path] /\ c <= Len(queue[g])
    /\ rest \in Seq(Responses(g)) /\ Rest(queue[g], c, rest)
    /\ front = Popped(queue[g], c) /\ [kind |-> "null"] \notin front
    /\ queue' = [queue EXCEPT ![g] = rest]
    /\ got' = [got EXCEPT ![rx[s].i] = [n |-> @.n + c, pkts |-> @.pkts \cup front]]
    /\ rx' = [rx EXCEPT ![s].n = @ + c]
    /\ UNCHANGED <<metadata, opts, files, ids, tx, pending>>

\* The receiving thread pops the first c responses, none of them null, and
\* leaves the rest.
LEMMA ReceivePops ==
    ASSUME JoinFacts, NEW s \in Streams, NEW g, NEW c \in Nat, NEW rest, NEW front,
           Pop(s, g, c, rest, front)
    PROVE  JoinFacts'
<1> USE DEF JoinFacts
<1> DEFINE e == rx[s].i
           null == [kind |-> "null"]
<1>1. SameNames /\ Opened'
  BY NamesStay, OpenedStays DEF Pop
<1>2. e \in Nat /\ rx[s].n \in Nat /\ Lane(e) = s /\ e \in Entries
  <2>1. e \in Nat /\ rx[s].n \in Nat /\ Lane(e) = s
    BY DEF ThreadsTyped
  <2>2. Len(metadata) \in Nat /\ ~(e >= Len(metadata))
    <3>1. Len(metadata) \in Nat
      BY DEF Opened
    <3> QED
      BY <3>1 DEF Done, Pop
  <2> QED
    BY <2>1, <2>2 DEF Entries
<1>3. g = Id(e) /\ g \in Idents /\ Final(e) \in Nat /\ got[e].n = rx[s].n /\ c <= Len(queue[g])
  BY <1>2, FinalTyped DEF Id, Received, Pop
<1>4. queue[g] \in Seq(Responses(g)) /\ Len(queue[g]) \in Nat
  BY <1>3 DEF QueuesTyped
<1>5. /\ queue'[g] = rest /\ \A h \in Idents \ {g} : queue'[h] = queue[h]
      /\ DOMAIN queue' = {0} \cup Idents /\ rest \in Seq(Responses(g)) /\ Rest(queue[g], c, rest)
  BY <1>3 DEF QueuesTyped, Pop
<1>6. /\ queue'[g] \in Seq(Responses(g)) /\ Len(queue'[g]) = Len(queue[g]) - c
      /\ Len(queue'[g]) \in Nat
  BY <1>3, <1>4, <1>5 DEF Rest
<1>8. front \subseteq Responses(g) \ {null} /\ \A k \in 1..c : queue[g][k] \in front /\ queue[g][k] # null
  <2>1. front = {queue[g][k] : k \in 1..c} /\ null \notin front
    BY DEF Popped, Pop
  <2> HIDE DEF null
  <2>2. \A k \in 1..c : queue[g][k] \in Responses(g)
    BY <1>3, <1>4
  <2> QED
    BY <2>1, <2>2
<1>9. /\ got'[e] = [n |-> got[e].n + c, pkts |-> got[e].pkts \cup front]
      /\ \A i \in Entries \ {e} : got'[i] = got[i]
      /\ DOMAIN got' = Entries
  BY <1>2 DEF ThreadsTyped, Pop
<1>10. rx'[s] = [i |-> e, n |-> rx[s].n + c] /\ (\A z \in Streams \ {s} : rx'[z] = rx[z])
       /\ rx' \in [Streams -> [i : Nat, n : Nat]] /\ tx' = tx /\ pending' = pending
  <2>1. rx' = [rx EXCEPT ![s].n = @ + c] /\ tx' = tx /\ pending' = pending
    BY DEF Pop
  <2>2. rx \in [Streams -> [i : Nat, n : Nat]]
    BY DEF ThreadsTyped
  <2> QED
    BY ONLY <2>1, <2>2, c \in Nat, s \in Streams
<1> HIDE DEF null
<1>11. QueuesTyped'
  BY <1>1, <1>5, <1>6 DEF QueuesTyped, SameNames
<1>12. ThreadsTyped'
  <2>1. \A i \in Entries : got'[i].n \in Nat /\ got'[i].pkts \subseteq Responses(Id(i)) \ {null}
    <3> SUFFICES ASSUME NEW i \in Entries
                 PROVE  got'[i].n \in Nat /\ got'[i].pkts \subseteq Responses(Id(i)) \ {null}
      OBVIOUS
    <3>1. got[i].n \in Nat /\ got[i].pkts \subseteq Responses(Id(i)) \ {null}
      BY DEF ThreadsTyped, null
    <3>2. CASE i = e
      BY <1>3, <1>8, <1>9, <3>1, <3>2
    <3>3. CASE i # e
      BY <1>9, <3>1, <3>3
    <3> QED
      BY <3>2, <3>3
  <2>2. \A z \in Streams : Lane(rx'[z].i) = z
    BY <1>2, <1>10 DEF ThreadsTyped
  <2> QED
    BY <1>1, <1>9, <1>10, <2>1, <2>2 DEF ThreadsTyped, SameNames, null
<1>13. Received'
  <2> SUFFICES ASSUME NEW i \in Entries
               PROVE  /\ rx'[Lane(i)].i > i => got'[i].n > Final(i)
                      /\ rx'[Lane(i)].i = i => got'[i].n = rx'[Lane(i)].n
                      /\ rx'[Lane(i)].i < i => got'[i].n = 0
    BY <1>1 DEF Received, SameNames
  <2>1. i \in Nat /\ Lane(i) \in Streams
    BY FinalTyped, LaneTyped
  <2>2. /\ rx[Lane(i)].i > i => got[i].n > Final(i)
        /\ rx[Lane(i)].i = i => got[i].n = rx[Lane(i)].n
        /\ rx[Lane(i)].i < i => got[i].n = 0
    BY DEF Received
  <2>3. rx'[Lane(i)].i = rx[Lane(i)].i
    BY <1>10, <2>1
  <2>4. CASE i = e
    BY <1>2, <1>3, <1>9, <1>10, <2>4
  <2>5. CASE i # e
    <3>1. rx[Lane(i)].i = i => Lane(i) # s
      BY <2>5
    <3> QED
      BY <1>9, <1>10, <2>1, <2>2, <2>3, <2>5, <3>1
  <2> QED
    BY <2>4, <2>5
<1>14. PendingTyped' /\ \A i, n : Unsent(i, n)' = Unsent(i, n)
  BY <1>1, <1>10 DEF PendingTyped, Unsent, SameNames
<1>15. \A h : Unrequested(h)' = Unrequested(h) /\ PendingOf(h)' = PendingOf(h)
  BY <1>1, <1>10, <1>14 DEF Unrequested, PendingOf, SameNames
<1>16. Counted'
  <2> SUFFICES ASSUME NEW h \in Idents PROVE Count(h)'
    BY <1>1 DEF Counted, SameNames
  <2>1. Count(h) /\ Finite(Unrequested(h)) /\ Finite(Unreceived(h))
    BY PartsFinite DEF Counted
  <2>2. CASE h = g
    <3> DEFINE a == got[e].n
               C == {x \in Unreceived(g) : x[1] = e /\ x[2] < a + c}
    <3>1. a \in Nat
      BY <1>2 DEF ThreadsTyped
    <3>2. C \in SUBSET Unreceived(g) /\ Unreceived(g)' = Unreceived(g) \ C
      BY <1>1, <1>2, <1>9, <3>1 DEF Unreceived, OfId, SameNames, ThreadsTyped
    <3>3. \A x \in C : \E k \in a..a + c - 1 : x = <<e, k>>
      BY <3>1 DEF Unreceived, OfId
    <3> HIDE DEF C, a
    <3>4. Finite(C) /\ Finite(Unreceived(g)')
          /\ Cardinality(Unreceived(g)') = Cardinality(Unreceived(g)) - Cardinality(C)
      BY <2>1, <2>2, <3>2, CardMinus
    <3>5. Cardinality(C) <= c
      BY <3>1, <3>3, <3>4, CardRun
    <3>6. PICK u, p, q, q1, v, v1, z \in Nat :
              /\ u = Cardinality(Unrequested(g)) /\ p = Cardinality(PendingOf(g))
              /\ q = Len(queue[g]) /\ q1 = Len(queue'[g])
              /\ v = Cardinality(Unreceived(g)) /\ v1 = Cardinality(Unreceived(g)')
              /\ z = Cardinality(C)
      BY <1>4, <1>6, <2>1, <2>2, <3>4 DEF Count, Finite
    <3>7. u + p + q <= v /\ q1 = q - c /\ v1 = v - z /\ z <= c
      BY <1>6, <2>1, <2>2, <3>4, <3>5, <3>6 DEF Count
    <3>8. u + p + q1 <= v1
      BY <3>7
    <3> QED
      BY <1>15, <2>1, <2>2, <3>6, <3>8 DEF Count
  <2>3. CASE h # g
    <3>1. Unreceived(h)' = Unreceived(h)
      BY <1>1, <1>3, <1>9, <2>3 DEF Unreceived, OfId, SameNames
    <3> QED
      BY <1>5, <1>15, <2>1, <2>3, <3>1 DEF Count
  <2> QED
    BY <2>2, <2>3
<1>17. Covered'
  <2> SUFFICES ASSUME NEW i \in Entries, NEW n \in 0..Final(i) PROVE Somewhere(i, n)'
    BY <1>1 DEF Covered, SameNames
  <2>1. Somewhere(i, n) /\ Id(i) \in Idents
    BY FinalTyped DEF Covered
  <2>2. CASE \E k \in 1..Len(queue[Id(i)]) : queue[Id(i)][k] \in {null, Segment(i, n)}
    <3>1. PICK k \in 1..Len(queue[Id(i)]) : queue[Id(i)][k] \in {null, Segment(i, n)}
      BY <2>2
    <3>2. CASE Id(i) # g
      BY <1>1, <1>5, <2>1, <3>1, <3>2 DEF Somewhere, SameNames, null
    <3>3. CASE Id(i) = g /\ k <= c
      <4>1. queue[g][k] \in front /\ queue[g][k] # null
        BY <1>8, <3>1, <3>3
      <4>2. Segment(i, n) \in got'[e].pkts
        BY <1>9, <3>1, <3>3, <4>1
      <4> QED
        BY <1>1, <1>2, <1>3, <3>3, <4>2 DEF Somewhere, SameNames
    <3>4. CASE Id(i) = g /\ k > c
      <4>1. k - c \in 1..Len(queue'[g]) /\ queue'[g][k - c] = queue[g][k]
        <5>1. k \in Nat /\ k <= Len(queue[g]) /\ k > c
          BY <1>4, <3>1, <3>4
        <5>2. k - c \in 1..Len(rest) /\ (k - c) + c = k
          BY <1>3, <1>4, <1>5, <1>6, <5>1
        <5>3. rest[k - c] = queue[g][(k - c) + c]
          BY <1>5, <5>2 DEF Rest
        <5> QED
          BY <1>5, <5>2, <5>3
      <4> QED
        BY <1>1, <3>1, <3>4, <4>1 DEF Somewhere, SameNames, null
    <3> QED
      BY <3>2, <3>3, <3>4
  <2>3. CASE \E j \in Entries : Id(j) = Id(i) /\ Segment(i, n) \in got[j].pkts
    <3>1. \A j \in Entries : got[j].pkts \subseteq got'[j].pkts
      BY <1>9
    <3> QED
      BY <1>1, <2>3, <3>1 DEF Somewhere, SameNames
  <2>4. CASE Unsent(i, n) \/ \E r \in pending : r.entry = i /\ r.seg = n
    BY <1>1, <1>10, <1>14, <2>4 DEF Somewhere, SameNames
  <2> QED
    BY <2>1, <2>2, <2>3, <2>4 DEF Somewhere, null
<1>18. NotTooMuch'
  <2> SUFFICES ASSUME Distinct, NEW i \in Entries PROVE got'[i].n <= Final(i) + 1
    BY <1>1 DEF NotTooMuch, SameNames
  <2>1. got[i].n <= Final(i) + 1
    BY DEF NotTooMuch
  <2>2. CASE i # e
    BY <1>9, <2>1, <2>2
  <2>3. CASE i = e
    <3> DEFINE a == got[e].n
               b == Final(e) + 1 - a
               V == Unreceived(g)
    <3>1. a \in Nat /\ b \in Nat
      BY <1>2, <1>3, <2>1, <2>3 DEF ThreadsTyped
    <3>2. Finite(V) /\ Count(g) /\ Finite(Unrequested(g))
      BY <1>3, PartsFinite DEF Counted
    <3>3. ASSUME NEW x \in V PROVE \E k \in a..a + b - 1 : x = <<e, k>>
      <4>1. x \in Entries \X Nat /\ Id(x[1]) = Id(e) /\ x[2] <= Final(x[1]) /\ got[x[1]].n <= x[2]
        BY <1>3 DEF Unreceived, OfId
      <4>2. x[1] = e
        BY <1>2, <4>1, OneEntry
      <4>3. x = <<e, x[2]>> /\ x[2] \in Nat /\ a <= x[2] /\ x[2] <= Final(e)
        BY <4>1, <4>2
      <4>4. a + b - 1 = Final(e)
        BY <1>3, <3>1
      <4>5. x[2] \in a..a + b - 1
        BY <1>3, <3>1, <4>3, <4>4
      <4> QED
        BY <4>3, <4>5
    <3>4. Cardinality(V) <= b
      <4> HIDE DEF a, b, V
      <4> QED
        BY <3>1, <3>2, <3>3, CardRun
    <3>5. Len(queue[g]) <= Cardinality(V)
      BY <1>4, <3>2 DEF Count, Finite
    <3>6. Cardinality(V) \in Nat
      BY <3>2 DEF Finite
    <3>7. c <= b
      <4> HIDE DEF b, V
      <4> QED
        BY <1>3, <1>4, <3>1, <3>4, <3>5, <3>6
    <3> QED
      BY <1>3, <1>9, <2>3, <3>1, <3>7
  <2> QED
    BY <2>2, <2>3
<1> QED
  BY <1>1, <1>11, <1>12, <1>13, <1>14, <1>16, <1>17, <1>18

\* What SubSeq takes from the front of a queue and what it leaves.
LEMMA PopSplit ==
    ASSUME NEW R, NEW q \in Seq(R), NEW c \in Nat, c <= Len(q)
    PROVE  /\ SubSeq(q, c + 1, Len(q)) \in Seq(R) /\ Rest(q, c, SubSeq(q, c + 1, Len(q)))
           /\ ToSet(SubSeq(q, 1, c)) = Popped(q, c)
           /\ \A k \in 1..c : SubSeq(q, 1, c)[k] = q[k]
<1> DEFINE L == Len(q)
<1>1. L \in Nat /\ c <= L /\ c + 1 \in Int /\ \A k \in 1..L : q[k] \in R
  OBVIOUS
<1> HIDE DEF L
<1>2. (\A k \in c + 1..L : q[k] \in R) /\ (\A k \in 1..c : q[k] \in R)
  BY <1>1
<1> DEFINE rest == SubSeq(q, c + 1, L)
           pkts == SubSeq(q, 1, c)
<1>3. /\ rest \in Seq(R) /\ Len(rest) = (IF c + 1 <= L THEN L - (c + 1) + 1 ELSE 0)
      /\ \A k \in 1..L - (c + 1) + 1 : rest[k] = q[c + 1 + k - 1]
  BY <1>1, <1>2, SubSeqProperties
<1>4. /\ pkts \in Seq(R) /\ Len(pkts) = (IF 1 <= c THEN c - 1 + 1 ELSE 0)
      /\ \A k \in 1..c - 1 + 1 : pkts[k] = q[1 + k - 1]
  BY <1>1, <1>2, SubSeqProperties
<1> HIDE DEF rest, pkts
<1>5. Len(rest) = L - c /\ \A k \in 1..L - c : rest[k] = q[k + c]
  <2>1. Len(rest) = L - c /\ L - (c + 1) + 1 = L - c
    BY <1>1, <1>3
  <2>2. ASSUME NEW k \in 1..L - c PROVE rest[k] = q[k + c]
    <3>1. rest[k] = q[c + 1 + k - 1] /\ c + 1 + k - 1 = k + c
      BY <1>1, <1>3, <2>1
    <3> QED
      BY <3>1
  <2> QED
    BY <2>1, <2>2
<1>6. DOMAIN pkts = 1..c /\ \A k \in 1..c : pkts[k] = q[k]
  <2>1. DOMAIN pkts = 1..c
    BY <1>4
  <2>2. ASSUME NEW k \in 1..c PROVE pkts[k] = q[k]
    <3>1. pkts[k] = q[1 + k - 1] /\ 1 + k - 1 = k
      BY <1>4
    <3> QED
      BY <3>1
  <2> QED
    BY <2>1, <2>2
<1>7. ToSet(pkts) = Popped(q, c)
  BY <1>6 DEF ToSet, Popped
<1>8. Rest(q, c, rest)
  BY <1>5 DEF Rest, L
<1> QED
  BY <1>3, <1>6, <1>7, <1>8 DEF rest, pkts, L

-----------------------------------------------------------------------------
(* Opening the entries.                                                    *)

\* Finitely many entries with finitely many segments.
LEMMA BoxFinite ==
    ASSUME NEW L \in Nat, NEW F, \A i \in 0..L - 1 : F[i] \in Nat
    PROVE  IsFiniteSet({x \in (0..L - 1) \X Nat : x[2] <= F[x[1]]})
<1> DEFINE Box(m) == {x \in (0..L - 1) \X Nat : x[1] < m /\ x[2] <= F[x[1]]}
           T == {m \in Nat : ~IsFiniteSet(Box(m))}
<1>1. T = {}
  <2> SUFFICES ASSUME T # {} PROVE FALSE
    OBVIOUS
  <2>1. PICK m \in T : \A y \in T : m <= y
    BY LeastNat
  <2>2. m \in Nat /\ ~IsFiniteSet(Box(m))
    BY <2>1
  <2>3. CASE m = 0
    <3>1. Box(m) = {}
      BY <2>3
    <3> QED
      BY <2>2, <3>1, FS_EmptySet
  <2>4. CASE m # 0
    <3> DEFINE a == m - 1
    <3>1. a \in Nat /\ m = a + 1
      BY <2>2, <2>4
    <3>2. IsFiniteSet(Box(a))
      BY <2>1, <3>1
    <3>3. CASE a \notin 0..L - 1
      <4>1. Box(m) = Box(a)
        BY <3>1, <3>3
      <4> QED
        BY <2>2, <3>2, <4>1
    <3>4. CASE a \in 0..L - 1
      <4> HIDE DEF a
      <4> DEFINE R == 0..F[a]
                 D == {<<a, k>> : k \in R}
                 f == [k \in R |-> <<a, k>>]
      <4>1. IsFiniteSet(R)
        <5>1. F[a] \in Int /\ 0 \in Int
          BY <3>4
        <5> QED
          BY <5>1, FS_Interval
      <4>2. f \in Surjection(R, D)
        BY DEF Surjection
      <4>3. IsFiniteSet(D)
        <5> HIDE DEF R, D, f
        <5> QED
          BY <4>1, <4>2, FS_Surjection
      <4>4. Box(m) \subseteq Box(a) \cup D
        <5> SUFFICES ASSUME NEW x \in Box(m), x \notin Box(a) PROVE x \in D
          OBVIOUS
        <5>1. x \in (0..L - 1) \X Nat /\ x[1] < m /\ x[2] <= F[x[1]] /\ ~(x[1] < a)
          OBVIOUS
        <5>2. x[1] = a
          BY <3>1, <5>1
        <5>3. x = <<a, x[2]>> /\ x[2] \in R
          BY <3>4, <5>1, <5>2
        <5> QED
          BY <5>3
      <4>5. IsFiniteSet(Box(a) \cup D)
        BY <3>2, <4>3, FS_Union
      <4> HIDE DEF Box, D
      <4> QED
        BY <2>2, <4>4, <4>5, FS_Subset
    <3> QED
      BY <3>3, <3>4
  <2> QED
    BY <2>3, <2>4
<1>2. IsFiniteSet(Box(L))
  BY <1>1
<1>3. {x \in (0..L - 1) \X Nat : x[2] <= F[x[1]]} = Box(L)
  OBVIOUS
<1> QED
  BY <1>2, <1>3

\* Every identifier has finitely many segments.
LEMMA OfIdFinite == metadata \in Seq(MD) => \A g \in Idents : Finite(OfId(g))
<1> SUFFICES ASSUME metadata \in Seq(MD), NEW g \in Idents PROVE Finite(OfId(g))
  OBVIOUS
<1> DEFINE L == Len(metadata)
           F == [i \in 0..L - 1 |-> Final(i)]
           Box == {x \in (0..L - 1) \X Nat : x[2] <= F[x[1]]}
<1>1. L \in Nat /\ \A i \in 0..L - 1 : metadata[i + 1] \in MD
  OBVIOUS
<1>2. \A i \in 0..L - 1 : F[i] \in Nat
  BY <1>1, MDTyped DEF Final, Entry
<1>3. OfId(g) \subseteq Box
  BY DEF OfId, Entries
<1> HIDE DEF F, L
<1>4. IsFiniteSet(Box)
  BY <1>1, <1>2, BoxFinite
<1> HIDE DEF Box
<1> QED
  BY <1>3, <1>4, FS_Subset, FS_CardinalityType DEF Finite

\* The same in the next state.
LEMMA OfIdFiniteNext == metadata' \in Seq(MD) => \A g \in Idents' : Finite(OfId(g)')
<1>1. (metadata \in Seq(MD))' => (\A g \in Idents : Finite(OfId(g)))'
  BY OfIdFinite, PTL
<1> QED
  BY <1>1 DEF Finite, MD

\* openFile gives every entry the identifier of the first one with its name.
LEMMA OpensAll ==
    ASSUME metadata \in Seq(MD), opts.streams \in Nat \ {0}, ids = {0}, openFile,
           UNCHANGED <<metadata, opts>>
    PROVE  Opened' /\ QueuesTyped' /\ \A g \in Idents' : queue'[g] = <<>>
<1>1. Entries' = Entries /\ Idents' = Idents /\ \A i : Entry(i)' = Entry(i)
  BY DEF Entries, Idents, Entry
<1>2. ids' = {0} \cup Idents /\ DOMAIN queue' = {0} \cup Idents /\ \A g \in Idents : queue'[g] = <<>>
  <2>1. 0 \notin Idents
    BY DEF Idents
  <2> QED
    BY <2>1 DEF openFile, Idents
<1>3. ASSUME NEW i \in Entries
      PROVE  files'[Entry(i).path] \in Idents /\ Entry(files'[Entry(i).path] - 1).path = Entry(i).path
  <2> DEFINE path == Entry(i).path
             First(j) == Entry(j).path = path /\ \A k \in 0..j - 1 : Entry(k).path # path
             T == {j \in Entries : Entry(j).path = path}
             x == CHOOSE j \in Entries : First(j)
  <2>1. Len(metadata) \in Nat /\ T \subseteq Nat /\ i \in T
    BY DEF Entries
  <2>2. PICK m \in T : \A j \in T : m <= j
    BY <2>1, LeastNat
  <2>3. m \in Entries /\ First(m)
    BY <2>1, <2>2 DEF Entries
  <2>4. x \in Entries /\ First(x)
    <3> HIDE DEF First
    <3> QED
      BY <2>3
  <2>5. files'[path] = x + 1
    BY DEF openFile, Entries
  <2> HIDE DEF x
  <2>6. x + 1 \in Idents /\ x \in Nat
    BY <2>1, <2>4 DEF Entries, Idents
  <2>7. Entry(x).path = path
    BY <2>4
  <2> HIDE DEF path, First, T
  <2>8. files'[path] \in Idents /\ files'[path] - 1 = x
    BY ONLY <2>5, <2>6
  <2>9. Entry(files'[path] - 1).path = path
    BY <2>7, <2>8, Zenon
  <2> QED
    BY <2>8, <2>9 DEF path
<1>4. Opened'
  <2>1. \A g \in Idents' : Finite(OfId(g)')
    BY OfIdFiniteNext
  <2>2. \A i \in Entries' : Id(i)' \in Idents' /\ Entry(Id(i) - 1)'.path = Entry(i)'.path
    BY <1>1, <1>3 DEF Id, Entry
  <2>3. metadata' \in Seq(MD) /\ opts'.streams \in Nat \ {0} /\ ids' = {0} \cup Idents'
    BY <1>1, <1>2
  <2> QED
    BY <2>1, <2>2, <2>3 DEF Opened, Finite, MD
<1>5. QueuesTyped'
  <2>1. \A g \in Idents : queue'[g] = <<>> /\ <<>> \in Seq(Responses(g)')
    BY <1>2
  <2>2. \A g \in Idents : queue'[g] \in Seq(Responses(g)')
    BY ONLY <2>1, Zenon
  <2> QED
    BY <1>1, <1>2, <2>2 DEF QueuesTyped
<1> QED
  BY <1>1, <1>2, <1>4, <1>5

\* main starts the transfer.
LEMMA TransferStarts ==
    ASSUME EarlyFacts, opts.streams \in Nat \ {0}, Transfer, ~stop'
    PROVE  pc' = "join" /\ JoinFacts'
<1>1. pc = "args" /\ openFile /\ StartWorkers /\ pc' = "join" /\ UNCHANGED <<opts, metadata, pending>>
  BY DEF Transfer, listVars
<1>2. metadata \in Seq(MD) /\ ids = {0} /\ pending = {}
  BY <1>1 DEF EarlyFacts, ListsTyped, Conversation, Waits
<1>3. Opened' /\ QueuesTyped' /\ \A g \in Idents' : queue'[g] = <<>>
  BY <1>1, <1>2, OpensAll
<1>4. Started'
  BY <1>1, <1>2, <1>3 DEF Started, StartWorkers, Thread, Streams, Entries
<1> QED
  BY <1>1, <1>3, <1>4, StartedFactsNext

-----------------------------------------------------------------------------
(* The threads have ended.                                                 *)

Complete ==
    \A i \in Entries : /\ got[i].n = Final(i) + 1
                       /\ got[i].pkts = {Segment(i, n) : n \in 0..Final(i)}

\* Nothing is outstanding: by the count of every identifier, since nothing
\* is left to be received.
LEMMA NothingLeft ==
    ASSUME JoinFacts, WorkersDone
    PROVE  /\ \A i \in Entries : got[i].n > Final(i) /\ \A n : ~Unsent(i, n)
           /\ pending = {} /\ \A g \in Idents : queue[g] = <<>>
<1> USE DEF JoinFacts
<1>1. ASSUME NEW i \in Entries
      PROVE  got[i].n > Final(i) /\ \A n : ~Unsent(i, n)
  <2>1. i \in Nat /\ Lane(i) \in Streams /\ i < Len(metadata) /\ Len(metadata) \in Nat
    <3>1. i \in Nat /\ i < Len(metadata) /\ Len(metadata) \in Nat
      BY DEF Opened, Entries
    <3> QED
      BY <3>1, LaneTyped
  <2>2. rx[Lane(i)].i >= Len(metadata) /\ tx[Lane(i)].i >= Len(metadata)
    BY <2>1 DEF WorkersDone, Done
  <2>3. rx[Lane(i)].i \in Nat /\ tx[Lane(i)].i \in Nat
    BY <2>1 DEF ThreadsTyped
  <2>4. rx[Lane(i)].i > i /\ tx[Lane(i)].i > i
    BY <2>1, <2>2, <2>3
  <2> QED
    BY <2>1, <2>3, <2>4 DEF Received, Unsent
<1>2. ASSUME NEW g \in Idents
      PROVE  PendingOf(g) = {} /\ queue[g] = <<>>
  <2>1. Unreceived(g) = {}
    <3>1. ASSUME NEW x \in OfId(g) PROVE ~(got[x[1]].n <= x[2])
      <4>1. x[1] \in Entries /\ x[2] \in Nat /\ x[2] <= Final(x[1])
        BY DEF OfId
      <4>2. got[x[1]].n > Final(x[1]) /\ Final(x[1]) \in Nat /\ got[x[1]].n \in Nat
        BY <1>1, <4>1, FinalTyped DEF ThreadsTyped
      <4> QED
        BY <4>1, <4>2
    <3> QED
      BY <3>1 DEF Unreceived
  <2>2. Cardinality(Unreceived(g)) = 0
    BY <2>1, FS_EmptySet
  <2>3. Count(g) /\ Finite(Unrequested(g)) /\ queue[g] \in Seq(Responses(g))
    BY PartsFinite DEF Counted, QueuesTyped
  <2>4. Len(queue[g]) \in Nat
    BY <2>3
  <2>5. Cardinality(PendingOf(g)) = 0 /\ Len(queue[g]) = 0 /\ IsFiniteSet(PendingOf(g))
    BY <2>2, <2>3, <2>4 DEF Count, Finite
  <2> QED
    BY <2>3, <2>5, FS_EmptySet
<1>3. pending = {}
  <2> SUFFICES ASSUME NEW r \in pending PROVE FALSE
    OBVIOUS
  <2>1. r.id \in Idents
    BY FinalTyped DEF PendingTyped
  <2> QED
    BY <1>2, <2>1 DEF PendingOf
<1> QED
  BY <1>1, <1>2, <1>3

\* Under Distinct, every entry has its segments, once, and no other.
LEMMA AllComplete ==
    ASSUME JoinFacts, WorkersDone, Distinct
    PROVE  Complete
<1> USE DEF JoinFacts
<1> SUFFICES ASSUME NEW i \in Entries
             PROVE  /\ got[i].n = Final(i) + 1
                    /\ got[i].pkts = {Segment(i, n) : n \in 0..Final(i)}
  BY DEF Complete
<1>1. got[i].n > Final(i) /\ (\A n : ~Unsent(i, n)) /\ pending = {} /\ queue[Id(i)] = <<>>
      /\ Final(i) \in Nat /\ Id(i) \in Idents
  BY NothingLeft, FinalTyped
<1>2. got[i].n = Final(i) + 1
  BY <1>1 DEF NotTooMuch, ThreadsTyped
<1>3. ASSUME NEW n \in 0..Final(i) PROVE Segment(i, n) \in got[i].pkts
  <2>1. Somewhere(i, n)
    BY DEF Covered
  <2>2. Len(queue[Id(i)]) = 0
    BY <1>1
  <2>3. PICK j \in Entries : Id(j) = Id(i) /\ Segment(i, n) \in got[j].pkts
    BY <1>1, <2>1, <2>2 DEF Somewhere
  <2> QED
    BY <2>3, OneEntry
<1>4. ASSUME NEW d \in got[i].pkts PROVE \E n \in 0..Final(i) : d = Segment(i, n)
  <2>1. d \in Responses(Id(i)) \ {[kind |-> "null"]}
    BY DEF ThreadsTyped
  <2>2. PICK x \in OfId(Id(i)) : d = Segment(x[1], x[2])
    BY <2>1 DEF Responses
  <2>3. x[1] \in Entries /\ Id(x[1]) = Id(i) /\ x[2] \in Nat /\ x[2] <= Final(x[1])
    BY DEF OfId
  <2>4. x[1] = i
    BY <2>3, OneEntry
  <2>5. x[2] \in 0..Final(i) /\ d = Segment(i, x[2])
    BY <1>1, <2>2, <2>3, <2>4
  <2> QED
    BY <2>5
<1> QED
  BY <1>2, <1>3, <1>4

-----------------------------------------------------------------------------
(* The inductive invariant.                                                *)

\* Nothing is outstanding when main closes the files.
CloseFacts ==
    /\ pending = {} /\ DOMAIN got = Entries
    /\ Distinct => Complete

Facts == EarlyFacts \/ (pc = "join" /\ JoinFacts) \/ (pc = "close" /\ CloseFacts)

FtInv ==
    /\ opts.streams \in Nat \ {0}
    /\ ClosesOnlyAfterFailure
    /\ canContinue => Facts

\* Every request is for an identifier that is registered.
LEMMA NoOrphan ==
    ASSUME Facts, NEW r \in pending
    PROVE  r.id \in ids
<1>1. CASE EarlyFacts
  BY <1>1 DEF EarlyFacts, Conversation, Asked
<1>2. CASE JoinFacts
  BY <1>2, FinalTyped DEF JoinFacts, PendingTyped, Opened
<1>3. CASE CloseFacts
  BY <1>3 DEF CloseFacts
<1> QED
  BY <1>1, <1>2, <1>3 DEF Facts

MainLists ==
    \/ programOptions \/ listFile \/ listFileDone \/ listDir \/ listDirMetadata
    \/ listDirSegment \/ listDirContent \/ listDirChild \/ listDirChildDone
    \/ listDirRecursive \/ listDirEnds

\* What the steps of main leave alone while it makes its list.
LEMMA MainListsFrame ==
    ASSUME MainLists
    PROVE  /\ closedBy' = closedBy /\ stop' = stop /\ (error => error')
           /\ opts' = opts \/ opts'.streams \in Nat \ {0}
           /\ pc \notin {"join", "close"}
<1> USE DEF Ask, Response, pipelineVars
<1>1. CASE programOptions
  <2>1. /\ closedBy' = closedBy /\ stop' = stop /\ error' = error /\ pc = "options"
    BY <1>1 DEF programOptions
  <2>2. opts' = opts \/ opts'.streams \in Nat \ {0}
    BY <1>1, FileTransferAssumption DEF programOptions
  <2> QED
    BY <2>1, <2>2
<1>2. CASE listFile
  BY <1>2 DEF listFile
<1>3. CASE listFileDone
  BY <1>3 DEF listFileDone
<1>4. CASE listDir
  BY <1>4 DEF listDir
<1>5. CASE listDirMetadata
  BY <1>5 DEF listDirMetadata
<1>6. CASE listDirSegment
  BY <1>6 DEF listDirSegment
<1>7. CASE listDirContent
  BY <1>7 DEF listDirContent
<1>8. CASE listDirChild
  BY <1>8 DEF listDirChild
<1>9. CASE listDirChildDone
  BY <1>9 DEF listDirChildDone
<1>10. CASE listDirRecursive
  BY <1>10 DEF listDirRecursive
<1>11. CASE listDirEnds
  BY <1>11 DEF listDirEnds
<1> QED
  BY <1>1, <1>2, <1>3, <1>4, <1>5, <1>6, <1>7, <1>8, <1>9, <1>10, <1>11 DEF MainLists

\* The requesting thread of a stream.
LEMMA RequestKeeps ==
    ASSUME canContinue, Facts, NEW s \in Streams, requestFileContent(s)
    PROVE  pc' = "join" /\ JoinFacts'
<1>1. pc = "join" /\ JoinFacts /\ pc' = pc /\ ~Done(tx[s])
      /\ UNCHANGED <<metadata, opts, files, ids, rx, got, queue>>
  BY DEF requestFileContent, Facts, EarlyFacts, Early, Waits, listVars, openVars
<1>2. CASE tx[s].n > Entry(tx[s].i).finalBlockId
  <2>1. tx' = [tx EXCEPT ![s] = NextEntry(@)] /\ pending' = pending
    BY <1>2 DEF requestFileContent
  <2> QED
    BY <1>1, <1>2, <2>1, RequestSkips
<1>3. CASE ~(tx[s].n > Entry(tx[s].i).finalBlockId)
  <2> DEFINE segs == {n \in tx[s].n..tx[s].n + Burst - 1 : n <= Entry(tx[s].i).finalBlockId}
  <2>1. /\ pending' = pending \cup
                [id : {files[Entry(tx[s].i).path]}, op : {"content"}, path : {Entry(tx[s].i).path},
                 seg : segs, entry : {tx[s].i}]
        /\ tx' = [tx EXCEPT ![s].n = @ + Burst]
    BY <1>3 DEF requestFileContent
  <2>2. tx[s].n <= Entry(tx[s].i).finalBlockId
    <3>1. tx[s].i \in Entries /\ tx[s].n \in Nat
      BY <1>1 DEF JoinFacts, ThreadsTyped, Done, Entries, Opened
    <3> QED
      BY <1>1, <1>3, <3>1, FinalTyped DEF JoinFacts, Final
  <2> QED
    BY <1>1, <2>1, <2>2, RequestBurst
<1> QED
  BY <1>2, <1>3

\* The receiving thread of a stream, unless it pops a null response.
LEMMA ReceiveKeeps ==
    ASSUME canContinue, Facts, NEW s \in Streams, receiveFileContent(s), ~error'
    PROVE  pc' = "join" /\ JoinFacts'
<1>1. pc = "join" /\ JoinFacts /\ pc' = pc /\ ~Done(rx[s])
      /\ UNCHANGED <<metadata, opts, files, ids, tx, pending>>
  BY DEF receiveFileContent, Facts, EarlyFacts, Early, Waits, listVars, openVars
<1>2. CASE rx[s].n > Entry(rx[s].i).finalBlockId
  <2>1. rx' = [rx EXCEPT ![s] = NextEntry(@)] /\ queue' = queue /\ got' = got
    BY <1>2 DEF receiveFileContent
  <2> QED
    BY <1>1, <1>2, <2>1, ReceiveSkips
<1>3. CASE ~(rx[s].n > Entry(rx[s].i).finalBlockId)
  <2> DEFINE g == files[Entry(rx[s].i).path]
             q == queue[g]
             c == IF Len(q) < Bulk THEN Len(q) ELSE Bulk
             pkts == SubSeq(q, 1, c)
             rest == SubSeq(q, c + 1, Len(q))
  <2>1. /\ queue' = [queue EXCEPT ![g] = SubSeq(@, c + 1, Len(@))]
        /\ got' = [got EXCEPT ![rx[s].i] = [n |-> @.n + c, pkts |-> @.pkts \cup ToSet(pkts)]]
        /\ ~(\E k \in 1..c : pkts[k].kind = "null")
        /\ rx' = [rx EXCEPT ![s].n = @ + c]
    BY <1>3 DEF receiveFileContent
  <2>2. rx[s].i \in Entries
    BY <1>1 DEF JoinFacts, ThreadsTyped, Done, Entries, Opened
  <2>3. g \in Idents
    BY <1>1, <2>2, FinalTyped DEF JoinFacts, Id
  <2>4. q \in Seq(Responses(g))
    BY <1>1, <2>3 DEF JoinFacts, QueuesTyped
  <2>5. c \in Nat /\ c <= Len(q)
    <3> HIDE DEF q
    <3>1. Len(q) \in Nat /\ Bulk \in Nat
      BY <2>4, FileTransferAssumption
    <3> QED
      BY <3>1
  <2> HIDE DEF c
  <2>6. /\ rest \in Seq(Responses(g)) /\ Rest(q, c, rest) /\ ToSet(pkts) = Popped(q, c)
        /\ \A k \in 1..c : pkts[k] = q[k]
    <3> HIDE DEF q
    <3> QED
      BY <2>4, <2>5, PopSplit
  <2>7. [kind |-> "null"] \notin Popped(q, c)
    <3>1. \A k \in 1..c : q[k].kind # "null"
      BY <2>1, <2>6
    <3> HIDE DEF q
    <3>2. ASSUME NEW d \in Popped(q, c) PROVE d.kind # "null"
      BY <3>1 DEF Popped
    <3> QED
      BY <3>2
  <2>8. queue' = [queue EXCEPT ![g] = rest]
    BY <2>1
  <2> HIDE DEF rest, pkts
  <2>9. Pop(s, g, c, rest, ToSet(pkts))
    BY <1>1, <2>1, <2>5, <2>6, <2>7, <2>8 DEF Pop
  <2> QED
    BY <1>1, <2>5, <2>9, ReceivePops
<1> QED
  BY <1>2, <1>3

\* The threads are joined: a repeated copy starts over, otherwise main closes.
LEMMA JoinKeeps ==
    ASSUME Facts, Join
    PROVE  Facts'
<1>1. pc = "join" /\ JoinFacts /\ WorkersDone
      /\ UNCHANGED <<metadata, opts, files, ids, pending, queue>>
  BY DEF Join, Facts, EarlyFacts, Early, Waits, listVars, openVars, pipelineVars
<1>2. pending = {} /\ (\A g \in Idents : queue[g] = <<>>) /\ (Distinct => Complete)
  BY <1>1, NothingLeft, AllComplete
<1>3. SameNames /\ Opened'
  BY <1>1, NamesStay, OpenedStays DEF JoinFacts
<1>4. CASE round < opts.repeat
  <2>1. StartWorkers /\ pc' = pc
    BY <1>4 DEF Join
  <2>2. QueuesTyped'
    BY <1>1, <1>3 DEF JoinFacts, QueuesTyped, SameNames
  <2>3. Started'
    BY <1>1, <1>2, <1>3, <2>1 DEF Started, StartWorkers, Thread, Streams, Entries, SameNames
  <2> QED
    BY <1>1, <1>3, <2>1, <2>2, <2>3, StartedFactsNext DEF Facts
<1>5. CASE ~(round < opts.repeat)
  <2>1. pc' = "close" /\ got' = got
    BY <1>5 DEF Join
  <2>2. (Distinct => Complete)'
    BY <1>2, <1>3, <2>1 DEF Complete, SameNames
  <2> QED
    BY <1>1, <1>2, <1>3, <2>1, <2>2 DEF Facts, CloseFacts, JoinFacts, ThreadsTyped, SameNames
<1> QED
  BY <1>4, <1>5

\* closeFile takes an identifier away, and nothing is outstanding.
LEMMA CloseKeeps ==
    ASSUME Facts, closeFile
    PROVE  Facts'
<1>1. pc = "close" /\ CloseFacts /\ pc' = pc /\ UNCHANGED <<metadata, opts, got, pending>>
  BY DEF closeFile, Facts, EarlyFacts, Early, Waits, listVars, pipelineVars
<1>2. Entries' = Entries /\ Distinct' = Distinct /\ Complete' = Complete
  BY <1>1 DEF Entries, Distinct, Complete, Final, Entry, Segment, getFileContentData
<1> QED
  BY <1>1, <1>2 DEF Facts, CloseFacts

\* Nothing that happened.
LEMMA FactsStutter ==
    ASSUME Facts, UNCHANGED vars
    PROVE  Facts'
<1> USE DEF vars
<1>1. CASE EarlyFacts
  BY <1>1 DEF Facts, EarlyFacts, ListsTyped, Conversation, Asked
<1>2. CASE pc = "join" /\ JoinFacts
  <2>1. SameNames /\ Opened'
    BY <1>2, NamesStay, OpenedStays DEF JoinFacts
  <2>2. \A i, n : Unsent(i, n)' = Unsent(i, n)
    BY <2>1 DEF Unsent, SameNames
  <2>3. \A g : Unrequested(g)' = Unrequested(g) /\ Unreceived(g)' = Unreceived(g)
               /\ PendingOf(g)' = PendingOf(g)
    BY <2>1, <2>2 DEF Unrequested, Unreceived, PendingOf, SameNames
  <2>4. QueuesTyped' /\ ThreadsTyped' /\ PendingTyped' /\ Received' /\ NotTooMuch'
    BY <1>2, <2>1 DEF JoinFacts, QueuesTyped, ThreadsTyped, PendingTyped, Received, NotTooMuch,
                      SameNames
  <2>5. Counted'
    BY <1>2, <2>1, <2>3 DEF JoinFacts, Counted, Count, SameNames, Finite
  <2>6. Covered'
    BY <1>2, <2>1, <2>2 DEF JoinFacts, Covered, Somewhere, SameNames
  <2> QED
    BY <1>2, <2>1, <2>4, <2>5, <2>6 DEF Facts, JoinFacts
<1>3. CASE pc = "close" /\ CloseFacts
  <2>1. Entries' = Entries /\ Distinct' = Distinct /\ Complete' = Complete
    BY DEF Entries, Distinct, Complete, Final, Entry, Segment, getFileContentData
  <2> QED
    BY <1>3, <2>1 DEF Facts, CloseFacts
<1> QED
  BY <1>1, <1>2, <1>3 DEF Facts

\* The pipeline answers.
LEMMA AnswerKeeps ==
    ASSUME Facts, Answer
    PROVE  Facts'
<1>1. CASE EarlyFacts
  BY <1>1, EarlyAnswer DEF Facts
<1>2. CASE pc = "join" /\ JoinFacts
  <2>1. pc' = pc
    BY DEF Answer, Put
  <2> QED
    BY <1>2, <2>1, JoinAnswer DEF Facts
<1>3. CASE CloseFacts
  BY <1>3 DEF CloseFacts, Answer
<1> QED
  BY <1>1, <1>2, <1>3 DEF Facts

\* Every step preserves the invariant: once the client cannot continue it
\* never can again, and a step that leaves it able to keeps the facts.
LEMMA FtStep ==
    ASSUME FtInv, [Next]_vars
    PROVE  FtInv'
<1> USE DEF FtInv
<1>1. ASSUME MainLists PROVE FtInv'
  <2>1. /\ closedBy' = closedBy /\ stop' = stop /\ (error => error')
        /\ opts' = opts \/ opts'.streams \in Nat \ {0}
        /\ pc \notin {"join", "close"}
    BY <1>1, MainListsFrame
  <2>2. ASSUME canContinue' PROVE Facts'
    <3>1. canContinue
      BY <2>1, <2>2 DEF canContinue, isClosed
    <3>2. EarlyFacts
      BY <2>1, <3>1 DEF Facts
    <3> QED
      BY <1>1, <3>1, <3>2, EarlyStep DEF MainLists, Facts, canContinue
  <2> QED
    BY <2>1, <2>2 DEF ClosesOnlyAfterFailure
<1>2. ASSUME UNCHANGED <<opts, closedBy>>, error => error', stop => stop',
             canContinue' /\ canContinue => Facts'
      PROVE  FtInv'
  <2>1. canContinue' => canContinue
    BY <1>2 DEF canContinue, isClosed
  <2> QED
    BY <1>2, <2>1 DEF ClosesOnlyAfterFailure
<1>3. CASE Transfer
  <2>1. UNCHANGED <<opts, closedBy, error>> /\ (stop => stop') /\ pc = "args"
    BY <1>3 DEF Transfer
  <2>2. ASSUME canContinue', canContinue PROVE Facts'
    <3>1. EarlyFacts /\ ~stop'
      BY <2>1, <2>2 DEF Facts, canContinue
    <3> QED
      BY <1>3, <3>1, TransferStarts DEF Facts
  <2> QED
    BY <1>2, <2>1, <2>2
<1>4. CASE Join
  BY <1>2, <1>4, JoinKeeps DEF Join, pipelineVars
<1>5. CASE closeFile
  BY <1>2, <1>5, CloseKeeps DEF closeFile, pipelineVars
<1>6. CASE programTerminate \/ signalHandler
  <2>1. UNCHANGED <<opts, closedBy, error>> /\ stop'
    BY <1>6 DEF programTerminate, signalHandler, pipelineVars
  <2> QED
    BY <1>2, <2>1 DEF canContinue
<1>7. CASE Answer
  <2>1. UNCHANGED <<opts, closedBy, error, stop>>
    BY <1>7 DEF Answer, Put
  <2> QED
    BY <1>2, <1>7, <2>1, AnswerKeeps
<1>8. CASE AnswerOrphan
  <2>1. PICK r \in pending : r.id \notin ids
    BY <1>8 DEF AnswerOrphan
  <2>2. ~canContinue
    BY <2>1, NoOrphan
  <2>3. UNCHANGED <<opts, error, stop>> /\ closedBy' = "worker" /\ ~isClosed
    BY <1>8 DEF AnswerOrphan
  <2>4. error \/ stop
    BY <2>2, <2>3 DEF canContinue
  <2> QED
    BY <2>3, <2>4 DEF ClosesOnlyAfterFailure, canContinue, isClosed
<1>9. CASE LinkDown
  <2>1. UNCHANGED <<opts, error, stop>> /\ closedBy' = "link"
    BY <1>9 DEF LinkDown
  <2> QED
    BY <2>1 DEF ClosesOnlyAfterFailure, canContinue, isClosed
<1>10. ASSUME NEW s \in Streams, requestFileContent(s) PROVE FtInv'
  <2>1. UNCHANGED <<opts, closedBy, stop>> /\ (error => error')
    BY <1>10 DEF requestFileContent
  <2> QED
    BY <1>2, <1>10, <2>1, RequestKeeps DEF Facts
<1>11. ASSUME NEW s \in Streams, receiveFileContent(s) PROVE FtInv'
  <2>1. UNCHANGED <<opts, closedBy, stop>> /\ (error => error')
    BY <1>11 DEF receiveFileContent
  <2>2. ASSUME canContinue', canContinue PROVE Facts'
    <3>1. ~error' /\ Facts
      BY <2>2 DEF canContinue
    <3> QED
      BY <1>11, <2>2, <3>1, ReceiveKeeps DEF Facts
  <2> QED
    BY <1>2, <2>1, <2>2
<1>12. CASE UNCHANGED vars
  <2>1. UNCHANGED <<opts, closedBy, stop, error>>
    BY <1>12 DEF vars
  <2> QED
    BY <1>2, <1>12, <2>1, FactsStutter
<1> QED
  BY <1>1, <1>3, <1>4, <1>5, <1>6, <1>7, <1>8, <1>9, <1>10, <1>11, <1>12 DEF Next, Main, MainLists

\* The invariant holds initially.
LEMMA FtInit ==
    ASSUME Init
    PROVE  FtInv
<1>1. opts.streams \in Nat \ {0} /\ ClosesOnlyAfterFailure
  BY DEF Init, ClosesOnlyAfterFailure
<1>2. metadata \in Seq(MD) /\ partial \in Seq(MD) /\ listing.all \in Seq(MD)
      /\ DOMAIN listing = {"path", "seg", "names", "all"}
  <2>1. metadata = <<>> /\ partial = <<>> /\ listing.all = <<>>
        /\ DOMAIN listing = {"path", "seg", "names", "all"}
    BY DEF Init, NoListing
  <2> QED
    BY <2>1
<1>3. Conversation /\ pc \in Early
  BY DEF Init, Conversation, Early, Waits
<1> QED
  BY <1>1, <1>2, <1>3 DEF FtInv, Facts, EarlyFacts, ListsTyped

-----------------------------------------------------------------------------
\* The inductive invariant of the client: as long as it can continue, what
\* main asked is answered once while it lists, the segments of every
\* identifier that nobody requested, that are requested and that are queued
\* are no more than those that its receivers still wait for while it copies,
\* and nothing is outstanding when it closes.
THEOREM FileTransferInvariant == Spec => []FtInv
<1>1. Init => FtInv
  BY FtInit
<1>2. FtInv /\ [Next]_vars => FtInv'
  BY FtStep
<1> QED
  BY <1>1, <1>2, PTL DEF Spec

\* "Downloaded" is true unless something failed, whatever the tree, the
\* paths, the streams, the repetitions and the sizes of bursts and bulks
\* (requestFileContent, receiveFileContent and the joins of main).
THEOREM FileTransferDownloadsComplete == Spec => []DownloadsComplete
<1>1. FtInv => DownloadsComplete
  <2> SUFFICES ASSUME FtInv, pc = "close", canContinue, Distinct, NEW i \in DOMAIN got
               PROVE  /\ got[i].n = Entry(i).finalBlockId + 1
                      /\ got[i].pkts = {getFileContentData(Entry(i).path, n) :
                                            n \in 0..Entry(i).finalBlockId}
    BY DEF DownloadsComplete
  <2>1. CloseFacts
    BY DEF FtInv, Facts, EarlyFacts, Early, Waits
  <2> QED
    BY <2>1 DEF CloseFacts, Complete, Final, Segment
<1> QED
  BY <1>1, FileTransferInvariant, PTL

\* The threads leave no request behind that would find its identifier gone
\* and take the pipeline down (closeFile after the joins of main).
THEOREM FileTransferClosesOnlyAfterFailure == Spec => []ClosesOnlyAfterFailure
<1>1. FtInv => ClosesOnlyAfterFailure
  BY DEF FtInv
<1> QED
  BY <1>1, FileTransferInvariant, PTL

=============================================================================
