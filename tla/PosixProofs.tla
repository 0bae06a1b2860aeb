----------------------------- MODULE PosixProofs -----------------------------
(***************************************************************************)
(* The theorems of modules PosixFile and PosixOss: what a thread leaves in *)
(* the shared pipeline, and what a read takes out of it.  For any number   *)
(* of threads, any file, any reads and any directory.                      *)
(*                                                                         *)
(* The argument is an account per thread.  While a thread waits for its    *)
(* responses, each request of its call is in one of three places: pending  *)
(* in the pipeline, in its response queue, or popped; and left is what has *)
(* yet to be popped.  Outside of such a wait nothing of it is anywhere.    *)
(* The first null response ends the account of a thread: the read that met *)
(* it leaves the rest behind.  So does the end of the pipeline.            *)
(*                                                                         *)
(* What a read makes of its responses is shown segment by segment: there   *)
(* is one order of the segments, and after each of them the buffer holds   *)
(* the octets of the file up to there.  So is a listing: after each octet  *)
(* the parser has the names that ended so far.                             *)
(***************************************************************************)
EXTENDS PosixOss, FiniteSetTheorems, WellFoundedInduction, TLAPS

Waits == {"openWait", "readWait"}
Taking == {"readWait", "readCopy", "readDone"}

\* The requests the pipeline holds for t.
Mine(t) == {r \in pending : r.thread = t}

\* The segments the call of t asked for, its requests and their responses.
Segs(t) == IF pc[t] = "openWait" THEN {Meta} ELSE Segments(args[t][1], args[t][2])
Sent(t, s) == [thread |-> t, call |-> call[t], seg |-> s]
Reply(t, s) == [call |-> call[t], seg |-> s, kind |-> "data"]
Whole(t) == {Reply(t, s) : s \in Segs(t)}

\* t has popped the response for s, or it is in its queue, or to come.
Somewhere(t, s) ==
    \/ Sent(t, s) \in Mine(t)
    \/ \E k \in 1 .. Len(queue[t]) : queue[t][k] = Reply(t, s)
    \/ Reply(t, s) \in got[t]

Accounted(t) ==
    /\ IsFiniteSet(Mine(t))
    /\ queue[t] \in Seq(Whole(t))
    /\ left[t] = Cardinality(Mine(t)) + Len(queue[t])
    /\ pc[t] = "openWait" => left[t] = 1
    /\ got[t] \subseteq Whole(t)
    /\ \A r \in Mine(t) : \E s \in Segs(t) : r = Sent(t, s)
    /\ \A s \in Segs(t) : Somewhere(t, s)

Clear(t) == Mine(t) = {} /\ queue[t] = <<>>

ArgsOK(t) ==
    /\ pc[t] \notin Taking \cup {"crashed"} => got[t] = {}
    /\ pc[t] \in Taking \cup {"readNames", "readPush"} => args[t] \in Reads
    /\ pc[t] \in Taking => Segments(args[t][1], args[t][2]) # {}

AccountOK(t) ==
    /\ pc[t] \in Waits => Accounted(t)
    /\ pc[t] \notin Waits /\ ~isClosed => Clear(t)
    /\ pc[t] \in {"readCopy", "readDone"} => got[t] = Whole(t)
    /\ pc[t] = "readDone" => buf[t] = Copied(Whole(t), args[t][1], args[t][2])

ThreadOK(t) == ArgsOK(t) /\ (t \notin refused => AccountOK(t))

DomainsOK ==
    /\ DOMAIN pc = Users /\ DOMAIN args = Users /\ DOMAIN call = Users /\ DOMAIN queue = Users
    /\ DOMAIN left = Threads /\ DOMAIN got = Threads /\ DOMAIN buf = Threads

OrphansOK ==
    /\ orphans => refused # {} \/ isClosed
    /\ closedBy = "worker" => refused # {}

PosixInv == DomainsOK /\ OrphansOK /\ \A t \in Threads : ThreadOK(t)

-----------------------------------------------------------------------------

\* The invariant holds initially.
LEMMA PosixInit == Init => PosixInv
<1> SUFFICES ASSUME Init PROVE PosixInv
  OBVIOUS
<1> USE DEF Init, FileInit
<1>1. DomainsOK
  BY DEF DomainsOK
<1>2. OrphansOK
  BY DEF OrphansOK
<1>3. ASSUME NEW t \in Threads PROVE ThreadOK(t)
  <2>1. pc[t] = "idle" /\ got[t] = {} /\ queue[t] = <<>> /\ Mine(t) = {}
    BY DEF Users, Mine
  <2> QED  BY <2>1 DEF ThreadOK, ArgsOK, AccountOK, Clear, Waits, Taking
<1> QED  BY <1>1, <1>2, <1>3 DEF PosixInv

\* The invariant implies the property about closing.
LEMMA PosixImplies ==
    ASSUME PosixInv PROVE CloseKeepsPipeline
BY DEF PosixInv, OrphansOK, CloseKeepsPipeline

-----------------------------------------------------------------------------
(* What a step leaves alone.                                                *)

\* A step of another thread, or of the pipeline for another.
Apart(t) ==
    /\ pc'[t] = pc[t] /\ args'[t] = args[t] /\ call'[t] = call[t] /\ left'[t] = left[t]
    /\ got'[t] = got[t] /\ buf'[t] = buf[t] /\ queue'[t] = queue[t]
    /\ Mine(t)' = Mine(t)

\* No response is taken back, and no pipeline opened again.
Forward == refused \subseteq refused' /\ (isClosed => isClosed')

\* A thread whose state and queue a step leaves alone.
LEMMA ApartOK ==
    ASSUME NEW t \in Threads, ThreadOK(t), Apart(t), Forward PROVE ThreadOK(t)'
<1>1. Segs(t)' = Segs(t)
  BY DEF Apart, Segs
<1>2. /\ \A s : Sent(t, s)' = Sent(t, s) /\ Reply(t, s)' = Reply(t, s)
      /\ Whole(t)' = Whole(t)
  BY <1>1 DEF Apart, Sent, Reply, Whole
<1>3. ArgsOK(t)'
  BY DEF Apart, ThreadOK, ArgsOK
<1>4. ASSUME t \notin refused' PROVE AccountOK(t)'
  <2>1. t \notin refused /\ AccountOK(t)
    BY <1>4 DEF Forward, ThreadOK
  <2>2. Accounted(t) => Accounted(t)'
    BY <1>1, <1>2 DEF Apart, Accounted, Somewhere
  <2>3. Clear(t) => Clear(t)'
    BY DEF Apart, Clear
  <2> QED  BY <1>2, <2>1, <2>2, <2>3 DEF Apart, Forward, AccountOK
<1> QED  BY <1>3, <1>4 DEF ThreadOK

\* t goes on in a call in which nothing is to come.
LEMMA MoveOK ==
    ASSUME NEW t \in Threads, ThreadOK(t), Forward, queue'[t] = queue[t], Mine(t)' = Mine(t),
           pc[t] \notin Waits \cup Taking \cup {"crashed"}, pc'[t] \notin Waits \cup Taking,
           got'[t] = got[t],
           pc'[t] \in {"readNames", "readPush"} => args'[t] \in Reads
    PROVE  ThreadOK(t)'
<1>1. ArgsOK(t)'
  BY DEF ThreadOK, ArgsOK, Taking
<1>2. ASSUME t \notin refused' PROVE AccountOK(t)'
  BY <1>2 DEF Forward, ThreadOK, AccountOK, Clear, Waits, Taking
<1> QED  BY <1>1, <1>2 DEF ThreadOK

-----------------------------------------------------------------------------
(* Requests and responses of the thread itself.                             *)

\* A read has finitely many segments.
LEMMA SegmentsFinite ==
    ASSUME NEW r \in Reads PROVE IsFiniteSet(Segments(r[1], r[2]))
<1>1. r[1] \in Nat /\ r[2] \in Nat /\ P \in Nat \ {0}
  BY PosixFileAssumption
<1>2. (r[1] \div P) \in Int /\ ((r[1] + r[2] + P - 1) \div P) - 1 \in Int
  BY <1>1
<1> QED  BY <1>2, FS_Interval DEF Segments

\* As many requests as segments.
LEMMA AsksCount ==
    ASSUME NEW t, NEW segs, IsFiniteSet(segs)
    PROVE  /\ Asks(t, segs) = {Sent(t, s) : s \in segs}
           /\ IsFiniteSet(Asks(t, segs)) /\ Cardinality(Asks(t, segs)) = Cardinality(segs)
<1> DEFINE f == [s \in segs |-> Sent(t, s)]
<1>1. Asks(t, segs) = {Sent(t, s) : s \in segs}
  <2>1. ASSUME NEW r \in Asks(t, segs) PROVE r = Sent(t, r.seg) /\ r.seg \in segs
    BY DEF Asks, Sent
  <2>2. ASSUME NEW s \in segs PROVE Sent(t, s) \in Asks(t, segs)
    BY DEF Asks, Sent
  <2> QED  BY <2>1, <2>2
<1>2. \A s \in segs : Sent(t, s).seg = s
  BY DEF Sent
<1>3. f \in [segs -> Asks(t, segs)]
  BY <1>1
<1>4. \A a, b \in segs : f[a] = f[b] => a = b
  BY <1>2
<1>5. \A r \in Asks(t, segs) : \E s \in segs : f[s] = r
  BY <1>1
<1> HIDE DEF f
<1>6. f \in Bijection(segs, Asks(t, segs))
  BY <1>3, <1>4, <1>5 DEF Bijection, Injection, Surjection, IsInjective
<1>7. ExistsBijection(segs, Asks(t, segs))
  BY <1>6 DEF ExistsBijection
<1> QED  BY <1>1, <1>7, FS_Bijection

\* A thread pushes the requests of a call: one for metadata, or a read's.
LEMMA PushOK ==
    ASSUME PosixInv, NEW t \in Threads, NEW segs, NEW next, Push(t, segs, next),
           IsFiniteSet(segs), pc[t] \notin Waits \cup Taking \cup {"crashed"},
           next.failed \in {"close", "idle"},
           \/ next.pushed = "openWait" /\ segs = {Meta}
           \/ /\ next.pushed = "readWait" /\ args[t] \in Reads
              /\ segs = Segments(args[t][1], args[t][2]) /\ segs # {}
           \/ next.pushed = "idle" /\ segs = {}
    PROVE  ThreadOK(t)'
<1>0. /\ t \in Users /\ ThreadOK(t) /\ got[t] = {} /\ got' = got
      /\ closedBy' = closedBy /\ refused' = refused /\ call' = call
      /\ DOMAIN queue = Users /\ DOMAIN pc = Users /\ DOMAIN left = Threads
  BY DEF Users, PosixInv, DomainsOK, ThreadOK, ArgsOK, Push, callVars
<1>1. CASE isClosed
  <2>1. pc'[t] = next.failed /\ isClosed'
    BY <1>0, <1>1 DEF Push, Goto, isClosed
  <2> QED  BY <1>0, <2>1 DEF ThreadOK, ArgsOK, AccountOK, Waits, Taking
<1>2. CASE ~isClosed
  <2>1. /\ pc'[t] = next.pushed /\ left'[t] = Cardinality(segs)
        /\ pending' = pending \cup Asks(t, segs)
        /\ next.pushed # "idle" => args' = args
    BY <1>0, <1>2 DEF Push, Goto
  <2>2. ArgsOK(t)'
    BY <1>0, <2>1 DEF ArgsOK, Taking
  <2>3. ASSUME t \notin refused PROVE AccountOK(t)'
    <3>1. Mine(t) = {} /\ queue[t] = <<>>
      BY <1>0, <1>2, <2>3 DEF ThreadOK, AccountOK, Clear
    <3>2. queue'[t] = <<>>
      BY <1>0, <3>1 DEF Push
    <3>3. Mine(t)' = {Sent(t, s) : s \in segs} /\ Mine(t)' = Asks(t, segs)
      <4>1. \A r \in Asks(t, segs) : r.thread = t
        BY DEF Asks
      <4> QED  BY <2>1, <3>1, <4>1, AsksCount DEF Mine
    <3>4. IsFiniteSet(Mine(t)') /\ Cardinality(Mine(t)') = Cardinality(segs)
      <4>1. IsFiniteSet(Asks(t, segs)) /\ Cardinality(Asks(t, segs)) = Cardinality(segs)
        BY AsksCount
      <4> QED  BY <3>3, <4>1
    <3>5. CASE segs = {} /\ next.pushed = "idle"
      BY <2>1, <3>2, <3>3, <3>5 DEF AccountOK, Clear, Waits
    <3>6. CASE next.pushed \in Waits
      <4>1. Segs(t)' = segs
        BY <2>1, <3>6 DEF Segs, Waits
      <4>2. \A s : Sent(t, s)' = Sent(t, s)
        BY <1>0 DEF Sent
      <4>3. left'[t] = Cardinality(Mine(t)') + Len(queue'[t]) /\ queue'[t] \in Seq(Whole(t)')
        <5>1. Len(queue'[t]) = 0 /\ Cardinality(segs) \in Nat
          BY <3>2, FS_CardinalityType
        <5> QED  BY <2>1, <3>2, <3>4, <5>1
      <4>4. pc'[t] = "openWait" => left'[t] = 1
        <5>1. pc'[t] = "openWait" => segs = {Meta}
          BY <2>1
        <5>2. Cardinality({Meta}) = 1
          BY FS_Singleton
        <5> QED  BY <2>1, <5>1, <5>2
      <4>5. Accounted(t)'
        BY <1>0, <3>3, <3>4, <4>1, <4>2, <4>3, <4>4 DEF Accounted, Somewhere
      <4> QED  BY <2>1, <3>6, <4>5 DEF AccountOK, Waits
    <3> QED  BY <3>5, <3>6 DEF Waits
  <2> QED  BY <1>0, <2>2, <2>3 DEF ThreadOK
<1> QED  BY <1>1, <1>2

\* The pipeline answers a request of t.
LEMMA AnswerOK ==
    ASSUME PosixInv, NEW r \in pending, r.thread \in Threads, NEW kind \in {"data", "null"},
           Answer(r, kind)
    PROVE  ThreadOK(r.thread)'
<1>1. PICK t \in Threads : t = r.thread
  OBVIOUS
<1>2. /\ t \in Users /\ ThreadOK(t) /\ DOMAIN queue = Users /\ ~isClosed
      /\ UNCHANGED <<pc, args, call, left, got, buf, closedBy>>
      /\ pending' = pending \ {r}
      /\ queue'[t] = Append(queue[t], [call |-> r.call, seg |-> r.seg, kind |-> kind])
  BY <1>1 DEF Users, PosixInv, DomainsOK, Answer, callVars, readVars
<1>3. ArgsOK(t)'
  BY <1>2 DEF ThreadOK, ArgsOK
<1>4. CASE kind = "null"
  <2>1. t \in refused'
    BY <1>1, <1>4 DEF Answer
  <2> QED  BY <1>1, <1>3, <2>1 DEF ThreadOK
<1>5. CASE kind = "data" /\ t \notin refused
  <2>1. r \in Mine(t) /\ pc[t] \in Waits /\ Accounted(t)
    BY <1>1, <1>2, <1>5 DEF Mine, ThreadOK, AccountOK, Clear
  <2>2. PICK s \in Segs(t) : r = Sent(t, s)
    BY <2>1 DEF Accounted
  <2>3. queue'[t] = Append(queue[t], Reply(t, s))
    BY <1>2, <1>5, <2>2 DEF Sent, Reply
  <2>4. Mine(t)' = Mine(t) \ {r}
    BY <1>2 DEF Mine
  <2>5. IsFiniteSet(Mine(t)') /\ Cardinality(Mine(t)') = Cardinality(Mine(t)) - 1
        /\ Cardinality(Mine(t)) \in Nat
    BY <2>1, <2>4, FS_RemoveElement, FS_CardinalityType DEF Accounted
  <2>6. /\ Segs(t)' = Segs(t) /\ Whole(t)' = Whole(t)
        /\ \A x : Sent(t, x)' = Sent(t, x) /\ Reply(t, x)' = Reply(t, x)
    BY <1>2 DEF Segs, Whole, Sent, Reply
  <2>7. /\ Reply(t, s) \in Whole(t) /\ queue[t] \in Seq(Whole(t))
    BY <2>1 DEF Whole, Accounted
  <2>8. /\ queue'[t] \in Seq(Whole(t)) /\ Len(queue'[t]) = Len(queue[t]) + 1
        /\ queue'[t][Len(queue[t]) + 1] = Reply(t, s)
        /\ \A k \in 1 .. Len(queue[t]) : queue'[t][k] = queue[t][k]
    BY <2>3, <2>7
  <2>9. ASSUME NEW x \in Segs(t) PROVE Somewhere(t, x)'
    <3>1. CASE Sent(t, x) \in Mine(t) /\ Sent(t, x) # r
      BY <2>4, <2>6, <3>1 DEF Somewhere
    <3>2. CASE x = s
      <4>1. Len(queue[t]) + 1 \in 1 .. Len(queue'[t])
        BY <2>7, <2>8
      <4> QED  BY <2>6, <2>8, <3>2, <4>1 DEF Somewhere
    <3>3. CASE \E k \in 1 .. Len(queue[t]) : queue[t][k] = Reply(t, x)
      <4>1. PICK k \in 1 .. Len(queue[t]) : queue[t][k] = Reply(t, x)
        BY <3>3
      <4>2. k \in 1 .. Len(queue'[t]) /\ queue'[t][k] = Reply(t, x)
        BY <2>7, <2>8, <4>1
      <4> QED  BY <2>6, <4>2 DEF Somewhere
    <3>4. CASE Reply(t, x) \in got[t]
      BY <1>2, <2>6, <3>4 DEF Somewhere
    <3>5. Sent(t, x) = r => x = s
      BY <2>2 DEF Sent
    <3> QED  BY <2>1, <3>1, <3>2, <3>3, <3>4, <3>5 DEF Accounted, Somewhere
  <2>10. left'[t] = Cardinality(Mine(t)') + Len(queue'[t])
    BY <1>2, <2>1, <2>5, <2>7, <2>8 DEF Accounted
  <2>11. Accounted(t)'
    BY <1>2, <2>1, <2>4, <2>5, <2>6, <2>8, <2>9, <2>10 DEF Accounted
  <2>12. AccountOK(t)'
    BY <1>2, <2>1, <2>11 DEF AccountOK, Waits
  <2> QED  BY <1>1, <1>3, <2>12 DEF ThreadOK
<1>6. CASE t \in refused
  <2>1. t \in refused'
    BY <1>6 DEF Answer
  <2> QED  BY <1>1, <1>3, <2>1 DEF ThreadOK
<1> QED  BY <1>4, <1>5, <1>6


\* A thread pops the next response of its queue.
LEMMA PopFacts ==
    ASSUME NEW t \in Threads, Accounted(t), queue[t] # <<>>
    PROVE  /\ Head(queue[t]) \in Whole(t) /\ Tail(queue[t]) \in Seq(Whole(t))
           /\ Head(queue[t]).kind = "data"
           /\ Len(Tail(queue[t])) = Len(queue[t]) - 1 /\ Len(queue[t]) \in Nat
           /\ Cardinality(Mine(t)) \in Nat
           /\ left[t] = 1 => Mine(t) = {} /\ Tail(queue[t]) = <<>>
           /\ \A s \in Segs(t) :
                \/ Sent(t, s) \in Mine(t)
                \/ \E k \in 1 .. Len(Tail(queue[t])) : Tail(queue[t])[k] = Reply(t, s)
                \/ Reply(t, s) \in got[t] \cup {Head(queue[t])}
<1> DEFINE q == queue[t]
<1>1. /\ q \in Seq(Whole(t)) /\ left[t] = Cardinality(Mine(t)) + Len(q) /\ IsFiniteSet(Mine(t))
      /\ \A s \in Segs(t) : Somewhere(t, s)
  BY DEF Accounted
<1>2. /\ Head(q) \in Whole(t) /\ Tail(q) \in Seq(Whole(t)) /\ Len(q) \in Nat \ {0}
      /\ Len(Tail(q)) = Len(q) - 1 /\ Head(q) = q[1]
      /\ \A k \in 1 .. Len(Tail(q)) : Tail(q)[k] = q[k + 1]
  <2> HIDE DEF q
  <2>1. q # <<>>
    BY DEF q
  <2> QED  BY <1>1, <2>1
<1>3. Cardinality(Mine(t)) \in Nat
  BY <1>1, FS_CardinalityType
<1>4. Head(q).kind = "data"
  BY <1>2 DEF Whole, Reply
<1>5. ASSUME left[t] = 1 PROVE Mine(t) = {} /\ Tail(q) = <<>>
  <2> DEFINE rest == Tail(q)
             n == Cardinality(Mine(t))
  <2>1. n \in Nat /\ 1 = n + Len(q) /\ Len(q) \in Nat \ {0} /\ Len(rest) = Len(q) - 1
        /\ rest \in Seq(Whole(t))
    BY <1>1, <1>2, <1>3, <1>5
  <2> HIDE DEF q, rest, n
  <2>2. n = 0 /\ Len(rest) = 0
    BY <2>1
  <2>3. rest = <<>>
    BY <2>1, <2>2
  <2>4. Mine(t) = {}
    BY <1>1, <2>2, FS_EmptySet DEF n
  <2> QED  BY <2>3, <2>4 DEF rest
<1>6. ASSUME NEW s \in Segs(t)
      PROVE  \/ Sent(t, s) \in Mine(t)
             \/ \E k \in 1 .. Len(Tail(q)) : Tail(q)[k] = Reply(t, s)
             \/ Reply(t, s) \in got[t] \cup {Head(q)}
  <2>1. CASE \E k \in 1 .. Len(q) : q[k] = Reply(t, s)
    <3>1. PICK k \in 1 .. Len(q) : q[k] = Reply(t, s)
      BY <2>1
    <3>2. CASE k = 1
      BY <1>2, <3>1, <3>2
    <3>3. CASE k # 1
      <4>1. k - 1 \in 1 .. Len(Tail(q)) /\ (k - 1) + 1 = k
        BY <1>2, <3>3
      <4>2. Tail(q)[k - 1] = q[k]
        BY <1>2, <4>1
      <4> QED  BY <3>1, <4>1, <4>2
    <3> QED  BY <3>2, <3>3
  <2> QED  BY <1>1, <2>1 DEF Somewhere
<1> QED  BY <1>2, <1>3, <1>4, <1>5, <1>6

\* syncRequestDataFor for one packet: the thread that was given it leaves nothing.
LEMMA OpenWaitOK ==
    ASSUME PosixInv, NEW t \in Threads, openWait(t) PROVE ThreadOK(t)'
<1>1. /\ t \in Users /\ ThreadOK(t) /\ pc[t] = "openWait" /\ queue[t] # <<>>
      /\ queue'[t] = Tail(queue[t])
      /\ pc'[t] \in {"close", "openCheck", "crashed"}
      /\ UNCHANGED <<got, closedBy, refused, pending>>
  BY DEF Users, PosixInv, DomainsOK, openWait, Goto
<1>2. ArgsOK(t)'
  BY <1>1 DEF ThreadOK, ArgsOK, Taking
<1>3. ASSUME t \notin refused PROVE AccountOK(t)'
  <2>1. Accounted(t) /\ left[t] = 1
    BY <1>1, <1>3 DEF ThreadOK, AccountOK, Waits, Accounted
  <2>2. Mine(t)' = {} /\ queue'[t] = <<>>
    BY <1>1, <2>1, PopFacts DEF Mine
  <2> QED  BY <1>1, <2>2 DEF AccountOK, Clear, Waits
<1> QED  BY <1>1, <1>2, <1>3 DEF ThreadOK

\* One round of a read: the last response completes what it asked for.
LEMMA ReadWaitOK ==
    ASSUME PosixInv, NEW t \in Threads, readWait(t) PROVE ThreadOK(t)'
<1>1. /\ t \in Users /\ ThreadOK(t) /\ pc[t] = "readWait" /\ args[t] \in Reads
      /\ Segments(args[t][1], args[t][2]) # {}
      /\ UNCHANGED <<call, closedBy, refused, pending>>
      /\ DOMAIN pc = Users /\ DOMAIN left = Threads /\ DOMAIN got = Threads /\ DOMAIN queue = Users
  BY DEF Users, PosixInv, DomainsOK, readWait, ThreadOK, ArgsOK, Taking, callVars
<1>2. CASE GiveUp(t)
  <2>1. pc'[t] = "idle" /\ got'[t] = {} /\ isClosed'
    BY <1>1, <1>2 DEF GiveUp, Goto, isClosed
  <2> QED  BY <2>1 DEF ThreadOK, ArgsOK, AccountOK, Waits, Taking
<1>3. CASE Pop(t, left[t] = 1)
  <2> DEFINE pkt == Head(queue[t])
  <2>1. queue[t] # <<>> /\ queue'[t] = Tail(queue[t])
    BY <1>1, <1>3 DEF Pop
  <2>2. CASE pkt.kind = "null"
    <3>1. pc'[t] = "idle" /\ got'[t] = {}
      BY <1>1, <1>3, <2>2 DEF Pop, Goto
    <3>2. t \in refused
      BY <1>1, <2>1, <2>2, PopFacts DEF ThreadOK, AccountOK, Waits
    <3> QED  BY <1>1, <3>1, <3>2 DEF ThreadOK, ArgsOK, Taking
  <2>3. CASE pkt.kind # "null"
    <3>1. /\ left'[t] = left[t] - 1 /\ got'[t] = got[t] \cup {pkt} /\ args' = args
          /\ pc'[t] = IF left[t] = 1 THEN "readCopy" ELSE "readWait"
      BY <1>1, <1>3, <2>3 DEF Pop, Goto
    <3>2. ArgsOK(t)'
      BY <1>1, <3>1 DEF ArgsOK, Taking
    <3>3. ASSUME t \notin refused PROVE AccountOK(t)'
      <4>1. Accounted(t)
        BY <1>1, <3>3 DEF ThreadOK, AccountOK, Waits
      <4>2. /\ Segs(t)' = Segs(t) /\ Whole(t)' = Whole(t) /\ Mine(t)' = Mine(t)
            /\ \A x : Sent(t, x)' = Sent(t, x) /\ Reply(t, x)' = Reply(t, x)
        BY <1>1, <3>1 DEF Segs, Whole, Sent, Reply, Mine
      <4>3. /\ pkt \in Whole(t) /\ queue'[t] \in Seq(Whole(t))
            /\ Len(queue'[t]) = Len(queue[t]) - 1 /\ Len(queue[t]) \in Nat
            /\ Cardinality(Mine(t)) \in Nat
            /\ left[t] = 1 => Mine(t) = {} /\ queue'[t] = <<>>
        BY <2>1, <4>1, PopFacts
      <4>4. \A s \in Segs(t) :
                \/ Sent(t, s) \in Mine(t)
                \/ \E k \in 1 .. Len(queue'[t]) : queue'[t][k] = Reply(t, s)
                \/ Reply(t, s) \in got'[t]
        BY <2>1, <3>1, <4>1, PopFacts
      <4> HIDE DEF pkt
      <4>5. got'[t] \subseteq Whole(t)
        BY <3>1, <4>1, <4>3 DEF Accounted
      <4>6. CASE left[t] = 1
        <5>1. \A s \in Segs(t) : Reply(t, s) \in got'[t]
          BY <4>3, <4>4, <4>6
        <5>2. got'[t] = Whole(t)'
          BY <4>2, <4>5, <5>1 DEF Whole
        <5>3. Clear(t)'
          BY <4>2, <4>3, <4>6 DEF Clear
        <5> QED  BY <3>1, <4>6, <5>2, <5>3 DEF AccountOK, Waits
      <4>7. CASE left[t] # 1
        <5>1. \A s \in Segs(t)' : Somewhere(t, s)'
          BY <4>2, <4>4 DEF Somewhere
        <5>2. left'[t] = Cardinality(Mine(t)') + Len(queue'[t])
          BY <3>1, <4>1, <4>2, <4>3 DEF Accounted
        <5>3. IsFiniteSet(Mine(t)') /\ \A r \in Mine(t)' : \E s \in Segs(t)' : r = Sent(t, s)'
          BY <4>1, <4>2 DEF Accounted
        <5>4. Accounted(t)'
          BY <3>1, <4>2, <4>3, <4>5, <4>7, <5>1, <5>2, <5>3 DEF Accounted
        <5> QED  BY <3>1, <4>7, <5>4 DEF AccountOK, Waits
      <4> QED  BY <4>6, <4>7
    <3> QED  BY <1>1, <3>2, <3>3 DEF ThreadOK
  <2> QED  BY <2>2, <2>3
<1> QED  BY <1>2, <1>3 DEF readWait


\* The octets are copied from what was asked for.
LEMMA ReadCopyOK ==
    ASSUME PosixInv, NEW t \in Threads, readCopy(t) \/ readDone(t) PROVE ThreadOK(t)'
<1>1. /\ t \in Users /\ ThreadOK(t) /\ pc[t] \in {"readCopy", "readDone"} /\ args[t] \in Reads
      /\ Segments(args[t][1], args[t][2]) # {}
      /\ UNCHANGED <<call, closedBy, refused, pending, queue>>
      /\ DOMAIN pc = Users /\ DOMAIN buf = Threads /\ DOMAIN got = Threads
  BY DEF Users, PosixInv, DomainsOK, readCopy, readDone, ThreadOK, ArgsOK, Taking, callVars,
         pipelineVars
<1>2. t \notin refused /\ ~isClosed => Clear(t)'
  <2>1. t \notin refused /\ ~isClosed => Clear(t)
    BY <1>1 DEF ThreadOK, AccountOK, Waits
  <2> QED  BY <1>1, <2>1 DEF Clear, Mine
<1>3. isClosed' = isClosed
  BY <1>1 DEF isClosed
<1>4. CASE readDone(t)
  <2>1. pc'[t] = "idle" /\ got'[t] = {}
    BY <1>1, <1>4 DEF readDone, Goto
  <2> QED  BY <1>1, <1>2, <1>3, <2>1 DEF ThreadOK, ArgsOK, AccountOK, Waits, Taking
<1>5. CASE readCopy(t) /\ ~metadata
  <2>1. pc'[t] = "crashed" /\ got' = got
    BY <1>1, <1>5 DEF readCopy, Goto
  <2>2. ArgsOK(t)'
    BY <2>1 DEF ArgsOK, Taking
  <2> QED  BY <1>1, <1>2, <1>3, <2>1, <2>2 DEF ThreadOK, AccountOK, Waits
<1>6. CASE readCopy(t) /\ metadata
  <2>1. /\ pc[t] = "readCopy" /\ pc'[t] = "readDone" /\ got' = got /\ args' = args
        /\ buf'[t] = Copied(got[t], args[t][1], args[t][2])
    BY <1>1, <1>6 DEF readCopy, Goto
  <2>2. ArgsOK(t)'
    BY <1>1, <2>1 DEF ArgsOK, Taking
  <2>3. Whole(t)' = Whole(t)
    BY <1>1, <2>1 DEF Whole, Segs, Reply
  <2>4. t \notin refused => got[t] = Whole(t)
    BY <2>1, <1>1 DEF ThreadOK, AccountOK
  <2>5. t \notin refused => buf'[t] = Copied(Whole(t)', args'[t][1], args'[t][2])
    BY <2>1, <2>3, <2>4
  <2> QED  BY <1>1, <1>2, <1>3, <2>1, <2>2, <2>3, <2>4, <2>5 DEF ThreadOK, AccountOK, Waits
<1> QED  BY <1>1, <1>4, <1>5, <1>6


-----------------------------------------------------------------------------
(* Steps of the threads that use the File.                                  *)

\* What a step of user u does not touch.
Frame(u) ==
    /\ DomainsOK' /\ UNCHANGED <<orphans, closedBy, refused>>
    /\ \A t \in Threads : t # u => Apart(t)

\* It is enough to look at the thread that takes the step.
LEMMA FrameStep ==
    ASSUME PosixInv, NEW u \in Users, Frame(u), u \in Threads => ThreadOK(u)' PROVE PosixInv'
<1>1. Forward
  BY DEF Frame, Forward, isClosed
<1>2. OrphansOK'
  BY DEF PosixInv, OrphansOK, Frame, isClosed
<1>3. ASSUME NEW t \in Threads PROVE ThreadOK(t)'
  <2>1. CASE t = u
    BY <2>1
  <2>2. CASE t # u
    BY <1>1, <2>2, ApartOK DEF PosixInv, Frame
  <2> QED  BY <2>1, <2>2
<1> QED  BY <1>2, <1>3 DEF PosixInv, Frame

LEMMA GotoFrame ==
    ASSUME DomainsOK, NEW u \in Users, NEW label, Goto(u, label)
    PROVE  /\ DOMAIN pc' = Users /\ DOMAIN args' = Users /\ pc'[u] = label
           /\ label # "idle" => args' = args
           /\ \A t \in Users : t # u => pc'[t] = pc[t] /\ args'[t] = args[t]
BY DEF DomainsOK, Goto

\* The calls and steps that only look at metadata_.
Look(t) ==
    /\ UNCHANGED <<left, got, buf, ids, metadata, pending, orphans, queue, closedBy, refused>>
    /\ DOMAIN pc' = Users /\ DOMAIN args' = Users /\ DOMAIN call' = Users
    /\ \A u \in Users : u # t => pc'[u] = pc[u] /\ args'[u] = args[u] /\ call'[u] = call[u]

LEMMA LookFrame == ASSUME DomainsOK, NEW u \in Users, Look(u) PROVE Frame(u)
<1>1. \A t : Mine(t)' = Mine(t)
  BY DEF Look, Mine
<1>2. DomainsOK'
  BY DEF Look, DomainsOK
<1>3. \A t \in Threads : t # u => Apart(t)
  BY <1>1 DEF Look, Apart, Users
<1> QED  BY <1>2, <1>3 DEF Frame, Look

LEMMA LookStep ==
    ASSUME PosixInv, NEW t \in Threads, Look(t), pc[t] \notin Waits \cup Taking \cup {"crashed"},
           pc'[t] \notin Waits \cup Taking,
           pc'[t] \in {"readNames", "readPush"} => args'[t] \in Reads
    PROVE  PosixInv'
<1>1. t \in Users /\ Frame(t)
  BY LookFrame DEF Users, PosixInv
<1>2. Forward /\ queue'[t] = queue[t] /\ Mine(t)' = Mine(t) /\ got'[t] = got[t]
  BY DEF Look, Forward, Mine, isClosed
<1>3. ThreadOK(t)'
  BY <1>2, MoveOK DEF PosixInv
<1> QED  BY <1>1, <1>3, FrameStep

LEMMA BeginLook ==
    ASSUME DomainsOK, NEW t \in Users, NEW label, NEW arg, Begin(t, label, arg),
           DOMAIN call' = Users, \A u \in Users : u # t => call'[u] = call[u]
    PROVE  /\ Look(t) /\ pc[t] = "idle" /\ pc'[t] = label
           /\ label # "idle" => args'[t] = arg
BY DEF DomainsOK, Begin, MayCall, Look, readVars, fileVars, pipelineVars

\* A thread begins a call.
LEMMA CallsOK ==
    ASSUME PosixInv, NEW t \in Threads, open(t) \/ stat(t) \/ fstat(t) \/ read(t) PROVE PosixInv'
<1>0. DomainsOK /\ t \in Users
  BY DEF PosixInv, Users
<1>1. ASSUME NEW label \in {"close", "openPush", "fstat", "open", "fstatCopy", "idle"}, NEW arg,
             Start(t, label, arg)
      PROVE  PosixInv'
  <2>1. /\ Look(t) /\ pc[t] = "idle" /\ pc'[t] = label
    BY <1>0, <1>1, BeginLook DEF Start, DomainsOK
  <2> QED  BY <2>1, LookStep DEF Waits, Taking
<1>2. CASE read(t)
  <2>1. PICK r \in Reads : Begin(t, IF metadata THEN "readNames" ELSE "idle", r)
    BY <1>2 DEF read
  <2>2. DOMAIN call' = Users /\ \A u \in Users : u # t => call'[u] = call[u]
    BY <1>0, <1>2 DEF read, DomainsOK
  <2>3. /\ Look(t) /\ pc[t] = "idle" /\ pc'[t] = IF metadata THEN "readNames" ELSE "idle"
        /\ metadata => args'[t] = r
    BY <1>0, <2>1, <2>2, BeginLook
  <2> QED  BY <2>3, LookStep DEF Waits, Taking
<1> QED  BY <1>1, <1>2 DEF open, stat, fstat

\* A thread looks at metadata_.
LEMMA LooksOK ==
    ASSUME PosixInv, NEW t \in Threads,
           getFileMetadata(t) \/ openCheck(t) \/ openCheckAgain(t) \/ fstatCheck(t) \/ fstatCopy(t)
           \/ readNames(t)
    PROVE  PosixInv'
<1>0. DomainsOK /\ t \in Users
  BY DEF PosixInv, Users
<1>1. PICK label \in {"close", "openPush", "openCheckAgain", "fstatCopy", "idle", "crashed", "readPush"} :
        Goto(t, label) /\ (label = "readPush" => pc[t] = "readNames")
  BY DEF getFileMetadata, openCheck, openCheckAgain, fstatCheck, fstatCopy, readNames, Dereference
<1>2. Look(t) /\ pc'[t] = label /\ (label # "idle" => args' = args)
  <2>1. UNCHANGED <<call, left, got, buf, ids, metadata, pending, orphans, queue, closedBy, refused>>
    BY DEF getFileMetadata, openCheck, openCheckAgain, fstatCheck, fstatCopy, readNames, Dereference,
           callVars, readVars, fileVars, pipelineVars
  <2> QED  BY <1>0, <1>1, <2>1, GotoFrame DEF Look, DomainsOK
<1>3. pc[t] \in {"open", "openCheck", "openCheckAgain", "fstat", "fstatCopy", "readNames"}
  BY DEF getFileMetadata, openCheck, openCheckAgain, fstatCheck, fstatCopy, readNames
<1>4. label = "readPush" => args[t] \in Reads
  BY <1>1 DEF PosixInv, ThreadOK, ArgsOK
<1> QED  BY <1>1, <1>2, <1>3, <1>4, LookStep DEF Waits, Taking


\* Nor does another thread's push or pop touch what is t's.
LEMMA PushFrame ==
    ASSUME PosixInv, NEW t \in Threads, NEW segs, NEW next, Push(t, segs, next) PROVE Frame(t)
<1>1. DomainsOK /\ t \in Users
  BY DEF PosixInv, Users
<1>2. PICK label : Goto(t, label)
  BY DEF Push
<1>3. /\ UNCHANGED <<call, got, buf, orphans, closedBy, refused>>
      /\ DOMAIN queue' = Users /\ DOMAIN left' = Threads
      /\ \A u \in Users : u # t => queue'[u] = queue[u]
      /\ \A u \in Threads : u # t => left'[u] = left[u]
  BY <1>1 DEF Push, DomainsOK, callVars
<1>4. ASSUME NEW u \in Threads, u # t PROVE Mine(u)' = Mine(u)
  <2>1. \A r \in Asks(t, segs) : r.thread = t
    BY DEF Asks
  <2> QED  BY <1>4, <2>1 DEF Push, Mine
<1>5. DomainsOK'
  BY <1>1, <1>2, <1>3, GotoFrame DEF DomainsOK
<1>6. \A u \in Threads : u # t => Apart(u)
  BY <1>1, <1>2, <1>3, <1>4, GotoFrame DEF Apart, Users
<1> QED  BY <1>3, <1>5, <1>6 DEF Frame

\* A thread pushes its requests.
LEMMA PushesOK == ASSUME PosixInv, NEW t \in Threads, openPush(t) \/ readPush(t) PROVE PosixInv'
<1>0. t \in Users
  BY DEF Users
<1>1. CASE openPush(t)
  <2> DEFINE next == [failed |-> "close", pushed |-> "openWait"]
  <2>1. pc[t] = "openPush" /\ Push(t, {Meta}, next) /\ IsFiniteSet({Meta})
    BY <1>1, FS_Singleton DEF openPush
  <2>2. next.failed = "close" /\ next.pushed = "openWait"
    OBVIOUS
  <2> HIDE DEF next
  <2>3. ThreadOK(t)'
    BY <2>1, <2>2, PushOK DEF Waits, Taking
  <2> QED  BY <1>0, <2>1, <2>3, PushFrame, FrameStep
<1>2. CASE readPush(t)
  <2> DEFINE segs == Segments(args[t][1], args[t][2])
             next == [failed |-> "idle", pushed |-> IF segs = {} THEN "idle" ELSE "readWait"]
  <2>1. pc[t] = "readPush" /\ Push(t, segs, next)
    BY <1>2 DEF readPush
  <2>2. next.failed = "idle" /\ next.pushed = IF segs = {} THEN "idle" ELSE "readWait"
    OBVIOUS
  <2>3. args[t] \in Reads
    BY <2>1 DEF PosixInv, ThreadOK, ArgsOK
  <2>4. IsFiniteSet(segs)
    BY <2>3, SegmentsFinite
  <2> HIDE DEF next
  <2>5. ThreadOK(t)'
    <3>1. CASE segs = {}
      <4>1. Push(t, {}, next) /\ IsFiniteSet({}) /\ next.pushed = "idle" /\ next.failed = "idle"
        BY <2>1, <2>2, <2>4, <3>1
      <4> QED  BY <2>1, <4>1, PushOK DEF Waits, Taking
    <3>2. CASE segs # {}
      <4>1. next.pushed = "readWait" /\ next.failed = "idle"
        BY <2>2, <3>2
      <4>2. pc[t] \notin Waits \cup Taking \cup {"crashed"}
        BY <2>1 DEF Waits, Taking
      <4>3. segs = Segments(args[t][1], args[t][2]) /\ segs # {} /\ Push(t, segs, next)
        BY <2>1, <3>2
      <4> HIDE DEF segs
      <4> QED  BY <2>3, <2>4, <4>1, <4>2, <4>3, PushOK
    <3> QED  BY <3>1, <3>2
  <2> QED  BY <1>0, <2>1, <2>5, PushFrame, FrameStep
<1> QED  BY <1>1, <1>2

\* A thread pops a response or returns.
LEMMA PopsOK ==
    ASSUME PosixInv, NEW t \in Threads, openWait(t) \/ readWait(t) \/ readCopy(t) \/ readDone(t)
    PROVE  PosixInv'
<1>1. DomainsOK /\ t \in Users
  BY DEF PosixInv, Users
<1>2. PICK label : Goto(t, label)
  BY DEF openWait, readWait, readCopy, readDone, Pop, GiveUp
<1>3. /\ UNCHANGED <<call, pending, orphans, closedBy, refused>>
      /\ DOMAIN queue' = Users /\ \A u \in Users : u # t => queue'[u] = queue[u]
  BY <1>1 DEF openWait, readWait, readCopy, readDone, Pop, GiveUp, DomainsOK, callVars, pipelineVars
<1>4. /\ DOMAIN left' = Threads /\ DOMAIN got' = Threads /\ DOMAIN buf' = Threads
      /\ \A u \in Threads : u # t => left'[u] = left[u] /\ got'[u] = got[u] /\ buf'[u] = buf[u]
  BY <1>1 DEF openWait, readWait, readCopy, readDone, Pop, GiveUp, DomainsOK
<1>5. \A u : Mine(u)' = Mine(u)
  BY <1>3 DEF Mine
<1>6. DomainsOK'
  BY <1>1, <1>2, <1>3, <1>4, GotoFrame DEF DomainsOK
<1>7. \A u \in Threads : u # t => Apart(u)
  BY <1>1, <1>2, <1>3, <1>4, <1>5, GotoFrame DEF Apart, Users
<1>8. Frame(t)
  BY <1>3, <1>6, <1>7 DEF Frame
<1> QED  BY <1>1, <1>8, OpenWaitOK, ReadWaitOK, ReadCopyOK, FrameStep

\* close unregisters the thread: requests of it are there only when one was
\* refused, or the pipeline is closed already.
LEMMA CloseOK ==
    ASSUME PosixInv, NEW t \in Threads, pc[t] \in {"idle", "close"}, closeLocked(t)
    PROVE  PosixInv'
<1>1. /\ DomainsOK /\ t \in Users /\ ThreadOK(t)
      /\ UNCHANGED <<left, got, buf, closedBy, refused>> /\ Goto(t, "idle")
  BY DEF PosixInv, Users, closeLocked, Unregister, readVars
<1> DEFINE gone == ids \cap {t}
<1>2. /\ orphans' = (orphans \/ \E r \in pending : r.thread \in gone)
      /\ pending' = {r \in pending : r.thread \notin gone}
      /\ queue' = [u \in Users |-> IF u \in gone THEN <<>> ELSE queue[u]]
      /\ call' = [u \in Users |-> IF u \in gone THEN 0 ELSE call[u]]
  BY DEF closeLocked, Unregister
<1>3. Forward /\ isClosed' = isClosed
  BY <1>1 DEF Forward, isClosed
<1>4. t \in refused \/ isClosed \/ Clear(t)
  BY <1>1 DEF ThreadOK, AccountOK, Waits
<1>5. ThreadOK(t)'
  <2>1. pc'[t] = "idle" /\ got'[t] = {}
    BY <1>1, GotoFrame DEF ThreadOK, ArgsOK, Taking
  <2>2. Clear(t) => Clear(t)'
    BY <1>1, <1>2 DEF Clear, Mine
  <2> QED  BY <1>1, <1>3, <1>4, <2>1, <2>2 DEF ThreadOK, ArgsOK, AccountOK, Waits, Taking
<1>6. ASSUME NEW u \in Threads, u # t PROVE ThreadOK(u)'
  <2>1. Mine(u)' = Mine(u)
    BY <1>2, <1>6 DEF Mine
  <2>2. Apart(u)
    BY <1>1, <1>2, <1>6, <2>1, GotoFrame DEF Apart, Users
  <2> QED  BY <1>3, <2>2, ApartOK DEF PosixInv
<1>7. OrphansOK'
  <2>1. (\E r \in pending : r.thread \in gone) => ~Clear(t)
    BY DEF Clear, Mine
  <2> QED  BY <1>1, <1>2, <1>3, <1>4, <2>1 DEF PosixInv, OrphansOK
<1>8. DomainsOK'
  BY <1>1, <1>2, GotoFrame DEF DomainsOK
<1> QED  BY <1>5, <1>6, <1>7, <1>8 DEF PosixInv

\* All steps of a thread on the file.
LEMMA FileStepsOK ==
    ASSUME PosixInv, NEW t \in Threads, FileCalls(t) \/ FileSteps(t) PROVE PosixInv'
<1>1. CASE close(t) \/ openFailed(t)
  BY <1>1, CloseOK DEF close, openFailed, MayCall
<1> QED  BY <1>1, CallsOK, LooksOK, PushesOK, PopsOK DEF FileCalls, FileSteps


-----------------------------------------------------------------------------
(* Steps of the pipeline and of the other users of the Consumer.            *)

\* The pipeline closes.
LEMMA CloseByOK ==
    ASSUME PosixInv, NEW who, Close(who), who = "worker" => orphans PROVE PosixInv'
<1>1. /\ ~isClosed /\ closedBy' = who
      /\ UNCHANGED <<pc, call, args, left, got, buf, pending, orphans, queue, refused>>
  BY DEF Close, callVars, readVars
<1>2. DomainsOK'
  BY <1>1 DEF PosixInv, DomainsOK
<1>3. refused \subseteq refused' /\ Forward
  BY <1>1 DEF Forward
<1>4. OrphansOK'
  <2>1. orphans => refused # {}
    BY <1>1 DEF PosixInv, OrphansOK
  <2> QED  BY <1>1, <2>1 DEF OrphansOK
<1>5. ASSUME NEW t \in Threads PROVE ThreadOK(t)'
  <2>1. Apart(t)
    BY <1>1 DEF Apart, Mine
  <2> QED  BY <1>3, <2>1, ApartOK DEF PosixInv
<1> QED  BY <1>2, <1>4, <1>5 DEF PosixInv

\* The steps of the pipeline.
LEMMA PipelineOK == ASSUME PosixInv, Pipeline PROVE PosixInv'
<1>1. ASSUME NEW r \in pending, NEW kind \in {"data", "null"}, Answer(r, kind) PROVE PosixInv'
  <2>1. /\ UNCHANGED <<pc, call, args, left, got, buf, orphans, closedBy>>
        /\ pending' = pending \ {r} /\ refused \subseteq refused'
    BY <1>1 DEF Answer, callVars, readVars
  <2>2. DOMAIN queue' = Users /\ \A u \in Users : u # r.thread => queue'[u] = queue[u]
    BY <1>1 DEF Answer, PosixInv, DomainsOK
  <2>3. Forward /\ isClosed' = isClosed
    BY <2>1 DEF Forward, isClosed
  <2>4. DomainsOK'
    BY <2>1, <2>2 DEF PosixInv, DomainsOK
  <2>5. OrphansOK'
    <3>1. refused # {} => refused' # {}
      BY <2>1
    <3> QED  BY <2>1, <2>3, <3>1 DEF PosixInv, OrphansOK
  <2>6. ASSUME NEW t \in Threads PROVE ThreadOK(t)'
    <3>1. CASE t = r.thread
      BY <1>1, <3>1, AnswerOK
    <3>2. CASE t # r.thread
      <4>1. Mine(t)' = Mine(t)
        BY <2>1, <3>2 DEF Mine
      <4>2. Apart(t)
        BY <2>1, <2>2, <3>2, <4>1 DEF Apart, Users
      <4> QED  BY <2>3, <4>2, ApartOK DEF PosixInv
    <3> QED  BY <3>1, <3>2
  <2> QED  BY <2>4, <2>5, <2>6 DEF PosixInv
<1>2. CASE AnswerOrphan
  BY <1>2, CloseByOK DEF AnswerOrphan
<1>3. CASE LinkDown
  BY <1>3, CloseByOK DEF LinkDown
<1> QED  BY <1>1, <1>2, <1>3 DEF Pipeline

\* A directory or the stat of a path has an identifier of its own.
LEMMA HandlersOK ==
    ASSUME PosixInv, NEW h \in Handlers, DirCalls(h) \/ DirSteps(h) PROVE PosixInv'
<1>0. DomainsOK /\ h \in Users /\ h \notin Threads
  BY PosixFileAssumption DEF PosixInv, Users
<1>1. ASSUME NEW label, NEW arg, Start(h, label, arg) PROVE PosixInv'
  <2>1. Look(h)
    BY <1>0, <1>1, BeginLook DEF Start, DomainsOK
  <2> QED  BY <1>0, <2>1, LookFrame, FrameStep
<1>2. ASSUME NEW label, Goto(h, label),
             UNCHANGED <<call, left, got, buf, orphans, closedBy, refused>>,
             DOMAIN queue' = Users, \A t \in Threads : queue'[t] = queue[t],
             \A t \in Threads : Mine(t)' = Mine(t)
      PROVE  PosixInv'
  <2>1. DomainsOK'
    BY <1>0, <1>2, GotoFrame DEF DomainsOK
  <2>2. \A t \in Threads : Apart(t)
    BY <1>0, <1>2, GotoFrame DEF Apart, Users
  <2>3. Frame(h)
    BY <1>2, <2>1, <2>2 DEF Frame
  <2> QED  BY <1>0, <2>3, FrameStep
<1>3. ASSUME NEW seg, NEW waiting, PushOne(h, seg, waiting) PROVE PosixInv'
  <2>1. \A t \in Threads : Mine(t)' = Mine(t)
    <3>1. \A r \in Asks(h, {seg}) : r.thread = h
      BY DEF Asks
    <3> QED  BY <1>0, <1>3, <3>1 DEF PushOne, Mine
  <2>2. /\ UNCHANGED <<call, left, got, buf, orphans, closedBy, refused, queue>>
        /\ \E label : Goto(h, label)
    BY <1>3 DEF PushOne, callVars, readVars
  <2> QED  BY <1>0, <1>2, <2>1, <2>2 DEF DomainsOK
<1>4. ASSUME NEW label, Goto(h, label), PopOne(h) PROVE PosixInv'
  <2>1. /\ UNCHANGED <<call, left, got, buf, orphans, closedBy, refused, pending>>
        /\ queue' = [queue EXCEPT ![h] = Tail(@)]
    BY <1>4 DEF PopOne, callVars, readVars
  <2>2. DOMAIN queue' = Users /\ \A t \in Threads : queue'[t] = queue[t] /\ Mine(t)' = Mine(t)
    BY <1>0, <2>1 DEF DomainsOK, Users, Mine
  <2> QED  BY <1>2, <1>4, <2>1, <2>2
<1>5. CASE DirCalls(h)
  BY <1>1, <1>5 DEF DirCalls, Opendir, Stat, Readdir, Closedir
<1>6. CASE metaPush(h) \/ listPush(h)
  BY <1>3, <1>6 DEF metaPush, listPush
<1>7. CASE metaWait(h)
  BY <1>4, <1>7 DEF metaWait
<1>8. CASE listWait(h)
  <2>1. PopOne(h) /\ \E label : Goto(h, label)
    BY <1>8 DEF listWait, ListRound
  <2> QED  BY <1>4, <2>1
<1> QED  BY <1>5, <1>6, <1>7, <1>8 DEF DirSteps

-----------------------------------------------------------------------------
(* The theorems.                                                            *)

\* Every step preserves the invariant.
LEMMA PosixStep == PosixInv /\ [Next]_vars => PosixInv'
<1> SUFFICES ASSUME PosixInv, [Next]_vars PROVE PosixInv'
  OBVIOUS
<1>1. CASE Config \/ OssInit \/ UNCHANGED vars
  <2>1. UNCHANGED <<pc, call, args, left, got, buf, pending, orphans, queue, closedBy, refused>>
    BY <1>1 DEF Config, OssInit, vars, callVars, readVars, pipelineVars
  <2>2. DomainsOK' /\ OrphansOK' /\ Forward
    BY <2>1 DEF PosixInv, DomainsOK, OrphansOK, Forward, isClosed
  <2>3. ASSUME NEW t \in Threads PROVE ThreadOK(t)'
    <3>1. Apart(t)
      BY <2>1 DEF Apart, Mine
    <3> QED  BY <2>2, <3>1, ApartOK DEF PosixInv
  <2> QED  BY <2>2, <2>3 DEF PosixInv
<1>2. CASE FileNext
  BY <1>2, PipelineOK, FileStepsOK DEF FileNext
<1>3. CASE sigint_handler
  BY <1>3, CloseByOK DEF sigint_handler
<1>4. CASE \E h \in Handlers : DirCalls(h) \/ DirSteps(h)
  BY <1>4, HandlersOK
<1> QED  BY <1>1, <1>2, <1>3, <1>4 DEF Next

\* The invariant of the file and its pipeline.
LEMMA PosixInvariant == Spec => []PosixInv
BY PosixInit, PosixStep, PTL DEF Spec

\* However the calls of the threads interleave, closing a file takes the
\* pipeline that all files and directories share down only when a request got
\* no Data before.
THEOREM PosixCloseKeepsPipeline == Spec => []CloseKeepsPipeline
BY PosixInvariant, PosixImplies, PTL

-----------------------------------------------------------------------------
(* The octets of a read: what copyDataContent makes of the segments.        *)

LEMMA MinMaxTwo ==
    ASSUME NEW a \in Int, NEW b \in Int
    PROVE  /\ Min({a, b}) = IF a <= b THEN a ELSE b
           /\ Max({a, b}) = IF a <= b THEN b ELSE a
BY DEF Min, Max

LEMMA MaxZero == ASSUME NEW b \in Int PROVE Max({0, b}) = IF 0 <= b THEN b ELSE 0
BY DEF Max

LEMMA DivMod == ASSUME NEW a \in Nat, NEW b \in Nat \ {0}
  PROVE /\ (a \div b) \in Nat /\ (a % b) \in 0 .. b - 1 /\ a = b * (a \div b) + (a % b)
OBVIOUS

LEMMA ModSmall == ASSUME NEW a \in Nat, NEW b \in Nat \ {0}, a < b PROVE a % b = a
OBVIOUS

\* A set of natural numbers has a least element.
LEMMA NatMin == ASSUME NEW T \in SUBSET Nat, T # {} PROVE \E x \in T : \A y \in T : x <= y
<1> DEFINE Less == {ss \in Nat \X Nat : ss[1] < ss[2]}
<1>1. IsWellFoundedOn(Less, Nat)
  <2>1. OpToRel(<, Nat) = Less
    BY Zenon DEF OpToRel
  <2> QED  BY <2>1, NatLessThanWellFounded
<1> HIDE DEF Less
<1>2. PICK x \in T : \A y \in T : ~ (<<y, x>> \in Less)
  BY <1>1, WFMin
<1>3. \A y \in Nat : y < x => <<y, x>> \in Less
  BY DEF Less
<1>4. ASSUME NEW y \in T PROVE x <= y
  <2>1. x \in Nat /\ y \in Nat /\ ~(y < x)
    BY <1>2, <1>3
  <2> QED  BY <2>1
<1> QED BY <1>4

\* Where a segment begins.
At(seg) == seg * P

\* n octets of the file from off on, and a buffer that holds them.
Run(off, n) == [i \in 1 .. n |-> off + i - 1]
Buffer(off, n, blen) == [octets |-> Run(off, n), blen |-> blen]

Lesser(a, b) == IF a <= b THEN a ELSE b

\* The octets of a segment that begins at x.
ContentLen(x) == IF FileSize <= x THEN 0 ELSE Lesser(P, FileSize - x)

\* How many octets a read has when it has put segments that end at x.
Upto(off, len, x) ==
    LET end == Lesser(off + len, Lesser(x, FileSize))
    IN  IF end <= off THEN 0 ELSE end - off

Filled(off, len, x) == Buffer(off, Upto(off, len, x), len - Upto(off, len, x))

LEMMA Sizes == P \in Nat \ {0} /\ FileSize \in Nat /\ Word \in Nat \ {0}
BY PosixFileAssumption

LEMMA AtInNat ==
    ASSUME NEW seg \in Nat
    PROVE  At(seg) \in Nat /\ At(seg + 1) = At(seg) + P
BY Sizes DEF At

\* The content of a segment is a run of octets of the file.
LEMMA ContentIsRun ==
    ASSUME NEW seg \in Nat
    PROVE  Content(seg) = Run(At(seg), ContentLen(At(seg)))
<1> DEFINE x == At(seg)
           d == Max({0, FileSize - x})
<1>1. P \in Nat \ {0} /\ x \in Int /\ FileSize - x \in Int /\ FileSize \in Nat
  BY Sizes, AtInNat
<1> HIDE DEF x
<1>2. d = IF 0 <= FileSize - x THEN FileSize - x ELSE 0
  BY <1>1, MaxZero
<1>3. d \in Int
  BY <1>1, <1>2
<1> HIDE DEF d
<1>4. Min({P, d}) = IF P <= d THEN P ELSE d
  BY <1>1, <1>3, MinMaxTwo
<1>5. Min({P, d}) = ContentLen(x)
  BY <1>1, <1>2, <1>4 DEF ContentLen, Lesser
<1>6. Content(seg) = [k \in 1 .. Min({P, d}) |-> x + k - 1]
  BY DEF Content, At, x, d
<1> QED  BY <1>5, <1>6 DEF Run, x

\* One segment: what it adds goes on where the buffer ends.
LEMMA PutExact ==
    ASSUME NEW off, NEW n, NEW blen, NEW seg, NEW co, NEW c, NEW m, NEW e, NEW rest,
           off \in Nat, n \in Nat, blen \in Nat, seg \in Nat, co \in Nat, c \in Nat, m \in Nat,
           c = ContentLen(At(seg)), co <= c,
           m = Lesser(c - co, blen), m > 0 => off + n = At(seg) + co,
           e = n + m, rest = blen - m, FileSize + P < Word
    PROVE  copyDataContent(Buffer(off, n, blen), seg, co) = Buffer(off, e, rest)
<1>0. P \in Nat \ {0} /\ Word \in Nat \ {0} /\ FileSize \in Nat
  BY Sizes
<1>1. PICK x \in Nat : x = At(seg)
  BY AtInNat
<1>2. c <= P /\ c < Word
  BY <1>0, <1>1 DEF ContentLen, Lesser
<1>3. (c - co) % Word = c - co
  BY <1>0, <1>2, ModSmall
<1>4. Content(seg) = Run(x, c)
  BY <1>1, ContentIsRun
<1>5. Len(Run(x, c)) = c
  BY DEF Run
<1>6. Min({c - co, blen}) = m
  <2>1. c - co \in Int /\ blen \in Int
    OBVIOUS
  <2> QED  BY <2>1, MinMaxTwo DEF Lesser
<1> DEFINE b == Buffer(off, n, blen)
           more == [k \in 1 .. m |-> IF co + k <= c THEN Run(x, c)[co + k] ELSE Junk]
<1>7. b.octets = Run(off, n) /\ b.blen = blen
  BY DEF Buffer
<1> HIDE DEF b
<1>8. copyDataContent(b, seg, co) = [octets |-> b.octets \o more, blen |-> b.blen - m]
  BY <1>3, <1>4, <1>5, <1>6, <1>7 DEF copyDataContent
<1>8a. PICK s \in Int : s = off + n
  OBVIOUS
<1>9. more = Run(s, m)
  <2>1. ASSUME NEW k \in 1 .. m
        PROVE  (IF co + k <= c THEN Run(x, c)[co + k] ELSE Junk) = off + n + k - 1
    <3>1. co + k \in 1 .. c /\ m > 0
      BY DEF Lesser
    <3>2. Run(x, c)[co + k] = x + (co + k) - 1
      BY <3>1 DEF Run
    <3> QED  BY <1>1, <3>1, <3>2
  <2> QED  BY <1>8a, <2>1 DEF Run
<1> HIDE DEF more
<1>9a. off \in Int
  OBVIOUS
<1>10. Run(off, n) \o Run(s, m) = Run(off, e)
  BY ONLY <1>8a, <1>9a, n \in Nat, m \in Nat, e = n + m DEF Run
<1> QED  BY <1>7, <1>8, <1>9, <1>10 DEF b, Buffer

\* What the first segment of a read adds.
LEMMA FirstUpto ==
    ASSUME NEW off, NEW len, NEW x, NEW r, NEW c, NEW y, y = x + P,
           off \in Nat, len \in Nat, x \in Nat, r \in Nat, r < P, off = x + r, c = ContentLen(x),
           off <= FileSize \/ r = 0
    PROVE  c \in Nat /\ r <= c /\ Lesser(c - r, len) = Upto(off, len, y)
BY Sizes DEF Upto, Lesser, ContentLen

\* The first segment of a read, from inside of it.
LEMMA PutFirst ==
    ASSUME NEW off \in Nat, NEW len \in Nat, off <= FileSize \/ off % P = 0,
           FileSize + P < Word
    PROVE  copyDataContent(Buffer(off, 0, len), off \div P, off % P)
             = Filled(off, len, At((off \div P) + 1))
<1>1. P \in Nat \ {0} /\ FileSize \in Nat
  BY Sizes
<1>1a. /\ (off \div P) \in Nat /\ (off % P) \in 0 .. P - 1
       /\ off = P * (off \div P) + (off % P)
  BY ONLY <1>1, off \in Nat, DivMod
<1>2. PICK f \in Nat : f = off \div P
  BY ONLY <1>1a
<1>3. PICK r \in Nat : r = off % P
  BY ONLY <1>1, <1>1a
<1>4. r < P /\ off = P * f + r
  BY ONLY <1>1, <1>1a, <1>2, <1>3
<1>5. PICK x \in Nat : x = At(f)
  BY AtInNat
<1>6. off = x + r /\ At(f + 1) = x + P
  <2>1. off = x + r
    BY <1>1, <1>4, <1>5 DEF At
  <2> QED  BY <2>1, <1>5, AtInNat
<1> DEFINE c == ContentLen(At(f))
           m == Lesser(c - r, len)
<1>7. c = ContentLen(x) /\ c \in Nat
  BY <1>1, <1>5 DEF ContentLen, Lesser
<1> HIDE DEF c
<1>7a. PICK y \in Nat : y = x + P
  BY <1>1
<1>8. r <= c /\ m = Upto(off, len, y)
  <2>1. off <= FileSize \/ r = 0
    BY <1>3
  <2>2. r < P /\ off = x + r
    BY <1>4, <1>6
  <2> QED  BY ONLY off \in Nat, len \in Nat, x \in Nat, r \in Nat, <1>7, <1>7a, <2>1, <2>2, FirstUpto
<1>9. m \in Nat /\ m <= len
  BY <1>7, <1>8 DEF Lesser
<1>11. PICK z \in Nat : z = 0
  OBVIOUS
<1>11a. PICK rest \in Nat : rest = len - m
  BY <1>9
<1>11b. /\ c = ContentLen(At(f)) /\ m = Lesser(c - r, len) /\ off + z = At(f) + r
        /\ m = z + m
  BY <1>5, <1>6, <1>9, <1>11 DEF c
<1> HIDE DEF m
<1>12. copyDataContent(Buffer(off, z, len), f, r) = Buffer(off, m, rest)
  BY <1>7, <1>8, <1>9, <1>11a, <1>11b, PutExact
<1> QED  BY <1>7a, <1>11, <1>11a, <1>2, <1>3, <1>6, <1>8, <1>9, <1>12 DEF Filled

\* The next one, from its beginning.
LEMMA PutNext ==
    ASSUME NEW off \in Nat, NEW len \in Nat, NEW seg \in Nat, off < At(seg), FileSize + P < Word
    PROVE  copyDataContent(Filled(off, len, At(seg)), seg, 0) = Filled(off, len, At(seg + 1))
<1>1. P \in Nat \ {0} /\ FileSize \in Nat
  BY Sizes
<1>2. PICK x \in Nat : x = At(seg)
  BY AtInNat
<1>3. At(seg + 1) = x + P
  BY <1>2, AtInNat
<1> DEFINE c == ContentLen(At(seg))
           n == Upto(off, len, x)
           blen == len - n
           m == Lesser(c - 0, blen)
<1>4. c = ContentLen(x) /\ c \in Nat
  BY <1>1, <1>2 DEF ContentLen, Lesser
<1> HIDE DEF c
<1>5. n \in Nat /\ n <= len
  BY <1>1 DEF Upto, Lesser
<1>6. blen \in Nat
  BY <1>5
<1>7. m \in Nat /\ (m > 0 => off + n = x + 0) /\ n + m = Upto(off, len, x + P)
  BY <1>1, <1>2, <1>4, <1>5, <1>6 DEF Upto, Lesser, ContentLen
<1>8. PICK z \in Nat : z = 0
  OBVIOUS
<1>8a. PICK e \in Nat : e = n + m
  BY <1>5, <1>7
<1>8b. PICK rest \in Nat : rest = blen - m /\ rest = len - e
  BY <1>4, <1>5, <1>6, <1>7, <1>8a DEF Lesser
<1>9. c = ContentLen(At(seg)) /\ m = Lesser(c - z, blen) /\ (m > 0 => off + n = At(seg) + z) /\ z <= c
  BY <1>2, <1>4, <1>7, <1>8 DEF c
<1>10. Filled(off, len, x) = Buffer(off, n, blen)
  BY DEF Filled
<1> HIDE DEF m, n, blen
<1>11. copyDataContent(Buffer(off, n, blen), seg, z) = Buffer(off, e, rest)
  BY <1>4, <1>5, <1>6, <1>7, <1>8a, <1>8b, <1>9, PutExact
<1> QED  BY <1>8a, <1>8b, <1>2, <1>3, <1>7, <1>8, <1>10, <1>11 DEF Filled

\* The segments of a read reach from before its offset to behind its end.
LEMMA SegmentsReach ==
    ASSUME NEW off, NEW len, off \in Nat, len \in Nat, Segments(off, len) # {}
    PROVE  \E n \in Nat \ {0} :
               /\ Segments(off, len) = (off \div P) .. (off \div P) + n - 1
               /\ off \div P \in Nat
               /\ off < At((off \div P) + 1)
               /\ off + len <= At((off \div P) + n)
<1>1. P \in Nat \ {0}
  BY Sizes
<1>2. PICK from \in Nat : from = off \div P
  BY <1>1, DivMod
<1>3. PICK last \in Nat : last = (off + len + P - 1) \div P
  <2>1. off + len + P - 1 \in Nat
    BY <1>1
  <2> QED  BY <1>1, <2>1, DivMod
<1>4. off < P * from + P
  BY <1>1, <1>2, DivMod
<1>5. off + len <= P * last
  <2>1. PICK a \in Nat : a = off + len + P - 1
    BY <1>1
  <2>2. a = P * (a \div P) + (a % P) /\ (a % P) \in 0 .. P - 1
    BY <1>1, <2>1, DivMod
  <2>3. last = a \div P
    BY <1>3, <2>1
  <2> QED  BY <1>1, <2>1, <2>2, <2>3
<1>6. At(from + 1) = P * from + P /\ At(last) = P * last
  BY <1>1 DEF At
<1>7. Segments(off, len) = from .. last - 1
  BY <1>2, <1>3 DEF Segments
<1>8. PICK n \in Nat \ {0} : n = last - from
  BY <1>7
<1>9. from + n = last
  BY <1>8
<1>10. /\ Segments(off, len) = from .. from + n - 1
       /\ from \in Nat /\ off < At(from + 1) /\ off + len <= At(from + n)
  BY <1>4, <1>5, <1>6, <1>7, <1>9
<1> QED  BY ONLY <1>2, <1>8, <1>10

\* A later segment starts later.
LEMMA AtMonotone ==
    ASSUME NEW m \in Nat, NEW n \in Nat, m <= n
    PROVE  At(m) <= At(n)
BY Sizes DEF At

\* The responses to a call of a read: Data for each of its segments.
Response(c, seg) == [call |-> c, seg |-> seg, kind |-> "data"]
Responses(c, from, n) == {Response(c, s) : s \in from .. from + n - 1}
Ordered(c, from, n) == [k \in 1 .. n |-> Response(c, from + k - 1)]

\* The number of responses to a range of segments.
LEMMA ResponsesCount ==
    ASSUME NEW c, NEW from, NEW n, from \in Nat, n \in Nat
    PROVE  Cardinality(Responses(c, from, n)) = n
<1> DEFINE f == Ordered(c, from, n)
           all == Responses(c, from, n)
<1>1. \A s : Response(c, s).seg = s
  BY DEF Response
<1>2. \A k \in 1 .. n : f[k] = Response(c, from + k - 1) /\ f[k] \in all
  BY DEF Ordered, Responses
<1>3. f \in [1 .. n -> all]
  BY <1>2 DEF Ordered
<1>4. ASSUME NEW j \in 1 .. n, NEW k \in 1 .. n, f[j] = f[k] PROVE j = k
  <2>1. from + j - 1 = from + k - 1
    BY <1>1, <1>2, <1>4
  <2> QED  BY <2>1
<1>5. ASSUME NEW r \in all PROVE \E k \in 1 .. n : f[k] = r
  <2>1. PICK s \in from .. from + n - 1 : r = Response(c, s)
    BY DEF Responses
  <2>2. s - from + 1 \in 1 .. n /\ from + (s - from + 1) - 1 = s
    OBVIOUS
  <2> QED  BY <1>2, <2>1, <2>2
<1> HIDE DEF f
<1>6. f \in Bijection(1 .. n, all)
  BY <1>3, <1>4, <1>5 DEF Bijection, Injection, Surjection, IsInjective
<1> QED  BY <1>6, FS_CountingElements DEF ExistsBijection

\* Sorting them gives them in the order of their segments: there is one way.
LEMMA SortedIsOrdered ==
    ASSUME NEW c, NEW from, NEW n, from \in Nat, n \in Nat
    PROVE  Sorted(Responses(c, from, n)) = Ordered(c, from, n)
<1> DEFINE all == Responses(c, from, n)
           InOrder(s) == /\ \A r \in all : \E k \in DOMAIN s : s[k] = r
                         /\ \A j, k \in DOMAIN s : j < k => s[j] # s[k] /\ s[j].seg <= s[k].seg
           f == Ordered(c, from, n)
           g == Sorted(all)
<1>1. \A s : Response(c, s).seg = s
  BY DEF Response
<1>2. /\ DOMAIN f = 1 .. n
      /\ \A k \in 1 .. n : f[k] = Response(c, from + k - 1) /\ f[k].seg = from + k - 1 /\ f[k] \in all
  BY <1>1 DEF Ordered, Responses
<1>3. f \in [1 .. n -> all]
  BY <1>2 DEF Ordered
<1>4. ASSUME NEW r \in all PROVE \E k \in 1 .. n : f[k] = r
  <2>1. PICK s \in from .. from + n - 1 : r = Response(c, s)
    BY DEF Responses
  <2>2. s - from + 1 \in 1 .. n /\ from + (s - from + 1) - 1 = s
    OBVIOUS
  <2> QED  BY <1>2, <2>1, <2>2
<1>5. ASSUME NEW j \in 1 .. n, NEW k \in 1 .. n, j < k PROVE f[j] # f[k] /\ f[j].seg <= f[k].seg
  BY <1>2, <1>5
<1>6. InOrder(f)
  BY <1>2, <1>4, <1>5
<1>7. g \in [1 .. n -> all] /\ InOrder(g)
  <2>1. g = CHOOSE s \in [1 .. n -> all] : InOrder(s)
    <3>1. Cardinality(all) = n
      BY ResponsesCount
    <3> QED  BY <3>1 DEF Sorted
  <2>2. \E s \in [1 .. n -> all] : InOrder(s)
    BY <1>3, <1>6
  <2> HIDE DEF f, g, InOrder
  <2> QED  BY <2>1, <2>2
<1> HIDE DEF f, g, all
<1>8. ASSUME NEW k \in 1 .. n, g[k] # f[k] PROVE FALSE
  <2> DEFINE wrong == {j \in 1 .. n : g[j] # f[j]}
  <2>1. wrong \in SUBSET Nat /\ wrong # {}
    BY <1>8
  <2>2. PICK i \in wrong : \A j \in wrong : i <= j
    <3> HIDE DEF wrong
    <3> QED  BY <2>1, NatMin
  <2>3. i \in 1 .. n /\ g[i] # f[i] /\ \A j \in 1 .. n : j < i => g[j] = f[j]
    BY <2>2
  <2> HIDE DEF wrong
  <2>4. PICK m \in 1 .. n : f[m] = g[i]
    BY <1>4, <1>7, <2>3
  <2>5. PICK j \in 1 .. n : g[j] = f[i]
    BY <1>2, <1>7, <2>3
  <2>6. i < m
    <3>1. m # i
      BY <2>3, <2>4
    <3>2. ~(m < i)
      <4>1. SUFFICES ASSUME m < i PROVE FALSE
        OBVIOUS
      <4>2. g[m] = g[i] /\ m \in DOMAIN g /\ i \in DOMAIN g
        BY <1>7, <2>3, <2>4, <4>1
      <4> QED  BY <1>7, <4>1, <4>2
    <3> QED  BY <2>3, <3>1, <3>2
  <2>7. i < j
    <3>1. j # i
      BY <2>3, <2>5
    <3>2. ~(j < i)
      BY <1>5, <2>3, <2>5
    <3> QED  BY <2>3, <3>1, <3>2
  <2>8. g[i].seg <= g[j].seg
    BY <1>7, <2>3, <2>7
  <2> QED  BY <1>2, <2>3, <2>4, <2>5, <2>6, <2>8
<1>9. g = f
  BY <1>2, <1>3, <1>7, <1>8
<1> QED  BY <1>9 DEF g, f, all

\* Of all the responses to a read copyDataContent makes the octets of the file
\* from its offset on, as many as it asked for and the file has.
LEMMA CopyExact ==
    ASSUME NEW c, NEW off, NEW len, off \in Nat, len \in Nat, Segments(off, len) # {},
           off <= FileSize \/ off % P = 0, FileSize + P < Word
    PROVE  Copied({Response(c, s) : s \in Segments(off, len)}, off, len) = FileOctets(off, len)
<1> DEFINE from == off \div P
           all == {Response(c, s) : s \in Segments(off, len)}
           segs == Sorted(all)
           start == [octets |-> <<>>, blen |-> len]
           Put(f) == [k \in 1 .. Len(segs) |->
                        IF k = 1 THEN copyDataContent(start, segs[1].seg, off % P)
                        ELSE copyDataContent(f[k - 1], segs[k].seg, 0)]
           buff == CHOOSE f : f = Put(f)
<1>1. Copied(all, off, len) = buff[Len(segs)].octets
  BY DEF Copied
<1>2. PICK n \in Nat \ {0} :
        /\ Segments(off, len) = from .. from + n - 1
        /\ from \in Nat /\ off < At(from + 1) /\ off + len <= At(from + n)
  BY SegmentsReach
<1> DEFINE g == [k \in 1 .. n |-> Filled(off, len, At(from + k))]
<1>3. segs = Ordered(c, from, n)
  <2>1. all = Responses(c, from, n)
    BY <1>2 DEF Responses
  <2> HIDE DEF from, all
  <2> QED  BY <1>2, <2>1, SortedIsOrdered
<1>3a. copyDataContent(start, from, off % P) = Filled(off, len, At(from + 1))
  <2>1. start = Buffer(off, 0, len)
    BY DEF Buffer, Run
  <2> QED  BY <2>1, PutFirst
<1> HIDE DEF from, segs
<1>4. Len(segs) = n /\ segs[1].seg = from /\ \A k \in 1 .. n : segs[k].seg = from + k - 1
  <2>1. Len(segs) = n /\ \A k \in 1 .. n : segs[k] = Response(c, from + k - 1)
    BY <1>2, <1>3 DEF Ordered
  <2>2. \A s : Response(c, s).seg = s
    BY DEF Response
  <2>3. \A k \in 1 .. n : segs[k].seg = from + k - 1
    BY <2>1, <2>2
  <2>4. 1 \in 1 .. n /\ from + 1 - 1 = from
    BY <1>2
  <2> QED  BY <2>1, <2>3, <2>4
<1>5. ASSUME NEW k \in 1 .. n, k # 1
      PROVE  copyDataContent(Filled(off, len, At(from + (k - 1))), segs[k].seg, 0)
                = Filled(off, len, At(from + k))
  <2>1. PICK seg \in Nat : seg = from + k - 1
    BY <1>2, <1>5
  <2>2. from + (k - 1) = seg /\ from + k = seg + 1 /\ segs[k].seg = seg /\ from + 1 <= seg
    BY <1>2, <1>4, <1>5, <2>1
  <2>3. off < At(seg)
    <3>1. PICK s \in Nat : s = from + 1
      BY <1>2
    <3>2. At(s) <= At(seg) /\ At(s) \in Nat /\ At(seg) \in Nat /\ off < At(s)
      BY <1>2, <2>2, <3>1, AtMonotone, AtInNat
    <3> QED  BY <3>2
  <2> QED  BY <2>2, <2>3, PutNext
<1>6. g = Put(g)
  <2>1. ASSUME NEW k \in 1 .. n
        PROVE  g[k] = IF k = 1 THEN copyDataContent(start, segs[1].seg, off % P)
                      ELSE copyDataContent(g[k - 1], segs[k].seg, 0)
    <3>1. CASE k = 1
      BY <1>3a, <1>4, <3>1
    <3>2. CASE k # 1
      <4>1. k - 1 \in 1 .. n /\ g[k - 1] = Filled(off, len, At(from + (k - 1)))
        BY <1>2, <3>2
      <4> QED  BY <1>5, <3>2, <4>1
    <3> QED  BY <3>1, <3>2
  <2>2. g = [k \in 1 .. n |-> g[k]]
    OBVIOUS
  <2> HIDE DEF g
  <2> QED  BY <1>4, <2>1, <2>2
<1> HIDE DEF g, start, all
<1>7. buff = Put(buff)
  BY <1>6
<1> HIDE DEF buff
<1>8. ASSUME NEW k \in 1 .. n, buff[k] # g[k] PROVE FALSE
  <2> DEFINE wrong == {j \in 1 .. n : buff[j] # g[j]}
  <2>1. wrong \in SUBSET Nat /\ wrong # {}
    BY <1>8
  <2>2. PICK j \in wrong : \A i \in wrong : j <= i
    <3> HIDE DEF wrong
    <3> QED  BY <2>1, NatMin
  <2>3. j \in 1 .. n /\ buff[j] # g[j]
    OBVIOUS
  <2>4. buff[j] = IF j = 1 THEN copyDataContent(start, segs[1].seg, off % P)
                  ELSE copyDataContent(buff[j - 1], segs[j].seg, 0)
    BY <1>4, <1>7, <2>3
  <2>5. g[j] = IF j = 1 THEN copyDataContent(start, segs[1].seg, off % P)
               ELSE copyDataContent(g[j - 1], segs[j].seg, 0)
    BY <1>4, <1>6, <2>3
  <2>6. j # 1 => buff[j - 1] = g[j - 1]
    <3>1. SUFFICES ASSUME j # 1, buff[j - 1] # g[j - 1] PROVE FALSE
      OBVIOUS
    <3>2. j - 1 \in wrong
      <4>1. j - 1 \in 1 .. n
        BY <1>2, <2>3, <3>1
      <4> QED  BY <3>1, <4>1
    <3> QED  BY <2>2, <2>3, <3>2
  <2> QED  BY <2>3, <2>4, <2>5, <2>6
<1>9. buff[n] = Filled(off, len, At(from + n))
  BY <1>2, <1>8 DEF g
<1>10. Filled(off, len, At(from + n)).octets = FileOctets(off, len)
  <2>0. PICK s \in Nat : s = from + n
    BY <1>2
  <2>1. PICK x \in Nat : x = At(from + n)
    BY <2>0, AtInNat
  <2>2. Upto(off, len, x) = Max({0, Min({off + len, FileSize}) - off})
    <3> DEFINE d == Min({off + len, FileSize})
    <3>1. FileSize \in Nat /\ off + len \in Int
      BY Sizes
    <3>2. d = IF off + len <= FileSize THEN off + len ELSE FileSize
      BY <3>1, MinMaxTwo
    <3>3. d - off \in Int
      BY <3>1, <3>2
    <3> HIDE DEF d
    <3>4. Max({0, d - off}) = IF 0 <= d - off THEN d - off ELSE 0
      BY <3>3, MaxZero
    <3>5. Upto(off, len, x) = Max({0, d - off})
      BY <1>2, <2>1, <3>1, <3>2, <3>4 DEF Upto, Lesser
    <3> QED  BY <3>5 DEF d
  <2> QED  BY <2>1, <2>2 DEF Filled, Buffer, Run, FileOctets
<1> QED  BY <1>1, <1>4, <1>9, <1>10 DEF all

\* Whatever other threads do with the same File, and in whatever order the
\* segments arrive, a read of File::read returns the octets of the file that it
\* asked for, unless the thread met a null response before or the read starts
\* past the end inside a segment.
THEOREM PosixReadsOwnOctets == Spec => []ReadsOwnOctets
<1>1. PosixInv => ReadsOwnOctets
  <2> SUFFICES ASSUME PosixInv, NEW t \in Threads, pc[t] = "readDone",
                      t \notin refused, ~(args[t][1] > FileSize /\ args[t][1] % P # 0)
               PROVE  buf[t] = FileOctets(args[t][1], args[t][2])
    BY DEF ReadsOwnOctets
  <2>1. /\ args[t] \in Reads /\ Segments(args[t][1], args[t][2]) # {}
        /\ buf[t] = Copied(Whole(t), args[t][1], args[t][2])
    BY DEF PosixInv, ThreadOK, ArgsOK, AccountOK, Taking
  <2>2. PICK off \in Nat, len \in Nat : off = args[t][1] /\ len = args[t][2]
    BY <2>1, PosixFileAssumption
  <2>3. FileSize + P < Word /\ (off <= FileSize \/ off % P = 0)
    <3>1. Word > FileSize + off + len + P /\ {P, Word, FileSize} \subseteq Nat
      BY <2>1, <2>2, PosixFileAssumption
    <3> QED  BY <2>2, <3>1
  <2>4. Whole(t) = {Response(call[t], s) : s \in Segments(off, len)}
    BY <2>2 DEF Whole, Segs, Reply, Response
  <2>5. Copied({Response(call[t], s) : s \in Segments(off, len)}, off, len) = FileOctets(off, len)
    BY <2>1, <2>2, <2>3, CopyExact
  <2> QED  BY <2>1, <2>2, <2>4, <2>5
<1> QED  BY <1>1, PosixInvariant, PTL

-----------------------------------------------------------------------------
(* The names of a directory: what ParseNames makes of the listing.          *)

Names == Len(Listing)
Oct == {Nul} \cup UNION {Range(Listing[k]) : k \in DOMAIN Listing}

LEMMA NamesNat == Names \in Nat
BY PosixOssAssumption DEF Names

LEMMA ListingOK ==
    /\ Names \in Nat /\ DOMAIN Listing = 1 .. Names
    /\ \A k \in 1 .. Names :
        /\ Listing[k] \in Seq(Oct) /\ Len(Listing[k]) \in Nat \ {0}
        /\ \A i \in 1 .. Len(Listing[k]) : Listing[k][i] # Nul
<1>1. Listing \in Seq(Range(Listing))
  BY PosixOssAssumption
<1>2. Names \in Nat /\ DOMAIN Listing = 1 .. Names
  BY <1>1 DEF Names
<1>3. ASSUME NEW k \in 1 .. Names
      PROVE  /\ Listing[k] \in Seq(Oct) /\ Len(Listing[k]) \in Nat \ {0}
             /\ \A i \in 1 .. Len(Listing[k]) : Listing[k][i] # Nul
  <2> DEFINE name == Listing[k]
  <2>1. k \in DOMAIN Listing
    BY <1>2
  <2>2. name \in Seq(Range(name)) /\ name # <<>> /\ Nul \notin Range(name)
    BY <2>1, PosixOssAssumption
  <2>3. Range(name) \subseteq Oct /\ Nul \in Oct
    <3>1. Range(name) \in {Range(Listing[i]) : i \in DOMAIN Listing}
      BY <2>1
    <3>2. \A R, W : R \in W => R \subseteq ({Nul} \cup UNION W)
      BY Zenon
    <3> QED  BY <3>1, <3>2, Zenon DEF Oct
  <2> HIDE DEF name
  <2>4. Len(name) \in Nat /\ name \in [1 .. Len(name) -> Range(name)] /\ Len(name) # 0
    BY <2>2
  <2>5. name \in Seq(Oct)
    BY <2>3, <2>4
  <2>6. \A i \in 1 .. Len(name) : name[i] # Nul
    BY <2>2, <2>4
  <2> QED  BY <2>4, <2>5, <2>6 DEF name
<1> QED  BY <1>2, <1>3

\* One name more.
Joined(s, name) == s \o Append(name, Nul)

IsJoin(s, name, u) ==
    /\ u \in Seq(Oct) /\ {Len(s), Len(name), Len(u)} \subseteq Nat
    /\ Len(u) = Len(s) + Len(name) + 1
    /\ u[Len(u)] = Nul
    /\ \A j \in 1 .. Len(s) : u[j] = s[j]
    /\ \A i \in 1 .. Len(name) : u[Len(s) + i] = name[i]

LEMMA JoinedOK ==
    ASSUME NEW s, NEW name, s \in Seq(Oct), name \in Seq(Oct)
    PROVE  IsJoin(s, name, Joined(s, name))
<1> DEFINE t == Append(name, Nul)
<1>1. Len(s) \in Nat /\ Len(name) \in Nat /\ Nul \in Oct
  BY DEF Oct
<1>2. /\ Len(t) = Len(name) + 1 /\ t[Len(name) + 1] = Nul
      /\ \A i \in 1 .. Len(name) : t[i] = name[i]
  OBVIOUS
<1>3. t \in Seq(Oct)
  BY <1>1
<1> HIDE DEF t
<1>4. s \o t \in Seq(Oct) /\ Len(s \o t) = Len(s) + Len(t)
  BY <1>3
<1>5. /\ \A j \in 1 .. Len(s) : (s \o t)[j] = s[j]
      /\ \A i \in 1 .. Len(t) : (s \o t)[Len(s) + i] = t[i]
  BY <1>3
<1>6. PICK e, l, u : {e, l} \subseteq Nat /\ e = Len(s) /\ l = Len(name) /\ u = s \o t
  BY <1>1
<1>7. u \in Seq(Oct) /\ Len(u) = e + l + 1 /\ Len(u) \in Nat
  BY <1>2, <1>4, <1>6
<1>8. u[Len(u)] = Nul
  <2>1. l + 1 \in 1 .. Len(t) /\ Len(u) = e + (l + 1)
    BY <1>2, <1>6, <1>7
  <2> QED  BY <1>2, <1>5, <1>6, <2>1
<1>9. \A i \in 1 .. l : u[e + i] = name[i]
  BY <1>2, <1>5, <1>6
<1>10. Joined(s, name) = u
  BY <1>6 DEF Joined, t
<1> QED  BY <1>5, <1>6, <1>7, <1>8, <1>9, <1>10 DEF IsJoin

\* The octets up to and with each name.
IsPieces(pre) ==
    /\ pre \in [0 .. Names -> Seq(Oct)]
    /\ pre[0] = <<>>
    /\ \A k \in 1 .. Names : pre[k] = Joined(pre[k - 1], Listing[k])

\* FlattenSeq puts the names together one after the other.
LEMMA PiecesExist == \E pre : IsPieces(pre) /\ pre[Names] = Octets
<1> USE NamesNat
<1> DEFINE seqs == [k \in DOMAIN Listing |-> Append(Listing[k], Nul)]
           Cat(s, i) == s \o seqs[i]
           Put(m, f) == [i \in 1 .. m |-> IF i = 1 THEN seqs[i] ELSE Cat(f[i - 1], i)]
           flatten == CHOOSE f : f = Put(Len(seqs), f)
<1>1. /\ Len(seqs) = Names /\ (Names = 0 => seqs = <<>>)
      /\ \A k \in 1 .. Names : seqs[k] = Append(Listing[k], Nul)
  BY ListingOK
<1>2. Octets = IF Len(seqs) = 0 THEN seqs ELSE flatten[Len(seqs)]
  BY DEF Octets, FlattenSeq
<1>3. \A k \in 1 .. Names : \A s : Cat(s, k) = Joined(s, Listing[k])
  BY <1>1 DEF Joined
<1>4. ASSUME NEW k \in 1 .. Names PROVE seqs[k] = Joined(<<>>, Listing[k])
  <2>1. PICK name \in Seq(Oct) : name = Listing[k]
    BY ListingOK
  <2>2. <<>> \o Append(name, Nul) = Append(name, Nul)
    <3>1. Nul \in Oct
      BY DEF Oct
    <3> QED  BY <3>1
  <2> QED  BY <1>1, <2>1, <2>2 DEF Joined
<1> HIDE DEF seqs, Cat
<1>5. CASE Names = 0
  <2>1. Octets = <<>>
    BY <1>1, <1>2, <1>5
  <2> DEFINE pre == [k \in 0 .. Names |-> <<>>]
  <2>2. IsPieces(pre) /\ pre[Names] = Octets
    BY <1>5, <2>1 DEF IsPieces
  <2> QED  BY <2>2
<1>6. CASE Names # 0
  <2> DEFINE Has(m) == \E f : f = Put(m, f)
             Bad == {m \in 1 .. Names : ~ Has(m)}
  <2>1. ASSUME Bad # {} PROVE FALSE
    <3>1. PICK m \in Bad : \A x \in Bad : m <= x
      <4> HIDE DEF Has
      <4>1. Bad \in SUBSET Nat
        OBVIOUS
      <4> HIDE DEF Bad
      <4> QED  BY <2>1, <4>1, NatMin
    <3>2. m \in 1 .. Names /\ ~ Has(m)
      <4> HIDE DEF Has
      <4> QED  OBVIOUS
    <3>3. m # 1
      <4> DEFINE f == [i \in 1 .. 1 |-> seqs[1]]
      <4>1. f = Put(1, f)
        OBVIOUS
      <4> QED  BY <3>2, <4>1
    <3>4. PICK p \in 1 .. Names : p = m - 1 /\ Has(p) /\ m = p + 1
      <4> HIDE DEF Has
      <4>1. PICK p \in 1 .. Names : p = m - 1 /\ m = p + 1
        BY <3>2, <3>3
      <4>2. p \notin Bad
        <5> HIDE DEF Bad
        <5> QED  BY <3>1, <3>2, <4>1
      <4> QED  BY <4>1, <4>2
    <3>5. PICK f : f = Put(p, f)
      BY <3>4
    <3> DEFINE g == [i \in 1 .. m |-> IF i = m THEN Cat(f[p], m) ELSE f[i]]
    <3>6. ASSUME NEW i \in 1 .. m
          PROVE  g[i] = IF i = 1 THEN seqs[i] ELSE Cat(g[i - 1], i)
      <4>1. CASE i = m
        <5>1. i # 1 /\ i - 1 = p /\ p \in 1 .. m /\ p # m
          BY <3>2, <3>3, <3>4, <4>1
        <5> QED  BY <4>1, <5>1
      <4>2. CASE i # m
        <5>1. i \in 1 .. p /\ (i # 1 => i - 1 \in 1 .. m /\ i - 1 # m)
          BY <3>2, <3>4, <4>2
        <5>2. f[i] = IF i = 1 THEN seqs[i] ELSE Cat(f[i - 1], i)
          BY <3>5, <5>1
        <5> QED  BY <4>2, <5>1, <5>2
      <4> QED  BY <4>1, <4>2
    <3>7. g = [i \in 1 .. m |-> g[i]]
      OBVIOUS
    <3> HIDE DEF g
    <3>8. g = Put(m, g)
      BY <3>6, <3>7
    <3> QED  BY <3>2, <3>8
  <2>2. Has(Names)
    <3> HIDE DEF Has
    <3>1. Names \in 1 .. Names
      BY <1>6
    <3> QED  BY <2>1, <3>1
  <2>3. flatten = Put(Names, flatten)
    BY <1>1, <2>2
  <2> HIDE DEF flatten
  <2>4. \A i \in 1 .. Names : flatten[i] = IF i = 1 THEN seqs[i] ELSE Cat(flatten[i - 1], i)
    BY <2>3
  <2> DEFINE pre == [k \in 0 .. Names |-> IF k = 0 THEN <<>> ELSE flatten[k]]
  <2>5. ASSUME NEW k \in 1 .. Names PROVE pre[k] = Joined(pre[k - 1], Listing[k])
    <3>1. k \in 0 .. Names /\ k - 1 \in 0 .. Names /\ k # 0
      OBVIOUS
    <3>2. CASE k = 1
      BY <1>4, <2>4, <3>1, <3>2
    <3>3. CASE k # 1
      <4>1. pre[k] = Cat(flatten[k - 1], k) /\ pre[k - 1] = flatten[k - 1]
        BY <2>4, <3>1, <3>3
      <4> QED  BY <1>3, <4>1
    <3> QED  BY <3>2, <3>3
  <2>6. pre[Names] = Octets /\ pre[0] = <<>> /\ DOMAIN pre = 0 .. Names
    BY <1>1, <1>2, <1>6
  <2> HIDE DEF pre
  <2>7. ASSUME NEW k \in 0 .. Names, pre[k] \notin Seq(Oct) PROVE FALSE
    <3> DEFINE Odd == {x \in 0 .. Names : pre[x] \notin Seq(Oct)}
    <3>1. Odd \in SUBSET Nat /\ Odd # {}
      BY <2>7
    <3>2. PICK m \in Odd : \A x \in Odd : m <= x
      <4> HIDE DEF Odd
      <4> QED  BY <3>1, NatMin
    <3>3. m \in 0 .. Names /\ pre[m] \notin Seq(Oct)
      OBVIOUS
    <3>4. m # 0
      <4>1. <<>> \in Seq(Oct)
        OBVIOUS
      <4> QED  BY <2>6, <3>3, <4>1
    <3>5. PICK p \in 0 .. Names : p = m - 1 /\ m \in 1 .. Names /\ p < m
      BY <3>3, <3>4
    <3>6. p \notin Odd
      <4> HIDE DEF Odd
      <4>1. p \in Nat /\ m \in Nat
        BY <3>5
      <4> QED  BY <3>2, <3>5, <4>1
    <3>7. pre[p] \in Seq(Oct) /\ pre[m] = Joined(pre[p], Listing[m])
      BY <2>5, <3>5, <3>6
    <3>8. Listing[m] \in Seq(Oct)
      BY <3>5, ListingOK
    <3> QED  BY <3>3, <3>7, <3>8, JoinedOK DEF IsJoin
  <2>8. pre \in [0 .. Names -> Seq(Oct)]
    <3>1. pre = [k \in 0 .. Names |-> pre[k]]
      BY <2>6 DEF pre
    <3> QED  BY <2>7, <3>1
  <2> QED  BY <2>5, <2>6, <2>8 DEF IsPieces
<1> QED  BY <1>5, <1>6

\* s begins t.
Starts(s, t) == Len(s) <= Len(t) /\ \A j \in 1 .. Len(s) : t[j] = s[j]

\* A prefix of a prefix.
LEMMA StartsTransitive ==
    ASSUME NEW s, NEW t, NEW u, Len(s) \in Nat, Len(t) \in Nat, Len(u) \in Nat,
           Starts(s, t), Starts(t, u)
    PROVE  Starts(s, u)
BY DEF Starts

\* The octets up to a name, and with it.
LEMMA PieceOfNext ==
    ASSUME NEW pre, IsPieces(pre), NEW k \in 0 .. Names, NEW m \in 1 .. Names, k = m - 1
    PROVE  /\ pre[k] \in Seq(Oct) /\ pre[m] \in Seq(Oct)
           /\ Len(pre[k]) \in Nat /\ Len(pre[m]) \in Nat
           /\ IsJoin(pre[k], Listing[m], pre[m]) /\ Starts(pre[k], pre[m])
<1> USE NamesNat
<1>1. m \in 0 .. Names
  OBVIOUS
<1>2. pre[k] \in Seq(Oct) /\ pre[m] \in Seq(Oct) /\ pre[m] = Joined(pre[k], Listing[m])
  BY <1>1 DEF IsPieces
<1>3. IsJoin(pre[k], Listing[m], pre[m])
  BY <1>2, ListingOK, JoinedOK
<1>4. /\ Len(pre[k]) \in Nat /\ Len(pre[m]) \in Nat /\ Len(Listing[m]) \in Nat
      /\ Len(pre[m]) = Len(pre[k]) + Len(Listing[m]) + 1
      /\ \A j \in 1 .. Len(pre[k]) : pre[m][j] = pre[k][j]
  BY <1>3 DEF IsJoin
<1>5. Len(pre[k]) <= Len(pre[m])
  <2>1. \A a, b, c \in Nat : c = a + b + 1 => a <= c
    OBVIOUS
  <2> QED  BY <1>4, <2>1
<1> QED  BY <1>2, <1>3, <1>4, <1>5 DEF Starts

\* Each of them begins the octets of the listing.
LEMMA PieceOfOctets ==
    ASSUME NEW pre, IsPieces(pre), NEW k \in 0 .. Names
    PROVE  /\ Len(pre[k]) \in Nat /\ Len(pre[Names]) \in Nat /\ Starts(pre[k], pre[Names])
<1> USE NamesNat
<1>0. \A i \in 0 .. Names : Len(pre[i]) \in Nat
  <2>1. \A i \in 0 .. Names : pre[i] \in Seq(Oct)
    BY DEF IsPieces
  <2> QED  BY <2>1
<1> DEFINE Wrong == {d \in 0 .. Names : ~ Starts(pre[Names - d], pre[Names])}
<1>1. ASSUME Wrong # {} PROVE FALSE
  <2>1. Wrong \in SUBSET Nat
    OBVIOUS
  <2>2. PICK d \in Wrong : \A x \in Wrong : d <= x
    <3> HIDE DEF Wrong
    <3> QED  BY <1>1, <2>1, NatMin
  <2>3. d \in 0 .. Names /\ ~ Starts(pre[Names - d], pre[Names])
    OBVIOUS
  <2>4. d # 0
    <3>1. SUFFICES ASSUME d = 0 PROVE FALSE
      OBVIOUS
    <3>2. Names - d = Names /\ Names \in 0 .. Names
      BY <3>1
    <3>3. Starts(pre[Names], pre[Names])
      BY <1>0, <3>2 DEF Starts
    <3> QED  BY <2>3, <3>2, <3>3
  <2>5. PICK x \in 0 .. Names : x = d - 1 /\ x < d /\ d \in Nat
    BY <2>3, <2>4
  <2>6. x \notin Wrong
    <3> HIDE DEF Wrong
    <3>1. x \in Nat
      BY <2>5
    <3> QED  BY <2>2, <2>5, <3>1
  <2>7. PICK i \in 1 .. Names, h \in 0 .. Names : i = Names - x /\ h = Names - d /\ h = i - 1
    BY <2>3, <2>4, <2>5
  <2>8. Starts(pre[i], pre[Names])
    BY <2>6, <2>7
  <2>9. Starts(pre[h], pre[i])
    BY <2>7, PieceOfNext
  <2>10. Starts(pre[h], pre[Names])
    <3>1. Len(pre[h]) \in Nat /\ Len(pre[i]) \in Nat /\ Len(pre[Names]) \in Nat
      <4>1. i \in 0 .. Names /\ Names \in 0 .. Names
        BY <2>7
      <4> QED  BY <1>0, <4>1
    <3> QED  BY <2>8, <2>9, <3>1, StartsTransitive
  <2> QED  BY <2>3, <2>7, <2>10
<1>2. PICK d \in 0 .. Names : k = Names - d
  <2>1. Names - k \in 0 .. Names /\ k = Names - (Names - k)
    OBVIOUS
  <2> QED  BY <2>1
<1>3. d \notin Wrong
  BY <1>1
<1>4. Names \in 0 .. Names
  OBVIOUS
<1> QED  BY <1>0, <1>2, <1>3, <1>4

\* Where a name lies in the octets: behind e of them, up to the Nul at z.
NameAt(name, e, z, l) ==
    /\ e \in Nat /\ l \in Nat \ {0} /\ z = e + l + 1 /\ z <= Len(Octets)
    /\ Octets[z] = Nul
    /\ \A i \in 1 .. l : Octets[e + i] = name[i] /\ Octets[e + i] # Nul

\* Where the octets of a name are in the listing.
LEMMA NameOctets ==
    ASSUME NEW pre, IsPieces(pre), pre[Names] = Octets,
           NEW k \in 0 .. Names, NEW m \in 1 .. Names, k = m - 1,
           NEW e, e = Len(pre[k]), NEW z, z = Len(pre[m]), NEW l, l = Len(Listing[m])
    PROVE  NameAt(Listing[m], e, z, l)
<1> USE NamesNat
<1> DEFINE u == pre[m]
           name == Listing[m]
<1>1. m \in 0 .. Names
  OBVIOUS
<1>2. Starts(u, Octets) /\ Len(Octets) \in Nat
  BY <1>1, PieceOfOctets
<1>3. /\ IsJoin(pre[k], name, u) /\ l \in Nat \ {0}
      /\ \A i \in 1 .. l : name[i] # Nul
  BY PieceOfNext, ListingOK
<1> HIDE DEF u, name
<1>4. l = Len(name) /\ z = Len(u)
  BY DEF u, name
<1>5. /\ e \in Nat /\ l \in Nat /\ z \in Nat /\ z = e + l + 1 /\ u[z] = Nul
      /\ \A i \in 1 .. l : u[e + i] = name[i]
  BY <1>3, <1>4 DEF IsJoin
<1>6. z <= Len(Octets) /\ \A j \in 1 .. z : Octets[j] = u[j]
  BY <1>2, <1>4 DEF Starts
<1>7. z \in 1 .. z /\ \A i \in 1 .. l : e + i \in 1 .. z
  BY ONLY <1>5
<1>8. ASSUME NEW i \in 1 .. l PROVE Octets[e + i] = name[i] /\ Octets[e + i] # Nul
  <2>1. PICK j \in 1 .. z : j = e + i
    BY <1>7
  <2>2. Octets[j] = u[j] /\ u[j] = name[i] /\ name[i] # Nul
    BY <1>3, <1>5, <1>6, <2>1
  <2> QED  BY <2>1, <2>2
<1>9. Octets[z] = Nul
  BY <1>5, <1>6, <1>7
<1> QED  BY <1>3, <1>5, <1>6, <1>8, <1>9 DEF name, NameAt

LEMMA SubSeqIs ==
    ASSUME NEW S, NEW s \in Seq(S), NEW i \in 1 .. Len(s), NEW q \in 1 .. Len(s),
           NEW l \in Nat, q = i + l - 1
    PROVE  SubSeq(s, i, q) = [x \in 1 .. l |-> s[i + x - 1]]
OBVIOUS

\* After j octets the parser has the names that end in them, and the next one
\* begins behind the last of these.
Parsed(pre, k) == [names |-> SubSeq(Listing, 1, k), i |-> Len(pre[k]) + 1, over |-> FALSE]
Between(pre, k, j) == Len(pre[k]) <= j /\ (k # Names => j < Len(pre[k + 1]))

\* getDirContent's parser returns the names of the directory, whatever octet is
\* behind the listing.
LEMMA ParseExact == ASSUME NEW behind PROVE ParseNames(Octets, behind) = Listing
<1> USE NamesNat
<1> DEFINE b == Append(Octets, behind)
           step(acc, j) ==
             IF acc.over \/ b[j] # Nul THEN acc
             ELSE IF b[acc.i] = Nul THEN [acc EXCEPT !.over = TRUE]
             ELSE [acc EXCEPT !.names = Append(@, SubSeq(b, acc.i, j - 1)), !.i = j + 1]
           start == [names |-> <<>>, i |-> 1, over |-> FALSE]
           Put(m, f) == [j \in 0 .. m |-> IF j = 0 THEN start ELSE step(f[j - 1], j)]
           upTo == CHOOSE f : f = Put(Len(b), f)
<1>1. ParseNames(Octets, behind) = upTo[Len(b)].names
  BY DEF ParseNames
<1>2. PICK pre : IsPieces(pre) /\ pre[Names] = Octets
  BY PiecesExist
<1>3. PICK n \in Nat : n = Len(Octets) /\ Octets \in Seq(Oct) /\ DOMAIN Octets = 1 .. n
  <2>1. Octets \in Seq(Oct)
    <3>1. Names \in 0 .. Names
      OBVIOUS
    <3> QED  BY <1>2, <3>1 DEF IsPieces
  <2> QED  BY <2>1
<1>4. Len(b) = n + 1 /\ b[n + 1] = behind /\ \A j \in 1 .. n : b[j] = Octets[j]
  <2>1. Octets \in Seq(Oct \cup {behind})
    BY <1>3
  <2> QED  BY <1>3, <2>1
<1> HIDE DEF step, start
<1>5. \E f : f = Put(Len(b), f)
  <2> DEFINE Has(m) == \E f : f = Put(m, f)
             Bad == {m \in 0 .. n + 1 : ~ Has(m)}
  <2>1. ASSUME Bad # {} PROVE FALSE
    <3>1. PICK m \in Bad : \A x \in Bad : m <= x
      <4> HIDE DEF Has
      <4>1. Bad \in SUBSET Nat
        OBVIOUS
      <4> HIDE DEF Bad
      <4> QED  BY <2>1, <4>1, NatMin
    <3>2. m \in 0 .. n + 1 /\ m \in Nat /\ ~ Has(m)
      <4> HIDE DEF Has
      <4> QED  OBVIOUS
    <3>3. m # 0
      <4> DEFINE f == [j \in 0 .. 0 |-> start]
      <4>1. f = Put(0, f)
        OBVIOUS
      <4> QED  BY <3>2, <4>1
    <3>4. PICK p \in 0 .. n + 1 : p = m - 1 /\ Has(p) /\ m = p + 1 /\ p \in Nat
      <4> HIDE DEF Has
      <4>1. PICK p \in 0 .. n + 1 : p = m - 1 /\ m = p + 1 /\ p \in Nat
        BY <3>2, <3>3
      <4>2. p \notin Bad
        <5> HIDE DEF Bad
        <5> QED  BY <3>1, <3>2, <4>1
      <4> QED  BY <4>1, <4>2
    <3>5. PICK f : f = Put(p, f)
      BY <3>4
    <3> DEFINE g == [j \in 0 .. m |-> IF j = m THEN step(f[p], m) ELSE f[j]]
    <3>6. ASSUME NEW j \in 0 .. m
          PROVE  g[j] = IF j = 0 THEN start ELSE step(g[j - 1], j)
      <4>1. CASE j = m
        <5>1. j # 0 /\ j - 1 = p /\ p \in 0 .. m /\ p # m
          BY <3>2, <3>3, <3>4, <4>1
        <5> QED  BY <4>1, <5>1
      <4>2. CASE j # m
        <5>1. j \in 0 .. p /\ (j # 0 => j - 1 \in 0 .. m /\ j - 1 # m)
          BY <3>2, <3>4, <4>2
        <5>2. f[j] = IF j = 0 THEN start ELSE step(f[j - 1], j)
          BY <3>5, <5>1
        <5> QED  BY <4>2, <5>1, <5>2
      <4> QED  BY <4>1, <4>2
    <3>7. g = [j \in 0 .. m |-> g[j]]
      OBVIOUS
    <3> HIDE DEF g
    <3>8. g = Put(m, g)
      BY <3>6, <3>7
    <3> QED  BY <3>2, <3>8
  <2>2. Has(n + 1)
    <3> HIDE DEF Has
    <3>1. n + 1 \in 0 .. n + 1
      OBVIOUS
    <3> QED  BY <2>1, <3>1
  <2> QED  BY <1>4, <2>2
<1>6. upTo = Put(Len(b), upTo)
  BY <1>5
<1> HIDE DEF upTo
<1>7. upTo[0] = start /\ \A j \in 1 .. n + 1 : upTo[j] = step(upTo[j - 1], j)
  BY <1>4, <1>6
<1>8. ASSUME NEW j \in 1 .. n, NEW k \in 0 .. Names, NEW p \in 0 .. n, p = j - 1,
             Between(pre, k, p), upTo[p] = Parsed(pre, k)
      PROVE  \E x \in 0 .. Names : Between(pre, x, j) /\ upTo[j] = Parsed(pre, x)
  <2>1. k # Names
    <3>1. SUFFICES ASSUME k = Names PROVE FALSE
      OBVIOUS
    <3>2. Len(pre[k]) = n /\ Len(pre[k]) <= p
      BY <1>2, <1>3, <1>8, <3>1 DEF Between
    <3> QED  BY <1>8, <3>2
  <2>2. PICK m \in 1 .. Names : k = m - 1 /\ m = k + 1 /\ m \in 0 .. Names
    BY <2>1
  <2>3. PICK e, z, l : e = Len(pre[k]) /\ z = Len(pre[m]) /\ l = Len(Listing[m])
    OBVIOUS
  <2>4. /\ e \in Nat /\ l \in Nat \ {0} /\ z = e + l + 1 /\ z <= n
        /\ Octets[z] = Nul
        /\ \A i \in 1 .. l : Octets[e + i] = Listing[m][i] /\ Octets[e + i] # Nul
    <3>1. NameAt(Listing[m], e, z, l)
      BY <1>2, <2>2, <2>3, NameOctets
    <3> QED  BY <1>3, <3>1 DEF NameAt
  <2>5. e <= p /\ p < z
    BY <1>8, <2>1, <2>2, <2>3 DEF Between
  <2>6. upTo[j] = step(Parsed(pre, k), j) /\ b[j] = Octets[j]
    <3>1. j \in 1 .. n + 1
      OBVIOUS
    <3> QED  BY <1>4, <1>7, <1>8, <3>1
  <2>7. CASE j # z
    <3>1. PICK i \in 1 .. l : j = e + i
      <4>1. j - e \in 1 .. l /\ j = e + (j - e)
        BY <1>8, <2>4, <2>5, <2>7
      <4> QED  BY <4>1
    <3>2. b[j] # Nul
      BY <2>4, <2>6, <3>1
    <3>3. upTo[j] = Parsed(pre, k)
      BY <2>6, <3>2 DEF step
    <3>4. e <= j /\ j < z
      BY <1>8, <2>4, <2>5, <2>7
    <3> QED  BY <2>2, <2>3, <3>3, <3>4 DEF Between
  <2>8. CASE j = z
    <3>1. b[j] = Nul
      BY <2>4, <2>6, <2>8
    <3>2. PICK i \in 1 .. n : i = e + 1 /\ b[i] # Nul
      <4>1. 1 \in 1 .. l /\ e + 1 \in 1 .. n
        BY <2>4
      <4> QED  BY <1>4, <2>4, <4>1
    <3>3. SubSeq(b, i, j - 1) = Listing[m]
      <4> DEFINE name == Listing[m]
      <4>1. name \in Seq(Oct) /\ Len(name) = l
        BY <2>3, ListingOK
      <4>2. \A x \in 1 .. l : b[i + x - 1] = name[x]
        <5>1. ASSUME NEW x \in 1 .. l PROVE b[i + x - 1] = name[x]
          <6>1. PICK y \in 1 .. n : y = e + x /\ y = i + x - 1
            BY <2>4, <3>2
          <6> QED  BY <1>4, <2>4, <6>1
        <5> QED  BY <5>1
      <4>3. j - 1 = i + l - 1
        BY <2>4, <2>8, <3>2
      <4> HIDE DEF name
      <4>4. SubSeq(b, i, j - 1) = [x \in 1 .. l |-> b[i + x - 1]]
        <5>1. b \in Seq(Oct \cup {behind}) /\ Len(b) = n + 1
          <6>1. Octets \in Seq(Oct \cup {behind})
            BY <1>3
          <6> QED  BY <1>4, <6>1
        <5>2. PICK q \in 1 .. Len(b) : q = j - 1 /\ q = i + l - 1
          BY <1>8, <2>4, <2>8, <3>2, <4>3, <5>1
        <5>3. i \in 1 .. Len(b) /\ l \in Nat
          BY <2>4, <3>2, <5>1
        <5> HIDE DEF b
        <5>4. \A S : b \in Seq(S) => SubSeq(b, i, q) = [x \in 1 .. l |-> b[i + x - 1]]
          BY ONLY <5>2, <5>3, SubSeqIs
        <5> QED  BY <5>1, <5>2, <5>4
      <4>5. name = [x \in 1 .. l |-> name[x]]
        BY <4>1
      <4>6. SubSeq(b, i, j - 1) = name
        BY <4>2, <4>4, <4>5
      <4> QED  BY <4>6 DEF name
    <3>4. SubSeq(Listing, 1, m) = Append(SubSeq(Listing, 1, k), Listing[m])
      <4>1. Listing \in Seq(Range(Listing)) /\ Len(Listing) = Names
        BY PosixOssAssumption DEF Names
      <4> QED  BY <2>2, <4>1
    <3>5. upTo[j] = Parsed(pre, m)
      <4>1. Parsed(pre, k).i = i /\ ~ Parsed(pre, k).over
        BY <2>3, <3>2 DEF Parsed
      <4>2. upTo[j] = [Parsed(pre, k) EXCEPT !.names = Append(@, Listing[m]), !.i = j + 1]
        BY <2>6, <3>1, <3>2, <3>3, <4>1 DEF step
      <4> QED  BY <2>3, <2>8, <3>4, <4>2 DEF Parsed
    <3>6. Between(pre, m, j)
      <4>1. CASE m = Names
        BY <1>8, <2>3, <2>8, <4>1, <2>4 DEF Between
      <4>2. CASE m # Names
        <5>1. PICK w \in 1 .. Names : w = m + 1 /\ m = w - 1
          BY <4>2
        <5>2. PICK f, l2 : f = Len(pre[w]) /\ l2 = Len(Listing[w])
          OBVIOUS
        <5>3. z \in Nat /\ l2 \in Nat /\ f = z + l2 + 1
          <6>1. NameAt(Listing[w], z, f, l2)
            BY <1>2, <2>2, <2>3, <5>1, <5>2, NameOctets
          <6> QED  BY <6>1 DEF NameAt
        <5>4. z <= z /\ z < f
          BY <5>3
        <5> QED  BY <2>3, <2>8, <5>1, <5>2, <5>4 DEF Between
      <4> QED  BY <4>1, <4>2
    <3> QED  BY <2>2, <3>5, <3>6
  <2> QED  BY <2>7, <2>8
<1> DEFINE Fine(j) == \E k \in 0 .. Names : Between(pre, k, j) /\ upTo[j] = Parsed(pre, k)
           Wrong == {j \in 0 .. n : ~ Fine(j)}
<1>9. Fine(0)
  <2>1. 0 \in 0 .. Names /\ pre[0] = <<>> /\ Len(pre[0]) = 0
    BY <1>2 DEF IsPieces
  <2>2. upTo[0] = Parsed(pre, 0)
    <3>1. SubSeq(Listing, 1, 0) = <<>>
      <4>1. Listing \in Seq(Range(Listing))
        BY PosixOssAssumption
      <4> QED  BY <4>1
    <3>2. Len(pre[0]) + 1 = 1
      BY <2>1
    <3> QED  BY <1>7, <3>1, <3>2 DEF Parsed, start
  <2>3. Between(pre, 0, 0)
    <3>1. CASE Names = 0
      BY <2>1, <3>1 DEF Between
    <3>2. CASE Names # 0
      <4>1. PICK x \in 0 .. Names, w \in 1 .. Names : x = 0 /\ w = 1 /\ x = w - 1 /\ w = x + 1
        BY <3>2
      <4>2. PICK e, f, l : e = Len(pre[x]) /\ f = Len(pre[w]) /\ l = Len(Listing[w])
        OBVIOUS
      <4>3. e \in Nat /\ l \in Nat /\ f = e + l + 1
        <5>1. NameAt(Listing[w], e, f, l)
          BY <1>2, <4>1, <4>2, NameOctets
        <5> QED  BY <5>1 DEF NameAt
      <4>4. 0 < f
        BY <4>3
      <4>5. f = Len(pre[1])
        BY <4>1, <4>2
      <4> QED  BY <2>1, <4>4, <4>5 DEF Between
    <3> QED  BY <3>1, <3>2
  <2> QED  BY <2>1, <2>2, <2>3
<1>10. ASSUME Wrong # {} PROVE FALSE
  <2> HIDE DEF Fine
  <2>1. Wrong \in SUBSET Nat
    OBVIOUS
  <2>2. PICK j \in Wrong : \A x \in Wrong : j <= x
    <3> HIDE DEF Wrong
    <3> QED  BY <1>10, <2>1, NatMin
  <2>3. j \in 0 .. n /\ ~ Fine(j)
    OBVIOUS
  <2>4. j # 0
    BY <1>9, <2>3
  <2>5. PICK p \in 0 .. n : p = j - 1 /\ j \in 1 .. n
    BY <2>3, <2>4
  <2>6. p \notin Wrong
    <3> HIDE DEF Wrong
    <3> QED  BY <2>2, <2>3, <2>5
  <2>7. Fine(p)
    BY <2>6
  <2> QED  BY <1>8, <2>3, <2>5, <2>7 DEF Fine
<1>11. upTo[n] = Parsed(pre, Names)
  <2>1. PICK k \in 0 .. Names : Between(pre, k, n) /\ upTo[n] = Parsed(pre, k)
    <3>1. n \in 0 .. n
      OBVIOUS
    <3>2. Fine(n)
      <4> HIDE DEF Fine
      <4> QED  BY <1>10, <3>1
    <3> QED  BY <3>2
  <2>2. k = Names
    <3>1. SUFFICES ASSUME k # Names PROVE FALSE
      OBVIOUS
    <3>2. PICK m \in 1 .. Names : m = k + 1 /\ k = m - 1
      BY <3>1
    <3>3. Len(pre[m]) <= n /\ Len(pre[m]) \in Nat
      <4>1. m \in 0 .. Names
        BY <3>2
      <4> QED  BY <1>2, <1>3, <4>1, PieceOfOctets DEF Starts
    <3>4. n < Len(pre[m])
      BY <2>1, <3>1, <3>2 DEF Between
    <3> QED  BY <3>3, <3>4
  <2> QED  BY <2>1, <2>2
<1>12. upTo[n + 1].names = SubSeq(Listing, 1, Names)
  <2>1. upTo[n + 1] = step(Parsed(pre, Names), n + 1)
    <3>1. n + 1 \in 1 .. n + 1 /\ (n + 1) - 1 = n
      OBVIOUS
    <3> QED  BY <1>7, <1>11, <3>1
  <2>2. Parsed(pre, Names).i = n + 1 /\ Parsed(pre, Names).names = SubSeq(Listing, 1, Names)
    BY <1>2, <1>3 DEF Parsed
  <2>3. step(Parsed(pre, Names), n + 1).names = Parsed(pre, Names).names
    <3>1. CASE b[n + 1] # Nul
      BY <3>1 DEF step
    <3>2. CASE b[n + 1] = Nul
      <4>1. [Parsed(pre, Names) EXCEPT !.over = TRUE].names = Parsed(pre, Names).names
        BY DEF Parsed
      <4> QED  BY <2>2, <3>2, <4>1 DEF step
    <3> QED  BY <3>1, <3>2
  <2> QED  BY <2>1, <2>2, <2>3
<1>13. SubSeq(Listing, 1, Names) = Listing
  <2>1. Listing \in Seq(Range(Listing)) /\ Len(Listing) = Names
    BY PosixOssAssumption DEF Names
  <2> QED  BY <2>1
<1> QED  BY <1>1, <1>4, <1>12, <1>13

-----------------------------------------------------------------------------
(* The directories.                                                         *)

\* Two parts of a sequence that meet.
LEMMA SubSeqJoin ==
    ASSUME NEW S, NEW s \in Seq(S), NEW a \in Nat, NEW c \in Nat, a <= c, c <= Len(s)
    PROVE  SubSeq(s, 1, a) \o SubSeq(s, a + 1, c) = SubSeq(s, 1, c)
OBVIOUS

LEMMA OctetsSeq == Octets \in Seq(Oct) /\ Len(Octets) \in Nat
<1>1. PICK pre : IsPieces(pre) /\ pre[Names] = Octets
  BY PiecesExist
<1>2. Names \in 0 .. Names
  BY NamesNat
<1>3. Octets \in Seq(Oct)
  BY <1>1, <1>2 DEF IsPieces
<1> QED  BY <1>3

\* The first octets of the listing.
First(x) == SubSeq(Octets, 1, x)

\* The segment with the FinalBlockId is the one that reaches the end.
LEMMA FinalReach ==
    ASSUME NEW seg \in Nat
    PROVE  IF seg < FinalBlock THEN At(seg + 1) < Len(Octets) ELSE Len(Octets) <= At(seg + 1)
<1>1. P \in Nat \ {0} /\ Len(Octets) \in Nat
  BY Sizes, OctetsSeq
<1>2. PICK a \in Nat : a = Len(Octets) + P - 1
  BY <1>1
<1>3. PICK q \in Nat, r \in 0 .. P - 1 : q = a \div P /\ a = P * q + r
  BY <1>1, <1>2, DivMod
<1>4. At(q) = P * q /\ At(q) \in Nat
  BY <1>1 DEF At
<1>5. Len(Octets) + P - 1 = At(q) + r /\ r <= P - 1
  BY <1>1, <1>2, <1>3, <1>4
<1>6. FinalBlock = IF 0 <= q - 1 THEN q - 1 ELSE 0
  <2>1. FinalBlock = Max({0, q - 1}) /\ q - 1 \in Int
    BY <1>2, <1>3 DEF FinalBlock
  <2> QED  BY <2>1, MaxZero
<1>7. PICK s \in Nat : s = seg + 1
  OBVIOUS
<1>8. At(s) \in Nat /\ At(s + 1) = At(s) + P
  BY AtInNat
<1>9. CASE seg < FinalBlock
  <2>1. PICK t \in Nat : t = s + 1 /\ t <= q
    BY <1>6, <1>7, <1>9
  <2>2. At(t) <= At(q)
    BY <2>1, AtMonotone
  <2>3. At(t) = At(s) + P
    BY <1>8, <2>1
  <2>4. At(s) < Len(Octets)
    BY <1>1, <1>4, <1>5, <1>8, <2>2, <2>3
  <2> QED  BY <1>7, <1>9, <2>4
<1>10. CASE ~(seg < FinalBlock)
  <2>1. q <= s
    BY <1>6, <1>7, <1>10
  <2>2. At(q) <= At(s)
    BY <2>1, AtMonotone
  <2>3. Len(Octets) <= At(s)
    BY <1>1, <1>4, <1>5, <1>8, <2>2
  <2> QED  BY <1>7, <1>10, <2>3
<1> QED  BY <1>9, <1>10

\* One segment more of the listing.
LEMMA RoundBytes ==
    ASSUME NEW seg \in Nat, At(seg) <= Len(Octets)
    PROVE  First(At(seg)) \o ListingContent(seg)
              = IF seg < FinalBlock THEN First(At(seg + 1)) ELSE Octets
<1>1. Len(Octets) \in Nat /\ Octets \in Seq(Oct)
  BY OctetsSeq
<1>2. PICK a \in Nat, z \in Nat : a = At(seg) /\ z = At(seg + 1) /\ a <= z
  <2>1. P \in Nat /\ At(seg) \in Nat /\ At(seg + 1) = At(seg) + P
    BY Sizes, AtInNat
  <2> HIDE DEF At
  <2>2. At(seg) + P \in Nat /\ At(seg) <= At(seg) + P
    BY <2>1
  <2> QED  BY <2>1, <2>2
<1>3. Min({z, Len(Octets)}) = IF z <= Len(Octets) THEN z ELSE Len(Octets)
  BY <1>1, MinMaxTwo
<1>4. PICK c \in Nat : c = Min({z, Len(Octets)}) /\ a <= c /\ c <= Len(Octets)
  BY <1>1, <1>2, <1>3
<1>5. ListingContent(seg) = SubSeq(Octets, a + 1, c)
  BY <1>2, <1>4 DEF ListingContent, At
<1>6. First(a) \o SubSeq(Octets, a + 1, c) = First(c)
  BY <1>1, <1>4, SubSeqJoin DEF First
<1>7. IF seg < FinalBlock THEN c = z ELSE c = Len(Octets)
  <2>1. IF seg < FinalBlock THEN z < Len(Octets) ELSE Len(Octets) <= z
    BY <1>2, FinalReach
  <2> QED  BY <1>1, <1>3, <1>4, <2>1
<1>8. First(Len(Octets)) = Octets
  BY <1>1 DEF First
<1> QED  BY <1>2, <1>5, <1>6, <1>7, <1>8

Listed == Seq(Range(Listing))
DirType == [opened : BOOLEAN, content : Listed, pos : Nat, seg : Nat, bytes : Seq(Oct),
            listed : Listed, end : BOOLEAN]

\* The octets read so far begin the listing, the names returned are those before
\* the position, and without content there is no position.
Sound(d) ==
    /\ d \in DirType
    /\ At(d.seg) <= Len(Octets) /\ d.bytes = First(At(d.seg))
    /\ d.content = <<>> => d.pos = 0 /\ (~ d.end => d.listed = <<>>)
    /\ d.content # <<>> =>
        /\ d.content = Listing /\ ~ d.end
        /\ d.pos <= Names /\ d.listed = SubSeq(Listing, 1, d.pos)
    /\ d.end => d.listed = Listing

LEMMA StartFacts ==
    /\ At(0) = 0 /\ First(0) = <<>> /\ 0 <= Len(Octets) /\ <<>> \in Seq(Oct)
    /\ Listing \in Listed /\ <<>> \in Listed /\ Len(Listing) = Names /\ Names \in Nat
<1>1. At(0) = 0
  BY Sizes DEF At
<1>2. First(0) = <<>> /\ 0 <= Len(Octets)
  BY OctetsSeq DEF First
<1>3. Listing \in Listed /\ Len(Listing) = Names
  BY PosixOssAssumption DEF Listed, Names
<1> QED  BY <1>1, <1>2, <1>3, NamesNat DEF Listed

\* A directory that was never opened.
LEMMA SoundNoDir == Sound(NoDir)
BY StartFacts DEF Sound, NoDir, DirType

\* Opening it again starts from its first octet.
LEMMA SoundRestart == ASSUME NEW d, Sound(d) PROVE Sound(Restart(d)) /\ Restart(d).content = d.content
<1> DEFINE e == Restart(d)
<1>1. d \in DirType
  BY DEF Sound
<1>2. /\ e \in DirType /\ e.seg = 0 /\ e.bytes = <<>> /\ e.content = d.content /\ e.pos = d.pos
      /\ e.listed = d.listed /\ e.end = d.end
  BY <1>1, StartFacts DEF Restart, DirType
<1> HIDE DEF e
<1>3. Sound(e)
  BY <1>2, StartFacts DEF Sound
<1> QED  BY <1>2, <1>3 DEF e

LEMMA SoundOpened ==
    ASSUME NEW d, Sound(d), NEW o \in BOOLEAN
    PROVE  Sound([d EXCEPT !.opened = o]) /\ [d EXCEPT !.opened = o].content = d.content
<1> DEFINE e == [d EXCEPT !.opened = o]
<1>1. d \in DirType
  BY DEF Sound
<1>2. /\ e \in DirType /\ e.seg = d.seg /\ e.bytes = d.bytes /\ e.content = d.content
      /\ e.pos = d.pos /\ e.listed = d.listed /\ e.end = d.end
  BY <1>1 DEF DirType
<1> HIDE DEF e
<1>3. Sound(e)
  BY <1>2 DEF Sound
<1> QED  BY <1>2, <1>3 DEF e

\* One more segment of the listing.
LEMMA SoundMore ==
    ASSUME NEW d, Sound(d), d.seg < FinalBlock, d.content = <<>>, NEW e,
           e = [[d EXCEPT !.bytes = @ \o ListingContent(d.seg)] EXCEPT !.seg = @ + 1]
    PROVE  Sound(e) /\ e.content = <<>>
<1>1. d \in DirType /\ d.seg \in Nat /\ At(d.seg) <= Len(Octets)
  BY DEF Sound, DirType
<1>2. PICK seg \in Nat, s \in Nat : seg = d.seg /\ s = seg + 1
  BY <1>1
<1>3. d.bytes \o ListingContent(d.seg) = First(At(s))
  BY <1>1, <1>2, RoundBytes DEF Sound
<1>4. At(s) <= Len(Octets)
  <2>1. At(s) < Len(Octets) /\ At(s) \in Nat /\ Len(Octets) \in Nat
    BY <1>2, FinalReach, AtInNat, OctetsSeq
  <2> QED  BY <2>1
<1>5. First(At(s)) \in Seq(Oct)
  <2>1. At(s) \in Nat /\ Len(Octets) \in Nat /\ Octets \in Seq(Oct)
    BY AtInNat, OctetsSeq
  <2> QED  BY <1>4, <2>1 DEF First
<1>6. e = [d EXCEPT !.bytes = First(At(s)), !.seg = s]
  BY <1>1, <1>2, <1>3 DEF DirType
<1>7. /\ e \in DirType /\ e.seg = s /\ e.bytes = First(At(s)) /\ e.content = d.content
      /\ e.pos = d.pos /\ e.listed = d.listed /\ e.end = d.end
  BY <1>1, <1>5, <1>6 DEF DirType
<1> QED  BY <1>4, <1>7 DEF Sound

\* The next name, from a position between two names.
LEMMA SoundEntry ==
    ASSUME NEW d, d \in DirType, At(d.seg) <= Len(Octets), d.bytes = First(At(d.seg)),
           d.content = Listing, d.pos <= Names,
           (IF d.end THEN <<>> ELSE d.listed) = SubSeq(Listing, 1, d.pos)
    PROVE  Sound(NextEntry(d))
<1> DEFINE e == NextEntry(d)
           was == IF d.end THEN <<>> ELSE d.listed
<1>1. d.pos \in Nat /\ was \in Listed /\ Len(Listing) = Names
  BY StartFacts DEF DirType
<1>2. CASE d.pos < Names
  <2>1. PICK p \in Nat, q \in Nat : p = d.pos /\ q = p + 1 /\ q <= Names
    BY <1>1, <1>2, NamesNat
  <2>2. Append(was, Listing[q]) = SubSeq(Listing, 1, q) /\ Append(was, Listing[q]) \in Listed
    <3>1. Listing \in Listed /\ Len(Listing) = Names /\ Names \in Nat
      BY StartFacts
    <3>2. Append(SubSeq(Listing, 1, p), Listing[q]) = SubSeq(Listing, 1, q)
      BY <2>1, <3>1 DEF Listed
    <3>3. SubSeq(Listing, 1, q) \in Listed
      BY <2>1, <3>1 DEF Listed
    <3> QED  BY <2>1, <3>2, <3>3
  <2>3. e = [d EXCEPT !.pos = q, !.listed = Append(was, Listing[q]), !.end = FALSE]
    BY <1>1, <1>2, <2>1 DEF NextEntry
  <2> HIDE DEF e, was
  <2>4. /\ e \in DirType /\ e.seg = d.seg /\ e.bytes = d.bytes /\ e.content = Listing
        /\ e.pos = q /\ e.listed = SubSeq(Listing, 1, q) /\ ~ e.end
    BY <2>1, <2>2, <2>3 DEF DirType
  <2>5. Listing # <<>>
    BY <1>1, <2>1
  <2> QED  BY <2>1, <2>4, <2>5 DEF Sound, e
<1>3. CASE ~(d.pos < Names)
  <2>1. d.pos = Names
    BY <1>1, <1>3, NamesNat
  <2>2. was = Listing
    <3>1. SubSeq(Listing, 1, Names) = Listing
      BY StartFacts DEF Listed
    <3> QED  BY <2>1, <3>1
  <2>3. e = [d EXCEPT !.content = <<>>, !.pos = 0, !.listed = was, !.end = TRUE]
    BY <1>1, <1>3 DEF NextEntry
  <2> HIDE DEF e, was
  <2>4. /\ e \in DirType /\ e.seg = d.seg /\ e.bytes = d.bytes /\ e.content = <<>>
        /\ e.pos = 0 /\ e.listed = Listing /\ e.end
    BY <1>1, <2>2, <2>3, StartFacts DEF DirType
  <2> QED  BY <2>4 DEF Sound, e
<1> QED  BY <1>2, <1>3

\* One more name returned.
LEMMA SoundNext == ASSUME NEW d, Sound(d), d.content # <<>> PROVE Sound(NextEntry(d))
BY SoundEntry DEF Sound

\* The last segment has come.
LEMMA SoundLast ==
    ASSUME NEW d, Sound(d), d.content = <<>>, NEW bytes, NEW behind, NEW e,
           e = [d EXCEPT !.bytes = @ \o bytes], e.bytes = Octets
    PROVE  Sound(NextEntry([Restart(e) EXCEPT !.content = ParseNames(e.bytes, behind)]))
<1> DEFINE f == [Restart(e) EXCEPT !.content = ParseNames(e.bytes, behind)]
<1>1. d \in DirType /\ d.pos = 0 /\ (~ d.end => d.listed = <<>>)
  BY DEF Sound
<1>2. ParseNames(e.bytes, behind) = Listing
  BY ParseExact
<1>3. f = [d EXCEPT !.bytes = <<>>, !.seg = 0, !.content = Listing]
  BY <1>1, <1>2 DEF Restart, DirType
<1> HIDE DEF f
<1>4. /\ f \in DirType /\ f.seg = 0 /\ f.bytes = <<>> /\ f.content = Listing /\ f.pos = 0
      /\ f.listed = d.listed /\ f.end = d.end
  BY <1>1, <1>3, StartFacts DEF DirType
<1>5. SubSeq(Listing, 1, 0) = <<>> /\ 0 <= Names
  BY StartFacts DEF Listed
<1>6. Sound(NextEntry(f))
  BY <1>1, <1>4, <1>5, SoundEntry, StartFacts
<1> QED  BY <1>6 DEF f

Asking == {"listPush", "listWait"}
DirOK(h) == Sound(dir[h]) /\ (pc[h] \in Asking => dir[h].content = <<>>)
DirInv == dir \in [Handlers -> DirType] /\ \A h \in Handlers : DirOK(h)

\* A step of a thread moves that thread only.
LEMMA FileMoves ==
    ASSUME NEW t \in Threads, FileCalls(t) \/ FileSteps(t)
    PROVE  \E label : pc' = [pc EXCEPT ![t] = label]
<1>1. CASE open(t) \/ stat(t) \/ fstat(t) \/ read(t)
  BY <1>1 DEF open, stat, fstat, read, Start, Begin
<1>2. CASE close(t) \/ openFailed(t)
  BY <1>2 DEF close, openFailed, closeLocked, Goto
<1>3. CASE openPush(t) \/ readPush(t)
  BY <1>3 DEF openPush, readPush, Push, Goto
<1>4. CASE readWait(t)
  BY <1>4 DEF readWait, Pop, GiveUp, Goto
<1>5. CASE openWait(t) \/ openCheck(t) \/ openCheckAgain(t) \/ getFileMetadata(t) \/ fstatCheck(t)
           \/ readDone(t)
  BY <1>5 DEF openWait, openCheck, openCheckAgain, getFileMetadata, fstatCheck, readDone, Goto
<1>6. CASE fstatCopy(t) \/ readNames(t) \/ readCopy(t)
  BY <1>6 DEF fstatCopy, readNames, readCopy, Dereference, Goto
<1> QED  BY <1>1, <1>2, <1>3, <1>4, <1>5, <1>6 DEF FileCalls, FileSteps

\* The steps of a directory handler.
LEMMA HandlerDirOK ==
    ASSUME PosixInv, DirInv, NEW h \in Handlers, DirCalls(h) \/ DirSteps(h) PROVE DirInv'
<1>0. DOMAIN pc = Users /\ h \in Users /\ dir \in [Handlers -> DirType] /\ DirOK(h)
  BY DEF PosixInv, DomainsOK, Users, DirInv
<1>01. "idle" \notin Asking /\ "metaPush" \notin Asking /\ "metaWait" \notin Asking
  BY DEF Asking
<1>1. ASSUME NEW label, pc' = [pc EXCEPT ![h] = label], NEW d, dir' = [dir EXCEPT ![h] = d],
             Sound(d), label \in Asking => d.content = <<>>
      PROVE  DirInv'
  <2>1. pc'[h] = label /\ dir'[h] = d /\ dir' \in [Handlers -> DirType]
    BY <1>0, <1>1 DEF Sound
  <2>2. \A g \in Handlers : g # h => pc'[g] = pc[g] /\ dir'[g] = dir[g]
    BY <1>0, <1>1
  <2>3. \A g \in Handlers : Sound(dir'[g]) /\ (pc'[g] \in Asking => dir'[g].content = <<>>)
    BY <1>1, <2>1, <2>2 DEF DirInv, DirOK
  <2> QED  BY <2>1, <2>3 DEF DirInv, DirOK, Sound
<1>2. dir = [dir EXCEPT ![h] = dir[h]]
  BY <1>0
<1>3. CASE Opendir(h)
  BY <1>1, <1>01, <1>3, SoundNoDir DEF Opendir, Start, Begin
<1>4. CASE Stat(h)
  BY <1>0, <1>1, <1>2, <1>01, <1>4 DEF Stat, Start, Begin, DirOK
<1>5. CASE Closedir(h)
  BY <1>1, <1>01, <1>5, SoundNoDir DEF Closedir, Start, Begin
<1>6. CASE Readdir(h)
  <2>1. CASE dir[h].content = <<>>
    BY <1>0, <1>1, <1>2, <1>6, <2>1 DEF Readdir, Start, Begin, DirOK
  <2>2. CASE dir[h].content # <<>>
    <3>1. pc' = [pc EXCEPT ![h] = "idle"] /\ dir' = [dir EXCEPT ![h] = NextEntry(dir[h])]
      BY <1>6, <2>2 DEF Readdir, Start, Begin
    <3>2. Sound(NextEntry(dir[h]))
      BY <1>0, <2>2, SoundNext DEF DirOK
    <3> QED  BY <1>01, <1>1, <3>1, <3>2
  <2> QED  BY <2>1, <2>2
<1>7. CASE metaPush(h)
  <2>1. dir' = dir /\ \E label \in {"idle", "metaWait"} : pc' = [pc EXCEPT ![h] = label]
    BY <1>7 DEF metaPush, PushOne, Goto
  <2> QED  BY <1>0, <1>1, <1>2, <1>01, <2>1 DEF DirOK
<1>8. CASE metaWait(h)
  <2> DEFINE o == dir[h].opened \/ (Head(queue[h]).kind = "data" /\ args[h] = "dir")
             d == [dir[h] EXCEPT !.opened = o]
  <2>1. dir' = [dir EXCEPT ![h] = d] /\ pc' = [pc EXCEPT ![h] = "idle"]
    BY <1>0, <1>8 DEF metaWait, Goto
  <2>2. Sound(d)
    <3>1. o \in BOOLEAN
      BY Zenon
    <3> HIDE DEF o
    <3> QED  BY <1>0, <3>1, SoundOpened DEF DirOK
  <2> HIDE DEF d
  <2> QED  BY <1>01, <1>1, <2>1, <2>2
<1>9. CASE listPush(h)
  <2>0. dir[h].content = <<>> /\ Sound(dir[h])
    BY <1>0, <1>9 DEF listPush, DirOK, Asking
  <2>1. CASE isClosed
    <3>1. dir' = [dir EXCEPT ![h] = Restart(dir[h])] /\ pc' = [pc EXCEPT ![h] = "idle"]
      BY <1>9, <2>1 DEF listPush, PushOne, Goto
    <3>2. Sound(Restart(dir[h]))
      BY <2>0, SoundRestart
    <3> QED  BY <1>01, <1>1, <3>1, <3>2
  <2>2. CASE ~isClosed
    <3>1. dir' = dir /\ pc' = [pc EXCEPT ![h] = "listWait"]
      BY <1>9, <2>2 DEF listPush, PushOne, Goto
    <3> QED  BY <1>1, <1>2, <2>0, <3>1
  <2> QED  BY <2>1, <2>2
<1>10. CASE listWait(h)
  <2> DEFINE now == dir[h]
             d == [now EXCEPT !.bytes = @ \o ListingContent(now.seg)]
             more == now.seg < FinalBlock
  <2>0. now.content = <<>> /\ Sound(now)
    BY <1>0, <1>10 DEF listWait, ListRound, DirOK, Asking
  <2>1. CASE Head(queue[h]).kind = "null"
    <3>1. dir' = [dir EXCEPT ![h] = Restart(dir[h])] /\ pc' = [pc EXCEPT ![h] = "idle"]
      BY <1>10, <2>1 DEF listWait, ListRound, Goto
    <3>2. Sound(Restart(dir[h]))
      BY <2>0, SoundRestart
    <3> QED  BY <1>01, <1>1, <3>1, <3>2
  <2>2. CASE Head(queue[h]).kind # "null" /\ more
    <3> DEFINE e == [d EXCEPT !.seg = @ + 1]
    <3>1. dir' = [dir EXCEPT ![h] = e] /\ pc' = [pc EXCEPT ![h] = "listPush"]
      BY <1>10, <2>2 DEF listWait, ListRound, Goto
    <3>2. Sound(e) /\ e.content = <<>>
      BY <2>0, <2>2, SoundMore
    <3> HIDE DEF e
    <3> QED  BY <1>1, <3>1, <3>2
  <2>3. CASE Head(queue[h]).kind # "null" /\ ~more
    <3>1. PICK behind \in {Nul, Junk} :
            /\ dir' = [dir EXCEPT ![h] =
                         NextEntry([Restart(d) EXCEPT !.content = ParseNames(d.bytes, behind)])]
            /\ pc' = [pc EXCEPT ![h] = "idle"]
      BY <1>10, <2>3 DEF listWait, ListRound, Goto
    <3>2. d.bytes = Octets
      <4>1. now.seg \in Nat /\ now \in DirType /\ At(now.seg) <= Len(Octets)
            /\ now.bytes = First(At(now.seg))
        BY <2>0 DEF Sound, DirType
      <4>2. d.bytes = now.bytes \o ListingContent(now.seg)
        BY <4>1 DEF DirType
      <4> HIDE DEF d, now
      <4> QED  BY <2>3, <4>1, <4>2, RoundBytes
    <3>3. Sound(NextEntry([Restart(d) EXCEPT !.content = ParseNames(d.bytes, behind)]))
      BY <2>0, <3>2, SoundLast
    <3> HIDE DEF d
    <3> QED  BY <1>01, <1>1, <3>1, <3>3
  <2> QED  BY <2>1, <2>2, <2>3
<1> QED  BY <1>3, <1>4, <1>5, <1>6, <1>7, <1>8, <1>9, <1>10 DEF DirCalls, DirSteps

\* Every step preserves what is known of the directories.
LEMMA DirStep == PosixInv /\ DirInv /\ [Next]_vars => DirInv'
<1> SUFFICES ASSUME PosixInv, DirInv, [Next]_vars PROVE DirInv'
  OBVIOUS
<1>1. ASSUME dir' = dir, \A h \in Handlers : pc'[h] = pc[h] PROVE DirInv'
  BY <1>1 DEF DirInv, DirOK, Sound
<1>2. CASE Config \/ OssInit \/ sigint_handler \/ UNCHANGED vars
  <2>1. dir' = dir /\ pc' = pc
    BY <1>2 DEF Config, OssInit, sigint_handler, Close, vars
  <2> QED  BY <1>1, <2>1
<1>3. CASE FileNext
  <2>1. dir' = dir
    BY <1>3 DEF FileNext
  <2>2. CASE Pipeline
    <3>1. pc' = pc
      BY <2>2 DEF Pipeline, Answer, AnswerOrphan, LinkDown, Close
    <3> QED  BY <1>1, <2>1, <3>1
  <2>3. ASSUME NEW t \in Threads, FileCalls(t) \/ FileSteps(t) PROVE DirInv'
    <3>1. PICK label : pc' = [pc EXCEPT ![t] = label]
      BY <2>3, FileMoves
    <3>2. \A h \in Handlers : h # t /\ h \in DOMAIN pc
      BY PosixFileAssumption DEF PosixInv, DomainsOK, Users
    <3> QED  BY <1>1, <2>1, <3>1, <3>2
  <2> QED  BY <1>3, <2>2, <2>3 DEF FileNext
<1>4. CASE \E h \in Handlers : DirCalls(h) \/ DirSteps(h)
  BY <1>4, HandlerDirOK
<1> QED  BY <1>2, <1>3, <1>4 DEF Next

\* For a directory of any names and segments of any size: what a pass returns
\* begins the listing, and at its end it is the listing, whatever requests failed
\* before and whatever octet lies behind the content that getDirContent parses.
THEOREM PosixListsDirectory == Spec => []ListingComplete
<1>1. Init => DirInv
  <2> SUFFICES ASSUME Init PROVE DirInv
    OBVIOUS
  <2>1. dir = [h \in Handlers |-> NoDir] /\ NoDir.content = <<>>
    BY DEF Init, NoDir
  <2> QED  BY <2>1, SoundNoDir DEF DirInv, DirOK, Sound
<1>2. DirInv => ListingComplete
  <2> SUFFICES ASSUME DirInv, NEW h \in Handlers
               PROVE  /\ IsPrefix(dir[h].listed, Listing)
                      /\ dir[h].end => dir[h].listed = Listing
    BY DEF ListingComplete
  <2>1. PICK d : d = dir[h] /\ Sound(d)
    BY DEF DirInv, DirOK
  <2>2. PICK p \in Nat : p <= Names /\ d.listed = SubSeq(Listing, 1, p)
    <3>1. SubSeq(Listing, 1, 0) = <<>> /\ SubSeq(Listing, 1, Names) = Listing /\ 0 <= Names
      BY StartFacts DEF Listed
    <3>2. d.pos \in Nat /\ Names \in Nat
      BY <2>1, NamesNat DEF Sound, DirType
    <3>3. CASE d.content # <<>>
      BY <2>1, <3>2, <3>3 DEF Sound
    <3>4. CASE d.content = <<>> /\ d.end
      BY <2>1, <3>1, <3>2, <3>4, NamesNat DEF Sound
    <3>5. CASE d.content = <<>> /\ ~ d.end
      BY <2>1, <3>1, <3>5 DEF Sound
    <3> QED  BY <3>3, <3>4, <3>5
  <2>3. IsPrefix(SubSeq(Listing, 1, p), Listing)
    <3>1. Listing \in Listed /\ Len(Listing) = Names /\ Names \in Nat
      BY StartFacts
    <3>2. Len(SubSeq(Listing, 1, p)) = p /\ SubSeq(Listing, 1, p) \in Listed
      BY <2>2, <3>1 DEF Listed
    <3>3. SubSeq(SubSeq(Listing, 1, p), 1, p) = SubSeq(Listing, 1, p)
      BY <3>2 DEF Listed
    <3> QED  BY <2>2, <3>1, <3>2, <3>3 DEF IsPrefix
  <2> QED  BY <2>1, <2>2, <2>3 DEF Sound
<1>3. DirInv /\ PosixInv /\ [Next]_vars => DirInv'
  BY DirStep
<1> QED  BY <1>1, <1>2, <1>3, PosixInvariant, PTL DEF Spec

=============================================================================
