--------------------------- MODULE PipelineProofs ---------------------------
(***************************************************************************)
(* The theorems of the Interest pipeline.  Every step of the code that the *)
(* two window policies share preserves PipelineInv, whatever the policy    *)
(* does to the window; from it follow the theorems of PipelineFixed and of *)
(* PipelineAimd: the accounting, what is in flight, and the refinement.    *)
(***************************************************************************)
EXTENDS PipelineFixed, PipelineAimd, SequenceTheorems, FiniteSetTheorems, TLAPS

USE DEF PendingInterest, Token

-----------------------------------------------------------------------------
(* Facts about the operators the actions are built from.                    *)

\* A refreshed entry is an entry of the same request and consumer, and only
\* a timeout counts as a retry.
LEMMA RefreshEntry ==
    ASSUME NEW e \in PendingInterest
    PROVE  /\ \A b \in BOOLEAN : /\ refresh(e, b) \in PendingInterest
                                 /\ refresh(e, b).req = e.req
                                 /\ refresh(e, b).consumerId = e.consumerId
           /\ refresh(e, FALSE).retries = e.retries
           /\ refresh(e, TRUE).retries = e.retries + 1
<1>1. /\ refresh(e, FALSE) \in PendingInterest
      /\ refresh(e, FALSE).req = e.req
      /\ refresh(e, FALSE).consumerId = e.consumerId
      /\ refresh(e, FALSE).retries = e.retries
  BY DEF refresh
<1>2. /\ refresh(e, TRUE) \in PendingInterest
      /\ refresh(e, TRUE).req = e.req
      /\ refresh(e, TRUE).consumerId = e.consumerId
      /\ refresh(e, TRUE).retries = e.retries + 1
  BY DEF refresh
<1> QED  BY <1>1, <1>2

\* Every element of a sequence but the first is still in its tail.
LEMMA TailKeeps ==
    ASSUME NEW T, NEW s \in Seq(T), s # <<>>,
           NEW i \in 1..Len(s), s[i] # Head(s)
    PROVE  \E j \in 1..Len(Tail(s)) : Tail(s)[j] = s[i]
<1>1. Len(s) \in Nat /\ i # 1 /\ Len(Tail(s)) = Len(s) - 1
  BY HeadTailProperties, LenProperties
<1>2. i - 1 \in 1..Len(Tail(s)) /\ Tail(s)[i - 1] = s[i]
  BY <1>1, HeadTailProperties
<1> QED  BY <1>2

\* A response that waits in a queue is the answer its request got.
LEMMA QueuedResponse ==
    ASSUME TypeOK, ResponsesReachOwner,
           NEW d \in Consumers, NEW i \in 1..Len(responseQueues[d])
    PROVE  /\ responseQueues[d][i] \in Response
           /\ responseQueues[d][i].req \in Requests
           /\ owner[responseQueues[d][i].req] = d
           /\ answers[responseQueues[d][i].req] # <<>>
<1> DEFINE q == responseQueues[d]
<1>1. q \in Seq(Response)
  BY DEF TypeOK
<1>2. q[i] \in Response
  BY <1>1, ElementOfSeq
<1>3. owner[q[i].req] = d /\ Len(answers[q[i].req]) = 1
  BY DEF ResponsesReachOwner
<1> QED  BY <1>2, <1>3 DEF Response

\* Taking responses off the front of the queues keeps them with their owners.
LEMMA QueuesShrink ==
    ASSUME ResponsesReachOwner, UNCHANGED <<owner, answers>>,
           \A d \in Consumers : \E k \in Nat : \A i \in 1..Len(responseQueues'[d]) :
               /\ i + k \in 1..Len(responseQueues[d])
               /\ responseQueues'[d][i] = responseQueues[d][i + k]
    PROVE  ResponsesReachOwner'
<1> SUFFICES ASSUME NEW d \in Consumers
             PROVE  /\ \A i \in 1..Len(responseQueues'[d]) :
                          LET m == responseQueues'[d][i] IN
                          /\ owner[m.req] = d
                          /\ Len(answers[m.req]) = 1
                          /\ answers[m.req][1] = m.kind
                    /\ \A i, j \in 1..Len(responseQueues'[d]) :
                          responseQueues'[d][i].req = responseQueues'[d][j].req => i = j
  BY DEF ResponsesReachOwner
<1>1. PICK k \in Nat : \A i \in 1..Len(responseQueues'[d]) :
               /\ i + k \in 1..Len(responseQueues[d])
               /\ responseQueues'[d][i] = responseQueues[d][i + k]
  OBVIOUS
<1>2. \A i \in 1..Len(responseQueues[d]) :
            /\ owner[responseQueues[d][i].req] = d
            /\ Len(answers[responseQueues[d][i].req]) = 1
            /\ answers[responseQueues[d][i].req][1] = responseQueues[d][i].kind
  BY DEF ResponsesReachOwner
<1>3. \A i, j \in 1..Len(responseQueues[d]) :
            responseQueues[d][i].req = responseQueues[d][j].req => i = j
  BY DEF ResponsesReachOwner
<1>4. ASSUME NEW i \in 1..Len(responseQueues'[d])
      PROVE  /\ owner[responseQueues'[d][i].req] = d
             /\ Len(answers[responseQueues'[d][i].req]) = 1
             /\ answers[responseQueues'[d][i].req][1] = responseQueues'[d][i].kind
  <2>1. /\ i + k \in 1..Len(responseQueues[d])
        /\ responseQueues'[d][i] = responseQueues[d][i + k]
    BY <1>1
  <2> QED  BY <2>1, <1>2
<1>5. ASSUME NEW i \in 1..Len(responseQueues'[d]), NEW j \in 1..Len(responseQueues'[d]),
             responseQueues'[d][i].req = responseQueues'[d][j].req
      PROVE  i = j
  <2>1. /\ i + k \in 1..Len(responseQueues[d])
        /\ j + k \in 1..Len(responseQueues[d])
        /\ responseQueues[d][i + k].req = responseQueues[d][j + k].req
    BY <1>1, <1>5
  <2>2. i + k = j + k
    BY <2>1, <1>3
  <2>3. i \in Int /\ j \in Int
    OBVIOUS
  <2> QED  BY <2>2, <2>3
<1> QED  BY <1>4, <1>5

\* Nor does a step that leaves queues, owners and answers alone.
LEMMA QueuesUnchanged ==
    ASSUME ResponsesReachOwner, UNCHANGED <<responseQueues, owner, answers>>
    PROVE  ResponsesReachOwner'
<1>1. responseQueues' = responseQueues /\ owner' = owner /\ answers' = answers
  OBVIOUS
<1> QED  BY <1>1 DEF ResponsesReachOwner

\* The pipeline holds at most one entry of each request: finitely many.
LEMMA HeldFinite ==
    ASSUME PipelineInv
    PROVE  /\ IsFiniteSet(Held)
           /\ IsFiniteSet(requestQueue) /\ IsFiniteSet(batch) /\ IsFiniteSet(pit)
<1> DEFINE reqOf == [e \in Held |-> e.req]
<1>1. Held \subseteq PendingInterest
  BY DEF PipelineInv, TypeOK, Held
<1>2. reqOf \in Injection(Held, Requests)
  BY <1>1 DEF PipelineInv, OneEntryPerRequest, Injection, IsInjective
<1>3. IsFiniteSet(Held)
  BY <1>2, FS_Injection, PipelineAssumption
<1> QED  BY <1>3, FS_Subset DEF Held

\* Steps that move no entry and no response keep the invariant.
LEMMA QuietStep ==
    ASSUME PipelineInv,
           UNCHANGED <<consumers, responseQueues, queueVars, owner, answers>>,
           pc' \in {"new", "loop", "rx", "timeout", "send", "done", "aborted"},
           closedBy' \in {"none", "client", "link", closedBy}
    PROVE  PipelineInv'
<1>1. TypeOK' /\ WorkerClosesForOrphans'
  BY DEF PipelineInv, TypeOK, WorkerClosesForOrphans, queueVars
<1>2. AtMostOneResponse' /\ NothingLost' /\ OneEntryPerRequest' /\ EntriesKeepOwner'
  BY DEF PipelineInv, AtMostOneResponse, NothingLost, OneEntryPerRequest, Held,
         EntriesKeepOwner, queueVars
<1>3. TimeoutArmed' /\ RetriesBounded'
  BY DEF PipelineInv, TimeoutArmed, RetriesBounded, queueVars, PITToken, Held
<1>4. ResponsesReachOwner'
  BY QueuesUnchanged DEF PipelineInv
<1> QED  BY <1>1, <1>2, <1>3, <1>4 DEF PipelineInv

-----------------------------------------------------------------------------
(* One lemma for each group of actions that changes the queues.             *)

\* pushInterest and pushInterestBulk keep the invariant.
LEMMA EnqueueInv ==
    ASSUME PipelineInv, NEW c \in Consumers, NEW R \in SUBSET Idle, Enqueue(c, R)
    PROVE  PipelineInv'
<1> DEFINE New == {NewPendingInterest(r, c) : r \in R}
<1> USE DEF Enqueue, Idle
<1>1. /\ New \in SUBSET PendingInterest
      /\ \A e \in New : e.req \in R /\ e.consumerId = c /\ e.retries = 0
      /\ \A r \in R : \E e \in New : e.req = r
      /\ \A e, f \in New : e.req = f.req => e = f
  <2>1. \A r \in R : /\ NewPendingInterest(r, c) \in PendingInterest
                     /\ NewPendingInterest(r, c).req = r
                     /\ NewPendingInterest(r, c).consumerId = c
                     /\ NewPendingInterest(r, c).retries = 0
    BY DEF NewPendingInterest
  <2> QED  BY <2>1
<1>2. /\ \A e \in Held : e.req \notin R
      /\ \A r \in R : answers[r] = <<>>
  BY PipelineAssumption DEF PipelineInv, TypeOK, EntriesKeepOwner, Held
<1>3. requestQueue' = requestQueue \cup New /\ Held' = Held \cup New
  BY DEF Held
<1>4. \A r \in Requests : owner'[r] = IF r \in R THEN c ELSE owner[r]
  OBVIOUS
<1> HIDE DEF New
<1>5. TypeOK'
  BY <1>1, <1>3 DEF PipelineInv, TypeOK
<1>6. AtMostOneResponse' /\ TimeoutArmed'
  BY DEF PipelineInv, AtMostOneResponse, TimeoutArmed, PITToken
<1>7. NothingLost'
  BY <1>1, <1>2, <1>3, <1>4 DEF PipelineInv, TypeOK, NothingLost
<1>8. OneEntryPerRequest'
  BY <1>1, <1>2, <1>3 DEF PipelineInv, OneEntryPerRequest, Held
<1>9. EntriesKeepOwner'
  BY <1>1, <1>2, <1>3, <1>4 DEF PipelineInv, TypeOK, EntriesKeepOwner, Registered, Held
<1>10. ResponsesReachOwner'
  <2>1. ASSUME NEW d \in Consumers, NEW i \in 1..Len(responseQueues[d])
        PROVE  responseQueues[d][i].req \in Requests \ R
    BY <1>2, QueuedResponse DEF PipelineInv
  <2> QED
    BY <2>1, <1>4 DEF PipelineInv, TypeOK, ResponsesReachOwner
<1>11. RetriesBounded'
  BY <1>1, <1>3, PipelineAssumption DEF PipelineInv, RetriesBounded
<1>12. WorkerClosesForOrphans'
  BY DEF PipelineInv, WorkerClosesForOrphans, isClosed
<1> QED
  BY <1>5, <1>6, <1>7, <1>8, <1>9, <1>10, <1>11, <1>12 DEF PipelineInv

\* registerConsumer hands out a fresh identifier with an empty queue.
LEMMA RegisterInv ==
    ASSUME PipelineInv, NEW c \in Consumers, RegisterConsumer(c)
    PROVE  PipelineInv'
<1> USE DEF RegisterConsumer, queueVars
<1>1. /\ \A d \in Consumers : responseQueues'[d] = IF d = c THEN <<>> ELSE responseQueues[d]
      /\ \A d \in Consumers : consumers'[d] = IF d = c THEN "registered" ELSE consumers[d]
  BY DEF PipelineInv, TypeOK
<1>2. TypeOK'
  BY EmptySeq, <1>1 DEF PipelineInv, TypeOK
<1>3. ResponsesReachOwner'
  <2>1. 1..Len(responseQueues'[c]) = {}
    BY <1>1
  <2>2. \A d \in Consumers : \A i \in 1..Len(responseQueues'[d]) :
            /\ i + 0 \in 1..Len(responseQueues[d])
            /\ responseQueues'[d][i] = responseQueues[d][i + 0]
    BY <1>1, <2>1
  <2> QED
    BY <2>2, QueuesShrink DEF PipelineInv
<1>4. EntriesKeepOwner' /\ WorkerClosesForOrphans'
  BY <1>1 DEF PipelineInv, TypeOK, EntriesKeepOwner, WorkerClosesForOrphans, Held
<1> QED
  BY <1>2, <1>3, <1>4 DEF PipelineInv, AtMostOneResponse, NothingLost, OneEntryPerRequest,
     Held, TimeoutArmed, RetriesBounded, PITToken

\* unregisterConsumer drops a queue and leaves the entries alone.
LEMMA UnregisterInv ==
    ASSUME PipelineInv, NEW c \in Consumers, UnregisterConsumer(c)
    PROVE  PipelineInv'
<1> USE DEF UnregisterConsumer, queueVars
<1>1. /\ \A d \in Consumers : responseQueues'[d] = IF d = c THEN <<>> ELSE responseQueues[d]
      /\ \A d \in Consumers : consumers'[d] = IF d = c THEN "gone" ELSE consumers[d]
  BY DEF PipelineInv, TypeOK
<1>2. TypeOK'
  BY EmptySeq, <1>1 DEF PipelineInv, TypeOK
<1>3. ResponsesReachOwner'
  <2>1. 1..Len(responseQueues'[c]) = {}
    BY <1>1
  <2>2. \A d \in Consumers : \A i \in 1..Len(responseQueues'[d]) :
            /\ i + 0 \in 1..Len(responseQueues[d])
            /\ responseQueues'[d][i] = responseQueues[d][i + 0]
    BY <1>1, <2>1
  <2> QED
    BY <2>2, QueuesShrink DEF PipelineInv
<1>4. EntriesKeepOwner' /\ WorkerClosesForOrphans'
  BY <1>1 DEF PipelineInv, TypeOK, EntriesKeepOwner, WorkerClosesForOrphans, Held
<1> QED
  BY <1>2, <1>3, <1>4 DEF PipelineInv, AtMostOneResponse, NothingLost, OneEntryPerRequest,
     Held, TimeoutArmed, RetriesBounded, PITToken

\* popData and popDataBulk take responses off the front of one queue.
LEMMA DequeueInv ==
    ASSUME PipelineInv, NEW c \in Consumers, NEW n, Dequeue(c, n)
    PROVE  PipelineInv'
<1> USE DEF Dequeue, queueVars
<1> DEFINE q == responseQueues[c]
           t == SubSeq(q, n + 1, Len(q))
<1>1. q \in Seq(Response) /\ n \in 1..Len(q) /\ Len(q) \in Nat
  BY LenProperties DEF PipelineInv, TypeOK
<1>2. \A i \in (n+1)..Len(q) : q[i] \in Response
  BY <1>1, ElementOfSeq
<1>3. /\ t \in Seq(Response)
      /\ Len(t) = Len(q) - n
      /\ \A i \in 1..(Len(q) - n) : t[i] = q[i + n]
  BY <1>1, <1>2, SubSeqProperties
<1>4. \A d \in Consumers : responseQueues'[d] = IF d = c THEN t ELSE responseQueues[d]
  BY DEF PipelineInv, TypeOK
<1>5. TypeOK'
  BY <1>3, <1>4 DEF PipelineInv, TypeOK
<1>6. ResponsesReachOwner'
  <2> HIDE DEF q, t, Dequeue, queueVars
  <2>1. n \in Nat /\ \A i \in 1..Len(t) : i + n \in 1..Len(q) /\ t[i] = q[i + n]
    BY <1>1, <1>3
  <2>2. ASSUME NEW d \in Consumers
        PROVE  \E k \in Nat : \A i \in 1..Len(responseQueues'[d]) :
                   /\ i + k \in 1..Len(responseQueues[d])
                   /\ responseQueues'[d][i] = responseQueues[d][i + k]
    <3>1. CASE d = c
      <4>1. responseQueues'[d] = t /\ responseQueues[d] = q
        BY <3>1, <1>4 DEF q
      <4> QED  BY <4>1, <2>1
    <3>2. CASE d # c
      <4>1. \A i \in 1..Len(responseQueues'[d]) :
                   /\ i + 0 \in 1..Len(responseQueues[d])
                   /\ responseQueues'[d][i] = responseQueues[d][i + 0]
        BY <3>2, <1>4
      <4> QED  BY <4>1
    <3> QED  BY <3>1, <3>2
  <2>3. UNCHANGED <<owner, answers>>
    BY DEF Dequeue
  <2> QED
    BY <2>2, <2>3, QueuesShrink DEF PipelineInv
<1> QED
  BY <1>5, <1>6 DEF PipelineInv, AtMostOneResponse, NothingLost, OneEntryPerRequest,
     Held, TimeoutArmed, RetriesBounded, PITToken, EntriesKeepOwner, WorkerClosesForOrphans

\* Answering an entry of the PIT: onData, the unsupported Nack and the last
\* timeout.  The entry is its request's only one and its request has no
\* answer yet, so removing it and appending one response settles the request.
LEMMA PushDataInv ==
    ASSUME PipelineInv, NEW e \in pit, NEW kind \in Kinds, PushData(e, kind),
           UNCHANGED <<consumers, requestQueue, batch, piq, owner>>,
           pc' \in {"new", "loop", "rx", "timeout", "send", "done", "aborted"}
    PROVE  PipelineInv'
<1> DEFINE c == e.consumerId
           r == e.req
           m == [req |-> r, kind |-> kind]
<1>1. /\ e \in PendingInterest /\ e \in Held /\ c \in Consumers /\ r \in Requests
      /\ owner[r] = c /\ answers[r] = <<>> /\ m \in Response
  BY PipelineAssumption
     DEF PipelineInv, TypeOK, EntriesKeepOwner, NothingLost, Held, Response
<1>2. CASE isClosed /\ UNCHANGED <<closedBy, responseQueues, answers, pit>>
  BY <1>2, QuietStep DEF queueVars
<1>3. CASE /\ ~isClosed
           /\ ~Registered(c)
           /\ CloseBy("worker")
           /\ UNCHANGED <<responseQueues, answers, pit>>
  <2>1. consumers[c] = "gone" /\ closedBy' = "worker"
    BY <1>1, <1>3 DEF PipelineInv, TypeOK, EntriesKeepOwner, Registered, CloseBy, isClosed
  <2>2. WorkerClosesForOrphans'
    BY <1>1, <1>3, <2>1 DEF WorkerClosesForOrphans
  <2>3. TypeOK'
    BY <1>3, <2>1 DEF PipelineInv, TypeOK
  <2>4. AtMostOneResponse' /\ NothingLost' /\ OneEntryPerRequest' /\ EntriesKeepOwner'
    BY <1>3 DEF PipelineInv, AtMostOneResponse, NothingLost, OneEntryPerRequest, Held,
       EntriesKeepOwner
  <2>5. TimeoutArmed' /\ RetriesBounded'
    BY <1>3 DEF PipelineInv, TimeoutArmed, RetriesBounded, PITToken, Held
  <2>6. ResponsesReachOwner'
    BY <1>3, QueuesUnchanged DEF PipelineInv
  <2> QED
    BY <2>2, <2>3, <2>4, <2>5, <2>6 DEF PipelineInv
<1>4. CASE /\ ~isClosed
           /\ Registered(c)
           /\ responseQueues' = [responseQueues EXCEPT ![c] = Append(@, m)]
           /\ answers' = [answers EXCEPT ![r] = Append(@, kind)]
           /\ pit' = pit \ {e}
           /\ UNCHANGED closedBy
  <2>1. /\ \A x \in Requests : answers'[x] = IF x = r THEN <<kind>> ELSE answers[x]
        /\ \A d \in Consumers : responseQueues'[d] =
               IF d = c THEN Append(responseQueues[c], m) ELSE responseQueues[d]
        /\ Held' = Held \ {e}
    <3>1. Append(answers[r], kind) = <<kind>>
      BY <1>1
    <3>2. requestQueue \cup batch = (requestQueue \cup batch) \ {e}
      BY DEF PipelineInv, OneEntryPerRequest
    <3> QED  BY <1>1, <1>4, <3>1, <3>2 DEF PipelineInv, TypeOK, Held
  <2>2. \A f \in Held : f.req = r => f = e
    BY <1>1 DEF PipelineInv, OneEntryPerRequest
  <2>3. <<kind>> # <<>> /\ Len(<<kind>>) = 1 /\ <<kind>>[1] = kind /\ <<kind>> \in Seq(Kinds)
    <3>1. Len(<<kind>>) = 1 /\ <<kind>>[1] = kind
      OBVIOUS
    <3>2. <<kind>> \in Seq(Kinds)
      OBVIOUS
    <3> QED  BY <3>1, <3>2
  <2>4. TypeOK'
    <3>1. responseQueues[c] \in Seq(Response)
      BY <1>1 DEF PipelineInv, TypeOK
    <3>2. Append(responseQueues[c], m) \in Seq(Response)
      BY <1>1, <3>1, AppendProperties
    <3>3. /\ responseQueues' \in [Consumers -> Seq(Response)]
          /\ answers' \in [Requests -> Seq(Kinds)]
      BY <1>4, <2>1, <2>3, <3>2 DEF PipelineInv, TypeOK
    <3> QED  BY <1>4, <3>3 DEF PipelineInv, TypeOK
  <2>5. AtMostOneResponse'
    <3>1. ASSUME NEW x \in Requests  PROVE Len(answers'[x]) <= 1
      <4>1. CASE x = r
        <5>1. Len(answers'[x]) = 1
          BY <4>1, <2>1, <2>3
        <5> QED  BY <5>1
      <4>2. CASE x # r
        BY <4>2, <2>1 DEF PipelineInv, AtMostOneResponse
      <4> QED  BY <4>1, <4>2
    <3> QED  BY <3>1 DEF AtMostOneResponse
  <2>6. NothingLost'
    <3> SUFFICES ASSUME NEW x \in Requests, owner[x] # NoConsumer
                 PROVE  answers'[x] = <<>> <=> \E f \in Held' : f.req = x
      BY DEF NothingLost
    <3>1. CASE x = r
      BY <3>1, <2>1, <2>2, <2>3
    <3>2. CASE x # r
      BY <3>2, <2>1 DEF PipelineInv, NothingLost
    <3> QED  BY <3>1, <3>2
  <2>7. OneEntryPerRequest' /\ RetriesBounded' /\ TimeoutArmed'
    BY <1>4, <2>1 DEF PipelineInv, OneEntryPerRequest, RetriesBounded, TimeoutArmed, PITToken
  <2>8. EntriesKeepOwner' /\ WorkerClosesForOrphans'
    <3>1. closedBy' # "worker"
      BY <1>4 DEF isClosed
    <3>2. owner[r] # NoConsumer
      BY <1>1, PipelineAssumption
    <3> QED
      BY <2>1, <3>1, <3>2 DEF PipelineInv, EntriesKeepOwner, WorkerClosesForOrphans
  <2>9. ResponsesReachOwner'
    <3> SUFFICES ASSUME NEW d \in Consumers
                 PROVE  /\ \A i \in 1..Len(responseQueues'[d]) :
                              LET n == responseQueues'[d][i] IN
                              /\ owner[n.req] = d
                              /\ Len(answers'[n.req]) = 1
                              /\ answers'[n.req][1] = n.kind
                        /\ \A i, j \in 1..Len(responseQueues'[d]) :
                              responseQueues'[d][i].req = responseQueues'[d][j].req => i = j
      BY DEF ResponsesReachOwner
    <3> DEFINE q == responseQueues[d]
    <3>1. \A i \in 1..Len(q) :
              /\ q[i].req \in Requests
              /\ q[i].req # r
              /\ owner[q[i].req] = d
              /\ Len(answers'[q[i].req]) = 1
              /\ answers'[q[i].req][1] = q[i].kind
      BY <1>1, <2>1, QueuedResponse DEF PipelineInv, ResponsesReachOwner
    <3>2. \A i, j \in 1..Len(q) : q[i].req = q[j].req => i = j
      BY DEF PipelineInv, ResponsesReachOwner
    <3>3. CASE d # c
      BY <3>1, <3>2, <3>3, <2>1
    <3>4. CASE d = c
      <4> DEFINE t == responseQueues'[d]
      <4>1. q \in Seq(Response) /\ Len(q) \in Nat
        BY LenProperties DEF PipelineInv, TypeOK
      <4>2. /\ Len(t) = Len(q) + 1
            /\ \A i \in 1..Len(q) : t[i] = q[i]
            /\ t[Len(q) + 1] = m
        <5>1. t = Append(q, m) /\ m \in Response
          BY <1>1, <2>1, <3>4
        <5> HIDE DEF t, q, m
        <5> QED  BY <5>1, <4>1, AppendProperties
      <4>3. m.req = r /\ m.kind = kind /\ answers'[r] = <<kind>>
        BY <1>1, <2>1
      <4> HIDE DEF q, t, m
      <4>4. \A i \in 1..Len(t) : i \in 1..Len(q) \/ i = Len(q) + 1
        BY <4>1, <4>2
      <4>5. \A i \in 1..Len(t) : /\ owner[t[i].req] = d
                                 /\ Len(answers'[t[i].req]) = 1
                                 /\ answers'[t[i].req][1] = t[i].kind
        <5>1. ASSUME NEW i \in 1..Len(q)
              PROVE  t[i] = q[i]
          BY <4>2
        <5>2. Len(<<kind>>) = 1 /\ <<kind>>[1] = kind
          OBVIOUS
        <5>3. LET n == t[Len(q) + 1] IN
              owner[n.req] = d /\ Len(answers'[n.req]) = 1 /\ answers'[n.req][1] = n.kind
          BY <1>1, <3>4, <4>2, <4>3, <5>2
        <5> QED  BY <3>1, <4>4, <5>1, <5>3
      <4>6. ASSUME NEW i \in 1..Len(t), NEW j \in 1..Len(t), t[i].req = t[j].req
            PROVE  i = j
        <5>1. \A k \in 1..Len(q) : t[k] = q[k] /\ t[k].req # r
          BY <3>1, <4>2
        <5>2. t[Len(q) + 1].req = r
          BY <4>2, <4>3
        <5>3. CASE i \in 1..Len(q) /\ j \in 1..Len(q)
          BY <3>2, <4>6, <5>1, <5>3
        <5>4. CASE i = Len(q) + 1 /\ j = Len(q) + 1
          BY <5>4
        <5>5. ~(i \in 1..Len(q) /\ j = Len(q) + 1)
          BY <4>6, <5>1, <5>2
        <5>6. ~(j \in 1..Len(q) /\ i = Len(q) + 1)
          BY <4>6, <5>1, <5>2
        <5> QED  BY <4>4, <5>3, <5>4, <5>5, <5>6
      <4> QED  BY <4>5, <4>6 DEF t
    <3> QED  BY <3>3, <3>4
  <2> QED
    BY <2>4, <2>5, <2>6, <2>7, <2>8, <2>9 DEF PipelineInv
<1> QED
  BY <1>2, <1>3, <1>4 DEF PushData

\* refreshPITEntry moves an entry back to the request queue under a new
\* token: onNack (piq unchanged) and onTimeout (its token leaves piq).
LEMMA RefreshInv ==
    ASSUME PipelineInv, NEW e \in pit, NEW b \in BOOLEAN, RefreshPITEntry(e, b),
           b => ~hasReachedMaximumNumOfRetries(e),
           \/ UNCHANGED piq
           \/ piq # <<>> /\ PITToken(e) = Head(piq) /\ piq' = Tail(piq),
           UNCHANGED <<closedBy, consumers, responseQueues, batch, pc, owner, answers>>
    PROVE  PipelineInv'
<1> DEFINE f == refresh(e, b)
<1>1. /\ e \in PendingInterest /\ e \in Held
      /\ f \in PendingInterest /\ f.req = e.req /\ f.consumerId = e.consumerId
      /\ f.retries <= MaxRetries
  <2>1. e \in PendingInterest /\ e \in Held /\ e.retries <= MaxRetries
    BY DEF PipelineInv, TypeOK, Held, RetriesBounded
  <2>2. /\ f \in PendingInterest /\ f.req = e.req /\ f.consumerId = e.consumerId
        /\ f.retries = IF b THEN e.retries + 1 ELSE e.retries
    BY <2>1, RefreshEntry
  <2>3. b => e.retries < MaxRetries
    BY <2>1, PipelineAssumption DEF hasReachedMaximumNumOfRetries
  <2> QED
    BY <2>1, <2>2, <2>3, PipelineAssumption
<1> HIDE DEF f
<1>2. pit' = pit \ {e} /\ requestQueue' = requestQueue \cup {f}
  BY DEF RefreshPITEntry, f
<1>3. e \notin requestQueue \cup batch /\ \A g \in Held : g.req = e.req => g = e
  BY <1>1 DEF PipelineInv, OneEntryPerRequest
<1>4. Held' = (Held \ {e}) \cup {f}
  BY <1>2, <1>3 DEF Held
<1>5. piq \in Seq(Token) /\ piq' \in Seq(Token)
  <2>1. piq \in Seq(Token)
    BY DEF PipelineInv, TypeOK
  <2> HIDE DEF Token
  <2>2. piq # <<>> => Tail(piq) \in Seq(Token)
    BY <2>1, HeadTailProperties
  <2> QED  BY <2>1, <2>2
<1>6. TypeOK'
  BY <1>1, <1>2, <1>5 DEF PipelineInv, TypeOK
<1>7. AtMostOneResponse' /\ ResponsesReachOwner'
  BY DEF PipelineInv, AtMostOneResponse, ResponsesReachOwner
<1>8. NothingLost'
  BY <1>1, <1>3, <1>4 DEF PipelineInv, NothingLost
<1>9. OneEntryPerRequest'
  BY <1>1, <1>2, <1>3, <1>4 DEF PipelineInv, OneEntryPerRequest, Held
<1>10. EntriesKeepOwner' /\ WorkerClosesForOrphans'
  BY <1>1, <1>4 DEF PipelineInv, EntriesKeepOwner, WorkerClosesForOrphans
<1>11. RetriesBounded'
  BY <1>1, <1>4 DEF PipelineInv, RetriesBounded
<1>12. TimeoutArmed'
  <2> SUFFICES ASSUME NEW g \in pit, g # e
               PROVE  \E i \in 1..Len(piq') : piq'[i] = PITToken(g)
    BY <1>2 DEF TimeoutArmed, PITToken
  <2>1. PITToken(g) # PITToken(e)
    BY <1>1, <1>3 DEF PITToken, Held
  <2>2. PICK i \in 1..Len(piq) : piq[i] = PITToken(g)
    BY DEF PipelineInv, TimeoutArmed
  <2>3. CASE UNCHANGED piq
    BY <2>2, <2>3
  <2>4. CASE piq # <<>> /\ PITToken(e) = Head(piq) /\ piq' = Tail(piq)
    BY <1>5, <2>1, <2>2, <2>4, TailKeeps
  <2> QED  BY <2>3, <2>4
<1> QED
  BY <1>6, <1>7, <1>8, <1>9, <1>10, <1>11, <1>12 DEF PipelineInv

\* Tokens of satisfied entries leave the timeout queue.
LEMMA SkipInv ==
    ASSUME PipelineInv, SkipSatisfied
    PROVE  PipelineInv'
<1> USE DEF SkipSatisfied
<1>1. piq \in Seq(Token) /\ piq' \in Seq(Token)
  BY HeadTailProperties DEF PipelineInv, TypeOK
<1>2. TypeOK'
  BY <1>1 DEF PipelineInv, TypeOK
<1>3. TimeoutArmed'
  <2> SUFFICES ASSUME NEW g \in pit
               PROVE  \E i \in 1..Len(piq') : piq'[i] = PITToken(g)
    BY DEF TimeoutArmed, PITToken
  <2>1. PITToken(g) # Head(piq)
    BY DEF InPit
  <2>2. PICK i \in 1..Len(piq) : piq[i] = PITToken(g)
    BY DEF PipelineInv, TimeoutArmed
  <2> QED  BY <1>1, <2>1, <2>2, TailKeeps
<1> QED
  BY <1>2, <1>3 DEF PipelineInv, AtMostOneResponse, NothingLost, OneEntryPerRequest, Held,
     EntriesKeepOwner, ResponsesReachOwner, RetriesBounded, WorkerClosesForOrphans

\* A burst leaves the request queue for the rest of the burst, and the part
\* the face took for the PIT, its tokens behind those in the timeout queue.
LEMMA SendInv ==
    ASSUME PipelineInv, NEW B, NEW S, Send(B, S)
    PROVE  PipelineInv'
<1> USE DEF Send
<1>1. B \subseteq requestQueue \cup batch /\ batch \subseteq B
  BY DEF Burst, Popped
<1>2. Held' = Held
  BY <1>1 DEF Held
<1>3. PICK s \in TokenOrders(S) : piq' = piq \o s
  OBVIOUS
<1>4. S \in SUBSET PendingInterest
  BY <1>1 DEF PipelineInv, TypeOK
<1>5. s \in Seq(Token) /\ Len(s) = Cardinality(S)
  <2>1. {PITToken(e) : e \in S} \subseteq Token
    BY <1>4 DEF PITToken
  <2>2. s \in [1..Cardinality(S) -> Token]
    BY <2>1 DEF TokenOrders
  <2>3. Cardinality(S) \in Nat
    <3>1. S \in SUBSET Held
      BY <1>1 DEF Held
    <3>2. IsFiniteSet(S)
      BY <3>1, HeldFinite, FS_Subset
    <3> QED  BY <3>2, FS_CardinalityType
  <2> QED  BY <2>2, <2>3
<1>6. piq \in Seq(Token)
  BY DEF PipelineInv, TypeOK
<1>7. /\ piq' \in Seq(Token)
      /\ Len(piq') = Len(piq) + Len(s)
      /\ \A i \in 1..Len(piq) + Len(s) :
            piq'[i] = IF i <= Len(piq) THEN piq[i] ELSE s[i - Len(piq)]
  BY <1>3, <1>5, <1>6, ConcatProperties
<1>8. TypeOK'
  BY <1>1, <1>4, <1>7 DEF PipelineInv, TypeOK
<1>9. TimeoutArmed'
  <2> SUFFICES ASSUME NEW g \in pit \cup S
               PROVE  \E i \in 1..Len(piq') : piq'[i] = PITToken(g)
    BY DEF TimeoutArmed, PITToken
  <2>1. Len(piq) \in Nat /\ Len(s) \in Nat
    BY <1>5, <1>6
  <2>2. CASE g \in pit
    <3>1. PICK i \in 1..Len(piq) : piq[i] = PITToken(g)
      BY <2>2 DEF PipelineInv, TimeoutArmed
    <3>2. i \in 1..Len(piq') /\ piq'[i] = PITToken(g)
      BY <3>1, <2>1, <1>7
    <3> QED  BY <3>2
  <2>3. CASE g \in S
    <3>1. PICK i \in 1..Len(s) : s[i] = PITToken(g)
      BY <2>3, <1>5 DEF TokenOrders
    <3>2. /\ Len(piq) + i \in 1..Len(piq')
          /\ ~(Len(piq) + i <= Len(piq))
          /\ (Len(piq) + i) - Len(piq) = i
      BY <2>1, <1>7
    <3>3. piq'[Len(piq) + i] = PITToken(g)
      BY <3>1, <3>2, <1>7
    <3> QED  BY <3>2, <3>3
  <2> QED  BY <2>2, <2>3
<1>10. OneEntryPerRequest'
  BY <1>1, <1>2 DEF PipelineInv, OneEntryPerRequest, Burst, Popped
<1> QED
  BY <1>2, <1>8, <1>9, <1>10 DEF PipelineInv, AtMostOneResponse, NothingLost,
     EntriesKeepOwner, ResponsesReachOwner, RetriesBounded, WorkerClosesForOrphans

\* A send that fails moves the burst into the worker's batch and closes.
LEMMA SendFailureInv ==
    ASSUME PipelineInv, SendFailure
    PROVE  PipelineInv'
<1>1. PICK B \in {batch} \cup SUBSET requestQueue :
        /\ Burst(B)
        /\ requestQueue' = requestQueue \ B
        /\ batch' = B
        /\ CloseBy("link")
        /\ pc' = "done"
        /\ UNCHANGED <<consumers, responseQueues, pit, piq, owner, answers>>
  BY DEF SendFailure
<1>2. B \subseteq requestQueue \cup batch /\ batch \subseteq B
  BY <1>1 DEF Burst, Popped
<1>3. Held' = Held
  BY <1>1, <1>2 DEF Held
<1>4. closedBy' \in {closedBy, "link"}
  BY <1>1 DEF CloseBy
<1>5. TypeOK'
  BY <1>1, <1>2, <1>4 DEF PipelineInv, TypeOK
<1>6. OneEntryPerRequest'
  BY <1>1, <1>2, <1>3 DEF PipelineInv, OneEntryPerRequest, Burst, Popped
<1>7. AtMostOneResponse' /\ NothingLost' /\ EntriesKeepOwner' /\ RetriesBounded'
  BY <1>1, <1>3 DEF PipelineInv, AtMostOneResponse, NothingLost, EntriesKeepOwner,
     RetriesBounded
<1>8. ResponsesReachOwner' /\ TimeoutArmed'
  BY <1>1, QueuesUnchanged DEF PipelineInv, TimeoutArmed, PITToken
<1>9. WorkerClosesForOrphans'
  BY <1>1, <1>4 DEF PipelineInv, WorkerClosesForOrphans
<1> QED
  BY <1>5, <1>6, <1>7, <1>8, <1>9 DEF PipelineInv

-----------------------------------------------------------------------------
(* The two halves of the induction, for either window policy.               *)

\* The constructor establishes the invariant.
LEMMA BaseInitInv == BaseInit => PipelineInv
<1> SUFFICES ASSUME BaseInit PROVE PipelineInv
  OBVIOUS
<1> USE DEF BaseInit
<1>1. Held = {} /\ Len(<<>>) = 0 /\ 1..0 = {}
  BY DEF Held
<1>2. /\ \A c \in Consumers : responseQueues[c] = <<>>
      /\ \A r \in Requests : owner[r] = NoConsumer /\ answers[r] = <<>>
  OBVIOUS
<1>3. TypeOK
  <2>1. <<>> \in Seq(Response) /\ <<>> \in Seq(Token) /\ <<>> \in Seq(Kinds)
    OBVIOUS
  <2>2. /\ responseQueues \in [Consumers -> Seq(Response)]
        /\ answers \in [Requests -> Seq(Kinds)]
        /\ piq \in Seq(Token)
    BY <2>1
  <2> QED  BY <2>2 DEF TypeOK
<1>4. AtMostOneResponse /\ NothingLost /\ OneEntryPerRequest /\ RetriesBounded
  BY <1>1, <1>2 DEF AtMostOneResponse, NothingLost, OneEntryPerRequest, RetriesBounded, Held
<1>5. EntriesKeepOwner /\ TimeoutArmed /\ WorkerClosesForOrphans
  BY <1>1, <1>2, PipelineAssumption DEF EntriesKeepOwner, TimeoutArmed, WorkerClosesForOrphans
<1>6. ResponsesReachOwner
  BY <1>1, <1>2 DEF ResponsesReachOwner
<1> QED
  BY <1>3, <1>4, <1>5, <1>6 DEF PipelineInv

\* A call of a consumer thread preserves the invariant.
LEMMA ClientInv ==
    ASSUME PipelineInv, Client
    PROVE  PipelineInv'
<1>1. CASE Close
  BY <1>1, QuietStep DEF Close, CloseBy, PipelineInv, TypeOK
<1>2. ASSUME NEW c \in Consumers, UnregisteredCall(c)  PROVE PipelineInv'
  BY <1>2, QuietStep DEF UnregisteredCall, CloseBy, PipelineInv, TypeOK
<1>3. ASSUME NEW c \in Consumers, PushInterest(c)  PROVE PipelineInv'
  <2>1. PICK r \in Idle : Enqueue(c, {r})
    BY <1>3 DEF PushInterest
  <2> QED  BY <2>1, EnqueueInv
<1>4. ASSUME NEW c \in Consumers, PushInterestBulk(c)  PROVE PipelineInv'
  BY <1>4, EnqueueInv DEF PushInterestBulk
<1>5. ASSUME NEW c \in Consumers, PopData(c) \/ PopDataBulk(c)  PROVE PipelineInv'
  BY <1>5, DequeueInv DEF PopData, PopDataBulk
<1> QED
  BY <1>1, <1>2, <1>3, <1>4, <1>5, RegisterInv, UnregisterInv DEF Client

\* A step of the worker that does not handle an entry preserves it.
LEMMA WorkerInv ==
    ASSUME PipelineInv, WorkerStep
    PROVE  PipelineInv'
<1>1. CASE WorkerStart \/ PureVirtualCall \/ LoopTop \/ RxDone \/ TimeoutDone \/ NothingToSend
  BY <1>1, QuietStep DEF WorkerStart, PureVirtualCall, LoopTop, RxDone, TimeoutDone, NothingToSend
<1>2. CASE OnDisconnect
  BY <1>2, QuietStep DEF OnDisconnect, CloseBy, PipelineInv, TypeOK
<1>3. CASE SendBurst
  BY <1>3, SendInv DEF SendBurst
<1> QED
  BY <1>1, <1>2, <1>3, SkipInv, SendFailureInv DEF WorkerStep

\* A packet or a timeout for an entry of the PIT preserves it.
LEMMA EntryInv ==
    ASSUME PipelineInv, NEW e \in pit, OnData(e) \/ OnNack(e) \/ Expire(e)
    PROVE  PipelineInv'
<1>0. "data" \in Kinds /\ "null" \in Kinds
  BY DEF Kinds
<1>1. CASE OnData(e)
  BY <1>0, <1>1, PushDataInv DEF OnData, PipelineInv, TypeOK
<1>2. CASE OnNackNone(e)
  BY <1>2, QuietStep DEF OnNackNone, baseVars, queueVars, PipelineInv, TypeOK
<1>3. CASE OnNackOther(e)
  BY <1>0, <1>3, PushDataInv DEF OnNackOther, PipelineInv, TypeOK
<1>4. CASE OnNackDuplicate(e)
  <2>1. CASE RefreshPITEntry(e, FALSE)
    BY <1>4, <2>1, RefreshInv DEF OnNackDuplicate
  <2>2. CASE UNCHANGED <<pit, requestQueue>>
    BY <1>4, <2>2, QuietStep DEF OnNackDuplicate, queueVars, PipelineInv, TypeOK
  <2> QED  BY <1>4, <2>1, <2>2 DEF OnNackDuplicate
<1>5. CASE GiveUp(e)
  BY <1>0, <1>5, PushDataInv DEF GiveUp
<1>6. CASE Retransmit(e)
  <2>1. CASE RefreshPITEntry(e, TRUE) /\ piq' = Tail(piq) /\ UNCHANGED pc
    BY <1>6, <2>1, RefreshInv DEF Retransmit, HeadEntry
  <2>2. CASE pc' = "send" /\ UNCHANGED <<pit, requestQueue, piq>>
    BY <1>6, <2>2, QuietStep DEF Retransmit, queueVars, PipelineInv, TypeOK
  <2> QED  BY <1>6, <2>1, <2>2 DEF Retransmit
<1> QED
  BY <1>1, <1>2, <1>3, <1>4, <1>5, <1>6 DEF OnNack, Expire

\* Every step of the shared code preserves the invariant.
THEOREM BaseStepInv == PipelineInv /\ [BaseNext]_baseVars => PipelineInv'
<1> SUFFICES ASSUME PipelineInv, [BaseNext]_baseVars PROVE PipelineInv'
  OBVIOUS
<1>1. CASE UNCHANGED baseVars
  BY <1>1, QuietStep DEF baseVars, queueVars, PipelineInv, TypeOK
<1> QED
  BY <1>1, ClientInv, WorkerInv, EntryInv DEF BaseNext, ClientStep

-----------------------------------------------------------------------------
(* How many Interests are in flight, for either window policy.              *)

\* A burst is finite; it is what the last send left, or fits into the window.
LEMMA BurstFits ==
    ASSUME PipelineInv, windowSize \in Nat, NEW B, Burst(B)
    PROVE  /\ IsFiniteSet(B) /\ Cardinality(B) \in Nat /\ Cardinality(pit) \in Nat
           /\ Cardinality(pit) < windowSize
           /\ \/ B = batch
              \/ /\ Cardinality(pit) + Cardinality(B) <= windowSize
                 /\ Cardinality(B) <= MaxBurst
<1>1. IsFiniteSet(B) /\ IsFiniteSet(pit) /\ IsFiniteSet(requestQueue)
  BY HeldFinite, FS_Subset DEF Burst, Popped
<1>2. Cardinality(pit) \in Nat /\ Cardinality(B) \in Nat /\ Cardinality(requestQueue) \in Nat
  BY <1>1, FS_CardinalityType
<1>3. Cardinality(pit) < windowSize
  BY <1>2 DEF Burst, WindowFull
<1>4. CASE Popped(B)
  BY <1>1, <1>2, <1>3, <1>4, PipelineAssumption DEF Popped, MinOf
<1> QED  BY <1>1, <1>2, <1>3, <1>4 DEF Burst

\* A send moves entries from the burst to the PIT and adds none.
LEMMA SendFlight ==
    ASSUME PipelineInv, windowSize \in Nat, NEW B, NEW S, Send(B, S)
    PROVE  /\ Cardinality(pit') \in Nat /\ Cardinality(batch') \in Nat
           /\ Cardinality(batch') <= Cardinality(B)
           /\ Cardinality(pit') + Cardinality(batch') <= Cardinality(pit) + Cardinality(B)
<1>1. /\ IsFiniteSet(pit) /\ IsFiniteSet(B) /\ S \in SUBSET B
      /\ Cardinality(pit) \in Nat /\ Cardinality(B) \in Nat
      /\ pit' = pit \cup S /\ batch' = B \ S
  BY HeldFinite, BurstFits DEF Send
<1>2. IsFiniteSet(S) /\ IsFiniteSet(B \ S) /\ Cardinality(S) \in Nat
  BY <1>1, FS_Subset, FS_Difference, FS_CardinalityType
<1>3. Cardinality(B \ S) = Cardinality(B) - Cardinality(S) /\ Cardinality(B \ S) \in Nat
  <2>1. B \cap S = S
    BY <1>1
  <2> QED  BY <1>1, <1>2, <2>1, FS_Difference, FS_CardinalityType
<1>4. /\ Cardinality(pit \cup S) \in Nat
      /\ Cardinality(pit \cup S) <= Cardinality(pit) + Cardinality(S)
  <2>1. IsFiniteSet(pit \cap S) /\ IsFiniteSet(pit \cup S)
    BY <1>1, <1>2, FS_Intersection, FS_Union
  <2>2. Cardinality(pit \cap S) \in Nat /\ Cardinality(pit \cup S) \in Nat
    BY <2>1, FS_CardinalityType
  <2>3. Cardinality(pit \cup S) = Cardinality(pit) + Cardinality(S) - Cardinality(pit \cap S)
    BY <1>1, <1>2, FS_Union
  <2> QED  BY <1>1, <1>2, <2>2, <2>3
<1> QED  BY <1>1, <1>2, <1>3, <1>4

\* Only a send adds to the PIT, at most what is in its burst.
LEMMA FlightStep ==
    ASSUME PipelineInv, windowSize \in Nat, [BaseNext]_baseVars
    PROVE  /\ Cardinality(pit) \in Nat /\ Cardinality(batch) \in Nat
           /\ Cardinality(pit') \in Nat /\ Cardinality(batch') \in Nat
           /\ \/ Cardinality(pit') <= Cardinality(pit) /\ batch' = batch
              \/ \E B : /\ Burst(B)
                        /\ Cardinality(batch') <= Cardinality(B)
                        /\ Cardinality(pit') + Cardinality(batch')
                               <= Cardinality(pit) + Cardinality(B)
<1>1. /\ IsFiniteSet(pit) /\ IsFiniteSet(batch)
      /\ Cardinality(pit) \in Nat /\ Cardinality(batch) \in Nat
  BY HeldFinite, FS_CardinalityType
<1>2. CASE batch' = batch /\ pit' \subseteq pit
  <2>1. Cardinality(pit') <= Cardinality(pit) /\ Cardinality(pit') \in Nat
    BY <1>1, <1>2, FS_Subset, FS_CardinalityType
  <2> QED  BY <1>1, <1>2, <2>1
<1>3. CASE SendBurst
  <2>1. PICK B, S : Send(B, S)
    BY <1>3 DEF SendBurst
  <2>2. Burst(B)
    BY <2>1 DEF Send
  <2> QED  BY <1>1, <2>1, <2>2, SendFlight
<1>4. CASE SendFailure
  <2>1. PICK B : Burst(B) /\ batch' = B /\ UNCHANGED pit
    BY <1>4 DEF SendFailure
  <2>2. Cardinality(B) \in Nat
    BY <2>1, BurstFits
  <2> QED  BY <1>1, <2>1, <2>2
<1>5. CASE UNCHANGED baseVars
  BY <1>2, <1>5 DEF baseVars
<1>6. CASE ClientStep
  BY <1>2, <1>6 DEF ClientStep, Client, queueVars, Close, RegisterConsumer, UnregisterConsumer,
     UnregisteredCall, PushInterest, PushInterestBulk, Enqueue, PopData, PopDataBulk, Dequeue
<1>7. CASE WorkerStep
  <2>1. CASE \/ WorkerStart \/ PureVirtualCall \/ LoopTop \/ OnDisconnect \/ RxDone
             \/ SkipSatisfied \/ TimeoutDone \/ NothingToSend
    BY <1>2, <2>1 DEF queueVars, WorkerStart, PureVirtualCall, LoopTop, OnDisconnect, RxDone,
       SkipSatisfied, TimeoutDone, NothingToSend
  <2> QED  BY <1>7, <2>1, <1>3, <1>4 DEF WorkerStep
<1>8. CASE \E e \in pit : OnData(e) \/ OnNack(e) \/ Expire(e)
  <2>1. batch' = batch /\ pit' \subseteq pit
    BY <1>8 DEF OnData, OnNack, OnNackNone, OnNackDuplicate, OnNackOther, Expire, GiveUp,
       Retransmit, PushData, RefreshPITEntry, baseVars
  <2> QED  BY <1>2, <2>1
<1> QED
  BY <1>5, <1>6, <1>7, <1>8 DEF BaseNext

-----------------------------------------------------------------------------
(* Refinement: a step of the pipeline is a step of RequestResponse, or none. *)

\* What the consumers see changes only with pushes, answers and close.
LEMMA UnseenStep ==
    ASSUME UNCHANGED <<owner, answers>>, isClosed' = isClosed
    PROVE  UNCHANGED Abstract!abstractVars
BY DEF Abstract!abstractVars, StatusOf

\* Closing the pipeline stops the abstract one.
LEMMA CloseIsStop ==
    ASSUME UNCHANGED <<owner, answers>>, ~isClosed, isClosed'
    PROVE  Abstract!AbstractNext
BY DEF Abstract!AbstractNext, Abstract!Stop, StatusOf

\* Pushing requests submits them.
LEMMA EnqueueIsSubmit ==
    ASSUME PipelineInv, NEW c \in Consumers, NEW R \in SUBSET Idle, R # {}, Enqueue(c, R)
    PROVE  Abstract!AbstractNext
<1> USE DEF Enqueue, Idle
<1>1. \A r \in R : r \in Requests /\ StatusOf(r) = "idle"
  BY DEF StatusOf
<1>2. \A r \in R : answers[r] = <<>>
  BY DEF PipelineInv, EntriesKeepOwner
<1>3. \A r \in Requests : owner'[r] = IF r \in R THEN c ELSE owner[r]
  OBVIOUS
<1>4. \A r \in Requests : StatusOf(r)' = IF r \in R THEN "pending" ELSE StatusOf(r)
  BY <1>2, <1>3, PipelineAssumption DEF StatusOf
<1>5. isClosed' = isClosed /\ ~isClosed
  BY DEF isClosed
<1>6. R \in SUBSET Requests
  OBVIOUS
<1>7. Abstract!Submit(R)
  BY <1>1, <1>4, <1>5 DEF Abstract!Submit
<1> QED  BY <1>6, <1>7 DEF Abstract!AbstractNext

\* Pushing a response answers a pending request, stops the pipeline, or is
\* not seen at all.
LEMMA PushDataIsRespond ==
    ASSUME PipelineInv, NEW e \in pit, NEW kind \in Kinds, PushData(e, kind), UNCHANGED owner
    PROVE  Abstract!AbstractNext \/ UNCHANGED Abstract!abstractVars
<1> DEFINE r == e.req
<1>1. /\ r \in Requests /\ owner[r] # NoConsumer /\ answers[r] = <<>>
  BY PipelineAssumption DEF PipelineInv, TypeOK, EntriesKeepOwner, NothingLost, Held
<1>2. CASE isClosed
  BY <1>2, UnseenStep DEF PushData, isClosed
<1>3. CASE ~isClosed /\ CloseBy("worker") /\ UNCHANGED answers
  BY <1>3, CloseIsStop DEF CloseBy, isClosed
<1>4. CASE ~isClosed /\ UNCHANGED closedBy /\ answers' = [answers EXCEPT ![r] = Append(@, kind)]
  <2>1. \A x \in Requests : answers'[x] = IF x = r THEN <<kind>> ELSE answers[x]
    <3>1. Append(answers[r], kind) = <<kind>>
      BY <1>1
    <3> QED  BY <1>1, <1>4, <3>1 DEF PipelineInv, TypeOK
  <2>2. <<kind>> # <<>> /\ <<kind>>[1] = kind
    <3>1. Len(<<kind>>) = 1
      OBVIOUS
    <3> QED  BY <3>1
  <2>3. StatusOf(r) = "pending" /\ StatusOf(r)' = kind
    BY <1>1, <2>1, <2>2 DEF StatusOf
  <2>4. \A x \in Requests : StatusOf(x)' = IF x = r THEN kind ELSE StatusOf(x)
    <3>1. ASSUME NEW x \in Requests, x # r  PROVE StatusOf(x)' = StatusOf(x)
      BY <2>1, <3>1 DEF StatusOf
    <3> QED  BY <2>3, <3>1
  <2>5. isClosed' = isClosed
    BY <1>4 DEF isClosed
  <2> HIDE DEF r
  <2>6. Abstract!Respond(r, kind)
    BY <1>1, <1>4, <2>3, <2>4, <2>5 DEF Abstract!Respond
  <2> QED  BY <1>1, <2>6 DEF Abstract!AbstractNext, Abstract!Responses, Kinds
<1> QED  BY <1>2, <1>3, <1>4 DEF PushData

\* Every step of the shared code is an abstract step or changes nothing the
\* consumers can see.
THEOREM BaseStepRefines ==
    PipelineInv /\ [BaseNext]_baseVars => [Abstract!AbstractNext]_(Abstract!abstractVars)
<1> SUFFICES ASSUME PipelineInv, [BaseNext]_baseVars
             PROVE  Abstract!AbstractNext \/ UNCHANGED Abstract!abstractVars
  OBVIOUS
<1>0. "data" \in Kinds /\ "null" \in Kinds
  BY DEF Kinds
<1>1. CASE UNCHANGED baseVars
  BY <1>1, UnseenStep DEF baseVars, isClosed
<1>2. CASE Client
  <2>1. ASSUME NEW c \in Consumers, PushInterest(c) \/ PushInterestBulk(c)
        PROVE  Abstract!AbstractNext
    <3>1. PICK R \in SUBSET Idle : R # {} /\ Enqueue(c, R)
      BY <2>1 DEF PushInterest, PushInterestBulk
    <3> QED  BY <3>1, EnqueueIsSubmit
  <2>2. CASE Close \/ \E c \in Consumers : UnregisteredCall(c)
    BY <2>2, CloseIsStop DEF Close, UnregisteredCall, CloseBy, isClosed
  <2>3. ASSUME NEW c \in Consumers,
               RegisterConsumer(c) \/ UnregisterConsumer(c) \/ PopData(c) \/ PopDataBulk(c)
        PROVE  UNCHANGED Abstract!abstractVars
    BY <2>3, UnseenStep DEF RegisterConsumer, UnregisterConsumer, PopData, PopDataBulk, Dequeue,
       isClosed
  <2> QED  BY <1>2, <2>1, <2>2, <2>3 DEF Client
<1>3. CASE WorkerStep
  <2>1. CASE OnDisconnect \/ SendFailure
    <3>1. UNCHANGED <<owner, answers>> /\ isClosed'
      BY <2>1 DEF OnDisconnect, SendFailure, CloseBy, isClosed
    <3> QED  BY <3>1, UnseenStep, CloseIsStop
  <2>2. CASE \/ WorkerStart \/ PureVirtualCall \/ LoopTop \/ RxDone
             \/ SkipSatisfied \/ TimeoutDone \/ NothingToSend \/ SendBurst
    BY <2>2, UnseenStep DEF WorkerStart, PureVirtualCall, LoopTop, RxDone, SkipSatisfied,
       TimeoutDone, NothingToSend, SendBurst, Send, isClosed
  <2> QED  BY <1>3, <2>1, <2>2 DEF WorkerStep
<1>4. ASSUME NEW e \in pit, OnData(e) \/ OnNack(e) \/ Expire(e)
      PROVE  Abstract!AbstractNext \/ UNCHANGED Abstract!abstractVars
  <2>1. CASE OnData(e) \/ OnNackOther(e) \/ GiveUp(e)
    BY <1>0, <2>1, PushDataIsRespond DEF OnData, OnNackOther, GiveUp
  <2>2. CASE OnNackNone(e) \/ OnNackDuplicate(e) \/ Retransmit(e)
    BY <2>2, UnseenStep DEF OnNackNone, OnNackDuplicate, Retransmit, isClosed, baseVars
  <2> QED  BY <1>4, <2>1, <2>2 DEF OnNack, Expire
<1> QED  BY <1>1, <1>2, <1>3, <1>4 DEF BaseNext, ClientStep

\* The pipeline starts with every request idle.
THEOREM BaseInitRefines == BaseInit => Abstract!Start
BY DEF BaseInit, Abstract!Start, StatusOf, isClosed

-----------------------------------------------------------------------------
(* PipelineFixed.                                                           *)

\* A step of the pipeline is a step of the shared code that keeps the window.
LEMMA FixedIsBaseNext == [FixedNext]_fixedVars => [BaseNext]_baseVars /\ UNCHANGED windowSize
BY DEF FixedNext, fixedVars, BaseNext, fixedOnData, fixedOnNack, fixedOnTimeout

\* For any number of requests, consumers, retries and any window, through
\* every interleaving of the consumer threads, the worker and the network:
\* the pipeline answers a request at most once, loses none, keeps one entry
\* and one armed timeout for it, and answers the consumer that asked.
THEOREM FixedAccounting ==
    FixedSpec => [](/\ TypeOK /\ AtMostOneResponse /\ NothingLost /\ OneEntryPerRequest
               /\ TimeoutArmed /\ ResponsesReachOwner /\ RetriesBounded
               /\ WorkerClosesForOrphans)
<1>1. FixedInit => PipelineInv
  BY BaseInitInv DEF FixedInit
<1>2. PipelineInv /\ [FixedNext]_fixedVars => PipelineInv'
  BY FixedIsBaseNext, BaseStepInv
<1>3. PipelineInv => /\ TypeOK /\ AtMostOneResponse /\ NothingLost /\ OneEntryPerRequest
                     /\ TimeoutArmed /\ ResponsesReachOwner /\ RetriesBounded
                     /\ WorkerClosesForOrphans
  BY DEF PipelineInv
<1> QED  BY <1>1, <1>2, <1>3, PTL DEF FixedSpec

-----------------------------------------------------------------------------
(* The window.                                                              *)

FixedWindowInv == windowSize = WindowSize /\ InFlightWithinWindow

\* No step takes the PIT and the batch beyond the window.
LEMMA FixedWindowStep == PipelineInv /\ FixedWindowInv /\ [FixedNext]_fixedVars => FixedWindowInv'
<1> SUFFICES ASSUME PipelineInv, FixedWindowInv, [FixedNext]_fixedVars PROVE FixedWindowInv'
  OBVIOUS
<1>1. [BaseNext]_baseVars /\ windowSize' = windowSize /\ windowSize \in Nat
  BY FixedIsBaseNext, WindowAssumption DEF FixedWindowInv
<1>2. CASE Cardinality(pit') <= Cardinality(pit) /\ batch' = batch
  BY <1>1, <1>2, FlightStep DEF FixedWindowInv, InFlightWithinWindow
<1>3. ASSUME NEW B, Burst(B),
             Cardinality(pit') + Cardinality(batch') <= Cardinality(pit) + Cardinality(B)
      PROVE  FixedWindowInv'
  <2>1. Cardinality(pit) + Cardinality(B) <= WindowSize
    BY <1>1, <1>3, BurstFits DEF FixedWindowInv, InFlightWithinWindow
  <2> QED  BY <1>1, <1>3, <2>1, FlightStep, BurstFits DEF FixedWindowInv, InFlightWithinWindow
<1> QED  BY <1>1, <1>2, <1>3, FlightStep

\* Whatever the window, the Interests on the network and those that wait for
\* the face never exceed it.
THEOREM FixedWindow == FixedSpec => []InFlightWithinWindow
<1>1. FixedInit => PipelineInv /\ FixedWindowInv
  BY BaseInitInv, FS_EmptySet, WindowAssumption
     DEF FixedInit, BaseInit, FixedWindowInv, InFlightWithinWindow
<1>2. PipelineInv /\ [FixedNext]_fixedVars => PipelineInv'
  BY FixedIsBaseNext, BaseStepInv
<1>3. FixedWindowInv => InFlightWithinWindow
  BY DEF FixedWindowInv
<1> QED  BY <1>1, <1>2, <1>3, FixedWindowStep, PTL DEF FixedSpec

-----------------------------------------------------------------------------
\* The pipeline implements the safety part of RequestResponse: one response
\* per request, none that was not asked for, none after it closed.
THEOREM FixedRefines == FixedSpec => ImplementsSafety
<1>1. FixedInit => Abstract!Start /\ PipelineInv
  BY BaseInitInv, BaseInitRefines DEF FixedInit
<1>2. PipelineInv /\ [FixedNext]_fixedVars => PipelineInv'
  BY FixedIsBaseNext, BaseStepInv
<1>3. PipelineInv /\ [FixedNext]_fixedVars => [Abstract!AbstractNext]_(Abstract!abstractVars)
  BY FixedIsBaseNext, BaseStepRefines
<1> QED  BY <1>1, <1>2, <1>3, PTL DEF FixedSpec, ImplementsSafety, Abstract!AbstractSafety

-----------------------------------------------------------------------------
(* PipelineAimd.                                                            *)

\* A step of the pipeline is a step of the shared code.
LEMMA AimdIsBaseNext == [Next]_vars => [BaseNext]_baseVars
BY DEF Next, vars, BaseNext, onData, onNack, onTimeout, RttElapsed, Expire

\* The shared code keeps its promises under the adaptive window as well.
THEOREM AimdAccounting ==
    Spec => [](/\ TypeOK /\ AtMostOneResponse /\ NothingLost /\ OneEntryPerRequest
               /\ TimeoutArmed /\ ResponsesReachOwner /\ RetriesBounded
               /\ WorkerClosesForOrphans)
<1>1. Init => PipelineInv
  BY BaseInitInv DEF Init
<1>2. PipelineInv /\ [Next]_vars => PipelineInv'
  BY AimdIsBaseNext, BaseStepInv
<1>3. PipelineInv => /\ TypeOK /\ AtMostOneResponse /\ NothingLost /\ OneEntryPerRequest
                     /\ TimeoutArmed /\ ResponsesReachOwner /\ RetriesBounded
                     /\ WorkerClosesForOrphans
  BY DEF PipelineInv
<1> QED  BY <1>1, <1>2, <1>3, PTL DEF Spec

\* The adaptive pipeline implements the safety part of RequestResponse.
THEOREM AimdRefines == Spec => ImplementsSafety
<1>1. Init => Abstract!Start /\ PipelineInv
  BY BaseInitInv, BaseInitRefines DEF Init
<1>2. PipelineInv /\ [Next]_vars => PipelineInv'
  BY AimdIsBaseNext, BaseStepInv
<1>3. PipelineInv /\ [Next]_vars => [Abstract!AbstractNext]_(Abstract!abstractVars)
  BY AimdIsBaseNext, BaseStepRefines
<1> QED  BY <1>1, <1>2, <1>3, PTL DEF Spec, ImplementsSafety, Abstract!AbstractSafety

-----------------------------------------------------------------------------
(* The window.                                                              *)

\* A window record that satisfies the bounds.
GoodWindow(w) ==
    /\ w.size \in Nat /\ w.ssthresh \in Nat /\ w.inc \in Nat /\ w.recent \in BOOLEAN
    /\ MinWindow <= w.size
    /\ w.size <= WindowLimit /\ w.ssthresh <= WindowLimit
    /\ w.inc < w.size
    /\ InitialSsthresh <= MaxWindow /\ w.size < w.ssthresh => w.ssthresh = InitialSsthresh

WindowInv == GoodWindow(Window)

\* Halving the window keeps it good.
LEMMA DecreaseGood ==
    ASSUME NEW w, GoodWindow(w)
    PROVE  GoodWindow(decreaseWindow(w))
<1>1. CASE w.recent
  BY <1>1 DEF decreaseWindow
<1>2. CASE ~w.recent
  <2> DEFINE half == MaxOf(w.size \div 2, MinWindow)
  <2>1. half \in Nat /\ MinWindow <= half /\ half <= w.size /\ 0 < half
    BY AimdAssumption DEF GoodWindow, MaxOf
  <2> HIDE DEF half
  <2>2. decreaseWindow(w) = [size |-> half, ssthresh |-> half, inc |-> 0, recent |-> TRUE]
    BY <1>2 DEF decreaseWindow, half
  <2>3. WindowLimit \in Nat
    BY AimdAssumption DEF WindowLimit, MaxOf
  <2> QED  BY <2>1, <2>2, <2>3 DEF GoodWindow
<1> QED  BY <1>1, <1>2 DEF GoodWindow

\* Growing the window keeps it good.
LEMMA IncreaseGood ==
    ASSUME NEW w \in [size: Nat, ssthresh: Nat, inc: Nat, recent: BOOLEAN], GoodWindow(w)
    PROVE  GoodWindow(increaseWindow(w))
<1>0. /\ WindowLimit \in Nat /\ MaxWindow <= WindowLimit /\ InitialSsthresh <= WindowLimit
      /\ InitialSsthresh <= MaxWindow => WindowLimit = MaxWindow
  BY AimdAssumption DEF WindowLimit, MaxOf
<1>1. CASE w.size < w.ssthresh
  BY <1>0, <1>1, AimdAssumption DEF increaseWindow, GoodWindow
<1>2. CASE ~(w.size < w.ssthresh) /\ w.inc + 1 >= w.size
  BY <1>0, <1>2, AimdAssumption DEF increaseWindow, GoodWindow, MinOf
<1>3. CASE ~(w.size < w.ssthresh) /\ ~(w.inc + 1 >= w.size)
  BY <1>0, <1>3, AimdAssumption DEF increaseWindow, GoodWindow
<1> QED  BY <1>1, <1>2, <1>3

\* No step takes the window out of its bounds.
LEMMA WindowStep == WindowInv /\ [Next]_vars => WindowInv'
<1> SUFFICES ASSUME WindowInv, [Next]_vars PROVE WindowInv'
  OBVIOUS
<1> USE DEF WindowInv
<1>1. Window \in [size: Nat, ssthresh: Nat, inc: Nat, recent: BOOLEAN]
  BY DEF Window, GoodWindow
<1>2. ASSUME NEW w, GoodWindow(w), SetWindow(w)  PROVE GoodWindow(Window)'
  BY <1>2 DEF SetWindow, Window, GoodWindow, WindowLimit
<1>3. CASE UNCHANGED windowVars
  BY <1>3 DEF windowVars, Window, GoodWindow, WindowLimit
<1>4. CASE RttElapsed
  BY <1>4 DEF RttElapsed, Window, GoodWindow, WindowLimit
<1>5. GoodWindow(decreaseWindow(Window))
  BY DecreaseGood
<1>6. decreaseWindow(Window) \in [size: Nat, ssthresh: Nat, inc: Nat, recent: BOOLEAN]
  BY <1>1, AimdAssumption DEF decreaseWindow, MaxOf
<1>7. ASSUME NEW e \in pit, NEW marked \in BOOLEAN, onData(e, marked)
      PROVE  GoodWindow(Window)'
  <2> DEFINE w == IF marked THEN decreaseWindow(Window) ELSE Window
  <2>1. GoodWindow(w) /\ w \in [size: Nat, ssthresh: Nat, inc: Nat, recent: BOOLEAN]
    BY <1>1, <1>5, <1>6
  <2>2. SetWindow(w) \/ SetWindow(increaseWindow(w))
    BY <1>7 DEF onData
  <2> QED  BY <1>2, <2>1, <2>2, IncreaseGood
<1>8. ASSUME NEW e \in pit, onTimeout(e)  PROVE GoodWindow(Window)'
  BY <1>2, <1>3, <1>5, <1>8 DEF onTimeout
<1> QED
  BY <1>3, <1>4, <1>7, <1>8 DEF Next, vars, onNack

\* For every MIN_WINDOW, MAX_WINDOW and initial ssthresh the window stays in
\* its bounds, and slow start ends with the first decrease.
THEOREM AimdWindow == Spec => [](WindowInBounds /\ SlowStartOnlyAtStart)
<1>1. Init => WindowInv
  BY AimdAssumption DEF Init, WindowInv, Window, GoodWindow, WindowLimit, MaxOf
<1>2. WindowInv => WindowInBounds /\ SlowStartOnlyAtStart
  BY DEF WindowInv, Window, GoodWindow, WindowInBounds, SlowStartOnlyAtStart
<1> QED  BY <1>1, <1>2, WindowStep, PTL DEF Spec

-----------------------------------------------------------------------------
(* The Interests in flight.                                                 *)

FlightInv ==
    /\ PipelineInv
    /\ WindowInv
    /\ InFlightWithinLimit
    /\ Cardinality(batch) <= MaxBurst

\* No step takes the Interests in flight beyond the largest window.
LEMMA FlightStepInv ==
    ASSUME FlightInv, [Next]_vars
    PROVE  FlightInv' /\ (Cardinality(pit') > Cardinality(pit)
                              => Cardinality(pit') < windowSize + MaxBurst)
<1>1. /\ [BaseNext]_baseVars /\ windowSize \in Nat /\ windowSize <= WindowLimit
      /\ PipelineInv' /\ WindowInv' /\ WindowLimit \in Nat /\ MaxBurst \in Nat
  BY AimdIsBaseNext, BaseStepInv, WindowStep, AimdAssumption, PipelineAssumption
     DEF FlightInv, WindowInv, Window, GoodWindow, WindowLimit, MaxOf
<1>2. /\ Cardinality(pit) \in Nat /\ Cardinality(batch) \in Nat
      /\ Cardinality(pit') \in Nat /\ Cardinality(batch') \in Nat
  BY <1>1, FlightStep DEF FlightInv
<1>3. CASE Cardinality(pit') <= Cardinality(pit) /\ batch' = batch
  BY <1>1, <1>2, <1>3 DEF FlightInv, InFlightWithinLimit, WindowLimit
<1>4. ASSUME NEW B, Burst(B), Cardinality(batch') <= Cardinality(B),
             Cardinality(pit') + Cardinality(batch') <= Cardinality(pit) + Cardinality(B)
      PROVE  /\ Cardinality(pit') + Cardinality(batch') <= WindowLimit
             /\ Cardinality(batch') <= MaxBurst
             /\ Cardinality(pit') < windowSize + MaxBurst
  <2>1. /\ Cardinality(B) \in Nat /\ Cardinality(pit) < windowSize
        /\ \/ B = batch
           \/ /\ Cardinality(pit) + Cardinality(B) <= windowSize
              /\ Cardinality(B) <= MaxBurst
    BY <1>1, <1>4, BurstFits DEF FlightInv
  <2>2. Cardinality(B) <= MaxBurst /\ Cardinality(pit) + Cardinality(B) <= WindowLimit
    BY <1>1, <1>2, <2>1 DEF FlightInv, InFlightWithinLimit
  <2> QED  BY <1>1, <1>2, <1>4, <2>1, <2>2
<1> QED
  BY <1>1, <1>3, <1>4, FlightStep DEF FlightInv, InFlightWithinLimit, WindowLimit

\* For every window and burst size: what is in flight stays within the largest
\* window, and a send overshoots the current window by less than a burst.
THEOREM AimdFlight == Spec => []InFlightWithinLimit /\ OvershootBelowBurst
<1>1. Init => FlightInv
  <2> SUFFICES ASSUME Init PROVE FlightInv
    OBVIOUS
  <2>1. PipelineInv /\ Cardinality(pit) = 0 /\ Cardinality(batch) = 0
    BY BaseInitInv, FS_EmptySet DEF Init, BaseInit
  <2>2. WindowInv
    BY AimdAssumption DEF Init, WindowInv, Window, GoodWindow, WindowLimit, MaxOf
  <2> QED
    BY <2>1, <2>2, AimdAssumption, PipelineAssumption
       DEF FlightInv, InFlightWithinLimit, WindowLimit, MaxOf
<1>2. FlightInv /\ [Next]_vars =>
        FlightInv' /\ [Cardinality(pit') > Cardinality(pit)
                          => Cardinality(pit') < windowSize + MaxBurst]_vars
  BY FlightStepInv
<1>3. FlightInv => InFlightWithinLimit
  BY DEF FlightInv
<1> QED  BY <1>1, <1>2, <1>3, PTL DEF Spec, OvershootBelowBurst

=============================================================================
