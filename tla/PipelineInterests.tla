------------------------- MODULE PipelineInterests -------------------------
(***************************************************************************)
(* The part of the NDNc Interest pipeline that the two window policies     *)
(* share: the queues between the consumer threads and the worker thread,   *)
(* the table of pending Interests (PIT), the order in which its entries    *)
(* time out (PIQ), and the worker's loop.                                  *)
(*                                                                         *)
(* PipelineInterestsFixed and PipelineInterestsAimd (modules PipelineFixed *)
(* and PipelineAimd) hold the same code for the loop and the handlers and  *)
(* differ in the window; the actions here constrain every variable but     *)
(* windowSize, which those modules add.                                    *)
(*                                                                         *)
(* Consumer threads call the Push*, Pop*, Register and Unregister actions; *)
(* the worker runs  loop -> rx -> timeout -> send -> loop,  and the packet *)
(* handlers run on the worker, inside face->loop() (pc = "rx").            *)
(***************************************************************************)
EXTENDS Integers, Sequences, FiniteSets

CONSTANTS
    Requests,     \* the Interests the consumers may ever push, each once
    Consumers,    \* consumer identifiers
    DefaultId,    \* identifier 0, registered by the constructor
    NackReasons,  \* reasons a Nack may carry: a subset of AllNackReasons
    MaxRetries,   \* timeouts before giving up (8 in the code)
    MaxBurst,     \* Interests per send (64 in the code)
    MaxNacks,     \* bound: duplicate Nacks the network sends per request
    NoConsumer    \* the owner of a request not pushed yet

\* The room in the window is cast from size_t to int.
IntMax == 2147483647

AllNackReasons == {"NONE", "DUPLICATE", "OTHER"}

ASSUME PipelineAssumption ==
    /\ IsFiniteSet(Requests)
    /\ DefaultId \in Consumers
    /\ NoConsumer \notin Consumers
    /\ NackReasons \subseteq AllNackReasons
    /\ MaxRetries \in Nat
    /\ MaxBurst \in Nat \ {0}
    /\ MaxNacks \in Nat

VARIABLES
    closedBy,        \* who set m_closed: "none" while it is false
    consumers,       \* per identifier: "new", "registered" or "gone"
    responseQueues,  \* responseQueuesMap_: what popData will return
    requestQueue,    \* m_requestQueue, pending Interests not popped yet
    batch,           \* pendingInterests[index..]: popped, not sent yet
    pit,             \* m_pit: the pending Interests that are on the network
    piq,             \* m_piq: tokens in the order they were expressed
    pc,              \* where the worker is
    owner,           \* history: the consumer that pushed each request
    answers,         \* history: the responses pushed for each request
    windowSize       \* m_windowSize, updated by the window policy

queueVars == <<requestQueue, batch, pit, piq>>
baseVars == <<closedBy, consumers, responseQueues, requestQueue, batch, pit,
              piq, pc, owner, answers>>

-----------------------------------------------------------------------------
(* A PendingInterest.  A PIT token is a fresh random 64-bit number; here it *)
(* is the pair of the request and the number of times it was refreshed, so  *)
(* that fresh tokens are new tokens (collisions are left out).              *)

Kinds == {"data", "null"}

Response == [req: Requests, kind: Kinds]

PendingInterest == [req: Requests, consumerId: Consumers, att: Nat, retries: Nat]

Token == Requests \X Nat

\* Mutant: the constructor leaves the retry count to chance.
NewPendingInterestUnset(r, c) == [req |-> r, consumerId |-> c, att |-> 0, retries |-> -1]

NewPendingInterest(r, c) == [req |-> r, consumerId |-> c, att |-> 0, retries |-> 0]

PITToken(e) == <<e.req, e.att>>

hasReachedMaximumNumOfRetries(e) == e.retries >= MaxRetries

refresh(e, timeoutReason) ==
    [req |-> e.req, consumerId |-> e.consumerId, att |-> e.att + 1,
     retries |-> IF timeoutReason THEN e.retries + 1 ELSE e.retries]

isClosed == closedBy # "none"

InPit(t) == \E e \in pit : PITToken(e) = t

Idle == {r \in Requests : owner[r] = NoConsumer}

Registered(c) == consumers[c] = "registered"

-----------------------------------------------------------------------------
(* What consumer threads call.  A call that finds the pipeline closed, and  *)
(* a pop that finds its queue empty, returns without changing anything: no  *)
(* action.  The checks and the enqueue of a push are one step: what other   *)
(* threads do in between (close, push, pop) commutes with the enqueue.      *)

\* m_closed is one flag; closedBy remembers the first that set it.
CloseBy(who) == closedBy' = IF isClosed THEN closedBy ELSE who

Close ==
    /\ ~isClosed
    /\ CloseBy("client")
    /\ UNCHANGED <<consumers, responseQueues, queueVars, pc, owner, answers>>

\* Identifiers are random 64-bit numbers, so one is never handed out twice.
RegisterConsumer(c) ==
    /\ consumers[c] = "new"
    /\ consumers' = [consumers EXCEPT ![c] = "registered"]
    /\ responseQueues' = [responseQueues EXCEPT ![c] = <<>>]
    /\ UNCHANGED <<closedBy, queueVars, pc, owner, answers>>

\* The response queue goes away with what it holds; requests stay behind.
UnregisterConsumer(c) ==
    /\ Registered(c)
    /\ consumers' = [consumers EXCEPT ![c] = "gone"]
    /\ responseQueues' = [responseQueues EXCEPT ![c] = <<>>]
    /\ UNCHANGED <<closedBy, queueVars, pc, owner, answers>>

\* Any call with an identifier that is not registered closes the pipeline.
UnregisteredCall(c) ==
    /\ ~isClosed
    /\ ~Registered(c)
    /\ CloseBy("client")
    /\ UNCHANGED <<consumers, responseQueues, queueVars, pc, owner, answers>>

Enqueue(c, R) ==
    /\ ~isClosed
    /\ Registered(c)
    /\ requestQueue' = requestQueue \cup {NewPendingInterest(r, c) : r \in R}
    /\ owner' = [r \in Requests |-> IF r \in R THEN c ELSE owner[r]]
    /\ UNCHANGED <<closedBy, consumers, responseQueues, batch, pit, piq, pc, answers>>

PushInterest(c) == \E r \in Idle : Enqueue(c, {r})

PushInterestBulk(c) == \E R \in SUBSET Idle : R # {} /\ Enqueue(c, R)

Dequeue(c, n) ==
    /\ ~isClosed
    /\ Registered(c)
    /\ n \in 1..Len(responseQueues[c])
    /\ responseQueues' =
           [responseQueues EXCEPT ![c] = SubSeq(@, n + 1, Len(@))]
    /\ UNCHANGED <<closedBy, consumers, queueVars, pc, owner, answers>>

PopData(c) == Dequeue(c, 1)

PopDataBulk(c) == \E n \in 1..Len(responseQueues[c]) : Dequeue(c, n)

Client ==
    \/ Close
    \/ \E c \in Consumers :
          \/ RegisterConsumer(c)
          \/ UnregisterConsumer(c)
          \/ UnregisteredCall(c)
          \/ PushInterest(c)
          \/ PushInterestBulk(c)
          \/ PopData(c)
          \/ PopDataBulk(c)

-----------------------------------------------------------------------------
(* What the worker's handlers do to an entry of the PIT.                    *)

\* Mutant: the answered entry is not erased.
PushDataKeepsEntry(e, kind) ==
    /\ ~isClosed
    /\ Registered(e.consumerId)
    /\ responseQueues' = [responseQueues EXCEPT ![e.consumerId] =
                             Append(@, [req |-> e.req, kind |-> kind])]
    /\ answers' = [answers EXCEPT ![e.req] = Append(@, kind)]
    /\ UNCHANGED <<closedBy, pit>>

\* Mutant: the response goes to consumer 0.
PushDataToDefault(e, kind) ==
    /\ ~isClosed
    /\ responseQueues' = [responseQueues EXCEPT ![DefaultId] =
                             Append(@, [req |-> e.req, kind |-> kind])]
    /\ answers' = [answers EXCEPT ![e.req] = Append(@, kind)]
    /\ pit' = pit \ {e}
    /\ UNCHANGED closedBy

\* Mutant: a closed pipeline still answers.
PushDataAfterClose(e, kind) ==
    /\ Registered(e.consumerId)
    /\ responseQueues' = [responseQueues EXCEPT ![e.consumerId] =
                             Append(@, [req |-> e.req, kind |-> kind])]
    /\ answers' = [answers EXCEPT ![e.req] = Append(@, kind)]
    /\ pit' = pit \ {e}
    /\ UNCHANGED closedBy

\* pushData(consumerId, pkt), and what every caller does with its result:
\* close when it fails, erase the entry when it succeeds.
PushData(e, kind) ==
    \/ /\ ~isClosed
       /\ Registered(e.consumerId)
       /\ responseQueues' = [responseQueues EXCEPT ![e.consumerId] =
                                Append(@, [req |-> e.req, kind |-> kind])]
       /\ answers' = [answers EXCEPT ![e.req] = Append(@, kind)]
       /\ pit' = pit \ {e}
       /\ UNCHANGED closedBy
    \/ /\ ~isClosed
       /\ ~Registered(e.consumerId)
       /\ CloseBy("worker")
       /\ UNCHANGED <<responseQueues, answers, pit>>
    \/ /\ isClosed
       /\ UNCHANGED <<closedBy, responseQueues, answers, pit>>

\* refreshPITEntry of an entry of the PIT; it fails when the pipeline closed.
RefreshPITEntry(e, timeoutReason) ==
    /\ ~isClosed
    /\ pit' = pit \ {e}
    /\ requestQueue' = requestQueue \cup {refresh(e, timeoutReason)}

-----------------------------------------------------------------------------
(* The packet handlers, called from face->loop().  The network may lose,    *)
(* repeat, delay and reorder packets: a Data or a Nack for an entry of the  *)
(* PIT may come at any time or never.  A packet whose token is not in the   *)
(* PIT is dropped: no action.                                               *)

OnData(e) ==
    /\ pc = "rx"
    /\ PushData(e, "data")
    /\ UNCHANGED <<consumers, requestQueue, batch, piq, pc, owner>>

\* A Nack without a reason is ignored, the entry is left to its timeout.
OnNackNone(e) ==
    /\ pc = "rx"
    /\ "NONE" \in NackReasons
    /\ UNCHANGED baseVars

\* A duplicate Nack: a fresh token and nonce, the retries are not counted.
\* When the pipeline has closed the refresh and the null response both fail.
OnNackDuplicate(e) ==
    /\ pc = "rx"
    /\ "DUPLICATE" \in NackReasons
    /\ e.att < e.retries + MaxNacks
    /\ \/ RefreshPITEntry(e, FALSE)
       \/ isClosed /\ UNCHANGED <<pit, requestQueue>>
    /\ UNCHANGED <<closedBy, consumers, responseQueues, batch, piq, pc, owner, answers>>

\* Mutant: an unsupported Nack closes the pipeline at once.
OnNackOtherCloses(e) ==
    /\ pc = "rx"
    /\ "OTHER" \in NackReasons
    /\ CloseBy("worker")
    /\ UNCHANGED <<consumers, responseQueues, queueVars, pc, owner, answers>>

OnNackOther(e) ==
    /\ pc = "rx"
    /\ "OTHER" \in NackReasons
    /\ PushData(e, "null")
    /\ UNCHANGED <<consumers, requestQueue, batch, piq, pc, owner>>

OnNack(e) == OnNackNone(e) \/ OnNackDuplicate(e) \/ OnNackOther(e)

\* The face's disconnect handler, run from face->loop() as well.
OnDisconnect ==
    /\ pc = "rx"
    /\ ~isClosed
    /\ CloseBy("link")
    /\ UNCHANGED <<consumers, responseQueues, queueVars, pc, owner, answers>>

-----------------------------------------------------------------------------
(* onTimeout, one action per way through an iteration of its loop.  Whether *)
(* the entry at the head has outlived its lifetime is for the clock to say. *)

HeadEntry(e) ==
    /\ pc = "timeout"
    /\ piq # <<>>
    /\ PITToken(e) = Head(piq)

SkipSatisfied ==
    /\ pc = "timeout"
    /\ piq # <<>>
    /\ ~InPit(Head(piq))
    /\ piq' = Tail(piq)
    /\ UNCHANGED <<closedBy, consumers, responseQueues, requestQueue, batch, pit,
                   pc, owner, answers>>

\* Mutant: an entry that has not expired loses its place in the queue.
TimeoutDonePops ==
    /\ pc = "timeout"
    /\ piq # <<>> => InPit(Head(piq))
    /\ piq' = IF piq = <<>> THEN piq ELSE Tail(piq)
    /\ pc' = "send"
    /\ UNCHANGED <<closedBy, consumers, responseQueues, requestQueue, batch, pit, owner, answers>>

\* The queue is empty, or the entry at its head has not expired.
TimeoutDone ==
    /\ pc = "timeout"
    /\ piq # <<>> => InPit(Head(piq))
    /\ pc' = "send"
    /\ UNCHANGED <<closedBy, consumers, responseQueues, queueVars, owner, answers>>

\* The token of the entry stays at the head until a later SkipSatisfied.
GiveUp(e) ==
    /\ HeadEntry(e)
    /\ hasReachedMaximumNumOfRetries(e)
    /\ PushData(e, "null")
    /\ pc' = "send"
    /\ UNCHANGED <<consumers, requestQueue, batch, piq, owner>>

Retransmit(e) ==
    /\ HeadEntry(e)
    /\ ~hasReachedMaximumNumOfRetries(e)
    /\ \/ /\ RefreshPITEntry(e, TRUE)
          /\ piq' = Tail(piq)
          /\ UNCHANGED pc
       \/ /\ isClosed
          /\ pc' = "send"
          /\ UNCHANGED <<pit, requestQueue, piq>>
    /\ UNCHANGED <<closedBy, consumers, responseQueues, batch, owner, answers>>

Expire(e) == GiveUp(e) \/ Retransmit(e)

-----------------------------------------------------------------------------
(* open(), the worker's loop.                                               *)

\* The base constructor starts the thread, whose first step is a virtual
\* call: fine once the derived constructor has begun ...
WorkerStart ==
    /\ pc = "new"
    /\ pc' = "loop"
    /\ UNCHANGED <<closedBy, consumers, responseQueues, queueVars, owner, answers>>

\* ... and a call of a pure virtual function, which ends the process, before.
PureVirtualCall ==
    /\ pc = "new"
    /\ pc' = "aborted"
    /\ UNCHANGED <<closedBy, consumers, responseQueues, queueVars, owner, answers>>

\* Mutant: the loop does not look at m_closed.
LoopForever ==
    /\ pc = "loop"
    /\ pc' = "rx"
    /\ UNCHANGED <<closedBy, consumers, responseQueues, queueVars, owner, answers>>

LoopTop ==
    /\ pc = "loop"
    /\ pc' = IF isClosed THEN "done" ELSE "rx"
    /\ UNCHANGED <<closedBy, consumers, responseQueues, queueVars, owner, answers>>

\* face->loop() has handled the packets that were there.
RxDone ==
    /\ pc = "rx"
    /\ pc' = "timeout"
    /\ UNCHANGED <<closedBy, consumers, responseQueues, queueVars, owner, answers>>

WindowFull == Cardinality(pit) >= windowSize

MinOf(a, b) == IF a < b THEN a ELSE b

\* Mutant: the room left by the PIT is not taken into account.
PoppedIgnoresPit(B) ==
    /\ ~isClosed
    /\ B \in SUBSET requestQueue
    /\ Cardinality(B) = MinOf(MinOf(windowSize, MaxBurst), Cardinality(requestQueue))

\* Mutant: the queue is drained whatever the window.
PoppedAll(B) == ~isClosed /\ B = requestQueue

\* popPendingInterests: as many as the window has room for, at most MaxBurst.
\* The queue keeps the order of one producer only: any entries may come out.
Popped(B) ==
    /\ ~isClosed
    /\ B \in SUBSET requestQueue
    /\ Cardinality(B) = MinOf(MinOf(windowSize - Cardinality(pit), MaxBurst),
                              Cardinality(requestQueue))

\* The burst face->send gets: what the last one left, or what is popped now.
Burst(B) ==
    /\ pc = "send"
    /\ ~WindowFull
    /\ B # {}
    /\ \/ batch # {} /\ B = batch
       \/ batch = {} /\ Popped(B)

\* The window is full or there is nothing to send: on to the next round.
NothingToSend ==
    /\ pc = "send"
    /\ WindowFull \/ (batch = {} /\ (isClosed \/ requestQueue = {}))
    /\ pc' = "loop"
    /\ UNCHANGED <<closedBy, consumers, responseQueues, queueVars, owner, answers>>

\* The tokens of the entries of S, in some order.
TokenOrders(S) ==
    {s \in [1..Cardinality(S) -> {PITToken(e) : e \in S}] :
        \A e \in S : \E i \in 1..Cardinality(S) : s[i] = PITToken(e)}

\* Mutant: what the face did not take is forgotten.
SendDropsRest(B, S) ==
    /\ Burst(B)
    /\ S \in SUBSET B
    /\ requestQueue' = requestQueue \ B
    /\ batch' = {}
    /\ pit' = pit \cup S
    /\ \E s \in TokenOrders(S) : piq' = piq \o s
    /\ pc' = "loop"
    /\ UNCHANGED <<closedBy, consumers, responseQueues, owner, answers>>

\* The face takes the entries S of the burst; the others wait in batch.
Send(B, S) ==
    /\ Burst(B)
    /\ S \in SUBSET B
    /\ requestQueue' = requestQueue \ B
    /\ batch' = B \ S
    /\ pit' = pit \cup S
    /\ \E s \in TokenOrders(S) : piq' = piq \o s
    /\ pc' = "loop"
    /\ UNCHANGED <<closedBy, consumers, responseQueues, owner, answers>>

SendBurst == \E B \in {batch} \cup SUBSET requestQueue : \E S \in SUBSET B : Send(B, S)

\* face->send fails: the pipeline closes and the worker returns.
SendFailure ==
    \E B \in {batch} \cup SUBSET requestQueue :
        /\ Burst(B)
        /\ requestQueue' = requestQueue \ B
        /\ batch' = B
        /\ CloseBy("link")
        /\ pc' = "done"
        /\ UNCHANGED <<consumers, responseQueues, pit, piq, owner, answers>>

-----------------------------------------------------------------------------
BaseInit ==
    /\ closedBy = "none"
    /\ consumers = [c \in Consumers |-> IF c = DefaultId THEN "registered" ELSE "new"]
    /\ responseQueues = [c \in Consumers |-> <<>>]
    /\ requestQueue = {}
    /\ batch = {}
    /\ pit = {}
    /\ piq = <<>>
    /\ pc = "new"
    /\ owner = [r \in Requests |-> NoConsumer]
    /\ answers = [r \in Requests |-> <<>>]

\* Client threads run until the process aborts.
ClientStep == pc \notin {"new", "aborted"} /\ Client

\* The worker's steps that leave the window alone under both policies.
WorkerStep ==
    \/ WorkerStart
    \/ PureVirtualCall
    \/ LoopTop
    \/ OnDisconnect
    \/ RxDone
    \/ SkipSatisfied
    \/ TimeoutDone
    \/ NothingToSend
    \/ SendBurst
    \/ SendFailure

\* The steps of the shared code, whatever they do to the window.
BaseNext ==
    \/ ClientStep
    \/ WorkerStep
    \/ \E e \in pit : OnData(e) \/ OnNack(e) \/ Expire(e)

-----------------------------------------------------------------------------
(* Properties of the shared code, checked under both policies.              *)

\* Every variable of the shared code has the type its declaration gives it.
TypeOK ==
    /\ closedBy \in {"none", "client", "worker", "link"}
    /\ consumers \in [Consumers -> {"new", "registered", "gone"}]
    /\ responseQueues \in [Consumers -> Seq(Response)]
    /\ requestQueue \in SUBSET PendingInterest
    /\ batch \in SUBSET PendingInterest
    /\ pit \in SUBSET PendingInterest
    /\ piq \in Seq(Token)
    /\ pc \in {"new", "loop", "rx", "timeout", "send", "done", "aborted"}
    /\ owner \in [Requests -> Consumers \cup {NoConsumer}]
    /\ answers \in [Requests -> Seq(Kinds)]

Held == requestQueue \cup batch \cup pit

\* Whatever order pushes, Data, Nacks, timeouts, partial sends and close come
\* in, no request is answered twice: a late or repeated packet never reaches
\* the consumer a second time (onData, onNack, onTimeout).
AtMostOneResponse == \A r \in Requests : Len(answers[r]) <= 1

\* A request that was pushed is unanswered exactly as long as the pipeline
\* holds an entry for it: no path of the worker loses one (a send the face
\* took only in part, a refresh, a close) and none keeps an answered one.
NothingLost ==
    \A r \in Requests : owner[r] # NoConsumer =>
        (answers[r] = <<>> <=> \E e \in Held : e.req = r)

\* The request queue, the unsent rest of a burst and the PIT never hold two
\* entries of one request: a refresh moves the entry, it does not copy it.
OneEntryPerRequest ==
    /\ \A e, f \in Held : e.req = f.req => e = f
    /\ requestQueue \cap batch = {}
    /\ requestQueue \cap pit = {}
    /\ batch \cap pit = {}

\* Every entry of the PIT has its token in the timeout queue: an Interest on
\* the network whose answer is lost always comes up for its timeout.
TimeoutArmed == \A e \in pit : \E i \in 1..Len(piq) : piq[i] = PITToken(e)

\* A response queue holds only answers to requests its own consumer pushed,
\* and each of them once (pushData, popDataBulk, unregisterConsumer).
ResponsesReachOwner ==
    \A c \in Consumers :
        /\ \A i \in 1..Len(responseQueues[c]) :
              LET m == responseQueues[c][i] IN
              /\ owner[m.req] = c
              /\ Len(answers[m.req]) = 1
              /\ answers[m.req][1] = m.kind
        /\ \A i, j \in 1..Len(responseQueues[c]) :
              responseQueues[c][i].req = responseQueues[c][j].req => i = j

\* No entry is refreshed for a timeout more than MaxRetries times, however
\* timeouts and duplicate Nacks alternate (hasReachedMaximumNumOfRetries).
RetriesBounded == \A e \in Held : e.retries <= MaxRetries

\* The worker itself closes the pipeline for one reason only: a consumer left
\* while one of its requests was unanswered.  Its handlers never fail to find
\* the entry they refresh or answer (at(key) in refreshPITEntry, pushData).
WorkerClosesForOrphans ==
    closedBy = "worker" =>
        \E r \in Requests :
            /\ owner[r] \in Consumers
            /\ consumers[owner[r]] = "gone"
            /\ answers[r] = <<>>

\* An entry carries the identifier of the consumer that pushed its request,
\* through every refresh, and that consumer had been registered (consumerId).
EntriesKeepOwner ==
    /\ \A e \in Held : owner[e.req] = e.consumerId
    /\ \A r \in Requests :
          /\ owner[r] = NoConsumer => answers[r] = <<>>
          /\ owner[r] \in Consumers => consumers[owner[r]] # "new"

\* The inductive invariant behind the properties above.
PipelineInv ==
    /\ TypeOK
    /\ AtMostOneResponse
    /\ NothingLost
    /\ OneEntryPerRequest
    /\ EntriesKeepOwner
    /\ TimeoutArmed
    /\ ResponsesReachOwner
    /\ RetriesBounded
    /\ WorkerClosesForOrphans

\* How the pipeline looks to its consumers: the refinement mapping.
StatusOf(r) ==
    IF owner[r] = NoConsumer THEN "idle"
    ELSE IF answers[r] = <<>> THEN "pending" ELSE answers[r][1]

Abstract == INSTANCE RequestResponse
                WITH status <- [r \in Requests |-> StatusOf(r)],
                     running <- ~isClosed

\* The pipeline implements RequestResponse's safety part: it accepts and
\* answers nothing once closed, never answers a request that was not pushed,
\* and never takes an answer back (pushInterest, pushData, close).
ImplementsSafety == Abstract!AbstractSafety

\* The pipeline implements all of RequestResponse, its fairness included.
ImplementsRequestResponse == Abstract!AbstractSpec

\* Once the pipeline is closed the worker returns, so that the join in the
\* destructor does not block.
WorkerStops == isClosed ~> pc = "done"

=============================================================================
