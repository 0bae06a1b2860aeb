--------------------------- MODULE XrdNdnPipeline ---------------------------
(***************************************************************************)
(* The fixed-window Pipeline of the xrootd-ndn-oss-plugin's consumer, its  *)
(* DataFetchers, and the thread that runs the events of the NDN face.      *)
(* Which calls the threads make is the business of module XrdNdnConsumer.  *)
(*                                                                         *)
(* A calling thread holds m_mtxWindow in Pipeline::insert, except while it *)
(* sleeps on m_cvWindow.  The face thread takes no lock: it changes the    *)
(* counter and the stop flag and notifies while an insert is under way.    *)
(* A callback is a sequence of steps of that thread (the variable face):   *)
(* make the future ready, change the counter or the flag, notify.          *)
(* The face calls back once per expressed Interest: Data, Nack or timeout. *)
(***************************************************************************)
EXTENDS Integers, Sequences, FiniteSets

CONSTANTS
    Threads,      \* threads that call the consumer
    NoThread,     \* holder of the mutex when it is free
    MaxNacks,     \* MAX_RETRIES_NACK
    MaxTimeouts,  \* MAX_RETRIES_TIMEOUT
    Word,         \* a uint64_t or size_t holds 0 to Word - 1: 2^64 in the code
    NackReasons,  \* reasons a Nack may carry
    MayThrow      \* whether Face::expressInterest may throw

ASSUME XrdNdnAssumption ==
    /\ NoThread \notin Threads
    /\ MaxNacks \in Nat
    /\ MaxTimeouts \in Nat
    /\ Word \in Nat \ {0}
    /\ NackReasons \subseteq {"DUPLICATE", "NO_ROUTE", "CONGESTION", "OTHER"}
    /\ MayThrow \in BOOLEAN

VARIABLES
    pc,          \* where each thread is
    todo,        \* the segments its call has still to ask for
    first,       \* how many DataFetchers it had made before its call
    size,        \* m_size, the pipeline size
    mutex,       \* who holds m_mtxWindow
    windowSize,  \* m_windowSize
    stopped,     \* m_stop of the pipeline
    faceUp,      \* the face thread is in processEvents
    face,        \* what the callback that runs in it still has to do
    window       \* m_window: the DataFetchers each thread has made

pipelineVars == <<pc, todo, first, size, mutex, windowSize, stopped, faceUp, face, window>>
threadVars == <<todo, first, size>>
faceVars == <<faceUp, face>>

\* The k-th Interest of thread t.
Interests == UNION {{t} \X DOMAIN window[t] : t \in Threads}
Fetcher(i) == window[i[1]][i[2]]

\* A DataFetcher whose Interest went out to where: the results m_task was
\* called with, and the counters of its retries.
NewFetcher(segment, where) ==
    [seg |-> segment, net |-> where, nNacks |-> 0, nTimeouts |-> 0, task |-> <<>>]

SetFetcher(i, f) == window' = [window EXCEPT ![i[1]][i[2]] = f]

-----------------------------------------------------------------------------
(* Pipeline::insert, for each segment of a call.                            *)

Goto(t, label) == pc' = [pc EXCEPT ![t] = label]

\* A call of the consumer that asks for some segments.
Call(t, segments) ==
    /\ Goto(t, "insert")
    /\ todo' = [todo EXCEPT ![t] = segments]
    /\ first' = [first EXCEPT ![t] = Len(window[t])]

\* insert takes the lock; a thread that was notified takes it again.
Lock(t) ==
    /\ pc[t] \in {"insert", "woken"}
    /\ mutex = NoThread
    /\ mutex' = t
    /\ Goto(t, "check")
    /\ UNCHANGED <<threadVars, windowSize, stopped, faceVars, window>>

\* The predicate of m_cvWindow.wait.
Check(t) ==
    /\ pc[t] = "check"
    /\ Goto(t, IF windowSize < size \/ stopped THEN "enter" ELSE "block")
    /\ UNCHANGED <<threadVars, mutex, windowSize, stopped, faceVars, window>>

\* wait releases the lock and goes to sleep; only from here on does a
\* notification reach the thread.
Block(t) ==
    /\ pc[t] = "block"
    /\ mutex' = NoThread
    /\ Goto(t, "waiting")
    /\ UNCHANGED <<threadVars, windowSize, stopped, faceVars, window>>

\* A stopped pipeline returns an invalid future and the call is given up.
Enter(t) ==
    /\ pc[t] = "enter"
    /\ IF stopped
       THEN mutex' = NoThread /\ Goto(t, "aborted")
       ELSE Goto(t, "express") /\ UNCHANGED mutex
    /\ UNCHANGED <<threadVars, windowSize, stopped, faceVars, window>>

\* Where an Interest is after expressInterest: an exception is only logged.
Expressed == {"pending"} \cup IF MayThrow THEN {"lost"} ELSE {}

Express(t) ==
    /\ pc[t] = "express"
    /\ \E where \in Expressed :
        window' = [window EXCEPT ![t] = Append(@, NewFetcher(Head(todo[t]), where))]
    /\ Goto(t, "count")
    /\ UNCHANGED <<threadVars, mutex, windowSize, stopped, faceVars>>

\* The slot is counted after the Interest is out: Data may have come before.
Count(t) ==
    /\ pc[t] = "count"
    /\ windowSize' = (windowSize + 1) % Word
    /\ mutex' = NoThread
    /\ todo' = [todo EXCEPT ![t] = Tail(@)]
    /\ Goto(t, IF Len(todo[t]) = 1 THEN "await" ELSE "insert")
    /\ UNCHANGED <<first, size, stopped, faceVars, window>>

insert(t) == Lock(t) \/ Check(t) \/ Block(t) \/ Enter(t) \/ Express(t) \/ Count(t)

\* The results of the futures the call of t waits for, where they are ready.
Futures(t) == {window[t][k].task : k \in first[t] + 1 .. Len(window[t])}

\* How a call ends: it was turned away; a future holds an error or an
\* application level Nack (the call polls them and the first ends it); or
\* there is Data for them all.
Ends(t, outcome) ==
    \/ pc[t] = "aborted" /\ outcome = "aborted"
    \/ /\ pc[t] = "await"
       /\ \/ outcome # "ok" /\ <<outcome>> \in Futures(t)
          \/ outcome = "ok" /\ Futures(t) = {<<"ok">>}

-----------------------------------------------------------------------------
(* The face thread.                                                         *)

NotifyOne ==
    IF \A t \in Threads : pc[t] # "waiting" THEN UNCHANGED pc
    ELSE \E t \in Threads : pc[t] = "waiting" /\ Goto(t, "woken")

NotifyAll ==
    pc' = [t \in Threads |-> IF pc[t] = "waiting" THEN "woken" ELSE pc[t]]

\* Mutant: m_task is called and the Interest stays with the face.
SettleKeepsInterest(i, value, then) ==
    /\ SetFetcher(i, [Fetcher(i) EXCEPT !.task = Append(@, value)])
    /\ face' = then
    /\ UNCHANGED <<pc, threadVars, mutex, windowSize, stopped, faceUp>>

\* m_task is called with a result, which makes the future ready; then the
\* callback tells the pipeline.  Nobody looks at the counters again.
Settle(i, value, then) ==
    /\ SetFetcher(i, [NewFetcher(Fetcher(i).seg, "settled") EXCEPT
                        !.task = Append(Fetcher(i).task, value)])
    /\ face' = then
    /\ UNCHANGED <<pc, threadVars, mutex, windowSize, stopped, faceUp>>

\* Mutant: Data gives no slot back.
SuccessKeepsSlot ==
    /\ face = "success"
    /\ face' = IF stopped THEN "idle" ELSE "notify_one"
    /\ UNCHANGED <<windowSize, pc, threadVars, mutex, stopped, faceUp, window>>

onTaskCompleteSuccess ==
    /\ face = "success"
    /\ IF stopped THEN face' = "idle" /\ UNCHANGED windowSize
       ELSE face' = "notify_one" /\ windowSize' = (windowSize - 1) % Word
    /\ UNCHANGED <<pc, threadVars, mutex, stopped, faceUp, window>>

onTaskCompleteFailure ==
    /\ face = "failure"
    /\ face' = IF stopped THEN "idle" ELSE "notify_all"
    /\ stopped' = TRUE
    /\ UNCHANGED <<pc, threadVars, mutex, windowSize, faceUp, window>>

Notify ==
    /\ \/ face = "notify_one" /\ NotifyOne
       \/ face = "notify_all" /\ NotifyAll
    /\ face' = "idle"
    /\ UNCHANGED <<threadVars, mutex, windowSize, stopped, faceUp, window>>

\* The face calls back for an Interest that is pending.
Called(i) == faceUp /\ face = "idle" /\ Fetcher(i).net = "pending"

\* Mutant: an application level Nack is reported as a failed task.
handleDataNackFails(i) ==
    /\ Called(i)
    /\ Settle(i, "ok", "success") \/ Settle(i, "nack", "failure")

\* Data, with content or with an application level Nack of the producer.
handleData(i) ==
    /\ Called(i)
    /\ \E value \in {"ok", "nack"} : Settle(i, value, "success")

Fail(i) == Settle(i, "error", "failure")

\* The Interest goes out again at once, or after a backoff.
Retry(i, f, places) ==
    /\ \E where \in places : SetFetcher(i, [f EXCEPT !.net = where])
    /\ UNCHANGED <<pc, threadVars, mutex, windowSize, stopped, faceVars>>

handleNackReason(i, reason) ==
    LET f == [Fetcher(i) EXCEPT !.nNacks = @ + 1]
    IN  \/ reason = "DUPLICATE" /\ Retry(i, f, Expressed)
        \/ reason \in {"NO_ROUTE", "CONGESTION"} /\ Retry(i, f, {"backoff"})
        \/ reason = "OTHER" /\ Fail(i)

handleNack(i) ==
    /\ Called(i)
    /\ \/ Fetcher(i).nNacks >= MaxNacks /\ Fail(i)
       \/ /\ Fetcher(i).nNacks < MaxNacks
          /\ \E reason \in NackReasons : handleNackReason(i, reason)

handleTimeout(i) ==
    /\ Called(i)
    /\ \/ Fetcher(i).nTimeouts >= MaxTimeouts /\ Fail(i)
       \/ /\ Fetcher(i).nTimeouts < MaxTimeouts
          /\ Retry(i, [Fetcher(i) EXCEPT !.nTimeouts = @ + 1], {"backoff"})

\* Mutant: the scheduled retry does nothing.
BackoffOverIdle(i) ==
    /\ faceUp /\ face = "idle" /\ Fetcher(i).net = "backoff"
    /\ UNCHANGED pipelineVars

\* The scheduler runs expressInterest after the backoff.
BackoffOver(i) ==
    /\ faceUp /\ face = "idle" /\ Fetcher(i).net = "backoff"
    /\ Retry(i, Fetcher(i), Expressed)

\* processEvents throws: Consumer::processEvents stops the pipeline and ends.
FaceFails ==
    /\ faceUp /\ face = "idle"
    /\ faceUp' = FALSE
    /\ stopped' = TRUE
    /\ face' = "notify_all"
    /\ UNCHANGED <<pc, threadVars, mutex, windowSize, window>>

Callback == onTaskCompleteSuccess \/ onTaskCompleteFailure \/ Notify

Answer(i) == handleData(i) \/ handleNack(i) \/ handleTimeout(i)

-----------------------------------------------------------------------------
InFlight == {i \in Interests : Fetcher(i).net \in {"pending", "backoff", "lost"}}

\* While the pipeline runs, a thread that looks at the counter finds the
\* number of Interests in flight, plus the one whose callback has not got to
\* the counter yet; Data that arrives before its Interest was counted takes
\* the counter below zero, but nobody sees that.  So no more than size are in
\* flight, "the maximum concurrent Interest packets expressed at one time".
CounterIsExact ==
    /\ Cardinality(InFlight) <= size
    /\ \A t \in Threads :
        pc[t] = "check" /\ ~stopped =>
            windowSize = Cardinality(InFlight) + (IF face \in {"success", "failure"} THEN 1 ELSE 0)

\* m_task is called once: a second call would throw in the face thread.
TaskCalledOnce == \A i \in Interests : Len(Fetcher(i).task) <= 1

\* A call is turned away only because a fetch failed on the network or the
\* face broke down: an application level Nack ends the call that asked for it
\* and leaves the other threads alone, and so does an abandoned read whose
\* Interests are still out (insert, onTaskCompleteFailure, validateData).
AbortsAreJustified ==
    \A t \in Threads : pc[t] = "aborted" =>
        ~faceUp \/ \E i \in Interests : Fetcher(i).task = <<"error">>

\* xrdndn-pipeline.hh: "When a slot is available, the Interest will be
\* expressed".  A thread that sleeps while there is a free slot wakes up.
SlotAvailableWakes ==
    \A t \in Threads :
        pc[t] = "waiting" /\ windowSize < size ~> pc[t] # "waiting"

=============================================================================
