----------------------------- MODULE GoPipeline -----------------------------
(***************************************************************************)
(* The Go consumer: App.GetFile reads a file in ReadAt calls over the      *)
(* fixed-window pipeline and its fetcher.                                  *)
(*                                                                         *)
(* Goroutines: the consumer (App), sendLoop, receiveLoop, the fetcher's    *)
(* receiver (rx) and timer, one per congestion backoff, and the one that   *)
(* waits for the signal.  Channels are as the code makes them: Interests,  *)
(* the window and Data are buffered; errors, fetcher.ch and                *)
(* fetcher.timeout are not, so that a send meets its receive in one step.  *)
(* The network answers each Interest sent with Data or a Nack, or loses    *)
(* it, in any order.                                                       *)
(*                                                                         *)
(* Offsets are counted in segments: the name of a packet is its segment,   *)
(* or Info for the FileInfo Interest.                                      *)
(***************************************************************************)
EXTENDS Integers, Sequences, FiniteSets

CONSTANTS
    Size,               \* segments of the file
    Batch,              \* segments ReadAt asks for at once
    Window,             \* capacity of the window channel
    InterestCap,        \* capacity of interestChannel
    DataCap,            \* capacity of dataChannel
    MaxNackCongestion,
    MaxTimeoutRetries,
    MaxFaults           \* bound: losses, Nacks and timeouts too early, in all

ASSUME GoPipelineAssumption ==
    /\ {Size, Batch, Window, InterestCap, DataCap} \subseteq Nat \ {0}
    /\ {MaxNackCongestion, MaxTimeoutRetries, MaxFaults} \subseteq Nat

Info == -1
Names == Info..(Size + Batch - 1)
NoEntry == [nack |-> -1, timeout |-> -1]
NewEntry == [nack |-> 0, timeout |-> 0]
Entry == [nack: 0..MaxNackCongestion, timeout: 0..MaxTimeoutRetries]

VARIABLES
    app,        \* where GetFile is
    off,        \* its offset in the file
    asked,      \* Interests the current read has sent
    counted,    \* Data it has counted
    n,          \* segments it has copied
    buffer,     \* the segments its buffer holds
    holes,      \* history: segments that a read without error ended without
    interestChannel, window, dataChannel,
    sending,    \* the Interest sendLoop holds, if any
    receiving,  \* what receiveLoop is doing
    rx,         \* what the fetcher's receiver is doing
    timer,      \* what its timer is doing
    backoffs,   \* congestion backoffs that run
    entries,    \* fetcher.entries
    network,    \* copies of each Interest that were sent and not answered
    faults,
    resent,     \* history: an Interest was sent more than once
    done,       \* the context is cancelled
    txClosed,   \* face.Tx() is closed
    signal,     \* where the signal handler is
    over        \* how the process ended, "no" while it runs

appVars == <<app, off, asked, counted, n, buffer, holes>>
pipelineVars == <<interestChannel, window, dataChannel, sending, receiving>>
fetcherVars == <<rx, timer, backoffs, entries>>
networkVars == <<network, faults, resent>>
endVars == <<done, txClosed, signal, over>>
vars == <<appVars, pipelineVars, fetcherVars, networkVars, endVars>>

Running == over = "no"
Nothing == <<>>
Idle == [do |-> "idle"]
Ended == [do |-> "ended"]

-----------------------------------------------------------------------------
(* face.Tx(): a send on a closed channel panics.                            *)

\* Interest i goes out with entry e stored under its name (In, resend).
Transmit(i, e) ==
    /\ entries' = [entries EXCEPT ![i] = e]
    /\ IF txClosed
       THEN over' = "panic" /\ UNCHANGED <<network, resent>>
       ELSE /\ network' = [network EXCEPT ![i] = @ + 1]
            /\ resent' = (resent \/ e # NewEntry \/ entries[i] # NoEntry)
            /\ UNCHANGED over

-----------------------------------------------------------------------------
(* The consumer: GetFile, FileInfo and ReadAt.                              *)

\* main: no input file ends the program; NewApp makes the face and the
\* pipeline, and when that fails main closes an App that is nil.  An output
\* file that cannot be created ends it as well.
Start ==
    /\ app = "start"
    /\ \/ app' = "info" /\ UNCHANGED over
       \/ over' \in {"error", "panic"} /\ UNCHANGED app
    /\ UNCHANGED <<off, asked, counted, n, buffer, holes, pipelineVars, fetcherVars, networkVars,
                   done, txClosed, signal>>

\* Mutant: every ReadAt asks for the first segments of the file.
WantedFromStart == IF app = "info" THEN <<Info>> ELSE [k \in 1..Batch |-> k - 1]

\* The Interests of the call, from FileInfo's one or the loop of ReadAt.
Wanted == IF app = "info" THEN <<Info>> ELSE [k \in 1..Batch |-> off + k - 1]

\* All Interests of the call are sent before the first answer is looked at.
SendInterest ==
    /\ app \in {"info", "read"}
    /\ asked < Len(Wanted) /\ Len(interestChannel) < InterestCap
    /\ interestChannel' = Append(interestChannel, Wanted[asked + 1])
    /\ asked' = asked + 1
    /\ UNCHANGED <<app, off, counted, n, buffer, holes, window, dataChannel, sending, receiving,
                   fetcherVars, networkVars, endVars>>

\* The call returns without error; GetFile writes the buffer, with what it has
\* of the segments, and goes on to the next read or ends.
Return(counts, new) ==
    LET next == IF app = "info" THEN 0 ELSE off + counts IN
    /\ app' = IF next >= Size \/ (app = "read" /\ counts = 0) THEN "closing"
              ELSE IF signal # "none" THEN "closing" ELSE "read"
    /\ off' = next
    /\ holes' = IF app = "info" THEN holes
                ELSE holes \cup ((off..(off + Batch - 1) \cap 0..(Size - 1)) \ new)
    /\ asked' = 0 /\ counted' = 0 /\ n' = 0 /\ buffer' = {}

\* Mutant: a call ends one Data early.
CountedEarly(copied, new) ==
    IF counted + 2 >= Len(Wanted) THEN Return(n + copied, new)
    ELSE /\ counted' = counted + 1
         /\ n' = n + copied
         /\ buffer' = new
         /\ UNCHANGED <<app, off, asked, holes>>

\* One Data of this call was taken: the last one ends the call.
Counted(copied, new) ==
    IF counted + 1 = Len(Wanted) THEN Return(n + copied, new)
    ELSE /\ counted' = counted + 1
         /\ n' = n + copied
         /\ buffer' = new
         /\ UNCHANGED <<app, off, asked, holes>>

Fail ==
    /\ app' = "failed"
    /\ UNCHANGED <<off, asked, counted, n, buffer, holes>>

\* The next Data of dataChannel, whatever call it was for: an application
\* level Nack, or a name that is no offset, fails the call, as the output file
\* does when it cannot be written; past the end of
\* the file there is no content, or as much as the Go producer always sends;
\* content before the buffer's first segment is cut off there, which panics if
\* there is more than that segment to cut.
GetData ==
    /\ app \in {"info", "read"} /\ asked = Len(Wanted)
    /\ dataChannel # <<>>
    /\ dataChannel' = Tail(dataChannel)
    /\ LET s == Head(dataChannel) IN
       \/ Fail /\ UNCHANGED over
       \/ app = "info" /\ Counted(0, {}) /\ UNCHANGED over
       \/ app = "read" /\ s = Info /\ Fail /\ UNCHANGED over
       \/ app = "read" /\ s >= off /\ Counted(1, buffer \cup {s}) /\ UNCHANGED over
       \/ app = "read" /\ s # Info /\ (s >= Size \/ s = off - 1)
                       /\ Counted(0, buffer) /\ UNCHANGED over
       \/ app = "read" /\ s \in 0..(off - 2) /\ over' = "panic" /\ UNCHANGED appVars
    /\ UNCHANGED <<interestChannel, window, sending, receiving, fetcherVars, networkVars, done,
                   txClosed, signal>>

\* The pipeline closed its channels.  Once dataChannel is empty, nil Data comes
\* from it and panics; errorChannel gives a nil error at any time, and the call
\* returns as if it were complete: a FileInfo of size 0, or what the read has.
GetClosed ==
    /\ app \in {"info", "read"} /\ asked = Len(Wanted)
    /\ receiving = Ended
    /\ \/ dataChannel = <<>> /\ over' = "panic" /\ UNCHANGED appVars
       \/ /\ app = "info" /\ app' = "closing"
          /\ UNCHANGED <<off, asked, counted, n, buffer, holes, over>>
       \/ app = "read" /\ Return(n, buffer) /\ UNCHANGED over
    /\ UNCHANGED <<pipelineVars, fetcherVars, networkVars, done, txClosed, signal>>

\* The consumer receives an error that rx or the timer sends.
TakeError ==
    /\ app \in {"info", "read"} /\ asked = Len(Wanted)
    /\ Fail

-----------------------------------------------------------------------------
(* sendLoop and receiveLoop.                                                *)

\* The next Interest; then wait for the window to slide.
sendLoop ==
    \/ /\ sending = Nothing /\ interestChannel # <<>>
       /\ sending' = <<Head(interestChannel)>>
       /\ interestChannel' = Tail(interestChannel)
       /\ UNCHANGED <<appVars, window, dataChannel, receiving, fetcherVars, networkVars, endVars>>
    \/ /\ sending # Nothing /\ window < Window
       /\ window' = window + 1
       /\ sending' = Nothing
       /\ Transmit(sending[1], NewEntry)
       /\ UNCHANGED <<appVars, interestChannel, dataChannel, receiving, rx, timer, backoffs,
                      faults, done, txClosed, signal>>

\* Mutant: the window does not slide.
SlideWindowNot ==
    /\ receiving.do = "slide"
    /\ receiving' = [receiving EXCEPT !.do = "pass"]
    /\ UNCHANGED <<appVars, interestChannel, window, dataChannel, sending, fetcherVars,
                   networkVars, endVars>>

SlideWindow ==
    /\ receiving.do = "slide"
    /\ window > 0
    /\ window' = window - 1
    /\ receiving' = [receiving EXCEPT !.do = "pass"]
    /\ UNCHANGED <<appVars, interestChannel, dataChannel, sending, fetcherVars, networkVars,
                   endVars>>

PassData ==
    /\ receiving.do = "pass"
    /\ Len(dataChannel) < DataCap
    /\ dataChannel' = Append(dataChannel, receiving.data)
    /\ receiving' = Idle
    /\ UNCHANGED <<appVars, interestChannel, window, sending, fetcherVars, networkVars, endVars>>

\* fetcher.ch is closed: so are the channels to the consumer.
ReceiveLoopEnds ==
    /\ receiving = Idle /\ rx = Ended
    /\ receiving' = Ended
    /\ UNCHANGED <<appVars, interestChannel, window, dataChannel, sending, fetcherVars,
                   networkVars, endVars>>

receiveLoop == SlideWindow \/ PassData \/ ReceiveLoopEnds

-----------------------------------------------------------------------------
(* The fetcher's receiver.                                                  *)

\* A copy of Interest i is answered.
Answered(i) ==
    /\ rx = Idle /\ network[i] > 0
    /\ network' = [network EXCEPT ![i] = @ - 1]

handleData(i) ==
    /\ Answered(i)
    /\ entries' = [entries EXCEPT ![i] = NoEntry]
    /\ rx' = [do |-> "timeout", data |-> i]
    /\ UNCHANGED <<appVars, pipelineVars, timer, backoffs, faults, resent, endVars>>

\* f.timeout <- false meets the select of the timer, f.ch <- data receiveLoop.
DataReset ==
    /\ rx.do = "timeout" /\ timer = Idle
    /\ rx' = [do |-> "deliver", data |-> rx.data]
    /\ UNCHANGED <<appVars, pipelineVars, timer, backoffs, entries, networkVars, endVars>>

DataDeliver ==
    /\ rx.do = "deliver" /\ receiving = Idle
    /\ receiving' = [do |-> "slide", data |-> rx.data]
    /\ rx' = Idle
    /\ UNCHANGED <<appVars, interestChannel, window, dataChannel, sending, timer, backoffs,
                   entries, networkVars, endVars>>

Fault == faults < MaxFaults /\ faults' = faults + 1

\* A Nack with reason Congestion starts a backoff, unless that was tried too
\* often; the entry is not changed before the Interest is sent again.
handleNackCongestion(i) ==
    /\ Answered(i) /\ Fault
    /\ IF entries[i] = NoEntry \/ entries[i].nack >= MaxNackCongestion
       THEN rx' = [do |-> "error"] /\ UNCHANGED backoffs
       ELSE /\ backoffs' = backoffs \cup
                  {[name |-> i, entry |-> [entries[i] EXCEPT !.nack = @ + 1], nr |-> faults]}
            /\ UNCHANGED rx
    /\ UNCHANGED <<appVars, pipelineVars, timer, entries, resent, endVars>>

\* Reason Duplicate: the Interest is sent again with a new nonce.
handleNackDuplicate(i) ==
    /\ Answered(i) /\ Fault
    /\ rx' = IF entries[i] = NoEntry THEN [do |-> "error"]
             ELSE [do |-> "resend", name |-> i, entry |-> entries[i]]
    /\ UNCHANGED <<appVars, pipelineVars, timer, backoffs, entries, resent, endVars>>

\* Any other Nack or packet is an error.
handleNackOther(i) ==
    /\ Answered(i) /\ Fault
    /\ rx' = [do |-> "error"]
    /\ UNCHANGED <<appVars, pipelineVars, timer, backoffs, entries, resent, endVars>>

RxResend ==
    /\ rx.do = "resend"
    /\ Transmit(rx.name, rx.entry)
    /\ rx' = Idle
    /\ UNCHANGED <<appVars, pipelineVars, timer, backoffs, faults, done, txClosed, signal>>

RxError ==
    /\ rx.do = "error"
    /\ TakeError
    /\ rx' = Idle
    /\ UNCHANGED <<pipelineVars, timer, backoffs, entries, networkVars, endVars>>

\* face.Rx() ends some time after Tx was closed.
RxEnds ==
    /\ rx = Idle /\ txClosed
    /\ rx' = Ended
    /\ UNCHANGED <<appVars, pipelineVars, timer, backoffs, entries, networkVars, endVars>>

Receiver == DataReset \/ DataDeliver \/ RxResend \/ RxError

BackoffOver(b) ==
    /\ backoffs' = backoffs \ {b}
    /\ \/ done /\ UNCHANGED <<entries, networkVars, over>>
       \/ Transmit(b.name, b.entry) /\ UNCHANGED faults
    /\ UNCHANGED <<appVars, pipelineVars, rx, timer, done, txClosed, signal>>

-----------------------------------------------------------------------------
(* The fetcher's timer.                                                     *)

\* No Data for two seconds: handleTimeout goes through the entries.  A
\* receiver that waits with f.timeout <- false is served first.
TimerFires ==
    /\ timer = Idle /\ rx.do # "timeout"
    /\ \E i \in Names : entries[i] # NoEntry
    /\ timer' = [do |-> "range", todo |-> {i \in Names : entries[i] # NoEntry}]
    /\ UNCHANGED <<appVars, pipelineVars, rx, backoffs, entries, networkVars, endVars>>

\* An entry that is gone or not old enough is passed over.  It is old enough
\* when its Interest is on the network no more, or took too long (a fault).
handleTimeout(i) ==
    /\ timer.do = "range" /\ i \in timer.todo
    /\ \/ /\ entries[i] = NoEntry \/ network[i] > 0
          /\ timer' = [timer EXCEPT !.todo = @ \ {i}]
          /\ UNCHANGED faults
       \/ /\ entries[i] # NoEntry
          /\ IF network[i] > 0 THEN Fault ELSE UNCHANGED faults
          /\ timer' = IF entries[i].timeout >= MaxTimeoutRetries THEN [do |-> "error"]
                      ELSE [do |-> "resend", todo |-> timer.todo \ {i}, name |-> i,
                            entry |-> [entries[i] EXCEPT !.timeout = @ + 1]]
    /\ UNCHANGED <<appVars, pipelineVars, rx, backoffs, entries, network, resent, endVars>>

TimerResend ==
    /\ timer.do = "resend"
    /\ Transmit(timer.name, timer.entry)
    /\ timer' = [do |-> "range", todo |-> timer.todo]
    /\ UNCHANGED <<appVars, pipelineVars, rx, backoffs, faults, done, txClosed, signal>>

\* The error meets the consumer's select, or a closed channel.
TimerError ==
    /\ timer.do = "error"
    /\ timer' = Idle
    /\ \/ receiving # Ended /\ TakeError /\ UNCHANGED over
       \/ receiving = Ended /\ over' = "panic" /\ UNCHANGED appVars
    /\ UNCHANGED <<pipelineVars, rx, backoffs, entries, networkVars, done, txClosed, signal>>

RangeEnds ==
    /\ timer.do = "range" /\ timer.todo = {}
    /\ timer' = Idle
    /\ UNCHANGED <<appVars, pipelineVars, rx, backoffs, entries, networkVars, endVars>>

TimerEnds ==
    /\ timer = Idle /\ done
    /\ timer' = Ended
    /\ UNCHANGED <<appVars, pipelineVars, rx, backoffs, entries, networkVars, endVars>>

Timer ==
    TimerResend \/ TimerError \/ RangeEnds \/ TimerEnds \/ \E i \in Names : handleTimeout(i)

-----------------------------------------------------------------------------
(* The network loses an Interest or its answer.                             *)

Lose(i) ==
    /\ network[i] > 0 /\ Fault
    /\ network' = [network EXCEPT ![i] = @ - 1]
    /\ UNCHANGED <<appVars, pipelineVars, fetcherVars, resent, endVars>>

-----------------------------------------------------------------------------
(* The end: Run closes the consumer, exit does after an error or a signal.  *)

\* Consumer.Close: a second close of Tx panics.
Close ==
    /\ done' = TRUE /\ txClosed' = TRUE
    /\ over' = IF txClosed THEN "panic" ELSE "no"

AppCloses ==
    /\ app \in {"closing", "failed"}
    /\ Close
    /\ app' = IF app = "closing" THEN "ok" ELSE "error"
    /\ UNCHANGED <<off, asked, counted, n, buffer, holes, pipelineVars, fetcherVars, networkVars,
                   signal>>

Signal ==
    /\ signal = "none" /\ app # "start"
    /\ signal' = "sleep"
    /\ UNCHANGED <<appVars, pipelineVars, fetcherVars, networkVars, done, txClosed, over>>

SignalCloses ==
    /\ signal = "sleep"
    /\ Close
    /\ signal' = "closed"
    /\ UNCHANGED <<appVars, pipelineVars, fetcherVars, networkVars>>

Exit ==
    /\ app \in {"ok", "error"} \/ signal = "closed"
    /\ over' = IF app = "ok" THEN "ok" ELSE "error"
    /\ UNCHANGED <<appVars, pipelineVars, fetcherVars, networkVars, done, txClosed, signal>>

-----------------------------------------------------------------------------
Init ==
    /\ app = "start" /\ off = 0 /\ asked = 0 /\ counted = 0 /\ n = 0
    /\ buffer = {} /\ holes = {}
    /\ interestChannel = <<>> /\ window = 0 /\ dataChannel = <<>>
    /\ sending = Nothing /\ receiving = Idle
    /\ rx = Idle /\ timer = Idle /\ backoffs = {}
    /\ entries = [i \in Names |-> NoEntry]
    /\ network = [i \in Names |-> 0]
    /\ faults = 0 /\ resent = FALSE
    /\ done = FALSE /\ txClosed = FALSE /\ signal = "none" /\ over = "no"

Consumer == Start \/ SendInterest \/ GetData \/ GetClosed \/ AppCloses \/ Exit

Answer(i) ==
    \/ handleData(i) \/ handleNackCongestion(i) \/ handleNackDuplicate(i) \/ handleNackOther(i)

Next ==
    /\ Running
    /\ \/ Consumer \/ sendLoop \/ receiveLoop \/ Receiver \/ RxEnds \/ TimerFires \/ Timer
       \/ \E b \in backoffs : BackoffOver(b)
       \/ \E i \in Names : Answer(i) \/ Lose(i)
       \/ Signal \/ SignalCloses

\* Goroutines that can run do so; the timer expires, backoffs end, and the
\* network answers an Interest it does not lose.
Fairness ==
    /\ WF_vars(Running /\ Consumer)
    /\ WF_vars(Running /\ sendLoop)
    /\ WF_vars(Running /\ receiveLoop)
    /\ WF_vars(Running /\ Receiver)
    /\ WF_vars(Running /\ Timer)
    /\ WF_vars(Running /\ TimerFires)
    /\ WF_vars(Running /\ SignalCloses)
    /\ WF_vars(Running /\ \E b \in backoffs : BackoffOver(b))
    /\ \A i \in Names : WF_vars(Running /\ (handleData(i) \/ Lose(i)))

Spec == Init /\ [][Next]_vars /\ Fairness

-----------------------------------------------------------------------------
\* A read that returns no error has every segment of the file it asked for,
\* as long as no Interest was sent twice and the pipeline is not closed under
\* the read.  (The Data of a second copy is counted for a segment that never
\* came, as ReadAt only counts packets; after a signal closed the pipeline,
\* ReadAt takes the nil of the closed errorChannel for its result.)  No step
\* both ends a read and closes: a read that ended before is not excused.
ReadsComplete == holes # {} => resent \/ txClosed

\* The process panics only when it could not start or is closing, or after an
\* Interest was sent twice: a late answer is taken for one of a later read
\* (ReadAt).
PanicsExplained == over = "panic" => resent \/ txClosed \/ app = "start"

\* Whatever the network does, the download ends: no goroutine waits for ever
\* for one that waits for it, with Interests in a full channel, an error
\* nobody takes yet or Data nobody waits for.
DownloadEnds == <>(over # "no")

=============================================================================
