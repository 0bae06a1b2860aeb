-------------------------------- MODULE Face --------------------------------
(***************************************************************************)
(* A face of the NDNc applications: ndnc::face::Face over the memif        *)
(* transport, the management client that creates it on the forwarder, and  *)
(* the applications that own one: the ping server, the file transfer       *)
(* server and the ping client.                                             *)
(*                                                                         *)
(* A server is one thread: main connects the face, advertises a prefix and *)
(* polls.  An interrupt hands it a burst of received buffers; every        *)
(* Interest among them is answered at once.  The two rings are shared with *)
(* the forwarder, which takes its steps in between.  The ping client sends *)
(* one Interest at a time through a pipeline (module PipelineInterests),   *)
(* reduced here to its promise, while the pipeline's thread polls.         *)
(***************************************************************************)
EXTENDS Integers, Sequences

CONSTANTS
    Apps,        \* which of "pingserver", "ftserver", "pingclient" run
    RingSize,    \* slots of a ring (4096)
    MaxRxBufs,   \* buffers received at once (MAX_MEMIF_RX_BUFS)
    MaxPackets,  \* bound: packets the forwarder sends
    MaxPings     \* bound: Interests the ping client sends

ASSUME FaceAssumption ==
    /\ Apps \subseteq {"pingserver", "ftserver", "pingclient"}
    /\ {RingSize, MaxRxBufs} \subseteq Nat \ {0}
    /\ {MaxPackets, MaxPings} \subseteq Nat

VARIABLES
    app,          \* the application
    pc,           \* where its main is
    shouldRun,    \* FALSE after SIGINT
    fwd,          \* forwarder: has it the face, and the FIB entry
    ids,          \* mgmt::Client: has it the identifiers of them
    link,         \* the memif link is up
    isConnected,  \* is_connected
    rxFree,       \* slots the forwarder may fill
    rxRing,       \* packets in the slots it has filled
    burst,        \* rx_bufs: received and not yet handled
    rxNum,        \* rx_buf_num
    txRing,       \* packets the forwarder has not taken
    delivered,    \* packets it has taken
    sentPackets,  \* packets the forwarder has sent
    nRx, nTx,     \* the counters of the ping server and the ping client
    ping,         \* the ping client's Interest
    pings,        \* Interests the ping client has sent
    closed,       \* its pipeline is closed
    failures      \* history: what went wrong

vars == <<app, pc, shouldRun, fwd, ids, link, isConnected, rxFree, rxRing, burst, rxNum, txRing,
          delivered, sentPackets, nRx, nTx, ping, pings, closed, failures>>
mgmtVars == <<fwd, ids>>
connVars == <<link, isConnected>>
rxVars == <<rxFree, rxRing, burst, rxNum, sentPackets>>
txVars == <<txRing, delivered>>
countVars == <<nRx, nTx>>
pingVars == <<ping, pings, closed>>

isServer == app # "pingclient"
Ended == pc \in {"exited", "aborted"}

Fail(what) == failures' = failures \cup {what}

\* The file transfer server counts nothing.
Counted(n) == IF app = "ftserver" THEN n ELSE n + 1

-----------------------------------------------------------------------------
(* The management client: a request is done or refused, or it is done and   *)
(* the response is lost.                                                    *)

doOperation == {"done", "refused", "lost"}

createFace ==
    /\ pc = "start"
    /\ \E outcome \in doOperation :
        /\ fwd' = [fwd EXCEPT !.face = outcome # "refused"]
        /\ ids' = [ids EXCEPT !.face = outcome = "done"]
        /\ IF outcome = "done" THEN pc' = "memif" /\ UNCHANGED failures
           ELSE pc' = "exited" /\ Fail("startup")
    /\ UNCHANGED <<app, shouldRun, connVars, rxVars, txVars, countVars, pingVars>>

insertFibEntry ==
    /\ \E outcome \in doOperation :
        /\ fwd' = [fwd EXCEPT !.fib = outcome # "refused"]
        /\ ids' = [ids EXCEPT !.fib = outcome = "done"]
        /\ IF outcome = "done" THEN pc' = "loop" /\ UNCHANGED failures
           ELSE /\ pc' = IF app = "ftserver" THEN "exited" ELSE "loop"
                /\ Fail("startup")

\* Mutant: only the face is deleted.
deleteFaceOnly ==
    /\ pc = "delete"
    /\ \E faceGone \in {ids.face, FALSE} :
        /\ fwd' = [face |-> fwd.face /\ ~faceGone, fib |-> fwd.fib]
        /\ IF faceGone THEN UNCHANGED failures ELSE Fail("delete")
    /\ pc' = "exited"
    /\ UNCHANGED <<app, shouldRun, ids, connVars, rxVars, txVars, countVars, pingVars>>

\* Face::~Face: the FIB entry and the face, each by a request that may fail.
\* Memif::~Memif clears its transport first: nobody is called back.
deleteFace ==
    /\ pc = "delete"
    /\ \E fibGone \in {ids.fib, FALSE}, faceGone \in {ids.face, FALSE} :
        /\ fwd' = [face |-> fwd.face /\ ~faceGone, fib |-> fwd.fib /\ ~fibGone]
        /\ IF faceGone /\ (ids.fib => fibGone) THEN UNCHANGED failures ELSE Fail("delete")
    /\ pc' = "exited"
    /\ UNCHANGED <<app, shouldRun, ids, connVars, rxVars, txVars, countVars, pingVars>>

-----------------------------------------------------------------------------
(* Memif and Face: connecting.                                              *)

\* The socket and the interface; is_connected is whatever malloc returned.
createInterface ==
    /\ pc = "memif"
    /\ \/ isConnected' \in BOOLEAN /\ pc' = "connecting" /\ UNCHANGED failures
       \/ pc' = "exited" /\ Fail("startup") /\ UNCHANGED isConnected
    /\ UNCHANGED <<app, shouldRun, mgmtVars, link, rxVars, txVars, countVars, pingVars>>

\* What poll finds first: the forwarder's side came up.
handleConnect ==
    /\ pc \in {"connecting", "loop"} /\ ~link /\ "down" \notin failures
    /\ link' = TRUE
    /\ isConnected' = TRUE
    /\ rxFree' = RingSize
    /\ UNCHANGED <<app, pc, shouldRun, mgmtVars, rxRing, burst, rxNum, sentPackets, txVars,
                   countVars, pingVars, failures>>

\* connect() returns once is_connected is set, or gives up; the callbacks are
\* set and the application makes its handler.
connect ==
    /\ pc = "connecting"
    /\ \/ isConnected /\ pc' = (IF isServer THEN "advertise" ELSE "loop") /\ UNCHANGED failures
       \/ ~isConnected /\ pc' = "exited" /\ Fail("startup")
    /\ UNCHANGED <<app, shouldRun, mgmtVars, connVars, rxVars, txVars, countVars, pingVars>>

advertise ==
    /\ pc = "advertise"
    /\ IF isConnected THEN insertFibEntry
       ELSE pc' = (IF app = "ftserver" THEN "exited" ELSE "loop") /\ Fail("startup")
            /\ UNCHANGED mgmtVars
    /\ UNCHANGED <<app, shouldRun, connVars, rxVars, txVars, countVars, pingVars>>

-----------------------------------------------------------------------------
(* Receiving: one call of the poll.                                         *)

Polling == pc = "loop" /\ (isServer => shouldRun /\ isConnected)

\* Mutant: is_connected stays set.
handleDisconnectKeeps ==
    /\ (Polling \/ pc = "connecting") /\ ~link /\ "down" \in failures /\ isConnected
    /\ IF pc = "connecting" THEN UNCHANGED <<pc, closed>>
       ELSE IF isServer THEN UNCHANGED <<pc, closed>> ELSE closed' = TRUE /\ UNCHANGED pc
    /\ UNCHANGED <<app, shouldRun, mgmtVars, link, isConnected, rxVars, txVars, countVars, ping,
                   pings, failures>>

\* The Face calls its onDisconnect handler: the pipeline closes; a server has
\* set none, and calling it ends the process.
handleDisconnect ==
    /\ (Polling \/ pc = "connecting") /\ ~link /\ "down" \in failures /\ isConnected
    /\ isConnected' = FALSE
    /\ IF pc = "connecting" THEN UNCHANGED <<pc, closed>>
       ELSE IF isServer THEN pc' = "aborted" /\ UNCHANGED closed
       ELSE closed' = TRUE /\ UNCHANGED pc
    /\ UNCHANGED <<app, shouldRun, mgmtVars, link, rxVars, txVars, countVars, ping, pings, failures>>

handleInterrupt ==
    /\ Polling /\ isServer /\ link /\ rxRing # <<>>
    /\ LET n == IF Len(rxRing) < MaxRxBufs THEN Len(rxRing) ELSE MaxRxBufs IN
       /\ burst' = SubSeq(rxRing, 1, n)
       /\ rxRing' = SubSeq(rxRing, n + 1, Len(rxRing))
       /\ rxNum' = n
    /\ pc' = "receive"
    /\ UNCHANGED <<app, shouldRun, mgmtVars, connVars, rxFree, sentPackets, txVars, countVars,
                   pingVars, failures>>

\* Memif::send of one packet: its result and what it leaves in the ring.  When
\* the ring is full no buffer is allocated, tx_bufs[0] is still that of the
\* packet sent last, and the copy replaces what is in it.
Send(pkt, tooLong) ==
    \/ /\ (~isConnected \/ tooLong \/ ~link)
       /\ Fail("send") /\ UNCHANGED txVars
       /\ nTx' = Counted(nTx)
    \/ /\ isConnected /\ ~tooLong /\ link
       /\ UNCHANGED <<delivered, failures>>
       /\ IF Len(txRing) < RingSize
          THEN txRing' = Append(txRing, pkt) /\ nTx' = Counted(nTx)
          ELSE txRing' = [txRing EXCEPT ![Len(txRing)] = pkt] /\ UNCHANGED nTx

\* Mutant: a send that finds the ring full is counted.
receiveCountsAll ==
    /\ pc = "receive" /\ burst # <<>>
    /\ burst' = Tail(burst)
    /\ LET pkt == Head(burst) IN
       /\ pkt.kind = "interest"
       /\ nRx' = Counted(nRx)
       /\ nTx' = Counted(nTx)
       /\ IF Len(txRing) < RingSize /\ link THEN txRing' = Append(txRing, pkt.n)
          ELSE UNCHANGED txRing
    /\ UNCHANGED <<app, pc, shouldRun, mgmtVars, connVars, rxFree, rxRing, rxNum, sentPackets,
                   delivered, pingVars, failures>>

\* Face::receive and the server's onInterest; a server ignores other packets.
\* A result of -1 counts as transmitted, one of 0 does not.
receive ==
    /\ pc = "receive" /\ burst # <<>>
    /\ burst' = Tail(burst)
    /\ LET pkt == Head(burst) IN
       \/ pkt.kind = "interest" /\ nRx' = Counted(nRx) /\ \E tooLong \in BOOLEAN : Send(pkt.n, tooLong)
       \/ pkt.kind = "other" /\ UNCHANGED <<countVars, txVars, failures>>
    /\ UNCHANGED <<app, pc, shouldRun, mgmtVars, connVars, rxFree, rxRing, rxNum, sentPackets,
                   pingVars>>

\* A buffer that holds no block ends the interrupt: nothing is given back.
receiveInvalid ==
    /\ pc = "receive" /\ burst # <<>> /\ Head(burst).kind = "invalid"
    /\ burst' = <<>>
    /\ pc' = "loop"
    /\ Fail("invalid")
    /\ UNCHANGED <<app, shouldRun, mgmtVars, connVars, rxFree, rxRing, rxNum, sentPackets, txVars,
                   countVars, pingVars>>

\* A block that is no packet, or an Interest without a PIT token, throws in
\* Transport::receive, which is noexcept: the process ends.
receiveMalformed ==
    /\ pc = "receive" /\ burst # <<>> /\ Head(burst).kind = "malformed"
    /\ pc' = "aborted"
    /\ Fail("invalid")
    /\ UNCHANGED <<app, shouldRun, mgmtVars, connVars, rxVars, txVars, countVars, pingVars>>

\* Mutant: one buffer fewer is given back.
refillFewer ==
    /\ pc = "receive" /\ burst = <<>>
    /\ rxFree' = IF link THEN rxFree + rxNum - 1 ELSE rxFree
    /\ pc' = "loop"
    /\ UNCHANGED <<app, shouldRun, mgmtVars, connVars, rxRing, burst, rxNum, sentPackets, txVars,
                   countVars, pingVars, failures>>

\* memif_refill_queue at the end of the interrupt.
refill ==
    /\ pc = "receive" /\ burst = <<>>
    /\ rxFree' = IF link THEN rxFree + rxNum ELSE rxFree
    /\ pc' = "loop"
    /\ UNCHANGED <<app, shouldRun, mgmtVars, connVars, rxRing, burst, rxNum, sentPackets, txVars,
                   countVars, pingVars, failures>>

-----------------------------------------------------------------------------
(* The loop of main, and the ping client.                                   *)

\* main leaves its loop and deletes the face.
Leave ==
    /\ pc = "loop"
    /\ IF isServer THEN ~shouldRun \/ ~isConnected
       ELSE ping = "idle" /\ (~shouldRun \/ ~isConnected \/ closed)
    /\ pc' = "delete"
    /\ UNCHANGED <<app, shouldRun, mgmtVars, connVars, rxVars, txVars, countVars, pingVars, failures>>

\* Client::run: an Interest is pushed, ...
run ==
    /\ pc = "loop" /\ ~isServer /\ ping = "idle"
    /\ shouldRun /\ isConnected /\ ~closed /\ pings < MaxPings
    /\ ping' = "pending"
    /\ pings' = pings + 1
    /\ UNCHANGED <<app, pc, shouldRun, mgmtVars, connVars, rxVars, txVars, countVars, closed, failures>>

\* ... and its response popped; only stop() ends the wait when the pipeline
\* has closed.
runDone ==
    /\ pc = "loop" /\ ping # "idle"
    /\ (ping # "pending" /\ ~closed) \/ ~shouldRun
    /\ ping' = "idle"
    /\ nRx' = IF ping = "data" /\ shouldRun THEN nRx + 1 ELSE nRx
    /\ UNCHANGED <<app, pc, shouldRun, mgmtVars, connVars, rxVars, txVars, nTx, pings, closed,
                   failures>>

PipelineAnswers ==
    /\ pc = "loop" /\ ping = "pending" /\ ~closed
    /\ ping' \in {"data", "null"}
    /\ UNCHANGED <<app, pc, shouldRun, mgmtVars, connVars, rxVars, txVars, countVars, pings, closed,
                   failures>>

\* SIGINT: stop() also closes the ping client's pipeline.
handler ==
    /\ ~Ended /\ shouldRun
    /\ shouldRun' = FALSE
    /\ closed' = (closed \/ (~isServer /\ pc = "loop"))
    /\ UNCHANGED <<app, pc, mgmtVars, connVars, rxVars, txVars, countVars, ping, pings, failures>>

-----------------------------------------------------------------------------
(* The forwarder's side of the link.                                        *)

ForwarderSends ==
    /\ ~Ended /\ isServer /\ link /\ rxFree > 0 /\ sentPackets < MaxPackets
    /\ \E kind \in {"interest", "other", "invalid", "malformed"} :
        rxRing' = Append(rxRing, [kind |-> kind, n |-> sentPackets + 1])
    /\ rxFree' = rxFree - 1
    /\ sentPackets' = sentPackets + 1
    /\ UNCHANGED <<app, pc, shouldRun, mgmtVars, connVars, burst, rxNum, txVars, countVars, pingVars,
                   failures>>

ForwarderTakes ==
    /\ ~Ended /\ link /\ txRing # <<>>
    /\ delivered' = Append(delivered, Head(txRing))
    /\ txRing' = Tail(txRing)
    /\ UNCHANGED <<app, pc, shouldRun, mgmtVars, connVars, rxVars, countVars, pingVars, failures>>

LinkDown ==
    /\ ~Ended /\ link
    /\ link' = FALSE
    /\ Fail("down")
    /\ UNCHANGED <<app, pc, shouldRun, mgmtVars, isConnected, rxVars, txVars, countVars, pingVars>>

-----------------------------------------------------------------------------
Init ==
    /\ app \in Apps
    /\ pc = "start"
    /\ shouldRun = TRUE
    /\ fwd = [face |-> FALSE, fib |-> FALSE]
    /\ ids = [face |-> FALSE, fib |-> FALSE]
    /\ link = FALSE /\ isConnected = FALSE
    /\ rxFree = 0 /\ rxRing = <<>> /\ burst = <<>> /\ rxNum = 0
    /\ txRing = <<>> /\ delivered = <<>>
    /\ sentPackets = 0
    /\ nRx = 0 /\ nTx = 0
    /\ ping = "idle" /\ pings = 0 /\ closed = FALSE
    /\ failures = {}

Main ==
    \/ createFace \/ createInterface \/ connect \/ advertise \/ handleDisconnect \/ handleInterrupt
    \/ receive \/ receiveInvalid \/ receiveMalformed \/ refill \/ Leave \/ run \/ runDone \/ deleteFace

Next ==
    \/ Main \/ handleConnect \/ PipelineAnswers \/ handler
    \/ ForwarderSends \/ ForwarderTakes \/ LinkDown

\* main runs, and so does the thread of the ping client's pipeline, which
\* answers what it holds.  Nothing is assumed of the forwarder or the user.
Fairness ==
    /\ WF_vars(Main)
    /\ WF_vars(handleDisconnect)
    /\ WF_vars(PipelineAnswers)

Spec == Init /\ [][Next]_vars /\ Fairness

-----------------------------------------------------------------------------
\* An application that ran and ended in order leaves neither its face nor its
\* FIB entry on the forwarder, unless a management request failed: an early
\* return of main after createFace is the only other way to leave them
\* (Face::~Face, mgmt::Client::deleteFace, the three main functions).
ForwarderClean ==
    pc = "exited" /\ fwd # [face |-> FALSE, fib |-> FALSE] =>
        failures \cap {"startup", "delete"} # {}

\* While the link is up every slot of the receive ring is free, filled or in
\* the burst that is being handled, however bursts, refills and new packets
\* interleave: only an invalid block takes slots away (handleInterrupt).
RxSlotsReturned ==
    link /\ "invalid" \notin failures =>
        rxFree + Len(rxRing) + (IF pc = "receive" THEN rxNum ELSE 0) = RingSize

\* The packets that the ping server counts as transmitted are as many as the forwarder
\* has got or will get, also when the ring is full, unless a send failed or the
\* link went down (Memif::send, Server::onInterest).
TransmittedIsTrue ==
    app = "pingserver" /\ failures \cap {"send", "down"} = {} => nTx = Len(delivered) + Len(txRing)

\* When the link goes down, or on SIGINT, the application ends, except that a
\* ping client that waits for a response when its pipeline closes goes on
\* waiting (the while of Client::run).
AppEnds ==
    (pc = "loop" /\ (~shouldRun \/ "down" \in failures)) ~> (Ended \/ (ping # "idle" /\ closed /\ shouldRun))

=============================================================================
