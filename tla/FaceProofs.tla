----------------------------- MODULE FaceProofs -----------------------------
(***************************************************************************)
(* The theorems of module Face: the slots of the receive ring, the count   *)
(* of transmitted packets and what is left on the forwarder, for rings and *)
(* bursts of any size and any number of packets.                           *)
(***************************************************************************)
EXTENDS Face, SequenceTheorems, TLAPS

Packet == [kind: {"interest", "other", "invalid", "malformed"}, n: Nat]

TypeInv ==
    /\ app \in {"pingserver", "ftserver", "pingclient"}
    /\ pc \in {"start", "memif", "connecting", "advertise", "loop", "receive", "delete",
               "exited", "aborted"}
    /\ fwd \in [face: BOOLEAN, fib: BOOLEAN]
    /\ ids \in [face: BOOLEAN, fib: BOOLEAN]
    /\ link \in BOOLEAN
    /\ rxFree \in Nat /\ rxNum \in Nat /\ sentPackets \in Nat /\ nTx \in Nat
    /\ rxRing \in Seq(Packet) /\ burst \in Seq(Packet)
    /\ txRing \in Seq(Nat) /\ delivered \in Seq(Nat)
    /\ failures \subseteq {"startup", "delete", "send", "invalid", "down"}

\* The link comes up once; before that nothing has been received.
LinkInv ==
    /\ link => "down" \notin failures
    /\ ~link /\ "down" \notin failures => rxRing = <<>> /\ pc # "receive"

\* What the client knows of the forwarder is so, unless a request failed while
\* the application started; the face is deleted last.
MgmtInv == pc # "exited" /\ "startup" \notin failures => fwd = ids

FaceInv == TypeInv /\ LinkInv /\ RxSlotsReturned /\ TransmittedIsTrue /\ MgmtInv /\ ForwarderClean

-----------------------------------------------------------------------------
(* What a step does to each of the parts, when it concerns the part.        *)

\* A step that leaves the rings, the link and the burst alone, and does not
\* enter or leave the interrupt, keeps the receive side.
LEMMA RxUntouched ==
    ASSUME TypeInv, LinkInv, RxSlotsReturned, UNCHANGED <<link, rxFree, rxRing, rxNum>>,
           pc' = "receive" <=> pc = "receive",
           failures \subseteq failures', "down" \in failures' => "down" \in failures
    PROVE  LinkInv' /\ RxSlotsReturned'
BY DEF TypeInv, LinkInv, RxSlotsReturned

\* A step that leaves the transmit ring and the counter alone keeps the count.
LEMMA TxUntouched ==
    ASSUME TransmittedIsTrue, UNCHANGED <<app, nTx, txRing, delivered>>, failures \subseteq failures'
    PROVE  TransmittedIsTrue'
BY DEF TransmittedIsTrue

\* A step that makes no management request keeps the forwarder's side, unless
\* it ends the application without a failure.
LEMMA MgmtUntouched ==
    ASSUME MgmtInv, ForwarderClean, UNCHANGED <<fwd, ids>>, failures \subseteq failures',
           pc = "exited" => pc' = "exited",
           pc' = "exited" => pc = "exited" \/ "startup" \in failures'
    PROVE  MgmtInv' /\ ForwarderClean'
BY DEF MgmtInv, ForwarderClean

\* The invariant holds before main runs.
LEMMA FaceInit == Init => FaceInv
<1> SUFFICES ASSUME Init PROVE FaceInv  OBVIOUS
<1>1. fwd \in [face: BOOLEAN, fib: BOOLEAN] /\ ids = fwd
  BY DEF Init
<1>2. TypeInv
  <2>1. app \in {"pingserver", "ftserver", "pingclient"}
    BY FaceAssumption DEF Init
  <2>2. <<>> \in Seq(Packet) /\ <<>> \in Seq(Nat)
    OBVIOUS
  <2> QED  BY <1>1, <2>1, <2>2 DEF Init, TypeInv
<1>3. LinkInv /\ RxSlotsReturned /\ TransmittedIsTrue /\ MgmtInv /\ ForwarderClean
  BY <1>1 DEF Init, LinkInv, RxSlotsReturned, TransmittedIsTrue, MgmtInv, ForwarderClean
<1> QED  BY <1>2, <1>3 DEF FaceInv

-----------------------------------------------------------------------------
(* The management client.                                                   *)

\* createFace may fail after the forwarder made the face; the client then does not know it.
LEMMA createFaceInv == FaceInv /\ createFace => FaceInv'
<1> SUFFICES ASSUME FaceInv, createFace PROVE FaceInv'  OBVIOUS
<1> USE DEF FaceInv
<1>1. TypeInv'
  BY DEF TypeInv, createFace, Fail, doOperation, connVars, rxVars, txVars, countVars, pingVars
<1>2. LinkInv' /\ RxSlotsReturned'
  BY RxUntouched DEF createFace, Fail, connVars, rxVars
<1>3. TransmittedIsTrue'
  BY TxUntouched DEF createFace, Fail, txVars, countVars
<1>4. MgmtInv' /\ ForwarderClean'
  BY DEF TypeInv, createFace, Fail, doOperation, MgmtInv, ForwarderClean
<1> QED  BY <1>1, <1>2, <1>3, <1>4

\* advertise, likewise, for the FIB entry.
LEMMA advertiseInv == FaceInv /\ advertise => FaceInv'
<1> SUFFICES ASSUME FaceInv, advertise PROVE FaceInv'  OBVIOUS
<1> USE DEF FaceInv
<1>1. TypeInv'
  BY DEF TypeInv, advertise, insertFibEntry, Fail, doOperation, mgmtVars, connVars, rxVars, txVars,
         countVars, pingVars
<1>2. LinkInv' /\ RxSlotsReturned'
  BY RxUntouched DEF advertise, insertFibEntry, Fail, connVars, rxVars
<1>3. TransmittedIsTrue'
  BY TxUntouched DEF advertise, insertFibEntry, Fail, txVars, countVars
<1>4. MgmtInv' /\ ForwarderClean'
  <2>1. CASE ~isConnected
    BY <2>1 DEF advertise, Fail, MgmtInv, ForwarderClean, mgmtVars
  <2>2. CASE isConnected
    <3>1. PICK outcome \in doOperation :
            /\ fwd' = [fwd EXCEPT !.fib = outcome # "refused"]
            /\ ids' = [ids EXCEPT !.fib = outcome = "done"]
            /\ IF outcome = "done" THEN pc' = "loop" /\ UNCHANGED failures
               ELSE "startup" \in failures'
      BY <2>2 DEF advertise, insertFibEntry, Fail
    <3>2. CASE outcome = "done"
      BY <3>1, <3>2 DEF advertise, MgmtInv, ForwarderClean
    <3> QED  BY <3>1, <3>2 DEF MgmtInv, ForwarderClean
  <2> QED  BY <2>1, <2>2
<1> QED  BY <1>1, <1>2, <1>3, <1>4

\* The destructor of the face: both requests did their work, or one of them
\* failed and is recorded.
LEMMA deleteFaceInv == FaceInv /\ deleteFace => FaceInv'
<1> SUFFICES ASSUME FaceInv, deleteFace PROVE FaceInv'  OBVIOUS
<1> USE DEF FaceInv
<1>0. PICK fibGone \in {ids.fib, FALSE}, faceGone \in {ids.face, FALSE} :
        /\ fwd' = [face |-> fwd.face /\ ~faceGone, fib |-> fwd.fib /\ ~fibGone]
        /\ IF faceGone /\ (ids.fib => fibGone) THEN UNCHANGED failures ELSE Fail("delete")
  BY DEF deleteFace
<1>1. TypeInv'
  <2>1. fwd' \in [face: BOOLEAN, fib: BOOLEAN]
    BY <1>0 
  <2>2. failures' \subseteq {"startup", "delete", "send", "invalid", "down"}
    BY <1>0 DEF TypeInv, Fail
  <2> QED  BY <2>1, <2>2 DEF TypeInv, deleteFace, connVars, rxVars, txVars, countVars, pingVars
<1>2. LinkInv' /\ RxSlotsReturned'
  BY RxUntouched DEF deleteFace, Fail, connVars, rxVars
<1>3. TransmittedIsTrue'
  BY TxUntouched DEF deleteFace, Fail, txVars, countVars
<1>4. MgmtInv' /\ ForwarderClean'
  <2>1. CASE "startup" \in failures'
    BY <2>1 DEF deleteFace, MgmtInv, ForwarderClean
  <2>2. CASE "delete" \in failures'
    BY <2>2 DEF deleteFace, MgmtInv, ForwarderClean
  <2>3. CASE failures' = failures /\ faceGone /\ (ids.fib => fibGone) /\ "startup" \notin failures
    <3>1. fwd = ids
      BY <2>3 DEF MgmtInv, deleteFace
    <3>2. fwd' = [face |-> FALSE, fib |-> FALSE]
      BY <3>1, <2>3, <1>0
    <3> QED  BY <3>2 DEF deleteFace, MgmtInv, ForwarderClean
  <2> QED  BY <1>0, <2>1, <2>2, <2>3 DEF Fail
<1> QED  BY <1>1, <1>2, <1>3, <1>4

-----------------------------------------------------------------------------
(* Connecting.                                                              *)

\* The link is not up yet, and is_connected is anything.
LEMMA createInterfaceInv == FaceInv /\ createInterface => FaceInv'
<1> SUFFICES ASSUME FaceInv, createInterface PROVE FaceInv'  OBVIOUS
<1> USE DEF FaceInv
<1>1. TypeInv'
  BY DEF TypeInv, createInterface, Fail, mgmtVars, rxVars, txVars, countVars
<1>2. LinkInv' /\ RxSlotsReturned'
  BY RxUntouched DEF createInterface, Fail, rxVars
<1>3. TransmittedIsTrue'
  BY TxUntouched DEF createInterface, Fail, txVars, countVars
<1>4. MgmtInv' /\ ForwarderClean'
  BY MgmtUntouched DEF createInterface, Fail, mgmtVars
<1> QED  BY <1>1, <1>2, <1>3, <1>4

\* The ring is empty when the link comes up: every slot is free.
LEMMA handleConnectInv == FaceInv /\ handleConnect => FaceInv'
<1> SUFFICES ASSUME FaceInv, handleConnect PROVE FaceInv'  OBVIOUS
<1> USE DEF FaceInv
<1>1. TypeInv'
  BY FaceAssumption DEF TypeInv, handleConnect, mgmtVars, txVars, countVars
<1>2. LinkInv' /\ RxSlotsReturned'
  BY FaceAssumption DEF handleConnect, LinkInv, RxSlotsReturned
<1>3. TransmittedIsTrue'
  BY TxUntouched DEF handleConnect, txVars, countVars
<1>4. MgmtInv' /\ ForwarderClean'
  BY MgmtUntouched DEF handleConnect, mgmtVars
<1> QED  BY <1>1, <1>2, <1>3, <1>4

\* connect goes on when it finds itself connected, or gives up.
LEMMA connectInv == FaceInv /\ connect => FaceInv'
<1> SUFFICES ASSUME FaceInv, connect PROVE FaceInv'  OBVIOUS
<1> USE DEF FaceInv
<1>1. TypeInv'
  BY DEF TypeInv, connect, Fail, mgmtVars, connVars, rxVars, txVars, countVars
<1>2. LinkInv' /\ RxSlotsReturned'
  BY RxUntouched DEF connect, Fail, connVars, rxVars
<1>3. TransmittedIsTrue'
  BY TxUntouched DEF connect, Fail, txVars, countVars
<1>4. MgmtInv' /\ ForwarderClean'
  BY MgmtUntouched DEF connect, Fail, mgmtVars
<1> QED  BY <1>1, <1>2, <1>3, <1>4

\* The transport notices that the link went down.
LEMMA handleDisconnectInv == FaceInv /\ handleDisconnect => FaceInv'
<1> SUFFICES ASSUME FaceInv, handleDisconnect PROVE FaceInv'  OBVIOUS
<1> USE DEF FaceInv
<1>1. TypeInv' /\ pc' # "exited" /\ pc # "exited" /\ pc # "receive" /\ pc' # "receive"
  BY DEF TypeInv, handleDisconnect, Polling, mgmtVars, rxVars, txVars, countVars
<1>2. LinkInv' /\ RxSlotsReturned'
  BY <1>1, RxUntouched DEF handleDisconnect, rxVars
<1>3. TransmittedIsTrue'
  BY TxUntouched DEF handleDisconnect, txVars, countVars
<1>4. MgmtInv' /\ ForwarderClean'
  BY <1>1, MgmtUntouched DEF handleDisconnect, mgmtVars
<1> QED  BY <1>1, <1>2, <1>3, <1>4

\* The peer goes away.
LEMMA LinkDownInv == FaceInv /\ LinkDown => FaceInv'
<1> SUFFICES ASSUME FaceInv, LinkDown PROVE FaceInv'  OBVIOUS
<1> USE DEF FaceInv
<1>1. TypeInv'
  BY DEF TypeInv, LinkDown, Fail, mgmtVars, rxVars, txVars, countVars
<1>2. LinkInv' /\ RxSlotsReturned'
  BY DEF LinkDown, Fail, LinkInv, RxSlotsReturned
<1>3. TransmittedIsTrue'
  BY TxUntouched DEF LinkDown, Fail, txVars, countVars
<1>4. MgmtInv' /\ ForwarderClean'
  BY MgmtUntouched DEF LinkDown, Fail, mgmtVars
<1> QED  BY <1>1, <1>2, <1>3, <1>4

-----------------------------------------------------------------------------
(* Receiving: the slots of a burst go from the ring to rx_bufs and back.    *)

\* A burst is taken from the receive ring.
LEMMA handleInterruptInv == FaceInv /\ handleInterrupt => FaceInv'
<1> SUFFICES ASSUME FaceInv, handleInterrupt PROVE FaceInv'  OBVIOUS
<1> USE DEF FaceInv
<1> DEFINE n == IF Len(rxRing) < MaxRxBufs THEN Len(rxRing) ELSE MaxRxBufs
<1>1. /\ rxRing \in Seq(Packet) /\ n \in Nat /\ n <= Len(rxRing)
      /\ burst' = SubSeq(rxRing, 1, n)
      /\ rxRing' = SubSeq(rxRing, n + 1, Len(rxRing))
      /\ rxNum' = n
  BY FaceAssumption DEF TypeInv, handleInterrupt
<1> HIDE DEF n
<1>2. burst' \in Seq(Packet) /\ rxRing' \in Seq(Packet) /\ Len(rxRing') = Len(rxRing) - n
  BY <1>1
<1>3. TypeInv'
  BY <1>1, <1>2 DEF TypeInv, handleInterrupt, mgmtVars, connVars, txVars, countVars
<1>4. LinkInv' /\ RxSlotsReturned'
  <2>1. /\ pc = "loop" /\ pc' = "receive" /\ link /\ link'
        /\ UNCHANGED <<rxFree, failures>>
    BY DEF handleInterrupt, Polling, connVars
  <2>2. rxFree \in Nat /\ Len(rxRing) \in Nat
    BY <1>1 DEF TypeInv
  <2>3. LinkInv'
    BY <2>1 DEF LinkInv
  <2>4. RxSlotsReturned'
    BY <1>1, <1>2, <2>1, <2>2 DEF RxSlotsReturned
  <2> QED  BY <2>3, <2>4
<1>5. TransmittedIsTrue'
  BY TxUntouched DEF handleInterrupt, txVars, countVars
<1>6. MgmtInv' /\ ForwarderClean'
  BY MgmtUntouched DEF handleInterrupt, Polling, mgmtVars
<1> QED  BY <1>3, <1>4, <1>5, <1>6

\* A send that the ping server counts puts one packet in the ring; one that
\* finds the ring full replaces a packet and is not counted.
LEMMA SendInv ==
    ASSUME TypeInv, TransmittedIsTrue, NEW pkt \in Nat, NEW tooLong \in BOOLEAN, Send(pkt, tooLong),
           app' = app
    PROVE  /\ txRing' \in Seq(Nat) /\ delivered' = delivered /\ nTx' \in Nat
           /\ failures \subseteq failures' /\ failures' \subseteq failures \cup {"send"}
           /\ TransmittedIsTrue'
<1>1. txRing \in Seq(Nat) /\ nTx \in Nat /\ Counted(nTx) \in Nat
      /\ (app = "pingserver" => Counted(nTx) = nTx + 1)
  BY DEF TypeInv, Counted
<1>2. CASE ~isConnected \/ tooLong \/ ~link
  BY <1>1, <1>2 DEF Send, Fail, txVars, TransmittedIsTrue
<1>3. CASE isConnected /\ ~tooLong /\ link /\ Len(txRing) < RingSize
  <2>1. txRing' = Append(txRing, pkt) /\ nTx' = Counted(nTx) /\ UNCHANGED <<delivered, failures>>
    BY <1>3 DEF Send
  <2>2. txRing' \in Seq(Nat) /\ Len(txRing') = Len(txRing) + 1
    BY <1>1, <2>1
  <2>3. TransmittedIsTrue'
    <3>1. Len(delivered) \in Nat /\ Len(txRing) \in Nat
      BY <1>1 DEF TypeInv
    <3>2. /\ UNCHANGED <<app, delivered, failures>> /\ nTx \in Nat
          /\ app = "pingserver" => nTx' = nTx + 1
      BY <1>1, <2>1
    <3> QED  BY <2>2, <3>1, <3>2 DEF TransmittedIsTrue
  <2> QED  BY <1>1, <2>1, <2>2, <2>3
<1>4. CASE isConnected /\ ~tooLong /\ link /\ ~(Len(txRing) < RingSize)
  <2>1. /\ txRing' = [txRing EXCEPT ![Len(txRing)] = pkt]
        /\ UNCHANGED <<nTx, delivered, failures>>
    BY <1>4 DEF Send
  <2>2. txRing' \in Seq(Nat) /\ Len(txRing') = Len(txRing)
    <3>1. Len(txRing) \in 1..Len(txRing)
      BY <1>1, <1>4, FaceAssumption
    <3> QED  BY <1>1, <2>1, <3>1, ExceptSeq
  <2> QED  BY <1>1, <2>1, <2>2 DEF TransmittedIsTrue
<1> QED  BY <1>2, <1>3, <1>4

\* Handling a packet moves no slot, and the sends keep the count.
LEMMA receiveInv == FaceInv /\ receive => FaceInv'
<1> SUFFICES ASSUME FaceInv, receive PROVE FaceInv'  OBVIOUS
<1> USE DEF FaceInv
<1>1. /\ burst \in Seq(Packet) /\ burst # <<>> /\ burst' = Tail(burst) /\ pc = "receive"
      /\ UNCHANGED <<app, pc, fwd, ids, link, rxFree, rxRing, rxNum, sentPackets>>
  BY DEF TypeInv, receive, mgmtVars, connVars
<1>2. burst' \in Seq(Packet) /\ Head(burst).n \in Nat
  <2>1. burst' \in Seq(Packet) /\ Head(burst) \in Packet
    BY <1>1
  <2> QED  BY <2>1 DEF Packet
<1>3. /\ txRing' \in Seq(Nat) /\ delivered' = delivered /\ nTx' \in Nat
      /\ failures \subseteq failures' /\ failures' \subseteq failures \cup {"send"}
      /\ TransmittedIsTrue'
  <2>1. CASE UNCHANGED <<nTx, txVars, failures>>
    BY <1>1, <2>1, TxUntouched DEF TypeInv, txVars
  <2>2. CASE \E tooLong \in BOOLEAN : Send(Head(burst).n, tooLong)
    BY <1>1, <1>2, <2>2, SendInv
  <2> QED  BY <2>1, <2>2 DEF receive, countVars
<1>4. TypeInv'
  BY <1>1, <1>2, <1>3 DEF TypeInv
<1>5. LinkInv' /\ RxSlotsReturned'
  BY <1>1, <1>3, RxUntouched
<1>6. MgmtInv' /\ ForwarderClean'
  BY <1>1, <1>3, MgmtUntouched
<1> QED  BY <1>3, <1>4, <1>5, <1>6

\* A buffer that holds no block: nothing of the burst is given back.
LEMMA receiveInvalidInv == FaceInv /\ receiveInvalid => FaceInv'
<1> SUFFICES ASSUME FaceInv, receiveInvalid PROVE FaceInv'  OBVIOUS
<1> USE DEF FaceInv
<1>1. TypeInv'
  BY DEF TypeInv, receiveInvalid, Fail, mgmtVars, connVars, txVars, countVars
<1>2. LinkInv' /\ RxSlotsReturned'
  BY DEF TypeInv, receiveInvalid, Fail, connVars, LinkInv, RxSlotsReturned
<1>3. TransmittedIsTrue'
  BY TxUntouched DEF receiveInvalid, Fail, txVars, countVars
<1>4. MgmtInv' /\ ForwarderClean'
  BY MgmtUntouched DEF receiveInvalid, Fail, mgmtVars
<1> QED  BY <1>1, <1>2, <1>3, <1>4

\* A block that is no packet ends the process within the interrupt.
LEMMA receiveMalformedInv == FaceInv /\ receiveMalformed => FaceInv'
<1> SUFFICES ASSUME FaceInv, receiveMalformed PROVE FaceInv'  OBVIOUS
<1> USE DEF FaceInv
<1>1. TypeInv'
  BY DEF TypeInv, receiveMalformed, Fail, mgmtVars, connVars, rxVars, txVars, countVars
<1>2. LinkInv' /\ RxSlotsReturned'
  BY DEF TypeInv, receiveMalformed, Fail, connVars, rxVars, LinkInv, RxSlotsReturned
<1>3. TransmittedIsTrue'
  BY TxUntouched DEF receiveMalformed, Fail, txVars, countVars
<1>4. MgmtInv' /\ ForwarderClean'
  BY MgmtUntouched DEF receiveMalformed, Fail, mgmtVars
<1> QED  BY <1>1, <1>2, <1>3, <1>4

\* The end of the interrupt gives the slots of the burst back.
LEMMA refillInv == FaceInv /\ refill => FaceInv'
<1> SUFFICES ASSUME FaceInv, refill PROVE FaceInv'  OBVIOUS
<1> USE DEF FaceInv
<1>1. TypeInv'
  BY DEF TypeInv, refill, mgmtVars, connVars, txVars, countVars
<1>2. LinkInv' /\ RxSlotsReturned'
  <2>1. /\ pc = "receive" /\ pc' = "loop" /\ rxFree' = (IF link THEN rxFree + rxNum ELSE rxFree)
        /\ UNCHANGED <<link, rxRing, failures>>
    BY DEF refill, connVars
  <2>2. LinkInv'
    BY <2>1 DEF LinkInv
  <2>3. rxFree \in Nat /\ rxNum \in Nat /\ Len(rxRing) \in Nat
    BY DEF TypeInv
  <2>4. RxSlotsReturned'
    BY <2>1, <2>3 DEF RxSlotsReturned
  <2> QED  BY <2>2, <2>4
<1>3. TransmittedIsTrue'
  BY TxUntouched DEF refill, txVars, countVars
<1>4. MgmtInv' /\ ForwarderClean'
  BY MgmtUntouched DEF refill, mgmtVars
<1> QED  BY <1>1, <1>2, <1>3, <1>4

-----------------------------------------------------------------------------
(* The forwarder's side of the link.                                        *)

\* The forwarder fills the receive ring.
LEMMA ForwarderSendsInv == FaceInv /\ ForwarderSends => FaceInv'
<1> SUFFICES ASSUME FaceInv, ForwarderSends PROVE FaceInv'  OBVIOUS
<1> USE DEF FaceInv
<1>1. PICK kind \in {"interest", "other", "invalid", "malformed"} :
        rxRing' = Append(rxRing, [kind |-> kind, n |-> sentPackets + 1])
  BY DEF ForwarderSends
<1>2. /\ rxFree > 0 /\ rxFree' = rxFree - 1 /\ sentPackets' = sentPackets + 1
      /\ link /\ UNCHANGED <<link, rxNum, burst, pc, failures>>
  BY DEF ForwarderSends, connVars
<1>3. rxFree \in Nat /\ rxNum \in Nat /\ rxRing \in Seq(Packet) /\ sentPackets \in Nat
  BY DEF TypeInv
<1>4. [kind |-> kind, n |-> sentPackets + 1] \in Packet
  BY <1>3 DEF Packet
<1>5. rxRing' \in Seq(Packet) /\ Len(rxRing') = Len(rxRing) + 1
  BY <1>1, <1>3, <1>4
<1>6. rxFree' \in Nat /\ sentPackets' \in Nat
  BY <1>2, <1>3
<1>7. TypeInv'
  BY <1>2, <1>5, <1>6 DEF TypeInv, ForwarderSends, mgmtVars, txVars, countVars
<1>8. LinkInv'
  BY <1>2 DEF LinkInv
<1>9. RxSlotsReturned'
  BY <1>2, <1>3, <1>5 DEF RxSlotsReturned
<1>10. TransmittedIsTrue'
  BY TxUntouched DEF ForwarderSends, txVars, countVars
<1>11. MgmtInv' /\ ForwarderClean'
  BY MgmtUntouched DEF ForwarderSends, mgmtVars
<1> QED  BY <1>7, <1>8, <1>9, <1>10, <1>11

\* The forwarder drains the transmit ring.
LEMMA ForwarderTakesInv == FaceInv /\ ForwarderTakes => FaceInv'
<1> SUFFICES ASSUME FaceInv, ForwarderTakes PROVE FaceInv'  OBVIOUS
<1> USE DEF FaceInv
<1>1. /\ txRing \in Seq(Nat) /\ delivered \in Seq(Nat) /\ txRing # <<>>
      /\ delivered' = Append(delivered, Head(txRing)) /\ txRing' = Tail(txRing)
  BY DEF TypeInv, ForwarderTakes
<1>2. /\ txRing' \in Seq(Nat) /\ Len(txRing') = Len(txRing) - 1
      /\ delivered' \in Seq(Nat) /\ Len(delivered') = Len(delivered) + 1
      /\ Len(txRing) \in Nat /\ Len(delivered) \in Nat
  BY <1>1
<1>3. TypeInv'
  BY <1>2 DEF TypeInv, ForwarderTakes, mgmtVars, connVars, rxVars, countVars
<1>4. LinkInv' /\ RxSlotsReturned'
  BY RxUntouched DEF ForwarderTakes, connVars, rxVars
<1>5. TransmittedIsTrue'
  BY <1>2 DEF ForwarderTakes, countVars, TransmittedIsTrue
<1>6. MgmtInv' /\ ForwarderClean'
  BY MgmtUntouched DEF ForwarderTakes, mgmtVars
<1> QED  BY <1>3, <1>4, <1>5, <1>6

-----------------------------------------------------------------------------
(* The loop of main, the ping client and the signal.                        *)

\* These steps touch neither a ring nor the forwarder.
LEMMA LoopInv == FaceInv /\ (Leave \/ run \/ runDone \/ PipelineAnswers \/ handler) => FaceInv'
<1> SUFFICES ASSUME FaceInv, Leave \/ run \/ runDone \/ PipelineAnswers \/ handler PROVE FaceInv'
  OBVIOUS
<1> USE DEF FaceInv
<1>1. /\ UNCHANGED <<app, fwd, ids, link, rxFree, rxRing, burst, rxNum, sentPackets, txRing, delivered,
                     nTx, failures>>
      /\ pc' = pc \/ (pc = "loop" /\ pc' = "delete")
  BY DEF Leave, run, runDone, PipelineAnswers, handler, mgmtVars, connVars, rxVars, txVars, countVars
<1>2. TypeInv'
  BY <1>1 DEF TypeInv
<1>3. LinkInv' /\ RxSlotsReturned'
  BY <1>1, RxUntouched
<1>4. TransmittedIsTrue' /\ MgmtInv' /\ ForwarderClean'
  BY <1>1, TxUntouched, MgmtUntouched
<1> QED  BY <1>2, <1>3, <1>4

\* Every step preserves the invariant.
LEMMA FaceStep == FaceInv /\ [Next]_vars => FaceInv'
<1> SUFFICES ASSUME FaceInv, [Next]_vars PROVE FaceInv'
  OBVIOUS
<1>1. CASE UNCHANGED vars
  BY <1>1 DEF vars, FaceInv, TypeInv, LinkInv, RxSlotsReturned, TransmittedIsTrue, MgmtInv,
              ForwarderClean
<1>2. CASE Main
  BY <1>2, createFaceInv, createInterfaceInv, connectInv, advertiseInv, handleDisconnectInv,
     handleInterruptInv, receiveInv, receiveInvalidInv, receiveMalformedInv, refillInv, LoopInv, deleteFaceInv
     DEF Main
<1>3. CASE handleConnect \/ PipelineAnswers \/ handler \/ ForwarderSends \/ ForwarderTakes \/ LinkDown
  BY <1>3, handleConnectInv, LoopInv, ForwarderSendsInv, ForwarderTakesInv, LinkDownInv
<1> QED  BY <1>1, <1>2, <1>3 DEF Next

-----------------------------------------------------------------------------
\* For a ring and bursts of any size: while the link is up and every buffer
\* held a block, the slots that are free, filled or in the burst under way are
\* all the slots of the ring: an interrupt gives back what it took, whatever
\* the forwarder fills meanwhile (Memif::handleInterrupt).
THEOREM FaceReturnsSlots == Spec => []RxSlotsReturned
<1>1. FaceInv => RxSlotsReturned
  BY DEF FaceInv
<1> QED  BY <1>1, FaceInit, FaceStep, PTL DEF Spec

\* For rings of any size and any number of packets: as long as no send failed
\* and the link held, what the ping server counts as transmitted is what the
\* forwarder has got or will get, also when the ring was full (Memif::send).
THEOREM FaceCountsTransmitted == Spec => []TransmittedIsTrue
<1>1. FaceInv => TransmittedIsTrue
  BY DEF FaceInv
<1> QED  BY <1>1, FaceInit, FaceStep, PTL DEF Spec

\* An application that ends in order leaves nothing on the forwarder, unless
\* a management request failed or main returned early (Face::~Face).
THEOREM FaceLeavesForwarderClean == Spec => []ForwarderClean
<1>1. FaceInv => ForwarderClean
  BY DEF FaceInv
<1> QED  BY <1>1, FaceInit, FaceStep, PTL DEF Spec

=============================================================================
