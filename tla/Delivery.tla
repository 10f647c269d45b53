------------------------------ MODULE Delivery -------------------------------
(***************************************************************************)
(* The way in: from RecvActivity's queue of data packets (hkClient.cpp)    *)
(* through HKDevice and its stream (hkDevice.cpp, hkDevice.h) to           *)
(* HKDeviceMgr::processReceivedMsgs, which an application polls            *)
(* (hkDeviceMgr.cpp, hkDeviceMgr.h, msgDecoder.cpp).                       *)
(*                                                                         *)
(* The receive thread pushes packets, opens and closes the stream on the   *)
(* server's command, and sets msgsReceived if the stream is open.  The     *)
(* application's thread resets msgsReceived and takes packets out while    *)
(* there are any, in processReceivedMsgs() or, by way of it, in            *)
(* getPublishAck(); another of its threads may take packets too.           *)
(*                                                                         *)
(* A packet is the order in which it came and what its decoding comes to:  *)
(*   a publication  a PUBLISHINFOACK of it;                                *)
(*   "plain"        a PUBLISHINFO, or a message that is not JSON;          *)
(*   "refused"      no message at all, JSON with another command, or one   *)
(*                  whose body cannot be read: the call returns false;     *)
(*   "corrupt"      JSON with a wrong CRC, or that does not parse or is no *)
(*                  command: the call throws.                              *)
(***************************************************************************)
EXTENDS Naturals, Sequences

CONSTANTS
  Publications,  \* the uuids that publish() has returned
  PingCheck,     \* as in Connection: the signalling thread disconnects too
  MaxPackets     \* bound: data packets received in a behaviour

ASSUME DeliveryAssumption ==
  /\ Publications \cap {"plain", "refused", "corrupt"} = {}
  /\ PingCheck \in BOOLEAN
  /\ MaxPackets \in Nat

VARIABLES
  recv,         \* where the receive thread is, from one message to the next
  stream,       \* HKDevice::stream: "created", "open" or "closed"
  inPacketQ,
  numReceived,  \* data packets so far
  msgsReceived, \* HKDeviceMgr's event
  manager,      \* where processReceivedMsgs() is, "idle" outside it
  returned,     \* what it came to when it last had messages to process
  activityMap,  \* PublishActivity: the ack it holds of each publication, or 0
  taker         \* where a call of getPacket() by another thread is, "idle" or "pop"

recvState == <<recv, numReceived>>
managerState == <<manager, returned, activityMap>>
appState == <<managerState, taker>>
vars == <<recvState, stream, inPacketQ, msgsReceived, appState>>

Kinds == Publications \cup {"plain", "refused", "corrupt"}
Packets == [id : 1..MaxPackets, kind : Kinds]

TypeOK ==
  /\ recv \in {"reading", "pushed", "notifyPushed", "read", "notifyRead"}
  /\ stream \in {"created", "open", "closed"}
  /\ inPacketQ \in Seq(Packets)
  /\ numReceived \in 0..MaxPackets
  /\ msgsReceived \in BOOLEAN
  /\ manager \in {"idle", "reset", "has", "get", "pop"}
  /\ returned \in {"true", "false", "thrown"}
  /\ activityMap \in [Publications -> 0..MaxPackets]
  /\ taker \in {"idle", "pop"}

Init ==
  /\ recv = "reading"
  /\ stream = "created"
  /\ inPacketQ = <<>>
  /\ numReceived = 0
  /\ msgsReceived = FALSE
  /\ manager = "idle"
  /\ returned = "true"
  /\ activityMap = [u \in Publications |-> 0]
  /\ taker = "idle"

-----------------------------------------------------------------------------
(* The receive thread *)

Goto(from, to) == recv = from /\ recv' = to

\* A packet that isSignallingMsg() does not claim.
Push(kind) ==
  /\ numReceived < MaxPackets
  /\ Goto("reading", "pushed")
  /\ numReceived' = numReceived + 1
  /\ inPacketQ' = Append(inPacketQ, [id |-> numReceived + 1, kind |-> kind])
  /\ UNCHANGED <<stream, msgsReceived, appState>>

\* HKDevice::onReceivedData, first half
IfOpen(from, notify, to) ==
  /\ Goto(from, IF stream = "open" THEN notify ELSE to)
  /\ UNCHANGED <<numReceived, stream, inPacketQ, msgsReceived, appState>>

\* and the second: onReceivedDataEvent
onReceivedDataEvent(notify, to) ==
  /\ Goto(notify, to)
  /\ msgsReceived' = TRUE
  /\ UNCHANGED <<numReceived, stream, inPacketQ, appState>>

\* readPackets() reports a data packet ...
ReportPacket ==
  \/ IfOpen("pushed", "notifyPushed", "read")
  \/ onReceivedDataEvent("notifyPushed", "read")

\* Mutant: readPackets() has already reported it.
ReportRead_Once ==
  /\ Goto("read", "reading")
  /\ UNCHANGED <<numReceived, stream, inPacketQ, msgsReceived, appState>>

\* ... and threadFunction() reports every message, signalling ones too.
ReportRead ==
  \/ IfOpen("read", "notifyRead", "reading")
  \/ onReceivedDataEvent("notifyRead", "reading")

\* SUBSCRIBER
onOpenForDataEvent ==
  /\ Goto("reading", "read")
  /\ stream' = "open"
  /\ UNCHANGED <<inPacketQ, numReceived, msgsReceived, appState>>

\* Mutant: a stream is closed by putting it back to its INITIALIZED state.
Closed_Initialized == IF stream = "open" THEN "initialized" ELSE stream

Closed == IF stream = "open" THEN "closed" ELSE stream

\* UNSUBSCRIBER and CLOSEDFORDATA
onClosedForDataEvent ==
  /\ Goto("reading", "read")
  /\ stream' = Closed
  /\ UNCHANGED <<inPacketQ, numReceived, msgsReceived, appState>>

\* Any other signalling message: it is reported as data is.
OtherSignal ==
  /\ Goto("reading", "read")
  /\ UNCHANGED <<stream, inPacketQ, numReceived, msgsReceived, appState>>

\* HKClientCore::onDisconnect closes the stream and leaves the queue alone.  The
\* receive thread runs it, or the signalling thread while that one is anywhere.
onDisconnect ==
  /\ PingCheck \/ recv = "reading"
  /\ stream' = Closed
  /\ UNCHANGED <<recvState, inPacketQ, msgsReceived, appState>>

\* RecvActivity::deinit empties the queue, and leaves the stream and msgsReceived;
\* init() then goes on with them.
deinit ==
  /\ inPacketQ' = <<>>
  /\ UNCHANGED <<recvState, stream, msgsReceived, appState>>

Recv ==
  \/ \E kind \in Kinds : Push(kind)
  \/ ReportPacket \/ ReportRead
  \/ onOpenForDataEvent \/ onClosedForDataEvent \/ OtherSignal

-----------------------------------------------------------------------------
(* HKDeviceMgr::processReceivedMsgs, in a thread of the application *)

Poll(from, to) == manager = from /\ manager' = to

\* If no messages were received it returns false; otherwise:
Start ==
  /\ msgsReceived
  /\ Poll("idle", "reset")
  /\ UNCHANGED <<recvState, stream, inPacketQ, msgsReceived, returned,
                 activityMap, taker>>

Reset ==
  /\ Poll("reset", "has")
  /\ msgsReceived' = FALSE
  /\ UNCHANGED <<recvState, stream, inPacketQ, returned, activityMap, taker>>

HasPacket ==
  /\ Poll("has", IF inPacketQ = <<>> THEN "idle" ELSE "get")
  /\ returned' = IF inPacketQ = <<>> THEN "true" ELSE returned
  /\ UNCHANGED <<recvState, stream, inPacketQ, msgsReceived, activityMap, taker>>

\* HKDevice::getPacket returns false while the stream is not open, and
\* processReceivedMsgs() asks again.
StreamTest ==
  /\ Poll("get", IF stream = "open" THEN "pop" ELSE "has")
  /\ UNCHANGED <<recvState, stream, inPacketQ, msgsReceived, returned,
                 activityMap, taker>>

\* Another thread was faster.
PopEmpty ==
  /\ inPacketQ = <<>>
  /\ Poll("pop", "has")
  /\ UNCHANGED <<recvState, stream, inPacketQ, msgsReceived, returned,
                 activityMap, taker>>

\* processCmdMsgJson() and putInfoAck(), with a packet that was taken.
Process(packet) ==
  /\ returned' = CASE packet.kind = "refused" -> "false"
                   [] packet.kind = "corrupt" -> "thrown"
                   [] OTHER -> returned
  /\ manager' = IF packet.kind \in {"refused", "corrupt"} THEN "idle" ELSE "has"
  /\ activityMap' = [u \in Publications |->
                       IF u = packet.kind THEN packet.id ELSE activityMap[u]]

\* Mutant: "if" for "while": one message for every call.
Pop_One ==
  /\ manager = "pop"
  /\ inPacketQ # <<>>
  /\ inPacketQ' = Tail(inPacketQ)
  /\ manager' = "idle"
  /\ UNCHANGED <<recvState, stream, msgsReceived, returned, activityMap, taker>>

\* Mutant: front() without pop_front().
Pop_Peeks ==
  /\ manager = "pop"
  /\ inPacketQ # <<>>
  /\ manager' = "has"
  /\ UNCHANGED <<recvState, stream, inPacketQ, msgsReceived, returned,
                 activityMap, taker>>

\* Mutant: the queue is emptied from its back.
Pop_Back ==
  /\ manager = "pop"
  /\ inPacketQ # <<>>
  /\ inPacketQ' = SubSeq(inPacketQ, 1, Len(inPacketQ) - 1)
  /\ Process(inPacketQ[Len(inPacketQ)])
  /\ UNCHANGED <<recvState, stream, msgsReceived, taker>>

\* A packet that is refused or corrupt ends the call, with others still queued.
Pop ==
  /\ manager = "pop"
  /\ inPacketQ # <<>>
  /\ inPacketQ' = Tail(inPacketQ)
  /\ Process(Head(inPacketQ))
  /\ UNCHANGED <<recvState, stream, msgsReceived, taker>>

Manager == Start \/ Reset \/ HasPacket \/ StreamTest \/ PopEmpty \/ Pop

\* HKDeviceMgr::getPacket and HKDevice::recvFromDevice, in another thread: each
\* tests the stream once; the one then takes a packet, the other all there are.
TakeTest ==
  /\ taker = "idle"
  /\ stream = "open"
  /\ taker' = "pop"
  /\ UNCHANGED <<recvState, stream, inPacketQ, msgsReceived, managerState>>

TakeEmpty ==
  /\ taker = "pop"
  /\ inPacketQ = <<>>
  /\ taker' = "idle"
  /\ UNCHANGED <<recvState, stream, inPacketQ, msgsReceived, managerState>>

TakePop ==
  /\ taker = "pop"
  /\ inPacketQ # <<>>
  /\ inPacketQ' = Tail(inPacketQ)
  /\ taker' \in {"idle", "pop"}
  /\ UNCHANGED <<recvState, stream, msgsReceived, managerState>>

TakePacket == TakeTest \/ TakeEmpty \/ TakePop

-----------------------------------------------------------------------------
Next == Recv \/ onDisconnect \/ deinit \/ Manager \/ TakePacket

\* Threads run, and the application keeps polling.
Spec == Init /\ [][Next]_vars
FairSpec == Spec /\ WF_vars(Manager) /\ WF_vars(ReportPacket \/ ReportRead)

-----------------------------------------------------------------------------
(* Properties *)

\* The last processReceivedMsgs() gave up on a packet.
GaveUp == returned # "true"

\* NoStrandedPacket: a packet in the queue of an open stream has been announced
\* or is in the hands of processReceivedMsgs(), also when it came while the
\* stream was closed or while a poll was resetting the event.  The one
\* exception is what is left behind a packet that ended the call.
NoStrandedPacket ==
  inPacketQ # <<>> /\ stream = "open" /\ recv = "reading" /\ manager = "idle"
    => msgsReceived \/ GaveUp

\* AcksAdvance: the ack that getPublishAck() finds for a publication is never lost,
\* and never gives way to one that came before it.
AcksAdvance ==
  [][\A u \in Publications : activityMap'[u] >= activityMap[u]]_vars

\* Drained: on a stream that stays open a polling application gets every packet,
\* except for what is left behind one that ended the call.
Drained ==
  <>[](stream = "open") => []<>(inPacketQ = <<>> \/ (manager = "idle" /\ GaveUp))

\* PollReturns: processReceivedMsgs() comes to an end unless the stream is
\* closed on packets that are still queued: then it asks for them in a loop.
PollReturns ==
  <>[](stream = "open" \/ inPacketQ = <<>>) => []<>(manager = "idle")
=============================================================================
