----------------------------- MODULE Connection -----------------------------
(***************************************************************************)
(* The life cycle of the client's one TCP connection (hkClient.cpp).       *)
(*                                                                         *)
(* Three threads share the socket, two events and two atomic flags:        *)
(*   sig   SignallingObject::threadFunction: connects when the socket is   *)
(*         not valid, wakes the receive thread, sends the set-up messages; *)
(*   recv  RecvActivity::threadFunction: reads while eventReadyToRead is   *)
(*         set and runs HKClientCore::onDisconnect when the peer is gone;  *)
(*   app   the thread that calls HKClientCore::init and deinit.            *)
(*                                                                         *)
(* Every access to a shared variable, event or socket is one action, so    *)
(* every interleaving of the threads is a behaviour.  A CstdConditional is *)
(* a Boolean that wait() reads and only reset() clears: the receive loop   *)
(* waits again without resetting it.                                       *)
(***************************************************************************)
EXTENDS Naturals

CONSTANTS
  PingCheck,      \* ENABLE_PING_CONNECT_CHECK is defined
  MayDeinit,      \* the application may call deinit()
  MayReinit,      \* and init() again after that
  SleepOutlastsTeardown,    \* Sleep(2000) ends after recv has left onDisconnect
  ConnectOutlastsTeardown   \* so does a successful attempt to connect

ASSUME ConnectionAssumption ==
  /\ PingCheck \in BOOLEAN
  /\ MayDeinit \in BOOLEAN
  /\ MayReinit \in BOOLEAN
  /\ SleepOutlastsTeardown \in BOOLEAN
  /\ ConnectOutlastsTeardown \in BOOLEAN

VARIABLES
  socket,            \* Ctcp::Client: "closed" (not valid), "open", or still
                     \* valid without a peer: "dead" if the next read returns
                     \* its end, "silent" if no read ever returns
  connected,         \* SignallingObject::connected, what isConnected() returns
  justDisconnected,
  eventDisconnectedFromServer,
  eventReadyToRead,
  localPingAckTimer, \* GenTimer: "stopped" or "running"
  shouldExit,        \* the threads whose setShouldExit() was called
  pinputPacket,      \* RecvActivity's packet being read: "owned" or "freed"
  pc                 \* where each thread is

vars == <<socket, connected, justDisconnected, eventDisconnectedFromServer,
          eventReadyToRead, localPingAckTimer, shouldExit, pinputPacket, pc>>

\* What the three threads' progress leaves alone unless an action says so.
flags == <<connected, justDisconnected>>
events == <<eventDisconnectedFromServer, eventReadyToRead>>
shutdown == <<shouldExit, pinputPacket>>

Threads == {"app", "sig", "recv"}

\* HKClientCore::onDisconnect, by whichever thread runs it.
TeardownLabels == {"close", "ifConnected", "clearConnected", "setJust",
                   "notifyDisc", "resetReady", "clearSendQ", "closedForData"}
\* connectIfNotConnected between a successful connect() and connected = true.
SetupLabels == {"notifyRecv", "initSendQ", "sendInfo", "sendGroup",
                "sendPing", "setConnected"}
SigLabels == {"loop", "check", "ifJust", "sleep", "connect", "resetDisc",
              "initTimer", "elapsed", "ping", "wait", "exited"}
                \cup SetupLabels \cup TeardownLabels
RecvLabels == {"wait", "exitTest", "reading", "handling", "finalReset",
               "loopTest", "exited", "crashed"} \cup TeardownLabels
AppLabels == {"initReset", "running", "stopSig", "closeSocket", "wakeRecv",
              "freeInput", "exitRecv", "joinRecv", "stopSend", "done",
              "initSend", "initSig"}

Labels == SigLabels \cup RecvLabels \cup AppLabels

FlagsOK ==
  /\ connected \in BOOLEAN
  /\ justDisconnected \in BOOLEAN
  /\ eventDisconnectedFromServer \in BOOLEAN
  /\ eventReadyToRead \in BOOLEAN
ResourcesOK ==
  /\ socket \in {"closed", "open", "dead", "silent"}
  /\ localPingAckTimer \in {"stopped", "running"}
  /\ shouldExit \in SUBSET {"sig", "recv"}
  /\ pinputPacket \in {"owned", "freed"}
LabelsOK ==
  /\ pc \in [Threads -> Labels]
  /\ pc["sig"] \in SigLabels
  /\ pc["recv"] \in RecvLabels
  /\ pc["app"] \in AppLabels

\* TypeOK: every variable has its type, and each thread is at one of its own
\* labels although sig and recv share the code of onDisconnect().
TypeOK == FlagsOK /\ ResourcesOK /\ LabelsOK

\* HKClientCore::init has started the three threads; what it still has to do
\* is the reset of the disconnect event that follows the start of sig.
Init ==
  /\ socket = "closed"
  /\ connected = FALSE
  /\ justDisconnected = FALSE
  /\ eventDisconnectedFromServer = FALSE
  /\ eventReadyToRead = FALSE
  /\ localPingAckTimer = "stopped"
  /\ shouldExit = {}
  /\ pinputPacket = "owned"
  /\ pc = [t \in Threads |-> IF t = "app" THEN "initReset"
                             ELSE IF t = "sig" THEN "loop"
                             ELSE "wait"]

-----------------------------------------------------------------------------
At(t, label) == pc[t] = label

Goto(t, from, to) ==
  /\ At(t, from)
  /\ pc' = [pc EXCEPT ![t] = to]

\* A step that changes nothing that other threads can see.
Step(t, from, to) ==
  /\ Goto(t, from, to)
  /\ UNCHANGED <<socket, flags, events, localPingAckTimer, shutdown>>

socketValid == socket # "closed"

RecvInTeardown == pc["recv"] \in TeardownLabels \cup {"finalReset"}

\* The test that ends connectIfNotConnected is compiled in only with the ping.
AfterCheck == IF PingCheck THEN "elapsed" ELSE "wait"

-----------------------------------------------------------------------------
(* The signalling thread. *)

SigLoop ==
  Step("sig", "loop", IF "sig" \in shouldExit THEN "exited" ELSE "check")

SigCheck == Step("sig", "check", IF socketValid THEN AfterCheck ELSE "ifJust")

SigIfJust ==
  Step("sig", "ifJust", IF justDisconnected THEN "sleep" ELSE "connect")

SigSleep ==
  /\ SleepOutlastsTeardown => ~RecvInTeardown
  /\ Goto("sig", "sleep", "connect")
  /\ justDisconnected' = FALSE
  /\ UNCHANGED <<socket, connected, events, localPingAckTimer, shutdown>>

\* The first conjunct is an assumption about time and not in the code, which
\* connects whatever the receive thread is at.
SigConnect ==
  /\ ConnectOutlastsTeardown => ~RecvInTeardown
  /\ Goto("sig", "connect", "notifyRecv")
  /\ socket' = "open"
  /\ UNCHANGED <<flags, events, localPingAckTimer, shutdown>>

SigConnectFails == Step("sig", "connect", "resetDisc")

\* Mutant: onConnect() forgets RecvActivity.
SigNotifyRecv_Forgotten == Step("sig", "notifyRecv", "initSendQ")

\* HKClientCore::onConnect: RecvActivity first, SendActivity second.
SigNotifyRecv ==
  /\ Goto("sig", "notifyRecv", "initSendQ")
  /\ eventReadyToRead' = TRUE
  /\ UNCHANGED <<socket, flags, eventDisconnectedFromServer,
                 localPingAckTimer, shutdown>>

SigInitSendQ == Step("sig", "initSendQ", "sendInfo")

\* localPing() starts the timer; only the ping check ever reads it.
TimerStarted == IF PingCheck THEN "running" ELSE localPingAckTimer

\* setupConnection: three messages handed to SendActivity::sendOut.
SigSendInfo == Step("sig", "sendInfo", "sendGroup")

SigSendGroup == Step("sig", "sendGroup", "sendPing")

SigSendPing ==
  /\ Goto("sig", "sendPing", "setConnected")
  /\ localPingAckTimer' = TimerStarted
  /\ UNCHANGED <<socket, flags, events, shutdown>>

\* Mutant: a connection is set up but never reported.
SigSetConnected_Forgotten == Step("sig", "setConnected", "resetDisc")

SigSetConnected ==
  /\ Goto("sig", "setConnected", "resetDisc")
  /\ connected' = TRUE
  /\ UNCHANGED <<socket, justDisconnected, events, localPingAckTimer, shutdown>>

\* Mutant: the disconnect event is never reset.
SigResetDisc_Dropped == Step("sig", "resetDisc", "initTimer")

\* Done after a failed attempt too.
SigResetDisc ==
  /\ Goto("sig", "resetDisc", "initTimer")
  /\ eventDisconnectedFromServer' = FALSE
  /\ UNCHANGED <<socket, flags, eventReadyToRead, localPingAckTimer, shutdown>>

SigInitTimer ==
  /\ Goto("sig", "initTimer", AfterCheck)
  /\ localPingAckTimer' = "stopped"
  /\ UNCHANGED <<socket, flags, events, shutdown>>

\* Mutant: wait() instead of waitUntil().
SigWait_NoTimeout ==
  /\ eventDisconnectedFromServer
  /\ Step("sig", "wait", "loop")

\* waitUntil(HYPERCUBE_CONNECTIONINTERVAL_MS) returns when the event is set
\* or when the interval is over: it can always return.
SigWait == Step("sig", "wait", "loop")

-----------------------------------------------------------------------------
(* ENABLE_PING_CONNECT_CHECK: the end of connectIfNotConnected. *)

SigPingElapsed ==
  /\ localPingAckTimer = "running"
  /\ Step("sig", "elapsed", "close")

\* Mutant: the periodic ping is forgotten.
SigPingNotElapsed_NoPing == Step("sig", "elapsed", "wait")

SigPingNotElapsed == Step("sig", "elapsed", "ping")

SigLocalPing ==
  /\ Goto("sig", "ping", "wait")
  /\ localPingAckTimer' = IF connected THEN TimerStarted ELSE localPingAckTimer
  /\ UNCHANGED <<socket, flags, events, shutdown>>

-----------------------------------------------------------------------------
(* HKClientCore::onDisconnect, run by thread t. *)

\* Closing the socket makes a recv() in progress on it fail.
ReadFails(p) ==
  IF p["recv"] = "reading" THEN [p EXCEPT !["recv"] = "close"] ELSE p

Close(t) ==
  /\ At(t, "close")
  /\ pc' = ReadFails([pc EXCEPT ![t] = "ifConnected"])
  /\ socket' = "closed"
  /\ UNCHANGED <<flags, events, localPingAckTimer, shutdown>>

IfConnected(t) ==
  Step(t, "ifConnected", IF connected THEN "clearConnected" ELSE "resetReady")

\* Mutant: connected survives the disconnect.
ClearConnected_Dropped(t) == Step(t, "clearConnected", "setJust")

ClearConnected(t) ==
  /\ Goto(t, "clearConnected", "setJust")
  /\ connected' = FALSE
  /\ UNCHANGED <<socket, justDisconnected, events, localPingAckTimer, shutdown>>

SetJust(t) ==
  /\ Goto(t, "setJust", "notifyDisc")
  /\ justDisconnected' = TRUE
  /\ UNCHANGED <<socket, connected, events, localPingAckTimer, shutdown>>

NotifyDisc(t) ==
  /\ Goto(t, "notifyDisc", "resetReady")
  /\ eventDisconnectedFromServer' = TRUE
  /\ UNCHANGED <<socket, flags, eventReadyToRead, localPingAckTimer, shutdown>>

ResetReady(t) ==
  /\ Goto(t, "resetReady", "clearSendQ")
  /\ eventReadyToRead' = FALSE
  /\ UNCHANGED <<socket, flags, eventDisconnectedFromServer,
                 localPingAckTimer, shutdown>>

ClearSendQ(t) == Step(t, "clearSendQ", "closedForData")

\* Mutant: every caller continues as if it were the ping check.
ClosedForData_OneCaller(t) == Step(t, "closedForData", "ping")

ClosedForData(t) ==
  Step(t, "closedForData", IF t = "recv" THEN "finalReset" ELSE "ping")

Teardown(t) ==
  \/ Close(t) \/ IfConnected(t) \/ ClearConnected(t) \/ SetJust(t)
  \/ NotifyDisc(t) \/ ResetReady(t) \/ ClearSendQ(t) \/ ClosedForData(t)

-----------------------------------------------------------------------------
(* The receive thread. *)

RecvWait ==
  /\ eventReadyToRead
  /\ Step("recv", "wait", "exitTest")

\* readPackets() starts by dereferencing pinputPacket.
RecvExitTest ==
  Step("recv", "exitTest",
       IF "recv" \in shouldExit THEN "exited" ELSE "reading")

\* Mutant: eventReadyToRead is used up by one packet.
RecvPacket_Resets ==
  /\ socket = "open"
  /\ Goto("recv", "reading", "handling")
  /\ eventReadyToRead' = FALSE
  /\ UNCHANGED <<socket, flags, eventDisconnectedFromServer,
                 localPingAckTimer, shutdown>>

\* NEEDEDDATAREAD or MOREDATANEEDED: from here on the thread is busy with what
\* it has read, whatever becomes of the socket.
RecvPacket ==
  /\ socket = "open"
  /\ Step("recv", "reading", "handling")

\* isSignallingMsg() and what it calls; a LOCALPING stops the ack timer.
RecvHandled ==
  /\ Goto("recv", "handling", "loopTest")
  /\ localPingAckTimer' \in {localPingAckTimer, "stopped"}
  /\ UNCHANGED <<socket, flags, events, shutdown>>

\* PEERSHUTDOWN or READERROR.
RecvReadFails ==
  /\ socket \in {"closed", "dead"}
  /\ Step("recv", "reading", "close")

\* The packet was deleted under the reader: the process may die of it.
RecvCrash ==
  /\ pinputPacket = "freed"
  /\ Step("recv", "reading", "crashed") \/ Step("recv", "handling", "crashed")

\* The reset that follows onDisconnect() in threadFunction.
RecvFinalReset ==
  /\ Goto("recv", "finalReset", "loopTest")
  /\ eventReadyToRead' = FALSE
  /\ UNCHANGED <<socket, flags, eventDisconnectedFromServer,
                 localPingAckTimer, shutdown>>

RecvLoopTest ==
  Step("recv", "loopTest", IF "recv" \in shouldExit THEN "exited" ELSE "wait")

-----------------------------------------------------------------------------
(* The application's thread: init() and the steps of deinit(). *)

AppInitReset ==
  /\ Goto("app", "initReset", "running")
  /\ eventDisconnectedFromServer' = FALSE
  /\ UNCHANGED <<socket, flags, eventReadyToRead, localPingAckTimer, shutdown>>

\* HKClient::localPing(), which an application may call at any time.
AppLocalPing ==
  /\ At("app", "running")
  /\ localPingAckTimer' = TimerStarted
  /\ UNCHANGED <<socket, flags, events, shutdown, pc>>

AppDeinit ==
  /\ MayDeinit
  /\ Step("app", "running", "stopSig")

\* SignallingObject::deinit tells sig to exit, and wakes it, until it has.
AppStopSig ==
  /\ At("app", "stopSig")
  /\ ~At("sig", "exited")
  /\ shouldExit' = shouldExit \cup {"sig"}
  /\ eventDisconnectedFromServer' = TRUE
  /\ UNCHANGED <<socket, flags, eventReadyToRead, localPingAckTimer,
                 pinputPacket, pc>>

\* Mutant: deinit() does not wait for the signalling thread.
AppSigStopped_Unawaited ==
  /\ "sig" \in shouldExit
  /\ Step("app", "stopSig", "closeSocket")

AppSigStopped ==
  /\ At("sig", "exited")
  /\ Step("app", "stopSig", "closeSocket")

AppCloseSocket ==
  /\ At("app", "closeSocket")
  /\ pc' = ReadFails([pc EXCEPT !["app"] = "wakeRecv"])
  /\ socket' = "closed"
  /\ UNCHANGED <<flags, events, localPingAckTimer, shutdown>>

\* RecvActivity::deinit: notify, delete the packet, and only then tell the
\* thread to exit (CstdThread::deinit) and wait until it has.
AppWakeRecv ==
  /\ Goto("app", "wakeRecv", "freeInput")
  /\ eventReadyToRead' = TRUE
  /\ UNCHANGED <<socket, flags, eventDisconnectedFromServer,
                 localPingAckTimer, shutdown>>

AppFreeInput ==
  /\ Goto("app", "freeInput", "exitRecv")
  /\ pinputPacket' = "freed"
  /\ UNCHANGED <<socket, flags, events, localPingAckTimer, shouldExit>>

AppExitRecv ==
  /\ Goto("app", "exitRecv", "joinRecv")
  /\ shouldExit' = shouldExit \cup {"recv"}
  /\ UNCHANGED <<socket, flags, events, localPingAckTimer, pinputPacket>>

AppJoinRecv ==
  /\ At("recv", "exited")
  /\ Step("app", "joinRecv", "stopSend")

\* SendActivity::deinit, which touches nothing of this module.
AppStopSend == Step("app", "stopSend", "done")

\* init() again: RecvActivity::init, which starts the receive thread.  Nothing
\* resets connected, justDisconnected or the ping timer.
AppInitRecv ==
  /\ MayReinit
  /\ At("app", "done")
  /\ pc' = [pc EXCEPT !["app"] = "initSend", !["recv"] = "wait"]
  /\ eventReadyToRead' = FALSE
  /\ pinputPacket' = "owned"
  /\ shouldExit' = shouldExit \ {"recv"}
  /\ UNCHANGED <<socket, flags, eventDisconnectedFromServer,
                 localPingAckTimer>>

\* SendActivity::init
AppInitSend == Step("app", "initSend", "initSig")

\* SignallingObject::init starts its thread before it resets the event.
AppInitSig ==
  /\ At("app", "initSig")
  /\ pc' = [pc EXCEPT !["app"] = "initReset", !["sig"] = "loop"]
  /\ shouldExit' = shouldExit \ {"sig"}
  /\ UNCHANGED <<socket, flags, events, localPingAckTimer, pinputPacket>>

-----------------------------------------------------------------------------
(* The server or the network ends the connection. *)

PeerDrops ==
  /\ socket = "open"
  /\ socket' = "dead"
  /\ UNCHANGED <<flags, events, localPingAckTimer, shutdown, pc>>

\* The peer is gone without a word.  Only the ping check can tell this from an
\* open connection on which nothing arrives.
PeerFallsSilent ==
  /\ PingCheck
  /\ socket = "open"
  /\ socket' = "silent"
  /\ UNCHANGED <<flags, events, localPingAckTimer, shutdown, pc>>

-----------------------------------------------------------------------------
\* The signalling thread, outside onDisconnect.
SigOwn ==
  \/ SigLoop \/ SigCheck \/ SigIfJust \/ SigSleep
  \/ SigConnect \/ SigConnectFails
  \/ SigNotifyRecv \/ SigInitSendQ
  \/ SigSendInfo \/ SigSendGroup \/ SigSendPing
  \/ SigSetConnected \/ SigResetDisc \/ SigInitTimer \/ SigWait
  \/ SigPingElapsed \/ SigPingNotElapsed \/ SigLocalPing

Sig == SigOwn \/ Teardown("sig")

\* The receive thread, without the arrival of data and the crash.
RecvOwn ==
  \/ RecvWait \/ RecvExitTest \/ RecvHandled \/ RecvReadFails
  \/ RecvFinalReset \/ RecvLoopTest

Recv == RecvOwn \/ Teardown("recv")

\* The application's thread, without its decisions to stop and to start again.
App ==
  \/ AppInitReset \/ AppStopSig \/ AppSigStopped \/ AppCloseSocket
  \/ AppWakeRecv \/ AppFreeInput \/ AppExitRecv \/ AppJoinRecv \/ AppStopSend
  \/ AppInitSend \/ AppInitSig

\* A crash of one thread is the end of the process.
Next ==
  /\ ~At("recv", "crashed")
  /\ Sig \/ Recv \/ App \/ RecvPacket \/ RecvCrash
     \/ AppLocalPing \/ AppDeinit \/ AppInitRecv
     \/ PeerDrops \/ PeerFallsSilent

\* The scheduler runs every thread; the timer of a ping to a peer that is gone,
\* which nobody acknowledges, has elapsed by some later test of it.
ThreadFairness ==
  /\ WF_vars(Next /\ Sig)
  /\ WF_vars(Next /\ Recv)
  /\ WF_vars(Next /\ App)
  /\ SF_vars(Next /\ socket # "open" /\ SigPingElapsed)

\* The server accepts one of any infinite number of attempts.
ServerFairness == SF_vars(Next /\ SigConnect)

Spec == Init /\ [][Next]_vars
FairSpec == Spec /\ ThreadFairness /\ ServerFairness

-----------------------------------------------------------------------------
(* Properties *)

\* The signalling thread is there and deinit() has not come to client.close().
ClientUp == pc["app"] \in {"initReset", "running", "stopSig", "closeSocket"}

\* NoDeafConnection: the receive thread never sleeps on a connection.  Once
\* onConnect() has set eventReadyToRead no reset may undo it: a receive thread
\* waiting on a reset event would never read from this socket, nor notice its
\* end (RecvActivity::onConnect, onDisconnect and the reset in threadFunction).
NoDeafConnection ==
  socketValid /\ ~At("sig", "notifyRecv") /\ At("recv", "wait")
    => eventReadyToRead

\* ConnectionReported: isConnected() is true of every connection whose set-up
\* is over; a teardown that lags behind must not clear the flag of the next
\* connection.
ConnectionReported ==
  socketValid /\ pc["sig"] \notin SetupLabels => connected

\* isConnected() says so, the client is down, and no onDisconnect() is about to
\* clear the flag.
StaleFlag ==
  /\ connected /\ ~socketValid /\ ClientUp
  /\ \A t \in {"sig", "recv"} :
       pc[t] \notin {"close", "ifConnected", "clearConnected"}

\* FlagGoesStaleInSetup: the client comes to report a connection that it does not
\* have in two ways only: the peer leaves during the set-up, whose onDisconnect()
\* finds connected still false and is over when connected = true is reached (412),
\* or init() starts with the flag that deinit() has left.  Every connection whose
\* set-up is over is unreported by the onDisconnect() that closes it, whichever
\* threads run it, however late.
FlagGoesStaleInSetup ==
  [][~StaleFlag /\ StaleFlag'
       => At("sig", "setConnected") \/ At("app", "initSig")]_vars

\* NoBusyLoop: the signalling thread does not wait on an event that is set
\* while the socket is valid.  Only a reconnect resets the event, so that wait
\* would return at once for as long as the connection lasts.
NoBusyLoop ==
  socketValid /\ At("sig", "wait") /\ At("app", "running")
    => ~eventDisconnectedFromServer

\* SocketStaysClosed: once deinit() has closed the socket no thread opens it
\* again, because the signalling thread has exited by then.
SocketStaysClosed == [][~ClientUp => socket' = "closed"]_vars

\* DeadSocketNoticed: the end of a connection is always noticed.
DeadSocketNoticed == socket = "dead" ~> socket # "dead"

\* SilentPeerNoticed: with the ping check a connection whose peer has gone without
\* a word does not last: a ping goes out, nobody stops its timer, and the client
\* disconnects.
SilentPeerNoticed == socket = "silent" ~> socket # "silent"

\* Reconnects: without a connection the client connects again, however many
\* attempts fail and whatever the disconnect event has been through.
Reconnects == socket = "closed" ~> (socket # "closed" \/ ~At("app", "running"))

\* InputPacketAlive: the receive thread never reads into or decodes the packet
\* that RecvActivity::deinit deletes without taking recvPacketBuilderLock.
InputPacketAlive == pc["recv"] \in {"reading", "handling"} => pinputPacket = "owned"

\* RecvThreadReleased: deinit() never waits for a receive thread that waits
\* for an event nobody is left to set.
RecvThreadReleased ==
  At("app", "joinRecv") /\ At("recv", "wait") => eventReadyToRead
=============================================================================
