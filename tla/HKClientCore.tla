---------------------------- MODULE HKClientCore ----------------------------
(***************************************************************************)
(* The client as one system: Connection (signalling, receive and           *)
(* application threads) and SendActivity (the send thread and its queue),  *)
(* which share the socket and call each other (hkClient.cpp).              *)
(*                                                                         *)
(* A step of Connection that reaches into SendActivity is joined with the  *)
(* step of SendActivity it makes: tcpConnect() and client.close() change   *)
(* the socket under the send thread, onConnect() and onDisconnect() clear  *)
(* its queue, and the set-up messages, the answers of the receive thread   *)
(* and the application's messages go through sendOut(), whose push and     *)
(* notify are separate steps of the calling thread.                        *)
(*                                                                         *)
(* The application is the Linux shell: any number of the commands that     *)
(* send, then "q" (deinit) or "x" (send EXIT, sleep, deinit).              *)
(* The build is the default one, without ENABLE_PING_CONNECT_CHECK.        *)
(***************************************************************************)
EXTENDS Naturals, Sequences, SequencesExt

CONSTANTS
  MaxMessages,  \* bound: messages handed to sendOut() in a behaviour
  Callers,      \* the threads that send: "sig", and "recv" or "app"
  MayDeinit, MayReinit,
  SleepOutlastsTeardown, ConnectOutlastsTeardown,
  PartialSends,
  ExitOutlastsSend  \* the send thread is done when usleep(100000) ends

ASSUME HKClientCoreAssumption ==
  /\ Callers \subseteq {"sig", "recv", "app"}
  /\ "sig" \in Callers
  /\ MaxMessages \in Nat
  /\ {MayDeinit, MayReinit, SleepOutlastsTeardown, ConnectOutlastsTeardown,
      PartialSends, ExitOutlastsSend} \subseteq BOOLEAN

VARIABLES
  socket, connected, justDisconnected, eventDisconnectedFromServer,
  eventReadyToRead, localPingAckTimer, shouldExit, pinputPacket, pc,
  outPacketQ, writePacketBuilder, eventPacketsAvailableToSend, numOutputMsgs,
  calling, wire, early, sendShouldExit, sender, deiniter,
  setup,   \* history: the set-up messages sent on the connection, while it lives
  exitMsg  \* the shell's EXIT, 0 before it is sent

C == INSTANCE Connection WITH PingCheck <- FALSE

\* The calls of SendActivity that a thread of Connection is on its way to.
due ==
  (IF pc["sig"] \in {"notifyRecv", "initSendQ"} THEN {"onConnect"} ELSE {})
  \cup
  (IF pc["recv"] \in C!TeardownLabels \ {"close", "closedForData"}
   THEN {"onDisconnect"} ELSE {})

S == INSTANCE SendActivity WITH
       shouldExit <- sendShouldExit, MessageLength <- 1

connVars == <<connected, justDisconnected, eventDisconnectedFromServer,
              eventReadyToRead, localPingAckTimer, shouldExit, pinputPacket,
              pc>>
sendVars == <<outPacketQ, writePacketBuilder, eventPacketsAvailableToSend,
              numOutputMsgs, calling, wire, early, sendShouldExit, sender,
              deiniter>>
vars == <<socket, connVars, sendVars, setup, exitMsg>>

Init == C!Init /\ S!Init /\ setup = <<>> /\ exitMsg = 0

-----------------------------------------------------------------------------
(* Steps of Connection that leave SendActivity alone *)

SigAlone ==
  \/ C!SigLoop \/ C!SigCheck \/ C!SigIfJust \/ C!SigSleep
  \/ C!SigConnectFails \/ C!SigNotifyRecv \/ C!SigSetConnected
  \/ C!SigResetDisc \/ C!SigInitTimer \/ C!SigWait

RecvAlone ==
  /\ "recv" \notin calling
  /\ \/ C!RecvOwn \/ C!RecvPacket \/ C!RecvCrash
     \/ C!IfConnected("recv") \/ C!ClearConnected("recv")
     \/ C!SetJust("recv") \/ C!NotifyDisc("recv") \/ C!ResetReady("recv")
     \/ C!ClosedForData("recv")

AppAlone ==
  /\ "app" \notin calling
  /\ \/ C!AppInitReset \/ C!AppInitSig \/ C!AppStopSig \/ C!AppSigStopped
     \/ C!AppWakeRecv \/ C!AppFreeInput \/ C!AppExitRecv \/ C!AppJoinRecv

Alone ==
  /\ SigAlone \/ RecvAlone \/ AppAlone
  /\ UNCHANGED <<sendVars, setup, exitMsg>>

-----------------------------------------------------------------------------
(* Steps that both make.  What SendActivity requires of them is not asked for  *)
(* here: IsSendActivity checks that Connection guarantees it.                  *)

Connect ==
  /\ C!SigConnect
  /\ wire' = <<>>
  /\ early' = 0
  /\ setup' = <<>>
  /\ UNCHANGED <<outPacketQ, writePacketBuilder, eventPacketsAvailableToSend,
                 numOutputMsgs, calling, sendShouldExit, sender, deiniter,
                 exitMsg>>

\* onConnect() and onDisconnect(), of SendActivity.
ClearQueue ==
  /\ \/ C!SigInitSendQ /\ early' = Len(wire)
     \/ C!ClearSendQ("recv") /\ early' = early
  /\ S!Clear
  /\ UNCHANGED <<eventPacketsAvailableToSend, numOutputMsgs, calling,
                 sendShouldExit, sender, deiniter, setup, exitMsg>>

\* The socket changes under the send thread.
SocketChange ==
  /\ C!PeerDrops \/ ("recv" \notin calling /\ C!Close("recv"))
  /\ setup' = <<>>
  /\ UNCHANGED <<sendVars, exitMsg>>

\* HKClientCore::deinit, which main() calls when doShell() is over: at once for
\* "q", after a sleep for "x".
AppDeinit ==
  /\ "app" \notin calling
  /\ exitMsg # 0 /\ socket = "open" /\ ExitOutlastsSend
       => sender = "wait" /\ ~eventPacketsAvailableToSend
  /\ C!AppDeinit
  /\ UNCHANGED <<sendVars, setup, exitMsg>>

DeinitClose ==
  /\ C!AppCloseSocket
  /\ deiniter' = "closed"
  /\ UNCHANGED <<outPacketQ, writePacketBuilder, eventPacketsAvailableToSend,
                 numOutputMsgs, calling, wire, early, sendShouldExit, sender,
                 setup, exitMsg>>

DeinitSetExit ==
  /\ pc["app"] = "stopSend"
  /\ deiniter = "closed"
  /\ deiniter' = "notify"
  /\ sendShouldExit' = TRUE
  /\ UNCHANGED <<socket, connVars, outPacketQ, writePacketBuilder, numOutputMsgs,
                 eventPacketsAvailableToSend, calling, wire, early, sender,
                 setup, exitMsg>>

StopSend ==
  /\ pc["app"] = "stopSend"
  /\ UNCHANGED <<setup, exitMsg>>
  /\ \/ /\ UNCHANGED <<socket, connVars>>
        /\ S!DeinitNotify \/ S!DeinitJoin \/ S!DeinitClear
     \/ deiniter = "done" /\ C!AppStopSend /\ UNCHANGED sendVars

\* HKClientCore::init again
Reinit ==
  /\ \/ C!AppInitRecv /\ UNCHANGED sendVars
     \/ C!AppInitSend /\ S!Reinit
  /\ exitMsg' = 0
  /\ UNCHANGED setup

-----------------------------------------------------------------------------
(* sendOut(): a push, and then a notify with which the caller goes on *)

\* A message of setupConnection().
SetupPush ==
  /\ pc["sig"] \in {"sendInfo", "sendGroup", "sendPing"}
  /\ UNCHANGED <<socket, connVars, exitMsg>>
  /\ S!Push("sig")
  /\ setup' = IF socket = "open" THEN Append(setup, numOutputMsgs') ELSE <<>>

SetupNotify ==
  /\ C!SigSendInfo \/ C!SigSendGroup \/ C!SigSendPing
  /\ S!Notify("sig")
  /\ UNCHANGED <<setup, exitMsg>>

\* What the receive thread has read is answered, if it is a REMOTEPING or
\* ECHODATA, whatever has become of the socket since the read.
Answer ==
  /\ "recv" \in Callers
  /\ UNCHANGED <<setup, exitMsg>>
  /\ \/ /\ pc["recv"] = "handling"
        /\ UNCHANGED <<socket, connVars>>
        /\ S!Push("recv")
     \/ C!RecvHandled /\ S!Notify("recv")

\* The commands p, s, c, r, e and l of the shell, and any other call that sends:
\* nothing keeps an application from sending when the client is not connected.
AppSend ==
  /\ "app" \in Callers
  /\ C!At("app", "running")
  /\ exitMsg = 0
  /\ UNCHANGED <<socket, connVars, setup, exitMsg>>
  /\ S!Push("app")

\* The command x
AppExit ==
  /\ "app" \in Callers
  /\ C!At("app", "running")
  /\ exitMsg = 0
  /\ UNCHANGED <<socket, connVars, setup>>
  /\ S!Push("app")
  /\ exitMsg' = numOutputMsgs'

AppLocalPing ==
  /\ "app" \in Callers
  /\ exitMsg = 0
  /\ C!AppLocalPing
  /\ S!Push("app")
  /\ UNCHANGED <<setup, exitMsg>>

AppNotify ==
  /\ "app" \in Callers
  /\ UNCHANGED <<socket, connVars, setup, exitMsg>>
  /\ S!Notify("app")

-----------------------------------------------------------------------------
SendThread == UNCHANGED <<socket, connVars, setup, exitMsg>> /\ S!Sender

Next ==
  /\ ~C!At("recv", "crashed")
  /\ \/ Alone
     \/ Connect \/ ClearQueue \/ SocketChange
     \/ AppDeinit \/ DeinitClose \/ DeinitSetExit \/ StopSend \/ Reinit
     \/ SetupPush \/ SetupNotify \/ Answer
     \/ AppSend \/ AppExit \/ AppLocalPing \/ AppNotify
     \/ SendThread

Spec == Init /\ [][Next]_vars

-----------------------------------------------------------------------------
(* Properties *)

\* IsSendActivity: Connection uses SendActivity as SendActivity expects: there
\* is no new connection while an onDisconnect() is due, none after deinit() has
\* closed the socket, and no callback after the send thread was stopped.
IsSendActivity == S!Spec

\* The messages on the wire of the present connection or still to be written.
Sent == wire \o S!Unwritten

\* SetupSurvives: a connection that is set up has its CONNECTIONINFO,
\* CREATEGROUP and LOCALPING on the wire or in the queue, each once and in this
\* order, whatever the other threads send meanwhile: its own onConnect() does not
\* wipe them.
SetupSurvives ==
  connected /\ socket = "open" /\ pc["sig"] \notin C!SetupLabels
    => /\ Len(setup) = 3
       /\ \E place \in [1..3 -> 1..Len(Sent)] :
            /\ place[1] < place[2] /\ place[2] < place[3]
            /\ \A i \in 1..3, j \in 1..Len(Sent) :
                 Sent[j] = setup[i] <=> j = place[i]

\* ExitSent: the EXIT of the shell's "x" is on the wire when deinit() closes the
\* socket, if it was sent on this connection (after its CONNECTIONINFO) and the
\* connection is still alive.
ExitSent ==
  [][C!AppCloseSocket /\ socket = "open" /\ setup # <<>> /\ exitMsg > setup[1]
       => exitMsg \in ToSet(wire)]_vars
=============================================================================
