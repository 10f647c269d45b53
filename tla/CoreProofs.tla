----------------------------- MODULE CoreProofs -----------------------------
(***************************************************************************)
(* Proofs about HKClientCore: around its queue and send thread the client  *)
(* is what SendActivity expects, so that what is proved of SendActivity is *)
(* true of the client.  A step of HKClientCore is made of a step of        *)
(* Connection, whose guards are those of the code, and of the steps of     *)
(* SendActivity that it calls, whose guards on the socket, on the calls    *)
(* that are due and on deinit() are proved here.                           *)
(***************************************************************************)
EXTENDS HKClientCore, TLAPS

\* Every step of a thread of Connection is one that Connection has.
LEMMA AloneIsConnection ==
  ASSUME Alone
  PROVE  C!Sig \/ C!Recv \/ C!App \/ C!RecvPacket \/ C!RecvCrash
<1>1. CASE SigAlone
  BY <1>1 DEF SigAlone, C!Sig, C!SigOwn
<1>2. CASE RecvAlone
  BY <1>2 DEF RecvAlone, C!Recv, C!Teardown
<1>3. CASE AppAlone
  BY <1>3 DEF AppAlone, C!App
<1> QED
  BY <1>1, <1>2, <1>3 DEF Alone

LEMMA StepIsConnection == [Next]_vars => [C!Next]_(C!vars)
<1> SUFFICES ASSUME [Next]_vars PROVE C!Next \/ UNCHANGED C!vars
  OBVIOUS
<1> USE DEF C!vars, connVars
<1>1. CASE UNCHANGED vars
  BY <1>1 DEF vars
<1>2. CASE Alone /\ ~C!At("recv", "crashed")
  BY <1>2, AloneIsConnection DEF C!Next
<1>3. CASE /\ Connect \/ ClearQueue \/ SocketChange
           /\ ~C!At("recv", "crashed")
  BY <1>3 DEF Connect, ClearQueue, SocketChange, C!Next, C!Sig, C!SigOwn,
              C!Recv, C!Teardown
<1>4. CASE /\ AppDeinit \/ DeinitClose \/ DeinitSetExit \/ StopSend \/ Reinit
           /\ ~C!At("recv", "crashed")
  BY <1>4 DEF AppDeinit, DeinitClose, DeinitSetExit, StopSend, Reinit,
              C!Next, C!App
<1>5. CASE SetupPush \/ AppSend \/ AppExit \/ AppNotify \/ SendThread
  BY <1>5 DEF SetupPush, AppSend, AppExit, AppNotify, SendThread
<1>6. CASE (SetupNotify \/ Answer \/ AppLocalPing) /\ ~C!At("recv", "crashed")
  BY <1>6 DEF SetupNotify, Answer, AppLocalPing, C!Next, C!Sig, C!SigOwn,
              C!Recv, C!RecvOwn
<1> QED
  BY <1>1, <1>2, <1>3, <1>4, <1>5, <1>6 DEF Next

\* A thread that sends goes on in Connection with the notify of its sendOut(), and
\* what is proved of Connection is true of the client.
LEMMA ClientIsConnection == Spec => C!Spec
<1>1. Init => C!Init
  BY DEF Init
<1> QED
  BY <1>1, StepIsConnection, PTL DEF Spec, C!Spec

-----------------------------------------------------------------------------
(* What SendActivity asks of Connection *)

\* The labels of deinit() once the signalling thread has exited ...
AfterSig == {"closeSocket", "wakeRecv", "freeInput", "exitRecv", "joinRecv",
             "stopSend", "done", "initSend", "initSig"}
\* ... and of them those between client.close() and SendActivity::deinit.
AfterClose == {"wakeRecv", "freeInput", "exitRecv", "joinRecv"}

Pcs == /\ pc = [t \in C!Threads |-> pc[t]]
       /\ pc["app"] \in C!AppLabels

\* The client connects only a socket that it has seen closed.
ConnectsClosed == pc["sig"] \in {"ifJust", "sleep", "connect"} => socket = "closed"

\* deinit() goes on only when the thread that it has stopped is gone.
StoppedInOrder ==
  /\ pc["app"] \in AfterSig => pc["sig"] = "exited"
  /\ pc["app"] \in {"stopSend", "done"} => pc["recv"] = "exited"

\* deiniter is where deinit() is.
DeiniterFollows ==
  deiniter = CASE pc["app"] \in AfterClose -> "closed"
               [] pc["app"] = "stopSend" -> deiniter
               [] pc["app"] \in {"done", "initSend"} -> "done"
               [] OTHER -> "running"

CoreInv == Pcs /\ ConnectsClosed /\ StoppedInOrder /\ DeiniterFollows

LEMMA CoreInit == Init => CoreInv
<1> SUFFICES ASSUME Init PROVE CoreInv
  OBVIOUS
<1> USE DEF Init, C!Init, S!Init, C!Threads
<1>1. Pcs
  BY DEF Pcs, C!AppLabels
<1>2. ConnectsClosed /\ StoppedInOrder
  BY DEF ConnectsClosed, StoppedInOrder, AfterSig
<1>3. DeiniterFollows
  BY DEF DeiniterFollows, AfterClose
<1> QED
  BY <1>1, <1>2, <1>3 DEF CoreInv

LEMMA CoreSig ==
  ASSUME CoreInv, SigAlone, deiniter' = deiniter
  PROVE  CoreInv'
<1> USE DEF CoreInv, Pcs, SigAlone, C!SigLoop, C!SigCheck, C!SigIfJust,
            C!SigSleep, C!SigConnectFails, C!SigNotifyRecv, C!SigSetConnected,
            C!SigResetDisc, C!SigInitTimer, C!SigWait, C!Step, C!Goto, C!At,
            C!Threads
<1>1. Pcs'
  OBVIOUS
<1>2. ConnectsClosed'
  BY DEF ConnectsClosed, C!socketValid, C!AfterCheck
<1>3. StoppedInOrder'
  BY DEF StoppedInOrder
<1>4. DeiniterFollows'
  BY DEF DeiniterFollows
<1> QED
  BY <1>1, <1>2, <1>3, <1>4

LEMMA CoreRecv ==
  ASSUME CoreInv, RecvAlone, deiniter' = deiniter
  PROVE  CoreInv'
<1> USE DEF CoreInv, Pcs, RecvAlone, C!RecvOwn, C!RecvWait, C!RecvExitTest,
            C!RecvHandled, C!RecvReadFails, C!RecvFinalReset,
            C!RecvLoopTest, C!RecvPacket, C!RecvCrash, C!IfConnected,
            C!ClearConnected, C!SetJust,
            C!NotifyDisc, C!ResetReady, C!ClosedForData, C!Step, C!Goto, C!At,
            C!Threads
<1>1. Pcs'
  OBVIOUS
<1>2. ConnectsClosed'
  BY DEF ConnectsClosed
<1>3. StoppedInOrder'
  BY DEF StoppedInOrder
<1>4. DeiniterFollows'
  BY DEF DeiniterFollows
<1> QED
  BY <1>1, <1>2, <1>3, <1>4

LEMMA CoreApp ==
  ASSUME CoreInv, AppAlone, deiniter' = deiniter
  PROVE  CoreInv'
<1> USE DEF CoreInv, Pcs, AppAlone, C!AppInitReset, C!AppInitSig, C!AppStopSig,
            C!AppSigStopped, C!AppWakeRecv, C!AppFreeInput, C!AppExitRecv,
            C!AppJoinRecv, C!Step, C!Goto, C!At, C!Threads
<1>1. Pcs'
  BY DEF C!AppLabels
<1>2. ConnectsClosed'
  BY DEF ConnectsClosed
<1>3. StoppedInOrder'
  BY DEF StoppedInOrder, AfterSig
<1>4. DeiniterFollows'
  BY DEF DeiniterFollows, AfterClose
<1> QED
  BY <1>1, <1>2, <1>3, <1>4

LEMMA CoreSocket ==
  ASSUME CoreInv, Connect \/ ClearQueue \/ SocketChange
  PROVE  CoreInv'
<1> USE DEF CoreInv, Pcs, Connect, ClearQueue, SocketChange, sendVars,
            C!SigConnect, C!SigInitSendQ, C!ClearSendQ, C!PeerDrops, C!Close,
            C!ReadFails, C!Step, C!Goto, C!At, C!Threads
<1>1. Pcs'
  OBVIOUS
<1>2. ConnectsClosed'
  BY DEF ConnectsClosed
<1>3. StoppedInOrder'
  BY DEF StoppedInOrder
<1>4. DeiniterFollows'
  BY DEF DeiniterFollows
<1> QED
  BY <1>1, <1>2, <1>3, <1>4

LEMMA CoreDeinit ==
  ASSUME CoreInv,
         AppDeinit \/ DeinitClose \/ DeinitSetExit \/ StopSend \/ Reinit
  PROVE  CoreInv'
<1> USE DEF CoreInv, Pcs, AppDeinit, DeinitClose, DeinitSetExit, StopSend,
            Reinit, sendVars, connVars, C!AppDeinit, C!AppCloseSocket,
            C!AppStopSend, C!AppInitRecv, C!AppInitSend, C!ReadFails,
            S!DeinitNotify, S!DeinitJoin, S!DeinitClear, S!Reinit,
            C!Step, C!Goto, C!At, C!Threads
<1>1. Pcs'
  BY DEF C!AppLabels
<1>2. ConnectsClosed'
  BY DEF ConnectsClosed
<1>3. StoppedInOrder'
  BY DEF StoppedInOrder, AfterSig
<1>4. DeiniterFollows'
  BY DEF DeiniterFollows, AfterClose
<1> QED
  BY <1>1, <1>2, <1>3, <1>4

LEMMA CoreSend ==
  ASSUME CoreInv,
         \/ SetupPush \/ SetupNotify \/ Answer
         \/ AppSend \/ AppExit \/ AppLocalPing \/ AppNotify \/ SendThread
  PROVE  CoreInv'
<1>1. deiniter' = deiniter
  BY DEF SetupPush, SetupNotify, Answer, AppSend, AppExit, AppLocalPing,
         AppNotify, SendThread, S!Push, S!Notify, S!stopState, S!Sender, S!Wait,
         S!Reset, S!ExitTest, S!Write, S!More, S!LoopTest
<1>2. socket' = socket
  BY DEF SetupPush, SetupNotify, Answer, AppSend, AppExit, AppLocalPing,
         AppNotify, SendThread, C!SigSendInfo, C!SigSendGroup, C!SigSendPing,
         C!AppLocalPing, C!RecvHandled, C!Step
<1>3. CASE pc' = pc
  BY <1>1, <1>2, <1>3 DEF CoreInv, Pcs, ConnectsClosed, StoppedInOrder,
                          DeiniterFollows
<1>4. CASE C!SigSendInfo \/ C!SigSendGroup \/ C!SigSendPing \/ C!RecvHandled
  <2> USE DEF CoreInv, Pcs, C!SigSendInfo, C!SigSendGroup, C!SigSendPing,
              C!RecvHandled, C!Step, C!Goto, C!At, C!Threads
  <2>1. Pcs'
    BY <1>4
  <2>2. ConnectsClosed' /\ StoppedInOrder'
    BY <1>4 DEF ConnectsClosed, StoppedInOrder
  <2>3. DeiniterFollows'
    BY <1>1, <1>4 DEF DeiniterFollows
  <2> QED
    BY <2>1, <2>2, <2>3
<1> QED
  BY <1>3, <1>4 DEF SetupPush, SetupNotify, Answer, AppSend, AppExit,
                    AppLocalPing, AppNotify, SendThread, connVars,
                    C!AppLocalPing

LEMMA CoreStep == ASSUME CoreInv, [Next]_vars PROVE CoreInv'
<1>1. CASE UNCHANGED vars
  BY <1>1 DEF vars, connVars, sendVars, CoreInv, Pcs, ConnectsClosed,
              StoppedInOrder, DeiniterFollows
<1>2. CASE Alone
  BY <1>2, CoreSig, CoreRecv, CoreApp DEF Alone, sendVars
<1> QED
  BY <1>1, <1>2, CoreSocket, CoreDeinit, CoreSend DEF Next

-----------------------------------------------------------------------------
(* Every step is one that SendActivity has *)

LEMMA AloneIsSendActivity ==
  ASSUME CoreInv, Alone
  PROVE  UNCHANGED S!vars
<1>1. CASE SigAlone
  <2> USE DEF CoreInv, Pcs, SigAlone, C!SigLoop, C!SigCheck, C!SigIfJust,
              C!SigSleep, C!SigConnectFails, C!SigNotifyRecv, C!AfterCheck,
              C!SigSetConnected, C!SigResetDisc, C!SigInitTimer, C!SigWait,
              C!Step, C!Goto, C!At, C!Threads
  <2>1. due' = due
    BY <1>1 DEF due
  <2>2. socket' = socket
    BY <1>1
  <2> QED
    BY <2>1, <2>2 DEF Alone, sendVars, S!vars, S!senderState, S!callerState,
                      S!stopState
<1>2. CASE RecvAlone
  <2> USE DEF CoreInv, Pcs, RecvAlone, C!RecvOwn, C!RecvWait, C!RecvExitTest,
              C!RecvHandled, C!RecvReadFails, C!RecvFinalReset,
              C!RecvLoopTest, C!RecvPacket, C!RecvCrash, C!IfConnected,
              C!ClearConnected, C!SetJust,
              C!NotifyDisc, C!ResetReady, C!ClosedForData, C!Step, C!Goto,
              C!At, C!Threads
  <2>1. due' = due
    BY <1>2 DEF due, C!TeardownLabels
  <2>2. socket' = socket
    BY <1>2
  <2> QED
    BY <2>1, <2>2 DEF Alone, sendVars, S!vars, S!senderState, S!callerState,
                      S!stopState
<1>3. CASE AppAlone
  <2> USE DEF CoreInv, Pcs, AppAlone, C!AppInitReset, C!AppInitSig,
              C!AppStopSig, C!AppSigStopped, C!AppWakeRecv, C!AppFreeInput,
              C!AppExitRecv, C!AppJoinRecv, C!Step, C!Goto, C!At, C!Threads
  <2>1. due' = due
    BY <1>3 DEF due, StoppedInOrder, AfterSig
  <2>2. socket' = socket
    BY <1>3
  <2> QED
    BY <2>1, <2>2 DEF Alone, sendVars, S!vars, S!senderState, S!callerState,
                      S!stopState
<1> QED
  BY <1>1, <1>2, <1>3 DEF Alone

LEMMA SocketIsSendActivity ==
  ASSUME CoreInv, Connect \/ ClearQueue \/ SocketChange
  PROVE  S!Client
<1> USE DEF CoreInv, Pcs, sendVars, C!Step, C!Goto, C!At, C!Threads,
            S!callerState, S!stopState, S!senderState, C!TeardownLabels
<1>1. CASE Connect
  <2>1. socket = "closed" /\ deiniter = "running"
    BY <1>1 DEF Connect, C!SigConnect, ConnectsClosed, StoppedInOrder,
                DeiniterFollows, AfterSig, AfterClose
  <2>2. /\ "onConnect" \notin due
        /\ ConnectOutlastsTeardown => "onDisconnect" \notin due
        /\ due' = due \cup {"onConnect"}
    BY <1>1 DEF Connect, C!SigConnect, C!RecvInTeardown, due
  <2> QED
    BY <1>1, <2>1, <2>2 DEF Connect, C!SigConnect, S!Client, S!Connect
<1>2. CASE ClearQueue /\ C!SigInitSendQ
  <2>1. "onConnect" \in due /\ due' = due \ {"onConnect"}
    BY <1>2 DEF C!SigInitSendQ, due
  <2> QED
    BY <1>2, <2>1 DEF ClearQueue, C!SigInitSendQ, C!ClearSendQ, S!Client,
                      S!OnConnect, S!Clear
<1>3. CASE ClearQueue /\ C!ClearSendQ("recv")
  <2>1. "onDisconnect" \in due /\ due' = due \ {"onDisconnect"}
    BY <1>3 DEF C!ClearSendQ, due
  <2> QED
    BY <1>3, <2>1 DEF ClearQueue, C!SigInitSendQ, C!ClearSendQ, S!Client,
                      S!OnDisconnect, S!Clear
<1>4. CASE SocketChange /\ C!PeerDrops
  BY <1>4 DEF SocketChange, C!PeerDrops, due, S!Client, S!PeerDrops
<1>5. CASE SocketChange /\ C!Close("recv")
  <2>1. due' = due \cup {"onDisconnect"}
    BY <1>5 DEF C!Close, C!ReadFails, due
  <2> QED
    BY <1>5, <2>1 DEF SocketChange, C!Close, S!Client, S!CloseSocket
<1> QED
  BY <1>1, <1>2, <1>3, <1>4, <1>5 DEF ClearQueue, SocketChange

LEMMA DeinitIsSendActivity ==
  ASSUME CoreInv,
         AppDeinit \/ DeinitClose \/ DeinitSetExit \/ StopSend \/ Reinit
  PROVE  [S!Next]_(S!vars)
<1> USE DEF CoreInv, Pcs, sendVars, connVars, C!Step, C!Goto, C!At, C!Threads,
            S!vars, S!callerState, S!stopState, S!senderState
<1>1. CASE AppDeinit
  BY <1>1 DEF AppDeinit, C!AppDeinit, due
<1>2. CASE DeinitClose
  <2>1. deiniter = "running" /\ "onConnect" \notin due /\ due' = due
    BY <1>2 DEF DeinitClose, C!AppCloseSocket, C!ReadFails, due, StoppedInOrder,
                DeiniterFollows, AfterSig, AfterClose, C!TeardownLabels
  <2> QED
    BY <1>2, <2>1 DEF DeinitClose, C!AppCloseSocket, S!Next, S!DeinitClose
<1>3. CASE DeinitSetExit
  <2>1. due = {} /\ due' = due
    BY <1>3 DEF DeinitSetExit, due, StoppedInOrder, AfterSig, C!TeardownLabels
  <2> QED
    BY <1>3, <2>1 DEF DeinitSetExit, S!Next, S!Deinit, S!DeinitSetExit
<1>4. CASE StopSend
  BY <1>4 DEF StopSend, C!AppStopSend, due, S!Next, S!Deinit
<1>5. CASE Reinit
  <2>1. CASE C!AppInitRecv /\ UNCHANGED sendVars
    BY <2>1 DEF C!AppInitRecv, due, StoppedInOrder, C!TeardownLabels
  <2> QED
    BY <1>5, <2>1 DEF Reinit, S!Next
<1> QED
  BY <1>1, <1>2, <1>3, <1>4, <1>5

LEMMA StepIsSendActivity == ASSUME CoreInv, [Next]_vars PROVE [S!Next]_(S!vars)
<1>1. CASE UNCHANGED vars
  BY <1>1 DEF vars, connVars, sendVars, due, S!vars, S!senderState,
              S!callerState, S!stopState
<1>2. CASE SetupPush \/ SetupNotify \/ Answer
  BY <1>2, HKClientCoreAssumption DEF SetupPush, SetupNotify, Answer, S!Next
<1>3. CASE AppSend \/ AppExit \/ AppLocalPing \/ AppNotify
  BY <1>3 DEF AppSend, AppExit, AppLocalPing, AppNotify, S!Next
<1>4. CASE SendThread
  BY <1>4 DEF SendThread, S!Next
<1> QED
  BY <1>1, <1>2, <1>3, <1>4, AloneIsSendActivity, SocketIsSendActivity,
     DeinitIsSendActivity DEF Next, S!Next

LEMMA InitIsSendActivity == Init => S!Init
BY DEF Init, C!Init, S!Init, due, C!Threads, C!TeardownLabels

\* ImplementsSendActivity: the client around the queue and the send thread does to
\* them only what SendActivity expects: no connection is made while an
\* onDisconnect() is due, none after deinit() has closed the socket, and no
\* callback comes after the send thread was stopped.
THEOREM ImplementsSendActivity == Spec => IsSendActivity
<1>1. Init => S!Init
  BY InitIsSendActivity
<1>2. CoreInv /\ [Next]_vars => CoreInv'
  BY CoreStep
<1>3. CoreInv /\ [Next]_vars => [S!Next]_(S!vars)
  BY StepIsSendActivity
<1> QED
  BY <1>1, <1>2, <1>3, CoreInit, PTL DEF Spec, IsSendActivity, S!Spec
=============================================================================
