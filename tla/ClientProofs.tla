----------------------------- MODULE ClientProofs -----------------------------
(***************************************************************************)
(* The client has what its parts have: the theorems of ConnectionProofs    *)
(* and SendActivityProofs, of HKClientCore.  ClientIsConnection and        *)
(* ImplementsSendActivity (CoreProofs) say that it behaves like either;    *)
(* what is left is that the modules of the theorems speak of the same      *)
(* steps.                                                                  *)
(***************************************************************************)
EXTENDS CoreQueueProofs

CP == INSTANCE ConnectionProofs WITH PingCheck <- FALSE

LEMMA ClientAssumption == CP!ConnectionAssumption
BY HKClientCoreAssumption DEF CP!ConnectionAssumption

-----------------------------------------------------------------------------
(* The steps of Connection *)

LEMMA SameVars == C!vars = CP!vars /\ C!vars' = CP!vars'
BY DEF C!vars, CP!vars

LEMMA SameConnectionInit == C!Init <=> CP!Init
BY DEF C!Init, CP!Init, C!Threads, CP!Threads

LEMMA SameSig == C!SigOwn => CP!SigOwn
<1> USE DEF C!Step, CP!Step, C!Goto, CP!Goto, C!At, CP!At, C!flags, CP!flags,
            C!events, CP!events, C!shutdown, CP!shutdown, C!AfterCheck,
            CP!AfterCheck, C!TimerStarted, CP!TimerStarted
<1>1. C!SigLoop \/ C!SigCheck \/ C!SigIfJust \/ C!SigSleep
        => CP!SigLoop \/ CP!SigCheck \/ CP!SigIfJust \/ CP!SigSleep
  BY DEF C!SigLoop, CP!SigLoop, C!SigCheck, CP!SigCheck, C!SigIfJust,
         CP!SigIfJust, C!SigSleep, CP!SigSleep, C!socketValid, CP!socketValid,
         C!RecvInTeardown, CP!RecvInTeardown, C!TeardownLabels,
         CP!TeardownLabels
<1>2. C!SigConnect \/ C!SigConnectFails \/ C!SigNotifyRecv \/ C!SigInitSendQ
        => CP!SigConnect \/ CP!SigConnectFails \/ CP!SigNotifyRecv
           \/ CP!SigInitSendQ
  BY DEF C!SigConnect, CP!SigConnect, C!SigConnectFails, CP!SigConnectFails,
         C!SigNotifyRecv, CP!SigNotifyRecv, C!SigInitSendQ, CP!SigInitSendQ,
         C!RecvInTeardown, CP!RecvInTeardown, C!TeardownLabels,
         CP!TeardownLabels
<1>3. C!SigSendInfo \/ C!SigSendGroup \/ C!SigSendPing \/ C!SigSetConnected
        => CP!SigSendInfo \/ CP!SigSendGroup \/ CP!SigSendPing
           \/ CP!SigSetConnected
  BY DEF C!SigSendInfo, CP!SigSendInfo, C!SigSendGroup, CP!SigSendGroup,
         C!SigSendPing, CP!SigSendPing, C!SigSetConnected, CP!SigSetConnected
<1>4. C!SigResetDisc \/ C!SigInitTimer \/ C!SigWait
        => CP!SigResetDisc \/ CP!SigInitTimer \/ CP!SigWait
  BY DEF C!SigResetDisc, CP!SigResetDisc, C!SigInitTimer, CP!SigInitTimer,
         C!SigWait, CP!SigWait
<1>5. C!SigPingElapsed \/ C!SigPingNotElapsed \/ C!SigLocalPing
        => CP!SigPingElapsed \/ CP!SigPingNotElapsed \/ CP!SigLocalPing
  BY DEF C!SigPingElapsed, CP!SigPingElapsed, C!SigPingNotElapsed,
         CP!SigPingNotElapsed, C!SigLocalPing, CP!SigLocalPing
<1> QED
  BY <1>1, <1>2, <1>3, <1>4, <1>5 DEF C!SigOwn, CP!SigOwn

LEMMA SameTeardown == ASSUME NEW t PROVE C!Teardown(t) => CP!Teardown(t)
<1> USE DEF C!Step, CP!Step, C!Goto, CP!Goto, C!At, CP!At, C!flags, CP!flags,
            C!events, CP!events, C!shutdown, CP!shutdown
<1>1. C!Close(t) \/ C!IfConnected(t) \/ C!ClearConnected(t) \/ C!SetJust(t)
        => CP!Close(t) \/ CP!IfConnected(t) \/ CP!ClearConnected(t)
           \/ CP!SetJust(t)
  BY DEF C!Close, CP!Close, C!ReadFails, CP!ReadFails, C!IfConnected,
         CP!IfConnected, C!ClearConnected, CP!ClearConnected, C!SetJust,
         CP!SetJust
<1>2. C!NotifyDisc(t) \/ C!ResetReady(t) \/ C!ClearSendQ(t)
        \/ C!ClosedForData(t)
        => CP!NotifyDisc(t) \/ CP!ResetReady(t) \/ CP!ClearSendQ(t)
           \/ CP!ClosedForData(t)
  BY DEF C!NotifyDisc, CP!NotifyDisc, C!ResetReady, CP!ResetReady,
         C!ClearSendQ, CP!ClearSendQ, C!ClosedForData, CP!ClosedForData
<1> QED
  BY <1>1, <1>2 DEF C!Teardown, CP!Teardown

LEMMA SameRecv ==
  C!RecvOwn \/ C!RecvPacket \/ C!RecvCrash \/ C!PeerDrops \/ C!PeerFallsSilent
    => \/ CP!RecvOwn \/ CP!RecvPacket \/ CP!RecvCrash
       \/ CP!PeerDrops \/ CP!PeerFallsSilent
<1> USE DEF C!Step, CP!Step, C!Goto, CP!Goto, C!At, CP!At, C!flags, CP!flags,
            C!events, CP!events, C!shutdown, CP!shutdown
<1>1. C!RecvOwn => CP!RecvOwn
  BY DEF C!RecvOwn, CP!RecvOwn, C!RecvWait, CP!RecvWait, C!RecvExitTest,
         CP!RecvExitTest, C!RecvHandled, CP!RecvHandled, C!RecvReadFails,
         CP!RecvReadFails, C!RecvFinalReset,
         CP!RecvFinalReset, C!RecvLoopTest, CP!RecvLoopTest
<1>2. C!RecvPacket \/ C!RecvCrash \/ C!PeerDrops \/ C!PeerFallsSilent
        => CP!RecvPacket \/ CP!RecvCrash \/ CP!PeerDrops \/ CP!PeerFallsSilent
  BY DEF C!RecvPacket, CP!RecvPacket, C!RecvCrash, CP!RecvCrash, C!PeerDrops,
         CP!PeerDrops, C!PeerFallsSilent, CP!PeerFallsSilent
<1> QED
  BY <1>1, <1>2

LEMMA SameApp ==
  C!App \/ C!AppLocalPing \/ C!AppDeinit \/ C!AppInitRecv
    => CP!App \/ CP!AppLocalPing \/ CP!AppDeinit \/ CP!AppInitRecv
<1> USE DEF C!Step, CP!Step, C!Goto, CP!Goto, C!At, CP!At, C!flags, CP!flags,
            C!events, CP!events, C!shutdown, CP!shutdown
<1>1. C!AppInitReset \/ C!AppStopSig \/ C!AppSigStopped \/ C!AppCloseSocket
        => CP!AppInitReset \/ CP!AppStopSig \/ CP!AppSigStopped
           \/ CP!AppCloseSocket
  BY DEF C!AppInitReset, CP!AppInitReset, C!AppStopSig, CP!AppStopSig,
         C!AppSigStopped, CP!AppSigStopped, C!AppCloseSocket,
         CP!AppCloseSocket, C!ReadFails, CP!ReadFails
<1>2. C!AppWakeRecv \/ C!AppFreeInput \/ C!AppExitRecv \/ C!AppJoinRecv
        => CP!AppWakeRecv \/ CP!AppFreeInput \/ CP!AppExitRecv
           \/ CP!AppJoinRecv
  BY DEF C!AppWakeRecv, CP!AppWakeRecv, C!AppFreeInput, CP!AppFreeInput,
         C!AppExitRecv, CP!AppExitRecv, C!AppJoinRecv, CP!AppJoinRecv
<1>3. C!AppStopSend \/ C!AppInitSend \/ C!AppInitSig
        => CP!AppStopSend \/ CP!AppInitSend \/ CP!AppInitSig
  BY DEF C!AppStopSend, CP!AppStopSend, C!AppInitSend, CP!AppInitSend,
         C!AppInitSig, CP!AppInitSig
<1>4. C!AppLocalPing \/ C!AppDeinit \/ C!AppInitRecv
        => CP!AppLocalPing \/ CP!AppDeinit \/ CP!AppInitRecv
  BY DEF C!AppLocalPing, CP!AppLocalPing, C!TimerStarted, CP!TimerStarted,
         C!AppDeinit, CP!AppDeinit, C!AppInitRecv, CP!AppInitRecv
<1> QED
  BY <1>1, <1>2, <1>3, <1>4 DEF C!App, CP!App

LEMMA IsConnectionOfProofs == C!Spec => CP!Spec
<1>1. [C!Next]_(C!vars) => [CP!Next]_(CP!vars)
  BY SameVars, SameSig, SameTeardown, SameRecv, SameApp
     DEF C!Next, CP!Next, C!Sig, CP!Sig, C!Recv, CP!Recv, C!At, CP!At
<1> QED
  BY <1>1, SameConnectionInit, PTL DEF C!Spec, CP!Spec

-----------------------------------------------------------------------------
(* The theorems *)

\* ConnectionsAreServed: the composed client reads from every connection it has
\* and reports it, and its signalling thread does not spin beside one.
THEOREM ConnectionsAreServed ==
  ASSUME ConnectOutlastsTeardown
  PROVE  Spec => [](C!NoDeafConnection /\ C!ConnectionReported /\ C!NoBusyLoop)
<1>1. Spec => CP!Spec
  BY ClientIsConnection, IsConnectionOfProofs
<1>2. /\ CP!Spec => []CP!NoDeafConnection
      /\ CP!Spec => []CP!ConnectionReported
      /\ CP!Spec => []CP!NoBusyLoop
  BY ClientAssumption, CP!NeverDeaf, CP!AlwaysReported, CP!NeverBusy
<1>3. CP!NoDeafConnection /\ CP!ConnectionReported /\ CP!NoBusyLoop
        => C!NoDeafConnection /\ C!ConnectionReported /\ C!NoBusyLoop
  BY DEF C!NoDeafConnection, CP!NoDeafConnection, C!ConnectionReported,
         CP!ConnectionReported, C!NoBusyLoop, CP!NoBusyLoop, C!socketValid,
         CP!socketValid, C!At, CP!At, C!SetupLabels, CP!SetupLabels
<1> QED
  BY <1>1, <1>2, <1>3, PTL

\* DeinitClosesForGood: no thread of the composed client opens a socket between
\* the client.close() of deinit() and the next init().
THEOREM DeinitClosesForGood == Spec => C!SocketStaysClosed
<1>1. Spec => CP!Spec
  BY ClientIsConnection, IsConnectionOfProofs
<1>2. CP!Spec => CP!SocketStaysClosed
  BY ClientAssumption, CP!DownForGood
<1>3. [~CP!ClientUp => socket' = "closed"]_(CP!vars)
        => [~C!ClientUp => socket' = "closed"]_(C!vars)
  BY SameVars DEF C!ClientUp, CP!ClientUp
<1> QED
  BY <1>1, <1>2, <1>3, PTL DEF C!SocketStaysClosed, CP!SocketStaysClosed

\* FlagGoesStaleOnlyInSetup: isConnected() of the composed client outlives the
\* connection only as StaleOnlyFromSetup says, with no assumption on the timing.
THEOREM FlagGoesStaleOnlyInSetup == Spec => C!FlagGoesStaleInSetup
<1>1. Spec => CP!Spec
  BY ClientIsConnection, IsConnectionOfProofs
<1>2. CP!Spec => CP!FlagGoesStaleInSetup
  BY ClientAssumption, CP!StaleOnlyFromSetup
<1>3. C!StaleFlag = CP!StaleFlag /\ C!StaleFlag' = CP!StaleFlag'
  BY DEF C!StaleFlag, CP!StaleFlag, C!socketValid, CP!socketValid, C!ClientUp,
         CP!ClientUp
<1>4. [~CP!StaleFlag /\ CP!StaleFlag'
         => CP!At("sig", "setConnected") \/ CP!At("app", "initSig")]_(CP!vars)
        => [~C!StaleFlag /\ C!StaleFlag'
              => C!At("sig", "setConnected") \/ C!At("app", "initSig")]_(C!vars)
  BY <1>3, SameVars DEF C!At, CP!At
<1> QED
  BY <1>1, <1>2, <1>4, PTL DEF C!FlagGoesStaleInSetup, CP!FlagGoesStaleInSetup

LEMMA IsSendActivityOfProofs == Spec => SP!Spec
<1>1. CoreInv /\ [Next]_vars => CoreInv'
  BY CoreStep
<1>2. CoreInv /\ [Next]_vars => [SP!Next]_(SP!vars)
  BY SameStep
<1>3. Init => SP!Init
  BY SameInit, InitIsSendActivity
<1> QED
  BY <1>1, <1>2, <1>3, CoreInit, PTL DEF Spec, SP!Spec

\* NoMessageIsForgotten: the send thread of the composed client never sleeps on a
\* message that no thread is about to announce.
THEOREM NoMessageIsForgotten == Spec => []S!NoLostWakeup
<1>1. SP!Spec => []SP!NoLostWakeup
  BY QueueAssumption, SP!NeverForgotten
<1>2. SP!NoLostWakeup => S!NoLostWakeup
  BY DEF S!NoLostWakeup, SP!NoLostWakeup
<1> QED
  BY <1>1, <1>2, IsSendActivityOfProofs, PTL

\* MessagesStayInOrder: whatever its threads send, what a connection of the
\* composed client carries after its onConnect() is in the order in which
\* sendOut() took it, and nothing of it is sent twice; so is what went before.
THEOREM MessagesStayInOrder ==
  ASSUME ConnectOutlastsTeardown
  PROVE  Spec => []S!WireIsFramed
<1>1. SP!Spec => []SP!WireIsFramed
  BY QueueAssumption, SP!FramedWire
<1>2. SP!WireIsFramed => S!WireIsFramed
  BY DEF S!WireIsFramed, SP!WireIsFramed, S!Framed, SP!Framed
<1> QED
  BY <1>1, <1>2, IsSendActivityOfProofs, PTL
=============================================================================
