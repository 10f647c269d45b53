-------------------------- MODULE ConnectionProofs --------------------------
(***************************************************************************)
(* Theorems about Connection, for every value of its constants.            *)
(*                                                                         *)
(* The typing invariant comes first.  The safety properties of a           *)
(* connection then follow from one fact about onDisconnect(), which two    *)
(* threads run: past client.close() the socket stays closed until the      *)
(* teardown is over.  It needs the assumption that a successful attempt to *)
(* connect outlasts a teardown; TLC shows what happens without it.  What   *)
(* deinit() closes, and when connected outlives its socket, need none.     *)
(***************************************************************************)
EXTENDS Connection, TLAPS

-----------------------------------------------------------------------------
(* Typing *)

LEMMA TypeInit == Init => TypeOK
<1>1. Init => FlagsOK
  BY DEF Init, FlagsOK
<1>2. Init => ResourcesOK
  BY DEF Init, ResourcesOK
<1>3. Init => LabelsOK
  BY DEF Init, LabelsOK, Labels, Threads, SigLabels, RecvLabels, AppLabels,
         SetupLabels, TeardownLabels
<1> QED
  BY <1>1, <1>2, <1>3 DEF TypeOK

LEMMA TypeSigOwn == TypeOK /\ SigOwn => TypeOK'
<1> SUFFICES ASSUME TypeOK, SigOwn PROVE TypeOK'
  OBVIOUS
<1> USE DEF TypeOK, SigOwn, SigLoop, SigCheck, SigIfJust, SigSleep,
            SigConnect, SigConnectFails, SigNotifyRecv, SigInitSendQ,
            SigSendInfo, SigSendGroup, SigSendPing, SigSetConnected,
            SigResetDisc, SigInitTimer, SigWait, SigPingElapsed,
            SigPingNotElapsed, SigLocalPing, Step, Goto, At
<1>1. FlagsOK'
  BY DEF FlagsOK, flags, events
<1>2. ResourcesOK'
  BY DEF ResourcesOK, shutdown, TimerStarted
<1>3. LabelsOK'
  BY DEF LabelsOK, Labels, Threads, SigLabels, RecvLabels, AppLabels,
         SetupLabels, TeardownLabels, AfterCheck
<1> QED
  BY <1>1, <1>2, <1>3

LEMMA TypeTeardown ==
  ASSUME NEW t \in {"sig", "recv"}, TypeOK, Teardown(t)
  PROVE  TypeOK'
<1> USE DEF TypeOK, Teardown, Close, IfConnected, ClearConnected, SetJust,
            NotifyDisc, ResetReady, ClearSendQ, ClosedForData, Step, Goto, At
<1>1. FlagsOK'
  BY DEF FlagsOK, flags, events
<1>2. ResourcesOK'
  BY DEF ResourcesOK, shutdown, TimerStarted
<1>3. LabelsOK'
  BY DEF LabelsOK, Labels, Threads, SigLabels, RecvLabels, AppLabels,
         SetupLabels, TeardownLabels, ReadFails
<1> QED
  BY <1>1, <1>2, <1>3

LEMMA TypeRecvOwn == TypeOK /\ (RecvOwn \/ RecvPacket \/ RecvCrash) => TypeOK'
<1> SUFFICES ASSUME TypeOK, RecvOwn \/ RecvPacket \/ RecvCrash PROVE TypeOK'
  OBVIOUS
<1> USE DEF TypeOK, RecvOwn, RecvWait, RecvExitTest, RecvHandled, RecvReadFails,
            RecvFinalReset, RecvLoopTest, RecvPacket, RecvCrash, Step, Goto, At
<1>1. FlagsOK'
  BY DEF FlagsOK, flags, events
<1>2. ResourcesOK'
  BY DEF ResourcesOK, shutdown, TimerStarted
<1>3. LabelsOK'
  BY DEF LabelsOK, Labels, Threads, SigLabels, RecvLabels, AppLabels,
         SetupLabels, TeardownLabels
<1> QED
  BY <1>1, <1>2, <1>3

LEMMA TypeApp ==
  TypeOK /\ (\/ App \/ AppLocalPing \/ AppDeinit \/ AppInitRecv
             \/ PeerDrops \/ PeerFallsSilent)
    => TypeOK'
<1> SUFFICES ASSUME TypeOK,
                    \/ App \/ AppLocalPing \/ AppDeinit \/ AppInitRecv
                    \/ PeerDrops \/ PeerFallsSilent
             PROVE  TypeOK'
  OBVIOUS
<1> USE DEF TypeOK, App, AppInitReset, AppStopSig, AppSigStopped,
            AppCloseSocket, AppWakeRecv, AppFreeInput, AppExitRecv,
            AppJoinRecv, AppStopSend, AppLocalPing, AppDeinit, AppInitRecv,
            AppInitSend, AppInitSig, PeerDrops, PeerFallsSilent,
            Step, Goto, At
<1>1. FlagsOK'
  BY DEF FlagsOK, flags, events
<1>2. ResourcesOK'
  BY DEF ResourcesOK, shutdown, TimerStarted
<1>3. LabelsOK'
  BY DEF LabelsOK, Labels, Threads, SigLabels, RecvLabels, AppLabels,
         SetupLabels, TeardownLabels, ReadFails
<1> QED
  BY <1>1, <1>2, <1>3

\* TypeCorrect: the variables keep their types, and no thread ever runs the
\* code of another, in every interleaving of the three threads and the peer.
THEOREM TypeCorrect == Spec => []TypeOK
<1>1. TypeOK /\ [Next]_vars => TypeOK'
  <2> SUFFICES ASSUME TypeOK, [Next]_vars PROVE TypeOK'
    OBVIOUS
  <2>1. CASE UNCHANGED vars
    BY <2>1 DEF vars, TypeOK, FlagsOK, ResourcesOK, LabelsOK
  <2>2. CASE Next
    BY <2>2, TypeSigOwn, TypeTeardown, TypeRecvOwn, TypeApp
       DEF Next, Sig, Recv
  <2> QED
    BY <2>1, <2>2
<1> QED
  BY TypeInit, <1>1, PTL DEF Spec

-----------------------------------------------------------------------------
(* Shutting down *)

SigExitsFirst ==
  ~(pc["app"] \in {"initReset", "running", "stopSig"}) => At("sig", "exited")

DownStaysDown == ~ClientUp => socket = "closed"

ShutdownInv == TypeOK /\ SigExitsFirst /\ DownStaysDown

LEMMA ShutdownInit == Init => ShutdownInv
<1>1. Init => SigExitsFirst /\ DownStaysDown
  BY DEF Init, Threads, SigExitsFirst, DownStaysDown, ClientUp
<1> QED
  BY <1>1, TypeInit DEF ShutdownInv

LEMMA ShutdownSigOwn == ASSUME ShutdownInv, SigOwn PROVE ShutdownInv'
<1> USE DEF ShutdownInv, SigOwn, SigLoop, SigCheck, SigIfJust, SigSleep,
            SigConnect, SigConnectFails, SigNotifyRecv, SigInitSendQ,
            SigSendInfo, SigSendGroup, SigSendPing, SigSetConnected,
            SigResetDisc, SigInitTimer, SigWait, SigPingElapsed,
            SigPingNotElapsed, SigLocalPing, Step, Goto, At,
            TypeOK, LabelsOK, Threads
<1>1. SigExitsFirst'
  BY DEF SigExitsFirst
<1>2. DownStaysDown'
  BY DEF SigExitsFirst, DownStaysDown, ClientUp
<1> QED
  BY <1>1, <1>2, TypeSigOwn

LEMMA ShutdownTeardown ==
  ASSUME NEW t \in {"sig", "recv"}, ShutdownInv, Teardown(t)
  PROVE  ShutdownInv'
<1> USE DEF ShutdownInv, Teardown, Close, IfConnected, ClearConnected,
            SetJust, NotifyDisc, ResetReady, ClearSendQ, ClosedForData,
            ReadFails, Step, Goto, At, TypeOK, LabelsOK, Threads
<1>1. SigExitsFirst'
  BY DEF SigExitsFirst
<1>2. DownStaysDown'
  BY DEF DownStaysDown, ClientUp
<1> QED
  BY <1>1, <1>2, TypeTeardown

LEMMA ShutdownOthers ==
  ASSUME ShutdownInv,
         \/ RecvOwn \/ RecvPacket \/ RecvCrash
         \/ App \/ AppLocalPing \/ AppDeinit \/ AppInitRecv
         \/ PeerDrops \/ PeerFallsSilent
  PROVE  ShutdownInv'
<1> USE DEF ShutdownInv, RecvOwn, RecvWait, RecvExitTest, RecvHandled,
            RecvReadFails,
            RecvFinalReset, RecvLoopTest, RecvPacket, RecvCrash, App,
            AppInitReset, AppStopSig, AppSigStopped, AppCloseSocket,
            AppWakeRecv, AppFreeInput, AppExitRecv, AppJoinRecv, AppStopSend,
            AppLocalPing, AppDeinit, AppInitRecv,
            AppInitSend, AppInitSig, PeerDrops, PeerFallsSilent, ReadFails,
            Step, Goto, At, TypeOK, LabelsOK, Threads
<1>1. SigExitsFirst'
  BY DEF SigExitsFirst
<1>2. DownStaysDown'
  BY DEF DownStaysDown, ClientUp
<1> QED
  BY <1>1, <1>2, TypeRecvOwn, TypeApp

LEMMA ShutdownStep == ASSUME ShutdownInv, [Next]_vars PROVE ShutdownInv'
<1>1. CASE UNCHANGED vars
  BY <1>1 DEF vars, ShutdownInv, TypeOK, FlagsOK, ResourcesOK, LabelsOK,
              SigExitsFirst, DownStaysDown, ClientUp, At
<1>2. CASE Next
  BY <1>2, ShutdownSigOwn, ShutdownTeardown, ShutdownOthers
     DEF Next, Sig, Recv
<1> QED
  BY <1>1, <1>2

LEMMA ShutdownInvariant == Spec => []ShutdownInv
<1>1. ShutdownInv /\ [Next]_vars => ShutdownInv'
  BY ShutdownStep
<1> QED
  BY ShutdownInit, <1>1, PTL DEF Spec

-----------------------------------------------------------------------------
(* The socket and onDisconnect *)

\* Where a thread is after the client.close() of its onDisconnect().
AfterClose == (TeardownLabels \ {"close"}) \cup {"finalReset"}

SocketDownInTeardown ==
  \A t \in {"sig", "recv"} : pc[t] \in AfterClose => socket = "closed"

ReadyWhileValid ==
  socketValid /\ ~At("sig", "notifyRecv") => eventReadyToRead

EventQuiet ==
  socketValid /\ pc["app"] \in {"initReset", "running"}
              /\ pc["sig"] \notin SetupLabels \cup {"resetDisc"}
    => ~eventDisconnectedFromServer

\* The inductive invariant of a connection.
ConnectionInv ==
  /\ TypeOK
  /\ SocketDownInTeardown
  /\ ReadyWhileValid
  /\ ConnectionReported
  /\ EventQuiet

LEMMA ConnectionInit == Init => ConnectionInv
<1> SUFFICES ASSUME Init PROVE ConnectionInv
  OBVIOUS
<1>1. SocketDownInTeardown
  BY DEF Init, Threads, SocketDownInTeardown, AfterClose, TeardownLabels
<1>2. /\ ReadyWhileValid
      /\ ConnectionReported
      /\ EventQuiet
  BY DEF Init, ReadyWhileValid, ConnectionReported, EventQuiet, socketValid
<1> QED
  BY <1>1, <1>2, TypeInit DEF ConnectionInv

LEMMA ConnectionSigOwn ==
  ASSUME ConnectOutlastsTeardown, ConnectionInv, SigOwn
  PROVE  ConnectionInv'
<1> USE DEF ConnectionInv, SigOwn, SigLoop, SigCheck, SigIfJust, SigSleep,
            SigConnect, SigConnectFails, SigNotifyRecv, SigInitSendQ,
            SigSendInfo, SigSendGroup, SigSendPing, SigSetConnected,
            SigResetDisc, SigInitTimer, SigWait, SigPingElapsed,
            SigPingNotElapsed, SigLocalPing, Step, Goto, At, flags, events,
            TypeOK, LabelsOK, Threads
<1>1. SocketDownInTeardown'
  BY DEF SocketDownInTeardown, AfterClose, TeardownLabels, AfterCheck,
         RecvInTeardown
<1>2. ReadyWhileValid'
  BY DEF ReadyWhileValid, socketValid, AfterCheck
<1>3. ConnectionReported'
  BY DEF ConnectionReported, socketValid, SetupLabels, AfterCheck
<1>4. EventQuiet'
  BY DEF EventQuiet, socketValid, SetupLabels, AfterCheck
<1> QED
  BY <1>1, <1>2, <1>3, <1>4, TypeSigOwn

LEMMA ConnectionTeardown ==
  ASSUME NEW t \in {"sig", "recv"}, ConnectionInv, Teardown(t)
  PROVE  ConnectionInv'
<1> USE DEF ConnectionInv, Teardown, Close, IfConnected, ClearConnected,
            SetJust, NotifyDisc, ResetReady, ClearSendQ, ClosedForData,
            ReadFails, Step, Goto, At, flags, events, TypeOK, LabelsOK, Threads
<1>1. SocketDownInTeardown'
  BY DEF SocketDownInTeardown, AfterClose, TeardownLabels
<1>2. ReadyWhileValid'
  BY DEF ReadyWhileValid, SocketDownInTeardown, AfterClose, TeardownLabels,
         socketValid
<1>3. ConnectionReported'
  BY DEF ConnectionReported, SocketDownInTeardown, AfterClose, TeardownLabels,
         socketValid, SetupLabels
<1>4. EventQuiet'
  BY DEF EventQuiet, SocketDownInTeardown, AfterClose, TeardownLabels,
         socketValid, SetupLabels
<1> QED
  BY <1>1, <1>2, <1>3, <1>4, TypeTeardown

LEMMA ConnectionRecvOwn ==
  ASSUME ConnectionInv, RecvOwn \/ RecvPacket \/ RecvCrash
  PROVE  ConnectionInv'
<1> USE DEF ConnectionInv, RecvOwn, RecvWait, RecvExitTest, RecvHandled,
            RecvReadFails,
            RecvFinalReset, RecvLoopTest, RecvPacket, RecvCrash, Step, Goto, At,
            flags, events, TypeOK, LabelsOK, Threads
<1>1. SocketDownInTeardown'
  BY DEF SocketDownInTeardown, AfterClose, TeardownLabels
<1>2. ReadyWhileValid'
  BY DEF ReadyWhileValid, SocketDownInTeardown, AfterClose, socketValid
<1>3. ConnectionReported'
  BY DEF ConnectionReported, socketValid
<1>4. EventQuiet'
  BY DEF EventQuiet, socketValid
<1> QED
  BY <1>1, <1>2, <1>3, <1>4, TypeRecvOwn

LEMMA ConnectionApp ==
  ASSUME ConnectionInv, ShutdownInv,
         \/ App \/ AppLocalPing \/ AppDeinit \/ AppInitRecv
         \/ PeerDrops \/ PeerFallsSilent
  PROVE  ConnectionInv'
<1>0. pc["app"] \in {"done", "initSend", "initSig"} => socket = "closed"
  BY DEF ShutdownInv, DownStaysDown, ClientUp
<1> USE <1>0 DEF ConnectionInv, App, AppInitReset, AppStopSig, AppSigStopped,
            AppCloseSocket, AppWakeRecv, AppFreeInput, AppExitRecv,
            AppJoinRecv, AppStopSend, AppLocalPing, AppDeinit, AppInitRecv,
            AppInitSend, AppInitSig, PeerDrops, PeerFallsSilent,
            ReadFails, Step, Goto, At, flags, events, TypeOK, LabelsOK, Threads
<1>1. SocketDownInTeardown'
  BY DEF SocketDownInTeardown, AfterClose, TeardownLabels
<1>2. ReadyWhileValid'
  BY DEF ReadyWhileValid, socketValid
<1>3. ConnectionReported'
  BY DEF ConnectionReported, socketValid
<1>4. EventQuiet'
  BY DEF EventQuiet, socketValid
<1> QED
  BY <1>1, <1>2, <1>3, <1>4, TypeApp

LEMMA ConnectionStep ==
  ASSUME ConnectOutlastsTeardown, ConnectionInv, ShutdownInv, [Next]_vars
  PROVE  ConnectionInv'
<1>1. CASE UNCHANGED vars
  BY <1>1 DEF vars, ConnectionInv, TypeOK, FlagsOK, ResourcesOK, LabelsOK,
              SocketDownInTeardown, ReadyWhileValid,
              ConnectionReported, EventQuiet, socketValid, At
<1>2. CASE Next
  BY <1>2, ConnectionSigOwn, ConnectionTeardown, ConnectionRecvOwn,
     ConnectionApp DEF Next, Sig, Recv
<1> QED
  BY <1>1, <1>2

LEMMA ConnectionInvariant ==
  ASSUME ConnectOutlastsTeardown PROVE Spec => []ConnectionInv
<1>1. ConnectionInv /\ ShutdownInv /\ [Next]_vars => ConnectionInv'
  BY ConnectionStep
<1> QED
  BY ConnectionInit, ShutdownInvariant, <1>1, PTL DEF Spec

\* NeverDeaf: the receive thread never sleeps on a connection.  The reset that
\* a teardown ends with can only fall between two connections.
THEOREM NeverDeaf ==
  ASSUME ConnectOutlastsTeardown PROVE Spec => []NoDeafConnection
<1>1. ConnectionInv => NoDeafConnection
  BY DEF ConnectionInv, ReadyWhileValid, NoDeafConnection
<1> QED
  BY ConnectionInvariant, <1>1, PTL

\* AlwaysReported: isConnected() is true of every connection that is set up.
THEOREM AlwaysReported ==
  ASSUME ConnectOutlastsTeardown PROVE Spec => []ConnectionReported
<1>1. ConnectionInv => ConnectionReported
  BY DEF ConnectionInv
<1> QED
  BY ConnectionInvariant, <1>1, PTL

\* NeverBusy: no disconnect event of an earlier connection keeps the signalling
\* thread spinning through the next one.
THEOREM NeverBusy ==
  ASSUME ConnectOutlastsTeardown PROVE Spec => []NoBusyLoop
<1>1. ConnectionInv => NoBusyLoop
  BY DEF ConnectionInv, EventQuiet, NoBusyLoop, At, SetupLabels
<1> QED
  BY ConnectionInvariant, <1>1, PTL

-----------------------------------------------------------------------------
(* After deinit() has closed the socket *)

\* DownForGood: after the client.close() of deinit() the socket is never open
\* again, with no assumption on the timing: the signalling thread is gone.
THEOREM DownForGood == Spec => SocketStaysClosed
<1>1. ShutdownInv /\ ShutdownInv' /\ [Next]_vars
        => [~ClientUp => socket' = "closed"]_vars
  <2> SUFFICES ASSUME ShutdownInv, ShutdownInv', [Next]_vars, ~ClientUp,
                      vars' # vars
               PROVE  socket' = "closed"
    OBVIOUS
  <2>1. CASE AppInitSig
    BY <2>1 DEF ShutdownInv, DownStaysDown, AppInitSig
  <2>2. ASSUME ~AppInitSig PROVE ~ClientUp'
    <3> USE DEF ShutdownInv, TypeOK, LabelsOK, Threads, ClientUp,
                Step, Goto, At, ReadFails
    <3>1. CASE SigOwn
      BY <3>1 DEF SigOwn, SigLoop, SigCheck, SigIfJust, SigSleep, SigConnect,
            SigConnectFails, SigNotifyRecv, SigInitSendQ, SigSendInfo,
            SigSendGroup, SigSendPing, SigSetConnected, SigResetDisc,
            SigInitTimer, SigWait, SigPingElapsed, SigPingNotElapsed,
            SigLocalPing
    <3>2. ASSUME NEW t \in {"sig", "recv"}, Teardown(t) PROVE ~ClientUp'
      BY <3>2 DEF Teardown, Close, IfConnected, ClearConnected, SetJust,
            NotifyDisc, ResetReady, ClearSendQ, ClosedForData
    <3>3. CASE RecvOwn \/ RecvPacket \/ RecvCrash
      BY <3>3 DEF RecvOwn, RecvWait, RecvExitTest, RecvHandled, RecvReadFails,
            RecvFinalReset, RecvLoopTest, RecvPacket, RecvCrash
    <3>4. CASE \/ App \/ AppLocalPing \/ AppDeinit \/ AppInitRecv
               \/ PeerDrops \/ PeerFallsSilent
      BY <2>2, <3>4 DEF App, AppInitReset, AppStopSig, AppSigStopped,
            AppCloseSocket, AppWakeRecv, AppFreeInput, AppExitRecv,
            AppJoinRecv, AppStopSend, AppLocalPing, AppDeinit, AppInitRecv,
            AppInitSend, PeerDrops, PeerFallsSilent
    <3> QED
      BY <3>1, <3>2, <3>3, <3>4 DEF Next, Sig, Recv
  <2> QED
    BY <2>1, <2>2 DEF ShutdownInv, DownStaysDown
<1> QED
  BY ShutdownInvariant, <1>1, PTL DEF Spec, SocketStaysClosed

-----------------------------------------------------------------------------
(* connected and the socket *)

\* A thread that is on its way to clear the flag of a closed connection.
Clearing(t) == pc[t] \in {"close", "ifConnected", "clearConnected"}

\* onDisconnect() lets go of the flag only when it is clear.
LEMMA TeardownClears ==
  ASSUME TypeOK, NEW t \in {"sig", "recv"}, Teardown(t),
         ClientUp, ~StaleFlag, connected', ~socketValid'
  PROVE  Clearing("sig")' \/ Clearing("recv")'
<1> USE DEF TypeOK, LabelsOK, Threads, ClientUp, StaleFlag, Clearing,
            socketValid, Step, Goto, At, flags
<1>1. CASE Close(t)
  BY <1>1 DEF Close, ReadFails
<1>2. CASE IfConnected(t)
  BY <1>2 DEF IfConnected
<1>3. CASE ClearConnected(t)
  BY <1>3 DEF ClearConnected
<1>4. CASE SetJust(t) \/ NotifyDisc(t) \/ ResetReady(t)
  BY <1>4 DEF SetJust, NotifyDisc, ResetReady
<1>5. CASE ClearSendQ(t) \/ ClosedForData(t)
  BY <1>5 DEF ClearSendQ, ClosedForData
<1> QED
  BY <1>1, <1>2, <1>3, <1>4, <1>5 DEF Teardown

LEMMA OthersLeaveFlag ==
  ASSUME TypeOK, ~StaleFlag, StaleFlag',
         \/ SigOwn \/ RecvOwn \/ RecvPacket \/ RecvCrash
         \/ App \/ AppLocalPing \/ AppDeinit \/ AppInitRecv
         \/ PeerDrops \/ PeerFallsSilent
  PROVE  At("sig", "setConnected") \/ At("app", "initSig")
<1> USE DEF TypeOK, LabelsOK, Threads, ClientUp, StaleFlag, socketValid, Step,
            Goto, At, flags
<1>1. CASE SigOwn
  BY <1>1 DEF SigOwn, SigLoop, SigCheck, SigIfJust, SigSleep, SigConnect,
        SigConnectFails, SigNotifyRecv, SigInitSendQ, SigSendInfo,
        SigSendGroup, SigSendPing, SigSetConnected, SigResetDisc,
        SigInitTimer, SigWait, SigPingElapsed, SigPingNotElapsed, SigLocalPing
<1>2. CASE RecvOwn \/ RecvPacket \/ RecvCrash
  BY <1>2 DEF RecvOwn, RecvWait, RecvExitTest, RecvHandled, RecvReadFails,
        RecvFinalReset, RecvLoopTest, RecvPacket, RecvCrash
<1>3. CASE \/ App \/ AppLocalPing \/ AppDeinit \/ AppInitRecv
           \/ PeerDrops \/ PeerFallsSilent
  BY <1>3 DEF App, AppInitReset, AppStopSig, AppSigStopped, AppCloseSocket,
        AppWakeRecv, AppFreeInput, AppExitRecv, AppJoinRecv, AppStopSend,
        AppLocalPing, AppDeinit, AppInitRecv, AppInitSend, AppInitSig,
        PeerDrops, PeerFallsSilent, ReadFails
<1> QED
  BY <1>1, <1>2, <1>3

\* StaleOnlyFromSetup: FlagGoesStaleInSetup holds of every behaviour, with no
\* assumption on the timing, on the peers or on how often init() is called.
THEOREM StaleOnlyFromSetup == Spec => FlagGoesStaleInSetup
<1>1. TypeOK /\ [Next]_vars
        => [~StaleFlag /\ StaleFlag'
              => At("sig", "setConnected") \/ At("app", "initSig")]_vars
  <2> SUFFICES ASSUME TypeOK, [Next]_vars, vars' # vars, ~StaleFlag, StaleFlag'
               PROVE  At("sig", "setConnected") \/ At("app", "initSig")
    OBVIOUS
  <2>1. ASSUME NEW t \in {"sig", "recv"}, Teardown(t) PROVE FALSE
    <3>1. pc'["app"] = pc["app"]
      BY <2>1 DEF TypeOK, LabelsOK, Threads, Teardown, Close, IfConnected,
            ClearConnected, SetJust, NotifyDisc, ResetReady, ClearSendQ,
            ClosedForData, ReadFails, Step, Goto, At
    <3>2. ClientUp
      BY <3>1 DEF StaleFlag, ClientUp
    <3> QED
      BY <2>1, <3>2, TeardownClears DEF StaleFlag, Clearing
  <2> QED
    BY <2>1, OthersLeaveFlag DEF Next, Sig, Recv
<1> QED
  BY TypeCorrect, <1>1, PTL DEF Spec, FlagGoesStaleInSetup
=============================================================================
