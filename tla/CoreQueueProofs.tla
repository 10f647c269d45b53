--------------------------- MODULE CoreQueueProofs ---------------------------
(***************************************************************************)
(* Proofs about what the threads of HKClientCore send: a connection that   *)
(* is set up has its set-up messages, in order, and the shell's EXIT is    *)
(* out when deinit() closes the socket.                                    *)
(*                                                                         *)
(* The client is a SendActivity (CoreProofs), so that the invariants and   *)
(* step lemmas of SendActivityProofs are used here for messages of one     *)
(* byte; what is added relates the queue to where the threads are.         *)
(***************************************************************************)
EXTENDS CoreProofs, SequenceTheorems

SP == INSTANCE SendActivityProofs WITH
        shouldExit <- sendShouldExit, MessageLength <- 1

-----------------------------------------------------------------------------
(* What SendActivityProofs says of the client *)

QueueInv == SP!TypeInv /\ SP!WakeupInv /\ SP!DownUntilCleared /\ SP!DownInDeinit

LEMMA QueueAssumption == SP!SendActivityAssumption
BY HKClientCoreAssumption DEF SP!SendActivityAssumption

LEMMA SameInit == S!Init <=> SP!Init
BY DEF S!Init, SP!Init, S!NoPacket, SP!NoPacket

LEMMA SameStep == ASSUME CoreInv, [Next]_vars PROVE [SP!Next]_(SP!vars)
<1> USE DEF S!senderState, SP!senderState, S!stopState, SP!stopState,
            S!callerState, SP!callerState
<1>1. UNCHANGED S!vars <=> UNCHANGED SP!vars
  BY DEF S!vars, SP!vars
<1>2. ASSUME NEW c \in Callers
      PROVE  S!Push(c) \/ S!Notify(c) => SP!Push(c) \/ SP!Notify(c)
  BY DEF S!Push, SP!Push, S!Notify, SP!Notify
<1>3. S!Write => SP!Write
  BY DEF S!Write, SP!Write, S!Goto, SP!Goto, S!Loaded, SP!Loaded, S!Sendable,
         SP!Sendable
<1>4. S!Sender => SP!Sender
  BY <1>3 DEF S!Sender, SP!Sender, S!Wait, SP!Wait, S!Reset, SP!Reset,
              S!ExitTest, SP!ExitTest, S!More, SP!More, S!LoopTest,
              SP!LoopTest, S!Goto, SP!Goto
<1>5. S!Client => SP!Client
  BY DEF S!Client, SP!Client, S!Connect, SP!Connect, S!OnConnect, SP!OnConnect,
         S!PeerDrops, SP!PeerDrops, S!CloseSocket, SP!CloseSocket,
         S!OnDisconnect, SP!OnDisconnect, S!Clear, SP!Clear, S!NoPacket,
         SP!NoPacket
<1>6. S!DeinitClose \/ S!Deinit \/ S!Reinit
        => SP!DeinitClose \/ SP!Deinit \/ SP!Reinit
  BY DEF S!DeinitClose, SP!DeinitClose, S!Deinit, SP!Deinit, S!DeinitSetExit,
         SP!DeinitSetExit, S!DeinitNotify, SP!DeinitNotify, S!DeinitJoin,
         SP!DeinitJoin, S!DeinitClear, SP!DeinitClear, S!Reinit, SP!Reinit,
         S!Clear, SP!Clear, S!NoPacket, SP!NoPacket
<1>7. [S!Next]_(S!vars)
  BY StepIsSendActivity
<1> QED
  BY <1>1, <1>2, <1>4, <1>5, <1>6, <1>7 DEF S!Next, SP!Next

LEMMA QueueInit == Init => QueueInv
<1> SUFFICES ASSUME Init PROVE QueueInv
  OBVIOUS
<1>1. SP!Init
  BY SameInit, InitIsSendActivity
<1>2. SP!TypeInv /\ SP!WakeupInv
  BY <1>1, QueueAssumption, SP!TypeInit, SP!WakeupInit
<1>3. SP!DownUntilCleared /\ SP!DownInDeinit
  BY <1>1 DEF SP!Init, SP!DownUntilCleared, SP!DownInDeinit
<1> QED
  BY <1>2, <1>3 DEF QueueInv

LEMMA QueueStep ==
  ASSUME ConnectOutlastsTeardown, CoreInv, QueueInv, [Next]_vars
  PROVE  QueueInv'
<1>1. [SP!Next]_(SP!vars)
  BY SameStep
<1>2. SP!TypeInv' /\ SP!WakeupInv'
  BY <1>1, QueueAssumption, SP!TypeStep, SP!WakeupStep DEF QueueInv
<1>3. SP!DownUntilCleared' /\ SP!DownInDeinit'
  BY <1>1, QueueAssumption, SP!DownStep DEF QueueInv
<1> QED
  BY <1>2, <1>3 DEF QueueInv

\* Sent is what SendActivityProofs calls all bytes.
LEMMA SentIsAll == Sent = SP!AllBytes /\ Sent' = SP!AllBytes'
BY DEF Sent, SP!AllBytes, S!Unwritten, SP!Unwritten

\* A step that finds a connection which has left onConnect() behind drops nothing.
LEMMA SentKept ==
  ASSUME CoreInv, QueueInv, [Next]_vars, socket # "closed",
         "onConnect" \notin due
  PROVE  \/ Sent' = Sent /\ numOutputMsgs' = numOutputMsgs
         \/ /\ numOutputMsgs' = numOutputMsgs + 1
            /\ Sent' = Sent \o <<numOutputMsgs'>>
<1>1. \/ SP!AllBytes' = SP!AllBytes /\ numOutputMsgs' = numOutputMsgs
      \/ /\ numOutputMsgs' = numOutputMsgs + 1
         /\ SP!AllBytes' = SP!AllBytes \o SP!Repeated(numOutputMsgs', 1)
  BY SameStep, QueueAssumption, SP!BytesKept DEF QueueInv
<1>2. SP!Repeated(numOutputMsgs', 1) = <<numOutputMsgs'>>
  BY DEF SP!Repeated
<1> QED
  BY <1>1, <1>2, SentIsAll

-----------------------------------------------------------------------------
(* The messages of a connection *)

\* Numbers in the order in which they were given out, the last of them n.
Ordered(s, n) ==
  /\ s \in Seq(Nat \ {0})
  /\ \A i \in 1..Len(s) : s[i] <= n
  /\ \A i, j \in 1..Len(s) : i < j => s[i] < s[j]

\* No message overtakes another.
SentInOrder == numOutputMsgs \in Nat /\ Ordered(Sent, numOutputMsgs)

LEMMA OrderedAppend ==
  ASSUME NEW n \in Nat, NEW s, Ordered(s, n)
  PROVE  /\ Ordered(s \o <<n + 1>>, n + 1)
         /\ Len(s \o <<n + 1>>) = Len(s) + 1 /\ Len(s) \in Nat
         /\ (s \o <<n + 1>>)[Len(s) + 1] = n + 1
         /\ \A i \in 1..Len(s) : (s \o <<n + 1>>)[i] = s[i]
<1> DEFINE t == s \o <<n + 1>>
<1>1. /\ s \in Seq(Nat \ {0}) /\ Len(s) \in Nat
      /\ \A i \in 1..Len(s) : s[i] <= n /\ s[i] \in Nat \ {0}
      /\ \A i, j \in 1..Len(s) : i < j => s[i] < s[j]
  BY DEF Ordered
<1>2. /\ t \in Seq(Nat \ {0}) /\ Len(t) = Len(s) + 1 /\ t[Len(s) + 1] = n + 1
      /\ \A i \in 1..Len(s) : t[i] = s[i]
  BY <1>1
<1> HIDE DEF t
<1>3. ASSUME NEW i \in 1..Len(t) PROVE t[i] <= n + 1
  <2>1. i \in 1..Len(s) \/ i = Len(s) + 1
    BY <1>1, <1>2
  <2>2. CASE i \in 1..Len(s)
    <3>1. t[i] = s[i] /\ s[i] <= n /\ s[i] \in Nat
      BY <1>1, <1>2, <2>2
    <3> QED
      BY <3>1
  <2>3. CASE i = Len(s) + 1
    BY <1>2, <2>3
  <2> QED
    BY <2>1, <2>2, <2>3
<1>4. ASSUME NEW i \in 1..Len(t), NEW j \in 1..Len(t), i < j
      PROVE  t[i] < t[j]
  <2>1. i \in 1..Len(s) /\ (j \in 1..Len(s) \/ j = Len(s) + 1)
    <3>1. i \in 1..Len(s) + 1 /\ j \in 1..Len(s) + 1 /\ Len(s) \in Nat
      BY <1>1, <1>2
    <3> QED
      BY <1>4, <3>1
  <2>2. CASE j \in 1..Len(s)
    BY <1>1, <1>2, <1>4, <2>1, <2>2
  <2>3. CASE j = Len(s) + 1
    <3>1. t[i] = s[i] /\ t[j] = n + 1 /\ s[i] <= n /\ s[i] \in Nat
      BY <1>1, <1>2, <2>1, <2>3
    <3> QED
      BY <3>1
  <2> QED
    BY <2>1, <2>2, <2>3
<1> QED
  BY <1>1, <1>2, <1>3, <1>4 DEF Ordered, t

LEMMA OrderedParts ==
  ASSUME NEW n \in Nat, NEW s \in Seq(Nat \ {0}), NEW t \in Seq(Nat \ {0}),
         Ordered(s \o t, n)
  PROVE  Ordered(s, n) /\ Ordered(t, n)
<1> DEFINE both == s \o t
<1>1. /\ Len(s) \in Nat /\ Len(t) \in Nat /\ Len(both) = Len(s) + Len(t)
      /\ \A i \in 1..Len(s) : both[i] = s[i]
      /\ \A i \in 1..Len(t) : both[Len(s) + i] = t[i]
  OBVIOUS
<1>2. /\ \A i \in 1..Len(both) : both[i] <= n
      /\ \A i, j \in 1..Len(both) : i < j => both[i] < both[j]
  BY DEF Ordered
<1> HIDE DEF both
<1>3. Ordered(s, n)
  <2>1. \A i \in 1..Len(s) : i \in 1..Len(both) /\ both[i] = s[i]
    BY <1>1
  <2>2. \A i \in 1..Len(s) : s[i] <= n
    BY <1>2, <2>1
  <2>3. \A i, j \in 1..Len(s) : i < j => s[i] < s[j]
    BY <1>2, <2>1
  <2> QED
    BY <2>2, <2>3 DEF Ordered
<1>4. ASSUME NEW i \in 1..Len(t)
      PROVE  Len(s) + i \in 1..Len(both)
  BY <1>1
<1>5. \A i \in 1..Len(t) : t[i] <= n
  BY <1>1, <1>2, <1>4
<1>6. ASSUME NEW i \in 1..Len(t), NEW j \in 1..Len(t), i < j
      PROVE  t[i] < t[j]
  <2>1. Len(s) + i < Len(s) + j
    BY <1>1, <1>6
  <2> QED
    BY <1>1, <1>2, <1>4, <2>1
<1> QED
  BY <1>3, <1>5, <1>6 DEF Ordered

LEMMA OrderStep ==
  ASSUME CoreInv, QueueInv, SentInOrder, [Next]_vars
  PROVE  SentInOrder'
<1> DEFINE n == numOutputMsgs
<1>1. n \in Nat /\ Ordered(Sent, n)
  BY DEF SentInOrder
<1>2. \/ Sent' = Sent /\ n' = n
      \/ n' = n + 1 /\ Sent' = Sent \o <<n + 1>>
      \/ Sent' = SP!Unwritten /\ n' = n
      \/ Sent' = wire /\ n' = n
  <2>1. \/ SP!AllBytes' = SP!AllBytes /\ n' = n
        \/ n' = n + 1 /\ SP!AllBytes' = SP!AllBytes \o SP!Repeated(n', 1)
        \/ SP!AllBytes' = SP!Unwritten /\ n' = n
        \/ SP!AllBytes' = wire /\ n' = n
    BY SameStep, QueueAssumption, SP!BytesStep DEF QueueInv
  <2>2. SP!Repeated(n', 1) = <<n'>>
    BY DEF SP!Repeated
  <2> QED
    BY <2>1, <2>2, SentIsAll
<1>3. /\ wire \in Seq(Nat \ {0}) /\ SP!Unwritten \in Seq(Nat \ {0})
      /\ Sent = wire \o SP!Unwritten
  <2>1. wire \in Seq(SP!Messages) /\ SP!Unwritten \in Seq(SP!Messages)
    BY QueueAssumption, SP!BytesType DEF QueueInv
  <2>2. SP!Messages \subseteq Nat \ {0}
    BY HKClientCoreAssumption DEF SP!Messages
  <2>3. \A s \in Seq(SP!Messages) : s \in Seq(Nat \ {0})
    BY <2>2, SeqMonotonic
  <2> QED
    BY <2>1, <2>3, SentIsAll DEF SP!AllBytes
<1> HIDE DEF n
<1>4. Ordered(wire, n) /\ Ordered(SP!Unwritten, n)
  BY <1>1, <1>3, OrderedParts
<1>5. Ordered(Sent \o <<n + 1>>, n + 1) /\ n + 1 \in Nat
  BY <1>1, OrderedAppend
<1>6. n' \in Nat /\ Ordered(Sent', n')
  BY <1>1, <1>2, <1>4, <1>5
<1> QED
  BY <1>6 DEF SentInOrder, n

\* How many set-up messages the signalling thread has handed over.
HandedOver ==
  LET one == IF "sig" \in calling THEN 1 ELSE 0
  IN  CASE pc["sig"] \in {"notifyRecv", "initSendQ"} -> 0
        [] pc["sig"] = "sendInfo" -> one
        [] pc["sig"] = "sendGroup" -> 1 + one
        [] pc["sig"] = "sendPing" -> 2 + one
        [] OTHER -> 3

\* How far the signalling thread has got, and what of setup there is then.
Counted ==
  /\ "sig" \in calling => pc["sig"] \in {"sendInfo", "sendGroup", "sendPing"}
  /\ socket = "open" => Len(setup) = HandedOver

SetupThere ==
  socket = "open" =>
    \A i \in 1..Len(setup) : \E j \in 1..Len(Sent) : Sent[j] = setup[i]

SetupInv == /\ SentInOrder
            /\ Ordered(setup, numOutputMsgs)
            /\ Counted
            /\ SetupThere

\* A step that is not one of the signalling thread's set-up.
Aside ==
  /\ pc'["sig"] = pc["sig"]
  /\ "sig" \in calling' <=> "sig" \in calling
  /\ \/ setup' = setup /\ (socket' = "open" => socket = "open")
     \/ setup' = <<>> /\ socket' # "open"

LEMMA AsideSteps ==
  ASSUME CoreInv,
         \/ RecvAlone /\ UNCHANGED <<calling, setup>>
         \/ AppAlone /\ ~C!AppInitSig /\ UNCHANGED <<calling, setup>>
         \/ ClearQueue /\ ~C!SigInitSendQ
         \/ SocketChange \/ AppDeinit \/ DeinitClose \/ DeinitSetExit \/ StopSend
         \/ Reinit \/ Answer \/ AppSend \/ AppExit \/ AppLocalPing \/ AppNotify
         \/ SendThread \/ UNCHANGED vars
  PROVE  Aside
<1> USE DEF CoreInv, Pcs, sendVars, connVars, Aside, C!Step, C!Goto, C!At,
            C!Threads
<1>1. CASE RecvAlone /\ UNCHANGED <<calling, setup>>
  BY <1>1 DEF RecvAlone, C!RecvOwn, C!RecvWait, C!RecvExitTest, C!RecvHandled,
              C!RecvReadFails, C!RecvFinalReset, C!RecvLoopTest,
              C!RecvPacket, C!RecvCrash, C!IfConnected, C!ClearConnected,
              C!SetJust, C!NotifyDisc, C!ResetReady, C!ClosedForData
<1>2. CASE AppAlone /\ ~C!AppInitSig /\ UNCHANGED <<calling, setup>>
  BY <1>2 DEF AppAlone, C!AppInitReset, C!AppStopSig, C!AppSigStopped,
              C!AppWakeRecv, C!AppFreeInput, C!AppExitRecv, C!AppJoinRecv
<1>3. CASE ClearQueue /\ ~C!SigInitSendQ
  BY <1>3 DEF ClearQueue, C!ClearSendQ
<1>4. CASE SocketChange
  BY <1>4 DEF SocketChange, C!PeerDrops, C!Close, C!ReadFails
<1>5. CASE AppDeinit \/ DeinitClose \/ DeinitSetExit
  BY <1>5 DEF AppDeinit, DeinitClose, DeinitSetExit, C!AppDeinit,
              C!AppCloseSocket, C!ReadFails
<1>6. CASE StopSend \/ Reinit
  BY <1>6 DEF StopSend, Reinit, S!DeinitNotify, S!DeinitJoin, S!DeinitClear,
              S!Reinit, S!callerState, C!AppStopSend, C!AppInitRecv,
              C!AppInitSend
<1>7. CASE Answer \/ AppSend \/ AppExit \/ AppLocalPing \/ AppNotify
  BY <1>7 DEF Answer, AppSend, AppExit, AppLocalPing, AppNotify, S!Push,
              S!Notify, C!RecvHandled, C!AppLocalPing
<1>8. CASE SendThread \/ UNCHANGED vars
  BY <1>8 DEF SendThread, S!Sender, S!Wait, S!Reset, S!ExitTest, S!Write,
              S!More, S!LoopTest, S!callerState, vars
<1> QED
  BY <1>1, <1>2, <1>3, <1>4, <1>5, <1>6, <1>7, <1>8

\* The rest of the steps, with the messages that they hand over.
LEMMA SetupSteps ==
  ASSUME CoreInv, [Next]_vars, ~Aside
  PROVE  \/ SigAlone /\ UNCHANGED <<calling, setup, socket>>
         \/ C!AppInitSig /\ UNCHANGED <<calling, setup, socket>>
         \/ Connect
         \/ C!SigInitSendQ /\ UNCHANGED <<calling, setup, socket>>
         \/ SetupPush \/ SetupNotify
<1>1. CASE Alone
  <2>1. UNCHANGED <<calling, setup>>
    BY <1>1 DEF Alone, sendVars
  <2>2. SigAlone => socket' = socket
    BY DEF SigAlone, C!SigLoop, C!SigCheck, C!SigIfJust, C!SigSleep,
           C!SigConnectFails, C!SigNotifyRecv, C!SigSetConnected,
           C!SigResetDisc, C!SigInitTimer, C!SigWait, C!Step
  <2>3. C!AppInitSig => socket' = socket
    BY DEF C!AppInitSig
  <2> QED
    BY <1>1, <2>1, <2>2, <2>3, AsideSteps DEF Alone
<1>2. CASE ClearQueue
  BY <1>2, AsideSteps DEF ClearQueue, C!SigInitSendQ, C!Step
<1> QED
  BY <1>1, <1>2, AsideSteps DEF Next

LEMMA CountedStep ==
  ASSUME CoreInv, Counted, setup \in Seq(Nat \ {0}), [Next]_vars
  PROVE  Counted'
<1> USE DEF CoreInv, Pcs, Counted, HandedOver, C!Step, C!Goto, C!At, C!Threads
<1>1. CASE Aside
  BY <1>1 DEF Aside
<1>2. CASE SigAlone /\ UNCHANGED <<calling, setup, socket>>
  BY <1>2 DEF SigAlone, C!SigLoop, C!SigCheck, C!SigIfJust, C!SigSleep,
              C!SigConnectFails, C!SigNotifyRecv, C!SigSetConnected,
              C!SigResetDisc, C!SigInitTimer, C!SigWait, C!AfterCheck
<1>3. CASE C!AppInitSig /\ UNCHANGED <<calling, setup, socket>>
  BY <1>3 DEF C!AppInitSig, StoppedInOrder, AfterSig
<1>4. CASE Connect
  <2>1. setup' = <<>> /\ Len(<<>>) = 0
    BY <1>4 DEF Connect
  <2> QED
    BY <1>4, <2>1 DEF Connect, C!SigConnect
<1>5. CASE C!SigInitSendQ /\ UNCHANGED <<calling, setup, socket>>
  BY <1>5 DEF C!SigInitSendQ
<1>6. CASE SetupPush
  <2>1. /\ UNCHANGED <<socket, pc>>
        /\ pc["sig"] \in {"sendInfo", "sendGroup", "sendPing"}
        /\ "sig" \notin calling /\ calling' = calling \cup {"sig"}
    BY <1>6 DEF SetupPush, connVars, S!Push
  <2>2. socket = "open" => Len(setup') = Len(setup) + 1
    BY <1>6, AppendProperties DEF SetupPush
  <2>3. "sig" \in calling'
    BY <2>1
  <2>4. HandedOver' = HandedOver + 1
    <3>1. CASE pc["sig"] = "sendInfo"
      BY <2>1, <2>3, <3>1
    <3>2. CASE pc["sig"] = "sendGroup"
      BY <2>1, <2>3, <3>2
    <3>3. CASE pc["sig"] = "sendPing"
      BY <2>1, <2>3, <3>3
    <3> QED
      BY <2>1, <3>1, <3>2, <3>3
  <2> QED
    BY <2>1, <2>2, <2>4
<1>7. CASE SetupNotify
  <2>1. /\ "sig" \in calling /\ calling' = calling \ {"sig"}
        /\ setup' = setup /\ socket' = socket
    BY <1>7 DEF SetupNotify, S!Notify, C!SigSendInfo, C!SigSendGroup,
                C!SigSendPing
  <2> QED
    BY <1>7, <2>1 DEF SetupNotify, C!SigSendInfo, C!SigSendGroup, C!SigSendPing
<1> QED
  BY <1>1, <1>2, <1>3, <1>4, <1>5, <1>6, <1>7, SetupSteps

\* setup' of a step.
LEMMA SetupChange ==
  ASSUME CoreInv, [Next]_vars
  PROVE  \/ setup' = setup /\ (socket' = "open" => socket = "open")
         \/ setup' = <<>>
         \/ /\ SetupPush /\ socket = "open" /\ socket' = "open"
            /\ setup' = Append(setup, numOutputMsgs + 1)
            /\ numOutputMsgs' = numOutputMsgs + 1
BY SetupSteps DEF Aside, Connect, SetupPush, SetupNotify, S!Push, connVars,
                  C!SigSendInfo, C!SigSendGroup, C!SigSendPing, C!Step

\* Messages are counted up only.
LEMMA CountUp ==
  ASSUME CoreInv, QueueInv, SentInOrder, [Next]_vars
  PROVE  /\ numOutputMsgs \in Nat
         /\ numOutputMsgs' = numOutputMsgs \/ numOutputMsgs' = numOutputMsgs + 1
BY SameStep, QueueAssumption, SP!BytesStep DEF QueueInv, SentInOrder

LEMMA OrderedLater ==
  ASSUME NEW n \in Nat, NEW s, Ordered(s, n)
  PROVE  Ordered(s, n + 1)
<1>1. ASSUME NEW i \in 1..Len(s) PROVE s[i] <= n + 1
  <2>1. s[i] <= n /\ s[i] \in Nat
    BY DEF Ordered
  <2> QED
    BY <2>1
<1> QED
  BY <1>1 DEF Ordered

LEMMA SetupOrderStep ==
  ASSUME CoreInv, QueueInv, SentInOrder, Ordered(setup, numOutputMsgs),
         [Next]_vars
  PROVE  Ordered(setup', numOutputMsgs')
<1> DEFINE n == numOutputMsgs
<1>1. n \in Nat /\ (n' = n \/ n' = n + 1)
  BY CountUp
<1>2. CASE setup' = setup
  BY <1>1, <1>2, OrderedLater
<1>3. CASE setup' = <<>>
  BY <1>3 DEF Ordered
<1>4. CASE setup' = Append(setup, n + 1) /\ n' = n + 1
  <2>1. Append(setup, n + 1) = setup \o <<n + 1>>
    BY <1>1 DEF Ordered
  <2> QED
    BY <1>1, <1>4, <2>1, OrderedAppend
<1> QED
  BY <1>2, <1>3, <1>4, SetupChange

\* A message of a live connection that is there stays there.
LEMMA StaysThere ==
  ASSUME CoreInv, QueueInv, SentInOrder, [Next]_vars, socket # "closed",
         "onConnect" \notin due,
         NEW m, \E j \in 1..Len(Sent) : Sent[j] = m
  PROVE  \E j \in 1..Len(Sent') : Sent'[j] = m
<1> DEFINE n == numOutputMsgs
<1>1. n \in Nat /\ Ordered(Sent, n)
  BY DEF SentInOrder
<1>2. PICK j \in 1..Len(Sent) : Sent[j] = m
  OBVIOUS
<1>3. CASE Sent' = Sent
  BY <1>2, <1>3
<1>4. CASE Sent' = Sent \o <<n + 1>>
  BY <1>1, <1>2, <1>4, OrderedAppend
<1> QED
  BY <1>3, <1>4, SentKept

\* The first message of the set-up is sent after onConnect().
LEMMA SetupAfterOnConnect ==
  ASSUME Counted, socket = "open", setup # <<>>, setup \in Seq(Nat \ {0})
  PROVE  "onConnect" \notin due
BY DEF Counted, HandedOver, due

LEMMA SetupThereStep ==
  ASSUME CoreInv, QueueInv, SetupInv, [Next]_vars, socket' = "open"
  PROVE  \A i \in 1..Len(setup') : \E j \in 1..Len(Sent') : Sent'[j] = setup'[i]
<1>1. /\ SentInOrder /\ Counted /\ SetupThere
      /\ setup \in Seq(Nat \ {0}) /\ Len(setup) \in Nat
  BY DEF SetupInv, Ordered
<1>2. ASSUME socket = "open", NEW i \in 1..Len(setup)
      PROVE  \E j \in 1..Len(Sent') : Sent'[j] = setup[i]
  <2>1. setup # <<>>
    BY <1>1, <1>2
  <2>2. "onConnect" \notin due
    BY <1>1, <1>2, <2>1, SetupAfterOnConnect
  <2>3. \E j \in 1..Len(Sent) : Sent[j] = setup[i]
    BY <1>1, <1>2 DEF SetupThere
  <2> QED
    BY <1>1, <1>2, <2>2, <2>3, StaysThere
<1>3. CASE setup' = setup /\ socket = "open"
  BY <1>2, <1>3
<1>4. CASE setup' = <<>>
  <2>1. Len(setup') = 0
    BY <1>4
  <2> QED
    BY <2>1
<1>5. CASE /\ SetupPush /\ socket = "open"
           /\ setup' = Append(setup, numOutputMsgs + 1)
           /\ numOutputMsgs' = numOutputMsgs + 1
  <2>1. "onConnect" \notin due
    BY <1>5 DEF SetupPush, due
  <2>2. numOutputMsgs \in Nat /\ Ordered(Sent, numOutputMsgs)
    BY <1>1 DEF SentInOrder
  <2>3. Sent' = Sent \o <<numOutputMsgs + 1>>
    <3>1. numOutputMsgs + 1 # numOutputMsgs
      BY <2>2
    <3> QED
      BY <1>5, <2>1, <3>1, SentKept
  <2>4. \E j \in 1..Len(Sent') : Sent'[j] = numOutputMsgs + 1
    <3>1. /\ Len(Sent') = Len(Sent) + 1 /\ Len(Sent) \in Nat
          /\ Sent'[Len(Sent) + 1] = numOutputMsgs + 1
      BY <2>2, <2>3, OrderedAppend
    <3>2. Len(Sent) + 1 \in 1..Len(Sent')
      BY <3>1
    <3> QED
      BY <3>1, <3>2
  <2>5. ASSUME NEW i \in 1..Len(setup')
        PROVE  \E j \in 1..Len(Sent') : Sent'[j] = setup'[i]
    <3>1. /\ i \in 1..Len(setup) \/ i = Len(setup) + 1
          /\ i \in 1..Len(setup) => setup'[i] = setup[i]
          /\ i = Len(setup) + 1 => setup'[i] = numOutputMsgs + 1
      <4>1. Len(setup') = Len(setup) + 1
        BY <1>1, <1>5, AppendProperties
      <4> QED
        BY <1>1, <1>5, <2>2, <4>1
    <3> QED
      BY <1>2, <1>5, <2>4, <3>1
  <2> QED
    BY <2>5
<1> QED
  BY <1>3, <1>4, <1>5, SetupChange

LEMMA SetupStep ==
  ASSUME CoreInv, QueueInv, SetupInv, [Next]_vars
  PROVE  SetupInv'
<1>1. SentInOrder'
  BY OrderStep DEF SetupInv
<1>2. Ordered(setup', numOutputMsgs')
  BY SetupOrderStep DEF SetupInv
<1>3. Counted'
  BY CountedStep DEF SetupInv, Ordered
<1>4. SetupThere'
  BY SetupThereStep DEF SetupThere
<1> QED
  BY <1>1, <1>2, <1>3, <1>4 DEF SetupInv

LEMMA SetupInit == Init => SetupInv
<1> SUFFICES ASSUME Init PROVE SetupInv
  OBVIOUS
<1>1. S!Init /\ setup = <<>> /\ socket = "closed"
  BY InitIsSendActivity DEF Init, S!Init
<1>2. numOutputMsgs = 0 /\ calling = {}
  BY <1>1 DEF S!Init
<1>3. Sent = <<>>
  <2>1. /\ writePacketBuilder.left = 0 /\ outPacketQ = <<>> /\ wire = <<>>
        /\ Len(outPacketQ) * 1 = 0
    BY <1>1 DEF S!Init, S!NoPacket
  <2>2. S!Unwritten = <<>> \o <<>>
    BY <2>1 DEF S!Unwritten
  <2>3. <<>> \o <<>> = <<>>
    BY ConcatEmptySeq, EmptySeq
  <2> QED
    BY <2>1, <2>2, <2>3 DEF Sent
<1>4. Ordered(<<>>, 0)
  BY DEF Ordered
<1>5. SentInOrder /\ Ordered(setup, numOutputMsgs)
  BY <1>1, <1>2, <1>3, <1>4 DEF SentInOrder
<1>6. Counted /\ SetupThere
  BY <1>1, <1>2 DEF Counted, SetupThere
<1> QED
  BY <1>5, <1>6 DEF SetupInv

\* What is there of an ordered set-up is in Sent once, and in order.
LEMMA SetupFound ==
  ASSUME SetupInv, socket = "open", pc["sig"] \notin C!SetupLabels
  PROVE  /\ Len(setup) = 3
         /\ \E place \in [1..3 -> 1..Len(Sent)] :
              /\ place[1] < place[2] /\ place[2] < place[3]
              /\ \A i \in 1..3, j \in 1..Len(Sent) :
                   Sent[j] = setup[i] <=> j = place[i]
<1>1. Len(setup) = 3
  BY DEF SetupInv, Counted, HandedOver, C!SetupLabels
<1>2. /\ \A i \in 1..3 : setup[i] \in Nat
      /\ setup[1] < setup[2] /\ setup[2] < setup[3]
  <2>1. /\ setup \in Seq(Nat \ {0})
        /\ \A i, j \in 1..Len(setup) : i < j => setup[i] < setup[j]
    BY DEF SetupInv, Ordered
  <2>2. 1 \in 1..Len(setup) /\ 2 \in 1..Len(setup) /\ 3 \in 1..Len(setup)
    BY <1>1
  <2>3. \A i \in 1..3 : setup[i] \in Nat \ {0}
    BY <1>1, <2>1
  <2> QED
    BY <2>1, <2>2, <2>3
<1>3. /\ Len(Sent) \in Nat
      /\ \A j \in 1..Len(Sent) : Sent[j] \in Nat
      /\ \A i, j \in 1..Len(Sent) : i < j => Sent[i] < Sent[j]
  BY DEF SetupInv, SentInOrder, Ordered
<1> DEFINE place == [i \in 1..3 |-> CHOOSE j \in 1..Len(Sent) : Sent[j] = setup[i]]
<1>4. ASSUME NEW i \in 1..3
      PROVE  place[i] \in 1..Len(Sent) /\ Sent[place[i]] = setup[i]
  BY <1>1 DEF SetupInv, SetupThere
<1>5. place \in [1..3 -> 1..Len(Sent)]
  BY <1>4
<1> HIDE DEF place
<1>6. ASSUME NEW i \in 1..Len(Sent), NEW j \in 1..Len(Sent), Sent[i] < Sent[j]
      PROVE  i < j
  <2>1. i # j /\ ~(j < i)
    BY <1>3, <1>6
  <2> QED
    BY <1>3, <2>1
<1>7. place[1] < place[2] /\ place[2] < place[3]
  BY <1>2, <1>4, <1>6
<1>8. ASSUME NEW i \in 1..3, NEW j \in 1..Len(Sent), Sent[j] = setup[i]
      PROVE  j = place[i]
  <2>1. PICK k \in 1..Len(Sent) : k = place[i] /\ Sent[k] = setup[i]
    BY <1>4
  <2>2. Sent[j] = Sent[k] /\ Sent[j] \in Nat
    BY <1>3, <1>8, <2>1
  <2>3. ~(j < k) /\ ~(k < j)
    BY <1>3, <2>2
  <2> QED
    BY <1>3, <2>1, <2>3
<1> QED
  BY <1>1, <1>4, <1>5, <1>7, <1>8

\* SetupComplete: SetupSurvives holds of every behaviour if a successful attempt to
\* connect outlasts a teardown, of a connection that is not yet reported as well:
\* three messages were sent after its onConnect(), and nothing is dropped then.
THEOREM SetupComplete ==
  ASSUME ConnectOutlastsTeardown
  PROVE  Spec => []SetupSurvives
<1>1. CoreInv /\ QueueInv /\ SetupInv /\ [Next]_vars
        => CoreInv' /\ QueueInv' /\ SetupInv'
  BY CoreStep, QueueStep, SetupStep
<1>2. SetupInv => SetupSurvives
  BY SetupFound DEF SetupSurvives
<1> QED
  BY <1>1, <1>2, CoreInit, QueueInit, SetupInit, PTL DEF Spec

-----------------------------------------------------------------------------
(* EXIT *)

\* The send thread runs while the application's thread can send.
SendingWhileRunning ==
  sendShouldExit => pc["app"] \in {"stopSend", "done", "initSend"}

\* EXIT is not left in the queue once it is announced.
ExitAnnounced ==
  ~sendShouldExit /\ SP!Queued(exitMsg) => SP!WillLook("app")

\* EXIT was sent on this connection.
ExitOnConnection ==
  socket = "open" /\ setup # <<>> /\ exitMsg > setup[1]

ExitThere ==
  ExitOnConnection => \E j \in 1..Len(Sent) : Sent[j] = exitMsg

\* The shell waited for the send thread before it called deinit().
ExitOut ==
  ExitOnConnection /\ pc["app"] \in {"stopSig", "closeSocket"} =>
    \E j \in 1..Len(wire) : wire[j] = exitMsg

ExitInv ==
  /\ exitMsg \in 0..numOutputMsgs
  /\ SP!BuilderEmpty
  /\ SendingWhileRunning
  /\ ExitAnnounced
  /\ ExitThere
  /\ ExitOut

\* The steps of the application's thread that ExitInv tells apart.
LEMMA ExitMsgChange ==
  ASSUME CoreInv, [Next]_vars
  PROVE  /\ exitMsg' = exitMsg \/ exitMsg' = 0 \/ AppExit
         /\ AppExit => /\ exitMsg' = numOutputMsgs + 1
                       /\ numOutputMsgs' = numOutputMsgs + 1
                       /\ "app" \in calling'
                       /\ UNCHANGED <<socket, setup, pc>>
         /\ sendShouldExit /\ ~sendShouldExit' => exitMsg' = 0
<1>1. exitMsg' = exitMsg \/ exitMsg' = 0 \/ AppExit
  BY DEF Next, Alone, Connect, ClearQueue, SocketChange, AppDeinit, DeinitClose,
         DeinitSetExit, StopSend, Reinit, SetupPush, SetupNotify, Answer,
         AppSend, AppLocalPing, AppNotify, SendThread, vars
<1>2. AppExit => /\ exitMsg' = numOutputMsgs + 1
                 /\ numOutputMsgs' = numOutputMsgs + 1
                 /\ "app" \in calling'
                 /\ UNCHANGED <<socket, setup, pc>>
  BY DEF AppExit, S!Push, connVars
<1>3. Reinit \/ sendShouldExit' = sendShouldExit \/ sendShouldExit' = TRUE
  BY DEF Next, Alone, Connect, ClearQueue, SocketChange, AppDeinit, DeinitClose,
         DeinitSetExit, StopSend, SetupPush, SetupNotify, Answer, AppExit,
         AppSend, AppLocalPing, AppNotify, SendThread, vars, sendVars, S!Push,
         S!Notify, S!Sender, S!Wait, S!Reset, S!ExitTest, S!Write, S!More,
         S!LoopTest, S!DeinitNotify, S!DeinitJoin, S!DeinitClear, S!stopState
<1> QED
  BY <1>1, <1>2, <1>3 DEF Reinit

LEMMA SendingStep ==
  ASSUME CoreInv, SendingWhileRunning, [Next]_vars
  PROVE  SendingWhileRunning'
<1> USE DEF CoreInv, Pcs, SendingWhileRunning, C!Step, C!Goto, C!At, C!Threads
<1>1. CASE Alone
  <2>1. sendShouldExit' = sendShouldExit
    BY <1>1 DEF Alone, sendVars
  <2>2. CASE SigAlone
    BY <2>1, <2>2 DEF SigAlone, C!SigLoop, C!SigCheck, C!SigIfJust, C!SigSleep,
                      C!SigConnectFails, C!SigNotifyRecv, C!SigSetConnected,
                      C!SigResetDisc, C!SigInitTimer, C!SigWait
  <2>3. CASE RecvAlone
    BY <2>1, <2>3 DEF RecvAlone, C!RecvOwn, C!RecvWait, C!RecvExitTest,
                      C!RecvHandled, C!RecvReadFails, C!RecvFinalReset,
                      C!RecvLoopTest, C!RecvPacket, C!RecvCrash, C!IfConnected,
                      C!ClearConnected, C!SetJust, C!NotifyDisc, C!ResetReady,
                      C!ClosedForData
  <2>4. CASE AppAlone
    BY <2>1, <2>4 DEF AppAlone, C!AppInitReset, C!AppInitSig, C!AppStopSig,
                      C!AppSigStopped, C!AppWakeRecv, C!AppFreeInput,
                      C!AppExitRecv, C!AppJoinRecv
  <2> QED
    BY <1>1, <2>2, <2>3, <2>4 DEF Alone
<1>2. CASE Connect \/ ClearQueue \/ SocketChange
  BY <1>2 DEF Connect, ClearQueue, SocketChange, sendVars, C!SigConnect,
              C!SigInitSendQ, C!ClearSendQ, C!PeerDrops, C!Close, C!ReadFails
<1>3. CASE AppDeinit \/ DeinitClose \/ DeinitSetExit \/ StopSend \/ Reinit
  BY <1>3 DEF AppDeinit, DeinitClose, DeinitSetExit, StopSend, Reinit, sendVars,
              connVars, C!AppDeinit, C!AppCloseSocket, C!ReadFails,
              C!AppStopSend, C!AppInitRecv, C!AppInitSend, S!DeinitNotify,
              S!DeinitJoin, S!DeinitClear, S!Reinit
<1>4. CASE SetupNotify
  BY <1>4 DEF SetupNotify, S!Notify, S!stopState, C!SigSendInfo,
              C!SigSendGroup, C!SigSendPing
<1>5. CASE SetupPush \/ Answer \/ AppSend \/ AppExit \/ AppLocalPing \/ AppNotify
  BY <1>5 DEF SetupPush, Answer, AppSend, AppExit, AppLocalPing, AppNotify,
              connVars, S!Push, S!Notify, S!stopState, C!RecvHandled, C!AppLocalPing
<1>6. CASE SendThread \/ UNCHANGED vars
  BY <1>6 DEF SendThread, vars, connVars, sendVars, S!Sender, S!Wait, S!Reset,
              S!ExitTest, S!Write, S!More, S!LoopTest, S!stopState
<1> QED
  BY <1>1, <1>2, <1>3, <1>4, <1>5, <1>6 DEF Next

LEMMA AnnouncedStep ==
  ASSUME CoreInv, QueueInv, exitMsg \in 0..numOutputMsgs, numOutputMsgs \in Nat,
         ExitAnnounced, [Next]_vars
  PROVE  ExitAnnounced'
<1> SUFFICES ASSUME ~sendShouldExit', SP!Queued(exitMsg)'
             PROVE  SP!WillLook("app")'
  BY DEF ExitAnnounced
<1>1. exitMsg' # 0
  <2>1. SP!TypeInv'
    BY SameStep, QueueAssumption, SP!TypeStep DEF QueueInv
  <2>2. \A i \in 1..Len(outPacketQ') : outPacketQ'[i] # 0
    <3>1. outPacketQ' \in Seq(SP!Messages)
      BY <2>1 DEF SP!TypeInv, SP!TypeOK, SP!Messages
    <3>2. 0 \notin SP!Messages
      BY DEF SP!Messages
    <3> QED
      BY <3>1, <3>2, ElementOfSeq
  <2> QED
    BY <2>2 DEF SP!Queued
<1>2. CASE AppExit
  BY <1>2, ExitMsgChange DEF SP!WillLook
<1>3. CASE exitMsg' = exitMsg
  <2>1. ~sendShouldExit /\ exitMsg # numOutputMsgs + 1
    BY <1>1, ExitMsgChange
  <2>2. SP!Queued(exitMsg) => SP!WillLook("app")
    BY <2>1 DEF ExitAnnounced
  <2>3. PICK m : m = exitMsg
    OBVIOUS
  <2>4. /\ m # numOutputMsgs + 1
        /\ SP!Queued(m) => SP!WillLook("app")
        /\ SP!Queued(m)'
    BY <1>3, <2>1, <2>2, <2>3 DEF SP!Queued
  <2> QED
    BY <2>1, <2>4, SameStep, QueueAssumption, SP!LookStep DEF QueueInv
<1> QED
  BY <1>1, <1>2, <1>3, ExitMsgChange

\* A connection that has EXIT had it before, unless this step sends it.
LEMMA ExitConnection ==
  ASSUME CoreInv, QueueInv, SetupInv, exitMsg \in 0..numOutputMsgs,
         [Next]_vars, ExitOnConnection'
  PROVE  /\ exitMsg' # 0 /\ socket = "open" /\ "onConnect" \notin due
         /\ exitMsg' = exitMsg => ExitOnConnection
<1>1. /\ setup \in Seq(Nat \ {0}) /\ numOutputMsgs \in Nat /\ Counted
      /\ SetupInv'
  BY SetupStep DEF SetupInv, SentInOrder, Ordered
<1>2. /\ socket' = "open" /\ setup' # <<>> /\ exitMsg' > setup'[1]
      /\ setup' \in Seq(Nat \ {0})
  BY <1>1 DEF ExitOnConnection, SetupInv, Ordered
<1>3. setup'[1] \in Nat \ {0}
  BY <1>2
<1>4. exitMsg' \in Nat
  BY ExitMsgChange, <1>1
<1>5. exitMsg' # 0
  BY <1>2, <1>3, <1>4
<1>6. CASE setup' = setup
  <2>1. socket = "open"
    BY <1>2, <1>6, SetupChange DEF SetupPush
  <2> QED
    BY <1>1, <1>2, <1>5, <1>6, <2>1, SetupAfterOnConnect DEF ExitOnConnection
<1>7. CASE /\ SetupPush /\ socket = "open"
           /\ setup' = Append(setup, numOutputMsgs + 1)
           /\ numOutputMsgs' = numOutputMsgs + 1
  <2>1. "onConnect" \notin due
    BY <1>7 DEF SetupPush, due
  <2>2. ASSUME exitMsg' = exitMsg PROVE ExitOnConnection
    <3>1. setup # <<>>
      <4>1. setup = <<>> => setup'[1] = numOutputMsgs + 1
        BY <1>7
      <4> QED
        BY <1>1, <1>2, <2>2, <4>1
    <3>2. setup'[1] = setup[1]
      BY <1>1, <1>7, <3>1
    <3> QED
      BY <1>2, <1>7, <2>2, <3>1, <3>2 DEF ExitOnConnection
  <2> QED
    BY <1>5, <1>7, <2>1, <2>2
<1> QED
  BY <1>2, <1>6, <1>7, SetupChange

LEMMA ExitThereStep ==
  ASSUME CoreInv, QueueInv, SetupInv, exitMsg \in 0..numOutputMsgs, ExitThere,
         [Next]_vars, ExitOnConnection'
  PROVE  \E j \in 1..Len(Sent') : Sent'[j] = exitMsg'
<1>1. /\ exitMsg' # 0 /\ socket = "open" /\ "onConnect" \notin due
      /\ exitMsg' = exitMsg => ExitOnConnection
  BY ExitConnection
<1>2. numOutputMsgs \in Nat /\ Ordered(Sent, numOutputMsgs)
  BY DEF SetupInv, SentInOrder
<1>3. CASE AppExit
  <2>1. exitMsg' = numOutputMsgs + 1 /\ numOutputMsgs' = numOutputMsgs + 1
    BY <1>3, ExitMsgChange
  <2>2. Sent' = Sent \o <<numOutputMsgs + 1>>
    <3>1. numOutputMsgs + 1 # numOutputMsgs
      BY <1>2
    <3> QED
      BY <1>1, <2>1, <3>1, SentKept
  <2>3. /\ Len(Sent') = Len(Sent) + 1 /\ Len(Sent) \in Nat
        /\ Sent'[Len(Sent) + 1] = numOutputMsgs + 1
    BY <1>2, <2>2, OrderedAppend
  <2>4. Len(Sent) + 1 \in 1..Len(Sent')
    BY <2>3
  <2> QED
    BY <2>1, <2>3, <2>4
<1>4. CASE exitMsg' = exitMsg
  <2>1. \E j \in 1..Len(Sent) : Sent[j] = exitMsg
    BY <1>1, <1>4 DEF ExitThere
  <2>2. \E j \in 1..Len(Sent') : Sent'[j] = exitMsg
    BY <1>1, <2>1, StaysThere DEF SetupInv
  <2> QED
    BY <1>4, <2>2
<1> QED
  BY <1>1, <1>3, <1>4, ExitMsgChange

\* The members of two sequences in a row.
LEMMA ConcatParts ==
  ASSUME NEW M, NEW s \in Seq(M), NEW t \in Seq(M)
  PROVE  /\ Len(s) \in Nat /\ Len(t) \in Nat
         /\ Len(s \o t) = Len(s) + Len(t)
         /\ \A i \in 1..Len(s) : (s \o t)[i] = s[i]
         /\ \A i \in 1..Len(t) : (s \o t)[Len(s) + i] = t[i]
OBVIOUS

\* A message that is neither in the queue nor in the packet builder is out.
LEMMA OutOfQueue ==
  ASSUME QueueInv, writePacketBuilder.left = 0, NEW m, ~SP!Queued(m),
         \E j \in 1..Len(Sent) : Sent[j] = m
  PROVE  \E j \in 1..Len(wire) : wire[j] = m
<1>1. outPacketQ \in Seq(SP!Messages) /\ wire \in Seq(SP!Messages)
  BY DEF QueueInv, SP!TypeInv, SP!TypeOK
<1> DEFINE rest == SP!QueueBytes(outPacketQ)
<1>2. Sent = wire \o rest
  <2>1. SP!Repeated(writePacketBuilder.packet, writePacketBuilder.left) = <<>>
    BY DEF SP!Repeated
  <2>2. SP!Unwritten = <<>> \o rest
    BY <2>1, QueueAssumption, SP!UnwrittenIs
  <2>3. rest \in Seq(SP!Messages)
    BY <1>1, QueueAssumption, SP!QueueBytesType
  <2> HIDE DEF rest
  <2>4. <<>> \o rest = rest
    BY <2>3, ConcatEmptySeq
  <2> QED
    BY <2>2, <2>4, SentIsAll DEF SP!AllBytes
<1>3. /\ rest \in Seq(SP!Messages) /\ Len(rest) = Len(outPacketQ)
      /\ \A i \in 1..Len(outPacketQ) : rest[i] = outPacketQ[i]
  <2>1. /\ rest \in Seq(SP!Messages) /\ Len(rest) = Len(outPacketQ) * 1
        /\ \A i \in 1..Len(outPacketQ) * 1 :
             rest[i] = outPacketQ[1 + ((i - 1) \div 1)]
    BY <1>1, QueueAssumption, SP!QueueBytesType
  <2>2. Len(outPacketQ) * 1 = Len(outPacketQ)
    BY <1>1
  <2>3. \A i \in 1..Len(outPacketQ) : 1 + ((i - 1) \div 1) = i
    BY <1>1
  <2> QED
    BY <2>1, <2>2, <2>3
<1> HIDE DEF rest
<1>4. /\ Len(wire) \in Nat /\ Len(rest) \in Nat
      /\ Len(Sent) = Len(wire) + Len(rest)
      /\ \A i \in 1..Len(wire) : Sent[i] = wire[i]
      /\ \A i \in 1..Len(rest) : Sent[Len(wire) + i] = rest[i]
  <2>1. PICK N : wire \in Seq(N) /\ rest \in Seq(N)
    BY <1>1, <1>3
  <2>2. /\ Len(wire) \in Nat /\ Len(rest) \in Nat
        /\ Len(wire \o rest) = Len(wire) + Len(rest)
        /\ \A i \in 1..Len(wire) : (wire \o rest)[i] = wire[i]
        /\ \A i \in 1..Len(rest) : (wire \o rest)[Len(wire) + i] = rest[i]
    BY <2>1, ConcatParts
  <2> QED
    BY <1>2, <2>2
<1>5. PICK j \in 1..Len(Sent) : Sent[j] = m
  OBVIOUS
<1>6. CASE j <= Len(wire)
  BY <1>4, <1>5, <1>6
<1>7. CASE j > Len(wire)
  <2>1. j - Len(wire) \in 1..Len(rest) /\ Len(wire) + (j - Len(wire)) = j
    BY <1>4, <1>7
  <2>2. rest[j - Len(wire)] = m
    BY <1>4, <1>5, <2>1
  <2>3. outPacketQ[j - Len(wire)] = m /\ j - Len(wire) \in 1..Len(outPacketQ)
    BY <1>3, <2>1, <2>2
  <2> QED
    BY <2>3 DEF SP!Queued
<1>8. j <= Len(wire) \/ j > Len(wire)
  BY <1>4
<1> QED
  BY <1>6, <1>7, <1>8

\* deinit() is entered by AppDeinit only, and EXIT is sent before it.
LEMMA DeinitEntered ==
  ASSUME CoreInv, [Next]_vars, pc'["app"] \in {"stopSig", "closeSocket"}
  PROVE  /\ exitMsg' = exitMsg
         /\ pc["app"] \in {"stopSig", "closeSocket"} \/ AppDeinit
<1> USE DEF CoreInv, Pcs, C!Step, C!Goto, C!At, C!Threads
<1>1. CASE Alone
  <2>1. CASE SigAlone
    BY <1>1, <2>1 DEF Alone, SigAlone, C!SigLoop, C!SigCheck, C!SigIfJust,
                      C!SigSleep, C!SigConnectFails, C!SigNotifyRecv,
                      C!SigSetConnected, C!SigResetDisc, C!SigInitTimer,
                      C!SigWait
  <2>2. CASE RecvAlone
    BY <1>1, <2>2 DEF Alone, RecvAlone, C!RecvOwn, C!RecvWait, C!RecvExitTest,
                      C!RecvHandled, C!RecvReadFails, C!RecvFinalReset,
                      C!RecvLoopTest, C!RecvPacket, C!RecvCrash, C!IfConnected,
                      C!ClearConnected, C!SetJust, C!NotifyDisc, C!ResetReady,
                      C!ClosedForData
  <2>3. CASE AppAlone
    BY <1>1, <2>3 DEF Alone, AppAlone, C!AppInitReset, C!AppInitSig,
                      C!AppStopSig, C!AppSigStopped, C!AppWakeRecv,
                      C!AppFreeInput, C!AppExitRecv, C!AppJoinRecv
  <2> QED
    BY <1>1, <2>1, <2>2, <2>3 DEF Alone
<1>2. CASE Connect \/ ClearQueue \/ SocketChange
  BY <1>2 DEF Connect, ClearQueue, SocketChange, C!SigConnect, C!SigInitSendQ,
              C!ClearSendQ, C!PeerDrops, C!Close, C!ReadFails
<1>3. CASE AppDeinit \/ DeinitClose \/ DeinitSetExit \/ StopSend \/ Reinit
  BY <1>3 DEF AppDeinit, DeinitClose, DeinitSetExit, StopSend, Reinit,
              connVars, C!AppDeinit, C!AppCloseSocket, C!ReadFails,
              C!AppStopSend, C!AppInitRecv, C!AppInitSend
<1>4. CASE SetupNotify
  BY <1>4 DEF SetupNotify, C!SigSendInfo, C!SigSendGroup, C!SigSendPing
<1>5. CASE SetupPush \/ Answer \/ AppSend \/ AppExit \/ AppLocalPing \/ AppNotify
  BY <1>5 DEF SetupPush, Answer, AppSend, AppExit, AppLocalPing, AppNotify,
              connVars, C!RecvHandled, C!AppLocalPing
<1>6. CASE SendThread \/ UNCHANGED vars
  BY <1>6 DEF SendThread, vars, connVars
<1> QED
  BY <1>1, <1>2, <1>3, <1>4, <1>5, <1>6 DEF Next

\* The shell's sleep ends when the send thread sleeps on an empty queue: all that
\* was sent is on the wire then.
LEMMA ExitOutStep ==
  ASSUME ExitOutlastsSend, CoreInv, QueueInv, SetupInv, ExitInv, [Next]_vars
  PROVE  ExitOut'
<1> SUFFICES ASSUME ExitOnConnection',
                    pc'["app"] \in {"stopSig", "closeSocket"}
             PROVE  \E j \in 1..Len(wire') : wire'[j] = exitMsg'
  BY DEF ExitOut
<1>1. exitMsg' = exitMsg
  BY DeinitEntered
<1>2. /\ exitMsg # 0 /\ socket = "open" /\ "onConnect" \notin due
      /\ ExitOnConnection
  BY <1>1, ExitConnection DEF ExitInv
<1>3. CASE pc["app"] \in {"stopSig", "closeSocket"}
  <2>1. PICK m : m = exitMsg
    OBVIOUS
  <2>2. \E j \in 1..Len(wire) : wire[j] = m
    BY <1>2, <1>3, <2>1 DEF ExitInv, ExitOut
  <2>3. \E j \in 1..Len(wire') : wire'[j] = m
    BY <1>2, <2>2, SameStep, QueueAssumption, SP!WireGrows DEF QueueInv
  <2> QED
    BY <1>1, <2>1, <2>3
<1>4. CASE AppDeinit
  <2>1. /\ sender = "wait" /\ ~eventPacketsAvailableToSend
        /\ "app" \notin calling
        /\ pc["app"] = "running"
        /\ wire' = wire
    BY <1>2, <1>4 DEF AppDeinit, sendVars, C!AppDeinit, C!Step, C!Goto, C!At
  <2>2. ~SP!WillLook("app")
    BY <2>1 DEF SP!WillLook
  <2>3. ~sendShouldExit
    BY <2>1 DEF ExitInv, SendingWhileRunning
  <2>4. ~SP!Queued(exitMsg)
    BY <2>2, <2>3 DEF ExitInv, ExitAnnounced
  <2>5. writePacketBuilder.left = 0
    BY <1>2 DEF ExitInv, SP!BuilderEmpty, due
  <2>6. \E j \in 1..Len(Sent) : Sent[j] = exitMsg
    BY <1>2 DEF ExitInv, ExitThere
  <2>7. \E j \in 1..Len(wire) : wire[j] = exitMsg
    BY <2>4, <2>5, <2>6, OutOfQueue
  <2> QED
    BY <1>1, <2>1, <2>7
<1> QED
  BY <1>3, <1>4, DeinitEntered

LEMMA ExitStep ==
  ASSUME ExitOutlastsSend, CoreInv, QueueInv, SetupInv, ExitInv, [Next]_vars
  PROVE  ExitInv'
<1>1. numOutputMsgs \in Nat
  BY DEF SetupInv, SentInOrder, Ordered
<1>2. exitMsg' \in 0..numOutputMsgs'
  <2>1. numOutputMsgs' = numOutputMsgs \/ numOutputMsgs' = numOutputMsgs + 1
    BY CountUp DEF SetupInv
  <2>2. exitMsg \in 0..numOutputMsgs
    BY DEF ExitInv
  <2> QED
    BY <1>1, <2>1, <2>2, ExitMsgChange
<1>3. SP!BuilderEmpty'
  BY SameStep, QueueAssumption, SP!BuilderEmptyStep DEF QueueInv, ExitInv
<1>4. SendingWhileRunning'
  BY SendingStep DEF ExitInv
<1>5. ExitAnnounced'
  BY <1>1, AnnouncedStep DEF ExitInv
<1>6. ExitThere'
  <2>1. ASSUME ExitOnConnection'
        PROVE  \E j \in 1..Len(Sent') : Sent'[j] = exitMsg'
    BY <2>1, ExitThereStep DEF ExitInv
  <2> QED
    BY <2>1 DEF ExitThere
<1>7. ExitOut'
  BY ExitOutStep
<1> QED
  BY <1>2, <1>3, <1>4, <1>5, <1>6, <1>7 DEF ExitInv

LEMMA ExitInit == Init => ExitInv
<1> SUFFICES ASSUME Init PROVE ExitInv
  OBVIOUS
<1>1. SP!Init
  BY SameInit, InitIsSendActivity
<1>2. setup = <<>> /\ exitMsg = 0
  BY DEF Init
<1>3. /\ numOutputMsgs = 0 /\ sendShouldExit = FALSE /\ socket = "closed"
      /\ outPacketQ = <<>>
  BY <1>1 DEF SP!Init
<1>4. ~SP!Queued(exitMsg)
  BY <1>3, EmptySeq DEF SP!Queued
<1> QED
  BY <1>2, <1>3, <1>4
     DEF ExitInv, SP!BuilderEmpty, SendingWhileRunning, ExitAnnounced,
         ExitThere, ExitOut, ExitOnConnection

\* ExitGoesOut: ExitSent holds of every behaviour if a successful attempt to
\* connect outlasts a teardown and the shell's sleep outlasts the send thread: no
\* onDisconnect() drops EXIT, and no lost wake-up leaves it in the queue.
THEOREM ExitGoesOut ==
  ASSUME ConnectOutlastsTeardown, ExitOutlastsSend
  PROVE  Spec => ExitSent
<1>1. CoreInv /\ QueueInv /\ SetupInv /\ ExitInv /\ [Next]_vars
        => CoreInv' /\ QueueInv' /\ SetupInv' /\ ExitInv'
  BY CoreStep, QueueStep, SetupStep, ExitStep
<1>2. QueueInv /\ ExitInv =>
        (C!AppCloseSocket /\ socket = "open" /\ setup # <<>>
           /\ exitMsg > setup[1] => exitMsg \in ToSet(wire))
  <2> SUFFICES ASSUME QueueInv, ExitInv, C!AppCloseSocket, socket = "open",
                      setup # <<>>, exitMsg > setup[1]
               PROVE  exitMsg \in ToSet(wire)
    OBVIOUS
  <2>1. \E j \in 1..Len(wire) : wire[j] = exitMsg
    BY DEF ExitInv, ExitOut, ExitOnConnection, C!AppCloseSocket, C!At
  <2>2. DOMAIN wire = 1..Len(wire)
    BY DEF QueueInv, SP!TypeInv, SP!TypeOK
  <2> QED
    BY <2>1, <2>2 DEF ToSet
<1> QED
  BY <1>1, <1>2, CoreInit, QueueInit, SetupInit, ExitInit, PTL
     DEF Spec, ExitSent

=============================================================================
