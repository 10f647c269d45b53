--------------------------- MODULE DeliveryProofs ----------------------------
(***************************************************************************)
(* Proofs about Delivery, for any number of packets and publications.      *)
(***************************************************************************)
EXTENDS Delivery, TLAPS

LEMMA TypeRecv ==
  ASSUME TypeOK, Recv \/ onDisconnect \/ deinit
  PROVE  TypeOK'
<1> USE DeliveryAssumption DEF TypeOK, recvState, managerState, appState, Goto
<1>1. ASSUME NEW kind \in Kinds, Push(kind)
      PROVE  TypeOK'
  <2>1. [id |-> numReceived + 1, kind |-> kind] \in Packets
    BY <1>1 DEF Push, Packets
  <2>2. inPacketQ' \in Seq(Packets)
    BY <1>1, <2>1 DEF Push
  <2>3. numReceived' \in 0..MaxPackets
    BY <1>1 DEF Push
  <2> QED
    BY <1>1, <2>2, <2>3 DEF Push
<1>2. CASE ReportPacket \/ ReportRead
  <2>1. recv' \in {"reading", "pushed", "notifyPushed", "read", "notifyRead"}
    BY <1>2 DEF ReportPacket, ReportRead, IfOpen, onReceivedDataEvent
  <2>2. msgsReceived' \in BOOLEAN
    BY <1>2 DEF ReportPacket, ReportRead, IfOpen, onReceivedDataEvent
  <2>3. UNCHANGED <<stream, inPacketQ, numReceived, managerState, appState>>
    BY <1>2 DEF ReportPacket, ReportRead, IfOpen, onReceivedDataEvent
  <2> QED
    BY <2>1, <2>2, <2>3
<1>3. CASE onOpenForDataEvent \/ onClosedForDataEvent \/ OtherSignal
             \/ onDisconnect
  BY <1>3 DEF onOpenForDataEvent, onClosedForDataEvent, OtherSignal,
              onDisconnect, Closed
<1>4. CASE deinit
  <2>1. inPacketQ' \in Seq(Packets)
    BY <1>4 DEF deinit
  <2> QED
    BY <1>4, <2>1 DEF deinit
<1> QED
  BY <1>1, <1>2, <1>3, <1>4 DEF Recv

LEMMA TypeManager ==
  ASSUME TypeOK, Manager \/ TakePacket
  PROVE  TypeOK'
<1> USE DEF TypeOK, recvState, managerState, appState, Poll
<1>1. CASE Start \/ Reset \/ HasPacket \/ StreamTest \/ PopEmpty
  BY <1>1 DEF Start, Reset, HasPacket, StreamTest, PopEmpty
<1>2. CASE Pop
  <2>1. Head(inPacketQ) \in Packets /\ inPacketQ' \in Seq(Packets)
    BY <1>2 DEF Pop
  <2>2. activityMap' \in [Publications -> 0..MaxPackets]
    BY <1>2, <2>1, DeliveryAssumption DEF Pop, Process, Packets
  <2>3. returned' \in {"true", "false", "thrown"}
    BY <1>2 DEF Pop, Process
  <2> QED
    BY <1>2, <2>1, <2>2, <2>3 DEF Pop, Process
<1>3. CASE TakePacket
  BY <1>3 DEF TakePacket, TakeTest, TakeEmpty, TakePop
<1> QED
  BY <1>1, <1>2, <1>3 DEF Manager

LEMMA TypeInit == Init => TypeOK
<1> SUFFICES ASSUME Init PROVE TypeOK
  OBVIOUS
<1> USE DEF Init
<1>1. inPacketQ \in Seq(Packets)
  OBVIOUS
<1>2. numReceived \in 0..MaxPackets
  BY DeliveryAssumption
<1>3. activityMap \in [Publications -> 0..MaxPackets]
  BY DeliveryAssumption
<1> QED
  BY <1>1, <1>2, <1>3 DEF TypeOK

LEMMA TypeStep == ASSUME TypeOK, [Next]_vars PROVE TypeOK'
<1>1. CASE UNCHANGED vars
  BY <1>1 DEF vars, recvState, managerState, appState, TypeOK
<1> QED
  BY <1>1, TypeRecv, TypeManager DEF Next

\* TypeCorrect: the variables keep their types, whatever is received and polled.
THEOREM TypeCorrect == Spec => []TypeOK
<1>1. TypeOK /\ [Next]_vars => TypeOK'
  BY TypeStep
<1> QED
  BY TypeInit, <1>1, PTL DEF Spec

-----------------------------------------------------------------------------
\* NothingStranded: NoStrandedPacket holds of every behaviour; it is inductive
\* as it stands.  An open stream's queue is safe because the report that follows
\* a message, any message, comes after everything the message changed.
THEOREM NothingStranded == Spec => []NoStrandedPacket
<1>1. Init => NoStrandedPacket
  BY DEF Init, NoStrandedPacket
<1>2. NoStrandedPacket /\ [Next]_vars => NoStrandedPacket'
  <2> SUFFICES ASSUME NoStrandedPacket, [Next]_vars PROVE NoStrandedPacket'
    OBVIOUS
  <2> USE DEF NoStrandedPacket, GaveUp, recvState, managerState, appState, Goto,
              Poll
  <2>1. CASE UNCHANGED vars
    BY <2>1 DEF vars
  <2>2. ASSUME NEW kind \in Kinds, Push(kind)
        PROVE  NoStrandedPacket'
    BY <2>2 DEF Push
  <2>3. CASE ReportPacket \/ ReportRead
    BY <2>3 DEF ReportPacket, ReportRead, IfOpen, onReceivedDataEvent
  <2>4. CASE onOpenForDataEvent \/ onClosedForDataEvent \/ OtherSignal
    BY <2>4 DEF onOpenForDataEvent, onClosedForDataEvent, OtherSignal
  <2>5. CASE onDisconnect \/ deinit
    BY <2>5 DEF onDisconnect, deinit, Closed
  <2>6. CASE Start \/ Reset \/ HasPacket \/ StreamTest \/ PopEmpty
    BY <2>6 DEF Start, Reset, HasPacket, StreamTest, PopEmpty
  <2>7. CASE Pop
    BY <2>7 DEF Pop, Process
  <2>8. CASE TakePacket
    BY <2>8 DEF TakePacket, TakeTest, TakeEmpty, TakePop
  <2> QED
    BY <2>1, <2>2, <2>3, <2>4, <2>5, <2>6, <2>7, <2>8 DEF Next, Recv, Manager
<1> QED
  BY <1>1, <1>2, PTL DEF Spec

-----------------------------------------------------------------------------
(* Acks are processed in the order in which they came. *)

\* The queue is in the order of arrival.
QueueOrdered ==
  /\ \A i, j \in 1..Len(inPacketQ) : i < j => inPacketQ[i].id < inPacketQ[j].id
  /\ \A i \in 1..Len(inPacketQ) : inPacketQ[i].id <= numReceived

\* What PublishActivity holds came before everything in the queue.
AcksBeforeQueue ==
  \A u \in Publications :
    /\ activityMap[u] <= numReceived
    /\ \A i \in 1..Len(inPacketQ) : activityMap[u] < inPacketQ[i].id

AckInv == TypeOK /\ QueueOrdered /\ AcksBeforeQueue

LEMMA AckInit == Init => AckInv
<1> SUFFICES ASSUME Init PROVE AckInv
  OBVIOUS
<1>1. QueueOrdered /\ AcksBeforeQueue
  BY DEF Init, QueueOrdered, AcksBeforeQueue
<1> QED
  BY <1>1, TypeInit DEF AckInv

LEMMA QueueIds ==
  ASSUME TypeOK PROVE \A i \in 1..Len(inPacketQ) : inPacketQ[i].id \in Nat
<1> SUFFICES ASSUME NEW i \in 1..Len(inPacketQ) PROVE inPacketQ[i].id \in Nat
  OBVIOUS
<1>1. inPacketQ[i] \in Packets
  BY DEF TypeOK
<1> QED
  BY <1>1, DeliveryAssumption DEF Packets

LEMMA AckPush ==
  ASSUME AckInv, NEW kind \in Kinds, Push(kind)
  PROVE  QueueOrdered' /\ AcksBeforeQueue'
<1> USE DEF AckInv, TypeOK, Push, Goto, managerState, appState
<1>1. /\ Len(inPacketQ') = Len(inPacketQ) + 1
      /\ \A i \in 1..Len(inPacketQ) : inPacketQ'[i] = inPacketQ[i]
      /\ inPacketQ'[Len(inPacketQ) + 1].id = numReceived + 1
      /\ numReceived' = numReceived + 1
  <2> DEFINE packet == [id |-> numReceived + 1, kind |-> kind]
  <2>1. packet \in Packets
    BY DeliveryAssumption DEF Packets
  <2>2. packet.id = numReceived + 1
    OBVIOUS
  <2>3. inPacketQ' = Append(inPacketQ, packet)
    OBVIOUS
  <2> HIDE DEF packet
  <2> QED
    BY <2>1, <2>2, <2>3
<1>2. \A i \in 1..Len(inPacketQ) : inPacketQ[i].id \in Nat
  BY QueueIds
<1>3. QueueOrdered'
  BY <1>1, <1>2 DEF QueueOrdered
<1>4. AcksBeforeQueue'
  BY <1>1, <1>2 DEF AcksBeforeQueue
<1> QED
  BY <1>3, <1>4

\* Taking the head of the queue keeps its order, whoever does it.
LEMMA AckTail ==
  ASSUME AckInv, inPacketQ # <<>>, inPacketQ' = Tail(inPacketQ),
         numReceived' = numReceived
  PROVE  /\ QueueOrdered'
         /\ \A i \in 1..Len(inPacketQ') : Head(inPacketQ).id < inPacketQ'[i].id
         /\ \A u \in Publications : \A i \in 1..Len(inPacketQ') :
              activityMap[u] < inPacketQ'[i].id
<1> USE DEF AckInv, TypeOK
<1>1. /\ Len(inPacketQ') = Len(inPacketQ) - 1
      /\ \A i \in 1..Len(inPacketQ') :
           i + 1 \in 1..Len(inPacketQ) /\ inPacketQ'[i] = inPacketQ[i + 1]
      /\ Head(inPacketQ) = inPacketQ[1] /\ 1 \in 1..Len(inPacketQ)
  OBVIOUS
<1> QED
  BY <1>1 DEF QueueOrdered, AcksBeforeQueue

LEMMA AckPop == ASSUME AckInv, Pop PROVE QueueOrdered' /\ AcksBeforeQueue'
<1> USE DEF AckInv, TypeOK, Pop, recvState
<1>1. Head(inPacketQ).id <= numReceived
  <2>1. Head(inPacketQ) = inPacketQ[1] /\ 1 \in 1..Len(inPacketQ)
    OBVIOUS
  <2> QED
    BY <2>1 DEF QueueOrdered
<1>2. \A u \in Publications :
        activityMap'[u] \in {activityMap[u], Head(inPacketQ).id}
  BY DEF Process
<1>3. AcksBeforeQueue'
  BY <1>1, <1>2, AckTail DEF AcksBeforeQueue
<1> QED
  BY <1>3, AckTail

LEMMA AckStep == ASSUME AckInv, [Next]_vars PROVE AckInv'
<1>1. TypeOK'
  BY TypeStep DEF AckInv
<1> USE DEF recvState, managerState, appState, Goto, Poll
<1>2. CASE \/ UNCHANGED vars
           \/ ReportPacket \/ ReportRead
           \/ onOpenForDataEvent \/ onClosedForDataEvent \/ OtherSignal
           \/ onDisconnect
           \/ Start \/ Reset \/ HasPacket \/ StreamTest \/ PopEmpty
           \/ TakeTest \/ TakeEmpty
  <2>1. UNCHANGED <<inPacketQ, numReceived, activityMap>>
    BY <1>2 DEF vars, ReportPacket, ReportRead, IfOpen, onReceivedDataEvent,
                onOpenForDataEvent, onClosedForDataEvent, OtherSignal,
                onDisconnect, Start, Reset, HasPacket, StreamTest, PopEmpty,
                TakeTest, TakeEmpty
  <2> QED
    BY <1>1, <2>1 DEF AckInv, QueueOrdered, AcksBeforeQueue
<1>3. CASE deinit
  BY <1>1, <1>3 DEF deinit, AckInv, QueueOrdered, AcksBeforeQueue
<1>4. CASE TakePop
  <2>1. QueueOrdered' /\ AcksBeforeQueue'
    BY <1>4, AckTail DEF TakePop, AckInv, AcksBeforeQueue
  <2> QED
    BY <1>1, <2>1 DEF AckInv
<1>5. CASE Pop
  BY <1>1, <1>5, AckPop DEF AckInv
<1>6. CASE \E kind \in Kinds : Push(kind)
  BY <1>1, <1>6, AckPush DEF AckInv
<1> QED
  BY <1>2, <1>3, <1>4, <1>5, <1>6 DEF Next, Recv, Manager, TakePacket

\* AcksNeverGoBack: AcksAdvance holds of every behaviour, because the queue is in
\* the order of arrival and everything acknowledged came before it.
THEOREM AcksNeverGoBack == Spec => AcksAdvance
<1>1. AckInv /\ [Next]_vars
        => [\A u \in Publications : activityMap'[u] >= activityMap[u]]_vars
  <2> SUFFICES ASSUME AckInv, Next, NEW u \in Publications
               PROVE  activityMap'[u] >= activityMap[u]
    OBVIOUS
  <2>1. activityMap[u] \in Nat
    BY DEF AckInv, TypeOK
  <2>2. CASE Pop
    <3>1. activityMap'[u] \in {activityMap[u], Head(inPacketQ).id}
      BY <2>2 DEF Pop, Process
    <3>2. Head(inPacketQ) = inPacketQ[1] /\ 1 \in 1..Len(inPacketQ)
      BY <2>2 DEF Pop, AckInv, TypeOK
    <3>3. inPacketQ[1].id \in Nat
      BY <3>2, QueueIds DEF AckInv
    <3> QED
      BY <2>1, <3>1, <3>2, <3>3 DEF AckInv, AcksBeforeQueue
  <2>3. CASE ~Pop
    <3>1. activityMap' = activityMap
      <4>1. CASE Manager
        BY <2>3, <4>1 DEF Manager, Start, Reset, HasPacket, StreamTest, PopEmpty
      <4>2. CASE Recv \/ onDisconnect \/ deinit \/ TakePacket
        BY <4>2 DEF Recv, Push, ReportPacket, ReportRead, IfOpen,
                    onReceivedDataEvent, onOpenForDataEvent, OtherSignal,
                    onClosedForDataEvent, onDisconnect, deinit, TakePacket,
                    TakeTest, TakeEmpty, TakePop, managerState, appState
      <4> QED
        BY <4>1, <4>2 DEF Next
    <3> QED
      BY <2>1, <3>1
  <2> QED
    BY <2>2, <2>3
<1>2. AckInv /\ [Next]_vars => AckInv'
  BY AckStep
<1> QED
  BY AckInit, <1>1, <1>2, PTL DEF Spec, AcksAdvance
=============================================================================
