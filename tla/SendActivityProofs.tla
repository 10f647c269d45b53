------------------------- MODULE SendActivityProofs --------------------------
(***************************************************************************)
(* Proofs about SendActivity, for any set of callers, any number and       *)
(* length of messages and any timing of the connection around it.          *)
(***************************************************************************)
EXTENDS SendActivity, SequenceTheorems, TLAPS

(* The types *)

\* A packet builder with something to send holds a message, not NoPacket.
BuilderLoaded == writePacketBuilder.left > 0 => writePacketBuilder.packet \in Messages

TypeInv == TypeOK /\ BuilderLoaded

LEMMA TypeInit == Init => TypeInv
<1> SUFFICES ASSUME Init PROVE TypeInv
  OBVIOUS
<1> USE SendActivityAssumption DEF Init
<1>1. outPacketQ \in Seq(Messages) /\ wire \in Seq(Messages) /\ early \in Nat
  OBVIOUS
<1>2. /\ writePacketBuilder \in [packet : 0..MaxMessages, left : 0..MessageLength]
      /\ ~(writePacketBuilder.left > 0)
  BY DEF NoPacket
<1>3. eventPacketsAvailableToSend \in BOOLEAN /\ shouldExit \in BOOLEAN
  OBVIOUS
<1>4. numOutputMsgs \in 0..MaxMessages
  OBVIOUS
<1> QED
  BY <1>1, <1>2, <1>3, <1>4 DEF TypeInv, TypeOK, BuilderLoaded

LEMMA TypeCallers ==
  ASSUME TypeInv, NEW c \in Callers, Push(c) \/ Notify(c)
  PROVE  TypeInv'
<1> USE SendActivityAssumption
        DEF TypeInv, TypeOK, BuilderLoaded, senderState, stopState
<1>1. CASE Push(c)
  <2>1. numOutputMsgs' \in 0..MaxMessages /\ numOutputMsgs + 1 \in Messages
    BY <1>1 DEF Push, Messages
  <2>2. outPacketQ' \in Seq(Messages)
    BY <1>1, <2>1 DEF Push
  <2> QED
    BY <1>1, <2>1, <2>2 DEF Push
<1>2. CASE Notify(c)
  BY <1>2 DEF Notify
<1> QED
  BY <1>1, <1>2

LEMMA TypeWrite ==
  ASSUME TypeInv, Write
  PROVE  TypeInv'
<1> USE DEF TypeInv
<1>1. CASE UNCHANGED senderState
  BY <1>1 DEF Write, Goto, senderState, stopState, callerState, TypeOK,
              BuilderLoaded
<1>2. CASE ~UNCHANGED senderState
  <2>1. /\ writePacketBuilder.left > 0 \/ outPacketQ # <<>>
        /\ \E n \in Sendable(Loaded.left) :
             /\ writePacketBuilder' = [Loaded EXCEPT !.left = @ - n]
             /\ wire' = wire \o [i \in 1..n |-> Loaded.packet]
        /\ early' = early
        /\ outPacketQ' = IF writePacketBuilder.left > 0 THEN outPacketQ
                                                        ELSE Tail(outPacketQ)
    BY <1>2 DEF Write
  <2>2. Loaded \in [packet : Messages, left : 1..MessageLength]
    <3>1. CASE writePacketBuilder.left > 0
      BY <3>1 DEF Loaded, TypeOK, BuilderLoaded
    <3>2. CASE ~(writePacketBuilder.left > 0)
      BY <2>1, <3>2, SendActivityAssumption DEF Loaded, TypeOK
    <3> QED
      BY <3>1, <3>2
  <2>3. PICK n \in Sendable(Loaded.left) :
          /\ writePacketBuilder' = [Loaded EXCEPT !.left = @ - n]
          /\ wire' = wire \o [i \in 1..n |-> Loaded.packet]
    BY <2>1
  <2>4. n \in 0..Loaded.left
    BY <2>2, SendActivityAssumption DEF Sendable, TypeOK
  <2>5. writePacketBuilder' \in [packet : Messages, left : 0..MessageLength]
    <3>1. /\ Loaded = [packet |-> Loaded.packet, left |-> Loaded.left]
          /\ Loaded.packet \in Messages /\ Loaded.left \in 1..MessageLength
      BY <2>2
    <3>2. writePacketBuilder' = [packet |-> Loaded.packet,
                                 left |-> Loaded.left - n]
      BY <2>3, <3>1
    <3> QED
      BY <2>4, <3>1, <3>2, SendActivityAssumption
  <2>6. [i \in 1..n |-> Loaded.packet] \in Seq(Messages)
    BY <2>2, <2>4, SendActivityAssumption
  <2>7. wire' \in Seq(Messages)
    BY <2>3, <2>6 DEF TypeOK
  <2>8. outPacketQ' \in Seq(Messages)
    <3>1. CASE writePacketBuilder.left > 0
      BY <2>1, <3>1 DEF TypeOK
    <3>2. CASE ~(writePacketBuilder.left > 0)
      BY <2>1, <3>2 DEF TypeOK
    <3> QED
      BY <3>1, <3>2
  <2>9. /\ writePacketBuilder' \in [packet : 0..MaxMessages, left : 0..MessageLength]
        /\ BuilderLoaded'
    BY <2>5, SendActivityAssumption DEF Messages, BuilderLoaded
  <2> QED
    BY <2>1, <2>7, <2>8, <2>9 DEF Write, Goto, TypeOK, stopState, callerState
<1> QED
  BY <1>1, <1>2

LEMMA TypeOther ==
  ASSUME TypeInv, \/ Wait \/ Reset \/ ExitTest \/ More \/ LoopTest
                  \/ Client \/ DeinitClose \/ Deinit \/ Reinit
  PROVE  TypeInv'
<1> USE SendActivityAssumption
        DEF TypeInv, TypeOK, BuilderLoaded, Goto, senderState, stopState,
            callerState, Clear
<1>1. CASE Wait
  BY <1>1 DEF Wait
<1>2. CASE Reset
  BY <1>2 DEF Reset
<1>3. CASE ExitTest
  BY <1>3 DEF ExitTest
<1>4. CASE More
  BY <1>4 DEF More
<1>5. CASE LoopTest
  BY <1>5 DEF LoopTest
<1>6. NoPacket \in [packet : 0..MaxMessages, left : 0..MessageLength]
        /\ ~(NoPacket.left > 0)
  BY DEF NoPacket
<1>7. CASE Connect \/ PeerDrops \/ CloseSocket
  <2>1. socket' \in {"closed", "open", "dead"}
    BY <1>7 DEF Connect, PeerDrops, CloseSocket
  <2>2. wire' = <<>> \/ wire' = wire
    BY <1>7 DEF Connect, PeerDrops, CloseSocket
  <2>3. wire' \in Seq(Messages)
    <3>1. <<>> \in Seq(Messages)
      OBVIOUS
    <3> QED
      BY <2>2, <3>1
  <2>4. due' \in SUBSET {"onConnect", "onDisconnect"}
    BY <1>7 DEF Connect, PeerDrops, CloseSocket
  <2> QED
    BY <1>7, <2>1, <2>4, <2>3 DEF Connect, PeerDrops, CloseSocket
<1>8. CASE OnConnect \/ OnDisconnect
  <2>1. outPacketQ' = <<>> /\ writePacketBuilder' = NoPacket
    BY <1>8 DEF OnConnect, OnDisconnect
  <2>2. outPacketQ' \in Seq(Messages)
    BY <2>1
  <2>3. due' \in SUBSET {"onConnect", "onDisconnect"}
    BY <1>8 DEF OnConnect, OnDisconnect
  <2>4. early' \in Nat
    BY <1>8 DEF OnConnect, OnDisconnect
  <2> QED
    BY <1>6, <1>8, <2>1, <2>3, <2>2, <2>4 DEF OnConnect, OnDisconnect
<1>9. CASE DeinitClose \/ DeinitSetExit \/ DeinitNotify \/ DeinitJoin
  BY <1>9 DEF DeinitClose, DeinitSetExit, DeinitNotify, DeinitJoin
<1>10. CASE DeinitClear
  BY <1>6, <1>10 DEF DeinitClear
<1>11. CASE Reinit
  BY <1>6, <1>11 DEF Reinit
<1> QED
  BY <1>1, <1>2, <1>3, <1>4, <1>5, <1>7, <1>8, <1>9, <1>10, <1>11
     DEF Client, Deinit

LEMMA TypeStep == TypeInv /\ [Next]_vars => TypeInv'
<1> SUFFICES ASSUME TypeInv, [Next]_vars PROVE TypeInv'
  OBVIOUS
<1>1. CASE UNCHANGED vars
  BY <1>1 DEF vars, senderState, stopState, callerState, TypeInv, TypeOK,
              BuilderLoaded
<1> QED
  BY <1>1, TypeCallers, TypeWrite, TypeOther DEF Next, Sender

\* TypeCorrect: the variables keep their types through every interleaving of
\* the callers, the send thread and the client around them.
THEOREM TypeCorrect == Spec => []TypeOK
<1>1. TypeInv => TypeOK
  BY DEF TypeInv
<1> QED
  BY <1>1, TypeInit, TypeStep, PTL DEF Spec
-----------------------------------------------------------------------------
(* The wakeup *)

\* The send thread is past its last look at the queue, or asleep.
NotLooking == sender \in {"wait", "loopTest"}

\* deinit() leaves an empty queue to the next init(), which resets the event.
DoneClean ==
  /\ deiniter \in {"notify", "join", "clear", "done"} => shouldExit
  /\ deiniter = "done" => outPacketQ = <<>>

WakeupInv ==
  /\ DoneClean
  /\ NotLooking /\ outPacketQ # <<>> =>
       eventPacketsAvailableToSend \/ calling # {}

LEMMA WakeupStep == ASSUME WakeupInv, [Next]_vars PROVE WakeupInv'
<1> USE DEF WakeupInv, NotLooking, DoneClean,
            senderState, stopState, callerState, Goto, Clear
<1>1. CASE UNCHANGED vars
  BY <1>1 DEF vars
<1>2. ASSUME NEW c \in Callers, Push(c) \/ Notify(c)
      PROVE  WakeupInv'
  BY <1>2 DEF Push, Notify
<1>3. CASE Sender
  BY <1>3 DEF Sender, Wait, Reset, ExitTest, Write, More, LoopTest
<1>4. CASE Client
  BY <1>4 DEF Client, Connect, OnConnect, PeerDrops, CloseSocket, OnDisconnect
<1>5. CASE DeinitClose \/ Deinit
  BY <1>5 DEF DeinitClose, Deinit, DeinitSetExit, DeinitNotify, DeinitJoin,
              DeinitClear
<1>6. CASE Reinit
  BY <1>6 DEF Reinit
<1> QED
  BY <1>1, <1>2, <1>3, <1>4, <1>5, <1>6 DEF Next

\* NeverForgotten: NoLostWakeup holds of every behaviour.  The thread leaves
\* writePackets() only with an empty queue, so what is in the queue after that
\* was pushed after that, and its caller has yet to notify or has notified.
THEOREM NeverForgotten == Spec => []NoLostWakeup
<1>1. Init => WakeupInv
  BY DEF Init, WakeupInv, DoneClean
<1>2. WakeupInv /\ [Next]_vars => WakeupInv'
  BY WakeupStep
<1>3. WakeupInv => NoLostWakeup
  BY DEF WakeupInv, NotLooking, NoLostWakeup
<1> QED
  BY <1>1, <1>2, <1>3, PTL DEF Spec
-----------------------------------------------------------------------------
(* No remainder of an old connection *)

\* A connection is made only with nothing or a whole message in the builder.
BuilderWhole ==
  socket = "closed" /\ "onDisconnect" \notin due /\ deiniter = "running"
    => writePacketBuilder.left \in {0, MessageLength}

\* With ConnectOutlastsTeardown the next connection waits for onDisconnect().
DownUntilCleared == "onDisconnect" \in due => socket = "closed"

RemainderInv ==
  /\ early <= Len(wire)
  /\ DownUntilCleared
  /\ BuilderWhole
  /\ socket # "closed" => EndsInRemainder

\* What one writePacket() appends, it takes from the message in the builder.
LEMMA RemainderWrite ==
  ASSUME TypeInv, RemainderInv, Write
  PROVE  RemainderInv'
<1> USE SendActivityAssumption DEF TypeInv, RemainderInv
<1>1. CASE UNCHANGED senderState
  BY <1>1 DEF Write, Goto, senderState, stopState, DownUntilCleared,
              BuilderWhole, EndsInRemainder, Sent
<1>2. CASE ~UNCHANGED senderState
  <2>1. PICK n \in Sendable(Loaded.left) :
          /\ writePacketBuilder' = [Loaded EXCEPT !.left = @ - n]
          /\ wire' = wire \o [i \in 1..n |-> Loaded.packet]
    BY <1>2 DEF Write
  <2>2. early' = early /\ UNCHANGED <<socket, due, deiniter>>
    BY <1>2 DEF Write, stopState
  <2>3. /\ Loaded = [packet |-> Loaded.packet, left |-> Loaded.left]
        /\ Loaded.left \in 1..MessageLength
    BY DEF Loaded, TypeOK
  <2>4. n \in 0..Loaded.left /\ (socket = "closed" => n = 0)
    BY <2>3 DEF Sendable, TypeOK
  <2>5. /\ writePacketBuilder'.left = Loaded.left - n
        /\ writePacketBuilder'.packet = Loaded.packet
    <3>1. writePacketBuilder' = [packet |-> Loaded.packet,
                                 left |-> Loaded.left - n]
      BY <2>1, <2>3
    <3> QED
      BY <3>1
  <2>6. /\ wire \in Seq(Messages) /\ early \in Nat
        /\ Len(wire) \in Nat /\ Len(wire') = Len(wire) + n
        /\ \A i \in 1..Len(wire) : wire'[i] = wire[i]
        /\ \A i \in Len(wire) + 1..Len(wire) + n : wire'[i] = Loaded.packet
    <3>1. wire \in Seq(Messages) /\ Len(wire) \in Nat /\ early \in Nat
      BY DEF TypeOK
    <3>2. Len([i \in 1..n |-> Loaded.packet]) = n
      BY <2>4
    <3> QED
      BY <2>1, <2>4, <3>1, <3>2
  <2>7. DownUntilCleared' /\ early' <= Len(wire')
    BY <2>2, <2>4, <2>6 DEF DownUntilCleared
  <2>8. BuilderWhole'
    BY <2>2, <2>3, <2>4, <2>5 DEF BuilderWhole, Loaded
  <2>9. ASSUME socket # "closed"
        PROVE  EndsInRemainder'
    <3>1. CASE writePacketBuilder.left > 0
      <4>1. /\ Loaded = writePacketBuilder
            /\ writePacketBuilder.left \in 1..MessageLength
        BY <3>1 DEF Loaded, TypeOK
      <4>2. CASE writePacketBuilder.left = MessageLength
        <5>1. Sent' = n
          BY <2>4, <2>5, <4>1, <4>2 DEF Sent
        <5> QED
          BY <2>2, <2>4, <2>5, <2>6, <4>1, <5>1 DEF EndsInRemainder
      <4>3. CASE writePacketBuilder.left \in 1..MessageLength - 1
        <5>1. Sent' = Sent + n /\ Sent \in 1..MessageLength
          BY <2>4, <2>5, <4>1, <4>3 DEF Sent
        <5>2. /\ early + Sent <= Len(wire)
              /\ \A i \in Len(wire) - Sent + 1..Len(wire) :
                   wire[i] = writePacketBuilder.packet
          BY <2>9, <4>3 DEF EndsInRemainder
        <5>3. early' + Sent' <= Len(wire')
          BY <2>2, <2>4, <2>6, <5>1, <5>2
        <5>4. ASSUME NEW i \in Len(wire') - Sent' + 1..Len(wire')
              PROVE  wire'[i] = writePacketBuilder'.packet
          <6>1. /\ i \in Len(wire) - Sent + 1..Len(wire) + n
                /\ i \in Nat /\ i >= 1
            BY <2>4, <2>6, <5>1, <5>2, <5>4
          <6> QED
            BY <2>4, <2>5, <2>6, <4>1, <5>2, <6>1
        <5> QED
          BY <5>3, <5>4 DEF EndsInRemainder
      <4> QED
        BY <4>1, <4>2, <4>3
    <3>2. CASE ~(writePacketBuilder.left > 0)
      <4>1. Loaded.left = MessageLength
        BY <3>2 DEF Loaded
      <4> QED
        BY <2>2, <2>4, <2>5, <2>6, <4>1 DEF EndsInRemainder, Sent
    <3> QED
      BY <3>1, <3>2
  <2> QED
    BY <2>2, <2>7, <2>8, <2>9
<1> QED
  BY <1>1, <1>2

LEMMA RemainderInit == Init => RemainderInv
BY SendActivityAssumption
   DEF Init, RemainderInv, NoPacket, DownUntilCleared, BuilderWhole

LEMMA RemainderStep ==
  ASSUME ConnectOutlastsTeardown, TypeInv, RemainderInv, [Next]_vars
  PROVE  RemainderInv'
<1> DEFINE Others == <<socket, due, deiniter, writePacketBuilder, wire, early>>
<1> USE DEF RemainderInv, DownUntilCleared, BuilderWhole, EndsInRemainder,
            Sent, senderState, stopState, callerState, Goto
<1>1. CASE UNCHANGED Others
  BY <1>1
<1>2. CASE Write
  BY <1>2, RemainderWrite
<1>3. CASE Connect
  <2>1. wire' = <<>> /\ early' = 0 /\ Len(wire') = 0
    BY <1>3 DEF Connect
  <2> QED
    BY <1>3, <2>1 DEF Connect, TypeInv, TypeOK
<1>4. CASE OnConnect \/ OnDisconnect
  BY <1>4 DEF OnConnect, OnDisconnect, Clear, NoPacket, TypeInv, TypeOK
<1>5. CASE PeerDrops \/ CloseSocket \/ DeinitClose
  BY <1>5 DEF PeerDrops, CloseSocket, DeinitClose
<1>6. CASE DeinitSetExit \/ DeinitNotify \/ DeinitJoin
  BY <1>6 DEF DeinitSetExit, DeinitNotify, DeinitJoin
<1>7. CASE DeinitClear \/ Reinit
  BY <1>7 DEF DeinitClear, Reinit, Clear, NoPacket
<1>8. ASSUME NEW c \in Callers, Push(c) \/ Notify(c)
      PROVE  UNCHANGED Others
  BY <1>8 DEF Push, Notify
<1>9. CASE Wait \/ Reset \/ ExitTest \/ More \/ LoopTest
  BY <1>9 DEF Wait, Reset, ExitTest, More, LoopTest
<1>10. CASE UNCHANGED vars
  BY <1>10 DEF vars
<1> QED
  BY <1>1, <1>2, <1>3, <1>4, <1>5, <1>6, <1>7, <1>8, <1>9, <1>10
     DEF Next, Sender, Client, Deinit

\* RemaindersAreOurs: RemainderIsOurs holds of every behaviour if a connection
\* is not made while an onDisconnect() is under way, whatever part of a message
\* send() takes and whatever is sent between connect() and onConnect().
THEOREM RemaindersAreOurs ==
  ASSUME ConnectOutlastsTeardown
  PROVE  Spec => []RemainderIsOurs
<1>1. TypeInv /\ RemainderInv /\ [Next]_vars => RemainderInv'
  BY RemainderStep
<1>2. RemainderInv => RemainderIsOurs
  BY DEF RemainderInv, RemainderIsOurs
<1> QED
  BY <1>1, <1>2, RemainderInit, TypeInit, TypeStep, PTL DEF Spec
-----------------------------------------------------------------------------
(* Whole messages on the wire *)

\* Byte j and the next one: a boundary if a whole number of messages has gone
\* out since base.
FramedAt(j, base) ==
  IF (j - base) % MessageLength = 0 THEN wire[j] < wire[j + 1]
                                    ELSE wire[j] = wire[j + 1]

\* The bytes since onConnect() end where the packet builder says.
Aligned ==
  socket # "closed" =>
    (Len(wire) - early) % MessageLength =
      IF writePacketBuilder.left = 0 THEN 0
                                     ELSE MessageLength - writePacketBuilder.left

\* Messages go from sendOut() through the queue and the builder in order.
InOrder ==
  /\ \A i, j \in 1..Len(outPacketQ) : i < j => outPacketQ[i] < outPacketQ[j]
  /\ \A i \in 1..Len(outPacketQ) : outPacketQ[i] <= numOutputMsgs
  /\ writePacketBuilder.left > 0 =>
       /\ writePacketBuilder.packet <= numOutputMsgs
       /\ \A i \in 1..Len(outPacketQ) :
            writePacketBuilder.packet < outPacketQ[i]
  /\ Len(wire) > 0 =>
       /\ wire[Len(wire)] <= numOutputMsgs
       /\ \A i \in 1..Len(outPacketQ) : wire[Len(wire)] < outPacketQ[i]
       /\ writePacketBuilder.left = MessageLength =>
            wire[Len(wire)] < writePacketBuilder.packet

FrameInv ==
  /\ "onConnect" \in due => early = 0
  /\ deiniter # "running" => socket = "closed"
  /\ Aligned
  /\ InOrder
  /\ \A j \in 1..early - 1 : FramedAt(j, 0)
  /\ \A j \in early + 1..Len(wire) - 1 : FramedAt(j, early)

\* Division, as far as it is needed here: quotient and remainder, ...
LEMMA Divide ==
  ASSUME NEW a \in Nat, NEW b \in Nat \ {0}
  PROVE  \E q \in Nat, r \in 0..b - 1 :
           a = q * b + r /\ a % b = r /\ a \div b = q
<1>1. a \div b \in Nat /\ a % b \in 0..b - 1
  BY SMT
<1>2. a % b = a - (a \div b) * b
  BY SMT
<1>3. PICK q \in Nat : q = a \div b
  BY <1>1
<1>4. PICK r \in 0..b - 1 : r = a % b
  BY <1>1
<1>5. r = a - q * b
  BY <1>2, <1>3, <1>4
<1>6. q * b \in Nat
  BY SMT
<1>7. a = q * b + r
  BY <1>5, <1>6
<1> QED
  BY <1>3, <1>4, <1>7

LEMMA Divided ==
  ASSUME NEW q \in Nat, NEW b \in Nat \ {0}, NEW r \in 0..b - 1
  PROVE  (q * b + r) % b = r /\ (q * b + r) \div b = q
BY SMT

\* ... what is left after n more bytes of a message, ...
LEMMA RemainderGrows ==
  ASSUME NEW a \in Nat, NEW b \in Nat \ {0}, NEW n \in Nat, (a % b) + n < b
  PROVE  (a + n) % b = (a % b) + n
<1>1. PICK q \in Nat, r \in 0..b - 1 :
        a = q * b + r /\ a % b = r /\ a \div b = q
  BY Divide
<1>2. q * b \in Nat
  BY SMT
<1>3. a + n = q * b + (r + n)
  BY <1>1, <1>2
<1>4. r + n \in 0..b - 1
  BY <1>1
<1> QED
  BY <1>1, <1>3, <1>4, Divided

\* ... and after the last of them.
LEMMA RemainderWraps ==
  ASSUME NEW a \in Nat, NEW b \in Nat \ {0}, NEW n \in Nat, (a % b) + n = b
  PROVE  (a + n) % b = 0 /\ (a + n) \div b = (a \div b) + 1
<1>1. PICK q \in Nat, r \in 0..b - 1 :
        a = q * b + r /\ a % b = r /\ a \div b = q
  BY Divide
<1>2. q * b \in Nat /\ (q + 1) * b = q * b + b /\ q + 1 \in Nat
  BY SMT
<1>3. a + n = (q + 1) * b + 0
  BY <1>1, <1>2
<1>4. 0 \in 0..b - 1
  OBVIOUS
<1>5. ((q + 1) * b + 0) % b = 0 /\ ((q + 1) * b + 0) \div b = q + 1
  BY <1>2, <1>4, Divided
<1> QED
  BY <1>1, <1>3, <1>5

\* What a writePacket() does that writes.
LEMMA Written ==
  ASSUME TypeInv, Write, ~UNCHANGED senderState
  PROVE  /\ Loaded.packet \in Messages /\ Loaded.left \in 1..MessageLength
         /\ writePacketBuilder.left > 0 \/ outPacketQ # <<>>
         /\ outPacketQ' = IF writePacketBuilder.left > 0 THEN outPacketQ
                                                         ELSE Tail(outPacketQ)
         /\ UNCHANGED <<socket, due, early, deiniter, numOutputMsgs>>
         /\ \E n \in 0..Loaded.left :
              /\ socket = "closed" => n = 0
              /\ writePacketBuilder'.packet = Loaded.packet
              /\ writePacketBuilder'.left = Loaded.left - n
              /\ wire' = wire \o [i \in 1..n |-> Loaded.packet]
              /\ Len(wire') = Len(wire) + n
              /\ \A i \in 1..Len(wire) : wire'[i] = wire[i]
              /\ \A i \in Len(wire) + 1..Len(wire) + n : wire'[i] = Loaded.packet
<1> USE SendActivityAssumption DEF TypeInv
<1>1. /\ writePacketBuilder.left > 0 \/ outPacketQ # <<>>
      /\ outPacketQ' = IF writePacketBuilder.left > 0 THEN outPacketQ
                                                      ELSE Tail(outPacketQ)
      /\ UNCHANGED <<socket, due, early, deiniter, numOutputMsgs>>
  BY DEF Write, stopState, callerState
<1>2. PICK n \in Sendable(Loaded.left) :
        /\ writePacketBuilder' = [Loaded EXCEPT !.left = @ - n]
        /\ wire' = wire \o [i \in 1..n |-> Loaded.packet]
  BY DEF Write
<1>3. /\ Loaded = [packet |-> Loaded.packet, left |-> Loaded.left]
      /\ Loaded.packet \in Messages /\ Loaded.left \in 1..MessageLength
  <2>1. CASE writePacketBuilder.left > 0
    BY <2>1 DEF Loaded, TypeOK, BuilderLoaded
  <2>2. CASE ~(writePacketBuilder.left > 0)
    BY <1>1, <2>2 DEF Loaded, TypeOK
  <2> QED
    BY <2>1, <2>2
<1>4. n \in 0..Loaded.left /\ (socket = "closed" => n = 0)
  BY <1>3 DEF Sendable, TypeOK
<1>5. /\ writePacketBuilder'.packet = Loaded.packet
      /\ writePacketBuilder'.left = Loaded.left - n
  <2>1. writePacketBuilder' = [packet |-> Loaded.packet, left |-> Loaded.left - n]
    BY <1>2, <1>3
  <2> QED
    BY <2>1
<1>6. /\ Len(wire') = Len(wire) + n
      /\ \A i \in 1..Len(wire) : wire'[i] = wire[i]
      /\ \A i \in Len(wire) + 1..Len(wire) + n : wire'[i] = Loaded.packet
  <2>1. wire \in Seq(Messages) /\ Len(wire) \in Nat
    BY DEF TypeOK
  <2>2. Len([i \in 1..n |-> Loaded.packet]) = n
    BY <1>3, <1>4
  <2> QED
    BY <1>2, <1>3, <1>4, <2>1, <2>2
<1> QED
  BY <1>1, <1>2, <1>3, <1>4, <1>5, <1>6

LEMMA OrderWrite ==
  ASSUME TypeInv, InOrder, Write, ~UNCHANGED senderState
  PROVE  InOrder'
<1> USE SendActivityAssumption DEF TypeInv
<1>1. PICK n \in 0..Loaded.left :
        /\ writePacketBuilder'.packet = Loaded.packet
        /\ writePacketBuilder'.left = Loaded.left - n
        /\ Len(wire') = Len(wire) + n
        /\ \A i \in 1..Len(wire) : wire'[i] = wire[i]
        /\ \A i \in Len(wire) + 1..Len(wire) + n : wire'[i] = Loaded.packet
  BY Written
<1>2. /\ Loaded.packet \in Nat /\ Loaded.left \in 1..MessageLength
      /\ numOutputMsgs' = numOutputMsgs /\ numOutputMsgs \in Nat
      /\ Len(wire) \in Nat /\ Len(outPacketQ) \in Nat
      /\ \A i \in 1..Len(wire) : wire[i] \in Nat
      /\ \A i \in 1..Len(outPacketQ) : outPacketQ[i] \in Nat
  BY Written DEF TypeOK, Messages
\* The message in the builder is behind what is out and ahead of the queue.
<1>3. /\ Loaded.packet <= numOutputMsgs
      /\ Len(wire) > 0 /\ Loaded.left = MessageLength =>
           wire[Len(wire)] < Loaded.packet
      /\ \A i, j \in 1..Len(outPacketQ') : i < j => outPacketQ'[i] < outPacketQ'[j]
      /\ \A i \in 1..Len(outPacketQ') : /\ outPacketQ'[i] <= numOutputMsgs
                                        /\ Loaded.packet < outPacketQ'[i]
                                        /\ Len(wire) > 0 =>
                                             wire[Len(wire)] < outPacketQ'[i]
  <2>1. CASE writePacketBuilder.left > 0
    <3>1. outPacketQ' = outPacketQ /\ Loaded = writePacketBuilder
      BY <2>1, Written DEF Loaded
    <3> QED
      BY <2>1, <3>1 DEF InOrder
  <2>2. CASE ~(writePacketBuilder.left > 0)
    <3>1. outPacketQ # <<>> /\ outPacketQ' = Tail(outPacketQ)
      BY <2>2, Written
    <3>2. /\ Len(outPacketQ') = Len(outPacketQ) - 1 /\ Len(outPacketQ) >= 1
          /\ \A i \in 1..Len(outPacketQ') : outPacketQ'[i] = outPacketQ[i + 1]
          /\ Loaded.packet = outPacketQ[1]
      BY <2>2, <3>1, HeadTailProperties DEF Loaded, TypeOK
    <3>3. \A i \in 1..Len(outPacketQ') : i + 1 \in 1..Len(outPacketQ)
      BY <1>2, <3>2
    <3>4. Loaded.packet <= numOutputMsgs
            /\ (Len(wire) > 0 => wire[Len(wire)] < Loaded.packet)
      BY <1>2, <3>2 DEF InOrder
    <3>5. ASSUME NEW i \in 1..Len(outPacketQ')
          PROVE  /\ outPacketQ'[i] <= numOutputMsgs
                 /\ Loaded.packet < outPacketQ'[i]
                 /\ Len(wire) > 0 => wire[Len(wire)] < outPacketQ'[i]
      <4>1. outPacketQ'[i] = outPacketQ[i + 1]
        BY <3>2
      <4>2. i + 1 \in 1..Len(outPacketQ) /\ 1 \in 1..Len(outPacketQ) /\ 1 < i + 1
        BY <1>2, <3>2, <3>3
      <4>3. /\ outPacketQ[i + 1] <= numOutputMsgs
            /\ outPacketQ[1] < outPacketQ[i + 1]
            /\ Len(wire) > 0 => wire[Len(wire)] < outPacketQ[i + 1]
        BY <4>2 DEF InOrder
      <4> QED
        BY <3>2, <4>1, <4>3
    <3>6. ASSUME NEW i \in 1..Len(outPacketQ'), NEW j \in 1..Len(outPacketQ'), i < j
          PROVE  outPacketQ'[i] < outPacketQ'[j]
      <4>1. outPacketQ'[i] = outPacketQ[i + 1] /\ outPacketQ'[j] = outPacketQ[j + 1]
        BY <3>2
      <4>2. /\ i + 1 \in 1..Len(outPacketQ) /\ j + 1 \in 1..Len(outPacketQ)
            /\ i + 1 < j + 1
        BY <1>2, <3>2, <3>3, <3>6
      <4>3. outPacketQ[i + 1] < outPacketQ[j + 1]
        BY <4>2 DEF InOrder
      <4> QED
        BY <4>1, <4>3
    <3> QED
      BY <3>4, <3>5, <3>6
  <2> QED
    BY <2>1, <2>2
<1>4. CASE n = 0
  <2>1. Len(wire') = Len(wire) /\ (Len(wire) > 0 => wire'[Len(wire)] = wire[Len(wire)])
    BY <1>1, <1>2, <1>4
  <2>2. Len(wire) > 0 => wire[Len(wire)] <= numOutputMsgs
    BY DEF InOrder
  <2> QED
    BY <1>1, <1>2, <1>3, <1>4, <2>1, <2>2 DEF InOrder
<1>5. CASE n > 0
  <2>1. wire'[Len(wire')] = Loaded.packet /\ writePacketBuilder'.left < MessageLength
    BY <1>1, <1>2, <1>5
  <2> QED
    BY <1>1, <1>2, <1>3, <2>1 DEF InOrder
<1> QED
  BY <1>2, <1>4, <1>5

LEMMA FrameWrite ==
  ASSUME TypeInv, RemainderInv, FrameInv, Write, ~UNCHANGED senderState
  PROVE  FrameInv'
<1> USE SendActivityAssumption
<1>1. PICK n \in 0..Loaded.left :
        /\ socket = "closed" => n = 0
        /\ writePacketBuilder'.packet = Loaded.packet
        /\ writePacketBuilder'.left = Loaded.left - n
        /\ Len(wire') = Len(wire) + n
        /\ \A i \in 1..Len(wire) : wire'[i] = wire[i]
        /\ \A i \in Len(wire) + 1..Len(wire) + n : wire'[i] = Loaded.packet
  BY Written
<1>2. /\ Loaded.packet \in Nat /\ Loaded.left \in 1..MessageLength
      /\ UNCHANGED <<socket, due, early, deiniter>>
      /\ Len(wire) \in Nat /\ early \in 0..Len(wire)
  BY Written DEF TypeInv, TypeOK, Messages, RemainderInv
<1> DEFINE at == Len(wire) - early
<1>3. at \in Nat
  BY <1>2
<1>4. InOrder'
  BY OrderWrite DEF FrameInv
<1>5. \A j \in 1..early - 1 : FramedAt(j, 0)'
  <2> SUFFICES ASSUME NEW j \in 1..early - 1 PROVE FramedAt(j, 0)'
    OBVIOUS
  <2>1. j \in 1..Len(wire) /\ j + 1 \in 1..Len(wire)
    BY <1>2
  <2>2. FramedAt(j, 0)
    BY DEF FrameInv
  <2> QED
    BY <1>1, <2>1, <2>2 DEF FramedAt
<1>6. ASSUME NEW j \in early + 1..Len(wire) - 1 PROVE FramedAt(j, early)'
  <2>1. j \in 1..Len(wire) /\ j + 1 \in 1..Len(wire)
    BY <1>2
  <2>2. FramedAt(j, early)
    BY DEF FrameInv
  <2> QED
    BY <1>1, <1>2, <2>1, <2>2 DEF FramedAt
<1>7. CASE socket = "closed"
  <2>1. \A j \in early + 1..Len(wire') - 1 : FramedAt(j, early)'
    BY <1>1, <1>2, <1>6, <1>7
  <2> QED
    BY <1>2, <1>4, <1>5, <1>7, <2>1 DEF FrameInv, Aligned
<1>8. CASE socket # "closed"
  \* The next byte goes where the builder says: after a whole number of messages
  \* if the message in it has not been begun.
  <2>1. at % MessageLength = MessageLength - Loaded.left
    BY <1>2, <1>8 DEF FrameInv, Aligned, Loaded, TypeInv, TypeOK
  <2>2. ASSUME NEW k \in 0..n, k < Loaded.left
        PROVE  (at + k) % MessageLength = MessageLength - Loaded.left + k
    <3>1. k \in Nat /\ (at % MessageLength) + k < MessageLength
      BY <1>2, <2>1, <2>2
    <3> QED
      BY <1>3, <2>1, <3>1, RemainderGrows
  <2>3. Aligned'
    <3>1. Len(wire') - early' = at + n
      BY <1>1, <1>2
    <3>2. CASE n < Loaded.left
      BY <1>1, <1>2, <2>2, <3>1, <3>2 DEF Aligned
    <3>3. CASE n = Loaded.left
      <4>1. (at % MessageLength) + n = MessageLength /\ n \in Nat
        BY <1>2, <2>1, <3>3
      <4>2. (at + n) % MessageLength = 0
        BY <1>3, <4>1, RemainderWraps
      <4> QED
        BY <1>1, <1>2, <3>1, <3>3, <4>2 DEF Aligned
    <3> QED
      BY <1>1, <1>2, <3>2, <3>3
  <2>4. ASSUME NEW j \in early + 1..Len(wire') - 1
        PROVE  FramedAt(j, early)'
    <3>1. CASE j < Len(wire)
      BY <1>2, <1>6, <3>1
    <3>2. CASE j = Len(wire)
      <4>1. n > 0 /\ wire'[j + 1] = Loaded.packet /\ wire'[j] = wire[Len(wire)]
        BY <1>1, <1>2, <3>2
      <4>2. CASE Loaded.left = MessageLength
        <5>1. wire[Len(wire)] < Loaded.packet
          <6>1. CASE writePacketBuilder.left > 0
            BY <1>2, <3>2, <4>2, <6>1 DEF FrameInv, InOrder, Loaded
          <6>2. CASE ~(writePacketBuilder.left > 0)
            <7>1. outPacketQ # <<>> /\ Loaded.packet = Head(outPacketQ)
              BY <6>2, Written DEF Loaded
            <7>2. Loaded.packet = outPacketQ[1] /\ 1 \in 1..Len(outPacketQ)
              BY <7>1 DEF TypeInv, TypeOK
            <7> QED
              BY <1>2, <3>2, <7>2 DEF FrameInv, InOrder
          <6> QED
            BY <6>1, <6>2
        <5>2. at % MessageLength = 0 /\ j - early = at
          BY <2>1, <3>2, <4>2
        <5> QED
          BY <1>2, <4>1, <5>1, <5>2 DEF FramedAt
      <4>3. CASE Loaded.left # MessageLength
        <5>1. /\ writePacketBuilder.left \in 1..MessageLength - 1
              /\ Loaded = writePacketBuilder
          BY <1>2, <4>3 DEF Loaded
        <5>2. wire[Len(wire)] = Loaded.packet
          <6>1. /\ Sent \in 1..MessageLength
                /\ \A i \in Len(wire) - Sent + 1..Len(wire) :
                     wire[i] = writePacketBuilder.packet
            BY <1>8, <5>1 DEF RemainderInv, EndsInRemainder, Sent
          <6> QED
            BY <1>2, <5>1, <6>1
        <5>3. at % MessageLength # 0 /\ j - early = at
          BY <1>2, <2>1, <3>2, <4>3
        <5> QED
          BY <1>2, <4>1, <5>2, <5>3 DEF FramedAt
      <4> QED
        BY <4>2, <4>3
    <3>3. CASE j > Len(wire)
      <4>1. PICK k \in 0..n : j = Len(wire) + k
        <5>1. j - Len(wire) \in 0..n /\ j = Len(wire) + (j - Len(wire))
          BY <1>1, <1>2, <3>3
        <5> QED
          BY <5>1
      <4>2. k < Loaded.left /\ k > 0
        BY <1>1, <1>2, <3>3, <4>1
      <4>3. wire'[j] = wire'[j + 1]
        BY <1>1, <1>2, <3>3
      <4>4. (j - early) % MessageLength # 0
        <5>1. (at + k) % MessageLength = MessageLength - Loaded.left + k
          BY <2>2, <4>2
        <5>2. j - early = at + k
          BY <1>2, <4>1
        <5> QED
          BY <1>2, <4>2, <5>1, <5>2
      <4> QED
        BY <1>2, <4>3, <4>4 DEF FramedAt
    <3> QED
      BY <1>2, <3>1, <3>2, <3>3
  <2> QED
    BY <1>2, <1>4, <1>5, <2>3, <2>4 DEF FrameInv
<1> QED
  BY <1>7, <1>8

\* A step that leaves the bytes alone leaves them framed.
LEMMA SameBytes ==
  ASSUME FrameInv, UNCHANGED <<wire, early>>
  PROVE  /\ \A j \in 1..early' - 1 : FramedAt(j, 0)'
         /\ \A j \in early' + 1..Len(wire') - 1 : FramedAt(j, early)'
BY DEF FrameInv, FramedAt

LEMMA FrameConnect ==
  ASSUME ConnectOutlastsTeardown, TypeInv, RemainderInv, FrameInv, Connect
  PROVE  FrameInv'
<1> USE SendActivityAssumption DEF Connect
<1>1. wire' = <<>> /\ Len(wire') = 0 /\ early' = 0
  OBVIOUS
<1>2. Aligned'
  <2>1. writePacketBuilder.left \in {0, MessageLength}
    BY DEF RemainderInv, BuilderWhole
  <2>2. (0 - 0) % MessageLength = 0
    BY SMT
  <2> QED
    BY <1>1, <2>1, <2>2 DEF Aligned
<1>3. InOrder'
  BY <1>1 DEF FrameInv, InOrder, callerState
<1> QED
  BY <1>1, <1>2, <1>3 DEF FrameInv, stopState

LEMMA FrameOnConnect ==
  ASSUME TypeInv, RemainderInv, FrameInv, OnConnect
  PROVE  FrameInv'
<1> USE SendActivityAssumption DEF OnConnect, Clear, NoPacket
<1>1. /\ wire' = wire /\ early' = Len(wire) /\ early = 0 /\ Len(wire) \in Nat
      /\ outPacketQ' = <<>> /\ writePacketBuilder'.left = 0
  BY DEF FrameInv, TypeInv, TypeOK
<1>2. Aligned'
  <2>1. 0 % MessageLength = 0 /\ Len(wire') - early' = 0
    BY <1>1
  <2> QED
    BY <1>1, <2>1 DEF Aligned
<1>3. InOrder'
  BY <1>1 DEF FrameInv, InOrder, callerState
<1>4. \A j \in 1..early' - 1 : FramedAt(j, 0)'
  BY <1>1 DEF FrameInv, FramedAt
<1>5. early' + 1..Len(wire') - 1 = {}
  BY <1>1
<1> QED
  BY <1>1, <1>2, <1>3, <1>4, <1>5 DEF FrameInv, stopState

LEMMA FramePush ==
  ASSUME TypeInv, FrameInv, NEW c \in Callers, Push(c)
  PROVE  FrameInv'
<1> USE DEF Push
<1> DEFINE m == numOutputMsgs + 1
<1>1. /\ numOutputMsgs \in Nat /\ numOutputMsgs' = m /\ Len(wire) \in Nat
      /\ \A i \in 1..Len(outPacketQ) : outPacketQ[i] \in Nat
      /\ \A i \in 1..Len(wire) : wire[i] \in Nat
      /\ writePacketBuilder.packet \in Nat
  BY SendActivityAssumption DEF TypeInv, TypeOK, Messages
<1>2. /\ Len(outPacketQ') = Len(outPacketQ) + 1 /\ Len(outPacketQ) \in Nat
      /\ \A i \in 1..Len(outPacketQ) : outPacketQ'[i] = outPacketQ[i]
      /\ outPacketQ'[Len(outPacketQ) + 1] = m
  BY DEF TypeInv, TypeOK
<1>3. \A i \in 1..Len(outPacketQ') :
        i \in 1..Len(outPacketQ) \/ i = Len(outPacketQ) + 1
  BY <1>2
<1>4. InOrder'
  <2>1. ASSUME NEW i \in 1..Len(outPacketQ'), NEW j \in 1..Len(outPacketQ'), i < j
        PROVE  outPacketQ'[i] < outPacketQ'[j]
    <3>1. i \in 1..Len(outPacketQ) /\ outPacketQ[i] <= numOutputMsgs
      BY <1>2, <1>3, <2>1 DEF FrameInv, InOrder
    <3> QED
      BY <1>1, <1>2, <1>3, <2>1, <3>1 DEF FrameInv, InOrder
  <2>2. \A i \in 1..Len(outPacketQ') : outPacketQ'[i] <= m
    BY <1>1, <1>2, <1>3 DEF FrameInv, InOrder
  <2>3. writePacketBuilder.left > 0 =>
          /\ writePacketBuilder.packet <= m
          /\ \A i \in 1..Len(outPacketQ') :
               writePacketBuilder.packet < outPacketQ'[i]
    BY <1>1, <1>2, <1>3 DEF FrameInv, InOrder
  <2>4. Len(wire) > 0 =>
          /\ wire[Len(wire)] <= m
          /\ \A i \in 1..Len(outPacketQ') : wire[Len(wire)] < outPacketQ'[i]
          /\ writePacketBuilder.left = MessageLength =>
               wire[Len(wire)] < writePacketBuilder.packet
    BY <1>1, <1>2, <1>3 DEF FrameInv, InOrder
  <2> QED
    BY <1>1, <2>1, <2>2, <2>3, <2>4 DEF InOrder
<1>5. Aligned'
  BY DEF FrameInv, Aligned
<1> QED
  BY <1>4, <1>5, SameBytes DEF FrameInv, stopState

\* The steps that neither write nor hand over a message: the socket may close, and
\* the queue and the builder may be cleared while it is.
LEMMA FrameOther ==
  ASSUME TypeInv, RemainderInv, FrameInv, UNCHANGED <<wire, early, numOutputMsgs>>,
         due' \in {due, due \cup {"onDisconnect"}, due \ {"onDisconnect"}},
         \/ outPacketQ' = <<>> \/ outPacketQ' = outPacketQ,
         \/ writePacketBuilder' = writePacketBuilder
         \/ writePacketBuilder' = NoPacket /\ socket' = "closed",
         socket' = "closed" \/ socket # "closed",
         deiniter' # "running" => socket' = "closed"
  PROVE  FrameInv'
<1>1. Aligned'
  BY DEF FrameInv, Aligned
<1>2. InOrder'
  <2>1. outPacketQ' = <<>> => Len(outPacketQ') = 0
    OBVIOUS
  <2>2. writePacketBuilder' = NoPacket =>
          /\ ~(writePacketBuilder'.left > 0)
          /\ writePacketBuilder'.left # MessageLength
    BY SendActivityAssumption DEF NoPacket
  <2> QED
    BY <2>1, <2>2 DEF FrameInv, InOrder
<1> QED
  BY <1>1, <1>2, SameBytes DEF FrameInv

LEMMA FrameStep ==
  ASSUME ConnectOutlastsTeardown, TypeInv, RemainderInv, FrameInv, [Next]_vars
  PROVE  FrameInv'
<1> USE DEF senderState, stopState, callerState
<1>1. CASE Write
  <2>1. CASE UNCHANGED senderState
    BY <1>1, <2>1, FrameOther DEF Write, FrameInv
  <2> QED
    BY <1>1, <2>1, FrameWrite
<1>2. CASE Wait \/ Reset \/ ExitTest \/ More \/ LoopTest
  BY <1>2, FrameOther DEF Wait, Reset, ExitTest, More, LoopTest, FrameInv
<1>3. CASE PeerDrops \/ CloseSocket
  BY <1>3, FrameOther DEF PeerDrops, CloseSocket, FrameInv
<1>4. CASE OnDisconnect
  BY <1>4, FrameOther
     DEF OnDisconnect, Clear, RemainderInv, DownUntilCleared, FrameInv
<1>5. CASE DeinitClose \/ Deinit
  BY <1>5, FrameOther DEF DeinitClose, Deinit, DeinitSetExit, DeinitNotify,
     DeinitJoin, DeinitClear, Clear, FrameInv
<1>6. CASE Reinit
  BY <1>6, FrameOther DEF Reinit, FrameInv
<1>7. ASSUME NEW c \in Callers, Notify(c) PROVE FrameInv'
  BY <1>7, FrameOther DEF Notify, FrameInv
<1>8. CASE UNCHANGED vars
  BY <1>8, FrameOther DEF vars, FrameInv
<1> QED
  BY <1>1, <1>2, <1>3, <1>4, <1>5, <1>6, <1>7, <1>8, FrameConnect,
     FrameOnConnect, FramePush DEF Next, Sender, Client

\* FramedWire: WireIsFramed holds of every behaviour if a connection is not made
\* while an onDisconnect() is under way: the bytes before onConnect() and those
\* after it are whole messages in the order of sendOut(), whatever parts of them
\* send() takes, and only the last of each may be incomplete.
THEOREM FramedWire ==
  ASSUME ConnectOutlastsTeardown
  PROVE  Spec => []WireIsFramed
<1>1. Init => FrameInv
  <2> SUFFICES ASSUME Init PROVE FrameInv
    OBVIOUS
  <2> USE DEF Init
  <2>1. InOrder /\ Aligned
    BY DEF InOrder, Aligned, NoPacket
  <2>2. 1..early - 1 = {} /\ early + 1..Len(wire) - 1 = {}
    OBVIOUS
  <2> QED
    BY <2>1, <2>2 DEF FrameInv
<1>2. TypeInv /\ RemainderInv /\ [Next]_vars => RemainderInv'
  BY RemainderStep
<1>3. TypeInv /\ RemainderInv /\ FrameInv /\ [Next]_vars => FrameInv'
  BY FrameStep
<1>4. TypeInv /\ RemainderInv /\ FrameInv => WireIsFramed
  <2> SUFFICES ASSUME TypeInv, RemainderInv, FrameInv PROVE WireIsFramed
    OBVIOUS
  <2>1. /\ wire \in Seq(Messages) /\ Len(wire) \in Nat /\ early \in 0..Len(wire)
        /\ \A i \in 1..Len(wire) : wire[i] \in Messages
    BY DEF TypeInv, TypeOK, RemainderInv
  <2>2. Framed(SubSeq(wire, 1, early))
    <3> DEFINE bytes == SubSeq(wire, 1, early)
    <3>1. Len(bytes) = early /\ \A i \in 1..early : bytes[i] = wire[i]
      BY <2>1, SubSeqProperties
    <3> HIDE DEF bytes
    <3>2. ASSUME NEW i \in 1..Len(bytes) - 1
          PROVE  IF i % MessageLength = 0 THEN bytes[i] < bytes[i + 1]
                                          ELSE bytes[i] = bytes[i + 1]
      <4>1. i \in 1..early /\ i + 1 \in 1..early /\ i - 0 = i
        BY <2>1, <3>1
      <4>2. FramedAt(i, 0)
        BY <3>1 DEF FrameInv
      <4> QED
        BY <3>1, <4>1, <4>2 DEF FramedAt
    <3>3. Framed(bytes)
      BY <3>2 DEF Framed
    <3> QED
      BY <3>3 DEF bytes
  <2>3. Framed(SubSeq(wire, early + 1, Len(wire)))
    <3> DEFINE bytes == SubSeq(wire, early + 1, Len(wire))
    <3>1. /\ Len(bytes) = Len(wire) - early
          /\ \A i \in 1..Len(wire) - early : bytes[i] = wire[early + i]
      BY <2>1, SubSeqProperties
    <3> HIDE DEF bytes
    <3>2. ASSUME NEW i \in 1..Len(bytes) - 1
          PROVE  IF i % MessageLength = 0 THEN bytes[i] < bytes[i + 1]
                                          ELSE bytes[i] = bytes[i + 1]
      <4>1. /\ i \in 1..Len(wire) - early /\ i + 1 \in 1..Len(wire) - early
            /\ early + i \in early + 1..Len(wire) - 1
            /\ (early + i) - early = i /\ (early + i) + 1 = early + (i + 1)
        BY <2>1, <3>1
      <4>2. FramedAt(early + i, early)
        BY <4>1 DEF FrameInv
      <4> QED
        BY <3>1, <4>1, <4>2 DEF FramedAt
    <3>3. Framed(bytes)
      BY <3>2 DEF Framed
    <3> QED
      BY <3>3 DEF bytes
  <2> QED
    BY <2>2, <2>3 DEF WireIsFramed
<1> QED
  BY <1>1, <1>2, <1>3, <1>4, TypeInit, TypeStep, RemainderInit, PTL DEF Spec
-----------------------------------------------------------------------------
(* The channel *)

\* n bytes of message m, and the bytes of a queue of messages: Unwritten is a
\* part of the one in the packet builder and then those of outPacketQ.
Repeated(m, n) == [i \in 1..n |-> m]
QueueBytes(q) == [i \in 1..Len(q) * MessageLength |->
                    q[1 + ((i - 1) \div MessageLength)]]

LEMMA UnwrittenIs ==
  Unwritten = Repeated(writePacketBuilder.packet, writePacketBuilder.left) \o
              QueueBytes(outPacketQ)
BY DEF Unwritten, Repeated, QueueBytes

LEMMA RepeatedType ==
  ASSUME NEW m \in Messages, NEW n \in Nat
  PROVE  /\ Repeated(m, n) \in Seq(Messages)
         /\ Len(Repeated(m, n)) = n
         /\ \A i \in 1..n : Repeated(m, n)[i] = m
BY DEF Repeated

\* Byte i of a queue is one of its first message, or of the rest of the queue.
LEMMA QueueIndex ==
  ASSUME NEW k \in Nat, NEW i \in 1..k * MessageLength
  PROVE  /\ (i - 1) \div MessageLength \in 0..k - 1
         /\ i <= MessageLength => (i - 1) \div MessageLength = 0
         /\ i > MessageLength =>
              /\ i - MessageLength \in 1..(k - 1) * MessageLength
              /\ ((i - MessageLength) - 1) \div MessageLength =
                   ((i - 1) \div MessageLength) - 1
<1> USE SendActivityAssumption
<1>1. k * MessageLength \in Nat /\ i - 1 \in Nat /\ i \in Nat
  BY SMT
<1>2. PICK q \in Nat, r \in 0..MessageLength - 1 :
        /\ i - 1 = q * MessageLength + r
        /\ (i - 1) \div MessageLength = q
  BY <1>1, Divide
<1>3. q \in 0..k - 1
  <2>1. q * MessageLength < k * MessageLength
    <3>1. q * MessageLength \in Nat
      BY SMT
    <3> QED
      BY <1>1, <1>2, <3>1
  <2>2. q >= k => q * MessageLength >= k * MessageLength
    BY SMT
  <2>3. q * MessageLength \in Nat
    BY SMT
  <2> QED
    BY <1>1, <2>1, <2>2, <2>3
<1>4. i <= MessageLength => q = 0
  <2>1. q >= 1 => q * MessageLength >= MessageLength
    BY SMT
  <2>2. q * MessageLength \in Nat
    BY SMT
  <2> QED
    BY <1>1, <1>2, <2>1, <2>2
<1>5. ASSUME i > MessageLength
      PROVE  /\ i - MessageLength \in 1..(k - 1) * MessageLength
             /\ ((i - MessageLength) - 1) \div MessageLength = q - 1
  <2>1. q >= 1
    <3>1. q = 0 => q * MessageLength = 0
      BY SMT
    <3> QED
      BY <1>1, <1>2, <1>5, <3>1
  <2>2. /\ (q - 1) * MessageLength = q * MessageLength - MessageLength
        /\ (k - 1) * MessageLength = k * MessageLength - MessageLength
        /\ q * MessageLength \in Nat
    BY SMT
  <2>3. (i - MessageLength) - 1 = (q - 1) * MessageLength + r
    BY <1>1, <1>2, <2>2
  <2>4. q - 1 \in Nat
    BY <2>1
  <2>5. ((q - 1) * MessageLength + r) \div MessageLength = q - 1
    BY <2>4, Divided
  <2> QED
    BY <1>1, <1>5, <2>2, <2>3, <2>5
<1> QED
  BY <1>2, <1>3, <1>4, <1>5

LEMMA QueueBytesType ==
  ASSUME NEW q \in Seq(Messages)
  PROVE  /\ QueueBytes(q) \in Seq(Messages)
         /\ Len(QueueBytes(q)) = Len(q) * MessageLength
         /\ Len(q) * MessageLength \in Nat
         /\ \A i \in 1..Len(q) * MessageLength :
              QueueBytes(q)[i] = q[1 + ((i - 1) \div MessageLength)]
<1>1. Len(q) \in Nat /\ Len(q) * MessageLength \in Nat
  <2>1. Len(q) \in Nat
    OBVIOUS
  <2>2. \A k \in Nat : k * MessageLength \in Nat
    BY SendActivityAssumption, SMT
  <2> QED
    BY <2>1, <2>2
<1>2. ASSUME NEW i \in 1..Len(q) * MessageLength
      PROVE  q[1 + ((i - 1) \div MessageLength)] \in Messages
  <2>1. (i - 1) \div MessageLength \in 0..Len(q) - 1
    BY <1>1, <1>2, QueueIndex
  <2>2. 1 + ((i - 1) \div MessageLength) \in 1..Len(q)
    BY <1>1, <2>1
  <2> QED
    BY <2>2, ElementOfSeq
<1>3. QueueBytes(q) \in [1..Len(q) * MessageLength -> Messages]
  BY <1>2 DEF QueueBytes
<1>4. QueueBytes(q) \in Seq(Messages) /\ Len(QueueBytes(q)) = Len(q) * MessageLength
  BY <1>1, <1>3
<1> QED
  BY <1>1, <1>4 DEF QueueBytes

LEMMA QueueBytesEmpty == QueueBytes(<<>>) = <<>>
<1>1. <<>> \in Seq(Messages) /\ Len(<<>>) = 0
  OBVIOUS
<1>2. 0 * MessageLength = 0
  BY SendActivityAssumption, SMT
<1>3. QueueBytes(<<>>) \in Seq(Messages) /\ Len(QueueBytes(<<>>)) = 0
  BY <1>1, <1>2, QueueBytesType
<1> QED
  BY <1>3

\* The bytes of a queue are those of its first message and of the rest, ...
LEMMA QueueBytesHead ==
  ASSUME NEW q \in Seq(Messages), q # <<>>
  PROVE  QueueBytes(q) = Repeated(Head(q), MessageLength) \o QueueBytes(Tail(q))
<1> USE SendActivityAssumption
<1> DEFINE first == Repeated(Head(q), MessageLength)
           rest == QueueBytes(Tail(q))
<1>1. /\ Tail(q) \in Seq(Messages) /\ Head(q) \in Messages /\ Head(q) = q[1]
      /\ Len(q) \in Nat /\ Len(q) >= 1 /\ Len(Tail(q)) = Len(q) - 1
      /\ \A i \in 1..Len(q) - 1 : Tail(q)[i] = q[i + 1]
  BY HeadTailProperties
<1>2. /\ first \in Seq(Messages) /\ Len(first) = MessageLength
      /\ \A i \in 1..MessageLength : first[i] = q[1]
  BY <1>1, RepeatedType
<1>3. PICK n \in Nat : n = Len(q) * MessageLength
                       /\ n - MessageLength = (Len(q) - 1) * MessageLength
  <2>1. \A k \in Nat : (k - 1) * MessageLength = k * MessageLength - MessageLength
    BY SMT
  <2> QED
    BY <1>1, <2>1, QueueBytesType
<1>4. /\ rest \in Seq(Messages) /\ Len(rest) = n - MessageLength
      /\ \A i \in 1..n - MessageLength :
           rest[i] = Tail(q)[1 + ((i - 1) \div MessageLength)]
  BY <1>1, <1>3, QueueBytesType
<1>5. /\ QueueBytes(q) \in Seq(Messages) /\ Len(QueueBytes(q)) = n
      /\ \A i \in 1..n :
           QueueBytes(q)[i] = q[1 + ((i - 1) \div MessageLength)]
  BY <1>3, QueueBytesType
<1> HIDE DEF first, rest
<1>6. /\ first \o rest \in Seq(Messages) /\ Len(first \o rest) = n
      /\ \A i \in 1..n :
           (first \o rest)[i] = IF i <= MessageLength THEN first[i]
                                                      ELSE rest[i - MessageLength]
  <2>1. /\ first \o rest \in Seq(Messages)
        /\ Len(first \o rest) = Len(first) + Len(rest)
        /\ \A i \in 1..Len(first) + Len(rest) :
             (first \o rest)[i] = IF i <= Len(first) THEN first[i]
                                                     ELSE rest[i - Len(first)]
    BY <1>2, <1>4, ConcatProperties
  <2>2. Len(first) + Len(rest) = n
    BY <1>2, <1>4
  <2> QED
    BY <1>2, <2>1, <2>2
<1>7. ASSUME NEW i \in 1..n
      PROVE  QueueBytes(q)[i] = (first \o rest)[i]
  <2>1. PICK d \in 0..Len(q) - 1 :
          /\ d = (i - 1) \div MessageLength
          /\ i <= MessageLength => d = 0
          /\ i > MessageLength =>
               /\ i - MessageLength \in 1..n - MessageLength
               /\ ((i - MessageLength) - 1) \div MessageLength = d - 1
    BY <1>1, <1>3, QueueIndex
  <2>2. QueueBytes(q)[i] = q[1 + d]
    BY <1>5, <2>1
  <2>3. CASE i <= MessageLength
    BY <1>2, <1>6, <2>1, <2>2, <2>3
  <2>4. CASE i > MessageLength
    <3>1. rest[i - MessageLength] = Tail(q)[1 + (d - 1)]
      BY <1>4, <2>1, <2>4
    <3>2. d # 0
      <4>1. i - MessageLength \in Nat \ {0}
        BY <2>4
      <4>2. ((i - MessageLength) - 1) \div MessageLength \in Nat
        BY <4>1, SMT
      <4> QED
        BY <2>1, <2>4, <4>2
    <3>3. 1 + (d - 1) = d /\ d + 1 = 1 + d /\ d \in 1..Len(q) - 1
      BY <1>1, <2>1, <3>2
    <3>4. Tail(q)[d] = q[1 + d]
      BY <1>1, <3>3
    <3> QED
      BY <1>6, <2>2, <2>4, <3>1, <3>3, <3>4
  <2>5. i <= MessageLength \/ i > MessageLength
    OBVIOUS
  <2> QED
    BY <2>3, <2>4, <2>5
<1>8. QueueBytes(q) = first \o rest
  BY <1>5, <1>6, <1>7, SeqEqual
<1> QED
  BY <1>8 DEF first, rest

\* ... and those of a new last message come last.
LEMMA QueueBytesAppend ==
  ASSUME NEW q \in Seq(Messages), NEW m \in Messages
  PROVE  QueueBytes(Append(q, m)) = QueueBytes(q) \o Repeated(m, MessageLength)
<1> USE SendActivityAssumption
<1> DEFINE all == QueueBytes(Append(q, m))
           most == QueueBytes(q)
           last == Repeated(m, MessageLength)
<1>1. /\ Append(q, m) \in Seq(Messages) /\ Len(Append(q, m)) = Len(q) + 1
      /\ \A i \in 1..Len(q) : Append(q, m)[i] = q[i]
      /\ Append(q, m)[Len(q) + 1] = m /\ Len(q) \in Nat
  BY AppendProperties
<1>2. /\ last \in Seq(Messages) /\ Len(last) = MessageLength
      /\ \A i \in 1..MessageLength : last[i] = m
  BY RepeatedType
<1>3. PICK n \in Nat : n = Len(q) * MessageLength
                       /\ n + MessageLength = (Len(q) + 1) * MessageLength
  <2>1. \A k \in Nat : (k + 1) * MessageLength = k * MessageLength + MessageLength
    BY SMT
  <2> QED
    BY <1>1, <2>1, QueueBytesType
<1>4. /\ most \in Seq(Messages) /\ Len(most) = n
      /\ \A i \in 1..n : most[i] = q[1 + ((i - 1) \div MessageLength)]
  BY <1>3, QueueBytesType
<1>5. /\ all \in Seq(Messages) /\ Len(all) = n + MessageLength
      /\ \A i \in 1..n + MessageLength :
           all[i] = Append(q, m)[1 + ((i - 1) \div MessageLength)]
  BY <1>1, <1>3, QueueBytesType
<1> HIDE DEF all, most, last
<1>6. /\ most \o last \in Seq(Messages) /\ Len(most \o last) = n + MessageLength
      /\ \A i \in 1..n + MessageLength :
           (most \o last)[i] = IF i <= n THEN most[i] ELSE last[i - n]
  <2>1. /\ most \o last \in Seq(Messages)
        /\ Len(most \o last) = Len(most) + Len(last)
        /\ \A i \in 1..Len(most) + Len(last) :
             (most \o last)[i] = IF i <= Len(most) THEN most[i]
                                                   ELSE last[i - Len(most)]
    BY <1>2, <1>4, ConcatProperties
  <2> QED
    BY <1>2, <1>4, <2>1
<1>7. ASSUME NEW i \in 1..n + MessageLength
      PROVE  all[i] = (most \o last)[i]
  <2>1. CASE i <= n
    <3>1. i \in 1..n
      BY <2>1
    <3>2. PICK d \in 0..Len(q) - 1 : d = (i - 1) \div MessageLength
      BY <1>1, <1>3, <3>1, QueueIndex
    <3>3. most[i] = q[1 + d] /\ all[i] = Append(q, m)[1 + d]
      BY <1>4, <1>5, <3>1, <3>2
    <3>4. 1 + d \in 1..Len(q)
      BY <1>1, <3>2
    <3> QED
      BY <1>1, <1>6, <2>1, <3>3, <3>4
  <2>2. CASE i > n
    <3>1. PICK r \in 0..MessageLength - 1 : i - 1 = n + r
      <4>1. (i - 1) - n \in 0..MessageLength - 1 /\ i - 1 = n + ((i - 1) - n)
        BY <2>2
      <4> QED
        BY <4>1
    <3>2. (i - 1) \div MessageLength = Len(q)
      <4>1. (Len(q) * MessageLength + r) \div MessageLength = Len(q)
        BY <1>1, Divided
      <4> QED
        BY <1>3, <3>1, <4>1
    <3>3. all[i] = Append(q, m)[Len(q) + 1]
      <4>1. all[i] = Append(q, m)[1 + Len(q)]
        BY <1>5, <3>2
      <4> QED
        BY <1>1, <4>1
    <3>4. i - n \in 1..MessageLength
      BY <2>2
    <3> QED
      BY <1>1, <1>2, <1>6, <2>2, <3>3, <3>4
  <2>3. i <= n \/ i > n
    OBVIOUS
  <2> QED
    BY <2>1, <2>2, <2>3
<1>8. all = most \o last
  BY <1>5, <1>6, <1>7, SeqEqual
<1> QED
  BY <1>8 DEF all, most, last

\* Where the bytes of l repetitions of m and of what follows them are.
LEMMA RepeatedThen ==
  ASSUME NEW m \in Messages, NEW l \in Nat, NEW rest \in Seq(Messages)
  PROVE  /\ Repeated(m, l) \o rest \in Seq(Messages)
         /\ Len(Repeated(m, l) \o rest) = l + Len(rest)
         /\ \A i \in 1..l + Len(rest) :
              (Repeated(m, l) \o rest)[i] = IF i <= l THEN m ELSE rest[i - l]
<1> DEFINE first == Repeated(m, l)
<1>1. /\ first \in Seq(Messages) /\ Len(first) = l
      /\ \A i \in 1..l : first[i] = m
  BY RepeatedType
<1> HIDE DEF first
<1>2. /\ first \o rest \in Seq(Messages)
      /\ Len(first \o rest) = Len(first) + Len(rest)
      /\ \A i \in 1..Len(first) + Len(rest) :
           (first \o rest)[i] = IF i <= Len(first) THEN first[i]
                                                   ELSE rest[i - Len(first)]
  BY <1>1, ConcatProperties
<1>3. ASSUME NEW i \in 1..l + Len(rest)
      PROVE  (first \o rest)[i] = IF i <= l THEN m ELSE rest[i - l]
  <2>1. i <= l => i \in 1..l
    OBVIOUS
  <2> QED
    BY <1>1, <1>2, <2>1
<1>4. Len(first \o rest) = l + Len(rest)
  BY <1>1, <1>2
<1> QED
  BY <1>2, <1>3, <1>4 DEF first

\* The first n bytes of a message and what follows, taken off and left over.
LEMMA TakeBytes ==
  ASSUME NEW m \in Messages, NEW l \in Nat, NEW n \in 0..l,
         NEW rest \in Seq(Messages)
  PROVE  LET all == Repeated(m, l) \o rest
         IN  /\ Len(all) \in Nat /\ Len(all) >= l
             /\ SubSeq(all, 1, n) = Repeated(m, n)
             /\ SubSeq(all, n + 1, Len(all)) = Repeated(m, l - n) \o rest
<1> DEFINE all == Repeated(m, l) \o rest
<1>1. l - n \in Nat /\ n \in Nat /\ Len(rest) \in Nat
  BY LenProperties
<1>2. /\ all \in Seq(Messages) /\ Len(all) = l + Len(rest)
      /\ \A i \in 1..l + Len(rest) : all[i] = IF i <= l THEN m ELSE rest[i - l]
  BY RepeatedThen
<1> HIDE DEF all
<1>3. SubSeq(all, 1, n) = Repeated(m, n)
  <2>1. ASSUME NEW i \in 1..n PROVE all[i] \in Messages /\ all[i] = m
    <3>1. i \in 1..l + Len(rest) /\ i <= l
      BY <1>1
    <3> QED
      BY <1>2, <3>1
  <2>2. /\ SubSeq(all, 1, n) \in Seq(Messages) /\ Len(SubSeq(all, 1, n)) = n
        /\ \A i \in 1..n : SubSeq(all, 1, n)[i] = all[i]
    <3>1. /\ SubSeq(all, 1, n) \in Seq(Messages)
          /\ Len(SubSeq(all, 1, n)) = IF 1 <= n THEN n - 1 + 1 ELSE 0
          /\ \A i \in 1..n - 1 + 1 : SubSeq(all, 1, n)[i] = all[1 + i - 1]
      <4>1. 1 \in Int /\ n \in Int /\ \A i \in 1..n : all[i] \in Messages
        BY <1>1, <2>1
      <4> QED
        BY <4>1, SubSeqProperties
    <3>2. n - 1 + 1 = n /\ \A i \in 1..n : 1 + i - 1 = i
      BY <1>1
    <3>3. Len(SubSeq(all, 1, n)) = n
      BY <1>1, <3>1, <3>2
    <3> QED
      BY <3>1, <3>2, <3>3
  <2>3. /\ Repeated(m, n) \in Seq(Messages) /\ Len(Repeated(m, n)) = n
        /\ \A i \in 1..n : Repeated(m, n)[i] = m
    BY RepeatedType
  <2>4. \A i \in 1..n : SubSeq(all, 1, n)[i] = Repeated(m, n)[i]
    BY <2>1, <2>2, <2>3
  <2> QED
    BY <2>2, <2>3, <2>4, SeqEqual
<1>4. SubSeq(all, n + 1, Len(all)) = Repeated(m, l - n) \o rest
  <2> DEFINE left == SubSeq(all, n + 1, Len(all))
             size == (l - n) + Len(rest)
  <2>1. /\ left \in Seq(Messages) /\ Len(left) = size
        /\ \A i \in 1..size : left[i] = all[n + i]
    <3>1. \A i \in n + 1..Len(all) : all[i] \in Messages
      BY <1>2
    <3>2. /\ left \in Seq(Messages)
          /\ Len(left) = IF n + 1 <= Len(all) THEN Len(all) - (n + 1) + 1 ELSE 0
          /\ \A i \in 1..Len(all) - (n + 1) + 1 : left[i] = all[(n + 1) + i - 1]
      <4>1. n + 1 \in Int /\ Len(all) \in Int
        BY <1>2
      <4> QED
        BY <3>1, <4>1, SubSeqProperties
    <3>3. Len(all) - (n + 1) + 1 = size
      BY <1>2
    <3>4. ASSUME NEW i \in 1..size PROVE left[i] = all[n + i]
      <4>1. (n + 1) + i - 1 = n + i
        OBVIOUS
      <4> QED
        BY <3>2, <3>3, <4>1
    <3>5. Len(left) = size
      BY <1>2, <3>2, <3>3
    <3> QED
      BY <3>2, <3>4, <3>5
  <2>3. /\ Repeated(m, l - n) \o rest \in Seq(Messages)
        /\ Len(Repeated(m, l - n) \o rest) = size
        /\ \A i \in 1..size :
             (Repeated(m, l - n) \o rest)[i] =
               IF i <= l - n THEN m ELSE rest[i - (l - n)]
    BY <1>1, RepeatedThen
  <2> HIDE DEF left
  <2>4. ASSUME NEW i \in 1..size
        PROVE  left[i] = (Repeated(m, l - n) \o rest)[i]
    <3>1. left[i] = all[n + i]
      BY <2>1
    <3>4. n + i \in 1..l + Len(rest)
      BY <1>1
    <3>2. n + i <= l <=> i <= l - n
      BY <1>1
    <3>3. (n + i) - l = i - (l - n)
      BY <1>1
    <3> QED
      BY <1>2, <2>3, <3>1, <3>2, <3>3, <3>4
  <2>5. left = Repeated(m, l - n) \o rest
    BY <2>1, <2>3, <2>4, SeqEqual
  <2> QED
    BY <2>5 DEF left
<1>5. Len(all) \in Nat /\ Len(all) >= l
  BY <1>1, <1>2
<1> QED
  BY <1>3, <1>4, <1>5 DEF all

\* What is left in the packet builder.
LEMMA BuilderBytes ==
  ASSUME TypeInv
  PROVE  Repeated(writePacketBuilder.packet, writePacketBuilder.left)
           \in Seq(Messages)
<1> DEFINE builder == Repeated(writePacketBuilder.packet, writePacketBuilder.left)
<1>1. CASE writePacketBuilder.left > 0
  BY <1>1, RepeatedType, SendActivityAssumption
     DEF TypeInv, TypeOK, BuilderLoaded
<1>2. CASE writePacketBuilder.left = 0
  <2>1. builder = <<>>
    BY <1>2 DEF Repeated
  <2> QED
    BY <2>1
<1> QED
  BY <1>1, <1>2, SendActivityAssumption DEF TypeInv, TypeOK

\* A message is announced to nobody before all of it is in the queue.
LEMMA PushAppends ==
  ASSUME TypeInv, NEW c \in Callers, Push(c)
  PROVE  /\ numOutputMsgs' = numOutputMsgs + 1 /\ numOutputMsgs' \in Messages
         /\ Unwritten \in Seq(Messages) /\ wire \in Seq(Messages) /\ wire' = wire
         /\ Unwritten' = Unwritten \o Repeated(numOutputMsgs', MessageLength)
<1> DEFINE m == numOutputMsgs + 1
           builder == Repeated(writePacketBuilder.packet, writePacketBuilder.left)
<1>1. /\ m \in Messages /\ outPacketQ \in Seq(Messages)
      /\ outPacketQ' = Append(outPacketQ, m)
      /\ UNCHANGED <<wire, writePacketBuilder>>
      /\ numOutputMsgs' = m /\ wire \in Seq(Messages)
  BY SendActivityAssumption DEF Push, TypeInv, TypeOK, Messages
<1>2. builder \in Seq(Messages)
  BY BuilderBytes
<1>3. Unwritten = builder \o QueueBytes(outPacketQ)
  BY UnwrittenIs
<1>4. Unwritten' = builder \o QueueBytes(Append(outPacketQ, m))
  BY <1>1 DEF Unwritten, Repeated, QueueBytes
<1> HIDE DEF m, builder
<1>5. /\ QueueBytes(outPacketQ) \in Seq(Messages)
      /\ Repeated(m, MessageLength) \in Seq(Messages)
  BY <1>1, QueueBytesType, RepeatedType, SendActivityAssumption
<1>6. Unwritten' = Unwritten \o Repeated(m, MessageLength)
  <2>1. QueueBytes(Append(outPacketQ, m)) =
          QueueBytes(outPacketQ) \o Repeated(m, MessageLength)
    BY <1>1, QueueBytesAppend
  <2>2. (builder \o QueueBytes(outPacketQ)) \o Repeated(m, MessageLength) =
          builder \o (QueueBytes(outPacketQ) \o Repeated(m, MessageLength))
    BY <1>2, <1>5, ConcatAssociative
  <2> QED
    BY <1>3, <1>4, <2>1, <2>2
<1>7. Unwritten \in Seq(Messages)
  BY <1>2, <1>3, <1>5, ConcatProperties
<1> QED
  BY <1>1, <1>6, <1>7 DEF m

\* writePacket() moves n bytes from the beginning of what is unwritten to the wire.
LEMMA WriteMoves ==
  ASSUME TypeInv, Write, ~UNCHANGED senderState
  PROVE  \E m \in Messages, l \in 1..MessageLength, n \in 0..MessageLength,
            rest \in Seq(Messages) :
           /\ n <= l
           /\ Unwritten = Repeated(m, l) \o rest
           /\ Unwritten' = Repeated(m, l - n) \o rest
           /\ wire \in Seq(Messages) /\ wire' = wire \o Repeated(m, n)
<1> USE SendActivityAssumption
<1> DEFINE m == Loaded.packet
           l == Loaded.left
           rest == QueueBytes(outPacketQ')
<1>1. /\ m \in Messages /\ l \in 1..MessageLength
      /\ writePacketBuilder.left > 0 \/ outPacketQ # <<>>
      /\ outPacketQ' = IF writePacketBuilder.left > 0 THEN outPacketQ
                                                      ELSE Tail(outPacketQ)
  BY Written
<1>2. PICK n \in 0..l :
        /\ writePacketBuilder'.packet = m
        /\ writePacketBuilder'.left = l - n
        /\ wire' = wire \o Repeated(m, n)
  BY Written DEF Repeated
<1>3. /\ outPacketQ \in Seq(Messages) /\ outPacketQ' \in Seq(Messages)
      /\ rest \in Seq(Messages) /\ wire \in Seq(Messages)
  <2>1. outPacketQ \in Seq(Messages) /\ wire \in Seq(Messages)
    BY DEF TypeInv, TypeOK
  <2>2. outPacketQ' \in Seq(Messages)
    BY <1>1, <2>1, HeadTailProperties
  <2> QED
    BY <2>1, <2>2, QueueBytesType
<1>4. Unwritten = Repeated(m, l) \o rest
  <2>1. CASE writePacketBuilder.left > 0
    BY <1>1, <2>1, UnwrittenIs DEF Loaded
  <2>2. CASE ~(writePacketBuilder.left > 0)
    <3>1. writePacketBuilder.left = 0 /\ outPacketQ # <<>>
      BY <1>1, <2>2 DEF TypeInv, TypeOK
    <3>2. Repeated(writePacketBuilder.packet, writePacketBuilder.left) = <<>>
      BY <3>1 DEF Repeated
    <3>3. Unwritten = QueueBytes(outPacketQ)
      BY <1>3, <3>2, QueueBytesType, UnwrittenIs, ConcatEmptySeq
    <3>4. m = Head(outPacketQ) /\ l = MessageLength
      BY <2>2 DEF Loaded
    <3> QED
      BY <1>1, <1>3, <2>2, <3>1, <3>3, <3>4, QueueBytesHead
  <2> QED
    BY <2>1, <2>2
<1>5. Unwritten' = Repeated(m, l - n) \o rest
  BY <1>2 DEF Unwritten, Repeated, QueueBytes
<1> HIDE DEF m, l, rest
<1>6. n \in 0..MessageLength /\ n <= l
  BY <1>1
<1> QED
  BY <1>1, <1>2, <1>3, <1>4, <1>5, <1>6

LEMMA ChannelPush ==
  ASSUME TypeInv, NEW c \in Callers, Push(c)
  PROVE  Channel!Next
BY PushAppends DEF Channel!Next, Channel!Accept, Channel!Bytes, Repeated

LEMMA ChannelWrite ==
  ASSUME TypeInv, Write, ~UNCHANGED senderState
  PROVE  Channel!Next \/ UNCHANGED <<Unwritten, wire>>
<1>1. PICK m \in Messages, l \in 1..MessageLength, n \in 0..MessageLength,
           rest \in Seq(Messages) :
        /\ n <= l
        /\ Unwritten = Repeated(m, l) \o rest
        /\ Unwritten' = Repeated(m, l - n) \o rest
        /\ wire \in Seq(Messages) /\ wire' = wire \o Repeated(m, n)
  BY WriteMoves
<1>2. l \in Nat /\ n \in 0..l
  BY <1>1, SendActivityAssumption
<1>3. CASE n = 0
  <2>1. Repeated(m, n) = <<>> /\ l - n = l
    BY <1>2, <1>3 DEF Repeated
  <2>2. wire' = wire
    BY <1>1, <2>1, ConcatEmptySeq
  <2> QED
    BY <1>1, <2>1, <2>2
<1>4. CASE n > 0
  <2>1. /\ Len(Unwritten) \in Nat /\ Len(Unwritten) >= l
        /\ SubSeq(Unwritten, 1, n) = Repeated(m, n)
        /\ SubSeq(Unwritten, n + 1, Len(Unwritten)) = Repeated(m, l - n) \o rest
    BY <1>1, <1>2, TakeBytes
  <2>2. n \in 1..Len(Unwritten)
    BY <1>2, <1>4, <2>1
  <2>3. Channel!Transmit(n)
    BY <1>1, <2>1 DEF Channel!Transmit
  <2> QED
    BY <2>2, <2>3 DEF Channel!Next
<1> QED
  BY <1>2, <1>3, <1>4

LEMMA ChannelStep ==
  ASSUME TypeInv, WakeupInv, [Next]_vars
  PROVE  Channel!Next \/ UNCHANGED <<Unwritten, wire>>
<1> USE DEF senderState, stopState, callerState
<1>1. CASE UNCHANGED <<writePacketBuilder, outPacketQ, wire>>
  BY <1>1 DEF Unwritten
<1>2. CASE writePacketBuilder' = NoPacket /\ outPacketQ' = <<>> /\ wire' = wire
  <2>1. Repeated(NoPacket.packet, NoPacket.left) = <<>>
    BY DEF Repeated, NoPacket
  <2>2. Unwritten' = Repeated(NoPacket.packet, NoPacket.left) \o QueueBytes(<<>>)
    BY <1>2 DEF Unwritten, Repeated, QueueBytes
  <2>3. <<>> \o <<>> = <<>>
    BY ConcatEmptySeq, EmptySeq
  <2>4. Unwritten' = <<>>
    BY <2>1, <2>2, <2>3, QueueBytesEmpty
  <2> QED
    BY <1>2, <2>4 DEF Channel!Next, Channel!Discard
<1>3. CASE Connect
  <2>1. Unwritten' = Unwritten
    BY <1>3 DEF Connect, Unwritten
  <2> QED
    BY <1>3, <2>1 DEF Connect, Channel!Next, Channel!NewConnection
<1>4. CASE Write
  BY <1>1, <1>4, ChannelWrite
<1>5. CASE Reinit
  BY <1>2, <1>5 DEF Reinit, WakeupInv, DoneClean
<1>6. ASSUME NEW c \in Callers, Push(c) \/ Notify(c)
      PROVE  Channel!Next \/ UNCHANGED <<Unwritten, wire>>
  BY <1>1, <1>6, ChannelPush DEF Notify
<1>7. CASE OnConnect \/ OnDisconnect \/ DeinitClear
  BY <1>2, <1>7 DEF OnConnect, OnDisconnect, DeinitClear, Clear
<1>8. CASE Wait \/ Reset \/ ExitTest \/ More \/ LoopTest
  BY <1>1, <1>8 DEF Wait, Reset, ExitTest, More, LoopTest
<1>9. CASE PeerDrops \/ CloseSocket
  BY <1>1, <1>9 DEF PeerDrops, CloseSocket
<1>10. CASE DeinitClose \/ DeinitSetExit \/ DeinitNotify \/ DeinitJoin
  BY <1>1, <1>10 DEF DeinitClose, DeinitSetExit, DeinitNotify, DeinitJoin
<1>11. CASE UNCHANGED vars
  BY <1>1, <1>11 DEF vars
<1> QED
  BY <1>3, <1>4, <1>5, <1>6, <1>7, <1>8, <1>9, <1>10, <1>11
     DEF Next, Sender, Client, Deinit

LEMMA WakeupInit == Init => WakeupInv
BY DEF Init, WakeupInv, DoneClean, NotLooking

\* ImplementsChannel: the queue, the send thread and the packet builder implement
\* SendChannel: whatever part of a message send() takes, the bytes that are not
\* written yet are written in order and without a gap, or discarded all at once.
THEOREM ImplementsChannel == Spec => ChannelImplemented
<1>1. Init => Channel!Init
  <2> SUFFICES ASSUME Init PROVE Channel!Init
    OBVIOUS
  <2>1. /\ wire = <<>> /\ outPacketQ = <<>>
        /\ Repeated(writePacketBuilder.packet, writePacketBuilder.left) = <<>>
    BY DEF Init, NoPacket, Repeated
  <2>2. <<>> \o <<>> = <<>>
    BY ConcatEmptySeq, EmptySeq
  <2>3. Unwritten = <<>>
    BY <2>1, <2>2, UnwrittenIs, QueueBytesEmpty
  <2> QED
    BY <2>1, <2>3 DEF Channel!Init
<1>2. WakeupInv /\ [Next]_vars => WakeupInv'
  BY WakeupStep
<1>3. TypeInv /\ WakeupInv /\ [Next]_vars => [Channel!Next]_<<Unwritten, wire>>
  BY ChannelStep
<1> QED
  BY <1>1, <1>2, <1>3, TypeInit, TypeStep, WakeupInit, PTL
     DEF Spec, ChannelImplemented, Channel!Spec
-----------------------------------------------------------------------------
(* What a connection has taken: its wire and what is to follow *)

AllBytes == wire \o Unwritten

\* A thread that runs deinit() past client.close() has the client down.
DownInDeinit == deiniter # "running" => socket = "closed"

LEMMA RepeatedSplit ==
  ASSUME NEW m \in Messages, NEW l \in Nat, NEW n \in 0..l
  PROVE  Repeated(m, n) \o Repeated(m, l - n) = Repeated(m, l)
<1> DEFINE rest == Repeated(m, l - n)
<1>1. /\ rest \in Seq(Messages) /\ Len(rest) = l - n
      /\ \A i \in 1..l - n : rest[i] = m
  BY RepeatedType
<1>2. /\ Repeated(m, l) \in Seq(Messages) /\ Len(Repeated(m, l)) = l
      /\ \A i \in 1..l : Repeated(m, l)[i] = m
  BY RepeatedType
<1> HIDE DEF rest
<1> DEFINE both == Repeated(m, n) \o rest
<1>3. /\ both \in Seq(Messages) /\ Len(both) = n + Len(rest)
      /\ \A i \in 1..n + Len(rest) : both[i] = IF i <= n THEN m ELSE rest[i - n]
  BY <1>1, RepeatedThen
<1> HIDE DEF both
<1>4. Len(both) = l
  BY <1>1, <1>3
<1>5. ASSUME NEW i \in 1..l PROVE both[i] = Repeated(m, l)[i]
  <2>1. i \in 1..n + Len(rest) /\ (i > n => i - n \in 1..l - n)
    BY <1>1
  <2>2. i <= n \/ i > n
    OBVIOUS
  <2> QED
    BY <1>1, <1>2, <1>3, <2>1, <2>2
<1>6. both = Repeated(m, l)
  BY <1>2, <1>3, <1>4, <1>5, SeqEqual
<1> QED
  BY <1>6 DEF both, rest

LEMMA WriteKeeps ==
  ASSUME TypeInv, Write
  PROVE  AllBytes' = AllBytes /\ numOutputMsgs' = numOutputMsgs
<1>1. numOutputMsgs' = numOutputMsgs
  BY DEF Write, callerState
<1>2. CASE UNCHANGED senderState
  BY <1>1, <1>2 DEF senderState, AllBytes, Unwritten
<1>3. CASE ~UNCHANGED senderState
  <2>1. PICK m \in Messages, l \in 1..MessageLength, n \in 0..MessageLength,
             rest \in Seq(Messages) :
          /\ n <= l
          /\ Unwritten = Repeated(m, l) \o rest
          /\ Unwritten' = Repeated(m, l - n) \o rest
          /\ wire \in Seq(Messages) /\ wire' = wire \o Repeated(m, n)
    BY <1>3, WriteMoves
  <2>2. l \in Nat /\ n \in 0..l /\ n \in Nat /\ l - n \in Nat
    BY <2>1, SendActivityAssumption
  <2> DEFINE first == Repeated(m, n)
             second == Repeated(m, l - n)
  <2>3. first \in Seq(Messages) /\ second \in Seq(Messages)
    BY <2>2, RepeatedType
  <2>4. first \o second = Repeated(m, l)
    BY <2>2, RepeatedSplit
  <2> HIDE DEF first, second
  <2>5. second \o rest \in Seq(Messages)
    BY <2>3, ConcatProperties
  <2>6. (wire \o first) \o (second \o rest) = wire \o (first \o (second \o rest))
    <3> DEFINE others == second \o rest
    <3>1. others \in Seq(Messages) /\ wire \in Seq(Messages)
      BY <2>1, <2>5
    <3> HIDE DEF others
    <3>2. (wire \o first) \o others = wire \o (first \o others)
      BY <2>3, <3>1, ConcatAssociative
    <3> QED
      BY <3>2 DEF others
  <2>7. first \o (second \o rest) = (first \o second) \o rest
    BY <2>3, ConcatAssociative
  <2>8. AllBytes' = (wire \o first) \o (second \o rest)
    BY <2>1 DEF AllBytes, first, second
  <2> QED
    BY <1>1, <2>1, <2>4, <2>6, <2>7, <2>8 DEF AllBytes
<1> QED
  BY <1>2, <1>3

LEMMA BytesType ==
  ASSUME TypeInv
  PROVE  /\ wire \in Seq(Messages) /\ Unwritten \in Seq(Messages)
         /\ AllBytes \in Seq(Messages)
<1>1. outPacketQ \in Seq(Messages) /\ wire \in Seq(Messages)
  BY DEF TypeInv, TypeOK
<1>2. /\ QueueBytes(outPacketQ) \in Seq(Messages)
      /\ Repeated(writePacketBuilder.packet, writePacketBuilder.left)
           \in Seq(Messages)
  BY <1>1, BuilderBytes, QueueBytesType
<1>3. Unwritten \in Seq(Messages)
  BY <1>2, ConcatProperties, UnwrittenIs
<1> QED
  BY <1>1, <1>3, ConcatProperties DEF AllBytes

\* What a step can do to them, and which steps take any of them away.
LEMMA BytesStep ==
  ASSUME TypeInv, WakeupInv, [Next]_vars
  PROVE  \/ AllBytes' = AllBytes /\ numOutputMsgs' = numOutputMsgs
         \/ /\ numOutputMsgs' = numOutputMsgs + 1 /\ numOutputMsgs' \in Messages
            /\ AllBytes' = AllBytes \o Repeated(numOutputMsgs', MessageLength)
         \/ Connect /\ AllBytes' = Unwritten /\ numOutputMsgs' = numOutputMsgs
         \/ /\ OnConnect \/ OnDisconnect \/ DeinitClear \/ Reinit
            /\ AllBytes' = wire /\ numOutputMsgs' = numOutputMsgs
<1> USE DEF senderState, stopState, callerState
<1>1. CASE UNCHANGED <<writePacketBuilder, outPacketQ, wire, numOutputMsgs>>
  BY <1>1 DEF AllBytes, Unwritten
<1>2. wire \in Seq(Messages) /\ Unwritten \in Seq(Messages)
  BY BytesType
<1>3. ASSUME writePacketBuilder' = NoPacket, outPacketQ' = <<>>, wire' = wire
      PROVE  AllBytes' = wire
  <2>1. Repeated(NoPacket.packet, NoPacket.left) = <<>>
    BY DEF Repeated, NoPacket
  <2>2. Unwritten' = Repeated(NoPacket.packet, NoPacket.left) \o QueueBytes(<<>>)
    BY <1>3 DEF Unwritten, Repeated, QueueBytes
  <2>3. <<>> \o <<>> = <<>>
    BY ConcatEmptySeq, EmptySeq
  <2>4. Unwritten' = <<>>
    BY <2>1, <2>2, <2>3, QueueBytesEmpty
  <2>5. AllBytes' = wire \o <<>>
    BY <1>3, <2>4 DEF AllBytes
  <2> QED
    BY <1>2, <2>5, ConcatEmptySeq
<1>4. CASE Connect
  <2>1. Unwritten' = Unwritten /\ wire' = <<>> /\ numOutputMsgs' = numOutputMsgs
    BY <1>4 DEF Connect, Unwritten
  <2>2. AllBytes' = <<>> \o Unwritten
    BY <2>1 DEF AllBytes
  <2> QED
    BY <1>2, <1>4, <2>1, <2>2, ConcatEmptySeq
<1>5. CASE Reinit
  BY <1>3, <1>5 DEF Reinit, WakeupInv, DoneClean
<1>6. ASSUME NEW c \in Callers, Push(c)
      PROVE  /\ numOutputMsgs' = numOutputMsgs + 1 /\ numOutputMsgs' \in Messages
             /\ AllBytes' = AllBytes \o Repeated(numOutputMsgs', MessageLength)
  <2>1. /\ numOutputMsgs' = numOutputMsgs + 1 /\ numOutputMsgs' \in Messages
        /\ wire' = wire
        /\ Unwritten' = Unwritten \o Repeated(numOutputMsgs', MessageLength)
    BY <1>6, PushAppends
  <2> DEFINE last == Repeated(numOutputMsgs', MessageLength)
  <2>2. last \in Seq(Messages)
    BY <2>1, RepeatedType, SendActivityAssumption
  <2> HIDE DEF last
  <2>3. (wire \o Unwritten) \o last = wire \o (Unwritten \o last)
    BY <1>2, <2>2, ConcatAssociative
  <2> QED
    BY <2>1, <2>3 DEF AllBytes, last
<1>7. CASE OnConnect \/ OnDisconnect \/ DeinitClear
  BY <1>3, <1>7 DEF OnConnect, OnDisconnect, DeinitClear, Clear
<1>8. CASE Wait \/ Reset \/ ExitTest \/ More \/ LoopTest
  BY <1>1, <1>8 DEF Wait, Reset, ExitTest, More, LoopTest
<1>9. CASE PeerDrops \/ CloseSocket \/ UNCHANGED vars
  BY <1>1, <1>9 DEF PeerDrops, CloseSocket, vars
<1>10. CASE DeinitClose \/ DeinitSetExit \/ DeinitNotify \/ DeinitJoin
  BY <1>1, <1>10 DEF DeinitClose, DeinitSetExit, DeinitNotify, DeinitJoin
<1>11. CASE \E c \in Callers : Notify(c)
  BY <1>1, <1>11 DEF Notify
<1> QED
  BY <1>4, <1>5, <1>6, <1>7, <1>8, <1>9, <1>10, <1>11, WriteKeeps
     DEF Next, Sender, Client, Deinit

LEMMA DownStep ==
  ASSUME ConnectOutlastsTeardown, DownUntilCleared, DownInDeinit, [Next]_vars
  PROVE  DownUntilCleared' /\ DownInDeinit'
<1> USE DEF DownUntilCleared, DownInDeinit, stopState
<1>1. CASE UNCHANGED <<socket, due, deiniter>>
  BY <1>1
<1>2. CASE Client
  BY <1>2 DEF Client, Connect, OnConnect, PeerDrops, CloseSocket, OnDisconnect
<1>3. CASE DeinitClose \/ Deinit \/ Reinit
  BY <1>3 DEF DeinitClose, Deinit, DeinitSetExit, DeinitNotify, DeinitJoin,
              DeinitClear, Reinit
<1>4. CASE UNCHANGED vars \/ \E c \in Callers : Push(c) \/ Notify(c)
  BY <1>1, <1>4 DEF vars, Push, Notify
<1>5. CASE Sender
  BY <1>1, <1>5 DEF Sender, Wait, Reset, ExitTest, Write, More, LoopTest
<1> QED
  BY <1>2, <1>3, <1>4, <1>5 DEF Next

\* Nothing is taken away while the client is up, outside onConnect().
LEMMA BytesKept ==
  ASSUME TypeInv, WakeupInv, DownUntilCleared, DownInDeinit, [Next]_vars,
         socket # "closed", "onConnect" \notin due
  PROVE  \/ AllBytes' = AllBytes /\ numOutputMsgs' = numOutputMsgs
         \/ /\ numOutputMsgs' = numOutputMsgs + 1 /\ numOutputMsgs' \in Messages
            /\ AllBytes' = AllBytes \o Repeated(numOutputMsgs', MessageLength)
<1>1. ~Connect /\ ~OnConnect /\ ~OnDisconnect
  BY DEF DownUntilCleared, Connect, OnConnect, OnDisconnect
<1>2. ~DeinitClear /\ ~Reinit
  BY DEF DownInDeinit, DeinitClear, Reinit
<1> QED
  BY <1>1, <1>2, BytesStep
-----------------------------------------------------------------------------
(* A message and the send thread *)

\* An open socket leaves nothing in the packet builder of a message of one byte.
BuilderEmpty ==
  socket = "open" /\ "onConnect" \notin due => writePacketBuilder.left = 0

LEMMA BuilderEmptyStep ==
  ASSUME MessageLength = 1, TypeInv, BuilderEmpty, [Next]_vars
  PROVE  BuilderEmpty'
<1> USE DEF BuilderEmpty, senderState, stopState, callerState
<1>1. CASE Write
  <2>1. CASE UNCHANGED senderState
    BY <1>1, <2>1 DEF Write
  <2>2. CASE ~UNCHANGED senderState
    <3>1. PICK n \in Sendable(Loaded.left) :
            writePacketBuilder' = [Loaded EXCEPT !.left = @ - n]
      BY <1>1, <2>2 DEF Write
    <3>2. /\ Loaded = [packet |-> Loaded.packet, left |-> Loaded.left]
          /\ Loaded.left = 1
      BY DEF Loaded, TypeInv, TypeOK
    <3>3. writePacketBuilder' = [packet |-> Loaded.packet, left |-> 1 - n]
      BY <3>1, <3>2
    <3>4. socket = "open" => n = 1
      BY <3>2 DEF Sendable
    <3> QED
      BY <1>1, <3>3, <3>4 DEF Write
  <2> QED
    BY <2>1, <2>2
<1>2. CASE Connect \/ PeerDrops \/ CloseSocket
  BY <1>2 DEF Connect, PeerDrops, CloseSocket
<1>3. CASE OnConnect \/ OnDisconnect \/ DeinitClear \/ Reinit
  BY <1>3 DEF OnConnect, OnDisconnect, DeinitClear, Reinit, Clear, NoPacket
<1>4. CASE DeinitClose \/ DeinitSetExit \/ DeinitNotify \/ DeinitJoin
  BY <1>4 DEF DeinitClose, DeinitSetExit, DeinitNotify, DeinitJoin
<1>5. CASE Wait \/ Reset \/ ExitTest \/ More \/ LoopTest
  BY <1>5 DEF Wait, Reset, ExitTest, More, LoopTest
<1>6. CASE UNCHANGED vars \/ \E c \in Callers : Push(c) \/ Notify(c)
  BY <1>6 DEF vars, Push, Notify
<1> QED
  BY <1>1, <1>2, <1>3, <1>4, <1>5, <1>6 DEF Next, Sender, Client, Deinit

Queued(m) == \E i \in 1..Len(outPacketQ) : outPacketQ[i] = m

\* The send thread will look at the queue again, or c is about to wake it.
WillLook(c) ==
  \/ eventPacketsAvailableToSend
  \/ c \in calling
  \/ sender \in {"reset", "exitTest", "write", "more"}

\* While the send thread runs, a message that waits in the queue is one that it
\* will find there or that its caller c has yet to announce.
LEMMA LookStep ==
  ASSUME TypeInv, WakeupInv, [Next]_vars, ~shouldExit,
         NEW m, m # numOutputMsgs + 1, NEW c, Queued(m) => WillLook(c),
         ~shouldExit', Queued(m)'
  PROVE  WillLook(c)'
<1> USE DEF WillLook, senderState, stopState, callerState, Goto
<1>1. CASE UNCHANGED outPacketQ
  <2>1. Queued(m)
    BY <1>1 DEF Queued
  <2>2. outPacketQ # <<>>
    BY <2>1, EmptySeq DEF Queued
  <2>3. CASE Sender
    BY <2>1, <2>2, <2>3 DEF Sender, Wait, Reset, ExitTest, Write, More, LoopTest
  <2>4. CASE Client
    BY <2>1, <2>4 DEF Client, Connect, OnConnect, PeerDrops, CloseSocket,
                      OnDisconnect
  <2>5. CASE DeinitClose \/ Deinit
    BY <2>1, <2>5 DEF DeinitClose, Deinit, DeinitSetExit, DeinitNotify,
                      DeinitJoin, DeinitClear
  <2>6. CASE Reinit
    BY <2>2, <2>6 DEF Reinit, WakeupInv, DoneClean
  <2>7. CASE UNCHANGED vars
    BY <2>1, <2>7 DEF vars
  <2>8. CASE \E d \in Callers : Push(d) \/ Notify(d)
    BY <2>1, <2>8 DEF Push, Notify
  <2> QED
    BY <2>3, <2>4, <2>5, <2>6, <2>7, <2>8 DEF Next
<1>2. CASE outPacketQ' = <<>>
  BY <1>2, EmptySeq DEF Queued
<1>3. CASE Write
  BY <1>3 DEF Write
<1>4. CASE \E d \in Callers : Push(d)
  <2>1. PICK d \in Callers : Push(d)
    BY <1>4
  <2>2. Queued(m)
    <3>1. outPacketQ' = Append(outPacketQ, numOutputMsgs + 1)
      BY <2>1 DEF Push
    <3>2. outPacketQ \in Seq(Messages) /\ numOutputMsgs + 1 \in Messages
      BY <2>1, PushAppends DEF TypeInv, TypeOK, Push
    <3>3. PICK i \in 1..Len(outPacketQ') : outPacketQ'[i] = m
      BY DEF Queued
    <3>4. i \in 1..Len(outPacketQ) /\ outPacketQ[i] = m
      BY <3>1, <3>2, <3>3, AppendProperties
    <3> QED
      BY <3>4 DEF Queued
  <2> QED
    BY <2>1, <2>2 DEF Push
<1> QED
  BY <1>1, <1>2, <1>3, <1>4
     DEF Next, Sender, Wait, Reset, ExitTest, More, LoopTest, Client, Connect,
         OnConnect, PeerDrops, CloseSocket, OnDisconnect, DeinitClose, Deinit,
         DeinitSetExit, DeinitNotify, DeinitJoin, DeinitClear, Reinit, Clear,
         Notify, vars

\* What is on the wire of a connection stays there.
LEMMA WireGrows ==
  ASSUME TypeInv, [Next]_vars, socket # "closed",
         NEW m, \E i \in 1..Len(wire) : wire[i] = m
  PROVE  \E i \in 1..Len(wire') : wire'[i] = m
<1>1. CASE wire' = wire
  BY <1>1
<1>2. CASE Write /\ ~UNCHANGED senderState
  <2>1. PICK p \in Messages, l \in 1..MessageLength, n \in 0..MessageLength,
             rest \in Seq(Messages) :
          /\ n <= l
          /\ wire \in Seq(Messages) /\ wire' = wire \o Repeated(p, n)
    BY <1>2, WriteMoves
  <2>2. n \in Nat
    BY <2>1, SendActivityAssumption
  <2>3. Repeated(p, n) \in Seq(Messages)
    BY <2>2, RepeatedType
  <2> DEFINE more == Repeated(p, n)
  <2> HIDE DEF more
  <2>4. /\ Len(wire) \in Nat /\ Len(more) \in Nat
        /\ Len(wire \o more) = Len(wire) + Len(more)
        /\ \A i \in 1..Len(wire) : (wire \o more)[i] = wire[i]
    BY <2>1, <2>3 DEF more
  <2>5. PICK i \in 1..Len(wire) : wire[i] = m
    OBVIOUS
  <2>6. i \in 1..Len(wire \o more) /\ (wire \o more)[i] = m
    BY <2>4, <2>5
  <2> QED
    BY <2>1, <2>6 DEF more
<1>3. ~Connect
  BY DEF Connect
<1> QED
  BY <1>1, <1>2, <1>3
     DEF Next, Sender, Wait, Reset, ExitTest, Write, More, LoopTest, Client,
         OnConnect, PeerDrops, CloseSocket, OnDisconnect, DeinitClose, Deinit,
         DeinitSetExit, DeinitNotify, DeinitJoin, DeinitClear, Reinit, Clear,
         Push, Notify, vars, senderState
=============================================================================
