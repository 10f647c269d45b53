---------------------------- MODULE SendActivity ----------------------------
(***************************************************************************)
(* The way out: HKClientCore::SendActivity and its queue (hkClient.cpp).   *)
(*                                                                         *)
(* Any thread may call sendOut(): it pushes a message under the queue's    *)
(* lock and then, in a second step, notifies the send thread.  The send    *)
(* thread resets the event, and writes until the queue is empty.           *)
(* writePacket() holds writePacketBuilderLock, as onConnect() and          *)
(* onDisconnect() do, so each is one action.                               *)
(*                                                                         *)
(* The socket belongs to the rest of the client: it is connected, lost and *)
(* closed around SendActivity, which learns of it later, when onConnect()  *)
(* or onDisconnect() gets round to it (the calls that are due).            *)
(***************************************************************************)
EXTENDS Naturals, Sequences

CONSTANTS
  Callers,        \* the threads that call sendOut()
  MaxMessages,    \* bound: messages handed to sendOut() in a behaviour
  MessageLength,  \* bytes of a message
  PartialSends,   \* send() may accept a part of what it is given
  ConnectOutlastsTeardown  \* as in Connection

ASSUME SendActivityAssumption ==
  /\ MaxMessages \in Nat
  /\ MessageLength \in Nat \ {0}
  /\ PartialSends \in BOOLEAN
  /\ ConnectOutlastsTeardown \in BOOLEAN

VARIABLES
  socket,       \* as in Connection
  due,          \* the calls of SendActivity that the client still has to make
  outPacketQ,
  writePacketBuilder,  \* the message being written and its bytes still to go
  eventPacketsAvailableToSend,
  numOutputMsgs,       \* messages handed over so far: each is its number
  calling,      \* the callers between the push and the notify of sendOut()
  wire,         \* what was written to the present connection, byte by byte
  early,        \* history: the bytes of wire from before onConnect()
  shouldExit,
  sender,       \* where the send thread is
  deiniter      \* where the thread that calls HKClientCore::deinit is

senderState == <<outPacketQ, writePacketBuilder, wire, early>>
callerState == <<numOutputMsgs, calling>>
stopState == <<shouldExit, deiniter>>
vars == <<socket, due, senderState, eventPacketsAvailableToSend, callerState,
          stopState, sender>>

Messages == 1..MaxMessages

TypeOK ==
  /\ socket \in {"closed", "open", "dead"}
  /\ due \in SUBSET {"onConnect", "onDisconnect"}
  /\ outPacketQ \in Seq(Messages)
  /\ writePacketBuilder \in [packet : 0..MaxMessages, left : 0..MessageLength]
  /\ eventPacketsAvailableToSend \in BOOLEAN
  /\ numOutputMsgs \in 0..MaxMessages
  /\ calling \in SUBSET Callers
  /\ wire \in Seq(Messages)
  /\ early \in Nat
  /\ shouldExit \in BOOLEAN
  /\ sender \in {"wait", "reset", "exitTest", "write", "more", "loopTest",
                 "exited"}
  /\ deiniter \in {"running", "closed", "notify", "join", "clear", "done"}

NoPacket == [packet |-> 0, left |-> 0]

Init ==
  /\ socket = "closed"
  /\ due = {}
  /\ outPacketQ = <<>>
  /\ writePacketBuilder = NoPacket
  /\ eventPacketsAvailableToSend = FALSE
  /\ numOutputMsgs = 0
  /\ calling = {}
  /\ wire = <<>>
  /\ early = 0
  /\ shouldExit = FALSE
  /\ sender = "wait"
  /\ deiniter = "running"

-----------------------------------------------------------------------------
(* sendOut(), by any thread; a message sent after deinit() has come to           *)
(* SendActivity is a misuse and left out.                                        *)

\* Mutant: the message is put at the front of the queue.
Push_Front(c) ==
  /\ ~shouldExit
  /\ c \notin calling
  /\ numOutputMsgs < MaxMessages
  /\ numOutputMsgs' = numOutputMsgs + 1
  /\ outPacketQ' = <<numOutputMsgs + 1>> \o outPacketQ
  /\ calling' = calling \cup {c}
  /\ UNCHANGED <<socket, due, writePacketBuilder, wire, early,
                 eventPacketsAvailableToSend, stopState, sender>>

Push(c) ==
  /\ ~shouldExit
  /\ c \notin calling
  /\ numOutputMsgs < MaxMessages
  /\ numOutputMsgs' = numOutputMsgs + 1
  /\ outPacketQ' = Append(outPacketQ, numOutputMsgs + 1)
  /\ calling' = calling \cup {c}
  /\ UNCHANGED <<socket, due, writePacketBuilder, wire, early,
                 eventPacketsAvailableToSend, stopState, sender>>

\* Mutant: only the first message of a queue is announced.
Notify_FirstOnly(c) ==
  /\ c \in calling
  /\ calling' = calling \ {c}
  /\ eventPacketsAvailableToSend' =
       (eventPacketsAvailableToSend \/ Len(outPacketQ) = 1)
  /\ UNCHANGED <<socket, due, senderState, numOutputMsgs, stopState, sender>>

Notify(c) ==
  /\ c \in calling
  /\ calling' = calling \ {c}
  /\ eventPacketsAvailableToSend' = TRUE
  /\ UNCHANGED <<socket, due, senderState, numOutputMsgs, stopState, sender>>

-----------------------------------------------------------------------------
(* The send thread *)

Goto(from, to) == sender = from /\ sender' = to

Wait ==
  /\ eventPacketsAvailableToSend
  /\ Goto("wait", "reset")
  /\ UNCHANGED <<socket, due, senderState, eventPacketsAvailableToSend,
                 callerState, stopState>>

Reset ==
  /\ Goto("reset", "exitTest")
  /\ eventPacketsAvailableToSend' = FALSE
  /\ UNCHANGED <<socket, due, senderState, callerState, stopState>>

ExitTest ==
  /\ Goto("exitTest", IF shouldExit THEN "exited" ELSE "write")
  /\ UNCHANGED <<socket, due, senderState, eventPacketsAvailableToSend,
                 callerState, stopState>>

\* Mutant: the -1 of a failed send() is counted as bytes.
Sendable_CountsError(left) ==
  CASE socket = "open" -> IF PartialSends THEN 1..left ELSE {left}
    [] socket = "dead" -> {0, left}
    [] socket = "closed" -> {0 - 1}

\* How much of left bytes send() takes.  A closed socket takes nothing
\* (numSent < 0 counts as 0); one whose peer is gone takes all until the
\* kernel learns of it, and nothing afterwards.
Sendable(left) ==
  CASE socket = "open" -> IF PartialSends THEN 1..left ELSE {left}
    [] socket = "dead" -> {0, left}
    [] socket = "closed" -> {0}

\* Mutant: the packet builder is loaded without asking whether it is empty.
Write_Reloads ==
  /\ Goto("write", "more")
  /\ \/ /\ outPacketQ = <<>>
        /\ UNCHANGED senderState
     \/ /\ outPacketQ # <<>>
        /\ \E n \in Sendable(MessageLength) :
             /\ writePacketBuilder' = [packet |-> Head(outPacketQ),
                                       left |-> MessageLength - n]
             /\ wire' = wire \o [i \in 1..n |-> Head(outPacketQ)]
        /\ outPacketQ' = Tail(outPacketQ)
        /\ early' = early
  /\ UNCHANGED <<socket, due, eventPacketsAvailableToSend, callerState,
                 stopState>>

\* The packet builder, with the next message if the last one is all out.
Loaded ==
  IF writePacketBuilder.left > 0 THEN writePacketBuilder
  ELSE [packet |-> Head(outPacketQ), left |-> MessageLength]

\* writePacket(): take the next message if the last one is all out, and send.
Write ==
  /\ Goto("write", "more")
  /\ \/ /\ writePacketBuilder.left = 0
        /\ outPacketQ = <<>>
        /\ UNCHANGED senderState
     \/ /\ writePacketBuilder.left > 0 \/ outPacketQ # <<>>
        /\ \E n \in Sendable(Loaded.left) :
             /\ writePacketBuilder' = [Loaded EXCEPT !.left = @ - n]
             /\ wire' = wire \o [i \in 1..n |-> Loaded.packet]
        /\ outPacketQ' = IF writePacketBuilder.left > 0 THEN outPacketQ
                                                        ELSE Tail(outPacketQ)
        /\ early' = early
  /\ UNCHANGED <<socket, due, eventPacketsAvailableToSend, callerState,
                 stopState>>

More ==
  /\ Goto("more", IF outPacketQ # <<>> THEN "write" ELSE "loopTest")
  /\ UNCHANGED <<socket, due, senderState, eventPacketsAvailableToSend,
                 callerState, stopState>>

\* Mutant: the event is reset after writing as well as before.
LoopTest_Resets ==
  /\ Goto("loopTest", IF shouldExit THEN "exited" ELSE "wait")
  /\ eventPacketsAvailableToSend' = FALSE
  /\ UNCHANGED <<socket, due, senderState, callerState, stopState>>

LoopTest ==
  /\ Goto("loopTest", IF shouldExit THEN "exited" ELSE "wait")
  /\ UNCHANGED <<socket, due, senderState, eventPacketsAvailableToSend,
                 callerState, stopState>>

Sender == Wait \/ Reset \/ ExitTest \/ Write \/ More \/ LoopTest

-----------------------------------------------------------------------------
(* The client around it *)

Connect ==
  /\ socket = "closed"
  /\ deiniter = "running"
  /\ "onConnect" \notin due
  /\ ConnectOutlastsTeardown => "onDisconnect" \notin due
  /\ socket' = "open"
  /\ due' = due \cup {"onConnect"}
  /\ wire' = <<>>
  /\ early' = 0
  /\ UNCHANGED <<outPacketQ, writePacketBuilder, eventPacketsAvailableToSend,
                 callerState, stopState, sender>>

\* Mutant: the queue is cleared but not the packet builder.
Clear_QueueOnly ==
  /\ outPacketQ' = <<>>
  /\ UNCHANGED <<writePacketBuilder, wire>>

\* The queue is emptied and the packet builder with it.
Clear ==
  /\ outPacketQ' = <<>>
  /\ writePacketBuilder' = NoPacket
  /\ UNCHANGED wire

OnConnect ==
  /\ "onConnect" \in due
  /\ due' = due \ {"onConnect"}
  /\ Clear
  /\ early' = Len(wire)
  /\ UNCHANGED <<socket, eventPacketsAvailableToSend, callerState, stopState,
                 sender>>

PeerDrops ==
  /\ socket = "open"
  /\ socket' = "dead"
  /\ UNCHANGED <<due, senderState, eventPacketsAvailableToSend, callerState,
                 stopState, sender>>

\* By HKClientCore::onDisconnect, which goes on to SendActivity's.
CloseSocket ==
  /\ socket' = "closed"
  /\ due' = due \cup {"onDisconnect"}
  /\ UNCHANGED <<senderState, eventPacketsAvailableToSend, callerState,
                 stopState, sender>>

OnDisconnect ==
  /\ "onDisconnect" \in due
  /\ due' = due \ {"onDisconnect"}
  /\ Clear
  /\ UNCHANGED <<early, socket, eventPacketsAvailableToSend, callerState,
                 stopState, sender>>

Client == Connect \/ OnConnect \/ PeerDrops \/ CloseSocket \/ OnDisconnect

-----------------------------------------------------------------------------
(* HKClientCore::deinit, which ends with SendActivity::deinit *)

\* The signalling thread has exited: there will be no further connection.
DeinitClose ==
  /\ deiniter = "running"
  /\ "onConnect" \notin due
  /\ socket' = "closed"
  /\ deiniter' = "closed"
  /\ UNCHANGED <<due, senderState, eventPacketsAvailableToSend, callerState,
                 shouldExit, sender>>

\* The receive thread has exited: there will be no further onDisconnect().
DeinitSetExit ==
  /\ deiniter = "closed"
  /\ due = {}
  /\ shouldExit' = TRUE
  /\ deiniter' = "notify"
  /\ UNCHANGED <<socket, due, senderState, eventPacketsAvailableToSend,
                 callerState, sender>>

\* Mutant: the send thread is told to exit but not woken.
DeinitNotify_Dropped ==
  /\ deiniter = "notify"
  /\ deiniter' = "join"
  /\ UNCHANGED <<socket, due, senderState, eventPacketsAvailableToSend,
                 callerState, shouldExit, sender>>

DeinitNotify ==
  /\ deiniter = "notify"
  /\ eventPacketsAvailableToSend' = TRUE
  /\ deiniter' = "join"
  /\ UNCHANGED <<socket, due, senderState, callerState, shouldExit, sender>>

DeinitJoin ==
  /\ deiniter = "join"
  /\ sender = "exited"
  /\ deiniter' = "clear"
  /\ UNCHANGED <<socket, due, senderState, eventPacketsAvailableToSend,
                 callerState, shouldExit, sender>>

DeinitClear ==
  /\ deiniter = "clear"
  /\ deiniter' = "done"
  /\ Clear
  /\ UNCHANGED <<early, socket, due, eventPacketsAvailableToSend, callerState,
                 shouldExit, sender>>

\* SendActivity::init after deinit(): everything but the queue starts anew.
Reinit ==
  /\ deiniter = "done"
  /\ deiniter' = "running"
  /\ shouldExit' = FALSE
  /\ sender' = "wait"
  /\ writePacketBuilder' = NoPacket
  /\ eventPacketsAvailableToSend' = FALSE
  /\ UNCHANGED <<socket, due, outPacketQ, wire, early, callerState>>

Deinit == DeinitSetExit \/ DeinitNotify \/ DeinitJoin \/ DeinitClear

-----------------------------------------------------------------------------
Next ==
  \/ \E c \in Callers : Push(c) \/ Notify(c)
  \/ Sender
  \/ Client
  \/ DeinitClose \/ Deinit \/ Reinit

\* Threads run; onConnect() and onDisconnect() are made by running threads.
Fairness ==
  /\ WF_vars(Sender)
  /\ WF_vars(Deinit)
  /\ WF_vars(OnConnect)
  /\ WF_vars(OnDisconnect)
  /\ \A c \in Callers : WF_vars(Notify(c))

Spec == Init /\ [][Next]_vars
FairSpec == Spec /\ Fairness

-----------------------------------------------------------------------------
(* Properties *)

\* What has been taken from callers and not been written.
Unwritten ==
  [i \in 1..writePacketBuilder.left |-> writePacketBuilder.packet] \o
  [i \in 1..Len(outPacketQ) * MessageLength |->
     outPacketQ[1 + ((i - 1) \div MessageLength)]]

\* NoLostWakeup: the send thread never sleeps on a queue that holds messages
\* unless a caller of sendOut() is about to wake it, whatever is pushed while
\* it is between the reset of the event and the end of writePackets().
NoLostWakeup ==
  sender = "wait" /\ outPacketQ # <<>>
    => eventPacketsAvailableToSend \/ calling # {}

\* The bytes of this connection end with what the packet builder has sent.
Sent == MessageLength - writePacketBuilder.left
EndsInRemainder ==
  writePacketBuilder.left \in 1..MessageLength - 1
    => /\ early + Sent <= Len(wire)
       /\ \A i \in Len(wire) - Sent + 1..Len(wire) :
            wire[i] = writePacketBuilder.packet

\* RemainderIsOurs: on a connection with a peer, what is left of a half-sent
\* message is the rest of the one whose beginning ends this connection's bytes:
\* a message that an earlier connection, or the time before onConnect(), cut off
\* is never continued.
RemainderIsOurs == socket = "open" /\ due = {} => EndsInRemainder

\* WireIsFramed: the byte stream of a connection is made of whole messages in
\* the order in which sendOut() took them, the last perhaps still in progress.
\* What goes out before onConnect() may end in a message that is cut off.
Framed(bytes) ==
  \A i \in 1..Len(bytes) - 1 :
    IF i % MessageLength = 0 THEN bytes[i] < bytes[i + 1]
                             ELSE bytes[i] = bytes[i + 1]
WireIsFramed ==
  /\ Framed(SubSeq(wire, 1, early))
  /\ Framed(SubSeq(wire, early + 1, Len(wire)))

\* ChannelImplemented: the queue, the packet builder and the two clearing
\* callbacks together are a channel that loses no byte out of the middle.
Channel == INSTANCE SendChannel WITH backlog <- Unwritten
ChannelImplemented == Channel!Spec

\* AllSent: on a connection that stays, every message is written in the end,
\* except that a send() which takes a part of the last one leaves the rest
\* waiting for the next sendOut().
AllSent ==
  <>[](socket = "open" /\ due = {} /\ deiniter = "running")
    => []<>(Len(Unwritten) < MessageLength)

\* DeinitReturns: deinit() ends: the send thread leaves writePackets() and
\* sees shouldExit.
DeinitReturns == shouldExit ~> deiniter = "done"

\* IdleDeinitReturns: deinit() ends if the queue is empty by then, even with a
\* message that the closed socket will never take in the packet builder.
IdleDeinitReturns == shouldExit /\ outPacketQ = <<>> ~> deiniter = "done"
=============================================================================
