------------------------------ MODULE Session -------------------------------
(***************************************************************************)
(* Session and sequence numbers: HKDevice::sendMsg and SessionInfo         *)
(* (hkDevice.cpp, hkDevice.h), which HKDeviceMgr::sendCmdMsg goes through. *)
(*                                                                         *)
(* On the server's SUBSCRIBER the receive thread counts sessionKey up,     *)
(* starts the numbers of the messages anew, and only then sets the stream  *)
(* open.  Threads of the application number and stamp messages meanwhile.  *)
(* None of the three variables is atomic or locked: each access is a step. *)
(*                                                                         *)
(* rreferenceInfo refers to a local of HKDeviceMgr's constructor, which    *)
(* has returned: the key is uninitialised, and whoever uses that stack     *)
(* next overwrites it, at any time.  Nothing can be said of it, and the    *)
(* properties are about the numbers alone.                                 *)
(***************************************************************************)
EXTENDS Integers, Sequences

CONSTANTS
  Senders,      \* the threads of the application that call sendMsg()
  Forcing,      \* those of them that pass forceSend
  MaxMessages,  \* bound: messages numbered in a behaviour
  MaxOpenings   \* bound: SUBSCRIBERs received in a behaviour

ASSUME SessionAssumption ==
  /\ Forcing \subseteq Senders
  /\ MaxMessages \in Nat
  /\ MaxOpenings \in Nat

VARIABLES
  stream,           \* HKDevice::stream: "created", "open" or "closed"
  sessionKey,       \* in the SessionInfo that rreferenceInfo refers to
  numSendMessages,
  recv,             \* where the receive thread is
  sender,           \* where each sender is in sendMsg(), "idle" outside it
  message,          \* each sender's message: its number, and (history) the
                    \* opening in which that was taken
  out,              \* the messages handed to sendMsgOut(), with their keys
  openings,         \* history: SUBSCRIBERs so far
  numbered,         \* history: messages numbered so far
  raced,            \* history: the overlaps there have been, and the opening
                    \* in which each was
  exposed           \* history: the openings that do not keep senders off

device == <<stream, sessionKey, numSendMessages>>
sending == <<sender, message, out, numbered>>
vars == <<device, recv, sending, openings, raced, exposed>>

\* The key starts with any value and may be overwritten by any other: two stand
\* for all, and openings count it up from there.
Garbage == {0, 1}
Keys == 0..1 + MaxOpenings

Messages == [seq : 0..MaxMessages, opening : 0..MaxOpenings]
Stamped == [key : Keys, seq : 0..MaxMessages, opening : 0..MaxOpenings]

TypeOK ==
  /\ stream \in {"created", "open", "closed"}
  /\ sessionKey \in 0..1 + openings
  /\ numSendMessages \in -1..numbered
  /\ recv \in {"reading", "renumber", "setOpened"}
  /\ sender \in [Senders -> {"idle", "load", "store", "stamp"}]
  /\ message \in [Senders -> Messages]
  /\ out \in Seq(Stamped)
  /\ openings \in 0..MaxOpenings
  /\ numbered \in 0..MaxMessages
  /\ raced \in SUBSET ({"senders", "opening"} \X (0..openings))
  /\ exposed \in SUBSET (0..openings)

Init ==
  /\ stream = "created"
  /\ sessionKey \in Garbage
  /\ numSendMessages = 0
  /\ recv = "reading"
  /\ sender = [s \in Senders |-> "idle"]
  /\ message = [s \in Senders |-> [seq |-> 0, opening |-> 0]]
  /\ out = <<>>
  /\ openings = 0
  /\ numbered = 0
  /\ raced = {}
  /\ exposed = {}

-----------------------------------------------------------------------------
(* The overlaps that can do harm: two threads in the middle of ++numSendMessages, *)
(* and a message whose number is taken, but not its key, between the two steps   *)
(* with which the receive thread changes them.                                   *)

SendersRace ==
  \E s, t \in Senders : s # t /\ sender[s] = "store" /\ sender[t] = "store"

OpeningRaces ==
  recv = "renumber" /\ \E s \in Senders : sender[s] \in {"store", "stamp"}

Watch ==
  raced' = raced \cup (IF SendersRace' THEN {<<"senders", openings'>>} ELSE {})
                 \cup (IF OpeningRaces' THEN {<<"opening", openings'>>} ELSE {})

-----------------------------------------------------------------------------
(* The receive thread *)

\* What keeps senders off is a stream that is not open, and was not lately.
MeetsSenders == stream = "open" \/ \E s \in Senders : sender[s] # "idle"

\* Mutant: the stream is set open first.
OpenKey_OpensFirst ==
  /\ recv = "reading"
  /\ openings < MaxOpenings
  /\ recv' = "renumber"
  /\ openings' = openings + 1
  /\ sessionKey' = sessionKey + 1
  /\ stream' = "open"
  /\ exposed' = exposed \cup (IF MeetsSenders THEN {openings'} ELSE {})
  /\ UNCHANGED <<numSendMessages, sending>>

\* onOpenForDataEvent
OpenKey ==
  /\ recv = "reading"
  /\ openings < MaxOpenings
  /\ recv' = "renumber"
  /\ openings' = openings + 1
  /\ sessionKey' = sessionKey + 1
  /\ exposed' = exposed \cup (IF MeetsSenders THEN {openings'} ELSE {})
  /\ UNCHANGED <<stream, numSendMessages, sending>>

\* Mutant: a new session goes on with the numbers of the last one.
OpenRenumber_Dropped ==
  /\ recv = "renumber"
  /\ recv' = "setOpened"
  /\ UNCHANGED <<device, sending, openings, exposed>>

OpenRenumber ==
  /\ recv = "renumber"
  /\ recv' = "setOpened"
  /\ numSendMessages' = -1
  /\ UNCHANGED <<stream, sessionKey, sending, openings, exposed>>

OpenStream ==
  /\ recv = "setOpened"
  /\ recv' = "reading"
  /\ stream' = "open"
  /\ UNCHANGED <<sessionKey, numSendMessages, sending, openings, exposed>>

\* onClosedForDataEvent: UNSUBSCRIBER, CLOSEDFORDATA, or the end of a connection
CloseStream ==
  /\ recv = "reading"
  /\ stream = "open"
  /\ stream' = "closed"
  /\ UNCHANGED <<sessionKey, numSendMessages, recv, sending, openings, exposed>>

Recv == OpenKey \/ OpenRenumber \/ OpenStream \/ CloseStream

-----------------------------------------------------------------------------
(* sendMsg(), in a thread of the application *)

Goto(s, from, to) ==
  /\ sender[s] = from
  /\ sender' = [sender EXCEPT ![s] = to]

\* sendMsg() returns at once if the stream is not open, unless it is forced.
StreamTest(s) ==
  /\ s \in Forcing \/ stream = "open"
  /\ Goto(s, "idle", "load")
  /\ exposed' = exposed \cup (IF recv # "reading" /\ s \in Forcing
                             THEN {openings} ELSE {})
  /\ UNCHANGED <<device, recv, message, out, numbered, openings>>

\* Mutant: a postfix increment: the number is the one before.
Load_Postfix(s) ==
  /\ numbered < MaxMessages
  /\ Goto(s, "load", "store")
  /\ numbered' = numbered + 1
  /\ message' = [message EXCEPT ![s] = [seq |-> numSendMessages,
                                        opening |-> openings]]
  /\ UNCHANGED <<device, recv, out, openings, exposed>>

\* ++numSendMessages ...
Load(s) ==
  /\ numbered < MaxMessages
  /\ Goto(s, "load", "store")
  /\ numbered' = numbered + 1
  /\ message' = [message EXCEPT ![s] = [seq |-> numSendMessages + 1,
                                        opening |-> openings]]
  /\ UNCHANGED <<device, recv, out, openings, exposed>>

\* Mutant: the number is taken from the variable, and never stored back.
Store_Dropped(s) ==
  /\ Goto(s, "store", "stamp")
  /\ UNCHANGED <<device, recv, message, out, numbered, openings, exposed>>

\* ... and its result is stored
Store(s) ==
  /\ Goto(s, "store", "stamp")
  /\ numSendMessages' = message[s].seq
  /\ UNCHANGED <<stream, sessionKey, recv, message, out, numbered, openings,
                 exposed>>

\* SessionInfo::setupSession, and sendMsgOut()
Stamp(s) ==
  /\ Goto(s, "stamp", "idle")
  /\ out' = Append(out, [key |-> sessionKey, seq |-> message[s].seq,
                         opening |-> message[s].opening])
  /\ UNCHANGED <<device, recv, message, numbered, openings, exposed>>

sendMsg(s) == StreamTest(s) \/ Load(s) \/ Store(s) \/ Stamp(s)

-----------------------------------------------------------------------------
\* The stack that was HKDeviceMgr's constructor's is used again.
Overwrite ==
  /\ sessionKey' \in Garbage
  /\ UNCHANGED <<stream, numSendMessages, recv, sending, openings, exposed>>

Next ==
  /\ Recv \/ (\E s \in Senders : sendMsg(s)) \/ Overwrite
  /\ Watch

Spec == Init /\ [][Next]_vars

-----------------------------------------------------------------------------
(* Properties *)

\* The damage of an overlap ends with the session it was in.
Clean(o) == \A overlap \in {"senders", "opening"} : <<overlap, o>> \notin raced

\* NumbersAreUnique: no two messages of a session have the same number, unless two
\* threads have been at the numbers at once in that session: an overlap in one
\* session leaves nothing behind in the next.
NumbersAreUnique ==
  \A i, j \in 1..Len(out) :
    (/\ out[i].opening = out[j].opening /\ Clean(out[i].opening)
     /\ out[i].seq = out[j].seq) => i = j

\* NumbersHaveNoGaps: in a session without such an overlap, the message with number
\* n comes after, or along with, those with the numbers 0 to n - 1: a gap means
\* that a message was lost.
Taken(o) ==
  {out[i].seq : i \in {j \in 1..Len(out) : out[j].opening = o}} \cup
  {message[s].seq : s \in {t \in Senders : /\ sender[t] \in {"store", "stamp"}
                                           /\ message[t].opening = o}}
NumbersHaveNoGaps ==
  \A o \in 1..openings :
    Clean(o) => \A n \in Taken(o) : 0..n \subseteq Taken(o)

\* OpeningIsGuarded: the stream is opened last, so that an opening meets the
\* numbering of a message only if a stream is opened that is open already, if the
\* message is past its test of the stream when the opening starts, or if it is
\* forced.
OpeningIsGuarded ==
  \A o \in 1..openings : <<"opening", o>> \in raced => o \in exposed
=============================================================================
