---------------------------- MODULE SessionProofs ----------------------------
(***************************************************************************)
(* Proofs about Session, for any number of senders, messages and openings. *)
(***************************************************************************)
EXTENDS Session, TLAPS

\* A number is not larger than the count of the messages numbered.
NumbersCounted == \A s \in Senders : message[s].seq <= numbered

TypeInv == TypeOK /\ NumbersCounted

LEMMA TypeInit == Init => TypeInv
<1> SUFFICES ASSUME Init PROVE TypeInv
  OBVIOUS
<1> USE SessionAssumption DEF Init
<1>1. message \in [Senders -> Messages]
  BY DEF Messages
<1>2. out \in Seq(Stamped)
  OBVIOUS
<1>3. sessionKey \in 0..1 + openings /\ numSendMessages \in -1..numbered
  BY DEF Garbage
<1>4. openings \in 0..MaxOpenings /\ numbered \in 0..MaxMessages
  OBVIOUS
<1>5. NumbersCounted
  <2> SUFFICES ASSUME NEW s \in Senders PROVE message[s].seq <= numbered
    BY DEF NumbersCounted
  <2>1. message[s] = [seq |-> 0, opening |-> 0]
    OBVIOUS
  <2> QED
    BY <2>1
<1> QED
  BY <1>1, <1>2, <1>3, <1>4, <1>5 DEF TypeOK, TypeInv

\* An overlap is noted for the present opening, and openings only grow.
LEMMA RacedType ==
  ASSUME TypeInv, Watch, openings' = openings \/ openings' = openings + 1
  PROVE  raced' \in SUBSET ({"senders", "opening"} \X (0..openings'))
<1> USE SessionAssumption DEF TypeInv, TypeOK
<1>1. openings' \in Nat /\ 0..openings \subseteq 0..openings'
  OBVIOUS
<1>2. raced \in SUBSET ({"senders", "opening"} \X (0..openings'))
  BY <1>1
<1>3. /\ <<"senders", openings'>> \in {"senders", "opening"} \X (0..openings')
      /\ <<"opening", openings'>> \in {"senders", "opening"} \X (0..openings')
  BY <1>1
<1> QED
  BY <1>2, <1>3 DEF Watch

LEMMA TypeRecv == ASSUME TypeInv, Recv, Watch PROVE TypeInv'
<1>1. raced' \in SUBSET ({"senders", "opening"} \X (0..openings'))
  <2>1. openings' = openings \/ openings' = openings + 1
    BY DEF Recv, OpenKey, OpenRenumber, OpenStream, CloseStream
  <2> QED
    BY <2>1, RacedType
<1> USE SessionAssumption DEF TypeInv, TypeOK, NumbersCounted, sending
<1>2. CASE OpenKey
  <2>1. openings' \in 0..MaxOpenings /\ sessionKey' \in 0..1 + openings'
    BY <1>2 DEF OpenKey
  <2>2. exposed \in SUBSET (0..openings') /\ openings' \in 0..openings'
    BY <1>2 DEF OpenKey
  <2>3. exposed' \in SUBSET (0..openings')
    BY <1>2, <2>2 DEF OpenKey
  <2> QED
    BY <1>1, <1>2, <2>1, <2>3 DEF OpenKey
<1>3. CASE OpenRenumber
  BY <1>1, <1>3 DEF OpenRenumber
<1>4. CASE OpenStream \/ CloseStream
  BY <1>1, <1>4 DEF OpenStream, CloseStream
<1> QED
  BY <1>2, <1>3, <1>4 DEF Recv

LEMMA TypeSend ==
  ASSUME TypeInv, Watch, NEW s \in Senders, sendMsg(s)
  PROVE  TypeInv'
<1>1. raced' \in SUBSET ({"senders", "opening"} \X (0..openings'))
  <2>1. openings' = openings
    BY DEF sendMsg, StreamTest, Load, Store, Stamp
  <2> QED
    BY <2>1, RacedType
<1> USE SessionAssumption
    DEF TypeInv, TypeOK, NumbersCounted, Goto, device, Messages
<1>2. CASE StreamTest(s)
  <2>1. sender' \in [Senders -> {"idle", "load", "store", "stamp"}]
    BY <1>2 DEF StreamTest
  <2>2. exposed' \in SUBSET (0..openings')
    BY <1>2 DEF StreamTest
  <2>3. NumbersCounted'
    BY <1>2 DEF StreamTest
  <2> QED
    BY <1>1, <1>2, <2>1, <2>2, <2>3 DEF StreamTest
<1>3. CASE Load(s)
  <2>1. numSendMessages + 1 \in 0..numbered + 1
    BY <1>3 DEF Load
  <2>2. message' \in [Senders -> Messages]
    <3>1. numSendMessages + 1 \in 0..MaxMessages
      BY <1>3, <2>1 DEF Load
    <3>2. [seq |-> numSendMessages + 1, opening |-> openings] \in Messages
      BY <3>1
    <3> QED
      BY <1>3, <3>2 DEF Load
  <2>3. numSendMessages' \in -1..numbered' /\ numbered' \in 0..MaxMessages
    BY <1>3 DEF Load
  <2>4. NumbersCounted'
    <3> SUFFICES ASSUME NEW t \in Senders PROVE message'[t].seq <= numbered'
      OBVIOUS
    <3>1. message[t].seq \in Nat /\ message[t].seq <= numbered
      OBVIOUS
    <3> QED
      BY <1>3, <2>1, <3>1 DEF Load
  <2> QED
    BY <1>1, <1>3, <2>2, <2>3, <2>4 DEF Load
<1>4. CASE Store(s)
  <2>1. numSendMessages' \in -1..numbered
    BY <1>4 DEF Store
  <2> QED
    BY <1>1, <1>4, <2>1 DEF Store
<1>5. CASE Stamp(s)
  <2>1. [key |-> sessionKey, seq |-> message[s].seq,
         opening |-> message[s].opening] \in Stamped
    BY DEF Stamped, Keys
  <2>2. out' \in Seq(Stamped)
    BY <1>5, <2>1 DEF Stamp
  <2> QED
    BY <1>1, <1>5, <2>2 DEF Stamp
<1> QED
  BY <1>2, <1>3, <1>4, <1>5 DEF sendMsg

LEMMA TypeStep == ASSUME TypeInv, [Next]_vars PROVE TypeInv'
<1>1. CASE UNCHANGED vars
  BY <1>1 DEF vars, device, sending, TypeInv, TypeOK, NumbersCounted
<1>2. CASE Overwrite /\ Watch
  <2>1. raced' \in SUBSET ({"senders", "opening"} \X (0..openings'))
    BY <1>2, RacedType DEF Overwrite
  <2> QED
    BY <1>2, <2>1, SessionAssumption
       DEF Overwrite, Garbage, sending, TypeInv, TypeOK, NumbersCounted
<1> QED
  BY <1>1, <1>2, TypeRecv, TypeSend DEF Next

\* TypeCorrect: the variables keep their types, however the threads overlap.
THEOREM TypeCorrect == Spec => []TypeOK
<1>1. TypeInv /\ [Next]_vars => TypeInv'
  BY TypeStep
<1>2. TypeInv => TypeOK
  BY DEF TypeInv
<1> QED
  BY TypeInit, <1>1, <1>2, PTL DEF Spec

-----------------------------------------------------------------------------
(* The stream guards the opening *)

\* While an opening that nothing has exposed is under way, the stream is not
\* open and nobody is past the test of it.
OpeningAlone ==
  openings \notin exposed /\ recv # "reading"
    => stream # "open" /\ \A s \in Senders : sender[s] = "idle"

GuardInv == TypeInv /\ OpeningAlone /\ OpeningIsGuarded

LEMMA GuardRecv == ASSUME GuardInv, Recv, Watch PROVE OpeningAlone'
<1> USE DEF GuardInv, OpeningAlone, TypeInv, TypeOK, sending, device
<1>1. CASE OpenKey
  BY <1>1 DEF OpenKey, MeetsSenders
<1>2. CASE OpenRenumber \/ OpenStream \/ CloseStream
  BY <1>2 DEF OpenRenumber, OpenStream, CloseStream
<1> QED
  BY <1>1, <1>2 DEF Recv

LEMMA GuardSend ==
  ASSUME GuardInv, Watch, NEW s \in Senders, sendMsg(s)
  PROVE  OpeningAlone'
<1> USE DEF GuardInv, OpeningAlone, TypeInv, TypeOK, sending, device, Goto
<1>1. CASE StreamTest(s)
  BY <1>1 DEF StreamTest
<1>2. CASE Load(s) \/ Store(s) \/ Stamp(s)
  BY <1>2 DEF Load, Store, Stamp
<1> QED
  BY <1>1, <1>2 DEF sendMsg

LEMMA GuardStep == ASSUME GuardInv, [Next]_vars PROVE GuardInv'
<1>1. TypeInv'
  BY TypeStep DEF GuardInv
<1>2. CASE UNCHANGED vars
  BY <1>1, <1>2
     DEF vars, device, sending, GuardInv, OpeningAlone, OpeningIsGuarded
<1>3. CASE Next
  <2>1. OpeningAlone'
    BY <1>3, GuardRecv, GuardSend
       DEF Next, Overwrite, sending, GuardInv, OpeningAlone
  <2>2. exposed \subseteq exposed'
    BY <1>3 DEF Next, Recv, OpenKey, OpenRenumber, OpenStream, CloseStream,
                sendMsg, StreamTest, Load, Store, Stamp, Overwrite
  <2>3. OpeningRaces' => openings' \in exposed'
    BY <1>1, <2>1 DEF OpeningRaces, OpeningAlone, TypeInv, TypeOK
  <2>4. ASSUME NEW o \in 1..openings', <<"opening", o>> \in raced'
        PROVE  o \in exposed'
    <3>1. CASE <<"opening", o>> \in raced
      <4>1. o \in 1..openings
        BY <3>1, SessionAssumption DEF GuardInv, TypeInv, TypeOK
      <4> QED
        BY <2>2, <3>1, <4>1 DEF GuardInv, OpeningIsGuarded
    <3>2. CASE <<"opening", o>> \notin raced
      BY <1>3, <2>3, <2>4, <3>2 DEF Next, Watch
    <3> QED
      BY <3>1, <3>2
  <2> QED
    BY <1>1, <2>1, <2>4 DEF GuardInv, OpeningIsGuarded
<1> QED
  BY <1>2, <1>3

\* GuardedOpening: OpeningIsGuarded holds of every behaviour: with the stream
\* opened last, an opening of a closed stream meets no message that is not forced.
THEOREM GuardedOpening == Spec => []OpeningIsGuarded
<1>1. Init => GuardInv
  BY TypeInit DEF Init, GuardInv, OpeningAlone, OpeningIsGuarded
<1>2. GuardInv /\ [Next]_vars => GuardInv'
  BY GuardStep
<1>3. GuardInv => OpeningIsGuarded
  BY DEF GuardInv
<1> QED
  BY <1>1, <1>2, <1>3, PTL DEF Spec

-----------------------------------------------------------------------------
(* What the numbering keeps *)

\* The overlaps of this moment have been noted.
RacesNoted ==
  /\ SendersRace => <<"senders", openings>> \in raced
  /\ OpeningRaces => <<"opening", openings>> \in raced

\* Nothing that is numbered is of an opening to come, ...
OpeningsPast ==
  /\ \A i \in 1..Len(out) : out[i].opening <= openings
  /\ \A s \in Senders :
       sender[s] \in {"store", "stamp"} => message[s].opening <= openings

\* ... nor of a clean one under way before its numbers have started anew.
NotYet ==
  recv = "renumber" => \A i \in 1..Len(out) : out[i].opening # openings

\* The number that is about to be stored is the next one of the present opening, ...
StoredNow ==
  \A s \in Senders : sender[s] = "store" =>
    message[s].seq = numSendMessages + 1 /\ message[s].opening = openings

\* ... those of its other messages go up to numSendMessages, ...
UsedUp ==
  /\ \A i \in 1..Len(out) :
       out[i].opening = openings => out[i].seq <= numSendMessages
  /\ \A s \in Senders :
       sender[s] = "stamp" /\ message[s].opening = openings
         => message[s].seq <= numSendMessages

\* ... and all of those are taken.
Filled == openings > 0 => 0..numSendMessages \subseteq Taken(openings)

\* The present opening, as long as nothing has overlapped in it.
Present ==
  Clean(openings) =>
    NotYet /\ (recv # "renumber" => StoredNow /\ UsedUp /\ Filled)

\* The integers and records that the steps below compare.
LEMMA NumberTypes ==
  ASSUME TypeInv
  PROVE  /\ numSendMessages \in Int /\ numSendMessages >= -1
         /\ openings \in Nat /\ Len(out) \in Nat
         /\ \A i \in 1..Len(out) : out[i].opening \in Nat /\ out[i].seq \in Nat
         /\ \A s \in Senders : message[s].opening \in Nat /\ message[s].seq \in Nat
<1> USE SessionAssumption DEF TypeInv, TypeOK
<1>1. /\ numSendMessages \in Int /\ numSendMessages >= -1
      /\ openings \in Nat /\ Len(out) \in Nat
  OBVIOUS
<1>2. ASSUME NEW i \in 1..Len(out)
      PROVE  out[i].opening \in Nat /\ out[i].seq \in Nat
  <2>1. out[i] \in Stamped
    OBVIOUS
  <2> QED
    BY <2>1 DEF Stamped
<1>3. \A s \in Senders : message[s].opening \in Nat /\ message[s].seq \in Nat
  BY DEF Messages
<1> QED
  BY <1>1, <1>2, <1>3

\* A number is taken by a message that is out or by one that is to be stamped.
LEMMA InTaken ==
  ASSUME NEW o, NEW n
  PROVE  n \in Taken(o) <=>
           \/ \E i \in 1..Len(out) : out[i].opening = o /\ out[i].seq = n
           \/ \E s \in Senders : /\ sender[s] \in {"store", "stamp"}
                                 /\ message[s].opening = o /\ message[s].seq = n
BY DEF Taken

LEMMA TakenTypes ==
  ASSUME TypeInv, NEW o, NEW n \in Taken(o)
  PROVE  n \in Nat
BY InTaken, NumberTypes

\* Taken does not change when the threads only move around it.
LEMMA TakenKept ==
  ASSUME UNCHANGED <<message, out>>,
         \A s \in Senders : sender'[s] \in {"store", "stamp"}
                              <=> sender[s] \in {"store", "stamp"},
         NEW o
  PROVE  Taken(o)' = Taken(o)
BY DEF Taken

\* Nor when a message that has its number is stamped.
LEMMA TakenStamped ==
  ASSUME TypeInv, NEW s \in Senders, Stamp(s), NEW o
  PROVE  Taken(o)' = Taken(o)
<1>1. /\ sender[s] = "stamp" /\ sender'[s] = "idle"
      /\ \A t \in Senders \ {s} : sender'[t] = sender[t]
      /\ message' = message
  BY DEF Stamp, Goto, TypeInv, TypeOK
<1>2. /\ Len(out') = Len(out) + 1
      /\ \A i \in 1..Len(out) : out'[i] = out[i]
      /\ out'[Len(out) + 1].seq = message[s].seq
      /\ out'[Len(out) + 1].opening = message[s].opening
  BY DEF Stamp, TypeInv, TypeOK
<1>3. ASSUME NEW n PROVE n \in Taken(o)' <=> n \in Taken(o)
  <2>1. n \in Taken(o)' <=>
           \/ \E i \in 1..Len(out') : out'[i].opening = o /\ out'[i].seq = n
           \/ \E t \in Senders : /\ sender'[t] \in {"store", "stamp"}
                                 /\ message[t].opening = o /\ message[t].seq = n
    BY <1>1 DEF Taken
  <2>2. (\E i \in 1..Len(out') : out'[i].opening = o /\ out'[i].seq = n)
          <=> \/ \E i \in 1..Len(out) : out[i].opening = o /\ out[i].seq = n
              \/ message[s].opening = o /\ message[s].seq = n
    <3>1. 1..Len(out') = 1..Len(out) \cup {Len(out) + 1} /\ Len(out) \in Nat
      BY <1>2, NumberTypes
    <3> QED
      BY <1>2, <3>1
  <2> QED
    BY <1>1, <2>1, <2>2, InTaken
<1> QED
  BY <1>3

\* A message that takes a number takes the next one, of the present opening.
LEMMA TakenLoaded ==
  ASSUME TypeInv, NEW s \in Senders, Load(s), NEW o, NEW n
  PROVE  n \in Taken(o)'
           <=> n \in Taken(o) \/ (o = openings /\ n = numSendMessages + 1)
<1>1. /\ sender[s] = "load" /\ sender'[s] = "store"
      /\ message'[s].seq = numSendMessages + 1 /\ message'[s].opening = openings
      /\ \A t \in Senders \ {s} : sender'[t] = sender[t] /\ message'[t] = message[t]
      /\ out' = out
  BY DEF Load, Goto, TypeInv, TypeOK
<1>2. n \in Taken(o)' <=>
         \/ \E i \in 1..Len(out) : out[i].opening = o /\ out[i].seq = n
         \/ \E t \in Senders : /\ sender'[t] \in {"store", "stamp"}
                               /\ message'[t].opening = o /\ message'[t].seq = n
  BY <1>1 DEF Taken
<1> QED
  BY <1>1, <1>2, InTaken

\* A session that is clean after a step was clean before, and no overlap is there.
LEMMA CleanBefore ==
  ASSUME [Next]_vars, RacesNoted
  PROVE  /\ RacesNoted'
         /\ raced \subseteq raced' /\ \A o : Clean(o)' => Clean(o)
         /\ Clean(openings)' => ~SendersRace' /\ ~OpeningRaces'
<1>1. CASE UNCHANGED vars
  BY <1>1 DEF vars, device, sending, RacesNoted, SendersRace, OpeningRaces, Clean
<1>2. CASE Next
  BY <1>2 DEF Next, Watch, RacesNoted, Clean
<1> QED
  BY <1>1, <1>2

NumberInv == TypeInv /\ RacesNoted /\ OpeningsPast /\ Present

LEMMA NumberInit == Init => NumberInv
<1> SUFFICES ASSUME Init PROVE NumberInv
  OBVIOUS
<1>1. RacesNoted
  BY DEF Init, RacesNoted, SendersRace, OpeningRaces
<1>2. OpeningsPast /\ NotYet /\ StoredNow /\ UsedUp
  BY DEF Init, OpeningsPast, NotYet, StoredNow, UsedUp
<1>3. ~(openings > 0)
  BY DEF Init
<1> QED
  BY <1>1, <1>2, <1>3, TypeInit DEF NumberInv, Present, Filled

LEMMA NumberRecv ==
  ASSUME NumberInv, Next, Recv
  PROVE  OpeningsPast' /\ Present'
<1> USE DEF sending, device
<1>1. TypeInv /\ OpeningsPast /\ Present
  BY DEF NumberInv
<1>2. \A o : Taken(o)' = Taken(o)
  BY TakenKept DEF Recv, OpenKey, OpenRenumber, OpenStream, CloseStream
<1>3. CASE OpenKey
  <2>1. OpeningsPast'
    BY <1>1, <1>3, NumberTypes DEF OpenKey, OpeningsPast
  <2>2. NotYet'
    BY <1>1, <1>3, NumberTypes DEF OpenKey, OpeningsPast, NotYet
  <2> QED
    BY <1>3, <2>1, <2>2 DEF OpenKey, Present
<1>4. CASE OpenRenumber
  <2>1. OpeningsPast'
    BY <1>1, <1>4 DEF OpenRenumber, OpeningsPast
  <2> SUFFICES ASSUME Clean(openings)'
               PROVE  NotYet' /\ StoredNow' /\ UsedUp' /\ Filled'
    BY <2>1 DEF Present
  <2>2. openings' = openings /\ recv = "renumber" /\ recv' = "setOpened"
    BY <1>4 DEF OpenRenumber
  <2>3. Clean(openings)
    BY <2>2, CleanBefore DEF NumberInv
  <2>4. \A i \in 1..Len(out) : out[i].opening # openings
    BY <1>1, <2>2, <2>3 DEF Present, NotYet
  <2>5. \A s \in Senders : sender[s] \notin {"store", "stamp"}
    BY <2>2, <2>3 DEF NumberInv, RacesNoted, OpeningRaces, Clean
  <2>6. NotYet' /\ StoredNow' /\ UsedUp'
    BY <1>4, <2>2, <2>4, <2>5 DEF OpenRenumber, NotYet, StoredNow, UsedUp
  <2>7. Filled'
    <3>1. 0..numSendMessages' = {}
      BY <1>4 DEF OpenRenumber
    <3> QED
      BY <3>1 DEF Filled
  <2> QED
    BY <2>6, <2>7
<1>5. CASE OpenStream \/ CloseStream
  <2>1. /\ UNCHANGED <<out, sender, message, openings, numSendMessages>>
        /\ recv # "renumber" /\ recv' # "renumber"
    BY <1>5 DEF OpenStream, CloseStream
  <2>2. OpeningsPast' /\ NotYet'
    BY <1>1, <2>1 DEF OpeningsPast, NotYet
  <2>3. Clean(openings)' => Clean(openings)
    BY <2>1, CleanBefore DEF NumberInv
  <2>4. /\ StoredNow => StoredNow'
        /\ UsedUp => UsedUp'
        /\ Filled => Filled'
    BY <1>2, <2>1 DEF StoredNow, UsedUp, Filled
  <2> QED
    BY <1>1, <2>1, <2>2, <2>3, <2>4 DEF Present
<1> QED
  BY <1>3, <1>4, <1>5 DEF Recv

LEMMA NumberLoad ==
  ASSUME NumberInv, Next, NEW s \in Senders, Load(s)
  PROVE  OpeningsPast' /\ Present'
<1>0. TypeInv /\ OpeningsPast /\ Present
  BY DEF NumberInv
<1>1. /\ sender[s] = "load" /\ sender'[s] = "store"
      /\ message'[s].seq = numSendMessages + 1 /\ message'[s].opening = openings
      /\ \A t \in Senders \ {s} : sender'[t] = sender[t] /\ message'[t] = message[t]
      /\ UNCHANGED <<out, openings, recv, numSendMessages>>
  BY <1>0 DEF Load, Goto, device, TypeInv, TypeOK
<1>2. OpeningsPast'
  BY <1>0, <1>1, NumberTypes DEF OpeningsPast
<1> SUFFICES ASSUME Clean(openings)'
             PROVE  recv # "renumber" /\ StoredNow' /\ UsedUp' /\ Filled'
  BY <1>1, <1>2 DEF Present, NotYet
<1>3. Clean(openings) /\ ~OpeningRaces'
  BY <1>1, CleanBefore DEF NumberInv
<1>4. recv # "renumber"
  BY <1>1, <1>3 DEF OpeningRaces
<1>5. StoredNow /\ UsedUp /\ Filled
  BY <1>0, <1>3, <1>4 DEF Present
<1>6. StoredNow'
  BY <1>1, <1>5 DEF StoredNow
<1>7. UsedUp'
  BY <1>1, <1>5 DEF UsedUp
<1>8. Filled'
  <2>1. \A n : n \in Taken(openings) => n \in Taken(openings)'
    BY <1>0, <1>1, TakenLoaded
  <2> QED
    BY <1>1, <1>5, <2>1 DEF Filled
<1> QED
  BY <1>4, <1>6, <1>7, <1>8

LEMMA NumberStore ==
  ASSUME NumberInv, Next, NEW s \in Senders, Store(s)
  PROVE  OpeningsPast' /\ Present'
<1>0. TypeInv /\ OpeningsPast /\ Present
  BY DEF NumberInv
<1>1. /\ sender[s] = "store" /\ sender'[s] = "stamp"
      /\ numSendMessages' = message[s].seq
      /\ \A t \in Senders \ {s} : sender'[t] = sender[t]
      /\ UNCHANGED <<message, out, openings, recv>>
  BY <1>0 DEF Store, Goto, TypeInv, TypeOK
<1>2. OpeningsPast'
  BY <1>0, <1>1 DEF OpeningsPast
<1> SUFFICES ASSUME Clean(openings)'
             PROVE  recv # "renumber" /\ StoredNow' /\ UsedUp' /\ Filled'
  BY <1>1, <1>2 DEF Present, NotYet
<1>3. Clean(openings) /\ ~OpeningRaces' /\ ~SendersRace'
  BY <1>1, CleanBefore DEF NumberInv
<1>4. recv # "renumber"
  BY <1>1, <1>3 DEF OpeningRaces
<1>5. StoredNow /\ UsedUp /\ Filled
  BY <1>0, <1>3, <1>4 DEF Present
<1>6. numSendMessages' = numSendMessages + 1 /\ message[s].opening = openings
  BY <1>1, <1>5 DEF StoredNow
<1>7. StoredNow'
  <2>1. \A t \in Senders \ {s} : sender[t] # "store"
    BY <1>1, <1>3
       DEF NumberInv, RacesNoted, SendersRace, Clean
  <2> QED
    BY <1>1, <2>1 DEF StoredNow
<1>8. UsedUp'
  <2>1. /\ \A i \in 1..Len(out) : out[i].seq \in Nat
        /\ \A t \in Senders : message[t].seq \in Nat
        /\ numSendMessages \in Int
    BY <1>0, NumberTypes
  <2>2. \A i \in 1..Len(out) :
          out[i].opening = openings => out[i].seq <= numSendMessages'
    BY <1>5, <1>6, <2>1 DEF UsedUp
  <2>3. \A t \in Senders :
          sender'[t] = "stamp" /\ message[t].opening = openings
            => message[t].seq <= numSendMessages'
    <3> SUFFICES ASSUME NEW t \in Senders, sender'[t] = "stamp",
                        message[t].opening = openings
                 PROVE  message[t].seq <= numSendMessages'
      OBVIOUS
    <3>1. CASE t = s
      <4>1. numSendMessages' = message[t].seq /\ message[t].seq \in Nat
        BY <1>1, <2>1, <3>1
      <4> QED
        BY <4>1
    <3>2. CASE t # s
      BY <1>1, <1>5, <1>6, <2>1, <3>2 DEF UsedUp
    <3> QED
      BY <3>1, <3>2
  <2> QED
    BY <1>1, <2>2, <2>3 DEF UsedUp
<1>9. Filled'
  <2>1. numSendMessages + 1 \in Taken(openings)
    <3>1. message[s].seq \in Taken(openings)
      BY <1>1, <1>6, InTaken
    <3> QED
      BY <1>1, <1>6, <3>1
  <2>2. \A k \in 0..numSendMessages + 1 :
          k \in 0..numSendMessages \/ k = numSendMessages + 1
    BY <1>0, NumberTypes
  <2>3. Taken(openings)' = Taken(openings)
    BY <1>1, TakenKept
  <2> QED
    BY <1>1, <1>5, <1>6, <2>1, <2>2, <2>3 DEF Filled
<1> QED
  BY <1>4, <1>7, <1>8, <1>9

LEMMA NumberStamp ==
  ASSUME NumberInv, Next, NEW s \in Senders, Stamp(s)
  PROVE  OpeningsPast' /\ Present'
<1>0. TypeInv /\ OpeningsPast /\ Present
  BY DEF NumberInv
<1>1. /\ sender[s] = "stamp" /\ sender'[s] = "idle"
      /\ \A t \in Senders \ {s} : sender'[t] = sender[t]
      /\ UNCHANGED <<message, openings, recv, numSendMessages>>
  BY <1>0 DEF Stamp, Goto, device, TypeInv, TypeOK
<1>2. /\ Len(out') = Len(out) + 1
      /\ \A i \in 1..Len(out) : out'[i] = out[i]
      /\ out'[Len(out) + 1].seq = message[s].seq
      /\ out'[Len(out) + 1].opening = message[s].opening
  BY <1>0 DEF Stamp, TypeInv, TypeOK
<1>3. OpeningsPast'
  BY <1>0, <1>1, <1>2, NumberTypes DEF OpeningsPast
<1> SUFFICES ASSUME Clean(openings)'
             PROVE  recv # "renumber" /\ StoredNow' /\ UsedUp' /\ Filled'
  BY <1>1, <1>3 DEF Present, NotYet
<1>4. Clean(openings)
  BY <1>1, CleanBefore DEF NumberInv
<1>5. recv # "renumber"
  BY <1>1, <1>4 DEF NumberInv, RacesNoted, OpeningRaces, Clean
<1>6. StoredNow /\ UsedUp /\ Filled
  BY <1>0, <1>4, <1>5 DEF Present
<1>7. StoredNow'
  BY <1>1, <1>6 DEF StoredNow
<1>8. UsedUp'
  BY <1>0, <1>1, <1>2, <1>6, NumberTypes DEF UsedUp
<1>9. Filled'
  BY <1>0, <1>1, <1>6, TakenStamped DEF Filled
<1> QED
  BY <1>5, <1>7, <1>8, <1>9

\* Steps that touch neither the numbers nor who has one.
LEMMA NumberKept ==
  ASSUME NumberInv, [Next]_vars,
         UNCHANGED <<message, out, openings, recv, numSendMessages>>,
         \A t \in Senders : /\ sender'[t] = "store" <=> sender[t] = "store"
                            /\ sender'[t] = "stamp" <=> sender[t] = "stamp"
  PROVE  OpeningsPast' /\ Present'
<1>1. \A o : Taken(o)' = Taken(o)
  BY TakenKept
<1>2. OpeningsPast'
  BY DEF NumberInv, OpeningsPast
<1>3. Clean(openings)' => Clean(openings)
  BY CleanBefore DEF NumberInv
<1>4. /\ NotYet => NotYet'
      /\ StoredNow => StoredNow'
      /\ UsedUp => UsedUp'
      /\ Filled => Filled'
  BY <1>1 DEF NotYet, StoredNow, UsedUp, Filled
<1> QED
  BY <1>2, <1>3, <1>4 DEF NumberInv, Present

\* The steps that NumberKept covers.
LEMMA OtherSteps ==
  ASSUME TypeInv,
         UNCHANGED vars \/ Overwrite \/ \E s \in Senders : StreamTest(s)
  PROVE  /\ UNCHANGED <<message, out, openings, recv, numSendMessages>>
         /\ \A t \in Senders : /\ sender'[t] = "store" <=> sender[t] = "store"
                               /\ sender'[t] = "stamp" <=> sender[t] = "stamp"
<1>1. CASE UNCHANGED vars \/ Overwrite
  BY <1>1 DEF vars, device, sending, Overwrite
<1>2. ASSUME NEW s \in Senders, StreamTest(s)
      PROVE  /\ UNCHANGED <<message, out, openings, recv, numSendMessages>>
             /\ \A t \in Senders : /\ sender'[t] = "store" <=> sender[t] = "store"
                                   /\ sender'[t] = "stamp" <=> sender[t] = "stamp"
  BY <1>2 DEF StreamTest, Goto, device, TypeInv, TypeOK
<1> QED
  BY <1>1, <1>2

LEMMA NumberStep == ASSUME NumberInv, [Next]_vars PROVE NumberInv'
<1>1. TypeInv /\ TypeInv'
  BY TypeStep DEF NumberInv
<1>2. RacesNoted'
  BY CleanBefore DEF NumberInv
<1>3. CASE UNCHANGED vars \/ Overwrite \/ \E s \in Senders : StreamTest(s)
  BY <1>1, <1>2, <1>3, OtherSteps, NumberKept DEF NumberInv
<1>4. CASE Next /\ Recv
  BY <1>1, <1>2, <1>4, NumberRecv DEF NumberInv
<1>5. ASSUME Next, NEW s \in Senders, Load(s) \/ Store(s) \/ Stamp(s)
      PROVE  NumberInv'
  BY <1>1, <1>2, <1>5, NumberLoad, NumberStore, NumberStamp DEF NumberInv
<1> QED
  BY <1>3, <1>4, <1>5 DEF Next, sendMsg

-----------------------------------------------------------------------------
(* No number twice *)

\* Nor is a number that a message carries to its stamp one that is out, or that
\* another message carries.
CarriedOnce ==
  \A s \in Senders :
    sender[s] \in {"store", "stamp"} /\ Clean(message[s].opening) =>
      /\ \A i \in 1..Len(out) :
           out[i].opening = message[s].opening => out[i].seq # message[s].seq
      /\ \A t \in Senders :
           t # s /\ sender[t] \in {"store", "stamp"}
                 /\ message[t].opening = message[s].opening
             => message[t].seq # message[s].seq

UniqueInv == NumberInv /\ CarriedOnce /\ NumbersAreUnique

LEMMA UniqueLoad ==
  ASSUME UniqueInv, Next, NEW s \in Senders, Load(s)
  PROVE  CarriedOnce' /\ NumbersAreUnique'
<1>0. TypeInv /\ CarriedOnce /\ NumbersAreUnique /\ NumberInv
  BY DEF UniqueInv, NumberInv
<1>1. /\ sender[s] = "load" /\ sender'[s] = "store"
      /\ message'[s].seq = numSendMessages + 1 /\ message'[s].opening = openings
      /\ \A t \in Senders \ {s} : sender'[t] = sender[t] /\ message'[t] = message[t]
      /\ UNCHANGED <<out, openings, recv, numSendMessages>>
  BY <1>0 DEF Load, Goto, device, TypeInv, TypeOK
<1>2. raced \subseteq raced'
  BY CleanBefore DEF NumberInv, UniqueInv
<1>3. NumbersAreUnique'
  BY <1>0, <1>1, <1>2 DEF NumbersAreUnique, Clean
<1>4. ASSUME Clean(openings)'
      PROVE  /\ \A i \in 1..Len(out) :
                  out[i].opening = openings => out[i].seq # numSendMessages + 1
             /\ \A t \in Senders \ {s} :
                  sender[t] \in {"store", "stamp"} /\ message[t].opening = openings
                    => message[t].seq # numSendMessages + 1
  <2>1. Clean(openings) /\ ~SendersRace' /\ ~OpeningRaces'
    BY <1>0, <1>1, <1>4, CleanBefore DEF NumberInv
  <2>2. recv # "renumber"
    BY <1>1, <2>1 DEF OpeningRaces
  <2>3. UsedUp
    BY <1>0, <2>1, <2>2 DEF NumberInv, Present
  <2>4. \A t \in Senders \ {s} : sender[t] # "store"
    BY <1>1, <2>1 DEF SendersRace
  <2> QED
    BY <1>0, <2>3, <2>4, NumberTypes DEF UsedUp
<1>5. CarriedOnce'
  <2> SUFFICES ASSUME NEW t \in Senders, sender'[t] \in {"store", "stamp"},
                      Clean(message[t].opening)'
               PROVE  /\ \A i \in 1..Len(out) :
                           out[i].opening = message'[t].opening
                             => out[i].seq # message'[t].seq
                      /\ \A u \in Senders :
                           u # t /\ sender'[u] \in {"store", "stamp"}
                                 /\ message'[u].opening = message'[t].opening
                             => message'[u].seq # message'[t].seq
    BY <1>1 DEF CarriedOnce
  <2>1. CASE t = s
    <3>1. Clean(openings)'
      BY <1>1, <2>1 DEF Clean
    <3> QED
      BY <1>1, <1>4, <2>1, <3>1
  <2>2. CASE t # s
    <3>1. sender'[t] = sender[t] /\ message'[t] = message[t]
      BY <1>1, <2>2
    <3>2. Clean(message[t].opening)
      BY <1>2, <3>1 DEF Clean
    <3>3. \A i \in 1..Len(out) :
            out[i].opening = message[t].opening => out[i].seq # message[t].seq
      BY <1>0, <3>1, <3>2 DEF CarriedOnce
    <3>4. ASSUME NEW u \in Senders, u # t, sender'[u] \in {"store", "stamp"},
                 message'[u].opening = message[t].opening
          PROVE  message'[u].seq # message[t].seq
      <4>1. CASE u = s
        <5>1. message[t].opening = openings
          BY <1>1, <3>4, <4>1
        <5>2. Clean(openings)'
          BY <1>1, <3>1, <5>1 DEF Clean
        <5> QED
          BY <1>1, <1>4, <2>2, <3>1, <4>1, <5>1, <5>2
      <4>2. CASE u # s
        <5>1. sender'[u] = sender[u] /\ message'[u] = message[u]
          BY <1>1, <4>2
        <5> QED
          BY <1>0, <3>1, <3>2, <3>4, <5>1 DEF CarriedOnce
      <4> QED
        BY <4>1, <4>2
    <3> QED
      BY <3>1, <3>3, <3>4
  <2> QED
    BY <2>1, <2>2
<1> QED
  BY <1>3, <1>5

LEMMA UniqueStamp ==
  ASSUME UniqueInv, Next, NEW s \in Senders, Stamp(s)
  PROVE  CarriedOnce' /\ NumbersAreUnique'
<1>0. TypeInv /\ CarriedOnce /\ NumbersAreUnique
  BY DEF UniqueInv, NumberInv
<1>1. /\ sender[s] = "stamp" /\ sender'[s] = "idle"
      /\ \A t \in Senders \ {s} : sender'[t] = sender[t]
      /\ message' = message
  BY <1>0 DEF Stamp, Goto, TypeInv, TypeOK
<1>2. /\ Len(out') = Len(out) + 1 /\ Len(out) \in Nat
      /\ \A i \in 1..Len(out) : out'[i] = out[i]
      /\ out'[Len(out) + 1].seq = message[s].seq
      /\ out'[Len(out) + 1].opening = message[s].opening
  BY <1>0 DEF Stamp, TypeInv, TypeOK
<1>3. raced \subseteq raced'
  BY CleanBefore DEF NumberInv, UniqueInv
<1>4. \A i \in 1..Len(out') : i \in 1..Len(out) \/ i = Len(out) + 1
  BY <1>2
<1>5. NumbersAreUnique'
  <2> SUFFICES ASSUME NEW i \in 1..Len(out'), NEW j \in 1..Len(out'),
                      out'[i].opening = out'[j].opening,
                      Clean(out[i].opening)', out'[i].seq = out'[j].seq
               PROVE  i = j
    BY DEF NumbersAreUnique
  <2>1. Clean(out'[i].opening)
    BY <1>3 DEF Clean
  <2>2. CASE i \in 1..Len(out) /\ j \in 1..Len(out)
    BY <1>0, <1>2, <2>1, <2>2 DEF NumbersAreUnique
  <2>3. CASE i \in 1..Len(out) /\ j = Len(out) + 1
    BY <1>0, <1>1, <1>2, <2>1, <2>3 DEF CarriedOnce
  <2>4. CASE i = Len(out) + 1 /\ j \in 1..Len(out)
    BY <1>0, <1>1, <1>2, <2>1, <2>4 DEF CarriedOnce
  <2> QED
    BY <1>4, <2>2, <2>3, <2>4
<1>6. CarriedOnce'
  <2> SUFFICES ASSUME NEW t \in Senders, sender'[t] \in {"store", "stamp"},
                      Clean(message[t].opening)'
               PROVE  /\ \A i \in 1..Len(out') :
                           out'[i].opening = message[t].opening
                             => out'[i].seq # message[t].seq
                      /\ \A u \in Senders :
                           u # t /\ sender'[u] \in {"store", "stamp"}
                                 /\ message[u].opening = message[t].opening
                             => message[u].seq # message[t].seq
    BY <1>1 DEF CarriedOnce
  <2>1. t # s /\ sender'[t] = sender[t] /\ Clean(message[t].opening)
    BY <1>1, <1>3 DEF Clean
  <2>2. \A u \in Senders : sender'[u] \in {"store", "stamp"}
          => sender[u] \in {"store", "stamp"}
    BY <1>1
  <2>3. \A i \in 1..Len(out) :
          out[i].opening = message[t].opening => out[i].seq # message[t].seq
    BY <1>0, <2>1, <2>2 DEF CarriedOnce
  <2>4. message[s].opening = message[t].opening => message[s].seq # message[t].seq
    BY <1>0, <1>1, <2>1, <2>2 DEF CarriedOnce
  <2>5. \A i \in 1..Len(out') :
          out'[i].opening = message[t].opening => out'[i].seq # message[t].seq
    BY <1>2, <1>4, <2>3, <2>4
  <2>6. \A u \in Senders :
          u # t /\ sender'[u] \in {"store", "stamp"}
                /\ message[u].opening = message[t].opening
            => message[u].seq # message[t].seq
    BY <1>0, <2>1, <2>2 DEF CarriedOnce
  <2> QED
    BY <2>5, <2>6
<1> QED
  BY <1>5, <1>6

\* The other steps leave the messages, and who has a number, as they are.
LEMMA UniqueKept ==
  ASSUME UniqueInv, [Next]_vars, UNCHANGED <<message, out>>,
         \A t \in Senders : sender'[t] \in {"store", "stamp"}
                              => sender[t] \in {"store", "stamp"}
  PROVE  CarriedOnce' /\ NumbersAreUnique'
<1>1. \A o : Clean(o)' => Clean(o)
  BY CleanBefore DEF NumberInv, UniqueInv
<1>2. NumbersAreUnique'
  BY <1>1 DEF UniqueInv, NumbersAreUnique
<1>3. CarriedOnce'
  BY <1>1 DEF UniqueInv, CarriedOnce
<1> QED
  BY <1>2, <1>3

LEMMA UniqueStep == ASSUME UniqueInv, [Next]_vars PROVE UniqueInv'
<1>1. NumberInv' /\ TypeInv
  BY NumberStep DEF UniqueInv, NumberInv
<1>2. CASE UNCHANGED vars \/ Overwrite \/ \E s \in Senders : StreamTest(s)
  <2>1. /\ UNCHANGED <<message, out>>
        /\ \A t \in Senders : sender'[t] \in {"store", "stamp"}
                                => sender[t] \in {"store", "stamp"}
    BY <1>1, <1>2, OtherSteps
  <2> QED
    BY <1>1, <2>1, UniqueKept DEF UniqueInv
<1>3. CASE Recv
  BY <1>1, <1>3, UniqueKept
     DEF UniqueInv, Recv, OpenKey, OpenRenumber, OpenStream, CloseStream, sending
<1>4. ASSUME NEW s \in Senders, Store(s) PROVE UniqueInv'
  <2>1. \A t \in Senders : sender'[t] \in {"store", "stamp"}
                             => sender[t] \in {"store", "stamp"}
    BY <1>1, <1>4 DEF Store, Goto, TypeInv, TypeOK
  <2> QED
    BY <1>1, <1>4, <2>1, UniqueKept DEF UniqueInv, Store
<1>5. ASSUME Next, NEW s \in Senders, Load(s) \/ Stamp(s) PROVE UniqueInv'
  BY <1>1, <1>5, UniqueLoad, UniqueStamp DEF UniqueInv
<1> QED
  BY <1>2, <1>3, <1>4, <1>5 DEF Next, sendMsg

\* UniqueNumbers: NumbersAreUnique holds of every behaviour, whatever becomes of
\* the key and whatever overlaps there were in other sessions: the numbers of a
\* session start anew when nobody carries one of them, and each is then taken once.
THEOREM UniqueNumbers == Spec => []NumbersAreUnique
<1>1. Init => UniqueInv
  <2> SUFFICES ASSUME Init PROVE CarriedOnce /\ NumbersAreUnique
    BY NumberInit DEF UniqueInv
  <2> QED
    BY DEF Init, CarriedOnce, NumbersAreUnique
<1>2. UniqueInv /\ [Next]_vars => UniqueInv'
  BY UniqueStep
<1>3. UniqueInv => NumbersAreUnique
  BY DEF UniqueInv
<1> QED
  BY <1>1, <1>2, <1>3, PTL DEF Spec

-----------------------------------------------------------------------------
(* No gaps *)

GapInv == NumberInv /\ NumbersHaveNoGaps

LEMMA GapLoad ==
  ASSUME GapInv, Next, NEW s \in Senders, Load(s)
  PROVE  NumbersHaveNoGaps'
<1>0. TypeInv /\ NumberInv
  BY DEF GapInv, NumberInv
<1>1. /\ sender'[s] = "store"
      /\ UNCHANGED <<openings, recv>>
  BY <1>0 DEF Load, Goto, device, TypeInv, TypeOK
<1> SUFFICES ASSUME NEW o \in 1..openings, Clean(o)', NEW n \in Taken(o)',
                    NEW k \in 0..n
             PROVE  k \in Taken(o)'
  BY <1>1 DEF NumbersHaveNoGaps
<1>2. Clean(o)
  BY <1>0, CleanBefore DEF NumberInv
<1>3. CASE n \in Taken(o)
  BY <1>0, <1>2, <1>3, TakenLoaded DEF GapInv, NumbersHaveNoGaps
<1>4. CASE o = openings /\ n = numSendMessages + 1
  <2>1. ~OpeningRaces'
    BY <1>0, <1>1, <1>4, CleanBefore DEF NumberInv
  <2>2. recv # "renumber"
    BY <1>1, <2>1 DEF OpeningRaces
  <2>3. openings > 0
    BY <1>0, NumberTypes
  <2>4. 0..numSendMessages \subseteq Taken(o)
    BY <1>0, <1>2, <1>4, <2>2, <2>3 DEF NumberInv, Present, Filled
  <2>5. k \in 0..numSendMessages \/ k = numSendMessages + 1
    BY <1>0, <1>4, NumberTypes
  <2> QED
    BY <1>0, <1>4, <2>4, <2>5, TakenLoaded
<1> QED
  BY <1>0, <1>3, <1>4, TakenLoaded

\* The other steps take no number.
LEMMA GapKept ==
  ASSUME GapInv, [Next]_vars, openings' = openings,
         \A o : Taken(o)' = Taken(o)
  PROVE  NumbersHaveNoGaps'
<1>1. \A o : Clean(o)' => Clean(o)
  BY CleanBefore DEF NumberInv, GapInv
<1> QED
  BY <1>1 DEF GapInv, NumbersHaveNoGaps

LEMMA GapOpenKey ==
  ASSUME GapInv, Next, OpenKey
  PROVE  NumbersHaveNoGaps'
<1>0. TypeInv /\ NumberInv
  BY DEF GapInv, NumberInv
<1>1. \A o : Taken(o)' = Taken(o)
  BY TakenKept DEF OpenKey, sending
<1>2. openings' = openings + 1
  BY DEF OpenKey
<1>3. \A n : n \notin Taken(openings + 1)
  BY <1>0, InTaken, NumberTypes DEF NumberInv, OpeningsPast
<1> SUFFICES ASSUME NEW o \in 1..openings + 1, Clean(o)', NEW n \in Taken(o)
             PROVE  0..n \subseteq Taken(o)
  BY <1>1, <1>2 DEF NumbersHaveNoGaps
<1>4. o \in 1..openings
  BY <1>0, <1>3, NumberTypes
<1>5. Clean(o)
  BY <1>0, CleanBefore DEF NumberInv
<1> QED
  BY <1>4, <1>5 DEF GapInv, NumbersHaveNoGaps

LEMMA GapStep == ASSUME GapInv, [Next]_vars PROVE GapInv'
<1>1. NumberInv' /\ TypeInv
  BY NumberStep DEF GapInv, NumberInv
<1>2. CASE UNCHANGED vars \/ Overwrite \/ \E s \in Senders : StreamTest(s)
  <2>1. openings' = openings /\ \A o : Taken(o)' = Taken(o)
    BY <1>1, <1>2, OtherSteps, TakenKept
  <2> QED
    BY <1>1, <2>1, GapKept DEF GapInv
<1>3. CASE Next /\ Recv
  <2>1. CASE OpenKey
    BY <1>1, <1>3, <2>1, GapOpenKey DEF GapInv
  <2>2. CASE OpenRenumber \/ OpenStream \/ CloseStream
    <3>1. openings' = openings /\ \A o : Taken(o)' = Taken(o)
      BY <2>2, TakenKept DEF OpenRenumber, OpenStream, CloseStream, sending
    <3> QED
      BY <1>1, <3>1, GapKept DEF GapInv
  <2> QED
    BY <1>3, <2>1, <2>2 DEF Recv
<1>4. ASSUME NEW s \in Senders, Store(s) PROVE GapInv'
  <2>1. openings' = openings /\ \A o : Taken(o)' = Taken(o)
    <3>1. \A t \in Senders : sender'[t] \in {"store", "stamp"}
                               <=> sender[t] \in {"store", "stamp"}
      BY <1>1, <1>4 DEF Store, Goto, TypeInv, TypeOK
    <3> QED
      BY <1>4, <3>1, TakenKept DEF Store
  <2> QED
    BY <1>1, <2>1, GapKept DEF GapInv
<1>5. ASSUME NEW s \in Senders, Stamp(s) PROVE GapInv'
  <2>1. openings' = openings /\ \A o : Taken(o)' = Taken(o)
    BY <1>1, <1>5, TakenStamped DEF Stamp
  <2> QED
    BY <1>1, <2>1, GapKept DEF GapInv
<1>6. ASSUME Next, NEW s \in Senders, Load(s) PROVE GapInv'
  BY <1>1, <1>6, GapLoad DEF GapInv
<1> QED
  BY <1>2, <1>3, <1>4, <1>5, <1>6 DEF Next, sendMsg

\* GaplessNumbers: NumbersHaveNoGaps holds of every behaviour: an opening starts
\* the numbers at 0, and the next number is always numSendMessages + 1, unless two
\* of the accesses that are watched overlap in that very session.
THEOREM GaplessNumbers == Spec => []NumbersHaveNoGaps
<1>1. Init => GapInv
  <2> SUFFICES ASSUME Init PROVE NumbersHaveNoGaps
    BY NumberInit DEF GapInv
  <2>1. 1..openings = {}
    BY DEF Init
  <2> QED
    BY <2>1 DEF NumbersHaveNoGaps
<1>2. GapInv /\ [Next]_vars => GapInv'
  BY GapStep
<1>3. GapInv => NumbersHaveNoGaps
  BY DEF GapInv
<1> QED
  BY <1>1, <1>2, <1>3, PTL DEF Spec
=============================================================================
