---------------------------- MODULE SendChannel -----------------------------
(***************************************************************************)
(* What SendActivity promises of one connection's byte stream: messages    *)
(* are put on the wire whole, once and in the order in which sendOut()     *)
(* took them, except that everything not yet written may be discarded at   *)
(* once.  A message is one identifier repeated MessageLength times.        *)
(***************************************************************************)
EXTENDS Naturals, Sequences

CONSTANTS Messages, MessageLength

VARIABLES
  backlog,   \* accepted and not yet written
  wire       \* written to the present connection

Bytes(m) == [i \in 1..MessageLength |-> m]

Init == backlog = <<>> /\ wire = <<>>

Accept(m) ==
  /\ backlog' = backlog \o Bytes(m)
  /\ UNCHANGED wire

Transmit(n) ==
  /\ wire' = wire \o SubSeq(backlog, 1, n)
  /\ backlog' = SubSeq(backlog, n + 1, Len(backlog))

Discard ==
  /\ backlog' = <<>>
  /\ UNCHANGED wire

NewConnection ==
  /\ wire' = <<>>
  /\ UNCHANGED backlog

Next ==
  \/ \E m \in Messages : Accept(m)
  \/ \E n \in 1..Len(backlog) : Transmit(n)
  \/ Discard
  \/ NewConnection

Spec == Init /\ [][Next]_<<backlog, wire>>
=============================================================================
