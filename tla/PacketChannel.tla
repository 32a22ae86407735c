---------------------------- MODULE PacketChannel ----------------------------
(***************************************************************************)
(* What one direction of a connection promises of the packets it takes:    *)
(* the receiver gets a prefix of them, each once, intact and in order; a   *)
(* new connection starts with nothing.                                     *)
(***************************************************************************)
EXTENDS Naturals, Sequences

CONSTANT Message

VARIABLES sent, delivered

Init == sent = <<>> /\ delivered = <<>>

Send(m) == sent' = Append(sent, m) /\ UNCHANGED delivered

Deliver ==
  /\ Len(delivered) < Len(sent)
  /\ delivered' = Append(delivered, sent[Len(delivered) + 1])
  /\ UNCHANGED sent

Reset == sent' = <<>> /\ delivered' = <<>>

Next == (\E m \in Message : Send(m)) \/ Deliver \/ Reset

Spec == Init /\ [][Next]_<<sent, delivered>>
=============================================================================
