-------------------------- MODULE MCPacketDispatch --------------------------
(* Instances of PacketDispatch for TLC. *)
EXTENDS PacketDispatch, TLC

Symmetry == Permutations(Packet)
=============================================================================
