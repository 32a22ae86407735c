----------------------------- MODULE MCTeleport -----------------------------
(***************************************************************************)
(* Accounts and sockets for TLC: sockets 1 and 2 are connections of        *)
(* account 1, socket 3 one of account 2.                                   *)
(***************************************************************************)
EXTENDS Teleport

OwnerOf == [s \in Socket |-> IF s = 3 THEN 2 ELSE 1]
=============================================================================
