------------------------------- MODULE MCLogin -------------------------------
(***************************************************************************)
(* Instances of Login for TLC.                                             *)
(***************************************************************************)
EXTENDS Login, TLC

CONSTANTS a1

\* All connections are the same account's: others share nothing with it.
SameOwner == [c \in Conn |-> a1]
=============================================================================
