---------------------------- MODULE MCWorldCreate ----------------------------
(***************************************************************************)
(* Instances of WorldCreate for TLC.                                       *)
(***************************************************************************)
EXTENDS WorldCreate, TLC

\* Games are alike, and so are space processes that the appmgr all knows.
Alike == Permutations(Game) \cup Permutations(Space)
=============================================================================
