---------------------------- MODULE MCEntityFrame ----------------------------
(* An instance of EntityFrame for TLC: objects and ids are model values.   *)
EXTENDS EntityFrame, TLC
=============================================================================
