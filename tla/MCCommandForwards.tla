-------------------------- MODULE MCCommandForwards --------------------------
(* Instances of CommandForwards for TLC. *)
EXTENDS CommandForwards, TLC

CONSTANTS p1, p2
=============================================================================
