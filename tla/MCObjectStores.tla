--------------------------- MODULE MCObjectStores ---------------------------
(* Instances of ObjectStores for TLC. *)
EXTENDS ObjectStores, TLC

CONSTANTS u1, u2
=============================================================================
