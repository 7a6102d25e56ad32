------------------------- MODULE MCForwardProcesses -------------------------
(* Instances of ForwardProcesses for TLC.                                    *)
EXTENDS ForwardProcesses, TLC

Symmetry == Permutations(Runs) \cup Permutations(Pids)
=============================================================================
