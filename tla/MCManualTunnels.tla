--------------------------- MODULE MCManualTunnels ---------------------------
(* Instances of ManualTunnels for TLC.                                       *)
EXTENDS ManualTunnels, TLC

\* Contexts are interchangeable, and so are forwards.
Symmetry == Permutations(Contexts) \cup Permutations(Forwards)
=============================================================================
