---------------------------- MODULE MCSshTunnels ----------------------------
(* Instances of SshTunnels for TLC: two connections to one API server and    *)
(* one to another.                                                           *)
EXTENDS SshTunnels, TLC

CONSTANTS c1, c2, c3, t1, t2

MCConns == {c1, c2, c3}
MCTargets == {t1, t2}
MCTargetOf == (c1 :> t1) @@ (c2 :> t1) @@ (c3 :> t2)

Symmetry == Permutations(Forwards) \cup Permutations({c1, c2})
=============================================================================
