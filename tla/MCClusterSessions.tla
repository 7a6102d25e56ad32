-------------------------- MODULE MCClusterSessions --------------------------
(* Instances of ClusterSessions for TLC.                                     *)
EXTENDS ClusterSessions, TLC

CONSTANTS c1, w1, w2, pods, kind, p1, p2, p3

\* Two windows on one context: w1 shows its pods and one more kind, w2 its pods.
SharedPanelWindow == (p1 :> w1) @@ (p2 :> w1) @@ (p3 :> w2)
SharedPanelContext == (p1 :> c1) @@ (p2 :> c1) @@ (p3 :> c1)
SharedPanelKey == (p1 :> pods) @@ (p2 :> kind) @@ (p3 :> pods)
=============================================================================
