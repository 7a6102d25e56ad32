--------------------------- MODULE MCOidcRenewals ---------------------------
(* Instances of OidcRenewals for TLC: two renewals of one user in one copy   *)
(* of the app, and one of another user of the kubeconfig in another copy.    *)
EXTENDS OidcRenewals, TLC

CONSTANTS p1, p2, u1, u2, t1, t2, t3

MCProcOf == (t1 :> p1) @@ (t2 :> p1) @@ (t3 :> p2)
MCUserOf == (t1 :> u1) @@ (t2 :> u1) @@ (t3 :> u2)
MCMaxIssued == (u1 :> 3) @@ (u2 :> 2)
=============================================================================
