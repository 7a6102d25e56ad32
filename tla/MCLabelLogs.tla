----------------------------- MODULE MCLabelLogs -----------------------------
(* Instances of LabelLogs for TLC.                                           *)
EXTENDS LabelLogs, TLC

CONSTANTS box1, box2, web, db, n1, n2, main, side

\* Two pods of one container each, told apart by each of the panel's controls.
TwoPods == (box1 :> web) @@ (box2 :> db)
TwoNamespaces == (box1 :> n1) @@ (box2 :> n2)
TwoNames == (box1 :> main) @@ (box2 :> side)
TwoRanks == (box1 :> 2) @@ (box2 :> 1)

\* The app's clock agrees with the nodes'.
WithTheNodes == (box1 :> 0) @@ (box2 :> 0)

BothPods == {{web, db}}
AllOrFirst == {{n1, n2}, {n1}}
AllOrMain == {None, main}

\* Two pods of the same name in two namespaces.
SameName == (box1 :> web) @@ (box2 :> web)
OnePod == {{web}}
=============================================================================
