------------------------------- MODULE LiveView -------------------------------
(***************************************************************************)
(* What a live table promises its panels, whatever its watch goes through: *)
(* each row shows a version of its object, only ever a newer one, and goes *)
(* only when the object is deleted.  A step may move several rows, as a    *)
(* relist does that ends.                                                  *)
(***************************************************************************)
EXTENDS Naturals, Sequences

CONSTANT Uids

VARIABLES
  log,     \* the server's changes, numbered: [uid, change]
  shown    \* uid -> the change its row shows, 0: no row

viewVars == <<log, shown>>

Changes == {"Added", "Modified", "Deleted"}

Versions(u) == {i \in 1 .. Len(log) : log[i].uid = u /\ log[i].change # "Deleted"}
IsDeleted(u) == \E i \in 1 .. Len(log) : log[i].uid = u /\ log[i].change = "Deleted"

Init == log = <<>> /\ shown = [u \in Uids |-> 0]

ServerChanges ==
  /\ \E u \in Uids, change \in Changes : log' = Append(log, [uid |-> u, change |-> change])
  /\ UNCHANGED shown

\* A row appears, catches up, or goes with its object.
RowMoves(u) ==
  \/ shown'[u] \in Versions(u) /\ shown'[u] >= shown[u]
  \/ shown'[u] = 0 /\ (shown[u] = 0 \/ IsDeleted(u))

RowsMove ==
  /\ shown' \in [Uids -> 0 .. Len(log)]
  /\ \A u \in Uids : RowMoves(u)
  /\ UNCHANGED log

Next == ServerChanges \/ RowsMove

Spec == Init /\ [][Next]_viewVars
=============================================================================
