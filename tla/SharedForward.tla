---------------------------- MODULE SharedForward ----------------------------
(***************************************************************************)
(* What a managed forward promises the connections that use it             *)
(* (forward/managed, forward/supervisor): whoever needs the same forward   *)
(* shares one; it is there from its first user to its last; it is          *)
(* Connecting until it was Up once, and Reconnecting, never Connecting     *)
(* again nor gone, after every break; only one that may give up ends under *)
(* its users.  SshTunnels and ManualTunnels implement this.                *)
(***************************************************************************)
CONSTANTS
  Users,       \* connections
  Keys,        \* the registry's keys
  KeyOf,       \* the key of the forward a connection uses
  Cancellable  \* keys of forwards whose connect may give up

VARIABLES
  users,  \* key -> the connections that hold its forward
  state   \* key -> what the forward's state channel shows them

sharedVars == <<users, state>>

States == {"Closed", "Connecting", "Up", "Reconnecting", "Ended"}

Init ==
  /\ users = [k \in Keys |-> {}]
  /\ state = [k \in Keys |-> "Closed"]

\* Acquiring starts the forward, or joins it in whatever state it is.
Join(u) ==
  LET k == KeyOf[u]
  IN /\ u \notin users[k]
     /\ users' = [users EXCEPT ![k] = @ \cup {u}]
     /\ state' = [state EXCEPT ![k] = IF @ = "Closed" THEN "Connecting" ELSE @]

\* Dropping the last handle closes it.
Leave(u) ==
  LET k == KeyOf[u]
  IN /\ u \in users[k]
     /\ users' = [users EXCEPT ![k] = @ \ {u}]
     /\ state' = [state EXCEPT ![k] = IF users[k] = {u} THEN "Closed" ELSE @]

Shows(k, from, to) ==
  /\ state[k] \in from
  /\ state' = [state EXCEPT ![k] = to]
  /\ UNCHANGED users

ComesUp(k) == Shows(k, {"Connecting", "Reconnecting"}, "Up")
Breaks(k) == Shows(k, {"Up"}, "Reconnecting")
GivesUp(k) == k \in Cancellable /\ Shows(k, {"Connecting", "Reconnecting"}, "Ended")

Next ==
  \/ \E u \in Users : Join(u) \/ Leave(u)
  \/ \E k \in Keys : ComesUp(k) \/ Breaks(k) \/ GivesUp(k)

Spec == Init /\ [][Next]_sharedVars
=============================================================================
