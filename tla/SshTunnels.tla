------------------------------ MODULE SshTunnels ------------------------------
(***************************************************************************)
(* One SSH tunnel, reached by connections to several API servers: the      *)
(* registry shares a forward per target (forward/registry), a supervisor   *)
(* keeps each forward up (forward/supervisor), and ssh authenticates with  *)
(* the tunnel's stored key, written to a temporary file whose path is that *)
(* of the tunnel and the run (tunnel/ssh/handle).                          *)
(*                                                                         *)
(* Acquire and Release are main-thread handlers.  The supervisors are      *)
(* tokio tasks.  ssh itself, its network and its server are outside.       *)
(***************************************************************************)
EXTENDS Naturals, FiniteSets

CONSTANTS
  Conns,     \* connections bound to the tunnel
  Targets,   \* API servers
  TargetOf,  \* the API server of a connection's context
  Forwards,  \* bound on the forwards, live or aborted, at one time
  None       \* no forward, no target

ASSUME TargetAssumption == TargetOf \in [Conns -> Targets]
ASSUME NoneAssumption == None \notin Forwards \cup Targets

VARIABLES
  hold,    \* connection -> the forward whose handle it owns
  fwd,     \* forward -> its supervisor and transport, and its target
  stored,  \* the tunnel has a stored key; its settings stay as they are
  keyfile  \* the key's file exists

vars == <<hold, fwd, stored, keyfile>>

-----------------------------------------------------------------------------
\* "gone": no task, nor one yet to be dropped.  "idle": about to connect.
\* "launched": ssh runs, its port does not accept.  "broken": ssh has exited and
\* the next check will find it.
Forward ==
  [st : {"gone"}, target : {None}, beenUp : {FALSE}] \cup
  [st : {"idle", "launched", "backoff"}, target : Targets, beenUp : BOOLEAN] \cup
  [st : {"up", "broken"}, target : Targets, beenUp : {TRUE}]

Gone == [st |-> "gone", target |-> None, beenUp |-> FALSE]

TypeOK ==
  /\ hold \in [Conns -> Forwards \cup {None}]
  /\ fwd \in [Forwards -> Forward]
  /\ stored \in BOOLEAN
  /\ keyfile \in BOOLEAN

Init ==
  /\ hold = [c \in Conns |-> None]
  /\ fwd = [f \in Forwards |-> Gone]
  /\ stored \in BOOLEAN
  /\ keyfile = FALSE

-----------------------------------------------------------------------------
Held(f) == \E c \in Conns : hold[c] = f
Shown(f) ==
  IF fwd[f].st \in {"up", "broken"} THEN "Up"
  ELSE IF fwd[f].beenUp THEN "Reconnecting" ELSE "Connecting"

\* Mutant: the key is the tunnel alone.
LiveByTunnel(t) == {f \in Forwards : Held(f)}

\* Mutant: a forward that is connecting is not found.
LiveIfUp(t) == {f \in Forwards : Held(f) /\ fwd[f].target = t /\ Shown(f) = "Up"}

\* The registry's entry for (tunnel, t), if it upgrades.
Live(t) == {f \in Forwards : Held(f) /\ fwd[f].target = t}

\* A connect acquires: the key is written before the registry says whether the
\* forward runs already; if it does, the new file's owner is dropped unused and
\* removes it.
Acquire(c) ==
  /\ hold[c] = None
  /\ LET t == TargetOf[c]
     IN \/ \E f \in Live(t) :
             /\ hold' = [hold EXCEPT ![c] = f]
             /\ keyfile' = (keyfile /\ ~stored)
             /\ UNCHANGED fwd
        \/ /\ Live(t) = {}
           /\ \E f \in Forwards :
                /\ fwd[f] = Gone
                /\ hold' = [hold EXCEPT ![c] = f]
                /\ fwd' = [fwd EXCEPT ![f] =
                     [st |-> "idle", target |-> t, beenUp |-> FALSE]]
           /\ keyfile' = stored
  /\ UNCHANGED stored

\* Mutant: the file is left to the last tunnel of the run, which forgets it.
ReleaseLeavesKey(c) ==
  /\ hold[c] # None
  /\ hold' = [hold EXCEPT ![c] = None]
  /\ UNCHANGED <<fwd, stored, keyfile>>

\* A session's end drops its handle; the last one drops the SshTunnel, which
\* aborts the supervisor and removes the file.
Release(c) ==
  /\ hold[c] # None
  /\ hold' = [hold EXCEPT ![c] = None]
  /\ keyfile' = (keyfile /\ \E d \in Conns \ {c} : hold[d] = hold[c])
  /\ UNCHANGED <<fwd, stored>>

-----------------------------------------------------------------------------
(* The supervisor's loop.                                                   *)

Moves(f, from, to) ==
  /\ fwd[f].st = from
  /\ fwd' = [fwd EXCEPT ![f].st = to]
  /\ UNCHANGED <<hold, stored, keyfile>>

Launch(f) == Moves(f, "idle", "launched")

\* Mutant: has_been_up stays false.
ReadyForgets(f) ==
  /\ Moves(f, "launched", "up")
  /\ stored => keyfile

\* ssh authenticates, with the key if the tunnel has one, and its port accepts.
Ready(f) ==
  /\ fwd[f].st = "launched"
  /\ stored => keyfile
  /\ fwd' = [fwd EXCEPT ![f].st = "up", ![f].beenUp = TRUE]
  /\ UNCHANGED <<hold, stored, keyfile>>

\* Mutant: a failed connect ends the supervisor.
LaunchGivesUp(f) ==
  /\ fwd[f].st = "launched"
  /\ fwd' = [fwd EXCEPT ![f] = Gone]
  /\ UNCHANGED <<hold, stored, keyfile>>

\* ssh exited before its port accepted, or was not ready in time.
LaunchFails(f) == Moves(f, "launched", "backoff")

\* The network, the bastion or ssh fails.
Breaks(f) == Moves(f, "up", "broken")

\* Mutant: a forward that broke is connected as if it had never been up.
HealthCheckRestarts(f) ==
  /\ fwd[f].st = "broken"
  /\ fwd' = [fwd EXCEPT ![f].st = "idle", ![f].beenUp = FALSE]
  /\ UNCHANGED <<hold, stored, keyfile>>

HealthCheckFails(f) == Moves(f, "broken", "idle")
BackoffEnds(f) == Moves(f, "backoff", "idle")

\* The aborted task is dropped, with its transport.
Dropped(f) ==
  /\ fwd[f] # Gone /\ ~Held(f)
  /\ fwd' = [fwd EXCEPT ![f] = Gone]
  /\ UNCHANGED <<hold, stored, keyfile>>

-----------------------------------------------------------------------------
Supervises(f) == Launch(f) \/ LaunchFails(f) \/ HealthCheckFails(f) \/ BackoffEnds(f)

Next ==
  \/ \E c \in Conns : Acquire(c) \/ Release(c)
  \/ \E f \in Forwards : Supervises(f) \/ Ready(f) \/ Breaks(f) \/ Dropped(f)

Spec == Init /\ [][Next]_vars

\* Tasks are polled and timers fire; ssh, tried again and again, comes up in the
\* end if it can.
Fairness ==
  \A f \in Forwards :
    WF_vars(Supervises(f)) /\ WF_vars(Dropped(f)) /\ SF_vars(Ready(f))

FairSpec == Spec /\ Fairness

-----------------------------------------------------------------------------
\* A connection goes through a forward to its own API server, also while
\* forwards to others start and end.
RoutedToItsTarget ==
  \A c \in Conns :
    hold[c] # None => fwd[hold[c]].target = TargetOf[c]

\* All connections to one API server share one forward.
OneForwardPerTarget ==
  \A c, d \in Conns :
    hold[c] # None /\ hold[d] # None /\ TargetOf[c] = TargetOf[d] => hold[c] = hold[d]

\* Whatever comes and goes, the connections to one API server have one forward,
\* and it is to that server.
ForwardsAreShared == RoutedToItsTarget /\ OneForwardPerTarget

\* The key is on disk only while a tunnel may need it.
KeyGoesWithItsTunnels == keyfile => \E f \in Forwards : Held(f)

\* A forward in use comes up, and again after every break, if ssh needs no key
\* from the app.
ForwardComesUp ==
  \A f \in Forwards : ~stored /\ Held(f) ~> (Shown(f) = "Up" \/ ~Held(f))

\* The connections to an API server, and the state its forward shows them.
UsersOf(t) == {c \in Conns : hold[c] # None /\ TargetOf[c] = t}
StateOf(t) ==
  IF UsersOf(t) = {} THEN "Closed" ELSE Shown(hold[CHOOSE c \in UsersOf(t) : TRUE])

Shared == INSTANCE SharedForward
          WITH Users <- Conns, Keys <- Targets, KeyOf <- TargetOf, Cancellable <- {},
               users <- [t \in Targets |-> UsersOf(t)],
               state <- [t \in Targets |-> StateOf(t)]

\* To the connections of an API server, the tunnel is one forward that starts
\* with the first of them, ends with the last, reconnects by itself and never
\* gives up: neither the registry, nor forwards still being torn down, nor those
\* to other servers can be told from that.
ImplementsSharedForward == Shared!Spec

\* The docs of TransientIdentityFile and SshTunnel: the key's file is kept alive
\* for as long as ssh might need to read it again across a reconnect.
KeyStaysWithItsTunnels ==
  stored => \A f \in Forwards : Held(f) => keyfile
=============================================================================
