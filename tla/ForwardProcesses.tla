-------------------------- MODULE ForwardProcesses --------------------------
(***************************************************************************)
(* The operating-system side of SSH forwards: the process group each `ssh` *)
(* leads with its jump hop, the pid file that records it (util/pidfile),   *)
(* and the two sweeps that stop what no Drop stopped, at start and at      *)
(* quit.  A run of the app is killed, quits or starts at any moment;       *)
(* several runs share the directory of pid files.                          *)
(*                                                                         *)
(* One forward per run is modelled: forwards of one run share nothing but  *)
(* the directory.  A sweep is one step, and a pid file is always written.  *)
(***************************************************************************)
EXTENDS Naturals, FiniteSets

CONSTANTS
  Runs,  \* the copies of the app that may run, each again after its end
  Pids,  \* process ids
  None   \* no process

ASSUME NoneAssumption == None \notin Pids
ASSUME RunsAssumption == {"init", "user"} \cap Runs = {}

VARIABLES
  run,        \* copy -> "off", "on", or "quitting" (swept, not yet gone)
  transport,  \* copy -> its SshTransport, with the child it supervises
  group       \* pid -> the process group it leads, and its pid file

vars == <<run, transport, group>>

-----------------------------------------------------------------------------
\* "spawned": ssh runs and its pid file is not written.  "connecting": the
\* child is a local of the connect future.  "up": the transport owns it.
Transport ==
  [st : {"idle"}, pid : {None}] \cup [st : {"spawned", "connecting", "up"}, pid : Pids]

\* leader: "ssh" by its command line, or "other"; a process of somebody else
\* has the parent "user", or is no ssh.  written: its pid file was written once.
Group ==
  [leader : {"none", "ssh", "other"}, hop : BOOLEAN,
   parent : Runs \cup {"init", "user"}, file : BOOLEAN, written : BOOLEAN]

TypeOK ==
  /\ run \in [Runs -> {"off", "on", "quitting"}]
  /\ transport \in [Runs -> Transport]
  /\ group \in [Pids -> Group]

IdleTransport == [st |-> "idle", pid |-> None]

Init ==
  /\ run = [r \in Runs |-> "off"]
  /\ transport = [r \in Runs |-> IdleTransport]
  /\ group = [p \in Pids |->
       [leader |-> "none", hop |-> FALSE, parent |-> "init",
        file |-> FALSE, written |-> FALSE]]

-----------------------------------------------------------------------------
\* The kernel may hand p out again: no process and no group uses it.
Unused(p) ==
  /\ group[p].leader = "none" /\ ~group[p].hop
  /\ \A r \in Runs : transport[r].pid # p

Supervises(r, st) == run[r] # "off" /\ transport[r].st = st
Child(r) == transport[r].pid

LeaderKilled(g) == [g EXCEPT !.leader = "none"]
GroupKilled(g) == [g EXCEPT !.leader = "none", !.hop = FALSE]
Unrecorded(g) == [g EXCEPT !.file = FALSE]

\* Mutant: any parent will do.
SweptAnyParent(parent) ==
  [p \in Pids |->
     IF ~group[p].file THEN group[p]
     ELSE IF group[p].leader = "ssh" THEN Unrecorded(GroupKilled(group[p]))
     ELSE Unrecorded(group[p])]

\* Mutant: whatever runs at a recorded pid is taken for the forward.
SweptUnchecked(parent) ==
  [p \in Pids |->
     IF ~group[p].file THEN group[p]
     ELSE Unrecorded(GroupKilled(group[p]))]

\* sweep_dir: every file goes; a group is killed if its leader is an ssh forward
\* with the parent the sweep expects.
Swept(parent) ==
  [p \in Pids |->
     IF ~group[p].file THEN group[p]
     ELSE IF group[p].leader = "ssh" /\ group[p].parent = parent
     THEN Unrecorded(GroupKilled(group[p]))
     ELSE Unrecorded(group[p])]

-----------------------------------------------------------------------------
(* A run's life.                                                            *)

\* main: sweep_stale before anything else.
Start(r) ==
  /\ run[r] = "off"
  /\ run' = [run EXCEPT ![r] = "on"]
  /\ group' = Swept("init")
  /\ UNCHANGED transport

\* on_app_quit: kill_live_forwards; the tasks run on until the process ends.
QuitSweep(r) ==
  /\ run[r] = "on"
  /\ run' = [run EXCEPT ![r] = "quitting"]
  /\ group' = Swept(r)
  /\ UNCHANGED transport

\* The last window closed and the app stays in the menu bar: the same sweep.
QuietSweep(r) ==
  /\ run[r] = "on"
  /\ group' = Swept(r)
  /\ UNCHANGED <<run, transport>>

\* The process ends, after its quit or killed: no Drop runs, its children are
\* orphaned.
Ends(r) ==
  /\ run[r] # "off"
  /\ run' = [run EXCEPT ![r] = "off"]
  /\ transport' = [transport EXCEPT ![r] = IdleTransport]
  /\ group' = [p \in Pids |->
       IF group[p].parent = r THEN [group[p] EXCEPT !.parent = "init"] ELSE group[p]]

-----------------------------------------------------------------------------
(* The transport.                                                           *)

\* connect spawns ssh in a group of its own.
Spawn(r) ==
  /\ Supervises(r, "idle")
  /\ \E p \in Pids :
       /\ Unused(p)
       /\ transport' = [transport EXCEPT ![r] = [st |-> "spawned", pid |-> p]]
       /\ group' = [group EXCEPT ![p] =
            [leader |-> "ssh", hop |-> TRUE, parent |-> r,
             file |-> @.file, written |-> FALSE]]
  /\ UNCHANGED run

WritePidFile(r) ==
  /\ Supervises(r, "spawned")
  /\ transport' = [transport EXCEPT ![r].st = "connecting"]
  /\ group' = [group EXCEPT ![Child(r)].file = TRUE, ![Child(r)].written = TRUE]
  /\ UNCHANGED run

\* The local port accepts: the transport takes the child over.
ConnectReady(r) ==
  /\ Supervises(r, "connecting")
  /\ transport' = [transport EXCEPT ![r].st = "up"]
  /\ UNCHANGED <<run, group>>

\* Mutant: the record goes and the ssh that never became ready stays.
ConnectTimesOutUnkilled(r) ==
  /\ Supervises(r, "connecting")
  /\ transport' = [transport EXCEPT ![r] = IdleTransport]
  /\ group' = [group EXCEPT ![Child(r)] = Unrecorded(@)]
  /\ UNCHANGED run

\* ssh exited, could not be checked, or was not ready in time: the leader is
\* dead or killed, and its pid file is removed.
ConnectFails(r) ==
  /\ Supervises(r, "connecting")
  /\ transport' = [transport EXCEPT ![r] = IdleTransport]
  /\ group' = [group EXCEPT ![Child(r)] = Unrecorded(LeaderKilled(@))]
  /\ UNCHANGED run

\* Mutant: the dead child is forgotten, and connect not tried again.
HealthCheckStays(r) ==
  /\ Supervises(r, "up")
  /\ group[Child(r)].leader = "none"
  /\ transport' = [transport EXCEPT ![r].pid = None]
  /\ group' = [group EXCEPT ![Child(r)] = Unrecorded(@)]
  /\ UNCHANGED run

\* The check finds that ssh exited; only the leader is known to be gone.
HealthCheckFails(r) ==
  /\ Supervises(r, "up")
  /\ group[Child(r)].leader = "none"
  /\ transport' = [transport EXCEPT ![r] = IdleTransport]
  /\ group' = [group EXCEPT ![Child(r)] = Unrecorded(@)]
  /\ UNCHANGED run

\* Mutant: without kill_on_drop, and the record kept.
AbortLeavesConnecting(r) ==
  /\ transport' = [transport EXCEPT ![r] = IdleTransport]
  /\ \/ Supervises(r, "connecting") /\ UNCHANGED group
     \/ /\ Supervises(r, "up")
        /\ group' = [group EXCEPT ![Child(r)] = Unrecorded(GroupKilled(@))]
  /\ UNCHANGED run

\* The forward is dropped and its task aborted: kill_on_drop ends the leader of
\* a child still connecting; Drop for SshTransport kills the group of its own.
Abort(r) ==
  /\ transport' = [transport EXCEPT ![r] = IdleTransport]
  /\ \/ /\ Supervises(r, "connecting")
        /\ group' = [group EXCEPT ![Child(r)] = Unrecorded(LeaderKilled(@))]
     \/ /\ Supervises(r, "up")
        /\ group' = [group EXCEPT ![Child(r)] = Unrecorded(GroupKilled(@))]
  /\ UNCHANGED run

-----------------------------------------------------------------------------
(* The operating system, outside the app.                                   *)

\* An ssh ends by itself: its network, its server, a signal.
SshExits(p) ==
  /\ group[p].leader = "ssh" /\ group[p].parent # "user"
  /\ group' = [group EXCEPT ![p] = LeaderKilled(@)]
  /\ UNCHANGED <<run, transport>>

HopExits(p) ==
  /\ group[p].hop
  /\ group' = [group EXCEPT ![p].hop = FALSE]
  /\ UNCHANGED <<run, transport>>

\* Somebody else's process gets the id; a user's own orphaned `ssh -N -L`, which
\* no check can tell from a forward, is left out.
OtherTakes(p) ==
  /\ Unused(p)
  /\ \E leader \in {"ssh", "other"}, parent \in {"init", "user"} :
       /\ leader = "ssh" => parent = "user"
       /\ group' = [group EXCEPT ![p] =
            [leader |-> leader, hop |-> FALSE, parent |-> parent,
             file |-> @.file, written |-> FALSE]]
  /\ UNCHANGED <<run, transport>>

-----------------------------------------------------------------------------
Next ==
  \/ \E r \in Runs :
       \/ Start(r) \/ QuitSweep(r) \/ QuietSweep(r) \/ Ends(r)
       \/ Spawn(r) \/ WritePidFile(r) \/ ConnectReady(r) \/ ConnectFails(r)
       \/ HealthCheckFails(r) \/ Abort(r)
  \/ \E p \in Pids : SshExits(p) \/ HopExits(p) \/ OtherTakes(p)

Spec == Init /\ [][Next]_vars

-----------------------------------------------------------------------------
Other(p) == group[p].leader = "other" \/ group[p].parent = "user"

\* No sweep, abort or failure of a run ends a process that is not a forward,
\* whatever the pid files left by crashed runs name by now.
OthersAreSpared == [][\A p \in Pids : Other(p) => Other(p)']_vars

\* A sweep ends no forward of another run.
SweepSparesOtherRuns ==
  [][\A r \in Runs :
       Start(r) \/ QuitSweep(r) \/ QuietSweep(r) =>
         \A p \in Pids :
           group[p].parent \in Runs \ {r} => group'[p].leader = group[p].leader]_vars

\* What a run signals is its own: neither a stranger's process nor another run's.
SignalsSpareOthers == OthersAreSpared /\ SweepSparesOtherRuns

\* The pid file outlives its ssh, unless another run sweeps it: a run that ends
\* at any moment leaves nothing running, once recorded, that its next start does
\* not find.
SweptByOthers(g) ==
  \E r \in Runs :
    \/ Start(r) /\ g.parent # "init"
    \/ (QuitSweep(r) \/ QuietSweep(r)) /\ g.parent # r

FileOutlivesSsh ==
  [][\A p \in Pids :
       /\ group[p].leader = "ssh" /\ group[p].file /\ group[p].written
       /\ group'[p].leader = "ssh" /\ ~group'[p].file
       => SweptByOthers(group[p])]_vars

\* Every ssh a run has spawned is its transport's child, or about to be swept:
\* no retry, timeout or abort loses one.
NoSshIsLost ==
  /\ TypeOK
  /\ \A p \in Pids, r \in Runs :
       group[p].leader = "ssh" /\ group[p].parent = r => Child(r) = p
=============================================================================
