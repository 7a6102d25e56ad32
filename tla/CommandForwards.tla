--------------------------- MODULE CommandForwards ---------------------------
(***************************************************************************)
(* A command tunnel (tunnel/command): the user's command leads a process   *)
(* group, often as a wrapper whose child holds the port; a stop signals    *)
(* the group politely, waits, and kills what is left.  Its awaits may be   *)
(* cut short when the forward is dropped, the app may be killed between    *)
(* any two steps, and then the pid file of the group is what the sweeps of *)
(* util/pidfile go by.                                                     *)
(*                                                                         *)
(* One tunnel is modelled, acquired again after it was dropped.  A kill,   *)
(* and the reaping before it, is one step: a pid is not handed out between.*)
(* Once it is killed its pid is anybody's, while the stop still reads the  *)
(* output and only then drops the pid file of that name.                   *)
(***************************************************************************)
EXTENDS Naturals

CONSTANTS
  Pids,     \* process ids
  MaxLate,  \* bound: stops of one pid's groups with a file still to drop
  None      \* no process

ASSUME NoneAssumption == None \notin Pids
ASSUME MaxLateAssumption == MaxLate \in Nat \ {0}

VARIABLES
  run,     \* the app: "off", "on", or "quitting" (swept, not yet gone)
  fwd,     \* the tunnel's transport, with the command it runs
  termed,  \* pids whose group a stop has signalled: within the grace period
  late,    \* pid -> stops nobody awaits that have its pid file still to drop
  group    \* pid -> the process group it leads, and its pid file

vars == <<run, fwd, termed, late, group>>

-----------------------------------------------------------------------------
\* "idle": no command, before connect spawns one.  "starting": until the port
\* answers.  "failed": an attempt or a health check failed, the command is kept until
\* its stop.  "stopping": the transport awaits a stop, and once the group is killed,
\* "finishing": the rest of it.  "gone": no transport.
Transport ==
  [st : {"gone", "idle"}, pid : {None}] \cup
  [st : {"starting", "up", "failed", "stopping", "finishing"}, pid : Pids]

\* leader: the user's "command", a "zombie" not reaped yet, or somebody else's: an
\* "other" process, or a "namesake", which runs a program of the recorded name.
\* rest: more processes are in the group.  ours: the app is the parent; of a namesake
\* that it is not ours says it is an orphan.  written: the pid file could be written.
\* alone: no stop had the pid's file still to drop when the command was spawned; a
\* history, which no guard reads.
Foreign == {"other", "namesake"}
Group ==
  [leader : {"none", "command", "zombie"} \cup Foreign, rest : BOOLEAN,
   ours : BOOLEAN, file : BOOLEAN, written : BOOLEAN, alone : BOOLEAN]

TypeOK ==
  /\ run \in {"off", "on", "quitting"}
  /\ fwd \in Transport
  /\ termed \subseteq Pids
  /\ late \in [Pids -> 0..MaxLate]
  /\ group \in [Pids -> Group]
  /\ fwd.st = "stopping" => fwd.pid \in termed

Gone == [st |-> "gone", pid |-> None]
Idle == [st |-> "idle", pid |-> None]
NoGroup == [leader |-> "none", rest |-> FALSE, ours |-> FALSE,
            file |-> FALSE, written |-> FALSE, alone |-> FALSE]
NoneLate == [p \in Pids |-> 0]

Init ==
  /\ run = "off"
  /\ fwd = Gone
  /\ termed = {}
  /\ late = NoneLate
  /\ group = [p \in Pids |-> NoGroup]

-----------------------------------------------------------------------------
\* The kernel may hand p out: it is no process and no group, reaped or not.
Unused(p) == group[p].leader = "none" /\ ~group[p].rest

Supervised(st) == run # "off" /\ fwd.st = st

Left(g, leader, rest) == [g EXCEPT !.leader = leader, !.rest = rest]
\* kill_on_drop, which does nothing for a child that was reaped.
LeaderKilled(g) == Left(g, IF g.leader \in Foreign THEN g.leader ELSE "none", g.rest)
GroupKilled(g) == Left(g, "none", FALSE)
Orphaned(g) ==
  [g EXCEPT !.leader = IF @ = "zombie" THEN "none" ELSE @, !.ours = FALSE]
Unrecorded(g) == [g EXCEPT !.file = FALSE]
\* The command's handle on its pid file is dropped, if it has one.
Released(g) == IF g.written THEN Unrecorded(g) ELSE g

\* A recorded pid that runs the recorded program, by its name, and is the app's child
\* or, at start, an orphan.
Matches(g, ours) ==
  g.file /\ g.leader \in {"command", "namesake"} /\ g.ours = ours

\* sweep_dir: every file goes, and a group that matches is killed; the app has its
\* child, the command, still to reap.
Swept(ours) ==
  [p \in Pids |->
     IF ~group[p].file THEN group[p]
     ELSE IF Matches(group[p], ours)
     THEN Unrecorded(Left(group[p],
            IF ours /\ group[p].leader = "command" THEN "zombie" ELSE "none", FALSE))
     ELSE Unrecorded(group[p])]

-----------------------------------------------------------------------------
(* The app's life.                                                          *)

Start ==
  /\ run = "off"
  /\ run' = "on"
  /\ group' = Swept(FALSE)
  /\ UNCHANGED <<fwd, termed, late>>

\* on_app_quit: kill_live_forwards; the tasks run on until the process ends.
QuitSweep ==
  /\ run = "on"
  /\ run' = "quitting"
  /\ group' = Swept(TRUE)
  /\ UNCHANGED <<fwd, termed, late>>

\* The process ends, after its quit or killed: its children are orphans.
Ends ==
  /\ run # "off"
  /\ run' = "off"
  /\ fwd' = Gone
  /\ termed' = {}
  /\ late' = NoneLate
  /\ group' = [p \in Pids |-> Orphaned(group[p])]

-----------------------------------------------------------------------------
(* Processes.                                                               *)

\* The leader starts another process in its group, which may outlive it.
RestStarts(p) ==
  /\ group[p].leader = "command"
  /\ group' = [group EXCEPT ![p] = Left(@, "command", TRUE)]
  /\ UNCHANGED <<run, fwd, termed, late>>

RestExits(p) ==
  /\ group[p].rest
  /\ group' = [group EXCEPT ![p] = Left(@, @.leader, FALSE)]
  /\ UNCHANGED <<run, fwd, termed, late>>

\* The command ends, by itself or at a signal.
LeaderExits(p) ==
  /\ group[p].leader \in {"command"} \cup Foreign
  /\ group' = [group EXCEPT ![p] =
       Left(@, IF @.leader = "command" /\ @.ours THEN "zombie" ELSE "none", @.rest)]
  /\ UNCHANGED <<run, fwd, termed, late>>

\* Somebody else's process gets the pid, by chance of the recorded name: any, a child
\* of the app's, or an orphan.
OtherStarts(p) ==
  /\ Unused(p)
  /\ \E leader \in Foreign, ours \in BOOLEAN :
       /\ ours => leader = "namesake" /\ run # "off"
       /\ group' = [group EXCEPT ![p] = [Left(@, leader, FALSE) EXCEPT !.ours = ours]]
  /\ UNCHANGED <<run, fwd, termed, late>>

-----------------------------------------------------------------------------
(* Stopping a group (Running::stop).                                        *)

\* tokio has not reaped the leader: Child::id is there.
HasId(p) == group[p].leader \in {"command", "zombie"}

\* The group of p can be signalled, and is sent SIGTERM.
Terms(p) ==
  /\ HasId(p)
  /\ termed' = termed \cup {p}
  /\ UNCHANGED <<late, group>>

\* A stop nobody awaits has killed, or found nothing to signal: it will drop its file.
LeavesItsFile(p) ==
  late' = IF group[p].written THEN [late EXCEPT ![p] = @ + 1] ELSE late

\* A stop goes on behind its kill.
GraceEnds(p) ==
  /\ run # "off"
  /\ p \in termed
  /\ termed' = termed \ {p}
  /\ IF fwd.pid = p
     THEN fwd' = [fwd EXCEPT !.st = "finishing"] /\ UNCHANGED late
     ELSE LeavesItsFile(p) /\ UNCHANGED fwd
  /\ UNCHANGED run

\* Mutant: a leader that exits in the grace period took its group with it.
KillsOnlyAfterGrace(p) ==
  /\ GraceEnds(p)
  /\ group' = [group EXCEPT ![p] =
       IF @.leader = "zombie" THEN LeaderKilled(@) ELSE GroupKilled(@)]

\* Mutant: it waits for the leader to exit.
KillsAfterExit(p) ==
  /\ GraceEnds(p)
  /\ group[p].leader = "zombie"
  /\ group' = [group EXCEPT ![p] = GroupKilled(@)]

\* The leader has exited or the grace period is over: the group is killed, and the
\* leader reaped.
KillGroup(p) ==
  /\ GraceEnds(p)
  /\ group' = [group EXCEPT ![p] = GroupKilled(@)]

\* A stop nobody awaits has read the output to its end, and drops the pid file,
\* whoever has the pid by now.
StopEnds(p) ==
  /\ run # "off"
  /\ late[p] > 0
  /\ late' = [late EXCEPT ![p] = @ - 1]
  /\ group' = [group EXCEPT ![p] = Unrecorded(@)]
  /\ UNCHANGED <<run, fwd, termed>>

\* The same of the stop the transport awaits, which returns.
StopReturns ==
  /\ Supervised("finishing")
  /\ fwd' = Idle
  /\ group' = [group EXCEPT ![fwd.pid] = Released(@)]
  /\ UNCHANGED <<run, termed, late>>

-----------------------------------------------------------------------------
(* The transport, under its supervisor.                                     *)

Acquire ==
  /\ run = "on"
  /\ fwd.st = "gone"
  /\ fwd' = Idle
  /\ UNCHANGED <<run, termed, late, group>>

\* connect, the port being free: the command, the leader of a group of its own.
Spawn(p) ==
  /\ Supervised("idle")
  /\ Unused(p) /\ late[p] < MaxLate
  /\ fwd' = [st |-> "starting", pid |-> p]
  /\ \E written \in BOOLEAN :
       group' = [group EXCEPT ![p] =
         [leader |-> "command", rest |-> FALSE, ours |-> TRUE,
          file |-> written \/ @.file, written |-> written, alone |-> late[p] = 0]]
  /\ UNCHANGED <<run, termed, late>>

\* wait_until_ready
PortAnswers ==
  /\ Supervised("starting")
  /\ fwd' = [fwd EXCEPT !.st = "up"]
  /\ UNCHANGED <<run, termed, late, group>>

\* Mutant: the pid file goes when the stop begins.
TimesOutUnrecorded ==
  /\ Supervised("starting")
  /\ fwd' = [fwd EXCEPT !.st = "stopping"]
  /\ termed' = termed \cup {fwd.pid}
  /\ group' = [group EXCEPT ![fwd.pid] = Unrecorded(@)]
  /\ UNCHANGED <<run, late>>

StartTimesOut ==
  /\ Supervised("starting")
  /\ fwd' = [fwd EXCEPT !.st = "stopping"]
  /\ Terms(fwd.pid)
  /\ UNCHANGED run

\* A command that has exited is reaped, by try_wait.
Reaped(g) == IF g.leader = "zombie" THEN LeaderKilled(g) ELSE g

SeesExit ==
  /\ Supervised("starting")
  /\ group[fwd.pid].leader = "zombie"
  /\ fwd' = [fwd EXCEPT !.st = "failed"]
  /\ group' = [group EXCEPT ![fwd.pid] = Reaped(@)]
  /\ UNCHANGED <<run, termed, late>>

\* The command has exited, or its port does not answer.
HealthCheckFails ==
  /\ Supervised("up")
  /\ fwd' = [fwd EXCEPT !.st = "failed"]
  /\ group' = [group EXCEPT ![fwd.pid] = Reaped(@)]
  /\ UNCHANGED <<run, termed, late>>

\* Mutant: connect forgets to stop the command it had.
ReconnectWithoutStop ==
  /\ Supervised("failed")
  /\ fwd' = [fwd EXCEPT !.st = "stopping"]
  /\ UNCHANGED <<run, termed, late, group>>

\* The command is stopped, before the next connect.  The stop of one that was reaped
\* has nothing to signal: it only drops the pid file.
Reconnect ==
  /\ Supervised("failed")
  /\ \/ Terms(fwd.pid) /\ fwd' = [fwd EXCEPT !.st = "stopping"]
     \/ /\ ~HasId(fwd.pid)
        /\ fwd' = Idle
        /\ group' = [group EXCEPT ![fwd.pid] = Released(@)]
        /\ UNCHANGED <<termed, late>>
  /\ UNCHANGED run

\* The last handle goes and the supervisor's task is aborted: the transport's Drop
\* has the command stopped by a task of its own.
Dropped ==
  /\ run = "on"
  /\ fwd.st \in {"idle", "starting", "up", "failed"}
  /\ fwd' = Gone
  /\ \/ fwd.st = "idle" /\ UNCHANGED <<termed, late, group>>
     \/ fwd.st # "idle" /\ Terms(fwd.pid)
     \/ /\ fwd.st # "idle" /\ ~HasId(fwd.pid)
        /\ LeavesItsFile(fwd.pid)
        /\ UNCHANGED <<termed, group>>
  /\ UNCHANGED run

\* The same while the transport awaits a stop: that ends where it is. kill_on_drop
\* kills the leader, and the pid file is dropped.
DroppedStopping ==
  /\ run = "on"
  /\ fwd.st \in {"stopping", "finishing"}
  /\ fwd' = Gone
  /\ termed' = termed \ {fwd.pid}
  /\ group' = [group EXCEPT ![fwd.pid] = Released(LeaderKilled(@))]
  /\ UNCHANGED <<run, late>>

-----------------------------------------------------------------------------
App == Start \/ QuitSweep \/ Ends
Processes ==
  \E p \in Pids : RestStarts(p) \/ RestExits(p) \/ LeaderExits(p) \/ OtherStarts(p)
Stops(p) == KillGroup(p) \/ StopEnds(p)
Supervisor ==
  \/ PortAnswers \/ StartTimesOut \/ SeesExit \/ HealthCheckFails
  \/ Reconnect \/ StopReturns
  \/ \E p \in Pids : Spawn(p)

Next ==
  \/ App \/ Processes \/ Supervisor
  \/ Acquire \/ Dropped \/ DroppedStopping
  \/ \E p \in Pids : Stops(p)

Spec == Init /\ [][Next]_vars

\* Tasks are polled and the grace period ends, unless the app does.
Fairness == \A p \in Pids : WF_vars(KillGroup(p)) /\ WF_vars(StopEnds(p))

FairSpec == Spec /\ Fairness

-----------------------------------------------------------------------------
\* A command that runs has its pid file, if that could be written and no stop of an
\* earlier group of that pid had a file to drop when it was spawned: a crash at any
\* moment leaves it to the next launch's sweep (process.rs, pidfile).
NoCommandIsLost ==
  \A p \in Pids :
    group[p].leader = "command" /\ group[p].written /\ group[p].alone => group[p].file

\* A stop that could signal the group kills all of it, also when the wrapper obeys the
\* first signal and its child does not, unless the transport or the app ends first;
\* and nothing of the group is left while the transport awaits the end of its stop.
SignalledGroupsAreKilled ==
  [][/\ \A p \in termed : p \notin termed' =>
          \/ group'[p].leader = "none" /\ ~group'[p].rest
          \/ fwd.pid = p /\ fwd' = Gone
          \/ run' = "off"
     /\ fwd.st = "finishing" => ~group[fwd.pid].rest]_vars

\* The residual risk pidfile/command.rs accepts: a process that has a recorded pid, a
\* program of the recorded name and the parent the sweep looks for.
TakenForCommand(p) ==
  /\ group[p].leader = "namesake" /\ group[p].file
  /\ \/ Start /\ ~group[p].ours
     \/ QuitSweep /\ group[p].ours

\* No stop and no sweep ends somebody else's process, whoever got the pid of a command
\* that was killed, is still being stopped or is named by a file, but for that risk.
OthersAreSpared ==
  [][\A p \in Pids :
       group[p].leader \in Foreign /\ ~LeaderExits(p) /\ ~TakenForCommand(p)
         => group'[p].leader = group[p].leader]_vars

\* What a stop signals it kills whole, and nothing that is somebody else's.
SignalsReachTheirGroup == SignalledGroupsAreKilled /\ OthersAreSpared

\* A command whose tunnel was dropped, or that is being stopped, ends, whatever
\* it does with the polite signal.
DroppedCommandEnds ==
  \A p \in Pids :
    run = "on" /\ group[p].leader = "command" /\ group[p].ours /\ fwd.pid # p
      ~> group[p].leader # "command" \/ run # "on"

=============================================================================
