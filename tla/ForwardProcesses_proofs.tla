----------------------- MODULE ForwardProcesses_proofs -----------------------
(***************************************************************************)
(* That no ssh is lost by its transport nor, but for another copy's sweep, *)
(* by its pid file, and that no sweep ends anybody else's process: for any *)
(* number of copies of the app and any process ids.                        *)
(***************************************************************************)
EXTENDS ForwardProcesses, TLAPS

\* What binds the group of p to the transports: a transport's child is its own
\* run's and no stranger, an ssh of a run is its transport's child.
GroupOK(tr, p, g) ==
  /\ \A r \in Runs : tr[r].pid = p => g.parent = r /\ g.leader # "other"
  /\ \A r \in Runs : g.leader = "ssh" /\ g.parent = r => tr[r].pid = p
  /\ g.parent = "user" => g.leader # "none"

IInv == TypeOK /\ \A p \in Pids : GroupOK(transport, p, group[p])

-----------------------------------------------------------------------------
(* The changes a step makes to one group or one transport.                    *)

LEMMA KilledFields ==
  ASSUME NEW g \in Group
  PROVE  /\ LeaderKilled(g) \in Group
         /\ LeaderKilled(g).leader = "none" /\ LeaderKilled(g).parent = g.parent
         /\ GroupKilled(g) \in Group
         /\ GroupKilled(g).leader = "none" /\ GroupKilled(g).parent = g.parent
BY DEF LeaderKilled, GroupKilled, Group

LEMMA UnrecordedFields ==
  ASSUME NEW g \in Group
  PROVE  /\ Unrecorded(g) \in Group
         /\ Unrecorded(g).leader = g.leader /\ Unrecorded(g).parent = g.parent
BY DEF Unrecorded, Group

LEMMA Idle == IdleTransport \in Transport /\ IdleTransport.pid = None
BY DEF IdleTransport, Transport

\* A transport that supervises has a child, and keeps it as it moves on.
LEMMA Supervising ==
  ASSUME TypeOK, NEW r \in Runs, transport[r].st \in {"spawned", "connecting", "up"}
  PROVE  /\ Child(r) \in Pids
         /\ \A st \in {"spawned", "connecting", "up"} :
              /\ [transport[r] EXCEPT !.st = st] \in Transport
              /\ [transport[r] EXCEPT !.st = st].pid = Child(r)
<1>1. transport[r] \in Transport  BY DEF TypeOK
<1>2. transport[r] \in [st : {"spawned", "connecting", "up"}, pid : Pids]
  BY <1>1 DEF Transport
<1>3. \A st \in {"spawned", "connecting", "up"} :
        [transport[r] EXCEPT !.st = st] = [st |-> st, pid |-> Child(r)]
  BY <1>2 DEF Child
<1> QED  BY <1>2, <1>3 DEF Transport, Child

\* One group changes, and perhaps who has it.
LEMMA OneChanges ==
  ASSUME IInv, NEW p \in Pids, NEW g \in Group, group' = [group EXCEPT ![p] = g],
         run' = run, transport' \in [Runs -> Transport],
         \A r \in Runs, q \in Pids \ {p} : transport'[r].pid = q <=> transport[r].pid = q,
         GroupOK(transport', p, g)
  PROVE  IInv'
<1>1. /\ group' \in [Pids -> Group] /\ group'[p] = g
      /\ \A q \in Pids \ {p} : group'[q] = group[q]
  BY DEF IInv, TypeOK
<1>2. ASSUME NEW q \in Pids  PROVE GroupOK(transport', q, group'[q])
  <2>1. CASE q = p  BY <1>1, <2>1
  <2>2. CASE q # p
    <3>1. GroupOK(transport, q, group[q])  BY DEF IInv
    <3> QED  BY <1>1, <2>2, <3>1 DEF GroupOK
  <2> QED  BY <2>1, <2>2
<1> QED  BY <1>1, <1>2 DEF IInv, TypeOK

\* A transport lets go of its child, whose leader is dead.
LEMMA LetsGo ==
  ASSUME IInv, NEW r \in Runs, Child(r) \in Pids, NEW g \in Group,
         g.leader = "none", g.parent = group[Child(r)].parent,
         run' = run, transport' = [transport EXCEPT ![r] = IdleTransport],
         group' = [group EXCEPT ![Child(r)] = g]
  PROVE  IInv'
<1> DEFINE p == Child(r)
<1>1. group[p] \in Group /\ GroupOK(transport, p, group[p])  BY DEF IInv, TypeOK
<1>3. /\ transport \in [Runs -> Transport] /\ transport' \in [Runs -> Transport]
      /\ transport'[r].pid = None
      /\ \A s \in Runs \ {r} : transport'[s] = transport[s]
  BY Idle DEF IInv, TypeOK
<1>4. \A s \in Runs, q \in Pids \ {p} : transport'[s].pid = q <=> transport[s].pid = q
  BY <1>3, NoneAssumption DEF Child
<1>5. group[p].parent = r  BY <1>1 DEF GroupOK, Child
<1>6. \A s \in Runs : transport'[s].pid # p
  BY <1>1, <1>3, <1>5, NoneAssumption DEF GroupOK
<1>7. r # "user"  BY RunsAssumption
<1>8. GroupOK(transport', p, g)  BY <1>5, <1>6, <1>7 DEF GroupOK
<1> QED  BY <1>3, <1>4, <1>8, OneChanges

-----------------------------------------------------------------------------
(* The steps.                                                                 *)

LEMMA InitIInv == Init => IInv
<1> SUFFICES ASSUME Init  PROVE IInv  OBVIOUS
<1>1. TypeOK  BY Idle DEF Init, TypeOK, Group
<1>2. \A r \in Runs : transport[r].pid = None  BY Idle DEF Init
<1>3. \A p \in Pids : group[p].leader = "none" /\ group[p].parent = "init"  BY DEF Init
<1> QED  BY <1>1, <1>2, <1>3, NoneAssumption DEF IInv, GroupOK

\* What a sweep for a parent leaves of a group.
LEMMA SweptFields ==
  ASSUME TypeOK, NEW parent, NEW p \in Pids
  PROVE  /\ Swept(parent)[p] \in Group
         /\ Swept(parent)[p].parent = group[p].parent
         /\ ~group[p].file => Swept(parent)[p] = group[p]
         /\ Swept(parent)[p].leader =
              IF group[p].file /\ group[p].leader = "ssh" /\ group[p].parent = parent
              THEN "none" ELSE group[p].leader
<1>1. group[p] \in Group  BY DEF TypeOK
<1>2. /\ Unrecorded(group[p]) \in Group /\ GroupKilled(group[p]) \in Group
      /\ Unrecorded(group[p]).leader = group[p].leader
      /\ Unrecorded(group[p]).parent = group[p].parent
  BY <1>1, KilledFields, UnrecordedFields
<1>3. /\ Unrecorded(GroupKilled(group[p])) \in Group
      /\ Unrecorded(GroupKilled(group[p])).leader = "none"
      /\ Unrecorded(GroupKilled(group[p])).parent = group[p].parent
  BY <1>1, <1>2, KilledFields, UnrecordedFields
<1> QED  BY <1>1, <1>2, <1>3 DEF Swept

LEMMA SweepKeeps ==
  ASSUME IInv, NEW parent, parent # "user", group' = Swept(parent),
         run' \in [Runs -> {"off", "on", "quitting"}], UNCHANGED transport
  PROVE  IInv'
<1>1. TypeOK  BY DEF IInv
<1>2. group' \in [Pids -> Group]
  <2>1. \A p \in Pids : group'[p] \in Group  BY <1>1, SweptFields
  <2>2. group' = [p \in Pids |-> group'[p]]  BY DEF Swept
  <2> QED  BY <2>1, <2>2
<1>3. TypeOK'  BY <1>1, <1>2 DEF TypeOK
<1>4. ASSUME NEW p \in Pids  PROVE GroupOK(transport', p, group'[p])
  <2>1. GroupOK(transport, p, group[p])  BY DEF IInv
  <2>2. /\ group'[p].parent = group[p].parent
        /\ \/ group'[p].leader = group[p].leader
           \/ group'[p].leader = "none" /\ group[p].parent # "user"
    BY <1>1, SweptFields
  <2> QED  BY <2>1, <2>2 DEF GroupOK
<1> QED  BY <1>3, <1>4 DEF IInv

LEMMA EndsKeeps ==
  ASSUME IInv, NEW r \in Runs, Ends(r)
  PROVE  IInv'
<1>1. /\ transport \in [Runs -> Transport] /\ transport' \in [Runs -> Transport]
      /\ transport'[r].pid = None
      /\ \A s \in Runs \ {r} : transport'[s] = transport[s]
  BY Idle DEF Ends, IInv, TypeOK
<1>2. ASSUME NEW p \in Pids
      PROVE  /\ group'[p] \in Group /\ group'[p].leader = group[p].leader
             /\ group'[p].parent = IF group[p].parent = r THEN "init" ELSE group[p].parent
  BY DEF Ends, IInv, TypeOK, Group
<1>3. group' = [p \in Pids |-> group'[p]]  BY DEF Ends
<1>4. run' \in [Runs -> {"off", "on", "quitting"}]  BY DEF Ends, IInv, TypeOK
<1>5. TypeOK'
  <2>1. group' \in [Pids -> Group]  BY <1>2, <1>3
  <2> QED  BY <1>1, <1>4, <2>1 DEF TypeOK
<1>6. ASSUME NEW p \in Pids  PROVE GroupOK(transport', p, group'[p])
  <2>1. GroupOK(transport, p, group[p])  BY DEF IInv
  <2> QED  BY <1>1, <1>2, <2>1, NoneAssumption, RunsAssumption DEF GroupOK
<1> QED  BY <1>5, <1>6 DEF IInv

LEMMA SpawnKeeps ==
  ASSUME IInv, NEW r \in Runs, Spawn(r)
  PROVE  IInv'
<1>1. PICK p \in Pids :
        /\ Unused(p)
        /\ transport' = [transport EXCEPT ![r] = [st |-> "spawned", pid |-> p]]
        /\ group' = [group EXCEPT ![p] =
             [leader |-> "ssh", hop |-> TRUE, parent |-> r,
              file |-> group[p].file, written |-> FALSE]]
  BY DEF Spawn
<1> DEFINE g == [leader |-> "ssh", hop |-> TRUE, parent |-> r,
                 file |-> group[p].file, written |-> FALSE]
           t == [st |-> "spawned", pid |-> p]
<1>2. g \in Group /\ g.leader = "ssh" /\ g.parent = r  BY DEF IInv, TypeOK, Group
<1>3. t \in Transport /\ t.pid = p  BY DEF Transport
<1> HIDE DEF g, t
<1>4. transport[r].pid = None
  <2>1. transport[r] \in Transport /\ transport[r].st = "idle"
    BY DEF Spawn, Supervises, IInv, TypeOK
  <2> QED  BY <2>1 DEF Transport
<1>5. /\ transport \in [Runs -> Transport] /\ transport' = [transport EXCEPT ![r] = t]
      /\ transport' \in [Runs -> Transport]
      /\ transport'[r].pid = p
      /\ \A s \in Runs \ {r} : transport'[s] = transport[s] /\ transport[s].pid # p
  BY <1>1, <1>3 DEF IInv, TypeOK, Unused, t
<1>6. \A s \in Runs, q \in Pids \ {p} : transport'[s].pid = q <=> transport[s].pid = q
  BY <1>4, <1>5, NoneAssumption
<1>7. GroupOK(transport', p, g)
  BY <1>2, <1>5, RunsAssumption DEF GroupOK
<1>8. run' = run /\ group' = [group EXCEPT ![p] = g]  BY <1>1 DEF Spawn, g
<1> QED  BY <1>2, <1>5, <1>6, <1>7, <1>8, OneChanges

LEMMA WritePidFileKeeps ==
  ASSUME IInv, NEW r \in Runs, WritePidFile(r)
  PROVE  IInv'
<1> DEFINE p == Child(r)
           g == [group[p] EXCEPT !.file = TRUE, !.written = TRUE]
           t == [transport[r] EXCEPT !.st = "connecting"]
<1>1. TypeOK  BY DEF IInv
<1>2. p \in Pids /\ t \in Transport /\ t.pid = p
  BY <1>1, Supervising DEF WritePidFile, Supervises
<1>3. GroupOK(transport, p, group[p])  BY <1>2 DEF IInv
<1>4. group[p] \in Group  BY <1>1, <1>2 DEF TypeOK
<1>5. g \in Group /\ g.leader = group[p].leader /\ g.parent = group[p].parent
  BY <1>4 DEF Group
<1>6. group' = [group EXCEPT ![p] = g]
  BY <1>1, <1>2 DEF WritePidFile, TypeOK
<1>7. transport' = [transport EXCEPT ![r] = t] /\ run' = run
  BY <1>1 DEF WritePidFile, TypeOK
<1>8. transport[r].pid = p  BY DEF Child
<1> HIDE DEF g, t, p
<1>9. transport' \in [Runs -> Transport]
      /\ \A s \in Runs : transport'[s].pid = transport[s].pid
  BY <1>1, <1>2, <1>7, <1>8 DEF TypeOK
<1>10. GroupOK(transport', p, g)  BY <1>3, <1>5, <1>9 DEF GroupOK
<1> QED  BY <1>2, <1>5, <1>6, <1>7, <1>9, <1>10, OneChanges

LEMMA ConnectReadyKeeps ==
  ASSUME IInv, NEW r \in Runs, ConnectReady(r)
  PROVE  IInv'
<1> DEFINE t == [transport[r] EXCEPT !.st = "up"]
<1>1. TypeOK  BY DEF IInv
<1>2. t \in Transport /\ t.pid = transport[r].pid
  BY <1>1, Supervising DEF ConnectReady, Supervises, Child
<1>3. transport' = [transport EXCEPT ![r] = t] /\ run' = run /\ group' = group
  BY <1>1 DEF ConnectReady, TypeOK
<1> HIDE DEF t
<1>4. transport' \in [Runs -> Transport]
      /\ \A s \in Runs : transport'[s].pid = transport[s].pid
  BY <1>1, <1>2, <1>3 DEF TypeOK
<1>5. \A p \in Pids : GroupOK(transport', p, group'[p])
  BY <1>3, <1>4 DEF IInv, GroupOK
<1> QED  BY <1>1, <1>3, <1>4, <1>5 DEF IInv, TypeOK

\* The three steps that end a connect or a forward let go of a dead leader.
LEMMA TransportEnds ==
  ASSUME IInv, NEW r \in Runs, ConnectFails(r) \/ HealthCheckFails(r) \/ Abort(r)
  PROVE  /\ Child(r) \in Pids
         /\ transport' = [transport EXCEPT ![r] = IdleTransport] /\ run' = run
         /\ \E g \in Group :
              /\ g.leader = "none" /\ g.parent = group[Child(r)].parent
              /\ group' = [group EXCEPT ![Child(r)] = g]
<1> DEFINE p == Child(r)
<1>1. TypeOK  BY DEF IInv
<1>2. transport[r].st \in {"connecting", "up"}
  BY DEF ConnectFails, HealthCheckFails, Abort, Supervises
<1>3. p \in Pids  BY <1>1, <1>2, Supervising
<1>4. group[p] \in Group  BY <1>1, <1>3 DEF TypeOK
<1>5. transport' = [transport EXCEPT ![r] = IdleTransport] /\ run' = run
  BY DEF ConnectFails, HealthCheckFails, Abort
<1>6. PICK g \in {group[p], LeaderKilled(group[p]), GroupKilled(group[p])} :
        g.leader = "none" /\ group' = [group EXCEPT ![p] = Unrecorded(g)]
  <2>1. CASE ConnectFails(r) \/ Abort(r)
    BY <1>4, <2>1, KilledFields DEF ConnectFails, Abort
  <2>2. CASE HealthCheckFails(r)  BY <2>2 DEF HealthCheckFails
  <2> QED  BY <2>1, <2>2
<1>7. g \in Group /\ g.parent = group[p].parent  BY <1>4, KilledFields
<1>8. /\ Unrecorded(g) \in Group /\ Unrecorded(g).leader = "none"
      /\ Unrecorded(g).parent = group[p].parent
  BY <1>6, <1>7, UnrecordedFields
<1> QED  BY <1>3, <1>5, <1>6, <1>8

\* What ends or starts outside the app, at a pid of its own.
LEMMA OutsideKeeps ==
  ASSUME IInv, NEW p \in Pids, SshExits(p) \/ HopExits(p) \/ OtherTakes(p)
  PROVE  IInv'
<1>1. /\ TypeOK /\ group[p] \in Group /\ GroupOK(transport, p, group[p])
      /\ transport' = transport /\ transport \in [Runs -> Transport] /\ run' = run
      /\ group[p].hop \in BOOLEAN /\ group[p].file \in BOOLEAN
      /\ group[p].leader \in {"none", "ssh", "other"}
  BY DEF IInv, TypeOK, Group, SshExits, HopExits, OtherTakes
<1>2. CASE SshExits(p)
  <2> DEFINE g == LeaderKilled(group[p])
  <2>1. group' = [group EXCEPT ![p] = g] /\ group[p].parent # "user"
    BY <1>2 DEF SshExits
  <2>2. g \in Group /\ g.leader = "none" /\ g.parent = group[p].parent
    BY <1>1, KilledFields
  <2> HIDE DEF g
  <2>3. GroupOK(transport', p, g)  BY <1>1, <2>1, <2>2 DEF GroupOK
  <2> QED  BY <1>1, <2>1, <2>2, <2>3, OneChanges
<1>3. CASE HopExits(p)
  <2> DEFINE g == [group[p] EXCEPT !.hop = FALSE]
  <2>1. group' = [group EXCEPT ![p] = g]  BY <1>3 DEF HopExits
  <2>2. g \in Group /\ g.leader = group[p].leader /\ g.parent = group[p].parent
    BY <1>1 DEF Group
  <2> HIDE DEF g
  <2>3. GroupOK(transport', p, g)  BY <1>1, <2>2 DEF GroupOK
  <2> QED  BY <1>1, <2>1, <2>2, <2>3, OneChanges
<1>4. CASE OtherTakes(p)
  <2>1. PICK leader \in {"ssh", "other"}, parent \in {"init", "user"} :
          /\ leader = "ssh" => parent = "user"
          /\ group' = [group EXCEPT ![p] =
               [leader |-> leader, hop |-> FALSE, parent |-> parent,
                file |-> group[p].file, written |-> FALSE]]
    BY <1>4 DEF OtherTakes
  <2> DEFINE g == [leader |-> leader, hop |-> FALSE, parent |-> parent,
                   file |-> group[p].file, written |-> FALSE]
  <2>2. g \in Group /\ g.leader = leader /\ g.parent = parent  BY <1>1 DEF Group
  <2> HIDE DEF g
  <2>3. \A r \in Runs : transport'[r].pid # p  BY <1>1, <1>4 DEF OtherTakes, Unused
  <2>4. GroupOK(transport', p, g)
    BY <2>1, <2>2, <2>3, RunsAssumption DEF GroupOK
  <2>5. group' = [group EXCEPT ![p] = g]  BY <2>1 DEF g
  <2> QED  BY <1>1, <2>2, <2>4, <2>5, OneChanges
<1> QED  BY <1>2, <1>3, <1>4

LEMMA NextIInv == IInv /\ [Next]_vars => IInv'
<1> SUFFICES ASSUME IInv, [Next]_vars  PROVE IInv'  OBVIOUS
<1>1. ASSUME NEW r \in Runs, Start(r) \/ QuitSweep(r) \/ QuietSweep(r)  PROVE IInv'
  <2>1. PICK parent \in {"init", r} : group' = Swept(parent)
    BY <1>1 DEF Start, QuitSweep, QuietSweep
  <2>2. parent # "user"  BY RunsAssumption
  <2>3. run' \in [Runs -> {"off", "on", "quitting"}] /\ UNCHANGED transport
    BY <1>1 DEF Start, QuitSweep, QuietSweep, IInv, TypeOK
  <2> QED  BY <2>1, <2>2, <2>3, SweepKeeps
<1>2. ASSUME NEW r \in Runs, ConnectFails(r) \/ HealthCheckFails(r) \/ Abort(r)
      PROVE  IInv'
  BY <1>2, TransportEnds, LetsGo
<1>3. CASE UNCHANGED vars
  BY <1>3 DEF vars, IInv, TypeOK, GroupOK
<1> QED
  BY <1>1, <1>2, <1>3, EndsKeeps, SpawnKeeps, WritePidFileKeeps, ConnectReadyKeeps,
     OutsideKeeps DEF Next

LEMMA SpecIInv == Spec => []IInv
  BY InitIInv, NextIInv, PTL DEF Spec

-----------------------------------------------------------------------------
(* The theorems.                                                              *)

\* Whatever is retried, aborted, swept or killed, every ssh of a running copy is
\* its transport's child.
THEOREM SpecNoSshIsLost == Spec => []NoSshIsLost
<1>1. IInv => NoSshIsLost  BY DEF IInv, GroupOK, NoSshIsLost, Child
<1> QED  BY <1>1, SpecIInv, PTL

\* Somebody else's process meets every step of every copy.
LEMMA OtherStays ==
  ASSUME IInv, [Next]_vars, NEW p \in Pids, Other(p)
  PROVE  Other(p)'
<1> DEFINE Same == /\ group'[p].leader = group[p].leader
                   /\ group'[p].parent = group[p].parent
<1>1. /\ TypeOK /\ group[p] \in Group /\ group \in [Pids -> Group]
      /\ GroupOK(transport, p, group[p])
  BY DEF IInv, TypeOK
<1>2. Same => Other(p)'  BY DEF Other
<1>3. ASSUME NEW r \in Runs, NEW parent \in {"init", r}, group' = Swept(parent)
      PROVE  Other(p)'
  <2>1. parent # "user"  BY RunsAssumption
  <2>2. Same  BY <1>1, <1>3, <2>1, SweptFields DEF Other
  <2> QED  BY <1>2, <2>2
<1>4. ASSUME NEW r \in Runs, Start(r) \/ QuitSweep(r) \/ QuietSweep(r)
      PROVE  Other(p)'
  BY <1>3, <1>4 DEF Start, QuitSweep, QuietSweep
<1>5. ASSUME NEW r \in Runs, Ends(r)  PROVE Other(p)'
  <2>1. group'[p] = IF group[p].parent = r THEN [group[p] EXCEPT !.parent = "init"]
                    ELSE group[p]
    BY <1>5 DEF Ends
  <2>2. group'[p].leader = group[p].leader
        /\ (group[p].parent = "user" => group'[p].parent = "user")
    BY <1>1, <2>1, RunsAssumption DEF Group
  <2> QED  BY <2>2 DEF Other
<1>6. ASSUME NEW q \in Pids, Unused(q), NEW g, group' = [group EXCEPT ![q] = g]
      PROVE  Other(p)'
  <2>1. q # p  BY <1>1, <1>6 DEF Unused, Other, GroupOK
  <2> QED  BY <1>1, <1>2, <1>6, <2>1
<1>7. ASSUME NEW r \in Runs, Child(r) \in Pids, NEW g,
             group' = [group EXCEPT ![Child(r)] = g]
      PROVE  Other(p)'
  <2>1. Child(r) # p  BY <1>1, RunsAssumption DEF Child, GroupOK, Other
  <2> QED  BY <1>1, <1>2, <1>7, <2>1
<1>8. ASSUME NEW r \in Runs, ConnectFails(r) \/ HealthCheckFails(r) \/ Abort(r)
      PROVE  Other(p)'
  BY <1>7, <1>8, TransportEnds
<1>9. ASSUME NEW r \in Runs, WritePidFile(r)  PROVE Other(p)'
  <2>1. Child(r) \in Pids
    BY <1>1, <1>9, Supervising DEF WritePidFile, Supervises
  <2>2. Child(r) # p  BY <1>1, RunsAssumption DEF Child, GroupOK, Other
  <2>3. Same  BY <1>1, <1>9, <2>1, <2>2 DEF WritePidFile
  <2> QED  BY <1>2, <2>3
<1>10. ASSUME NEW q \in Pids, SshExits(q)  PROVE Other(p)'
  <2>1. q # p  BY <1>10 DEF SshExits, Other
  <2> QED  BY <1>1, <1>2, <1>10, <2>1 DEF SshExits
<1>11. ASSUME NEW q \in Pids, HopExits(q)  PROVE Other(p)'
  <2>1. Same  BY <1>1, <1>11 DEF HopExits, Group
  <2> QED  BY <1>2, <2>1
<1>12. CASE group' = group  BY <1>2, <1>12
<1>13. ASSUME NEW r \in Runs, Spawn(r)  PROVE Other(p)'
  BY <1>6, <1>13 DEF Spawn
<1>14. ASSUME NEW q \in Pids, OtherTakes(q)  PROVE Other(p)'
  BY <1>6, <1>14 DEF OtherTakes
<1>15. ASSUME NEW r \in Runs, ConnectReady(r)  PROVE Other(p)'
  BY <1>12, <1>15 DEF ConnectReady
<1> HIDE DEF Same
<1> QED
  BY <1>4, <1>5, <1>8, <1>9, <1>10, <1>11, <1>12, <1>13, <1>14, <1>15
  DEF Next, vars

\* No process that is not a forward ends by a step of the app, at whatever pid it
\* is (sweep_dir's checks).
THEOREM SpecOthersAreSpared == Spec => OthersAreSpared
<1> DEFINE A == \A p \in Pids : Other(p) => Other(p)'
<1>1. IInv /\ [Next]_vars => [A]_vars  BY OtherStays
<1> QED  BY <1>1, SpecIInv, PTL DEF Spec, OthersAreSpared

\* Nobody's process but a copy's own ends by its sweeps, however pids are reused
\* and however many copies share the directory (sweep_dir).
THEOREM SpecSignalsSpareOthers == Spec => SignalsSpareOthers
<1> DEFINE B == \A r \in Runs :
                  Start(r) \/ QuitSweep(r) \/ QuietSweep(r) =>
                    \A p \in Pids : group[p].parent \in Runs \ {r}
                                      => group'[p].leader = group[p].leader
<1>1. ASSUME TypeOK, NEW r \in Runs, Start(r) \/ QuitSweep(r) \/ QuietSweep(r),
             NEW p \in Pids, group[p].parent \in Runs \ {r}
      PROVE  group'[p].leader = group[p].leader
  <2>1. PICK parent \in {"init", r} : group' = Swept(parent)
    BY <1>1 DEF Start, QuitSweep, QuietSweep
  <2>2. parent # group[p].parent  BY <1>1, RunsAssumption
  <2> QED  BY <1>1, <2>1, <2>2, SweptFields
<1>2. IInv /\ [Next]_vars => [B]_vars  BY <1>1 DEF IInv
<1>3. Spec => SweepSparesOtherRuns
  BY <1>2, SpecIInv, PTL DEF Spec, SweepSparesOtherRuns
<1> QED  BY <1>3, SpecOthersAreSpared DEF SignalsSpareOthers

\* What a step leaves of an ssh that is recorded.
LEMMA RecordStays ==
  ASSUME IInv, [Next]_vars, NEW p \in Pids, group[p].leader = "ssh", group[p].file,
         group'[p].leader = "ssh", ~group'[p].file
  PROVE  SweptByOthers(group[p])
<1>1. TypeOK /\ group[p] \in Group /\ group \in [Pids -> Group]
  BY DEF IInv, TypeOK
<1>2. group'[p] # group[p]  OBVIOUS
<1>3. ASSUME NEW r \in Runs, Start(r) \/ QuitSweep(r) \/ QuietSweep(r)
      PROVE  SweptByOthers(group[p])
  <2>1. CASE Start(r)
    <3>1. group' = Swept("init")  BY <2>1 DEF Start
    <3>2. group[p].parent # "init"  BY <1>1, <3>1, SweptFields
    <3> QED  BY <2>1, <3>2 DEF SweptByOthers
  <2>2. CASE QuitSweep(r) \/ QuietSweep(r)
    <3>1. group' = Swept(r)  BY <2>2 DEF QuitSweep, QuietSweep
    <3>2. group[p].parent # r  BY <1>1, <3>1, SweptFields
    <3> QED  BY <2>2, <3>2 DEF SweptByOthers
  <2> QED  BY <1>3, <2>1, <2>2
<1>4. ASSUME NEW q \in Pids, NEW g, group' = [group EXCEPT ![q] = g]
      PROVE  q = p /\ g.leader = "ssh" /\ ~g.file
  BY <1>1, <1>2, <1>4
<1>5. ASSUME NEW r \in Runs, Ends(r)  PROVE FALSE
  <2>1. group'[p] = IF group[p].parent = r THEN [group[p] EXCEPT !.parent = "init"]
                    ELSE group[p]
    BY <1>5 DEF Ends
  <2> QED  BY <1>1, <2>1 DEF Group
<1>6. ASSUME NEW r \in Runs, Spawn(r)  PROVE FALSE
  BY <1>4, <1>6 DEF Spawn, Unused
<1>7. ASSUME NEW q \in Pids, OtherTakes(q)  PROVE FALSE
  BY <1>4, <1>7 DEF OtherTakes, Unused
<1>8. ASSUME NEW r \in Runs, ConnectFails(r) \/ HealthCheckFails(r) \/ Abort(r)
      PROVE  FALSE
  BY <1>4, <1>8, TransportEnds
<1>9. ASSUME NEW r \in Runs, WritePidFile(r)  PROVE FALSE
  <2>1. Child(r) \in Pids
    BY <1>1, <1>9, Supervising DEF WritePidFile, Supervises
  <2>2. group' = [group EXCEPT ![Child(r)].file = TRUE, ![Child(r)].written = TRUE]
    BY <1>9 DEF WritePidFile
  <2>3. group'[p].file  BY <1>1, <2>1, <2>2 DEF Group
  <2> QED  BY <2>3
<1>10. ASSUME NEW q \in Pids, SshExits(q)  PROVE FALSE
  <2>1. group' = [group EXCEPT ![q] = LeaderKilled(group[q])]  BY <1>10 DEF SshExits
  <2>2. q = p /\ LeaderKilled(group[q]).leader = "ssh"  BY <1>4, <2>1
  <2> QED  BY <1>1, <2>2, KilledFields
<1>11. ASSUME NEW q \in Pids, HopExits(q)  PROVE FALSE
  <2>1. group'[p].file = group[p].file  BY <1>1, <1>11 DEF HopExits, Group
  <2> QED  BY <2>1
<1>12. ASSUME NEW r \in Runs, ConnectReady(r)  PROVE FALSE
  BY <1>2, <1>12 DEF ConnectReady
<1> QED
  BY <1>2, <1>3, <1>5, <1>6, <1>7, <1>8, <1>9, <1>10, <1>11, <1>12 DEF Next, vars

\* A forward's pid file goes before its ssh only by another copy's sweep: a crash at
\* any other moment leaves it to the next start (sweep_stale).
THEOREM SpecFileOutlivesSsh == Spec => FileOutlivesSsh
<1> DEFINE A == \A p \in Pids :
                  /\ group[p].leader = "ssh" /\ group[p].file /\ group[p].written
                  /\ group'[p].leader = "ssh" /\ ~group'[p].file
                  => SweptByOthers(group[p])
<1>1. IInv /\ [Next]_vars => [A]_vars  BY RecordStays
<1> QED  BY <1>1, SpecIInv, PTL DEF Spec, FileOutlivesSsh
=============================================================================
