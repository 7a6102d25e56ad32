----------------------- MODULE CommandForwards_proofs -----------------------
(***************************************************************************)
(* That no command is lost to the sweeps, that what is signalled is killed *)
(* whole, and that nobody else's process is, for any process ids.          *)
(***************************************************************************)
EXTENDS CommandForwards, TLAPS

\* What holds of one process group in run r of the app: t says that a stop has
\* signalled it, n how many stops have its pid file still to drop.
GroupOK(r, t, n, g) ==
  /\ r = "off" => ~t /\ n = 0 /\ ~g.ours
  /\ r # "off" /\ g.leader = "command" /\ g.file => g.ours
  /\ t => g.leader \in {"command", "zombie"} /\ g.ours /\ n < MaxLate
  /\ g.leader = "command" /\ g.written /\ g.alone => g.file /\ n = 0

\* What holds of the group of the command that a transport in state st has.
HeldOK(st, t, n, g) ==
  /\ st # "stopping" => ~t
  /\ n < MaxLate
  /\ g.leader \in {"command", "zombie"} => g.ours
  /\ st = "starting" => g.leader \in {"command", "zombie"}
  /\ st = "finishing" => g.leader \notin {"command", "zombie"} /\ ~g.rest

Held == {"starting", "up", "failed", "stopping", "finishing"}

IInv ==
  /\ TypeOK
  /\ \A p \in Pids : GroupOK(run, p \in termed, late[p], group[p])
  /\ fwd.st \in Held => HeldOK(fwd.st, fwd.pid \in termed, late[fwd.pid], group[fwd.pid])

-----------------------------------------------------------------------------
Leaders == {"none", "command", "zombie", "other", "namesake"}

LEMMA LeadersAre == Leaders = {"none", "command", "zombie"} \cup Foreign
BY DEF Leaders, Foreign

LEMMA LeftFields ==
  ASSUME NEW g \in Group, NEW leader \in Leaders, NEW rest \in BOOLEAN
  PROVE  /\ Left(g, leader, rest) \in Group
         /\ Left(g, leader, rest).leader = leader
         /\ Left(g, leader, rest).rest = rest
         /\ Left(g, leader, rest).ours = g.ours
         /\ Left(g, leader, rest).file = g.file
         /\ Left(g, leader, rest).written = g.written
         /\ Left(g, leader, rest).alone = g.alone
BY LeadersAre DEF Left, Group

LEMMA UnrecordedFields ==
  ASSUME NEW g \in Group
  PROVE  /\ Unrecorded(g) \in Group
         /\ Unrecorded(g).leader = g.leader
         /\ Unrecorded(g).rest = g.rest
         /\ Unrecorded(g).ours = g.ours
         /\ Unrecorded(g).file = FALSE
         /\ Unrecorded(g).written = g.written
         /\ Unrecorded(g).alone = g.alone
BY DEF Unrecorded, Group

\* A handle on a pid file that is dropped changes nothing but the file.
LEMMA ReleasedFields ==
  ASSUME NEW g \in Group
  PROVE  /\ Released(g) \in Group
         /\ Released(g).leader = g.leader
         /\ Released(g).rest = g.rest
         /\ Released(g).ours = g.ours
         /\ Released(g).written = g.written
         /\ Released(g).alone = g.alone
BY UnrecordedFields DEF Released

LEMMA OrphanedFields ==
  ASSUME NEW g \in Group
  PROVE  /\ Orphaned(g) \in Group
         /\ Orphaned(g).leader = IF g.leader = "zombie" THEN "none" ELSE g.leader
         /\ Orphaned(g).rest = g.rest
         /\ Orphaned(g).ours = FALSE
         /\ Orphaned(g).file = g.file
         /\ Orphaned(g).written = g.written
         /\ Orphaned(g).alone = g.alone
BY DEF Orphaned, Group

\* Neither a reaping nor kill_on_drop touches a process of somebody else.
LEMMA KilledFields ==
  ASSUME NEW g \in Group
  PROVE  LET k == LeaderKilled(g)  r == Reaped(g) IN
         /\ k \in Group /\ r \in Group
         /\ k.leader = IF g.leader \in Foreign THEN g.leader ELSE "none"
         /\ r.leader = IF g.leader = "zombie" THEN "none" ELSE g.leader
         /\ k.rest = g.rest /\ r.rest = g.rest
         /\ k.ours = g.ours /\ r.ours = g.ours
         /\ k.file = g.file /\ r.file = g.file
         /\ k.written = g.written /\ r.written = g.written
         /\ k.alone = g.alone /\ r.alone = g.alone
<1> DEFINE l == IF g.leader \in Foreign THEN g.leader ELSE "none"
<1>1. /\ l \in Leaders /\ g.rest \in BOOLEAN
      /\ "zombie" \notin Foreign /\ "none" \notin Foreign
  BY LeadersAre DEF Group, Foreign
<1>2. LeaderKilled(g) = Left(g, l, g.rest) BY DEF LeaderKilled
<1>3. l = IF g.leader \in Foreign THEN g.leader ELSE "none" OBVIOUS
<1>4. Reaped(g) = IF g.leader = "zombie" THEN LeaderKilled(g) ELSE g BY DEF Reaped
<1> HIDE DEF l
<1>5. LET k == LeaderKilled(g) IN
      /\ k \in Group /\ k.leader = l /\ k.rest = g.rest /\ k.ours = g.ours
      /\ k.file = g.file /\ k.written = g.written /\ k.alone = g.alone
  BY <1>1, <1>2, LeftFields
<1> QED BY <1>1, <1>3, <1>4, <1>5

\* A transport that holds a command moves between the states that hold one.
LEMMA HeldMoves ==
  ASSUME fwd \in Transport, fwd.st \in Held
  PROVE  /\ fwd.pid \in Pids
         /\ \A st \in Held : /\ [fwd EXCEPT !.st = st] \in Transport
                             /\ [fwd EXCEPT !.st = st].st = st
                             /\ [fwd EXCEPT !.st = st].pid = fwd.pid
<1>1. fwd \in [st : Held, pid : Pids] BY DEF Transport, Held
<1>2. \A st \in Held : [fwd EXCEPT !.st = st] = [st |-> st, pid |-> fwd.pid] BY <1>1
<1> QED BY <1>1, <1>2 DEF Transport, Held

LEMMA Resting ==
  /\ Idle \in Transport /\ Idle.st = "idle" /\ Idle.pid = None
  /\ Gone \in Transport /\ Gone.st = "gone" /\ Gone.pid = None
BY DEF Idle, Gone, Transport

LEMMA FwdPid ==
  ASSUME fwd \in Transport
  PROVE  \/ fwd.st \in Held /\ fwd.pid \in Pids
         \/ fwd.st \in {"gone", "idle"} /\ fwd.pid = None
BY DEF Transport, Held

\* One group changes, or a stop of it, and the transport gets it, or keeps its own, or
\* lets go.
LEMMA OneChanges ==
  ASSUME IInv, NEW p \in Pids, NEW t \in BOOLEAN, NEW n \in 0..MaxLate, NEW g \in Group,
         group' = [group EXCEPT ![p] = g], late' = [late EXCEPT ![p] = n],
         termed' \subseteq Pids,
         \A q \in Pids : q \in termed' <=> IF q = p THEN t ELSE q \in termed,
         run' = run, GroupOK(run, t, n, g), fwd' \in Transport,
         fwd'.st \in Held => IF fwd'.pid = p THEN HeldOK(fwd'.st, t, n, g) ELSE fwd' = fwd,
         fwd'.st = "stopping" /\ fwd'.pid = p => t
  PROVE  IInv'
<1>1. /\ group' \in [Pids -> Group] /\ group'[p] = g
      /\ late' \in [Pids -> 0..MaxLate] /\ late'[p] = n
      /\ \A q \in Pids \ {p} : group'[q] = group[q] /\ late'[q] = late[q]
  BY DEF IInv, TypeOK
<1>2. fwd'.st \in Held => fwd'.pid \in Pids BY DEF Transport, Held
<1>6. p \in termed' <=> t OBVIOUS
<1>7. \A q \in Pids \ {p} : q \in termed' <=> q \in termed OBVIOUS
<1>3. TypeOK' BY <1>1, <1>2, <1>6, <1>7 DEF IInv, TypeOK, Held
<1>4. \A q \in Pids : GroupOK(run', q \in termed', late'[q], group'[q])
  <2> TAKE q \in Pids
  <2>1. CASE q = p BY <1>1, <1>6, <2>1 DEF GroupOK
  <2>2. CASE q # p
    <3>1. GroupOK(run, q \in termed, late[q], group[q]) BY DEF IInv
    <3> QED BY <1>1, <1>7, <2>2, <3>1 DEF GroupOK
  <2> QED BY <2>1, <2>2
<1>5. fwd'.st \in Held =>
        HeldOK(fwd'.st, fwd'.pid \in termed', late'[fwd'.pid], group'[fwd'.pid])
  <2> SUFFICES ASSUME fwd'.st \in Held
               PROVE  HeldOK(fwd'.st, fwd'.pid \in termed', late'[fwd'.pid], group'[fwd'.pid])
    OBVIOUS
  <2>1. CASE fwd'.pid = p BY <1>1, <1>6, <2>1 DEF HeldOK
  <2>2. CASE fwd'.pid # p
    <3>1. fwd' = fwd BY <2>2
    <3>2. HeldOK(fwd.st, fwd.pid \in termed, late[fwd.pid], group[fwd.pid])
      BY <3>1 DEF IInv
    <3> QED BY <1>1, <1>2, <1>7, <2>2, <3>1, <3>2 DEF HeldOK
  <2> QED BY <2>1, <2>2
<1> QED BY <1>3, <1>4, <1>5 DEF IInv

\* The same when no stop goes on: only the group and the transport change.
LEMMA GroupChanges ==
  ASSUME IInv, NEW p \in Pids, NEW g \in Group,
         group' = [group EXCEPT ![p] = g], UNCHANGED <<run, termed, late>>,
         GroupOK(run, p \in termed, late[p], g), fwd' \in Transport,
         fwd'.st \in Held => IF fwd'.pid = p THEN HeldOK(fwd'.st, p \in termed, late[p], g)
                                             ELSE fwd' = fwd,
         fwd'.st = "stopping" /\ fwd'.pid = p => p \in termed
  PROVE  IInv'
<1> DEFINE t == p \in termed
           n == late[p]
<1>1. /\ n \in 0..MaxLate /\ late' = [late EXCEPT ![p] = n] /\ t \in BOOLEAN
      /\ termed' \subseteq Pids
      /\ \A q \in Pids : q \in termed' <=> IF q = p THEN t ELSE q \in termed
      /\ GroupOK(run, t, n, g)
      /\ fwd'.st \in Held => IF fwd'.pid = p THEN HeldOK(fwd'.st, t, n, g) ELSE fwd' = fwd
      /\ fwd'.st = "stopping" /\ fwd'.pid = p => t
  BY DEF IInv, TypeOK
<1> HIDE DEF t, n
<1> QED BY <1>1, OneChanges

\* What holds in every state the lemmas on actions start from.
LEMMA Before ==
  ASSUME IInv
  PROVE  /\ TypeOK /\ fwd \in Transport /\ termed \subseteq Pids
         /\ late \in [Pids -> 0..MaxLate] /\ group \in [Pids -> Group]
         /\ fwd.st \in Held =>
              /\ fwd.pid \in Pids
              /\ HeldOK(fwd.st, fwd.pid \in termed, late[fwd.pid], group[fwd.pid])
         /\ \A q \in Pids :
              /\ group[q] \in Group /\ group = [group EXCEPT ![q] = group[q]]
              /\ late[q] \in 0..MaxLate /\ late = [late EXCEPT ![q] = late[q]]
              /\ GroupOK(run, q \in termed, late[q], group[q])
BY FwdPid DEF IInv, TypeOK, Held

\* The polite signal keeps what holds of the group it is sent to.
LEMMA TermsKeeps ==
  ASSUME IInv, fwd.st \in Held, run # "off", run' = run, Terms(fwd.pid),
         fwd' \in Transport, fwd'.st \notin Held \ {"stopping"},
         fwd'.st \in Held => fwd'.pid = fwd.pid
  PROVE  IInv'
<1> DEFINE p == fwd.pid
<1>1. /\ p \in Pids /\ HasId(p) /\ termed' = termed \cup {p} /\ UNCHANGED <<late, group>>
      /\ HeldOK(fwd.st, p \in termed, late[p], group[p])
      /\ GroupOK(run, p \in termed, late[p], group[p])
  BY Before DEF Terms
<1>2. GroupOK(run, TRUE, late[p], group[p])
  BY <1>1 DEF GroupOK, HasId, HeldOK
<1>3. fwd'.st \in Held => fwd'.st = "stopping" BY DEF Held
<1>4. fwd'.st \in Held => HeldOK(fwd'.st, TRUE, late[p], group[p])
  BY <1>1, <1>3 DEF HeldOK
<1>5. fwd'.st \in Held => fwd'.pid = p OBVIOUS
<1>6. termed' \subseteq Pids /\ \A q \in Pids : q \in termed' <=> IF q = p THEN TRUE ELSE q \in termed
  BY <1>1, Before
<1>7. /\ group[p] \in Group /\ group' = [group EXCEPT ![p] = group[p]]
      /\ late[p] \in 0..MaxLate /\ late' = [late EXCEPT ![p] = late[p]]
  BY <1>1, Before
<1> HIDE DEF p
<1> QED BY <1>1, <1>2, <1>4, <1>5, <1>6, <1>7, OneChanges

-----------------------------------------------------------------------------
LEMMA InitIInv == Init => IInv
<1> SUFFICES ASSUME Init PROVE IInv OBVIOUS
<1>1. NoGroup \in Group /\ NoGroup.leader = "none" /\ ~NoGroup.ours BY DEF NoGroup, Group
<1>2. NoneLate \in [Pids -> 0..MaxLate] /\ \A p \in Pids : NoneLate[p] = 0
  BY MaxLateAssumption DEF NoneLate
<1>3. TypeOK BY <1>1, <1>2, Resting DEF Init, TypeOK
<1> QED BY <1>1, <1>2, <1>3, Resting DEF Init, IInv, GroupOK, Held

\* A sweep takes every file, and kills what matches it.
LEMMA SweptFields ==
  ASSUME TypeOK, NEW ours \in BOOLEAN, NEW p \in Pids
  PROVE  LET g == group[p]  h == Swept(ours)[p] IN
         /\ h \in Group
         /\ ~h.file
         /\ h.ours = g.ours /\ h.written = g.written /\ h.alone = g.alone
         /\ Matches(g, ours) =>
              /\ h.leader = IF ours /\ g.leader = "command" THEN "zombie" ELSE "none"
              /\ ~h.rest
         /\ ~Matches(g, ours) => h.leader = g.leader /\ h.rest = g.rest
<1> DEFINE g == group[p]
           l == IF ours /\ g.leader = "command" THEN "zombie" ELSE "none"
<1>1. g \in Group BY DEF TypeOK
<1>2. l \in Leaders BY DEF Leaders
<1>3. Left(g, l, FALSE) \in Group BY <1>1, <1>2, LeftFields
<1>4. CASE ~g.file
  BY <1>1, <1>4 DEF Swept, Matches
<1>5. CASE g.file /\ Matches(g, ours)
  <2>1. Swept(ours)[p] = Unrecorded(Left(g, l, FALSE)) BY <1>5 DEF Swept
  <2>5. l = IF ours /\ g.leader = "command" THEN "zombie" ELSE "none" OBVIOUS
  <2> HIDE DEF g, l
  <2>2. /\ Left(g, l, FALSE).leader = l /\ ~Left(g, l, FALSE).rest
        /\ Left(g, l, FALSE).ours = g.ours /\ Left(g, l, FALSE).written = g.written
        /\ Left(g, l, FALSE).alone = g.alone
    BY <1>1, <1>2, LeftFields
  <2>3. /\ Swept(ours)[p] \in Group /\ ~Swept(ours)[p].file
        /\ Swept(ours)[p].leader = l /\ ~Swept(ours)[p].rest
        /\ Swept(ours)[p].ours = g.ours /\ Swept(ours)[p].written = g.written
        /\ Swept(ours)[p].alone = g.alone
    BY <1>3, <2>1, <2>2, UnrecordedFields
  <2> QED BY <1>5, <2>3, <2>5 DEF g
<1>6. CASE g.file /\ ~Matches(g, ours)
  <2>1. Swept(ours)[p] = Unrecorded(g) BY <1>6 DEF Swept
  <2> QED BY <1>1, <1>6, <2>1, UnrecordedFields
<1> QED BY <1>4, <1>5, <1>6

\* A sweep keeps what holds of every group, at start and at quit.
LEMMA SweepKeeps ==
  ASSUME IInv, NEW ours \in BOOLEAN, group' = Swept(ours), UNCHANGED <<fwd, termed, late>>,
         run' \in {"on", "quitting"}, IF ours THEN run = "on" ELSE run = "off"
  PROVE  IInv'
<1>1. TypeOK /\ \A p \in Pids : /\ group[p] \in Group
                              /\ group[p].ours \in BOOLEAN /\ group[p].file \in BOOLEAN
  BY DEF IInv, TypeOK, Group
<1>2. ASSUME NEW p \in Pids
      PROVE  LET g == group[p]  h == group'[p] IN
             /\ h \in Group /\ ~h.file
             /\ h.ours = g.ours /\ h.written = g.written /\ h.alone = g.alone
             /\ Matches(g, ours) =>
                  /\ h.leader = IF ours /\ g.leader = "command" THEN "zombie" ELSE "none"
                  /\ ~h.rest
             /\ ~Matches(g, ours) => h.leader = g.leader /\ h.rest = g.rest
  BY <1>1, SweptFields
<1>3. ASSUME NEW p \in Pids PROVE GroupOK(run', p \in termed', late'[p], group'[p])
  <2>1. GroupOK(run, p \in termed, late[p], group[p]) BY DEF IInv
  <2>2. group[p].leader = "command" /\ group[p].file =>
          /\ Matches(group[p], ours)
          /\ group'[p].leader # "command"
    BY <1>1, <1>2, <2>1 DEF GroupOK, Matches
  <2>3. p \in termed => group[p].leader \in {"command", "zombie"} /\ ours
    BY <2>1 DEF GroupOK
  <2>4. p \in termed => group'[p].leader \in {"command", "zombie"}
    BY <1>2, <2>3 DEF Matches
  <2>5. group'[p].leader = "command" => group[p].leader = "command"
    BY <1>2
  <2> QED BY <1>2, <2>1, <2>2, <2>4, <2>5 DEF GroupOK
<1>4. fwd'.st \in Held =>
        HeldOK(fwd'.st, fwd'.pid \in termed', late'[fwd'.pid], group'[fwd'.pid])
  <2> SUFFICES ASSUME fwd.st \in Held
               PROVE  HeldOK(fwd.st, fwd.pid \in termed, late[fwd.pid], group'[fwd.pid])
    OBVIOUS
  <2> DEFINE p == fwd.pid
  <2>1. p \in Pids /\ HeldOK(fwd.st, p \in termed, late[p], group[p])
        /\ GroupOK(run, p \in termed, late[p], group[p])
    BY Before
  <2>2. group'[p].leader \in {"command", "zombie"} => group[p].leader \in {"command", "zombie"}
    BY <1>2, <2>1
  <2>3. fwd.st = "starting" => group'[p].leader \in {"command", "zombie"}
    BY <1>2, <2>1 DEF HeldOK, GroupOK, Matches
  <2>4. group'[p].rest => group[p].rest BY <1>2, <2>1
  <2> HIDE DEF p
  <2>5. group'[p].ours = group[p].ours BY <1>2, <2>1
  <2> QED BY <2>1, <2>2, <2>3, <2>4, <2>5 DEF HeldOK, p
<1>5. group' \in [Pids -> Group] BY <1>2 DEF Swept
<1> QED BY <1>1, <1>3, <1>4, <1>5 DEF IInv, TypeOK

LEMMA AppKeeps == IInv /\ App => IInv'
<1> SUFFICES ASSUME IInv, App PROVE IInv' OBVIOUS
<1>2. CASE Start
  BY <1>2, SweepKeeps DEF Start
<1>3. CASE QuitSweep
  BY <1>3, SweepKeeps DEF QuitSweep
<1>4. CASE Ends
  <2>1. /\ run' = "off" /\ fwd' = Gone /\ termed' = {} /\ late' = NoneLate
        /\ group' = [p \in Pids |-> Orphaned(group[p])]
    BY <1>4 DEF Ends
  <2>4. NoneLate \in [Pids -> 0..MaxLate] /\ \A p \in Pids : NoneLate[p] = 0
    BY MaxLateAssumption DEF NoneLate
  <2>2. ASSUME NEW p \in Pids PROVE GroupOK(run', p \in termed', late'[p], group'[p])
    <3>1. GroupOK(run, p \in termed, late[p], group[p]) /\ group[p] \in Group BY Before
    <3>2. /\ ~group'[p].ours
          /\ group'[p].leader = "command" => group[p].leader = "command"
          /\ group'[p].file = group[p].file /\ group'[p].written = group[p].written
          /\ group'[p].alone = group[p].alone
      BY <2>1, <3>1, OrphanedFields
    <3> QED BY <2>1, <2>4, <3>1, <3>2 DEF GroupOK
  <2>3. group' \in [Pids -> Group] BY <2>1, Before, OrphanedFields
  <2> QED BY <2>1, <2>2, <2>3, <2>4, Resting DEF IInv, TypeOK, Held
<1> QED BY <1>2, <1>3, <1>4 DEF App

\* A process of the group starts or ends, and nothing of the app's changes.
LEMMA ProcessKeeps ==
  ASSUME IInv, NEW p \in Pids, NEW g \in Group,
         UNCHANGED <<run, fwd, termed, late>>, group' = [group EXCEPT ![p] = g],
         GroupOK(run, p \in termed, late[p], g),
         fwd.st \in Held /\ fwd.pid = p => HeldOK(fwd.st, p \in termed, late[p], g)
  PROVE  IInv'
<1>1. fwd.st = "stopping" => fwd.pid \in termed BY DEF IInv, TypeOK
<1> QED BY <1>1, Before, GroupChanges

LEMMA ProcessesKeep == IInv /\ Processes => IInv'
<1> SUFFICES ASSUME IInv, NEW p \in Pids,
                    RestStarts(p) \/ RestExits(p) \/ LeaderExits(p) \/ OtherStarts(p)
             PROVE  IInv'
  BY DEF Processes
<1> DEFINE t == p \in termed
           n == late[p]
<1>1. /\ group[p] \in Group /\ group[p].leader \in Leaders /\ group[p].rest \in BOOLEAN
      /\ GroupOK(run, t, n, group[p])
      /\ fwd.st \in Held /\ fwd.pid = p => HeldOK(fwd.st, t, n, group[p])
  BY Before, LeadersAre DEF Group
<1>2. UNCHANGED <<run, fwd, termed, late>>
  BY DEF RestStarts, RestExits, LeaderExits, OtherStarts
<1>3. {"none", "command", "zombie", "other", "namesake"} = Leaders BY DEF Leaders
<1>8. ASSUME NEW g \in Group, group' = [group EXCEPT ![p] = g], GroupOK(run, t, n, g),
             fwd.st \in Held /\ fwd.pid = p => HeldOK(fwd.st, t, n, g)
      PROVE  IInv'
  BY <1>2, <1>8, ProcessKeeps
<1> HIDE DEF t, n
<1>4. CASE RestStarts(p)
  <2> DEFINE g == Left(group[p], "command", TRUE)
  <2>1. group' = [group EXCEPT ![p] = g] /\ group[p].leader = "command"
    BY <1>4 DEF RestStarts
  <2>2. /\ g \in Group /\ g.leader = "command" /\ g.ours = group[p].ours
        /\ g.file = group[p].file /\ g.written = group[p].written /\ g.alone = group[p].alone
    BY <1>1, <1>3, LeftFields
  <2> HIDE DEF g
  <2>3. GroupOK(run, t, n, g) BY <1>1, <2>1, <2>2 DEF GroupOK
  <2>4. fwd.st \in Held /\ fwd.pid = p => HeldOK(fwd.st, t, n, g)
    BY <1>1, <2>1, <2>2 DEF HeldOK
  <2> QED BY <1>8, <2>1, <2>2, <2>3, <2>4
<1>5. CASE RestExits(p)
  <2> DEFINE g == Left(group[p], group[p].leader, FALSE)
  <2>1. group' = [group EXCEPT ![p] = g] BY <1>5 DEF RestExits
  <2>2. /\ g \in Group /\ g.leader = group[p].leader /\ g.ours = group[p].ours /\ ~g.rest
        /\ g.file = group[p].file /\ g.written = group[p].written /\ g.alone = group[p].alone
    BY <1>1, LeftFields
  <2> HIDE DEF g
  <2>3. GroupOK(run, t, n, g) BY <1>1, <2>2 DEF GroupOK
  <2>4. fwd.st \in Held /\ fwd.pid = p => HeldOK(fwd.st, t, n, g)
    BY <1>1, <2>2 DEF HeldOK
  <2> QED BY <1>8, <2>1, <2>2, <2>3, <2>4
<1>6. CASE LeaderExits(p)
  <2> DEFINE l == IF group[p].leader = "command" /\ group[p].ours THEN "zombie" ELSE "none"
             g == Left(group[p], l, group[p].rest)
  <2>1. /\ group' = [group EXCEPT ![p] = g]
        /\ group[p].leader \in {"command", "other", "namesake"}
        /\ l \in Leaders
    BY <1>6 DEF LeaderExits, Leaders, Foreign
  <2>5. /\ l \in {"zombie", "none"}
        /\ group[p].leader = "command" /\ group[p].ours => l = "zombie"
        /\ l = "zombie" => group[p].leader = "command" /\ group[p].ours
    OBVIOUS
  <2> HIDE DEF l
  <2>2. /\ g \in Group /\ g.leader = l /\ g.ours = group[p].ours /\ g.rest = group[p].rest
    BY <1>1, <2>1, LeftFields
  <2> HIDE DEF g
  <2>3. GroupOK(run, t, n, g) BY <1>1, <2>1, <2>2, <2>5 DEF GroupOK
  <2>4. fwd.st \in Held /\ fwd.pid = p => HeldOK(fwd.st, t, n, g)
    BY <1>1, <2>1, <2>2, <2>5 DEF HeldOK
  <2> QED BY <1>8, <2>1, <2>2, <2>3, <2>4
<1>7. CASE OtherStarts(p)
  <2>1. PICK leader \in Foreign, ours \in BOOLEAN :
          /\ ours => run # "off"
          /\ group' = [group EXCEPT ![p] = [Left(group[p], leader, FALSE) EXCEPT !.ours = ours]]
    BY <1>7 DEF OtherStarts
  <2> DEFINE g == [Left(group[p], leader, FALSE) EXCEPT !.ours = ours]
  <2>2. group[p].leader = "none" BY <1>7 DEF OtherStarts, Unused
  <2>3. Left(group[p], leader, FALSE) \in Group /\ Left(group[p], leader, FALSE).leader = leader
        /\ ~Left(group[p], leader, FALSE).rest
    BY <1>1, LeadersAre, LeftFields
  <2>5. g \in Group /\ g.leader = leader /\ g.ours = ours /\ ~g.rest
    BY <2>3 DEF Group
  <2>6. leader \notin {"command", "zombie"} BY DEF Foreign
  <2>7. group' = [group EXCEPT ![p] = g] BY <2>1
  <2> HIDE DEF g
  <2>8. GroupOK(run, t, n, g) BY <1>1, <2>1, <2>2, <2>5, <2>6 DEF GroupOK
  <2>9. fwd.st \in Held /\ fwd.pid = p => HeldOK(fwd.st, t, n, g)
    BY <1>1, <2>2, <2>5, <2>6 DEF HeldOK
  <2> QED BY <1>8, <2>5, <2>7, <2>8, <2>9
<1> QED BY <1>4, <1>5, <1>6, <1>7

LEMMA SupervisorKeeps == IInv /\ Supervisor => IInv'
<1> SUFFICES ASSUME IInv, Supervisor PROVE IInv' OBVIOUS
<1> DEFINE p == fwd.pid
<1>2. fwd.st \in Held =>
        /\ p \in Pids
        /\ HeldOK(fwd.st, p \in termed, late[p], group[p])
        /\ GroupOK(run, p \in termed, late[p], group[p])
        /\ group[p] \in Group /\ group = [group EXCEPT ![p] = group[p]]
        /\ \A st \in Held : /\ [fwd EXCEPT !.st = st] \in Transport
                            /\ [fwd EXCEPT !.st = st].st = st
                            /\ [fwd EXCEPT !.st = st].pid = p
  BY Before, HeldMoves
\* The transport's next state, with the group it leaves.
<1>1. ASSUME NEW st \in Held \ {"stopping"}, NEW g \in Group, fwd.st \in Held,
             fwd' = [fwd EXCEPT !.st = st], group' = [group EXCEPT ![p] = g],
             UNCHANGED <<run, termed, late>>, fwd.st # "stopping",
             GroupOK(run, p \in termed, late[p], g), HeldOK(st, p \in termed, late[p], g)
      PROVE  IInv'
  <2>1. p \in Pids /\ fwd' \in Transport /\ fwd'.st = st /\ fwd'.pid = p
    BY <1>1, <1>2
  <2> HIDE DEF p
  <2> QED BY <1>1, <2>1, GroupChanges
<1>3. CASE PortAnswers
  <2>1. /\ fwd.st = "starting" /\ fwd' = [fwd EXCEPT !.st = "up"]
        /\ UNCHANGED <<run, termed, late, group>>
    BY <1>3 DEF PortAnswers, Supervised
  <2>3. HeldOK("up", p \in termed, late[p], group[p])
    BY <1>2, <2>1 DEF HeldOK, Held
  <2> QED BY <1>1, <1>2, <2>1, <2>3 DEF Held
<1>4. CASE StartTimesOut
  <2>1. /\ fwd.st = "starting" /\ fwd' = [fwd EXCEPT !.st = "stopping"]
        /\ run # "off" /\ run' = run /\ Terms(fwd.pid)
    BY <1>4 DEF StartTimesOut, Supervised
  <2>2. /\ fwd' \in Transport /\ fwd'.st = "stopping" /\ fwd'.pid = p
        /\ fwd.st \in Held
    BY <1>2, <2>1 DEF Held
  <2> QED BY <2>1, <2>2, TermsKeeps
<1>5. CASE SeesExit \/ HealthCheckFails
  <2> DEFINE g == Reaped(group[p])
  <2>1. /\ fwd.st \in {"starting", "up"} /\ fwd' = [fwd EXCEPT !.st = "failed"]
        /\ group' = [group EXCEPT ![p] = g] /\ UNCHANGED <<run, termed, late>>
    BY <1>5 DEF SeesExit, HealthCheckFails, Supervised
  <2>2. /\ group[p] \in Group /\ HeldOK(fwd.st, p \in termed, late[p], group[p])
        /\ GroupOK(run, p \in termed, late[p], group[p])
    BY <1>2, <2>1 DEF Held
  <2>3. LET h == group[p] IN
        /\ g \in Group /\ g.leader = IF h.leader = "zombie" THEN "none" ELSE h.leader
        /\ g.ours = h.ours /\ g.file = h.file /\ g.written = h.written /\ g.alone = h.alone
    BY <2>2, KilledFields
  <2> HIDE DEF g
  <2>4. p \notin termed BY <2>1, <2>2 DEF HeldOK
  <2>5. GroupOK(run, p \in termed, late[p], g) BY <2>2, <2>3, <2>4 DEF GroupOK
  <2>6. HeldOK("failed", p \in termed, late[p], g) BY <2>2, <2>3, <2>4 DEF HeldOK
  <2> QED BY <1>1, <2>1, <2>3, <2>5, <2>6 DEF Held
\* The pid file goes with a command whose leader is gone, and the transport lets go.
<1>6. ASSUME fwd.st \in Held, ~HasId(p), fwd' = Idle, p \notin termed,
             group' = [group EXCEPT ![p] = Released(@)], UNCHANGED <<run, termed, late>>
      PROVE  IInv'
  <2> DEFINE g == Released(group[p])
  <2>1. /\ g \in Group /\ g.leader = group[p].leader /\ g.ours = group[p].ours
        /\ g.written = group[p].written /\ g.alone = group[p].alone
    BY <1>2, <1>6, ReleasedFields
  <2>2. group' = [group EXCEPT ![p] = g] BY <1>6
  <2> HIDE DEF g
  <2>3. GroupOK(run, p \in termed, late[p], g)
    BY <1>2, <1>6, <2>1 DEF GroupOK, HasId
  <2>4. fwd' \in Transport /\ fwd'.st \notin Held /\ fwd'.st # "stopping"
    BY <1>6, Resting DEF Held
  <2> HIDE DEF p
  <2> QED BY <1>2, <1>6, <2>1, <2>2, <2>3, <2>4, GroupChanges
<1>7. CASE Reconnect
  <2>1. /\ fwd.st = "failed" /\ fwd.st \in Held /\ run # "off" /\ run' = run
        /\ p \notin termed
    BY <1>2, <1>7 DEF Reconnect, Supervised, Held, HeldOK
  <2>2. CASE Terms(fwd.pid) /\ fwd' = [fwd EXCEPT !.st = "stopping"]
    <3>1. /\ fwd' \in Transport /\ fwd'.st = "stopping" /\ fwd'.pid = p
      BY <1>2, <2>1, <2>2 DEF Held
    <3> QED BY <2>1, <2>2, <3>1, TermsKeeps
  <2>3. CASE ~HasId(fwd.pid) /\ fwd' = Idle
    BY <1>6, <1>7, <2>1, <2>3 DEF Reconnect, Terms
  <2> QED BY <1>7, <2>2, <2>3 DEF Reconnect
<1>8. CASE StopReturns
  <2>1. /\ fwd.st = "finishing" /\ fwd.st \in Held /\ ~HasId(p) /\ p \notin termed
    BY <1>2, <1>8 DEF StopReturns, Supervised, Held, HeldOK, HasId
  <2> QED BY <1>6, <1>8, <2>1 DEF StopReturns
<1>9. ASSUME NEW q \in Pids, Spawn(q) PROVE IInv'
  <2>1. PICK written \in BOOLEAN :
          group' = [group EXCEPT ![q] =
            [leader |-> "command", rest |-> FALSE, ours |-> TRUE,
             file |-> written \/ group[q].file, written |-> written, alone |-> late[q] = 0]]
    BY <1>9 DEF Spawn
  <2> DEFINE g == [leader |-> "command", rest |-> FALSE, ours |-> TRUE,
                   file |-> written \/ group[q].file, written |-> written,
                   alone |-> late[q] = 0]
  <2>2. /\ fwd' = [st |-> "starting", pid |-> q] /\ late[q] < MaxLate
        /\ group[q].leader = "none"
        /\ run # "off" /\ UNCHANGED <<run, termed, late>>
    BY <1>9 DEF Spawn, Supervised, Unused
  <2>7. GroupOK(run, q \in termed, late[q], group[q]) BY Before
  <2>8. q \notin termed BY <2>2, <2>7 DEF GroupOK
  <2>3. g \in Group BY Before, LeadersAre DEF Group
  <2>4. GroupOK(run, q \in termed, late[q], g) /\ HeldOK("starting", q \in termed, late[q], g)
    BY <2>2, <2>8 DEF GroupOK, HeldOK
  <2>5. fwd' \in Transport /\ fwd'.st = "starting" /\ fwd'.pid = q
    BY <2>2 DEF Transport
  <2>6. group' = [group EXCEPT ![q] = g] BY <2>1
  <2> HIDE DEF g
  <2> QED BY <2>2, <2>3, <2>4, <2>5, <2>6, GroupChanges
<1> QED BY <1>3, <1>4, <1>5, <1>7, <1>8, <1>9 DEF Supervisor

\* A stop nobody awaits has its file still to drop.
LEMMA LeavesItsFileCount ==
  ASSUME IInv, NEW p \in Pids, LeavesItsFile(p), late[p] < MaxLate
  PROVE  \E n \in 0..MaxLate : late' = [late EXCEPT ![p] = n]
<1>1. late[p] \in 0..MaxLate /\ late = [late EXCEPT ![p] = late[p]] BY Before
<1>2. CASE group[p].written
  <2>1. late' = [late EXCEPT ![p] = late[p] + 1] BY <1>2 DEF LeavesItsFile
  <2>2. late[p] + 1 \in 0..MaxLate BY <1>1, MaxLateAssumption
  <2> QED BY <2>1, <2>2
<1>3. CASE ~group[p].written
  <2>1. late' = late BY <1>3 DEF LeavesItsFile
  <2> QED BY <1>1, <2>1
<1> QED BY <1>2, <1>3

LEMMA DropsKeep == IInv /\ (Acquire \/ Dropped \/ DroppedStopping) => IInv'
<1> SUFFICES ASSUME IInv, Acquire \/ Dropped \/ DroppedStopping PROVE IInv' OBVIOUS
<1> DEFINE p == fwd.pid
<1>2. CASE Acquire
  <2>1. UNCHANGED <<run, termed, late, group>> /\ fwd' = Idle BY <1>2 DEF Acquire
  <2> QED BY <2>1, Resting DEF IInv, TypeOK, Held
<1>3. CASE Dropped
  <2>1. fwd' = Gone /\ run = "on" /\ run' = run BY <1>3 DEF Dropped
  <2>2. CASE fwd.st = "idle" /\ UNCHANGED <<termed, late, group>>
    BY <2>1, <2>2, Resting DEF IInv, TypeOK, Held
  <2>3. CASE fwd.st # "idle" /\ Terms(fwd.pid)
    <3>1. fwd.st \in Held
      BY <1>3, <2>3 DEF Dropped, Held
    <3> QED BY <2>1, <2>3, <3>1, Resting, TermsKeeps DEF Held
  <2>4. CASE /\ fwd.st # "idle" /\ ~HasId(fwd.pid)
             /\ LeavesItsFile(fwd.pid)
             /\ UNCHANGED <<termed, group>>
    <3>1. fwd.st \in Held /\ fwd.st # "stopping"
      BY <1>3, <2>4 DEF Dropped, Held
    <3>2. /\ p \in Pids /\ HeldOK(fwd.st, p \in termed, late[p], group[p])
          /\ GroupOK(run, p \in termed, late[p], group[p]) /\ group[p] \in Group
          /\ termed \subseteq Pids /\ group = [group EXCEPT ![p] = group[p]]
      BY <3>1, Before
    <3>3. late[p] < MaxLate /\ p \notin termed BY <3>1, <3>2 DEF HeldOK
    <3>4. PICK n \in 0..MaxLate : late' = [late EXCEPT ![p] = n]
      BY <2>4, <3>2, <3>3, LeavesItsFileCount
    <3>5. GroupOK(run, FALSE, n, group[p])
      BY <2>1, <2>4, <3>2 DEF GroupOK, HasId
    <3>6. /\ group' = [group EXCEPT ![p] = group[p]] /\ termed' \subseteq Pids
          /\ \A q \in Pids : q \in termed' <=> IF q = p THEN FALSE ELSE q \in termed
      BY <2>4, <3>2, <3>3
    <3>7. fwd' \in Transport /\ fwd'.st \notin Held /\ fwd'.st # "stopping"
      BY <2>1, Resting DEF Held
    <3> HIDE DEF p
    <3> QED BY <2>1, <3>2, <3>4, <3>5, <3>6, <3>7, OneChanges
  <2> QED BY <1>3, <2>2, <2>3, <2>4 DEF Dropped
<1>4. CASE DroppedStopping
  <2> DEFINE h == LeaderKilled(group[p])
             g == Released(h)
  <2>1. /\ fwd.st \in Held /\ fwd' = Gone /\ run = "on" /\ run' = run
        /\ termed' = termed \ {p} /\ group' = [group EXCEPT ![p] = g] /\ late' = late
    BY <1>4 DEF DroppedStopping, Held
  <2>2. /\ p \in Pids /\ group[p] \in Group /\ termed \subseteq Pids
        /\ late[p] \in 0..MaxLate /\ late = [late EXCEPT ![p] = late[p]]
    BY <2>1, Before
  <2>4. h \in Group /\ h.leader # "command" BY <2>2, KilledFields DEF Foreign
  <2> HIDE DEF h
  <2>6. g \in Group /\ g.leader # "command" BY <2>4, ReleasedFields
  <2> HIDE DEF g, p
  <2>7. GroupOK(run, FALSE, late[p], g) BY <2>1, <2>6 DEF GroupOK
  <2>8. /\ termed' \subseteq Pids /\ late' = [late EXCEPT ![p] = late[p]]
        /\ \A q \in Pids : q \in termed' <=> IF q = p THEN FALSE ELSE q \in termed
    BY <2>1, <2>2
  <2>9. fwd' \in Transport /\ fwd'.st \notin Held /\ fwd'.st # "stopping"
    BY <2>1, Resting DEF Held
  <2> QED BY <2>1, <2>2, <2>6, <2>7, <2>8, <2>9, OneChanges
<1> QED BY <1>2, <1>3, <1>4

\* What a stop that is under way does next.
LEMMA StopsKeep == IInv /\ (\E p \in Pids : Stops(p)) => IInv'
<1> SUFFICES ASSUME IInv, NEW p \in Pids, Stops(p) PROVE IInv' OBVIOUS
<1>1. /\ fwd \in Transport /\ group[p] \in Group
      /\ GroupOK(run, p \in termed, late[p], group[p])
      /\ late[p] \in 0..MaxLate /\ late = [late EXCEPT ![p] = late[p]]
      /\ termed \subseteq Pids
      /\ fwd.st \in Held =>
           /\ fwd.pid \in Pids
           /\ HeldOK(fwd.st, fwd.pid \in termed, late[fwd.pid], group[fwd.pid])
      /\ fwd.st = "stopping" => fwd.pid \in termed
  BY Before DEF TypeOK
<1>2. CASE KillGroup(p)
  <2> DEFINE g == GroupKilled(group[p])
  <2>1. /\ run # "off" /\ p \in termed /\ run' = run
        /\ termed' = termed \ {p} /\ group' = [group EXCEPT ![p] = g]
        /\ IF fwd.pid = p
           THEN fwd' = [fwd EXCEPT !.st = "finishing"] /\ UNCHANGED late
           ELSE LeavesItsFile(p) /\ UNCHANGED fwd
    BY <1>2 DEF KillGroup, GraceEnds
  <2>2. g \in Group /\ g.leader = "none" /\ ~g.rest
    BY <1>1, LeftFields DEF GroupKilled, Leaders
  <2> HIDE DEF g
  <2>3. late[p] < MaxLate BY <1>1, <2>1 DEF GroupOK
  <2>4. \A n \in 0..MaxLate : GroupOK(run, FALSE, n, g) BY <2>1, <2>2 DEF GroupOK
  <2>5. /\ termed' \subseteq Pids
        /\ \A q \in Pids : q \in termed' <=> IF q = p THEN FALSE ELSE q \in termed
    BY <1>1, <2>1
  <2>6. CASE fwd.pid = p
    <3>1. fwd.st \in Held BY <1>1, <2>6, FwdPid, NoneAssumption
    <3>2. fwd' \in Transport /\ fwd'.st = "finishing" /\ fwd'.pid = p
      BY <1>1, <2>1, <2>6, <3>1, HeldMoves DEF Held
    <3>3. HeldOK("finishing", FALSE, late[p], g) BY <2>2, <2>3 DEF HeldOK
    <3>4. late' = [late EXCEPT ![p] = late[p]] BY <1>1, <2>1, <2>6
    <3>5. HeldOK(fwd'.st, FALSE, late[p], g) /\ fwd'.st # "stopping" BY <3>2, <3>3
    <3> QED BY <1>1, <2>1, <2>2, <2>4, <2>5, <3>2, <3>4, <3>5, OneChanges
  <2>7. CASE fwd.pid # p
    <3>1. PICK n \in 0..MaxLate : late' = [late EXCEPT ![p] = n]
      BY <2>1, <2>3, <2>7, LeavesItsFileCount
    <3>2. fwd' = fwd BY <2>1, <2>7
    <3> QED BY <1>1, <2>1, <2>2, <2>4, <2>5, <2>7, <3>1, <3>2, OneChanges
  <2> QED BY <2>6, <2>7
<1>3. CASE StopEnds(p)
  <2> DEFINE g == Unrecorded(group[p])
             n == late[p] - 1
  <2>1. /\ run # "off" /\ late[p] > 0 /\ UNCHANGED <<run, fwd, termed>>
        /\ late' = [late EXCEPT ![p] = n] /\ group' = [group EXCEPT ![p] = g]
    BY <1>3 DEF StopEnds
  <2>2. /\ g \in Group /\ g.leader = group[p].leader /\ ~g.file /\ g.rest = group[p].rest
        /\ g.ours = group[p].ours /\ g.written = group[p].written /\ g.alone = group[p].alone
    BY <1>1, UnrecordedFields
  <2>3. n \in 0..MaxLate /\ n < late[p] BY <1>1, <2>1, MaxLateAssumption
  <2> DEFINE t == p \in termed
  <2>6. GroupOK(run, t, late[p], group[p]) BY <1>1
  <2>7. t \in BOOLEAN OBVIOUS
  <2>10. late[p] < MaxLate => n < MaxLate BY <1>1, <2>3, MaxLateAssumption
  <2> HIDE DEF g, n, t
  <2>4. GroupOK(run, t, n, g)
    <3>1. late[p] # 0 BY <1>1, <2>1
    <3>2. ~(g.leader = "command" /\ g.written /\ g.alone)
      BY <2>2, <2>6, <3>1 DEF GroupOK
    <3> QED BY <2>1, <2>2, <2>6, <2>10, <3>2 DEF GroupOK
  <2>5. fwd'.st \in Held => IF fwd'.pid = p THEN HeldOK(fwd'.st, t, n, g) ELSE fwd' = fwd
    <3> SUFFICES ASSUME fwd.st \in Held, fwd.pid = p PROVE HeldOK(fwd.st, t, n, g)
      BY <2>1
    <3>1. HeldOK(fwd.st, t, late[p], group[p]) BY <1>1 DEF t
    <3> QED BY <2>2, <2>10, <3>1 DEF HeldOK
  <2>8. /\ termed' \subseteq Pids
        /\ \A q \in Pids : q \in termed' <=> IF q = p THEN t ELSE q \in termed
        /\ fwd'.st = "stopping" /\ fwd'.pid = p => t
    BY <1>1, <2>1 DEF t
  <2> QED BY <1>1, <2>1, <2>2, <2>3, <2>4, <2>5, <2>7, <2>8, OneChanges
<1> QED BY <1>2, <1>3 DEF Stops

-----------------------------------------------------------------------------
LEMMA SpecIInv == Spec => []IInv
<1>1. IInv /\ [Next]_vars => IInv'
  <2> SUFFICES ASSUME IInv, [Next]_vars PROVE IInv' OBVIOUS
  <2>1. CASE UNCHANGED vars
    BY <2>1 DEF IInv, TypeOK, vars
  <2>2. CASE Next
    BY <2>2, AppKeeps, ProcessesKeep, SupervisorKeeps, DropsKeep, StopsKeep DEF Next
  <2> QED BY <2>1, <2>2
<1> QED BY <1>1, InitIInv, PTL DEF Spec

\* Every reachable state has its type.
THEOREM SpecTypeOK == Spec => []TypeOK
<1>1. IInv => TypeOK BY DEF IInv
<1> QED BY <1>1, SpecIInv, PTL

\* Whatever is dropped, stopped, swept or killed, a command that runs has its pid
\* file, if that could be written and no earlier group of its pid had one to drop when
\* it was spawned (Running::stop, PidFile).
THEOREM SpecNoCommandIsLost == Spec => []NoCommandIsLost
<1>1. IInv => NoCommandIsLost BY DEF IInv, GroupOK, NoCommandIsLost
<1> QED BY <1>1, SpecIInv, PTL

\* What is signalled is killed whole, unless the transport or the app ends first
\* (Running::stop).
LEMMA SignalledAreKilled ==
  ASSUME IInv, Next, NEW p \in termed, p \notin termed'
  PROVE  \/ group'[p].leader = "none" /\ ~group'[p].rest
         \/ fwd.pid = p /\ fwd' = Gone
         \/ run' = "off"
<1>1. p \in Pids /\ group \in [Pids -> Group] /\ group[p] \in Group BY Before
<1>2. \A q \in Pids : Terms(q) => p \in termed' BY DEF Terms
<1>3. ~App \/ Ends BY DEF App, Start, QuitSweep
<1>4. ~Processes BY DEF Processes, RestStarts, RestExits, LeaderExits, OtherStarts
<1>5. ~Supervisor /\ ~Acquire
  BY DEF Supervisor, PortAnswers, StartTimesOut, SeesExit, HealthCheckFails, Reconnect,
         StopReturns, Spawn, Acquire, Terms
<1>6. ~Dropped BY DEF Dropped, Terms
<1>7. CASE Ends BY <1>7 DEF Ends
<1>8. CASE DroppedStopping BY <1>8 DEF DroppedStopping
<1>9. ASSUME NEW q \in Pids, Stops(q)
      PROVE  group'[p].leader = "none" /\ ~group'[p].rest
  <2>1. KillGroup(q) /\ q = p BY <1>9 DEF Stops, StopEnds, KillGroup, GraceEnds
  <2>2. group'[p] = Left(group[p], "none", FALSE) BY <1>1, <2>1 DEF KillGroup, GroupKilled
  <2>3. "none" \in Leaders BY DEF Leaders
  <2>4. /\ Left(group[p], "none", FALSE).leader = "none"
        /\ ~Left(group[p], "none", FALSE).rest
    BY <1>1, <2>3, LeftFields
  <2> QED BY <2>2, <2>4
<1> QED BY <1>3, <1>4, <1>5, <1>6, <1>7, <1>8, <1>9 DEF Next

THEOREM SpecSignalledGroupsAreKilled == Spec => SignalledGroupsAreKilled
<1> DEFINE A == /\ \A p \in termed : p \notin termed' =>
                     \/ group'[p].leader = "none" /\ ~group'[p].rest
                     \/ fwd.pid = p /\ fwd' = Gone
                     \/ run' = "off"
                /\ fwd.st = "finishing" => ~group[fwd.pid].rest
<1>1. IInv /\ [Next]_vars => [A]_vars
  <2> SUFFICES ASSUME IInv, Next PROVE A BY DEF vars
  <2>1. fwd.st = "finishing" => ~group[fwd.pid].rest BY DEF IInv, Held, HeldOK
  <2> QED BY <2>1, SignalledAreKilled
<1> QED BY <1>1, SpecIInv, PTL DEF Spec, SignalledGroupsAreKilled

\* What happens to a pid that somebody else has.
LEMMA OtherStays ==
  ASSUME IInv, Next, NEW p \in Pids, group[p].leader \in Foreign, ~LeaderExits(p),
         ~TakenForCommand(p)
  PROVE  group'[p].leader = group[p].leader
<1> DEFINE Stays == group'[p].leader = group[p].leader
<1>1. /\ TypeOK /\ group[p] \in Group
      /\ group \in [Pids -> Group] /\ fwd \in Transport
      /\ \A q \in Pids : \A g : p # q /\ group' = [group EXCEPT ![q] = g] => Stays
      /\ \A g : group' = [group EXCEPT ![p] = g] /\ g.leader = group[p].leader => Stays
      /\ UNCHANGED group => Stays
  BY Before
<1>2. /\ Unrecorded(group[p]).leader = group[p].leader
      /\ Released(group[p]).leader = group[p].leader
      /\ Reaped(group[p]).leader = group[p].leader
      /\ LeaderKilled(group[p]).leader = group[p].leader
      /\ Released(LeaderKilled(group[p])).leader = group[p].leader
  <2>1. group[p].leader # "zombie" BY DEF Foreign
  <2>2. LeaderKilled(group[p]) \in Group /\ LeaderKilled(group[p]).leader = group[p].leader
    BY <1>1, KilledFields
  <2> QED BY <1>1, <2>1, <2>2, KilledFields, UnrecordedFields, ReleasedFields
<1>3. group[p].leader \notin {"none", "command", "zombie"} BY DEF Foreign
<1>4. \A q \in Pids : GroupOK(run, q \in termed, late[q], group[q]) BY DEF IInv
<1>5. fwd.st \in Held => fwd.pid \in Pids BY Before
<1>7. CASE App
  <2>1. CASE Start
    <3>1. ~Matches(group[p], FALSE) BY <1>3, <2>1 DEF Matches, TakenForCommand
    <3> QED BY <1>1, <2>1, <3>1, SweptFields DEF Start
  <2>2. CASE QuitSweep
    <3>1. ~Matches(group[p], TRUE) BY <1>3, <2>2 DEF Matches, TakenForCommand
    <3> QED BY <1>1, <2>2, <3>1, SweptFields DEF QuitSweep
  <2>3. CASE Ends
    <3>1. group'[p] = Orphaned(group[p]) BY <2>3 DEF Ends
    <3> QED BY <1>1, <1>3, <3>1, OrphanedFields
  <2> QED BY <1>7, <2>1, <2>2, <2>3 DEF App
<1>8. CASE Processes
  <2>1. PICK q \in Pids : RestStarts(q) \/ RestExits(q) \/ LeaderExits(q) \/ OtherStarts(q)
    BY <1>8 DEF Processes
  <2>2. CASE q # p
    BY <1>1, <2>1, <2>2 DEF RestStarts, RestExits, LeaderExits, OtherStarts
  <2>3. CASE q = p
    <3>1. RestExits(p) BY <1>3, <2>1, <2>3 DEF RestStarts, OtherStarts, Unused
    <3>2. group' = [group EXCEPT ![p] = Left(group[p], group[p].leader, FALSE)]
      BY <3>1 DEF RestExits
    <3>3. Left(group[p], group[p].leader, FALSE).leader = group[p].leader
      BY <1>1, LeftFields, LeadersAre DEF Group
    <3> QED BY <1>1, <3>2, <3>3
  <2> QED BY <2>2, <2>3
<1>9. CASE Supervisor
  <2>1. CASE PortAnswers \/ StartTimesOut
    BY <1>1, <2>1 DEF PortAnswers, StartTimesOut, Terms
  <2>2. CASE SeesExit \/ HealthCheckFails
    <3>1. /\ fwd.pid \in Pids
          /\ group' = [group EXCEPT ![fwd.pid] = Reaped(group[fwd.pid])]
      BY <1>5, <2>2 DEF SeesExit, HealthCheckFails, Supervised, Held
    <3> QED BY <1>1, <1>2, <3>1
  <2>3. CASE Reconnect \/ StopReturns
    <3>1. /\ fwd.pid \in Pids
          /\ \/ group' = [group EXCEPT ![fwd.pid] = Released(group[fwd.pid])]
             \/ UNCHANGED group
      BY <1>5, <2>3 DEF Reconnect, StopReturns, Supervised, Held, Terms
    <3> QED BY <1>1, <1>2, <3>1
  <2>5. ASSUME NEW q \in Pids, Spawn(q) PROVE Stays
    <3>1. q # p BY <1>3, <2>5 DEF Spawn, Unused
    <3> QED BY <1>1, <2>5, <3>1 DEF Spawn
  <2> QED BY <1>9, <2>1, <2>2, <2>3, <2>5 DEF Supervisor
<1>10. CASE Acquire \/ Dropped BY <1>1, <1>10 DEF Acquire, Dropped, Terms
<1>12. CASE DroppedStopping
  <2>1. /\ group' = [group EXCEPT ![fwd.pid] = Released(LeaderKilled(group[fwd.pid]))]
        /\ fwd.pid \in Pids
    BY <1>5, <1>12 DEF DroppedStopping, Held
  <2> QED BY <1>1, <1>2, <2>1
<1>13. ASSUME NEW q \in Pids, Stops(q) PROVE Stays
  <2>1. CASE KillGroup(q)
    <3>1. q # p BY <1>3, <1>4, <2>1 DEF KillGroup, GraceEnds, GroupOK
    <3> QED BY <1>1, <2>1, <3>1 DEF KillGroup
  <2>2. CASE StopEnds(q)
    BY <1>1, <1>2, <2>2 DEF StopEnds
  <2> QED BY <1>13, <2>1, <2>2 DEF Stops
<1> QED BY <1>7, <1>8, <1>9, <1>10, <1>12, <1>13 DEF Next

\* No stop and no sweep ends a process of somebody else, but for the namesake that
\* has the parent a sweep looks for (sweep_dir, stop).
THEOREM SpecOthersAreSpared == Spec => OthersAreSpared
<1> DEFINE A == \A p \in Pids :
       group[p].leader \in Foreign /\ ~LeaderExits(p) /\ ~TakenForCommand(p)
         => group'[p].leader = group[p].leader
<1>1. IInv /\ [Next]_vars => [A]_vars
  BY OtherStays
<1> QED BY <1>1, SpecIInv, PTL DEF Spec, OthersAreSpared

\* Stops signal the whole of a command's group, and nobody else.
THEOREM SpecSignalsReachTheirGroup == Spec => SignalsReachTheirGroup
  BY SpecSignalledGroupsAreKilled, SpecOthersAreSpared DEF SignalsReachTheirGroup
=============================================================================
