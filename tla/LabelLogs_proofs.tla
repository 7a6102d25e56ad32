---------------------------- MODULE LabelLogs_proofs ----------------------------
(***************************************************************************)
(* That the streams of a panel are those it wants, of the instances its    *)
(* table shows, and that the view has a container's instances one after    *)
(* the other and what the streams of each send in order and once, unless   *)
(* the app's clock is behind the node's: for any containers, clocks,       *)
(* selectors, namespaces and filters, any cap on the streams, any tail and *)
(* any capacity of their channels.                                         *)
(***************************************************************************)
EXTENDS LabelLogs, FiniteSetTheorems, TLAPS

\* What a stream is to the table and the panel.
Follows(s, c, t, p) ==
  /\ s # None <=> c \in Wanted(t, p)
  /\ s # None => s.run = t[c].run /\ Len(s.queue) <= Capacity

\* The variables a panel's handler and a stream's step change, and their types.
Table == [Containers -> [run : Runs, state : States]]
StreamsOK == stream \in [Containers -> Stream \cup {None}]
StoppedOK == stopped \in [Instance -> Int \cup {None}]
RestOK ==
  /\ second \in 0..MaxSecond
  /\ server \in [Containers -> [run : Runs, state : States, log : [Runs -> Seq(Line)]]]

IInv ==
  /\ RestOK /\ table \in Table /\ panel \in Panel /\ StreamsOK /\ StoppedOK
  /\ \A c \in Containers : Follows(stream[c], c, table, panel)

LEMMA IInvIsWhatIsClaimed == IInv => StreamsAreWanted
BY DEF IInv, StreamsAreWanted, TypeOK, RestOK, Table, StreamsOK, StoppedOK, Follows

-----------------------------------------------------------------------------
(* Opening and keeping streams.                                             *)

\* A stream that is opened is of the instance the table shows, and has sent nothing.
LEMMA OpenedStream ==
  ASSUME NEW t \in Table, NEW p, NEW c \in Containers,
         NEW at \in Int \cup {None}
  PROVE  /\ Opened(c, t, p, at) \in Stream
         /\ Opened(c, t, p, at) # None
         /\ Opened(c, t, p, at).run = t[c].run
         /\ Len(Opened(c, t, p, at).queue) <= Capacity
<1>1. t[c] \in [run : Runs, state : States]  BY DEF Table
<1>2. Tag(t, p, c) \in TagsOf  BY DEF Tag, TagsOf, Pods, Names
<1>3. Since(at) \in Int \cup {None}
  BY DEF Since
<1>4. <<>> \in Seq(Nat) /\ Len(<<>>) = 0  OBVIOUS
<1>5. Opened(c, t, p, at) \in Stream
  BY <1>1, <1>2, <1>3, <1>4 DEF Opened, Stream, Runs
<1> QED  BY <1>1, <1>4, <1>5, NoneAssumption, BoundsAssumption DEF Opened

\* A sync leaves the streams wanted, of the instances shown.
LEMMA SyncFollows ==
  ASSUME IInv, NEW t \in Table, NEW p \in Panel, Sync(t, p)
  PROVE  /\ StreamsOK' /\ StoppedOK'
         /\ \A c \in Containers : Follows(stream'[c], c, t, p)
<1>1. ASSUME NEW c \in Containers
      PROVE  /\ stream'[c] \in Stream \cup {None}
             /\ Follows(stream'[c], c, t, p)
  <2>1. stopped[<<c, t[c].run>>] \in Int \cup {None}
    BY DEF IInv, StoppedOK, Instance, Table
  <2>2. stream[c] \in Stream \cup {None} /\ Follows(stream[c], c, table, panel)
    BY DEF IInv, StreamsOK
  <2>3. stream'[c] = IF Keeps(c, t, p) THEN stream[c]
                     ELSE IF c \in Wanted(t, p)
                          THEN Opened(c, t, p, stopped[<<c, t[c].run>>]) ELSE None
    BY DEF Sync
  <2>4. CASE Keeps(c, t, p)
    BY <2>2, <2>3, <2>4 DEF Keeps, Follows
  <2>5. CASE ~Keeps(c, t, p) /\ c \in Wanted(t, p)
    <3> DEFINE o == Opened(c, t, p, stopped[<<c, t[c].run>>])
    <3>1. o \in Stream /\ o # None /\ o.run = t[c].run /\ Len(o.queue) <= Capacity
      BY <2>1, OpenedStream
    <3>2. stream'[c] = o  BY <2>3, <2>5
    <3> HIDE DEF o
    <3> QED  BY <2>5, <3>1, <3>2 DEF Follows
  <2>6. CASE ~Keeps(c, t, p) /\ c \notin Wanted(t, p)
    BY <2>3, <2>6 DEF Follows
  <2> QED  BY <2>4, <2>5, <2>6
<1>2. StreamsOK'
  BY <1>1 DEF Sync, StreamsOK
<1>3. StoppedOK'
  <2>1. second \in Int  BY BoundsAssumption DEF IInv, RestOK
  <2>2. \A i \in Instance : second + Skew[i[1]] \in Int
    BY <2>1, SkewAssumption DEF Instance
  <2> QED  BY <2>2 DEF Sync, StoppedOK, IInv
<1> QED  BY <1>1, <1>2, <1>3

\* Without a selector nothing is wanted.
LEMMA NothingPicked ==
  ASSUME NEW t, NEW p, p.selector = None
  PROVE  Wanted(t, p) = {}
BY DEF Wanted, Picked

LEMMA SyncIfSelectedFollows ==
  ASSUME IInv, NEW p \in Panel, SyncIfSelected(p), p.selector = panel.selector
  PROVE  /\ StreamsOK' /\ StoppedOK'
         /\ \A c \in Containers : Follows(stream'[c], c, table, p)
<1>1. CASE p.selector # None
  BY <1>1, SyncFollows DEF IInv, SyncIfSelected
<1>2. CASE p.selector = None
  <2>1. Wanted(table, p) = {} /\ Wanted(table, panel) = {}
    BY <1>2, NothingPicked
  <2>2. UNCHANGED <<stream, stopped>>  BY <1>2 DEF SyncIfSelected
  <2> QED  BY <2>1, <2>2 DEF IInv, StreamsOK, StoppedOK, Follows
<1> QED  BY <1>1, <1>2

LEMMA Never == NeverStopped \in [Instance -> Int \cup {None}]
BY DEF NeverStopped

-----------------------------------------------------------------------------
(* The steps of one stream change it in its place.                          *)

LEMMA StreamMoves ==
  ASSUME IInv, NEW c \in Containers, NEW s \in Stream, stream[c] # None,
         s.run = stream[c].run, Len(s.queue) <= Capacity,
         stream' = [stream EXCEPT ![c] = s],
         UNCHANGED <<second, server, table, panel, stopped>>
  PROVE  IInv'
<1>1. StreamsOK'  BY DEF IInv, StreamsOK
<1>2. ASSUME NEW d \in Containers  PROVE Follows(stream'[d], d, table, panel)
  <2>1. Follows(stream[d], d, table, panel)  BY DEF IInv
  <2>2. s # None  BY NoneAssumption
  <2>3. stream'[d] = IF d = c THEN s ELSE stream[d]  BY DEF IInv, StreamsOK
  <2> QED  BY <2>1, <2>2, <2>3 DEF Follows
<1>3. RestOK' /\ table' \in Table /\ panel' \in Panel /\ StoppedOK'
  BY DEF IInv, RestOK, StoppedOK
<1>4. UNCHANGED <<table, panel>>  OBVIOUS
<1> QED  BY <1>1, <1>2, <1>3, <1>4 DEF IInv, Follows

LEMMA StreamTyped ==
  ASSUME IInv, NEW c \in Containers, stream[c] # None
  PROVE  stream[c] \in Stream /\ Len(stream[c].queue) <= Capacity
BY DEF IInv, StreamsOK, Follows

\* A stream with room takes one more line, or its end.
LEMMA Queued ==
  ASSUME IInv, NEW c \in Containers, stream[c] # None, HasRoom(c), NEW n \in Nat
  PROVE  /\ Append(stream[c].queue, n) \in Seq(Nat)
         /\ Len(Append(stream[c].queue, n)) <= Capacity
<1>1. stream[c].queue \in Seq(Nat)  BY StreamTyped DEF Stream
<1>2. Len(stream[c].queue) < Capacity  BY DEF HasRoom
<1> QED  BY <1>1, <1>2, BoundsAssumption

\* Where a request starts is a line of the log, or the one after its last.
LEMMA FirstLine ==
  ASSUME NEW log \in Seq(Line), NEW since
  PROVE  (IF since = None THEN (IF Len(log) > TailLines THEN Len(log) + 1 - TailLines ELSE 1)
          ELSE 1 + Cardinality({i \in DOMAIN log : log[i].second < since})) \in Nat
<1>1. DOMAIN log = 1..Len(log) /\ Len(log) \in Nat  OBVIOUS
<1> DEFINE D == {i \in DOMAIN log : log[i].second < since}
<1>2. IsFiniteSet(DOMAIN log)  BY <1>1, FS_Interval
<1>3. D \subseteq DOMAIN log  OBVIOUS
<1>4. IsFiniteSet(D)  BY <1>2, <1>3, FS_Subset
<1>5. Cardinality(D) \in Nat  BY <1>4, FS_CardinalityType
<1> QED  BY <1>1, <1>5, BoundsAssumption

-----------------------------------------------------------------------------
LEMMA InitIInv == Init => IInv
<1> SUFFICES ASSUME Init PROVE IInv  OBVIOUS
<1>1. RestOK
  BY BoundsAssumption DEF Init, RestOK, Runs, States
<1>2. table \in Table  BY DEF Init, Table, Runs, States
<1>3. panel \in Panel /\ panel.selector = None  BY DEF Init, Panel
<1>4. StreamsOK /\ StoppedOK
  BY Never DEF Init, StreamsOK, StoppedOK, NoStreams
<1>5. ASSUME NEW c \in Containers  PROVE Follows(stream[c], c, table, panel)
  BY <1>3, NothingPicked DEF Init, NoStreams, Follows
<1> QED  BY <1>1, <1>2, <1>3, <1>4, <1>5 DEF IInv

LEMMA PanelKeeps ==
  ASSUME IInv, PanelStep
  PROVE  IInv'
<1>1. ASSUME NEW pods \in Selectors, Select(pods)  PROVE IInv'
  <2>1. panel' \in Panel
    <3>1. panel' = [panel EXCEPT !.selector = pods]  BY <1>1 DEF Select
    <3> QED  BY <3>1, BoundsAssumption DEF IInv, Panel
  <2>2. stream' = [c \in Containers |->
          IF c \in Wanted(table, panel') THEN Opened(c, table, panel', None) ELSE None]
    BY <1>1 DEF Select
  <2>3. ASSUME NEW c \in Containers
        PROVE  /\ stream'[c] \in Stream \cup {None}
               /\ Follows(stream'[c], c, table, panel')
    <3>1. table \in Table  BY DEF IInv
    <3>2. CASE c \in Wanted(table, panel')
      <4> DEFINE o == Opened(c, table, panel', None)
      <4>1. None \in Int \cup {None}  OBVIOUS
      <4>2. o \in Stream /\ o # None /\ o.run = table[c].run /\ Len(o.queue) <= Capacity
        BY <3>1, <4>1, OpenedStream
      <4>3. stream'[c] = o  BY <2>2, <3>2
      <4> HIDE DEF o
      <4> QED  BY <3>2, <4>2, <4>3 DEF Follows
    <3>3. CASE c \notin Wanted(table, panel')
      <4>1. stream'[c] = None  BY <2>2, <3>3
      <4> QED  BY <3>3, <4>1 DEF Follows
    <3> QED  BY <3>2, <3>3
  <2>4. StreamsOK'  BY <2>2, <2>3 DEF StreamsOK
  <2>5. StoppedOK'  BY <1>1, Never DEF Select, StoppedOK
  <2>6. UNCHANGED <<second, server, table>>  BY <1>1 DEF Select
  <2> QED  BY <2>1, <2>3, <2>4, <2>5, <2>6 DEF IInv, RestOK, Follows
<1>2. ASSUME Reset  PROVE IInv'
  <2>1. panel' = [panel EXCEPT !.selector = None, !.filter = None]  BY <1>2 DEF Reset
  <2>2. panel' \in Panel /\ panel'.selector = None  BY <2>1 DEF IInv, Panel
  <2>3. stream' = [c \in Containers |-> None]  BY <1>2 DEF Reset, NoStreams
  <2>4. ASSUME NEW c \in Containers  PROVE Follows(stream'[c], c, table, panel')
    BY <2>2, <2>3, NothingPicked DEF Follows
  <2>5. StreamsOK' /\ StoppedOK'
    BY <1>2, <2>3, Never DEF Reset, StreamsOK, StoppedOK
  <2>6. UNCHANGED <<second, server, table>>  BY <1>2 DEF Reset
  <2> QED  BY <2>2, <2>4, <2>5, <2>6 DEF IInv, RestOK, Follows
<1>3. ASSUME NEW name \in Filters, SetContainerFilter(name)  PROVE IInv'
  <2>1. panel' = [panel EXCEPT !.filter = name]  BY <1>3 DEF SetContainerFilter
  <2>2. panel' \in Panel /\ panel'.selector = panel.selector
    BY <2>1, BoundsAssumption DEF IInv, Panel
  <2>3. /\ StreamsOK' /\ StoppedOK'
        /\ \A c \in Containers : Follows(stream'[c], c, table, panel')
    BY <1>3, <2>2, SyncIfSelectedFollows DEF SetContainerFilter
  <2>4. UNCHANGED <<second, server, table>>  BY <1>3 DEF SetContainerFilter
  <2> QED  BY <2>2, <2>3, <2>4 DEF IInv, RestOK, Follows
<1>4. ASSUME NEW namespaces \in Scopes, SetNamespaces(namespaces)  PROVE IInv'
  <2>1. panel' = [panel EXCEPT !.namespaces = namespaces]  BY <1>4 DEF SetNamespaces
  <2>2. panel' \in Panel /\ panel'.selector = panel.selector
    BY <2>1, BoundsAssumption DEF IInv, Panel
  <2>3. /\ StreamsOK' /\ StoppedOK'
        /\ \A c \in Containers : Follows(stream'[c], c, table, panel')
    BY <1>4, <2>2, SyncIfSelectedFollows DEF SetNamespaces
  <2>4. UNCHANGED <<second, server, table>>  BY <1>4 DEF SetNamespaces
  <2> QED  BY <2>2, <2>3, <2>4 DEF IInv, RestOK, Follows
<1> QED  BY <1>1, <1>2, <1>3, <1>4 DEF PanelStep

LEMMA TableKeeps ==
  ASSUME IInv, NEW c \in Containers, TableShows(c)
  PROVE  IInv'
<1>1. server[c] \in [run : Runs, state : States, log : [Runs -> Seq(Line)]]
  BY DEF IInv, RestOK
<1>2. table' = [table EXCEPT ![c] = [run |-> server[c].run, state |-> server[c].state]]
  BY DEF TableShows
<1>3. table' \in Table  BY <1>1, <1>2 DEF IInv, Table
<1>4. Sync(table', panel) /\ UNCHANGED <<second, server, panel>>  BY DEF TableShows
<1>5. /\ StreamsOK' /\ StoppedOK'
      /\ \A d \in Containers : Follows(stream'[d], d, table', panel)
  BY <1>3, <1>4, SyncFollows DEF IInv
<1> QED  BY <1>3, <1>4, <1>5 DEF IInv, RestOK, Follows

LEMMA StreamKeeps ==
  ASSUME IInv, NEW c \in Containers,
         Answers(c) \/ Sends(c) \/ Ends(c) \/ Fails(c) \/ Shows(c)
  PROVE  IInv'
<1>1. stream[c] # None  BY DEF Answers, Sends, Ends, Fails, Shows, Reading
<1>2. stream[c] \in Stream /\ Len(stream[c].queue) <= Capacity  BY <1>1, StreamTyped
<1>3. UNCHANGED <<second, server, table, panel, stopped>>
  BY DEF Answers, Sends, Ends, Fails, Shows
<1>4. SUFFICES ASSUME NEW s \in Stream, s.run = stream[c].run, Len(s.queue) <= Capacity,
                      stream' = [stream EXCEPT ![c] = s]
               PROVE  IInv'
  <2>1. CASE Answers(c)
    <3> DEFINE log == server[c].log[server[c].run]
               since == stream[c].since
               first == IF since = None
                        THEN (IF Len(log) > TailLines THEN Len(log) + 1 - TailLines ELSE 1)
                        ELSE 1 + Cardinality({i \in DOMAIN log : log[i].second < since})
               s == [stream[c] EXCEPT !.stage = "reading", !.of = server[c].run,
                       !.next = first, !.last = Len(log)]
    <3>1. server[c] \in [run : Runs, state : States, log : [Runs -> Seq(Line)]]
      BY DEF IInv, RestOK
    <3>2. log \in Seq(Line)  BY <3>1
    <3>3. first \in Nat /\ Len(log) \in Nat
      <4>1. Len(log) \in Nat  BY <3>2
      <4> HIDE DEF log, since
      <4>2. first \in Nat  BY <3>2, FirstLine DEF first
      <4> QED  BY <4>1, <4>2
    <3>4. stream' = [stream EXCEPT ![c] = s]  BY <2>1 DEF Answers, IInv, StreamsOK
    <3> HIDE DEF first, log
    <3>5. s \in Stream /\ s.run = stream[c].run /\ s.queue = stream[c].queue
      BY <1>2, <3>1, <3>3 DEF Stream
    <3> QED  BY <1>2, <1>4, <3>4, <3>5
  <2>2. CASE Sends(c)
    <3> DEFINE q == Append(stream[c].queue, stream[c].next)
               n == stream[c].next + 1
               s == [stream[c] EXCEPT !.next = n, !.queue = q]
    <3>1. stream[c].next \in Nat /\ HasRoom(c)  BY <1>2, <2>2 DEF Stream, Sends
    <3>2. stream' = [stream EXCEPT ![c] = s]  BY <2>2 DEF Sends
    <3>3. q \in Seq(Nat) /\ Len(q) <= Capacity /\ n \in Nat
      BY <1>1, <3>1, Queued
    <3> HIDE DEF q, n
    <3>4. s \in Stream /\ s.run = stream[c].run /\ s.queue = q
      BY <1>2, <3>3 DEF Stream
    <3> HIDE DEF s
    <3> QED  BY <1>4, <3>2, <3>3, <3>4
  <2>3. CASE Ends(c)
    <3> DEFINE s == [stream[c] EXCEPT !.stage = "ended", !.queue = Append(@, 0)]
    <3>1. HasRoom(c)  BY <2>3 DEF Ends
    <3>2. stream' = [stream EXCEPT ![c] = s]  BY <2>3 DEF Ends
    <3>3. /\ Append(stream[c].queue, 0) \in Seq(Nat)
          /\ Len(Append(stream[c].queue, 0)) <= Capacity
      BY <1>1, <3>1, Queued
    <3>4. s \in Stream /\ s.run = stream[c].run /\ s.queue = Append(stream[c].queue, 0)
      BY <1>2, <3>3 DEF Stream
    <3> HIDE DEF s
    <3> QED  BY <1>4, <3>2, <3>3, <3>4
  <2>4. CASE Fails(c)
    <3> DEFINE s == [stream[c] EXCEPT !.stage = "failed", !.queue = Append(@, 0)]
    <3>1. HasRoom(c)  BY <2>4 DEF Fails
    <3>2. stream' = [stream EXCEPT ![c] = s]  BY <2>4 DEF Fails
    <3>3. /\ Append(stream[c].queue, 0) \in Seq(Nat)
          /\ Len(Append(stream[c].queue, 0)) <= Capacity
      BY <1>1, <3>1, Queued
    <3>4. s \in Stream /\ s.run = stream[c].run /\ s.queue = Append(stream[c].queue, 0)
      BY <1>2, <3>3 DEF Stream
    <3> HIDE DEF s
    <3> QED  BY <1>4, <3>2, <3>3, <3>4
  <2>5. CASE Shows(c)
    <3> DEFINE q == stream[c].queue
               s == [stream[c] EXCEPT !.queue = Tail(@)]
    <3>1. q \in Seq(Nat) /\ q # <<>>  BY <1>2, <2>5 DEF Stream, Shows
    <3>2. Tail(q) \in Seq(Nat) /\ Len(Tail(q)) = Len(q) - 1 /\ Len(q) \in Nat
      BY <3>1
    <3>3. stream' = [stream EXCEPT ![c] = s]  BY <2>5 DEF Shows
    <3>4. s \in Stream /\ s.run = stream[c].run /\ s.queue = Tail(q)
      BY <1>2, <3>2 DEF Stream
    <3>5. Len(s.queue) <= Capacity
      BY <1>2, <3>2, <3>4, BoundsAssumption
    <3> HIDE DEF s
    <3> QED  BY <1>4, <3>3, <3>4, <3>5
  <2> QED  BY <2>1, <2>2, <2>3, <2>4, <2>5
<1> QED  BY <1>1, <1>3, <1>4, StreamMoves

\* What happens in the cluster is nothing to the panel until its table shows it.
LEMMA ClusterKeeps ==
  ASSUME IInv, NEW c \in Containers,
         Starts(c) \/ Writes(c) \/ Terminates(c) \/ Deleted(c)
  PROVE  IInv'
<1>1. UNCHANGED <<second, table, panel, stream, stopped>>
  BY DEF Starts, Writes, Terminates, Deleted
<1> DEFINE Server == [run : Runs, state : States, log : [Runs -> Seq(Line)]]
<1>2. server \in [Containers -> Server] /\ second \in 0..MaxSecond  BY DEF IInv, RestOK
<1>3. server' \in [Containers -> Server]
  <2>1. CASE Starts(c)
    <3>1. PICK run \in Runs :
            server' = [server EXCEPT ![c].state = "running", ![c].run = run]
      BY <2>1 DEF Starts
    <3> QED  BY <1>2, <3>1 DEF States
  <2>2. CASE Writes(c)
    <3>1. [second |-> second, colour |-> c \in Coloured] \in Line
      BY <1>2, BoundsAssumption DEF Line
    <3>2. server' = [server EXCEPT ![c].log[server[c].run] =
            Append(@, [second |-> second, colour |-> c \in Coloured])]
      BY <2>2 DEF Writes
    <3>3. server[c] \in Server  BY <1>2
    <3>4. Append(server[c].log[server[c].run],
                 [second |-> second, colour |-> c \in Coloured]) \in Seq(Line)
      BY <3>1, <3>3
    <3> QED  BY <1>2, <3>2, <3>3, <3>4
  <2>3. CASE Terminates(c)
    BY <1>2, <2>3 DEF Terminates, States
  <2>4. CASE Deleted(c)
    <3>1. server' = [server EXCEPT ![c].state = "waiting", ![c].run = @ + 1]
          /\ server[c].run = 0
      BY <2>4 DEF Deleted
    <3> QED  BY <1>2, <3>1 DEF States, Runs
  <2> QED  BY <2>1, <2>2, <2>3, <2>4
<1> QED  BY <1>1, <1>3 DEF IInv, RestOK, StreamsOK, StoppedOK, Follows, Wanted, Picked

LEMMA StepIInv == IInv /\ [Next]_vars => IInv'
<1> SUFFICES ASSUME IInv, [Next]_vars PROVE IInv'  OBVIOUS
<1>1. CASE PanelStep  BY <1>1, PanelKeeps
<1>2. CASE ContainerStep
  BY <1>2, TableKeeps, StreamKeeps, ClusterKeeps DEF ContainerStep
<1>3. CASE Ticks
  <2>1. UNCHANGED <<server, table, panel, stream, stopped>> /\ second' \in 0..MaxSecond
    BY <1>3, BoundsAssumption DEF Ticks, IInv, RestOK
  <2> QED
    BY <2>1 DEF IInv, RestOK, StreamsOK, StoppedOK, Follows, Wanted, Picked
<1>4. CASE UNCHANGED vars
  BY <1>4 DEF vars, IInv, RestOK, StreamsOK, StoppedOK, Follows, Wanted, Picked
<1> QED  BY <1>1, <1>2, <1>3, <1>4 DEF Next

\* After every handler of the panel, a stream runs for exactly the containers it
\* wants, and of the instance its table shows (sync_labels), whatever the order of
\* pod updates and the panel's controls.
THEOREM SpecStreamsAreWanted == Spec => []StreamsAreWanted
<1>1. Spec => []IInv  BY InitIInv, StepIInv, PTL DEF Spec
<1> QED  BY <1>1, IInvIsWhatIsClaimed, PTL

-----------------------------------------------------------------------------
(* The lines of the view.  A stream that comes back asks for the lines from *)
(* the second after its drop on, and logs are in the order of time: what it *)
(* reads is behind what the view has of its instance.                       *)

ShownLine ==
  [container : Containers, run : Runs, of : Runs, n : Nat, begins : Containers \cup {None}]

ViewOK ==
  /\ view = [lines |-> view.lines, colours |-> view.colours]
  /\ view.lines \in Seq(ShownLine)
  /\ \A tag \in DOMAIN view.colours : view.colours[tag] \in Containers \cup {None}

\* A log as of now: in the order of time.
LogOK(log, now) ==
  /\ \A i \in DOMAIN log : log[i].second <= now
  /\ \A i, j \in DOMAIN log : i <= j => log[i].second <= log[j].second

\* The lines shown of c.
LinesOf(lines, c) == {i \in DOMAIN lines : lines[i].container = c}

Written_at(a, srv) == srv.log[a.of][a.n].second

\* What stream s of c has sent and is about to read comes after what is shown.
Ahead(s, c, lines, srv) ==
  /\ s.of <= srv.run
  /\ \A i \in DOMAIN s.queue : s.queue[i] # 0 =>
       /\ s.queue[i] \in DOMAIN srv.log[s.of]
       /\ \A j \in DOMAIN s.queue : i < j /\ s.queue[j] # 0 => s.queue[i] < s.queue[j]
       /\ \A k \in LinesOf(lines, c) : Precedes(lines[k], s.run, s.of, s.queue[i])
       /\ s.stage = "reading" => s.queue[i] < s.next
  /\ s.stage = "asking" =>
       /\ s.queue = <<>>
       /\ \A k \in LinesOf(lines, c) : lines[k].run = s.run /\ Skew[c] >= 0 =>
            s.since # None /\ Written_at(lines[k], srv) < s.since
  /\ s.stage = "reading" =>
       /\ s.next >= 1
       /\ \A k \in LinesOf(lines, c) : Precedes(lines[k], s.run, s.of, s.next)

\* A line shown is in its log; if its instance has no stream any more, it was
\* written by the time that was dropped, if the clock is not behind; and the table
\* has not gone back since.
Known(a, srv) == a.of <= srv.run /\ a.n \in DOMAIN srv.log[a.of]
LeftAt(a, s, srv, at) ==
  (s = None \/ s.run # a.run) /\ Skew[a.container] >= 0 =>
    at # None /\ Written_at(a, srv) <= at

TablesOK == \A c \in Containers : table[c].run <= server[c].run
LogsOK == \A c \in Containers, r \in Runs : LogOK(server[c].log[r], second)
StreamsAhead ==
  \A c \in Containers : stream[c] # None => Ahead(stream[c], c, view.lines, server[c])
LineOK(a) ==
  /\ Known(a, server[a.container]) /\ a.run <= table[a.container].run
  /\ LeftAt(a, stream[a.container], server[a.container], stopped[<<a.container, a.run>>])
LinesOK == \A i \in DOMAIN view.lines : LineOK(view.lines[i])

OrderInv ==
  /\ IInv /\ ViewOK
  /\ TablesOK /\ LogsOK /\ StreamsAhead /\ LinesOK
  /\ ViewInOrder

-----------------------------------------------------------------------------
\* A line written before since is before the first of the lines since then.
LEMMA CountedBefore ==
  ASSUME NEW log \in Seq(Line), NEW now, LogOK(log, now), NEW since \in Int,
         NEW n \in DOMAIN log, log[n].second < since
  PROVE  n < 1 + Cardinality({i \in DOMAIN log : log[i].second < since})
<1> DEFINE D == {i \in DOMAIN log : log[i].second < since}
<1>1. DOMAIN log = 1..Len(log) /\ Len(log) \in Nat /\ n \in 1..Len(log)  OBVIOUS
<1>2. \A i \in 1..Len(log) : log[i].second \in Nat
  <2> TAKE i \in 1..Len(log)
  <2>1. log[i] \in Line  BY <1>1
  <2> QED  BY <2>1 DEF Line
<1>3. \A i \in 1..n : i \in DOMAIN log /\ log[i].second <= log[n].second
  <2> TAKE i \in 1..n
  <2>1. i \in 1..Len(log) /\ i <= n  BY <1>1
  <2> QED  BY <1>1, <2>1 DEF LogOK
<1>4. 1..n \subseteq D  BY <1>1, <1>2, <1>3
<1>5. IsFiniteSet(1..Len(log)) /\ D \subseteq 1..Len(log)  BY <1>1, FS_Interval
<1>6. IsFiniteSet(D)  BY <1>5, FS_Subset
<1>7. Cardinality(1..n) <= Cardinality(D)  BY <1>4, <1>6, FS_Subset
<1>8. Cardinality(1..n) = n  BY <1>1, FS_Interval
<1>9. Cardinality(D) \in Nat  BY <1>6, FS_CardinalityType
<1> HIDE DEF D
<1>10. n < 1 + Cardinality(D)  BY <1>1, <1>7, <1>8, <1>9
<1> QED  BY <1>10 DEF D

LEMMA ShownLineTyped ==
  ASSUME OrderInv, NEW i \in DOMAIN view.lines
  PROVE  /\ view.lines[i] \in ShownLine
         /\ view.lines[i].container \in Containers
         /\ view.lines[i].run \in Runs /\ view.lines[i].of \in Runs
         /\ view.lines[i].n \in Nat
         /\ <<view.lines[i].container, view.lines[i].run>> \in Instance
         /\ LineOK(view.lines[i])
         /\ Written_at(view.lines[i], server[view.lines[i].container]) \in Nat
         /\ Written_at(view.lines[i], server[view.lines[i].container]) <= second
<1> DEFINE a == view.lines[i]
           log == server[a.container].log[a.of]
<1>1. a \in ShownLine  BY DEF OrderInv, ViewOK
<1>2. a.container \in Containers /\ a.run \in Runs /\ a.of \in Runs /\ a.n \in Nat
  BY <1>1 DEF ShownLine
<1>3. LineOK(a)  BY DEF OrderInv, LinesOK
<1>4. log \in Seq(Line)  BY <1>2 DEF OrderInv, IInv, RestOK
<1>5. a.n \in DOMAIN log  BY <1>3 DEF LineOK, Known
<1>6. LogOK(log, second)  BY <1>2 DEF OrderInv, LogsOK
<1>7. log[a.n].second \in Nat /\ log[a.n].second <= second
  <2> HIDE DEF a, log
  <2>1. log[a.n] \in Line  BY <1>4, <1>5
  <2> QED  BY <1>5, <1>6, <2>1 DEF LogOK, Line
<1>8. Written_at(a, server[a.container]) = log[a.n].second  BY DEF Written_at
<1>9. <<a.container, a.run>> \in Instance  BY <1>2 DEF Instance
<1> HIDE DEF log
<1> QED  BY <1>1, <1>2, <1>3, <1>7, <1>8, <1>9

-----------------------------------------------------------------------------
\* A sync leaves the streams it keeps where they are, and opens the others behind
\* what is shown.
LEMMA SyncOrders ==
  ASSUME OrderInv, IInv', NEW t \in Table, NEW p \in Panel, Sync(t, p), table' = t,
         \A c \in Containers : table[c].run <= t[c].run /\ t[c].run <= server[c].run,
         UNCHANGED <<second, server, view>>
  PROVE  OrderInv'
<1>1. IInv /\ ViewOK' /\ LogsOK' /\ TablesOK' /\ ViewInOrder'
  BY DEF OrderInv, ViewOK, LogsOK, TablesOK, ViewInOrder
<1>2. \A c \in Containers :
        stream'[c] = IF Keeps(c, t, p) THEN stream[c]
                     ELSE IF c \in Wanted(t, p)
                          THEN Opened(c, t, p, stopped[<<c, t[c].run>>]) ELSE None
  BY DEF Sync
<1>3. second \in Nat
  BY BoundsAssumption DEF IInv, RestOK, OrderInv
<1>4. ASSUME NEW c \in Containers, stream'[c] # None
      PROVE  Ahead(stream'[c], c, view.lines, server[c])
  <2>1. CASE Keeps(c, t, p)
    <3>1. stream'[c] = stream[c]  BY <1>2, <2>1
    <3> QED  BY <1>4, <3>1 DEF OrderInv, StreamsAhead
  <2>2. CASE ~Keeps(c, t, p)
    <3> DEFINE at == stopped[<<c, t[c].run>>]
               s == Opened(c, t, p, at)
    <3>1. c \in Wanted(t, p) /\ stream'[c] = s  BY <1>2, <1>4, <2>2
    <3>2. stream[c] = None \/ stream[c].run # t[c].run
      BY <2>2, <3>1 DEF Keeps
    <3>3. /\ s.run = t[c].run /\ s.queue = <<>> /\ s.stage = "asking"
          /\ s.of = 0 /\ s.since = Since(at)
      BY DEF Opened
    <3>4. server[c].run \in Runs  BY <1>1 DEF IInv, RestOK
    <3>5. ASSUME NEW k \in LinesOf(view.lines, c),
                 view.lines[k].run = s.run, Skew[c] >= 0
          PROVE  s.since # None /\ Written_at(view.lines[k], server[c]) < s.since
      <4> DEFINE a == view.lines[k]
      <4>1. k \in DOMAIN view.lines /\ a.container = c /\ a.run = t[c].run
        BY <3>3, <3>5 DEF LinesOf
      <4>2. LineOK(a) /\ Written_at(a, server[c]) \in Nat /\ <<c, a.run>> \in Instance
        BY <4>1, ShownLineTyped
      <4>3. at # None /\ Written_at(a, server[c]) <= at
        BY <3>2, <3>5, <4>1, <4>2 DEF LineOK, LeftAt
      <4>4. at \in Int
        BY <1>1, <4>1, <4>2, <4>3 DEF IInv, StoppedOK
      <4>5. s.since = at + 1 /\ at + 1 \in Int  BY <3>3, <4>3, <4>4 DEF Since
      <4>6. Written_at(a, server[c]) < at + 1  BY <4>2, <4>3, <4>4
      <4> HIDE DEF s, at, a
      <4>7. s.since # None  BY <4>5, NoneAssumption
      <4> QED  BY <4>5, <4>6, <4>7 DEF a
    <3> HIDE DEF s, at
    <3>6. Ahead(s, c, view.lines, server[c])
      BY <3>3, <3>4, <3>5 DEF Ahead, Runs
    <3> QED  BY <3>1, <3>6
  <2> QED  BY <2>1, <2>2
<1>5. ASSUME NEW i \in DOMAIN view.lines
      PROVE  LineOK(view.lines[i])'
  <2> DEFINE a == view.lines[i]
             c == a.container
  <2>1. /\ c \in Containers /\ a.run \in Runs /\ <<c, a.run>> \in Instance
        /\ LineOK(a) /\ Written_at(a, server[c]) \in Nat
        /\ Written_at(a, server[c]) <= second
    BY ShownLineTyped
  <2>2. Known(a, server'[c]) /\ a.run <= table'[c].run
    <3>1. Known(a, server[c]) /\ a.run <= table[c].run /\ table[c].run <= t[c].run
      BY <2>1 DEF LineOK
    <3>2. a.run \in Nat /\ table[c].run \in Nat /\ t[c].run \in Nat
      BY <1>1, <2>1 DEF IInv, Table, Runs
    <3> QED  BY <3>1, <3>2
  <2>3. ASSUME stream'[c] = None \/ stream'[c].run # a.run, Skew[c] >= 0
        PROVE  /\ stopped'[<<c, a.run>>] # None
               /\ Written_at(a, server[c]) <= stopped'[<<c, a.run>>]
    <3> HIDE DEF c, a
    <3>1. stopped'[<<c, a.run>>] =
            IF stream[c] # None /\ stream[c].run = a.run /\ ~Keeps(c, t, p)
            THEN second + Skew[c]
            ELSE IF c \in Wanted(t, p) /\ t[c].run = a.run THEN None
            ELSE stopped[<<c, a.run>>]
      BY <2>1 DEF Sync
    <3>2. CASE stream[c] # None /\ stream[c].run = a.run
      <4>1. ~Keeps(c, t, p)  BY <1>2, <2>1, <2>3, <3>2
      <4>2. stopped'[<<c, a.run>>] = second + Skew[c]  BY <3>1, <3>2, <4>1
      <4>3. Skew[c] \in Int  BY <2>1, SkewAssumption
      <4>4. second + Skew[c] \in Int /\ Written_at(a, server[c]) <= second + Skew[c]
        BY <1>3, <2>1, <2>3, <4>3
      <4> QED  BY <4>2, <4>4, NoneAssumption
    <3>3. CASE ~(stream[c] # None /\ stream[c].run = a.run)
      <4>1. ~(c \in Wanted(t, p) /\ t[c].run = a.run)
        <5>1. SUFFICES ASSUME c \in Wanted(t, p), t[c].run = a.run  PROVE FALSE
          OBVIOUS
        <5>2. ~Keeps(c, t, p)  BY <3>3, <5>1 DEF Keeps
        <5>3. stopped[<<c, t[c].run>>] \in Int \cup {None}
          BY <1>1, <2>1, <5>1 DEF IInv, StoppedOK
        <5> DEFINE o == Opened(c, t, p, stopped[<<c, t[c].run>>])
        <5>4. stream'[c] = o  BY <1>2, <2>1, <5>1, <5>2
        <5>5. o # None /\ o.run = t[c].run  BY <2>1, <5>3, OpenedStream
        <5> HIDE DEF o
        <5> QED  BY <2>3, <5>1, <5>4, <5>5
      <4>2. stopped'[<<c, a.run>>] = stopped[<<c, a.run>>]  BY <3>1, <3>3, <4>1
      <4>3. LeftAt(a, stream[c], server[c], stopped[<<c, a.run>>])
        BY <2>1 DEF LineOK, c
      <4> QED  BY <2>3, <3>3, <4>2, <4>3 DEF LeftAt, c
    <3> QED  BY <3>2, <3>3
  <2> QED  BY <2>2, <2>3 DEF LineOK, LeftAt
<1>6. StreamsAhead'  BY <1>4 DEF StreamsAhead
<1>7. LinesOK'  BY <1>5 DEF LinesOK
<1> QED  BY <1>1, <1>6, <1>7 DEF OrderInv

\* A stream moves, and no line is shown.
LEMMA StreamOrders ==
  ASSUME OrderInv, IInv', NEW c \in Containers, NEW s \in Stream, stream[c] # None,
         s.run = stream[c].run, stream' = [stream EXCEPT ![c] = s],
         Ahead(s, c, view.lines, server[c]),
         UNCHANGED <<second, server, table, stopped>>, ViewOK', view'.lines = view.lines
  PROVE  OrderInv'
<1>1. stream \in [Containers -> Stream \cup {None}]  BY DEF OrderInv, IInv, StreamsOK
<1>2. \A d \in Containers : stream'[d] = IF d = c THEN s ELSE stream[d]  BY <1>1
<1>3. s # None  BY NoneAssumption
<1>4. LogsOK' /\ TablesOK' /\ ViewInOrder'
  BY DEF OrderInv, LogsOK, TablesOK, ViewInOrder
<1>5. StreamsAhead'  BY <1>2 DEF OrderInv, StreamsAhead
<1>6. LinesOK'
  <2> SUFFICES ASSUME NEW i \in DOMAIN view.lines  PROVE LineOK(view.lines[i])'
    BY DEF LinesOK
  <2> DEFINE a == view.lines[i]
  <2>1. a.container \in Containers /\ LineOK(a)  BY ShownLineTyped
  <2>2. (stream'[a.container] = None \/ stream'[a.container].run # a.run)
          => (stream[a.container] = None \/ stream[a.container].run # a.run)
    BY <1>2, <1>3, <2>1
  <2> QED  BY <2>1, <2>2 DEF LineOK, LeftAt
<1> QED  BY <1>4, <1>5, <1>6 DEF OrderInv

\* The logs grow, time goes on, and instances follow each other.
LEMMA ServerOrders ==
  ASSUME OrderInv, IInv', UNCHANGED <<table, stream, stopped, view>>, LogsOK',
         \A c \in Containers :
           /\ server'[c].run >= server[c].run
           /\ \A r \in Runs : \A n \in DOMAIN server[c].log[r] :
                /\ n \in DOMAIN server'[c].log[r]
                /\ server'[c].log[r][n] = server[c].log[r][n]
  PROVE  OrderInv'
<1>1. ViewOK' /\ ViewInOrder'  BY DEF OrderInv, ViewOK, ViewInOrder
<1>2. \A c \in Containers : server[c].run \in Runs /\ server'[c].run \in Runs
  BY DEF OrderInv, IInv, RestOK
<1>3. ASSUME NEW i \in DOMAIN view.lines
      PROVE  LET a == view.lines[i]
             IN /\ Written_at(a, server'[a.container]) = Written_at(a, server[a.container])
                /\ Known(a, server'[a.container])
  <2> DEFINE a == view.lines[i]
  <2>1. a.container \in Containers /\ a.of \in Runs /\ Known(a, server[a.container])
    BY ShownLineTyped DEF LineOK
  <2>2. /\ a.n \in DOMAIN server'[a.container].log[a.of]
        /\ server'[a.container].log[a.of][a.n] = server[a.container].log[a.of][a.n]
    BY <2>1 DEF Known
  <2>3. a.of <= server'[a.container].run
    BY <1>2, <2>1 DEF Known, Runs
  <2> QED  BY <2>2, <2>3 DEF Written_at, Known
<1>4. LinesOK' /\ TablesOK'
  <2>1. LinesOK'  BY <1>3 DEF OrderInv, LinesOK, LineOK, LeftAt
  <2>2. \A c \in Containers : table[c].run \in Runs /\ table[c].run <= server[c].run
    BY DEF OrderInv, IInv, Table, TablesOK
  <2>3. ASSUME NEW c \in Containers  PROVE table[c].run <= server'[c].run
    BY <1>2, <2>2 DEF Runs
  <2> QED  BY <2>1, <2>3 DEF TablesOK
<1>5. StreamsAhead'
  <2> SUFFICES ASSUME NEW c \in Containers, stream[c] # None
               PROVE  Ahead(stream[c], c, view.lines, server'[c])
    BY DEF StreamsAhead
  <2> DEFINE s == stream[c]
  <2>1. Ahead(s, c, view.lines, server[c])  BY DEF OrderInv, StreamsAhead
  <2>2. s.of \in Runs  BY DEF OrderInv, IInv, StreamsOK, Stream
  <2>3. s.of <= server'[c].run  BY <1>2, <2>1, <2>2 DEF Ahead, Runs
  <2>4. \A k \in LinesOf(view.lines, c) :
          Written_at(view.lines[k], server'[c]) = Written_at(view.lines[k], server[c])
    BY <1>3 DEF LinesOf
  <2>5. \A n \in DOMAIN server[c].log[s.of] : n \in DOMAIN server'[c].log[s.of]
    BY <2>2
  <2> HIDE DEF s
  <2>6. \A i \in DOMAIN s.queue : s.queue[i] # 0 =>
          /\ s.queue[i] \in DOMAIN server'[c].log[s.of]
          /\ \A j \in DOMAIN s.queue : i < j /\ s.queue[j] # 0 => s.queue[i] < s.queue[j]
          /\ \A k \in LinesOf(view.lines, c) : Precedes(view.lines[k], s.run, s.of, s.queue[i])
          /\ s.stage = "reading" => s.queue[i] < s.next
    BY <2>1, <2>5 DEF Ahead
  <2>7. s.stage = "asking" =>
          /\ s.queue = <<>>
          /\ \A k \in LinesOf(view.lines, c) :
               view.lines[k].run = s.run /\ Skew[c] >= 0 =>
                 s.since # None /\ Written_at(view.lines[k], server'[c]) < s.since
    BY <2>1, <2>4 DEF Ahead
  <2>8. s.stage = "reading" =>
          /\ s.next >= 1
          /\ \A k \in LinesOf(view.lines, c) : Precedes(view.lines[k], s.run, s.of, s.next)
    BY <2>1 DEF Ahead
  <2>9. Ahead(s, c, view.lines, server'[c])  BY <2>3, <2>6, <2>7, <2>8 DEF Ahead
  <2> QED  BY <2>9 DEF s
<1> QED  BY <1>1, <1>4, <1>5 DEF OrderInv

-----------------------------------------------------------------------------
(* Every step keeps the order.                                              *)

LEMMA InitOrder == Init => OrderInv
<1> SUFFICES ASSUME Init PROVE OrderInv  OBVIOUS
<1>1. IInv  BY InitIInv
<1>2. view = [lines |-> <<>>, colours |-> <<>>]  BY DEF Init, NoLines
<1>3. ViewOK /\ LinesOK /\ ViewInOrder
  BY <1>2 DEF ViewOK, LinesOK, ViewInOrder
<1>4. LogsOK /\ TablesOK  BY DEF Init, LogsOK, LogOK, TablesOK
<1>5. StreamsAhead  BY DEF Init, NoStreams, StreamsAhead
<1> QED  BY <1>1, <1>3, <1>4, <1>5 DEF OrderInv

\* A view that starts over.
LEMMA StartsOver ==
  ASSUME OrderInv, IInv', UNCHANGED <<second, server, table>>, view' = NoLines,
         NEW p, \A c \in Containers :
           stream'[c] = None \/ stream'[c] = Opened(c, table, p, None)
  PROVE  OrderInv'
<1>1. view' = [lines |-> <<>>, colours |-> <<>>]  BY DEF NoLines
<1>2. ViewOK' /\ LinesOK' /\ ViewInOrder'
  BY <1>1 DEF ViewOK, LinesOK, ViewInOrder
<1>3. LogsOK' /\ TablesOK'  BY DEF OrderInv, LogsOK, TablesOK
<1>4. ASSUME NEW c \in Containers, stream'[c] # None
      PROVE  Ahead(stream'[c], c, view'.lines, server'[c])
  <2> DEFINE s == stream'[c]
  <2>1. s.queue = <<>> /\ s.stage = "asking" /\ s.of = 0
    <3>1. s = Opened(c, table, p, None)  BY <1>4
    <3> HIDE DEF s
    <3> QED  BY <3>1 DEF Opened
  <2>2. LinesOf(view'.lines, c) = {}  BY <1>1 DEF LinesOf
  <2>3. server'[c].run \in Runs  BY DEF OrderInv, IInv, RestOK
  <2> HIDE DEF s
  <2>4. Ahead(s, c, view'.lines, server'[c])  BY <2>1, <2>2, <2>3 DEF Ahead, Runs
  <2> QED  BY <2>4 DEF s
<1> QED  BY <1>2, <1>3, <1>4 DEF OrderInv, StreamsAhead

LEMMA SyncIfSelectedOrders ==
  ASSUME OrderInv, IInv', NEW p \in Panel, SyncIfSelected(p), table \in Table,
         UNCHANGED <<second, server, table, view>>
  PROVE  OrderInv'
<1>1. CASE p.selector # None
  <2>1. \A c \in Containers : table[c].run <= table[c].run /\ table[c].run <= server[c].run
    BY DEF OrderInv, Table, Runs, TablesOK
  <2>2. Sync(table, p)  BY <1>1 DEF SyncIfSelected
  <2> QED  BY <2>1, <2>2, SyncOrders
<1>2. CASE p.selector = None
  <2>1. UNCHANGED <<stream, stopped>>  BY <1>2 DEF SyncIfSelected
  <2> QED
    BY <2>1 DEF OrderInv, ViewOK, TablesOK, LogsOK, StreamsAhead, LinesOK, LineOK, ViewInOrder
<1> QED  BY <1>1, <1>2

LEMMA PanelOrders ==
  ASSUME OrderInv, PanelStep
  PROVE  OrderInv'
<1>1. IInv /\ IInv'  BY PanelKeeps DEF OrderInv
<1>2. table \in Table /\ panel' \in Panel  BY <1>1 DEF IInv
<1>3. ASSUME NEW pods \in Selectors, Select(pods)  PROVE OrderInv'
  <2>1. /\ UNCHANGED <<second, server, table>> /\ view' = NoLines
        /\ \A c \in Containers :
             stream'[c] = None \/ stream'[c] = Opened(c, table, panel', None)
    BY <1>3 DEF Select
  <2> QED  BY <1>1, <2>1, StartsOver
<1>4. ASSUME Reset  PROVE OrderInv'
  <2>1. /\ UNCHANGED <<second, server, table>> /\ view' = NoLines
        /\ \A c \in Containers : stream'[c] = None
    BY <1>4 DEF Reset, NoStreams
  <2> QED  BY <1>1, <2>1, StartsOver
<1>5. ASSUME NEW name \in Filters, SetContainerFilter(name)  PROVE OrderInv'
  <2>1. SyncIfSelected(panel') /\ UNCHANGED <<second, server, table, view>>
    BY <1>5 DEF SetContainerFilter
  <2> QED  BY <1>1, <1>2, <2>1, SyncIfSelectedOrders
<1>6. ASSUME NEW namespaces \in Scopes, SetNamespaces(namespaces)  PROVE OrderInv'
  <2>1. SyncIfSelected(panel') /\ UNCHANGED <<second, server, table, view>>
    BY <1>6 DEF SetNamespaces
  <2> QED  BY <1>1, <1>2, <2>1, SyncIfSelectedOrders
<1> QED  BY <1>3, <1>4, <1>5, <1>6 DEF PanelStep

LEMMA TableOrders ==
  ASSUME OrderInv, NEW c \in Containers, TableShows(c)
  PROVE  OrderInv'
<1>1. IInv /\ IInv'  BY TableKeeps DEF OrderInv
<1>2. table' \in Table /\ panel \in Panel  BY <1>1 DEF IInv
<1>3. Sync(table', panel) /\ UNCHANGED <<second, server, view>>  BY DEF TableShows
<1>4. ASSUME NEW d \in Containers
      PROVE  table[d].run <= table'[d].run /\ table'[d].run <= server[d].run
  <2>1. table'[d].run = IF d = c THEN server[c].run ELSE table[d].run
    BY <1>1 DEF TableShows, IInv, Table
  <2>2. table[d].run <= server[d].run  BY DEF OrderInv, TablesOK
  <2>3. table[d].run \in Runs /\ server[d].run \in Runs /\ server[c].run \in Runs
    BY <1>1 DEF IInv, Table, RestOK
  <2>4. d = c \/ d # c  OBVIOUS
  <2> QED  BY <2>1, <2>2, <2>3, <2>4 DEF Runs
<1> QED  BY <1>1, <1>2, <1>3, <1>4, SyncOrders

LEMMA ClusterOrders ==
  ASSUME OrderInv,
         Ticks \/ \E c \in Containers : Starts(c) \/ Writes(c) \/ Terminates(c) \/ Deleted(c)
  PROVE  OrderInv'
<1>1. IInv /\ IInv'  BY StepIInv DEF OrderInv, Next, ContainerStep
<1>2. /\ second \in Nat /\ second' \in Nat
      /\ server \in [Containers -> [run : Runs, state : States, log : [Runs -> Seq(Line)]]]
      /\ LogsOK
  BY <1>1, BoundsAssumption DEF IInv, RestOK, OrderInv
<1>3. CASE Ticks
  <2>1. UNCHANGED <<server, table, stream, stopped, view>> /\ second' = second + 1
    BY <1>3 DEF Ticks
  <2>2. LogsOK'
    <3> SUFFICES ASSUME NEW c \in Containers, NEW r \in Runs
                 PROVE  LogOK(server[c].log[r], second')
      BY <2>1 DEF LogsOK
    <3> DEFINE log == server[c].log[r]
    <3>1. log \in Seq(Line) /\ LogOK(log, second)  BY <1>2 DEF LogsOK
    <3> HIDE DEF log
    <3>2. \A i \in DOMAIN log : log[i] \in Line  BY <3>1
    <3>3. \A i \in DOMAIN log : log[i].second \in Nat  BY <3>2 DEF Line
    <3>4. LogOK(log, second')  BY <1>2, <2>1, <3>1, <3>3 DEF LogOK
    <3> QED  BY <3>4 DEF log
  <2>3. \A c \in Containers : server[c].run \in Runs  BY <1>2
  <2> QED  BY <1>1, <2>1, <2>2, <2>3, ServerOrders DEF Runs
<1>4. ASSUME NEW c \in Containers, Starts(c) \/ Terminates(c) \/ Deleted(c)
      PROVE  OrderInv'
  <2>1. UNCHANGED <<second, table, stream, stopped, view>>
    BY <1>4 DEF Starts, Terminates, Deleted
  <2>2. \A d \in Containers : /\ server'[d].run >= server[d].run
                              /\ server'[d].log = server[d].log
    <3>1. server[c].run \in {0, 1}  BY <1>2 DEF Runs
    <3>2. \A d \in Containers : server[d].run \in {0, 1}  BY <1>2 DEF Runs
    <3>3. \A d \in Containers \ {c} : server'[d] = server[d]
      BY <1>2, <1>4 DEF Starts, Terminates, Deleted
    <3>4. server[c] \in [run : Runs, state : States, log : [Runs -> Seq(Line)]]
      BY <1>2
    <3>5. server'[c].run >= server[c].run /\ server'[c].log = server[c].log
      <4>1. CASE Starts(c)
        <5>1. PICK run \in {0, 1} :
                /\ run >= server[c].run
                /\ server' = [server EXCEPT ![c].state = "running", ![c].run = run]
          <6> DEFINE run == server[c].run + IF server[c].state = "terminated" THEN 1 ELSE 0
          <6>1. /\ run \in {0, 1}
                /\ server' = [server EXCEPT ![c].state = "running", ![c].run = run]
            BY <4>1 DEF Starts, Runs
          <6>2. run >= server[c].run  BY <3>1
          <6> QED  BY <6>1, <6>2
        <5>2. server'[c] = [server[c] EXCEPT !.state = "running", !.run = run]
          BY <1>2, <5>1
        <5> QED  BY <3>4, <5>1, <5>2
      <4>2. CASE Terminates(c)
        <5>1. server'[c] = [server[c] EXCEPT !.state = "terminated"]
          BY <1>2, <4>2 DEF Terminates
        <5> QED  BY <3>1, <3>4, <5>1
      <4>3. CASE Deleted(c)
        <5>1. server'[c] = [server[c] EXCEPT !.state = "waiting", !.run = @ + 1]
          BY <1>2, <4>3 DEF Deleted
        <5> QED  BY <3>1, <3>4, <5>1
      <4> QED  BY <1>4, <4>1, <4>2, <4>3
    <3> QED  BY <3>2, <3>3, <3>5
  <2>3. LogsOK'  BY <1>2, <2>1, <2>2 DEF LogsOK
  <2> QED  BY <1>1, <2>1, <2>2, <2>3, ServerOrders
<1>5. ASSUME NEW c \in Containers, Writes(c)  PROVE OrderInv'
  <2> DEFINE r == server[c].run
             log == server[c].log[r]
             line == [second |-> second, colour |-> c \in Coloured]
             longer == Append(log, line)
  <2>1. /\ UNCHANGED <<second, table, stream, stopped, view>>
        /\ server' = [server EXCEPT ![c].log[r] = longer]
    BY <1>5 DEF Writes
  <2>2. r \in Runs /\ server[c].log \in [Runs -> Seq(Line)] /\ log \in Seq(Line)
    BY <1>2
  <2>3. line \in Line /\ line.second = second  BY <1>2 DEF Line
  <2>4. LogOK(log, second)  BY <1>2, <2>2 DEF LogsOK
  <2> HIDE DEF log, line
  <2>5. /\ DOMAIN longer = 1..(Len(log) + 1) /\ DOMAIN log = 1..Len(log) /\ Len(log) \in Nat
        /\ \A i \in 1..Len(log) : longer[i] = log[i] /\ log[i] \in Line
        /\ longer[Len(log) + 1] = line
    BY <2>2, <2>3
  <2> HIDE DEF longer
  <2>6. LogOK(longer, second)
    <3>1. \A i \in 1..Len(log) : log[i].second \in Nat  BY <2>5 DEF Line
    <3>2. \A i \in 1..Len(log) : log[i].second <= second  BY <2>4, <2>5 DEF LogOK
    <3>3. ASSUME NEW i \in DOMAIN longer
          PROVE  longer[i].second <= second
      <4>1. i \in 1..Len(log) \/ i = Len(log) + 1  BY <2>5
      <4> QED  BY <1>2, <2>3, <2>5, <3>2, <4>1
    <3>4. ASSUME NEW i \in DOMAIN longer, NEW j \in DOMAIN longer, i <= j
          PROVE  longer[i].second <= longer[j].second
      <4>1. CASE j = Len(log) + 1  BY <2>3, <2>5, <3>3, <4>1
      <4>2. CASE j # Len(log) + 1
        <5>1. i \in 1..Len(log) /\ j \in 1..Len(log)  BY <2>5, <3>4, <4>2
        <5> QED  BY <2>4, <2>5, <3>4, <5>1 DEF LogOK
      <4> QED  BY <4>1, <4>2
    <3> QED  BY <3>3, <3>4 DEF LogOK
  <2>7. \A d \in Containers, q \in Runs :
          /\ server'[d].run = server[d].run
          /\ server'[d].log[q] = IF d = c /\ q = r THEN longer ELSE server[d].log[q]
    BY <1>2, <2>1, <2>2
  <2>8. LogsOK'  BY <1>2, <2>1, <2>6, <2>7 DEF LogsOK
  <2>9. \A d \in Containers : server[d].run \in Runs  BY <1>2
  <2>10. ASSUME NEW d \in Containers, NEW q \in Runs, NEW n \in DOMAIN server[d].log[q]
         PROVE  /\ n \in DOMAIN server'[d].log[q]
                /\ server'[d].log[q][n] = server[d].log[q][n]
    <3>1. CASE d = c /\ q = r
      <4>1. n \in 1..Len(log)  BY <2>5, <3>1 DEF log
      <4>2. n \in DOMAIN longer /\ longer[n] = log[n]  BY <2>5, <4>1
      <4> QED  BY <2>7, <3>1, <4>2 DEF log
    <3>2. CASE ~(d = c /\ q = r)  BY <2>7, <3>2
    <3> QED  BY <3>1, <3>2
  <2>11. \A d \in Containers : server'[d].run >= server[d].run
    BY <2>7, <2>9 DEF Runs
  <2> QED  BY <1>1, <2>1, <2>8, <2>10, <2>11, ServerOrders
<1> QED  BY <1>3, <1>4, <1>5

-----------------------------------------------------------------------------
(* A stream's own steps.                                                    *)

LEMMA AnswersOrders ==
  ASSUME OrderInv, NEW c \in Containers, Answers(c)
  PROVE  OrderInv'
<1>1. IInv /\ IInv'  BY StepIInv DEF OrderInv, Next, ContainerStep
<1> DEFINE s == stream[c]
           run == server[c].run
           log == server[c].log[run]
           D == {i \in DOMAIN log : log[i].second < s.since}
           first == IF s.since = None
                    THEN (IF Len(log) > TailLines THEN Len(log) + 1 - TailLines ELSE 1)
                    ELSE 1 + Cardinality(D)
           t == [s EXCEPT !.stage = "reading", !.of = run, !.next = first, !.last = Len(log)]
<1>2. s # None /\ s \in Stream /\ s.stage = "asking"
  BY <1>1, StreamTyped DEF Answers
<1>3. run \in Runs /\ log \in Seq(Line) /\ LogOK(log, second)
  BY <1>1 DEF IInv, RestOK, OrderInv, LogsOK
<1>4. stream' = [stream EXCEPT ![c] = t] /\ UNCHANGED <<second, server, table, stopped, view>>
  BY DEF Answers, IInv, StreamsOK
<1>5. s.queue = <<>> /\ \A k \in LinesOf(view.lines, c) :
        view.lines[k].run = s.run /\ Skew[c] >= 0 => s.since # None /\ Written_at(view.lines[k], server[c]) < s.since
  BY <1>2 DEF OrderInv, StreamsAhead, Ahead
<1>6. Len(log) \in Nat /\ first \in Nat /\ first >= 1
  <2> HIDE DEF log, s
  <2>1. Len(log) \in Nat  BY <1>3
  <2>2. IsFiniteSet(DOMAIN log)  BY <1>3, FS_Interval
  <2>3. Cardinality(D) \in Nat  BY <2>2, FS_Subset, FS_CardinalityType
  <2> HIDE DEF D
  <2> QED  BY <2>1, <2>3, BoundsAssumption
<1>7. t \in Stream /\ t.run = s.run /\ t.queue = <<>> /\ t.of = run /\ t.next = first
      /\ t.stage = "reading"
  <2> HIDE DEF first, log, run
  <2> QED  BY <1>2, <1>3, <1>5, <1>6 DEF Stream
<1>8. ASSUME NEW k \in LinesOf(view.lines, c)
      PROVE  Precedes(view.lines[k], s.run, run, first)
  <2> DEFINE a == view.lines[k]
  <2>1. k \in DOMAIN view.lines /\ a.container = c  BY <1>8 DEF LinesOf
  <2>2. a.of \in Runs /\ LineOK(a)  BY <2>1, ShownLineTyped
  <2>3. a.of <= run /\ a.n \in DOMAIN server[c].log[a.of]
    BY <2>1, <2>2 DEF LineOK, Known
  <2>4. a.run <= s.run
    <3>1. s.run = table[c].run  BY <1>1, <1>2 DEF IInv, Follows
    <3> QED  BY <2>1, <2>2, <3>1 DEF LineOK
  <2>5. ASSUME a.run = s.run, Skew[c] >= 0, a.of = run
        PROVE  a.n < first
    <3>1. a.n \in DOMAIN log /\ s.since # None /\ log[a.n].second < s.since
      BY <1>5, <1>8, <2>3, <2>5 DEF Written_at
    <3>2. s.since \in Int  BY <1>2, <3>1 DEF Stream
    <3> HIDE DEF s, log
    <3>3. a.n < 1 + Cardinality(D)  BY <1>3, <3>1, <3>2, CountedBefore
    <3>4. first = 1 + Cardinality(D)  BY <3>1
    <3> HIDE DEF first
    <3> QED  BY <3>3, <3>4
  <2>6. a.of < run \/ a.of = run  BY <1>3, <2>2, <2>3 DEF Runs
  <2> HIDE DEF a, s, run, first
  <2>7. Precedes(a, s.run, run, first)  BY <2>1, <2>3, <2>4, <2>5, <2>6 DEF Precedes
  <2> QED  BY <2>7 DEF a
<1>9. Ahead(t, c, view.lines, server[c])
  <2>1. run <= server[c].run  BY <1>3 DEF Runs
  <2>2. \A k \in LinesOf(view.lines, c) : Precedes(view.lines[k], t.run, t.of, t.next)
    BY <1>7, <1>8
  <2>3. t.next >= 1 /\ t.of <= server[c].run  BY <1>6, <1>7, <2>1
  <2>4. \A i \in DOMAIN t.queue : FALSE  BY <1>7
  <2>5. t.stage = "reading"  BY <1>7
  <2> HIDE DEF t, s, log, run, first
  <2> QED  BY <2>2, <2>3, <2>4, <2>5 DEF Ahead
<1>10. ViewOK' /\ view'.lines = view.lines  BY <1>4 DEF OrderInv, ViewOK
<1> HIDE DEF t
<1>11. t.run = stream[c].run /\ stream[c] # None  BY <1>2, <1>7
<1> QED  BY <1>1, <1>4, <1>7, <1>9, <1>10, <1>11, StreamOrders

\* A stream sends its next line, which comes after those it has sent.
LEMMA SendsOrders ==
  ASSUME OrderInv, NEW c \in Containers, Sends(c)
  PROVE  OrderInv'
<1>1. IInv /\ IInv'  BY StepIInv DEF OrderInv, Next, ContainerStep
<1> DEFINE s == stream[c]
           q == Append(s.queue, s.next)
           n == s.next + 1
           t == [s EXCEPT !.next = n, !.queue = q]
<1>2. s # None /\ s \in Stream /\ s.stage = "reading" /\ Ahead(s, c, view.lines, server[c])
  BY <1>1, StreamTyped DEF Sends, Reading, OrderInv, StreamsAhead
<1>3. stream' = [stream EXCEPT ![c] = t] /\ UNCHANGED <<second, server, table, stopped, view>>
  BY DEF Sends, IInv, StreamsOK
<1>4. s.next \in Nat /\ s.next >= 1 /\ s.next <= Len(server[c].log[s.of])
  BY <1>2 DEF Stream, Ahead, Sends, Log
<1>5. s.next \in DOMAIN server[c].log[s.of]
  <2>1. server[c].log[s.of] \in Seq(Line)  BY <1>1, <1>2 DEF IInv, RestOK, Stream
  <2> QED  BY <1>4, <2>1
<1>6. /\ s.queue \in Seq(Nat) /\ q \in Seq(Nat)
      /\ DOMAIN s.queue = 1..Len(s.queue) /\ Len(s.queue) \in Nat
      /\ DOMAIN q = 1..(Len(s.queue) + 1)
      /\ \A i \in 1..Len(s.queue) : q[i] = s.queue[i] /\ q[i] \in Nat
      /\ q[Len(s.queue) + 1] = s.next
  BY <1>2, <1>4 DEF Stream
<1>7. /\ t \in Stream /\ t.run = s.run /\ t.of = s.of /\ t.stage = s.stage
      /\ t.queue = q /\ t.next = s.next + 1
  <2>1. n \in Nat  BY <1>4
  <2> HIDE DEF q, n
  <2>2. /\ t \in Stream /\ t.run = s.run /\ t.of = s.of /\ t.stage = s.stage
        /\ t.queue = q /\ t.next = n
    BY <1>2, <1>6, <2>1 DEF Stream
  <2> QED  BY <2>2 DEF n
<1> HIDE DEF q
<1>8. ASSUME NEW i \in DOMAIN q, q[i] # 0
      PROVE  /\ q[i] \in DOMAIN server[c].log[s.of]
             /\ \A j \in DOMAIN q : i < j /\ q[j] # 0 => q[i] < q[j]
             /\ \A k \in LinesOf(view.lines, c) : Precedes(view.lines[k], s.run, s.of, q[i])
             /\ q[i] < s.next + 1
  <2> HIDE DEF s
  <2>1. CASE i = Len(s.queue) + 1
    <3>1. q[i] = s.next /\ \A j \in DOMAIN q : ~(i < j)  BY <1>6, <2>1
    <3>2. \A k \in LinesOf(view.lines, c) : Precedes(view.lines[k], s.run, s.of, s.next)
      BY <1>2 DEF Ahead
    <3> QED  BY <1>4, <1>5, <3>1, <3>2
  <2>2. CASE i \in 1..Len(s.queue)
    <3>1. i \in DOMAIN s.queue /\ q[i] = s.queue[i]  BY <1>6, <2>2
    <3>2. /\ q[i] \in DOMAIN server[c].log[s.of]
          /\ \A j \in DOMAIN s.queue : i < j /\ s.queue[j] # 0 => q[i] < s.queue[j]
          /\ \A k \in LinesOf(view.lines, c) : Precedes(view.lines[k], s.run, s.of, q[i])
          /\ q[i] < s.next
      BY <1>2, <1>8, <3>1 DEF Ahead
    <3>3. \A j \in DOMAIN q : i < j /\ q[j] # 0 => q[i] < q[j]
      <4> TAKE j \in DOMAIN q
      <4>1. CASE j = Len(s.queue) + 1
        <5>1. q[j] = s.next  BY <1>6, <4>1
        <5> QED  BY <3>2, <5>1
      <4>2. CASE j # Len(s.queue) + 1
        <5>0. j \in 1..Len(s.queue)
          <6> DEFINE l == Len(s.queue)
          <6>1. j \in 1..(l + 1) /\ l \in Nat /\ j # l + 1  BY <1>6, <4>2
          <6> HIDE DEF l
          <6>2. j \in 1..l  BY <6>1
          <6> QED  BY <6>2 DEF l
        <5>1. j \in DOMAIN s.queue /\ q[j] = s.queue[j]  BY <1>6, <5>0
        <5> QED  BY <3>2, <5>1
      <4> QED  BY <4>1, <4>2
    <3>4. q[i] < s.next + 1  BY <1>4, <1>6, <2>2, <3>2
    <3> QED  BY <3>2, <3>3, <3>4
  <2> QED  BY <1>6, <2>1, <2>2
<1>9. Ahead(t, c, view.lines, server[c])
  <2>1. s.of <= server[c].run  BY <1>2 DEF Ahead
  <2>2. ASSUME NEW k \in LinesOf(view.lines, c)
        PROVE  Precedes(view.lines[k], s.run, s.of, s.next + 1)
    <3>1. Precedes(view.lines[k], s.run, s.of, s.next)  BY <1>2, <2>2 DEF Ahead
    <3>2. view.lines[k].n \in Nat  BY <2>2, ShownLineTyped DEF LinesOf
    <3> HIDE DEF s
    <3> QED  BY <1>4, <3>1, <3>2 DEF Precedes
  <2>3. s.next + 1 >= 1  BY <1>4
  <2> HIDE DEF t, s
  <2> QED  BY <1>2, <1>7, <1>8, <2>1, <2>2, <2>3 DEF Ahead
<1>10. ViewOK' /\ view'.lines = view.lines  BY <1>3 DEF OrderInv, ViewOK
<1> HIDE DEF t
<1>11. t.run = stream[c].run /\ stream[c] # None  BY <1>2, <1>7
<1> QED  BY <1>1, <1>3, <1>7, <1>9, <1>10, <1>11, StreamOrders

\* A stream ends with a line of the panel's, which is none of the log's.
LEMMA FinishesOrders ==
  ASSUME OrderInv, NEW c \in Containers, Ends(c) \/ Fails(c)
  PROVE  OrderInv'
<1>1. IInv /\ IInv'  BY StepIInv DEF OrderInv, Next, ContainerStep
<1>2. PICK stage \in {"ended", "failed"} :
        stream' = [stream EXCEPT ![c].stage = stage, ![c].queue = Append(@, 0)]
  BY DEF Ends, Fails
<1> DEFINE s == stream[c]
           q == Append(s.queue, 0)
           t == [s EXCEPT !.stage = stage, !.queue = q]
<1>3. s # None /\ s \in Stream /\ Ahead(s, c, view.lines, server[c])
  BY <1>1, StreamTyped DEF Ends, Fails, Reading, OrderInv, StreamsAhead
<1>4. stream' = [stream EXCEPT ![c] = t] /\ UNCHANGED <<second, server, table, stopped, view>>
  BY <1>1, <1>2 DEF Ends, Fails, IInv, StreamsOK
<1>5. /\ q \in Seq(Nat)
      /\ DOMAIN s.queue = 1..Len(s.queue) /\ Len(s.queue) \in Nat
      /\ DOMAIN q = 1..(Len(s.queue) + 1)
      /\ \A i \in 1..Len(s.queue) : q[i] = s.queue[i]
      /\ q[Len(s.queue) + 1] = 0
  BY <1>3 DEF Stream
<1>6. /\ t \in Stream /\ t.run = s.run /\ t.of = s.of /\ t.stage = stage /\ t.queue = q
  <2> HIDE DEF q
  <2> QED  BY <1>3, <1>5 DEF Stream
<1> HIDE DEF q
<1>7. \A i \in DOMAIN q : q[i] # 0 => i \in DOMAIN s.queue /\ q[i] = s.queue[i]
  BY <1>5
<1>8. Ahead(t, c, view.lines, server[c])
  <2> HIDE DEF t, s
  <2>1. t.stage \notin {"asking", "reading"}  BY <1>6
  <2> QED  BY <1>3, <1>6, <1>7, <2>1 DEF Ahead
<1>9. ViewOK' /\ view'.lines = view.lines  BY <1>4 DEF OrderInv, ViewOK
<1> HIDE DEF t
<1>10. t.run = stream[c].run /\ stream[c] # None  BY <1>3, <1>6
<1> QED  BY <1>1, <1>4, <1>6, <1>8, <1>9, <1>10, StreamOrders

\* A line is shown: the first of those the stream has sent, which come after all
\* that is shown of its instance.
LEMMA ShowsOrders ==
  ASSUME OrderInv, NEW c \in Containers, Shows(c)
  PROVE  OrderInv'
<1>1. IInv /\ IInv'  BY StepIInv DEF OrderInv, Next, ContainerStep
<1> DEFINE s == stream[c]
           q == s.queue
           t == [s EXCEPT !.queue = Tail(@)]
           begins == Colour(s.tag)
           line == [container |-> c, run |-> s.run, of |-> s.of, n |-> Head(q),
                    begins |-> begins]
           lines == view.lines
<1>2. s # None /\ s \in Stream /\ q # <<>> /\ Ahead(s, c, lines, server[c])
  BY <1>1, StreamTyped DEF Shows, OrderInv, StreamsAhead
<1>3. stream' = [stream EXCEPT ![c] = t] /\ UNCHANGED <<second, server, table, stopped>>
  BY <1>1 DEF Shows, IInv, StreamsOK
<1>4. /\ q \in Seq(Nat) /\ Len(q) \in Nat /\ Len(q) > 0 /\ DOMAIN q = 1..Len(q)
      /\ Head(q) = q[1] /\ Head(q) \in Nat
      /\ Tail(q) \in Seq(Nat) /\ DOMAIN Tail(q) = 1..(Len(q) - 1)
      /\ \A i \in 1..(Len(q) - 1) : Tail(q)[i] = q[i + 1]
  BY <1>2 DEF Stream
<1>5. /\ t \in Stream /\ t.run = s.run /\ t.of = s.of /\ t.stage = s.stage
      /\ t.queue = Tail(q) /\ t.next = s.next /\ t.since = s.since
  BY <1>2, <1>4 DEF Stream
<1>6. s.stage # "asking"  BY <1>2 DEF Ahead
\* What the stream has still to be shown is ahead of the lines before this one.
<1>7. Ahead(t, c, lines, server[c])
  <2> HIDE DEF t, s, lines
  <2>1. ASSUME NEW i \in DOMAIN t.queue, t.queue[i] # 0
        PROVE  /\ t.queue[i] \in DOMAIN server[c].log[t.of]
               /\ \A j \in DOMAIN t.queue : i < j /\ t.queue[j] # 0 => t.queue[i] < t.queue[j]
               /\ \A k \in LinesOf(lines, c) : Precedes(lines[k], t.run, t.of, t.queue[i])
               /\ t.stage = "reading" => t.queue[i] < t.next
    <3>1. i \in 1..(Len(q) - 1) /\ i + 1 \in DOMAIN s.queue /\ t.queue[i] = s.queue[i + 1]
      BY <1>4, <1>5, <2>1
    <3>2. /\ t.queue[i] \in DOMAIN server[c].log[t.of]
          /\ \A j \in DOMAIN s.queue : i + 1 < j /\ s.queue[j] # 0 => t.queue[i] < s.queue[j]
          /\ \A k \in LinesOf(lines, c) : Precedes(lines[k], t.run, t.of, t.queue[i])
          /\ t.stage = "reading" => t.queue[i] < t.next
      <4> DEFINE m == i + 1
      <4>1. m \in DOMAIN s.queue /\ t.queue[i] = s.queue[m] /\ s.queue[m] # 0
        BY <2>1, <3>1
      <4> HIDE DEF m
      <4>2. /\ s.queue[m] \in DOMAIN server[c].log[s.of]
            /\ \A j \in DOMAIN s.queue : m < j /\ s.queue[j] # 0 => s.queue[m] < s.queue[j]
            /\ \A k \in LinesOf(lines, c) : Precedes(lines[k], s.run, s.of, s.queue[m])
            /\ s.stage = "reading" => s.queue[m] < s.next
        BY <1>2, <4>1 DEF Ahead
      <4> QED  BY <1>5, <4>1, <4>2 DEF m
    <3>3. ASSUME NEW j \in DOMAIN t.queue, i < j, t.queue[j] # 0
          PROVE  t.queue[i] < t.queue[j]
      <4>1. j \in 1..(Len(q) - 1) /\ t.queue[j] = q[j + 1]
        <5>1. t.queue = Tail(q) /\ j \in DOMAIN Tail(q)  BY <1>5, <3>3
        <5> HIDE DEF q
        <5> QED  BY <1>4, <5>1
      <4>2. j + 1 \in 1..Len(q) /\ i + 1 < j + 1
        <5> DEFINE l == Len(q)
        <5>1. l \in Nat /\ j \in 1..(l - 1) /\ i \in 1..(l - 1) /\ i < j
          BY <1>4, <3>1, <3>3, <4>1
        <5> HIDE DEF l
        <5>2. j + 1 \in 1..l /\ i + 1 < j + 1  BY <5>1
        <5> QED  BY <5>2 DEF l
      <4>3. j + 1 \in DOMAIN s.queue /\ t.queue[j] = s.queue[j + 1]
        BY <1>4, <4>1, <4>2
      <4> QED  BY <3>2, <3>3, <4>2, <4>3
    <3> QED  BY <3>2, <3>3
  <2>2. t.of <= server[c].run  BY <1>2, <1>5 DEF Ahead
  <2>3. t.stage = "reading" =>
          /\ t.next >= 1
          /\ \A k \in LinesOf(lines, c) : Precedes(lines[k], t.run, t.of, t.next)
    BY <1>2, <1>5 DEF Ahead
  <2> QED  BY <1>5, <1>6, <2>1, <2>2, <2>3 DEF Ahead
<1>8. t.run = stream[c].run /\ stream[c] # None  BY <1>2, <1>5
<1>9. ViewOK  BY DEF OrderInv
\* The panel's own line at a stream's end.
<1>10. CASE Head(q) = 0
  <2>1. view' = [view EXCEPT !.colours = Without(@, s.tag)]
    BY <1>10 DEF Shows
  <2>2. /\ view' = [lines |-> lines, colours |-> Without(view.colours, s.tag)]
        /\ \A tag \in DOMAIN Without(view.colours, s.tag) :
             Without(view.colours, s.tag)[tag] \in Containers \cup {None}
    BY <1>9, <2>1 DEF ViewOK, Without
  <2>3. ViewOK' /\ view'.lines = view.lines  BY <1>9, <2>2 DEF ViewOK
  <2> HIDE DEF t
  <2> QED  BY <1>1, <1>3, <1>5, <1>7, <1>8, <2>3, StreamOrders
\* A line of the log.
<1>11. CASE Head(q) # 0
  <2> DEFINE colours == With(view.colours, s.tag,
                             IF Log(c)[Head(q)].colour THEN c ELSE begins)
  <2>1. view' = [lines |-> Append(lines, line), colours |-> colours]
    BY <1>11 DEF Shows
  <2>2. begins \in Containers \cup {None}  BY <1>9 DEF Colour, ViewOK
  <2>3. line \in ShownLine  BY <1>2, <1>4, <2>2 DEF ShownLine, Stream
  <2>4. \A tag \in DOMAIN colours : colours[tag] \in Containers \cup {None}
    BY <1>9, <2>2 DEF With, ViewOK
  <2>5. lines \in Seq(ShownLine) /\ Len(lines) \in Nat /\ DOMAIN lines = 1..Len(lines)
    BY <1>9 DEF ViewOK
  <2>6. /\ line.container = c /\ line.run = s.run /\ line.of = s.of /\ line.n = Head(q)
        /\ s.of \in Runs /\ s.run \in Runs /\ Head(q) \in Nat
        /\ s.run <= s.run /\ s.of <= s.of
    BY <1>2, <1>4 DEF Stream, Runs
  <2> DEFINE longer == Append(lines, line)
  <2> HIDE DEF line, lines, colours
  <2>7. /\ longer \in Seq(ShownLine) /\ DOMAIN longer = 1..(Len(lines) + 1)
        /\ \A i \in 1..Len(lines) : longer[i] = lines[i]
        /\ longer[Len(lines) + 1] = line
    BY <2>3, <2>5
  <2>8. view'.lines = longer /\ view'.colours = colours  BY <2>1
  <2>9. ViewOK'  BY <2>1, <2>4, <2>7, <2>8 DEF ViewOK
  <2> HIDE DEF longer
  \* This line comes after those shown of its instance, and before those to come.
  <2>10. /\ Head(q) \in DOMAIN server[c].log[s.of]
         /\ \A j \in DOMAIN q : 1 < j /\ q[j] # 0 => Head(q) < q[j]
         /\ \A k \in LinesOf(lines, c) : Precedes(lines[k], s.run, s.of, Head(q))
         /\ s.stage = "reading" => Head(q) < s.next
    <3>1. 1 \in DOMAIN s.queue /\ s.queue[1] # 0 /\ Head(q) = s.queue[1]
      BY <1>4, <1>11
    <3> HIDE DEF s
    <3> QED  BY <1>2, <3>1 DEF Ahead
  <2>11. \A k \in DOMAIN longer :
           \/ k \in DOMAIN lines /\ longer[k] = lines[k]
           \/ k = Len(lines) + 1 /\ longer[k] = line
    BY <2>5, <2>7
  <2>12. \A k \in LinesOf(longer, c) :
           \/ k \in LinesOf(lines, c) /\ longer[k] = lines[k]
           \/ longer[k] = line
    BY <2>11 DEF LinesOf
  <2>13. ViewInOrder'
    <3> SUFFICES ASSUME NEW i \in DOMAIN longer, NEW j \in DOMAIN longer, i < j,
                        longer[i].container = longer[j].container
                 PROVE  Precedes(longer[i], longer[j].run, longer[j].of, longer[j].n)
      BY <2>8 DEF ViewInOrder
    <3>1. i \in DOMAIN lines /\ longer[i] = lines[i]  BY <2>5, <2>7, <2>11
    <3>2. CASE j \in DOMAIN lines /\ longer[j] = lines[j]
      BY <3>1, <3>2 DEF OrderInv, ViewInOrder, lines
    <3>3. CASE longer[j] = line
      <4>1. i \in LinesOf(lines, c)  BY <2>6, <3>1, <3>3 DEF LinesOf
      <4>2. Precedes(lines[i], s.run, s.of, Head(q))  BY <2>10, <4>1
      <4> QED  BY <2>6, <3>1, <3>3, <4>2
    <3> QED  BY <2>11, <3>2, <3>3
  <2>14. Ahead(t, c, longer, server[c])
    <3>1. ASSUME NEW n, Head(q) < n, \A k \in LinesOf(lines, c) : Precedes(lines[k], s.run, s.of, n),
                 NEW k \in LinesOf(longer, c)
          PROVE  Precedes(longer[k], s.run, s.of, n)
      BY <2>6, <2>12, <3>1 DEF Precedes
    <3>2. ASSUME NEW i \in DOMAIN t.queue, t.queue[i] # 0
          PROVE  \A k \in LinesOf(longer, c) : Precedes(longer[k], t.run, t.of, t.queue[i])
      <4>1. i + 1 \in DOMAIN q /\ t.queue[i] = q[i + 1] /\ 1 < i + 1
        BY <1>4, <1>5, <3>2
      <4>2. Head(q) < t.queue[i]  BY <2>10, <3>2, <4>1
      <4>3. \A k \in LinesOf(lines, c) : Precedes(lines[k], s.run, s.of, t.queue[i])
        <5> HIDE DEF t, s
        <5> QED  BY <1>5, <1>7, <3>2 DEF Ahead
      <4> HIDE DEF t, s
      <4> QED  BY <1>5, <3>1, <4>2, <4>3
    <3>3. t.stage = "reading" =>
            \A k \in LinesOf(longer, c) : Precedes(longer[k], t.run, t.of, t.next)
      <4> SUFFICES ASSUME t.stage = "reading"
                   PROVE  \A k \in LinesOf(longer, c) : Precedes(longer[k], s.run, s.of, s.next)
        BY <1>5
      <4> HIDE DEF t, s
      <4>1. \A k \in LinesOf(lines, c) : Precedes(lines[k], s.run, s.of, s.next)
        BY <1>5, <1>7 DEF Ahead
      <4>2. Head(q) < s.next  BY <1>5, <2>10
      <4> QED  BY <3>1, <4>1, <4>2
    <3> HIDE DEF t, s
    <3>4. t.stage # "asking"  BY <1>5, <1>6
    <3> QED  BY <1>7, <3>2, <3>3, <3>4 DEF Ahead
  <2>15. StreamsAhead'
    <3> SUFFICES ASSUME NEW d \in Containers, stream'[d] # None
                 PROVE  Ahead(stream'[d], d, longer, server[d])
      BY <1>3, <2>8 DEF StreamsAhead
    <3>1. stream'[d] = IF d = c THEN t ELSE stream[d]
      BY <1>1, <1>3 DEF IInv, StreamsOK
    <3>2. CASE d = c  BY <2>14, <3>1, <3>2
    <3>3. CASE d # c
      <4>1. Ahead(stream[d], d, lines, server[d]) /\ stream'[d] = stream[d]
        BY <3>1, <3>3 DEF OrderInv, StreamsAhead, lines
      <4> DEFINE u == stream[d]
      <4>2. \A k \in LinesOf(longer, d) :
              k \in LinesOf(lines, d) /\ longer[k] = lines[k]
        BY <2>6, <2>11, <3>3 DEF LinesOf
      <4> HIDE DEF u
      <4>3. Ahead(u, d, lines, server[d])  BY <4>1 DEF u
      <4>4. LinesOf(lines, d) = {} => LinesOf(longer, d) = {}
        BY <4>2
      <4>5. Ahead(u, d, longer, server[d])
        BY <4>2, <4>3 DEF Ahead
      <4> QED  BY <4>1, <4>5 DEF u
    <3> QED  BY <3>2, <3>3
  <2>16. LinesOK'
    <3> SUFFICES ASSUME NEW i \in DOMAIN longer
                 PROVE  LET a == longer[i]
                        IN /\ Known(a, server[a.container])
                           /\ a.run <= table[a.container].run
                           /\ LeftAt(a, stream'[a.container], server[a.container],
                                     stopped[<<a.container, a.run>>])
      BY <1>3, <2>8 DEF LinesOK, LineOK
    <3>1. \A d \in Containers : stream'[d] = IF d = c THEN t ELSE stream[d]
      BY <1>1, <1>3 DEF IInv, StreamsOK
    <3>2. CASE i \in DOMAIN lines /\ longer[i] = lines[i]
      <4> DEFINE a == lines[i]
      <4>1. a.container \in Containers /\ LineOK(a)
        BY <3>2, ShownLineTyped DEF lines
      <4>2. (stream'[a.container] = None \/ stream'[a.container].run # a.run)
              => (stream[a.container] = None \/ stream[a.container].run # a.run)
        <5>1. t # None  BY <1>5, NoneAssumption
        <5> HIDE DEF t
        <5> QED  BY <1>5, <3>1, <4>1, <5>1
      <4> HIDE DEF a
      <4>3. /\ Known(a, server[a.container])
            /\ a.run <= table[a.container].run
            /\ LeftAt(a, stream'[a.container], server[a.container],
                      stopped[<<a.container, a.run>>])
        BY <4>1, <4>2 DEF LineOK, LeftAt
      <4> QED  BY <3>2, <4>3 DEF a
    <3>3. CASE longer[i] = line
      <4>1. Known(line, server[c]) /\ line.run <= table[c].run
        <5>1. s.of <= server[c].run  BY <1>2 DEF Ahead
        <5>2. s.run = table[c].run  BY <1>1, <1>2 DEF IInv, Follows
        <5> QED  BY <2>6, <2>10, <5>1, <5>2 DEF Known
      <4>2. ~(stream'[c] = None \/ stream'[c].run # line.run)
        <5>1. t # None  BY <1>5, NoneAssumption
        <5> HIDE DEF t
        <5> QED  BY <1>5, <2>6, <3>1, <5>1
      <4> QED  BY <2>6, <3>3, <4>1, <4>2 DEF LeftAt
    <3> QED  BY <2>11, <3>2, <3>3
  <2>17. LogsOK' /\ TablesOK'  BY <1>3 DEF OrderInv, LogsOK, TablesOK
  <2> QED  BY <1>1, <2>9, <2>13, <2>15, <2>16, <2>17 DEF OrderInv
<1> QED  BY <1>10, <1>11

LEMMA StepOrder == OrderInv /\ [Next]_vars => OrderInv'
<1> SUFFICES ASSUME OrderInv, [Next]_vars PROVE OrderInv'  OBVIOUS
<1>1. CASE PanelStep  BY <1>1, PanelOrders
<1>2. CASE ContainerStep
  BY <1>2, TableOrders, AnswersOrders, SendsOrders, FinishesOrders, ShowsOrders,
     ClusterOrders DEF ContainerStep
<1>3. CASE Ticks  BY <1>3, ClusterOrders
<1>4. CASE UNCHANGED vars
  <2>1. IInv'  BY <1>4, StepIInv DEF OrderInv
  <2> QED
    BY <1>4, <2>1 DEF vars, OrderInv, ViewOK, TablesOK, LogsOK, StreamsAhead, LinesOK, LineOK,
       ViewInOrder
<1> QED  BY <1>1, <1>2, <1>3, <1>4 DEF Next

-----------------------------------------------------------------------------
(* A stream's channel holds the lines read last, without a gap.             *)

Finished == {"ended", "failed"}
EndOf(s) == Len(s.queue) + IF s.stage \in Finished THEN 0 ELSE 1
Gapless(s) ==
  \A i \in DOMAIN s.queue :
    s.queue[i] = IF i = EndOf(s) THEN 0 ELSE s.next - (EndOf(s) - i)

LEMMA GaplessStreams ==
  NothingSkipped <=> \A c \in Containers : stream[c] # None => Gapless(stream[c])
BY DEF NothingSkipped, Gapless, EndOf, Finished

LEMMA EmptyIsGapless == ASSUME NEW s, s.queue = <<>> PROVE Gapless(s)
BY DEF Gapless

\* A step that drops, opens or leaves streams, and none of their own.
LEMMA OthersSkipNothing ==
  ASSUME NothingSkipped,
         \A c \in Containers : stream'[c] # None =>
           stream'[c] = stream[c] \/ stream'[c].queue = <<>>
  PROVE  NothingSkipped'
<1>1. \A c \in Containers : stream'[c] # None => Gapless(stream'[c])
  BY GaplessStreams, EmptyIsGapless
<1> QED  BY <1>1 DEF NothingSkipped, Gapless, EndOf, Finished

LEMMA SyncStartsEmpty ==
  ASSUME NEW t, NEW p, Sync(t, p), NEW c \in Containers, stream'[c] # None
  PROVE  stream'[c] = stream[c] \/ stream'[c].queue = <<>>
<1> DEFINE o == Opened(c, t, p, stopped[<<c, t[c].run>>])
<1>1. stream'[c] = IF Keeps(c, t, p) THEN stream[c]
                   ELSE IF c \in Wanted(t, p) THEN o ELSE None
  BY DEF Sync
<1>2. o.queue = <<>>  BY DEF Opened
<1> HIDE DEF o
<1> QED  BY <1>1, <1>2

LEMMA PanelSkipsNothing ==
  ASSUME NothingSkipped, PanelStep
  PROVE  NothingSkipped'
<1> SUFFICES ASSUME NEW c \in Containers, stream'[c] # None
             PROVE  stream'[c] = stream[c] \/ stream'[c].queue = <<>>
  BY OthersSkipNothing
<1>1. ASSUME NEW pods \in Selectors, Select(pods)  PROVE stream'[c].queue = <<>>
  <2> DEFINE o == Opened(c, table, panel', None)
  <2>1. stream'[c] = o  BY <1>1 DEF Select
  <2>2. o.queue = <<>>  BY DEF Opened
  <2> HIDE DEF o
  <2> QED  BY <2>1, <2>2
<1>2. ~Reset  BY DEF Reset, NoStreams
<1>3. ASSUME NEW p, SyncIfSelected(p)
      PROVE  stream'[c] = stream[c] \/ stream'[c].queue = <<>>
  BY <1>3, SyncStartsEmpty DEF SyncIfSelected
<1> QED  BY <1>1, <1>2, <1>3 DEF PanelStep, SetContainerFilter, SetNamespaces

\* A step of one stream.
LEMMA OneStreamSkipsNothing ==
  ASSUME IInv, NothingSkipped, NEW c \in Containers, NEW s, Gapless(s),
         stream' = [stream EXCEPT ![c] = s]
  PROVE  NothingSkipped'
<1>1. \A d \in Containers : stream'[d] = IF d = c THEN s ELSE stream[d]
  BY DEF IInv, StreamsOK
<1>2. \A d \in Containers : stream'[d] # None => Gapless(stream'[d])
  BY <1>1, GaplessStreams
<1> QED  BY <1>2 DEF NothingSkipped, Gapless, EndOf, Finished

\* The same of its parts.
LineAt(i, next, end) == IF i = end THEN 0 ELSE next - (end - i)
GaplessTo(q, next, end) == \A i \in 1 .. Len(q) : q[i] = LineAt(i, next, end)

LEMMA GaplessParts ==
  ASSUME NEW s, s.queue \in Seq(Nat)
  PROVE  Gapless(s) <=> GaplessTo(s.queue, s.next, EndOf(s))
<1>1. DOMAIN s.queue = 1 .. Len(s.queue)  OBVIOUS
<1> QED  BY <1>1 DEF Gapless, GaplessTo, LineAt

\* A line goes behind the one before it; the end goes behind the last.
LEMMA SendsSkipNothing ==
  ASSUME IInv, NothingSkipped, NEW c \in Containers, Sends(c) \/ Ends(c) \/ Fails(c)
  PROVE  NothingSkipped'
<1> DEFINE s == stream[c]
           q == s.queue
           k == Len(q)
           next == s.next
<1>1. s # None /\ s.stage \in {"asking", "reading"}
  BY DEF Sends, Ends, Fails, Reading
<1>2. s \in Stream /\ q \in Seq(Nat) /\ next \in Nat /\ k \in Nat
  BY <1>1, StreamTyped DEF Stream
<1>3. Gapless(s)  BY <1>1, GaplessStreams
<1>4. \A i \in 1 .. k : q[i] = next - (k + 1 - i)
  <2>1. EndOf(s) = k + 1  BY <1>1 DEF EndOf, Finished
  <2> HIDE DEF s, k
  <2>2. GaplessTo(q, next, EndOf(s))  BY <1>2, <1>3, GaplessParts
  <2> HIDE DEF q, next
  <2>3. GaplessTo(q, next, k + 1)  BY <2>1, <2>2
  <2> QED  BY <1>2, <2>3 DEF GaplessTo, LineAt, k
<1>5. CASE Sends(c)
  <2> DEFINE r == Append(q, next)
             t == [s EXCEPT !.next = next + 1, !.queue = r]
  <2>1. stream' = [stream EXCEPT ![c] = t]  BY <1>5 DEF Sends
  <2>2. t.queue = r /\ t.next = next + 1 /\ t.stage = "reading"
    BY <1>2, <1>5 DEF Stream, Sends, Reading
  <2>3. /\ r \in Seq(Nat) /\ Len(r) = k + 1 /\ r[k + 1] = next
        /\ \A i \in 1 .. k : r[i] = q[i]
    BY <1>2
  <2> HIDE DEF s, q, next, k, r, t
  <2>4. ASSUME NEW i \in 1 .. k + 1
        PROVE  r[i] = LineAt(i, next + 1, k + 2)
    <3>1. CASE i = k + 1  BY <1>2, <2>3, <3>1 DEF LineAt
    <3>2. CASE i # k + 1
      <4>1. i \in 1 .. k  BY <1>2, <3>2
      <4>2. r[i] = next - (k + 1 - i)  BY <1>4, <2>3, <4>1
      <4> QED  BY <1>2, <4>1, <4>2 DEF LineAt
    <3> QED  BY <3>1, <3>2
  <2>5. EndOf(t) = k + 2  BY <1>2, <2>2, <2>3 DEF EndOf, Finished
  <2>6. GaplessTo(r, next + 1, k + 2)
    <3>1. 1 .. Len(r) = 1 .. k + 1  BY <2>3
    <3> QED  BY <2>4, <3>1 DEF GaplessTo
  <2>7. Gapless(t)  BY <2>2, <2>3, <2>5, <2>6, GaplessParts
  <2> QED  BY <2>1, <2>7, OneStreamSkipsNothing
<1>6. CASE Ends(c) \/ Fails(c)
  <2> DEFINE r == Append(q, 0)
  <2>1. PICK stage \in Finished :
          stream' = [stream EXCEPT ![c].stage = stage, ![c].queue = Append(@, 0)]
    BY <1>6 DEF Ends, Fails, Finished
  <2> DEFINE t == [s EXCEPT !.stage = stage, !.queue = r]
  <2>2. stream' = [stream EXCEPT ![c] = t]  BY <1>2, <2>1 DEF IInv, StreamsOK
  <2>3. t.queue = r /\ t.next = next /\ t.stage = stage  BY <1>2 DEF Stream
  <2>4. /\ r \in Seq(Nat) /\ Len(r) = k + 1 /\ r[k + 1] = 0
        /\ \A i \in 1 .. k : r[i] = q[i]
    BY <1>2
  <2> HIDE DEF s, q, next, k, r, t
  <2>5. ASSUME NEW i \in 1 .. k + 1
        PROVE  r[i] = LineAt(i, next, k + 1)
    <3>1. CASE i = k + 1  BY <2>4, <3>1 DEF LineAt
    <3>2. CASE i # k + 1
      <4>1. i \in 1 .. k  BY <1>2, <3>2
      <4>2. r[i] = next - (k + 1 - i)  BY <1>4, <2>4, <4>1
      <4> QED  BY <1>2, <3>2, <4>1, <4>2 DEF LineAt
    <3> QED  BY <3>1, <3>2
  <2>6. EndOf(t) = k + 1  BY <1>2, <2>3, <2>4 DEF EndOf
  <2>7. GaplessTo(r, next, k + 1)
    <3>1. 1 .. Len(r) = 1 .. k + 1  BY <2>4
    <3> QED  BY <2>5, <3>1 DEF GaplessTo
  <2>8. Gapless(t)  BY <2>3, <2>4, <2>6, <2>7, GaplessParts
  <2> QED  BY <2>2, <2>8, OneStreamSkipsNothing
<1> QED  BY <1>5, <1>6

\* What is shown is the first in the channel: the others move up.
LEMMA ShowsSkipNothing ==
  ASSUME IInv, NothingSkipped, NEW c \in Containers, Shows(c)
  PROVE  NothingSkipped'
<1> DEFINE s == stream[c]
           q == s.queue
           k == Len(q)
           next == s.next
           r == Tail(q)
           t == [s EXCEPT !.queue = Tail(@)]
<1>1. s # None /\ q # <<>> /\ stream' = [stream EXCEPT ![c] = t]  BY DEF Shows
<1>2. s \in Stream /\ q \in Seq(Nat) /\ next \in Nat /\ k \in Nat \ {0}
  BY <1>1, StreamTyped DEF Stream
<1>3. Gapless(s)  BY <1>1, GaplessStreams
<1>4. t.queue = r /\ t.next = next /\ t.stage = s.stage  BY <1>2 DEF Stream
<1>5. r \in Seq(Nat) /\ Len(r) = k - 1 /\ \A i \in 1 .. k - 1 : r[i] = q[i + 1]
  BY <1>1, <1>2
<1> DEFINE more == IF s.stage \in Finished THEN 0 ELSE 1
<1>6. more \in {0, 1}  OBVIOUS
<1>7. \A i \in 1 .. k : q[i] = LineAt(i, next, k + more)
  <2>1. EndOf(s) = k + more  BY DEF EndOf
  <2> HIDE DEF s, k, more
  <2>2. GaplessTo(q, next, EndOf(s))  BY <1>2, <1>3, GaplessParts
  <2> HIDE DEF q, next
  <2>3. GaplessTo(q, next, k + more)  BY <2>1, <2>2
  <2>4. 1 .. Len(q) = 1 .. k  BY DEF k
  <2> QED  BY <2>3, <2>4 DEF GaplessTo
<1>8. EndOf(t) = k - 1 + more  BY <1>4, <1>5 DEF EndOf
<1> HIDE DEF s, q, next, k, r, t, more
<1>9. ASSUME NEW i \in 1 .. k - 1
      PROVE  r[i] = LineAt(i, next, k - 1 + more)
  <2>1. i + 1 \in 1 .. k /\ r[i] = q[i + 1]  BY <1>2, <1>5
  <2>2. r[i] = LineAt(i + 1, next, k + more)  BY <1>7, <2>1
  <2>3. LineAt(i + 1, next, k + more) = LineAt(i, next, k - 1 + more)
    BY <1>2, <1>6 DEF LineAt
  <2> QED  BY <2>2, <2>3
<1>10. GaplessTo(r, next, k - 1 + more)
  <2>1. 1 .. Len(r) = 1 .. k - 1  BY <1>5
  <2> QED  BY <1>9, <2>1 DEF GaplessTo
<1>11. Gapless(t)  BY <1>4, <1>5, <1>8, <1>10, GaplessParts
<1> QED  BY <1>1, <1>11, OneStreamSkipsNothing

LEMMA AnswersSkipNothing ==
  ASSUME OrderInv, NothingSkipped, NEW c \in Containers, Answers(c)
  PROVE  NothingSkipped'
<1>1. IInv /\ stream[c] # None /\ stream[c].stage = "asking"  BY DEF OrderInv, Answers
<1>2. stream[c] \in Stream /\ stream[c].queue = <<>>
  BY <1>1, StreamTyped DEF OrderInv, StreamsAhead, Ahead
<1>3. PICK first, last :
        stream' = [stream EXCEPT ![c].stage = "reading", ![c].of = server[c].run,
                     ![c].next = first, ![c].last = last]
  BY DEF Answers
<1> DEFINE t == [stream[c] EXCEPT !.stage = "reading", !.of = server[c].run,
                   !.next = first, !.last = last]
<1>4. stream' = [stream EXCEPT ![c] = t]  BY <1>1, <1>3 DEF IInv, StreamsOK
<1>5. t.queue = <<>>  BY <1>2 DEF Stream
<1> HIDE DEF t
<1> QED  BY <1>1, <1>4, <1>5, EmptyIsGapless, OneStreamSkipsNothing

LEMMA StepSkipsNothing ==
  OrderInv /\ NothingSkipped /\ [Next]_vars => NothingSkipped'
<1> SUFFICES ASSUME OrderInv, NothingSkipped, [Next]_vars PROVE NothingSkipped'  OBVIOUS
<1>1. IInv  BY DEF OrderInv
<1>2. CASE PanelStep  BY <1>2, PanelSkipsNothing
<1>3. ASSUME NEW c \in Containers, TableShows(c)  PROVE NothingSkipped'
  <2>1. Sync(table', panel)  BY <1>3 DEF TableShows
  <2> QED  BY <2>1, SyncStartsEmpty, OthersSkipNothing
<1>4. ASSUME NEW c \in Containers,
             Answers(c) \/ Sends(c) \/ Ends(c) \/ Fails(c) \/ Shows(c)
      PROVE  NothingSkipped'
  BY <1>1, <1>4, AnswersSkipNothing, SendsSkipNothing, ShowsSkipNothing
<1>5. ASSUME UNCHANGED stream  PROVE NothingSkipped'  BY <1>5 DEF NothingSkipped
<1>6. ASSUME NEW c \in Containers, Starts(c) \/ Writes(c) \/ Terminates(c) \/ Deleted(c)
      PROVE  UNCHANGED stream
  BY <1>6 DEF Starts, Writes, Terminates, Deleted
<1>7. Ticks \/ UNCHANGED vars => UNCHANGED stream  BY DEF Ticks, vars
<1> QED  BY <1>2, <1>3, <1>4, <1>5, <1>6, <1>7 DEF Next, ContainerStep

\* The view shows a container's instances one after the other, and what the streams
\* of one instance send in the order of its log and once: through drops and resumes
\* a second later, restarts of the container and full channels (sync_labels,
\* label_target, apply_from), by a clock that is not behind the node's.  A line may
\* come again only by the stream of a later instance, or by a clock that is behind.
\* A stream's lines wait in its channel without a gap, so that none is skipped
\* (read_container_logs).
THEOREM SpecLinesInOrder == Spec => []LinesInOrder
<1>1. Spec => []OrderInv  BY InitOrder, StepOrder, PTL DEF Spec
<1>2. OrderInv => ViewInOrder  BY DEF OrderInv
<1>3. Init => NothingSkipped  BY DEF Init, NoStreams, NothingSkipped
<1>4. Spec => []NothingSkipped  BY <1>1, <1>3, StepSkipsNothing, PTL DEF Spec
<1>5. ViewInOrder /\ NothingSkipped => LinesInOrder  BY DEF LinesInOrder
<1> QED  BY <1>1, <1>2, <1>4, <1>5, PTL
=============================================================================
