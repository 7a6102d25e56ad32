------------------------------- MODULE LabelLogs -------------------------------
(***************************************************************************)
(* A Logs panel that follows a label selector (util/logs/labels): one log  *)
(* stream per started container the selector picks, all into one view.     *)
(* Streams start, stop and resume as the shared Pods watch, the selector,  *)
(* the namespaces and the container filter change what is picked, up to a  *)
(* number of streams at once.                                              *)
(*                                                                         *)
(* The panel is modelled from its connection on.  Every change to it is a  *)
(* handler on the main thread, with the sync it ends in; each stream reads *)
(* its container's log on the runtime and sends the lines over a bounded   *)
(* channel of its own, which a main-thread task drains into the view.      *)
(* The app notes the time by its own clock and asks for a log from then    *)
(* on; lines are stamped by the clock of the container's node.             *)
(***************************************************************************)
EXTENDS Integers, Sequences, FiniteSets

CONSTANTS
  Containers,   \* the containers of the cluster's pods
  Pod,          \* container -> the name of its pod
  Namespace,    \* container -> the namespace of its pod
  Name,         \* container -> its own name
  Rank,         \* container -> its place in the order of stream keys
  Skew,         \* container -> the seconds the app's clock is ahead of its node's
  Coloured,     \* containers whose lines leave a colour on
  MaxStreams,   \* LABEL_LOGS_MAX_STREAMS
  TailLines,    \* LABEL_LOGS_TAIL_LINES
  Capacity,     \* LOG_CHANNEL_CAPACITY
  Selectors,    \* bound on the selectors typed, as the pods each matches
  Scopes,       \* bound on the namespaces picked
  Filters,      \* bound on the container filters set
  Active,       \* bound on the containers that do more than start once
  MaxLines,     \* bound on the lines written
  MaxSecond,    \* bound on the clock
  None          \* no stream, no filter, no selector, no colour

VARIABLES
  second,   \* the clock of the nodes, which stamp the lines
  server,   \* container -> its instance, its state and the log of every instance
  table,    \* container -> its instance and state as the Pods table shows them
  panel,    \* what the panel picks: selector, namespaces and container filter
  stream,   \* container -> the stream reading it into the view
  stopped,  \* instance -> when its stream was dropped
  view      \* the lines shown, and the colour each tag's last line left on

vars == <<second, server, table, panel, stream, stopped, view>>

Runs == {0, 1}
States == {"waiting", "running", "terminated"}
Started == {"running", "terminated"}
Line == [second : Nat, colour : BOOLEAN]
Instance == Containers \X Runs

-----------------------------------------------------------------------------
(* What a panel wants, and the streams it has.                              *)

\* The containers picked that have a log: those of a pod the selector matches
\* in one of the namespaces, named as the filter says if there is one.
Picked(t, p) ==
  {c \in Containers :
     /\ t[c].state \in Started
     /\ p.selector # None /\ Pod[c] \in p.selector
     /\ Namespace[c] \in p.namespaces
     /\ p.filter \in {None, Name[c]}}

\* The first of them, up to the cap.
Wanted(t, p) ==
  LET picked == Picked(t, p)
  IN {c \in picked : Cardinality({d \in picked : Rank[d] < Rank[c]}) < MaxStreams}

\* A line's tag: its pod, and the container where several are picked in the pod.
Tag(t, p, c) ==
  LET several == {d \in Picked(t, p) : Pod[d] = Pod[c] /\ Namespace[d] = Namespace[c]}
  IN [pod |-> Pod[c],
      container |-> IF Cardinality(several) > 1 THEN Name[c] ELSE None]

\* Mutant: a stream that comes back starts at its tail again.
SinceTail(at) == None

\* Where the request for an instance starts: at its tail, or for one shown
\* before, at the next whole second after its stream was dropped.
Since(at) == IF at = None THEN None ELSE at + 1

\* The request is made, and not answered yet.
Opened(c, t, p, at) ==
  [run |-> t[c].run, follow |-> t[c].state = "running", tag |-> Tag(t, p, c),
   since |-> Since(at), stage |-> "asking",
   of |-> 0, next |-> 0, last |-> 0, queue |-> <<>>]

\* Mutant: a container is known by its name, whichever instance of it.
KeepsByName(c, t, p) == stream[c] # None /\ c \in Wanted(t, p)

Keeps(c, t, p) ==
  /\ stream[c] # None /\ c \in Wanted(t, p)
  /\ stream[c].run = t[c].run

\* sync_labels: drops the streams no longer wanted, noting when by the app's own
\* clock, and opens those newly wanted, where they were if they come back.
Sync(t, p) ==
  /\ stream' = [c \in Containers |->
       IF Keeps(c, t, p) THEN stream[c]
       ELSE IF c \in Wanted(t, p) THEN Opened(c, t, p, stopped[<<c, t[c].run>>]) ELSE None]
  /\ stopped' = [i \in Instance |->
       IF stream[i[1]] # None /\ stream[i[1]].run = i[2] /\ ~Keeps(i[1], t, p)
       THEN second + Skew[i[1]]
       ELSE IF i[1] \in Wanted(t, p) /\ t[i[1]].run = i[2] THEN None
       ELSE stopped[i]]

NoLines == [lines |-> <<>>, colours |-> <<>>]
NeverStopped == [i \in Instance |-> None]
NoStreams == [c \in Containers |-> None]

-----------------------------------------------------------------------------
(* The panel's handlers.                                                    *)

\* The Pods table changed: it shows c as the cluster has it now.
TableShows(c) ==
  /\ table[c] # [run |-> server[c].run, state |-> server[c].state]
  /\ table' = [table EXCEPT ![c] = [run |-> server[c].run, state |-> server[c].state]]
  /\ Sync(table', panel)
  /\ UNCHANGED <<second, server, panel, view>>

\* apply_selector_text: another selector starts over, onto a fresh view.
Select(pods) ==
  /\ pods # panel.selector
  /\ panel' = [panel EXCEPT !.selector = pods]
  /\ stream' = [c \in Containers |->
       IF c \in Wanted(table, panel') THEN Opened(c, table, panel', None) ELSE None]
  /\ stopped' = NeverStopped
  /\ view' = NoLines
  /\ UNCHANGED <<second, server, table>>

\* reset_labels: everything stops, and the panel is as it opened.
Reset ==
  /\ panel.selector # None \/ panel.filter # None
  /\ panel' = [panel EXCEPT !.selector = None, !.filter = None]
  /\ stream' = NoStreams
  /\ stopped' = NeverStopped
  /\ view' = NoLines
  /\ UNCHANGED <<second, server, table>>

\* A sync without a selector does nothing.
SyncIfSelected(p) ==
  IF p.selector = None THEN UNCHANGED <<stream, stopped>> ELSE Sync(table, p)

SetContainerFilter(name) ==
  /\ name # panel.filter
  /\ panel' = [panel EXCEPT !.filter = name]
  /\ SyncIfSelected(panel')
  /\ UNCHANGED <<second, server, table, view>>

SetNamespaces(namespaces) ==
  /\ namespaces # panel.namespaces
  /\ panel' = [panel EXCEPT !.namespaces = namespaces]
  /\ SyncIfSelected(panel')
  /\ UNCHANGED <<second, server, table, view>>

-----------------------------------------------------------------------------
(* A stream: the request, its lines and its end.                            *)

Reading(c) == stream[c] # None /\ stream[c].stage = "reading"
HasRoom(c) == Len(stream[c].queue) < Capacity
Log(c) == server[c].log[stream[c].of]

\* The API answers: the request names the container, so it reads the instance
\* the container has now.
Answers(c) ==
  /\ stream[c] # None /\ stream[c].stage = "asking"
  /\ server[c].state \in Started
  /\ LET log == server[c].log[server[c].run]
         since == stream[c].since
         first == IF since = None THEN (IF Len(log) > TailLines THEN Len(log) + 1 - TailLines ELSE 1)
                  ELSE 1 + Cardinality({i \in DOMAIN log : log[i].second < since})
     IN stream' = [stream EXCEPT ![c].stage = "reading", ![c].of = server[c].run,
                     ![c].next = first, ![c].last = Len(log)]
  /\ UNCHANGED <<second, server, table, panel, stopped, view>>

\* Mutant: a line that finds the channel full is dropped.
SendsIfRoom(c) ==
  /\ Reading(c)
  /\ stream[c].next <= Len(Log(c)) /\ (stream[c].follow \/ stream[c].next <= stream[c].last)
  /\ stream' = [stream EXCEPT ![c].next = @ + 1,
                  ![c].queue = IF HasRoom(c) THEN Append(@, stream[c].next) ELSE @]
  /\ UNCHANGED <<second, server, table, panel, stopped, view>>

\* Mutant: the channel has no bound.
SendsUnbounded(c) ==
  /\ Reading(c)
  /\ stream[c].next <= Len(Log(c)) /\ (stream[c].follow \/ stream[c].next <= stream[c].last)
  /\ stream' = [stream EXCEPT ![c].next = @ + 1, ![c].queue = Append(@, stream[c].next)]
  /\ UNCHANGED <<second, server, table, panel, stopped, view>>

Sends(c) ==
  /\ Reading(c) /\ HasRoom(c)
  /\ stream[c].next <= Len(Log(c)) /\ (stream[c].follow \/ stream[c].next <= stream[c].last)
  /\ stream' = [stream EXCEPT ![c].next = @ + 1, ![c].queue = Append(@, stream[c].next)]
  /\ UNCHANGED <<second, server, table, panel, stopped, view>>

\* The log is read to its end: the snapshot's, or the instance's own.
Ends(c) ==
  /\ Reading(c) /\ HasRoom(c)
  /\ stream[c].next > IF stream[c].follow THEN Len(Log(c)) ELSE stream[c].last
  /\ stream[c].follow => stream[c].of # server[c].run \/ server[c].state # "running"
  /\ stream' = [stream EXCEPT ![c].stage = "ended", ![c].queue = Append(@, 0)]
  /\ UNCHANGED <<second, server, table, panel, stopped, view>>

\* The request fails, or the reading does; the stream stays, and is not retried.
Fails(c) ==
  /\ stream[c] # None /\ stream[c].stage \in {"asking", "reading"} /\ HasRoom(c)
  /\ stream' = [stream EXCEPT ![c].stage = "failed", ![c].queue = Append(@, 0)]
  /\ UNCHANGED <<second, server, table, panel, stopped, view>>

Without(f, x) == [y \in DOMAIN f \ {x} |-> f[y]]
With(f, x, v) == [y \in DOMAIN f \cup {x} |-> IF y = x THEN v ELSE f[y]]
Colour(tag) == IF tag \in DOMAIN view.colours THEN view.colours[tag] ELSE None

\* apply_from: a line begins in the colour its tag's last one left on; an end or
\* a failure is a line of the panel's, and ends it.
Shows(c) ==
  /\ stream[c] # None /\ stream[c].queue # <<>>
  /\ stream' = [stream EXCEPT ![c].queue = Tail(@)]
  /\ LET n == Head(stream[c].queue)
         tag == stream[c].tag
         begins == Colour(tag)
     IN view' =
       IF n = 0 THEN [view EXCEPT !.colours = Without(@, tag)]
       ELSE [lines |-> Append(view.lines,
               [container |-> c, run |-> stream[c].run, of |-> stream[c].of,
                n |-> n, begins |-> begins]),
             colours |-> With(view.colours, tag,
               IF Log(c)[n].colour THEN c ELSE begins)]
  /\ UNCHANGED <<second, server, table, panel, stopped>>

-----------------------------------------------------------------------------
(* The cluster.                                                             *)

\* A container starts, or starts again as a new instance.
Starts(c) ==
  LET run == server[c].run + IF server[c].state = "terminated" THEN 1 ELSE 0
  IN /\ server[c].state # "running"
     /\ run \in Runs
     /\ server' = [server EXCEPT ![c].state = "running", ![c].run = run]
     /\ UNCHANGED <<second, table, panel, stream, stopped, view>>

Written == {i \in Instance \X (1..MaxLines) : i[2] <= Len(server[i[1][1]].log[i[1][2]])}

Writes(c) ==
  /\ c \in Active /\ server[c].state = "running"
  /\ Cardinality(Written) < MaxLines
  /\ server' = [server EXCEPT ![c].log[server[c].run] =
       Append(@, [second |-> second, colour |-> c \in Coloured])]
  /\ UNCHANGED <<second, table, panel, stream, stopped, view>>

Terminates(c) ==
  /\ c \in Active /\ server[c].state = "running"
  /\ server' = [server EXCEPT ![c].state = "terminated"]
  /\ UNCHANGED <<second, table, panel, stream, stopped, view>>

\* The pod goes, and comes back under its name as another one.
Deleted(c) ==
  /\ c \in Active /\ server[c].state # "waiting" /\ server[c].run = 0
  /\ server' = [server EXCEPT ![c].state = "waiting", ![c].run = @ + 1]
  /\ UNCHANGED <<second, table, panel, stream, stopped, view>>

Ticks ==
  /\ second < MaxSecond
  /\ second' = second + 1
  /\ UNCHANGED <<server, table, panel, stream, stopped, view>>

-----------------------------------------------------------------------------
Pods == {Pod[c] : c \in Containers}
Namespaces == {Namespace[c] : c \in Containers}
Names == {Name[c] : c \in Containers}

Init ==
  /\ second = 0
  /\ server = [c \in Containers |->
       [run |-> 0, state |-> "waiting", log |-> [r \in Runs |-> <<>>]]]
  /\ table = [c \in Containers |-> [run |-> 0, state |-> "waiting"]]
  /\ panel = [selector |-> None, namespaces |-> Namespaces, filter |-> None]
  /\ stream = NoStreams
  /\ stopped = NeverStopped
  /\ view = NoLines

PanelStep ==
  \/ \E pods \in Selectors : Select(pods)
  \/ Reset
  \/ \E name \in Filters : SetContainerFilter(name)
  \/ \E namespaces \in Scopes : SetNamespaces(namespaces)

ContainerStep ==
  \E c \in Containers :
    \/ TableShows(c)
    \/ Answers(c) \/ Sends(c) \/ Ends(c) \/ Fails(c) \/ Shows(c)
    \/ Starts(c) \/ Writes(c) \/ Terminates(c) \/ Deleted(c)

Next == PanelStep \/ ContainerStep \/ Ticks

\* The runtime polls every stream's task, and the main thread drains every
\* channel.  The API need not answer, nor the log grow.
Fairness == \A c \in Containers : WF_vars(Sends(c)) /\ WF_vars(Shows(c))

Spec == Init /\ [][Next]_vars
FairSpec == Spec /\ Fairness

-----------------------------------------------------------------------------
(* Properties.                                                              *)

TagsOf == [pod : Pods, container : Names \cup {None}]
Stream ==
  [run : Runs, follow : BOOLEAN, tag : TagsOf, since : Int \cup {None},
   stage : {"asking", "reading", "ended", "failed"}, of : Runs, next : Nat, last : Nat,
   queue : Seq(Nat)]
Panel ==
  [selector : (SUBSET Pods) \cup {None}, namespaces : SUBSET Namespaces,
   filter : Names \cup {None}]

ASSUME NoneAssumption == None \notin Stream \cup Int
ASSUME BoundsAssumption ==
  /\ {MaxStreams, TailLines, Capacity, MaxLines, MaxSecond} \subseteq Nat
  /\ Selectors \subseteq SUBSET Pods /\ Scopes \subseteq SUBSET Namespaces
  /\ Filters \subseteq Names \cup {None}
ASSUME SkewAssumption == Skew \in [Containers -> Int]

TypeOK ==
  /\ second \in 0..MaxSecond
  /\ server \in [Containers -> [run : Runs, state : States, log : [Runs -> Seq(Line)]]]
  /\ table \in [Containers -> [run : Runs, state : States]]
  /\ panel \in Panel
  /\ stream \in [Containers -> Stream \cup {None}]
  /\ \A c \in Containers : stream[c] # None => Len(stream[c].queue) <= Capacity
  /\ stopped \in [Instance -> Int \cup {None}]

\* The streams are those the panel wants of what the table shows, of the
\* instances it shows, and never more than the cap: no order of pod updates,
\* selectors, namespaces and filters leaves a stream behind or one out.
StreamsAreWanted ==
  /\ TypeOK
  /\ \A c \in Containers :
       /\ stream[c] # None <=> c \in Wanted(table, panel)
       /\ stream[c] # None => stream[c].run = table[c].run

\* Line a is shown before the n-th line of instance of, by the stream of instance run.
Precedes(a, run, of, n) ==
  /\ a.run <= run /\ a.of <= of
  /\ a.run = run /\ Skew[a.container] >= 0 => a.of < of \/ a.n < n

\* Of a container the view shows no line after one of a later instance, whatever
\* the clocks say; and what the streams of one instance show, however often they
\* are dropped and come back, is in the order written and no line twice, unless
\* the app's clock is behind the node's.
ViewInOrder ==
  \A i, j \in DOMAIN view.lines :
    LET a == view.lines[i]
        b == view.lines[j]
    IN i < j /\ a.container = b.container => Precedes(a, b.run, b.of, b.n)

\* A stream's channel holds the lines read last, one after the other up to the next
\* to read, and after them its end: a full channel skips none.
NothingSkipped ==
  \A c \in Containers : stream[c] # None =>
    LET queue == stream[c].queue
        end == Len(queue) + IF stream[c].stage \in {"ended", "failed"} THEN 0 ELSE 1
    IN \A i \in DOMAIN queue :
         queue[i] = IF i = end THEN 0 ELSE stream[c].next - (end - i)

\* Instances are shown one after the other, the lines of one stream and of those
\* that resume it once and in the order written, and a full channel skips none.
LinesInOrder == ViewInOrder /\ NothingSkipped

Shown(c, of, n) ==
  \E i \in DOMAIN view.lines :
    LET line == view.lines[i] IN line.container = c /\ line.of = of /\ line.n = n

\* The next line a stream reads is there: a follower's, or one of the snapshot.
Due(c, of, n) ==
  /\ Reading(c) /\ stream[c].of = of /\ stream[c].next = n
  /\ n <= IF stream[c].follow THEN Len(Log(c)) ELSE stream[c].last

\* A line a stream is due to send is shown, unless the stream is dropped or
\* fails before: a full channel delays it and never loses it.
DueLineIsShown ==
  \A c \in Containers, of \in Runs, n \in 1..MaxLines :
    Due(c, of, n)
      ~> (Shown(c, of, n) \/ stream[c] = None \/ stream[c].stage \in {"asking", "failed"})

-----------------------------------------------------------------------------
(* What the source says of itself, and the code does not do.                *)

\* view.rs: "one pod's colour never runs into another's lines".
ColourStaysWithItsPod ==
  \A i \in DOMAIN view.lines :
    LET line == view.lines[i]
    IN line.begins # None =>
         /\ Pod[line.begins] = Pod[line.container]
         /\ Namespace[line.begins] = Namespace[line.container]
=============================================================================
