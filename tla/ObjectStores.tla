----------------------------- MODULE ObjectStores -----------------------------
(***************************************************************************)
(* The live table of one kind's objects and what feeds it: a kube_runtime  *)
(* watch on the tokio side, or a poller for a kind that cannot be watched, *)
(* over a bounded channel to the main thread (cluster/watch_stream, the    *)
(* stores of Pods, of any kind and of Events, object_list/poll).  A watch  *)
(* starts with a list: Init, its objects, InitDone; errors make it start   *)
(* again at any point, and objects deleted meanwhile are only missing from *)
(* the next list.                                                          *)
(*                                                                         *)
(* The server's changes are numbered, as resourceVersion numbers them; a   *)
(* row is the number of the change it shows.                               *)
(***************************************************************************)
EXTENDS ResourceIndex, FiniteSets, SequencesExt

CONSTANTS
  Uids,        \* objects of the kind
  Kinds,       \* the sorts of kinds this may be, of AllKinds
  MaxChanges,  \* bound on the server's changes
  Capacity     \* of the channel: 64 for a watch, 4 for a poller

\* "pods": a 403 is retried.  "watched": it ends the watch, as for Events.
\* "unversioned": its list has no resourceVersion.  "polled": it has no watch verb.
AllKinds == {"pods", "watched", "unversioned", "polled"}

ASSUME UidsAssumption == IsFiniteSet(Uids)
ASSUME KindsAssumption == Kinds \subseteq AllKinds
ASSUME BoundAssumption == MaxChanges \in Nat /\ Capacity \in Nat \ {0}

VARIABLES
  kind,    \* the sort of kind
  log,     \* the server's changes
  feed,    \* the watch or poller on the tokio side
  chan,    \* the channel to the main thread
  table    \* the table

vars == <<kind, log, feed, chan, table>>

-----------------------------------------------------------------------------
Changes == {"Added", "Modified", "Deleted"}
Phases == {"FirstLoad", "Loaded", "Refreshing"}

\* relisting: in a list, which has given the uids seen so far.  journal: the
\* changes that flash, by the number of the change.
EmptyTable ==
  [index |-> EmptyIndex, relisting |-> FALSE, seen |-> {}, phase |-> "FirstLoad",
   refused |-> FALSE, journal |-> {}]

\* A watcher: "empty", about to list; "list", its Init is out; "page", with the
\* objects left of a list as of rv; "watch", after rv.  A poller: "poll", about to
\* list; "wait".  "ended": it returned.  "off": nothing feeds the table.
FeedStages == {"empty", "list", "page", "watch", "poll", "wait", "ended", "off"}

Off == [st |-> "off", rv |-> 0, left |-> {}]
Started(k) == [Off EXCEPT !.st = IF k = "polled" THEN "poll" ELSE "empty"]

TypeOK ==
  /\ kind \in Kinds
  /\ log \in Seq([uid : Uids, change : Changes])
  /\ feed \in [st : FeedStages, rv : 0 .. Len(log), left : SUBSET Uids]
  /\ Len(chan) <= Capacity
  /\ table.seen \in SUBSET Uids /\ (~table.relisting => table.seen = {})
  /\ table.phase \in Phases
  /\ table.phase = "FirstLoad" => table.journal = {}
  /\ \A entry \in table.journal : entry.change \in Changes

Init ==
  /\ kind \in Kinds
  /\ log = <<>>
  /\ feed = Off
  /\ chan = <<>>
  /\ table = EmptyTable

-----------------------------------------------------------------------------
\* The objects the server has after its first n changes: the last change of each.
StateAt(n) ==
  [u \in Uids |->
     LET last == Max({i \in 1 .. n : log[i].uid = u} \cup {0})
     IN IF last = 0 THEN 0 ELSE IF log[last].change = "Deleted" THEN 0 ELSE last]
Now == StateAt(Len(log))

\* The objects there are in a state of the server.
Present(state) == {u \in Uids : state[u] # 0}

\* The lists the server may give of it: each object once, in any order.
ListsOf(state) ==
  {[i \in DOMAIN order |-> [uid |-> order[i], rv |-> state[order[i]]]] :
     order \in {o \in [1 .. Cardinality(Present(state)) -> Present(state)] :
                 Range(o) = Present(state)}}

\* What the table shows of each object.
Shown ==
  [u \in Uids |-> IF contains(table.index, u) THEN RowOf(table.index, u) ELSE 0]

live(t) == ~t.relisting /\ t.phase # "FirstLoad"

-----------------------------------------------------------------------------
\* The table's events (apply).  The journal of a live change has its number.
Journals(t, rv, change) ==
  IF live(t) THEN t.journal \cup {[rv |-> rv, change |-> change]} ELSE t.journal

Apply(t, u, rv) ==
  [t EXCEPT
    !.journal = Journals(t, rv, IF contains(t.index, u) THEN "Modified" ELSE "Added"),
    !.index = apply_applied(@, u, rv)]

InitApply(t, u, rv) ==
  [t EXCEPT !.seen = IF t.relisting THEN @ \cup {u} ELSE @,
            !.index = apply_applied(@, u, rv)]

Delete(t, u, rv) ==
  [t EXCEPT !.journal = IF contains(t.index, u) THEN Journals(t, rv, "Deleted") ELSE @,
            !.index = apply_deleted(@, u)]

\* Mutant: a relist starts from an empty table.
InitClears(t) ==
  [t EXCEPT !.refused = FALSE, !.relisting = TRUE, !.seen = {}, !.index = EmptyIndex,
            !.phase = IF @ = "FirstLoad" THEN @ ELSE "Refreshing"]

\* Mutant: a relist that starts again goes on with what the last one had seen.
InitKeepsSeen(t) ==
  [t EXCEPT !.refused = FALSE, !.relisting = TRUE,
            !.phase = IF @ = "FirstLoad" THEN @ ELSE "Refreshing"]

\* A list starts, perhaps again. (The Pods table keeps no refusal.)
Starts(t) ==
  [t EXCEPT !.refused = FALSE, !.relisting = TRUE, !.seen = {},
            !.phase = IF @ = "FirstLoad" THEN @ ELSE "Refreshing"]

\* Mutant: the list ends without a sweep.
EndsUnswept(t) ==
  [t EXCEPT !.relisting = FALSE, !.seen = {}, !.phase = "Loaded"]

\* The index once the rows of these uids are taken out, one after the other.
Without(index, stale) ==
  LET after[n \in 0 .. Len(index.uids)] ==
        IF n = 0 THEN index
        ELSE IF index.uids[n] \in stale
             THEN apply_deleted(after[n - 1], index.uids[n])
             ELSE after[n - 1]
  IN after[Len(index.uids)]

\* Mutant: it sweeps what it saw.
SweepsSeen(t) ==
  IF ~t.relisting
  THEN t
  ELSE [t EXCEPT !.index = Without(@, t.seen),
                 !.relisting = FALSE, !.seen = {}, !.phase = "Loaded"]

\* A list ends: the rows it did not see go.
InitDone(t) ==
  IF ~t.relisting
  THEN t
  ELSE [t EXCEPT !.index = Without(@, Uids \ t.seen),
                 !.relisting = FALSE, !.seen = {}, !.phase = "Loaded"]

\* One poll's list, applied as a relist.
replace_all(t, objects) ==
  LET after[n \in 0 .. Len(objects)] ==
        IF n = 0 THEN Starts(t)
        ELSE InitApply(after[n - 1], objects[n].uid, objects[n].rv)
  IN InitDone(after[Len(objects)])

-----------------------------------------------------------------------------
\* The server: a uid is created once, and does not return once deleted.
CanChange(u, change) ==
  IF change = "Added"
  THEN \A i \in 1 .. Len(log) : log[i].uid # u
  ELSE Now[u] # 0

ServerChanges ==
  /\ Len(log) < MaxChanges
  /\ \E u \in Uids, change \in Changes :
       /\ CanChange(u, change)
       /\ log' = Append(log, [uid |-> u, change |-> change])
  /\ UNCHANGED <<kind, feed, chan, table>>

-----------------------------------------------------------------------------
\* Mutant: nothing holds it up.
SendsAnyway(outcome) ==
  /\ chan' = Append(chan, outcome)
  /\ UNCHANGED <<kind, log, table>>

\* The tokio side. A full channel holds it up.
Sends(outcome) ==
  /\ Len(chan) < Capacity
  /\ chan' = Append(chan, outcome)
  /\ UNCHANGED <<kind, log, table>>

SendInit ==
  /\ feed.st = "empty"
  /\ Sends([k |-> "Init"])
  /\ feed' = [feed EXCEPT !.st = "list"]

\* The list is of one moment, however many pages it comes in.
List ==
  /\ feed.st = "list"
  /\ kind # "unversioned"
  /\ feed' = [st |-> "page", rv |-> Len(log), left |-> Present(Now)]
  /\ UNCHANGED <<kind, log, chan, table>>

SendRow ==
  /\ feed.st = "page"
  /\ \E u \in feed.left :
       /\ Sends([k |-> "InitApply", uid |-> u, rv |-> StateAt(feed.rv)[u]])
       /\ feed' = [feed EXCEPT !.left = @ \ {u}]

SendDone ==
  /\ feed.st = "page"
  /\ feed.left = {}
  /\ Sends([k |-> "InitDone"])
  /\ feed' = [feed EXCEPT !.st = "watch"]

SendChange ==
  LET next == feed.rv + 1
      change == log[next]
  IN /\ feed.st = "watch"
     /\ feed.rv < Len(log)
     /\ Sends([k |-> IF change.change = "Deleted" THEN "Delete" ELSE "Apply",
               uid |-> change.uid, rv |-> next])
     /\ feed' = [feed EXCEPT !.rv = next]

\* A page of the list fails, or the changes since rv are no longer kept: the
\* watcher lists again, after a backoff. (A watch that only breaks off is taken up
\* at rv, which changes nothing here. That the channel has room is no loss: what
\* comes next waits for it.)
StartsAgain ==
  /\ feed.st \in {"list", "page", "watch"}
  /\ Len(chan) < Capacity
  /\ feed' = [feed EXCEPT !.st = "empty", !.left = {}]
  /\ UNCHANGED <<kind, log, chan, table>>

EndsWith(outcome) ==
  /\ Sends([k |-> outcome])
  /\ feed' = [Off EXCEPT !.st = "ended"]

\* A list without a resourceVersion, at its first page.
SendNoVersion ==
  /\ feed.st = "list"
  /\ kind = "unversioned"
  /\ EndsWith("NoResourceVersion")

SendUnauthorized ==
  /\ feed.st \in {"list", "page", "watch", "poll"}
  /\ EndsWith("Unauthorized")

SendRefused ==
  /\ feed.st \in {"list", "page", "watch", "poll"}
  /\ kind # "pods"
  /\ EndsWith("Refused")

\* poll_kind lists, and waits; a failed list is tried again at the next tick.
Poll ==
  /\ feed.st = "poll"
  /\ \E objects \in ListsOf(Now) : Sends([k |-> "Listed", objects |-> objects])
  /\ feed' = [feed EXCEPT !.st = "wait"]

PollFails ==
  /\ feed.st = "poll"
  /\ feed' = [feed EXCEPT !.st = "wait"]
  /\ UNCHANGED <<kind, log, chan, table>>

PollAgain ==
  /\ feed.st = "wait"
  /\ feed' = [feed EXCEPT !.st = "poll"]
  /\ UNCHANGED <<kind, log, chan, table>>

-----------------------------------------------------------------------------
\* The main thread takes the next outcome.
Applied(outcome) ==
  CASE outcome.k = "Apply"     -> Apply(table, outcome.uid, outcome.rv)
    [] outcome.k = "Delete"    -> Delete(table, outcome.uid, outcome.rv)
    [] outcome.k = "InitApply" -> InitApply(table, outcome.uid, outcome.rv)
    [] outcome.k = "Init"      -> Starts(table)
    [] outcome.k = "InitDone"  -> InitDone(table)
    [] outcome.k = "Listed"    -> replace_all(table, outcome.objects)
    [] outcome.k = "Refused"   -> [table EXCEPT !.refused = TRUE]

Ends(outcome) == outcome.k \in {"Unauthorized", "NoResourceVersion"}

TakeRow ==
  /\ chan # <<>>
  /\ ~Ends(Head(chan))
  /\ chan' = Tail(chan)
  /\ table' = Applied(Head(chan))
  /\ UNCHANGED <<kind, log, feed>>

\* A 401 pauses the session, which drops the watch; an unversioned list is polled.
TakeEnd ==
  /\ chan # <<>>
  /\ Ends(Head(chan))
  /\ chan' = <<>>
  /\ feed' = IF Head(chan).k = "Unauthorized" THEN Off ELSE Started("polled")
  /\ UNCHANGED <<kind, log, table>>

\* The session pauses, or the last panel goes: dropping the task ends the watch,
\* and what it sent goes with the channel.
Pause ==
  /\ feed.st # "off"
  /\ feed' = Off
  /\ chan' = <<>>
  /\ UNCHANGED <<kind, log, table>>

\* The session resumes, or a panel subscribes: a new watch, into the same table.
Resume ==
  /\ feed.st = "off"
  /\ feed' = Started(kind)
  /\ UNCHANGED <<kind, log, chan, table>>

-----------------------------------------------------------------------------
Watches == SendInit \/ List \/ SendRow \/ SendDone \/ SendChange \/ SendNoVersion
Polls == Poll \/ PollAgain
Fails == StartsAgain \/ SendUnauthorized \/ SendRefused \/ PollFails
Takes == TakeRow \/ TakeEnd

Next == ServerChanges \/ Watches \/ Polls \/ Fails \/ Takes \/ Pause \/ Resume

Spec == Init /\ [][Next]_vars

\* Both sides are polled; requests that may fail succeed now and then,
\* and so does a list as a whole.
Fairness ==
  /\ WF_vars(Takes) /\ WF_vars(SendInit) /\ WF_vars(PollAgain)
  /\ \A n \in 1 .. Cardinality(Uids) : SF_vars(SendRow /\ Cardinality(feed.left) = n)
  /\ SF_vars(List) /\ SF_vars(SendDone) /\ SF_vars(SendChange)
  /\ SF_vars(SendNoVersion) /\ SF_vars(Poll)

FairSpec == Spec /\ Fairness

-----------------------------------------------------------------------------
\* A row is found under its uid, through the swaps of a sweep (ResourceIndex).
IndexIsConsistent == WellFormed(table.index)

\* The index, and where the table and its feed are in their lists, fit together.
TableIsSound == TypeOK /\ IndexIsConsistent

\* Once a list has completed and outside another, the table is the server's
\* objects of one moment: nothing deleted while the watch was down stays
\* (InitDone's sweep), nothing is missing.  When it has taken all that its watch
\* sent, that moment is the watch's: no change on the way was skipped.
ShowsOneMoment ==
  /\ live(table) => \E n \in 0 .. Len(log) : Shown = StateAt(n)
  /\ feed.st = "watch" /\ chan = <<>> => ~table.relisting /\ Shown = StateAt(feed.rv)

\* What flashes is what happened to the object, not what the table missed
\* (row_flash: never the first list, a relist or a resync).
FlashesWhatHappened ==
  \A entry \in table.journal : log[entry.rv].change = entry.change

View == INSTANCE LiveView WITH shown <- Shown

\* Through errors, restarts and polls no row goes back in time, and none goes
\* while its object lives: an absent one means gone (LoadPhase).
ImplementsLiveView == View!Spec

\* If the watch is left to run, the table catches up with the server.
CatchesUp ==
  <>[](feed.st \notin {"off", "ended"}) => <>[](Shown = Now)
=============================================================================
