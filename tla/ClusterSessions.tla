--------------------------- MODULE ClusterSessions ---------------------------
(***************************************************************************)
(* The app-wide map of cluster sessions (k8s/cluster/session): one session *)
(* per kubeconfig context, held by the windows that use the context, with  *)
(* one shared, reference-counted watch per resource kind.  The model has   *)
(* the session map, the connection each session owns, the health task that *)
(* turns the bound tunnel's state into pause and resume edges, the         *)
(* credential refresh a 401 starts, and the callers: the cluster pickers,  *)
(* the windows and the list panels.                                        *)
(*                                                                         *)
(* GPUI runs every handler to completion on one thread, so a handler, with *)
(* the observers it notifies, is one action.  Tokio tasks (the connect     *)
(* path, the health task, a refresh) interleave with the handlers.         *)
(***************************************************************************)
EXTENDS Naturals, Sequences, FiniteSets

CONSTANTS
  Contexts,      \* kubeconfig contexts, by name
  Windows,       \* workspace windows
  Keys,          \* watch keys: Pods, Events, one per discovered kind
  Pods,          \* the key of the Pods watch
  Panels,        \* list panels that may be open
  PanelWindow,   \* the window a panel belongs to
  PanelContext,  \* the context a panel shows
  PanelKey,      \* the watch a panel subscribes to
  Bound,         \* the contexts bound to a tunnel
  Slots,         \* bound on the credential refreshes in flight at once
  EdgeCapacity,  \* capacity of the health task's channel
  None           \* no attempt in a picker, no refresh in a slot

ASSUME PanelAssumption ==
  /\ IsFiniteSet(Panels)
  /\ PanelWindow \in [Panels -> Windows]
  /\ PanelContext \in [Panels -> Contexts]
  /\ PanelKey \in [Panels -> Keys]
ASSUME BoundAssumption == Bound \subseteq Contexts
ASSUME NoneAssumption ==
  None \notin [ctx : Contexts, orphan : BOOLEAN]
     \cup [ctx : Contexts, stage : {"waiting", "probing"}, stale : BOOLEAN]
ASSUME CapacityAssumption == EdgeCapacity \in Nat \ {0}

VARIABLES
  session,  \* context -> its session; conn = "none" where the map has no entry
  panel,    \* panel -> "closed", "waiting" (for its connection), "subscribed",
            \* or "orphaned" (its session was dropped under it)
  picker,   \* window -> the connection attempt its picker observes
  refresh   \* slot -> a detached credential refresh

vars == <<session, panel, picker, refresh>>

-----------------------------------------------------------------------------
(* One key's entry of the watch registry and the task it starts.  A task is *)
(* named by the client that started it; a client is "valid" or "expired".   *)

Client == {"none", "expired", "valid"}
Paused == {"no", "Reconnecting", "CredentialRefresh"}
Entry == [refs : Nat, paused : Paused, task : Client]
Idle == [refs |-> 0, paused |-> "no", task |-> "none"]

\* n more subscribers, the first of which starts the watch on cl.
Subscribe(e, n, cl) ==
  IF n = 0 THEN e
  ELSE IF e.refs = 0 THEN [refs |-> n, paused |-> "no", task |-> cl]
  ELSE [e EXCEPT !.refs = @ + n]

\* Mutant: the last but one out stops the watch.
UnsubscribeEarly(e, n) ==
  IF n > 0 /\ e.refs <= n + 1 THEN Idle ELSE [e EXCEPT !.refs = @ - n]

\* n fewer; the last one out removes the entry and stops the watch.
Unsubscribe(e, n) ==
  IF e.refs <= n THEN Idle ELSE [e EXCEPT !.refs = @ - n]

\* Mutant: the flag is set and the task forgotten.
PauseFlagOnly(e, reason) ==
  IF e.refs > 0 /\ e.paused = "no" THEN [e EXCEPT !.paused = reason] ELSE e

Pause(e, reason) ==
  IF e.refs > 0 /\ e.paused = "no"
  THEN [e EXCEPT !.paused = reason, !.task = "none"]
  ELSE e

\* Clears the pause, and restarts the watch if the session knows a client.
Resume(e, cl) ==
  IF e.paused # "no" THEN [e EXCEPT !.paused = "no", !.task = cl] ELSE e

-----------------------------------------------------------------------------
(* Sessions.  "Probing" is the connect task past its wait for the tunnel:   *)
(* the entity still reads WaitingForTunnel (or Connecting, unbound).        *)

Conn == {"none", "Connecting", "WaitingForTunnel", "Probing", "Connected", "Failed"}
Pending == {"Connecting", "WaitingForTunnel", "Probing"}
Forward == {"none", "Connecting", "Up", "Reconnecting"}
Edge == {"Pause", "Resume"}

Session ==
  [conn : Conn, connClient : Client, client : Client,
   watch : [Keys -> Entry], holders : SUBSET Windows,
   fwd : Forward, seen : Forward, edges : Seq(Edge), lost : BOOLEAN]

SessionWith(conn, fwd) ==
  [conn |-> conn, connClient |-> "none", client |-> "none",
   watch |-> [k \in Keys |-> Idle], holders |-> {},
   fwd |-> fwd, seen |-> "none", edges |-> <<>>, lost |-> FALSE]

NoSession == SessionWith("none", "none")

\* A fresh session: a bound context's forward may be shared with another
\* context and so in any state, or may fail to be acquired at all.
NewSessions(c) ==
  IF c \in Bound
  THEN {SessionWith("Connecting", f) : f \in Forward \ {"none"}}
         \cup {SessionWith("Failed", "none")}
  ELSE {SessionWith("Connecting", "none")}

Open(c) == session[c].conn # "none"

\* Mutant: any holder's leaving ends the session.
UnheldByAny(c, W) == Open(c) /\ session[c].holders \subseteq W \cup {CHOOSE w \in Windows : TRUE}

\* No window but W holds c.
Unheld(c, W) == Open(c) /\ session[c].holders \subseteq W

\* ensure_init: the sessions a lookup of c may return.
Ensured(c) == IF Open(c) THEN {session[c]} ELSE NewSessions(c)

OnKey(P, c, k) == {p \in P : PanelContext[p] = c /\ PanelKey[p] = k}

WithSubscribed(s, c, P) ==
  [s EXCEPT
    !.watch = [k \in Keys |->
                 Subscribe(s.watch[k], Cardinality(OnKey(P, c, k)), s.connClient)],
    !.client = IF \E k \in Keys : s.watch[k].refs = 0 /\ OnKey(P, c, k) # {}
               THEN s.connClient ELSE @]

WithUnsubscribed(s, c, P) ==
  [s EXCEPT !.watch = [k \in Keys |->
                 Unsubscribe(s.watch[k], Cardinality(OnKey(P, c, k)))]]

PausedAll(s, reason) ==
  [s EXCEPT !.watch = [k \in Keys |-> Pause(s.watch[k], reason)]]

ResumedAll(s) ==
  [s EXCEPT !.watch = [k \in Keys |-> Resume(s.watch[k], s.client)],
            !.lost = FALSE]

-----------------------------------------------------------------------------
(* Windows and pickers.                                                     *)

Attempt == [ctx : Contexts, orphan : BOOLEAN]
On(a, c) == a # None /\ a.ctx = c /\ ~a.orphan

\* The Pods panel a window opens as it starts using c.
FirstPanels(W, c) ==
  {p \in Panels : /\ PanelWindow[p] \in W /\ PanelContext[p] = c
                  /\ PanelKey[p] = Pods /\ panel[p] = "closed"}

\* s once the windows W hold it, and the panels P (built or already waiting)
\* subscribed if its connection is up.
Entered(s, c, W, P) ==
  LET held == [s EXCEPT !.holders = @ \cup W]
  IN IF s.conn = "Connected" THEN WithSubscribed(held, c, P) ELSE held

PanelsEntered(s, P) ==
  [p \in Panels |->
     IF p \in P THEN IF s.conn = "Connected" THEN "subscribed" ELSE "waiting"
     ELSE panel[p]]

\* What the sessions in D take with them when they are dropped: a picker keeps
\* its own handle on a connection still under way, a detached refresh goes on.
Dropped(D, closing) ==
  /\ panel' = [p \in Panels |->
                 IF p \in closing THEN "closed"
                 ELSE IF panel[p] # "closed" /\ PanelContext[p] \in D THEN "orphaned"
                 ELSE panel[p]]
  /\ refresh' = [r \in Slots |->
                   IF refresh[r] # None /\ refresh[r].ctx \in D
                   THEN [refresh[r] EXCEPT !.stale = TRUE] ELSE refresh[r]]

PickersAfter(D) ==
  [w \in Windows |->
     IF \E c \in D : On(picker[w], c)
     THEN IF session[picker[w].ctx].conn \in Pending
          THEN [picker[w] EXCEPT !.orphan = TRUE] ELSE None
     ELSE picker[w]]

\* The picker's Connect: connection_retrying, then the report that the
\* connection is already up if it is.
PickerSelect(w, c) ==
  /\ w \notin session[c].holders
  /\ LET s == session[c]
         stale == s.conn = "Failed" /\ Unheld(c, {})
         first == FirstPanels({w}, c)
     IN \/ /\ s.conn = "Connected"
           /\ session' = [session EXCEPT ![c] = Entered(s, c, {w}, first)]
           /\ panel' = PanelsEntered(s, first)
           /\ picker' = [picker EXCEPT ![w] = None]
           /\ UNCHANGED refresh
        \/ /\ Open(c) /\ ~stale /\ s.conn # "Connected"
           /\ picker' = [picker EXCEPT ![w] = [ctx |-> c, orphan |-> FALSE]]
           /\ UNCHANGED <<session, panel, refresh>>
        \/ /\ ~Open(c) \/ stale
           /\ \E new \in NewSessions(c) : session' = [session EXCEPT ![c] = new]
           /\ picker' = [(IF stale THEN PickersAfter({c}) ELSE picker)
                           EXCEPT ![w] = [ctx |-> c, orphan |-> FALSE]]
           /\ Dropped(IF stale THEN {c} ELSE {}, {})

\* A picker whose session was dropped while it connected: its own connection
\* succeeds, and the window holds whatever session the name now has.
OrphanConnected(w) ==
  /\ picker[w] # None /\ picker[w].orphan
  /\ LET c == picker[w].ctx
         first == FirstPanels({w}, c)
     IN \E s \in Ensured(c) :
          /\ session' = [session EXCEPT ![c] = Entered(s, c, {w}, first)]
          /\ panel' = PanelsEntered(s, first)
  /\ picker' = [picker EXCEPT ![w] = None]
  /\ UNCHANGED refresh

\* A saved window reopens: it holds all its contexts, connected or not, and
\* opens its first one's Pods panel.
Restore(w, cs) ==
  /\ picker[w] = None
  /\ \A c \in Contexts : w \notin session[c].holders
  /\ \E c0 \in cs, s \in [cs -> UNION {Ensured(c) : c \in cs}] :
       /\ \A c \in cs : s[c] \in Ensured(c)
       /\ LET first == FirstPanels({w}, c0)
          IN /\ session' = [c \in Contexts |->
                   IF c \in cs THEN Entered(s[c], c, {w}, first) ELSE session[c]]
             /\ panel' = PanelsEntered(s[c0], first)
  /\ UNCHANGED <<picker, refresh>>

\* release_window: W lose every hold, and every session left with no holder is
\* dropped; then the panels closing with the window unsubscribe by name.
Release(W, closing, gone) ==
  LET D == {c \in Contexts : Unheld(c, W)}
      leaving == {p \in closing : panel[p] = "subscribed"}
  IN /\ session' = [c \in Contexts |->
           IF c \in D \/ ~Open(c) THEN NoSession
           ELSE WithUnsubscribed([session[c] EXCEPT !.holders = @ \ W], c, leaving)]
     /\ Dropped(D, closing)
     /\ picker' = [w \in Windows |-> IF w \in gone THEN None ELSE PickersAfter(D)[w]]

CloseWindow(w) ==
  /\ \/ \E c \in Contexts : w \in session[c].holders
     \/ picker[w] # None
  /\ Release({w}, {p \in Panels : PanelWindow[p] = w}, {w})

\* The Add Context window is dismissed: it is a window too, holding nothing.
PickerDismiss(w) ==
  /\ picker[w] # None
  /\ Release({}, {}, {w})

\* Disconnect: release first, then the closed panels unsubscribe by name.
Disconnect(w, c) ==
  /\ w \in session[c].holders
  /\ LET closing == {p \in Panels : PanelWindow[p] = w /\ PanelContext[p] = c}
         leaving == {p \in closing : panel[p] = "subscribed"}
         D == {d \in {c} : Unheld(d, {w})}
     IN /\ session' = [session EXCEPT ![c] =
              IF c \in D THEN NoSession
              ELSE WithUnsubscribed([session[c] EXCEPT !.holders = @ \ {w}], c, leaving)]
        /\ Dropped(D, closing)
        /\ picker' = PickersAfter(D)

OpenPanel(p) ==
  /\ panel[p] = "closed"
  /\ PanelWindow[p] \in session[PanelContext[p]].holders
  /\ LET c == PanelContext[p]
     IN /\ session' = [session EXCEPT ![c] = Entered(session[c], c, {}, {p})]
        /\ panel' = PanelsEntered(session[c], {p})
  /\ UNCHANGED <<picker, refresh>>

ClosePanel(p) ==
  /\ panel[p] \in {"waiting", "subscribed"}
  /\ panel' = [panel EXCEPT ![p] = "closed"]
  /\ LET c == PanelContext[p]
     IN session' = IF panel[p] = "subscribed" /\ Open(c)
                   THEN [session EXCEPT ![c] = WithUnsubscribed(session[c], c, {p})]
                   ELSE session
  /\ UNCHANGED <<picker, refresh>>

-----------------------------------------------------------------------------
(* The connect path.                                                        *)

ConnWaits(c) ==
  /\ c \in Bound /\ session[c].conn = "Connecting"
  /\ session' = [session EXCEPT ![c].conn = "WaitingForTunnel"]
  /\ UNCHANGED <<panel, picker, refresh>>

\* Mutant: waits for a change to Up, and misses a forward that is up already.
ConnProbesOnChange(c) ==
  /\ session[c].conn = "WaitingForTunnel"
  /\ session[c].fwd = "Up" /\ session[c].seen \in {"Connecting", "Reconnecting"}
  /\ session' = [session EXCEPT ![c].conn = "Probing"]
  /\ UNCHANGED <<panel, picker, refresh>>

ConnProbes(c) ==
  /\ session[c].conn = "WaitingForTunnel" /\ session[c].fwd = "Up"
  /\ session' = [session EXCEPT ![c].conn = "Probing"]
  /\ UNCHANGED <<panel, picker, refresh>>

\* The probe answered: the waiting panels subscribe and the pickers on this
\* connection enter their workspace, all as observers of one notification.
ConnConnected(c) ==
  /\ \/ session[c].conn = "Probing"
     \/ c \notin Bound /\ session[c].conn = "Connecting"
  /\ LET W == {w \in Windows : On(picker[w], c)}
         waiting == {p \in Panels : panel[p] = "waiting" /\ PanelContext[p] = c}
         up == [session[c] EXCEPT !.conn = "Connected", !.connClient = "valid"]
         P == waiting \cup FirstPanels(W, c)
     IN /\ session' = [session EXCEPT ![c] = Entered(up, c, W, P)]
        /\ panel' = PanelsEntered(up, P)
        /\ picker' = [w \in Windows |-> IF w \in W THEN None ELSE picker[w]]
  /\ UNCHANGED refresh

\* A resolve error, a failed probe, or a forward that gave up.
ConnFailed(c) ==
  /\ session[c].conn \in Pending
  /\ session' = [session EXCEPT ![c].conn = "Failed"]
  /\ UNCHANGED <<panel, picker, refresh>>

-----------------------------------------------------------------------------
(* The bound tunnel's forward, and the health task that follows it over a   *)
(* channel that keeps only the latest state.                                *)

ForwardUp(c) ==
  /\ session[c].fwd \in {"Connecting", "Reconnecting"}
  /\ session' = [session EXCEPT ![c].fwd = "Up"]
  /\ UNCHANGED <<panel, picker, refresh>>

ForwardDrops(c) ==
  /\ session[c].fwd = "Up"
  /\ session' = [session EXCEPT ![c].fwd = "Reconnecting"]
  /\ UNCHANGED <<panel, picker, refresh>>

\* Mutant: the states themselves are sent.
EdgesRaw(prev, next) == <<next>>

\* Mutant: recovery counts only from a fresh connect.
EdgesNoResume(prev, next) ==
  CASE prev = "Up" /\ next = "Reconnecting" -> <<"Pause">>
    [] prev = "Connecting" /\ next = "Up" -> <<"Resume">>
    [] OTHER -> <<>>

EdgesOf(prev, next) ==
  CASE prev = "Up" /\ next = "Reconnecting" -> <<"Pause">>
    [] prev = "Reconnecting" /\ next = "Up" -> <<"Resume">>
    [] OTHER -> <<>>

\* Mutant: an edge that finds the channel full is dropped.
HealthTryObserve(c) ==
  /\ session[c].fwd # "none" /\ session[c].seen # session[c].fwd
  /\ LET new == EdgesOf(session[c].seen, session[c].fwd)
     IN session' = [session EXCEPT ![c].seen = session[c].fwd,
          ![c].edges = IF Len(@) + Len(new) <= EdgeCapacity THEN @ \o new ELSE @]
  /\ UNCHANGED <<panel, picker, refresh>>

\* The task starts, or wakes to a state other than the one it last saw.
HealthObserve(c) ==
  /\ session[c].fwd # "none" /\ session[c].seen # session[c].fwd
  /\ LET new == EdgesOf(session[c].seen, session[c].fwd)
     IN /\ Len(session[c].edges) + Len(new) <= EdgeCapacity
        /\ session' = [session EXCEPT ![c].seen = session[c].fwd,
                                      ![c].edges = @ \o new]
  /\ UNCHANGED <<panel, picker, refresh>>

HealthApply(c) ==
  /\ session[c].edges # <<>>
  /\ LET s == [session[c] EXCEPT !.edges = Tail(@)]
     IN session' = [session EXCEPT ![c] =
          IF Head(session[c].edges) = "Pause"
          THEN PausedAll(s, "Reconnecting") ELSE ResumedAll(s)]
  /\ UNCHANGED <<panel, picker, refresh>>

-----------------------------------------------------------------------------
(* Credentials.                                                             *)

Refresh == [ctx : Contexts, stage : {"waiting", "probing"}, stale : BOOLEAN]

Expired(cl) == IF cl = "valid" THEN "expired" ELSE cl

\* The API server stops accepting every client made so far.
Expire(c) ==
  /\ session[c].conn = "Connected"
  /\ session' = [session EXCEPT
        ![c].connClient = Expired(@),
        ![c].client = Expired(@),
        ![c].watch = [k \in Keys |->
            [session[c].watch[k] EXCEPT !.task = Expired(@)]]]
  /\ UNCHANGED <<panel, picker, refresh>>

\* Mutant: one refresh per context name at a time, whichever session it is for.
UnauthorizedOnce(c) ==
  /\ \E k \in Keys : session[c].watch[k].task = "expired"
  /\ session' = [session EXCEPT ![c] = PausedAll(session[c], "CredentialRefresh")]
  /\ \E r \in Slots :
       /\ refresh[r] = None
       /\ refresh' = IF \E q \in Slots : refresh[q] # None /\ refresh[q].ctx = c
                     THEN refresh
                     ELSE [refresh EXCEPT ![r] =
                            [ctx |-> c, stage |-> "waiting", stale |-> FALSE]]
  /\ UNCHANGED <<panel, picker>>

\* handle_unauthorized: from a shared watch, or from a panel's own watch (quick
\* look, live events), which runs on the connection's client and is not paused.
Unauthorized(c) ==
  /\ \/ \E k \in Keys : session[c].watch[k].task = "expired"
     \/ /\ session[c].connClient = "expired"
        /\ \E p \in Panels : panel[p] = "subscribed" /\ PanelContext[p] = c
  /\ session' = [session EXCEPT ![c] = PausedAll(session[c], "CredentialRefresh")]
  /\ \E r \in Slots :
       /\ refresh[r] = None
       /\ refresh' = [refresh EXCEPT ![r] =
            [ctx |-> c, stage |-> "waiting", stale |-> FALSE]]
  /\ UNCHANGED <<panel, picker>>

\* A stale refresh's forward may live on, shared with another context.
RefreshProbes(r) ==
  /\ refresh[r] # None /\ refresh[r].stage = "waiting"
  /\ \/ refresh[r].ctx \notin Bound
     \/ refresh[r].stale
     \/ session[refresh[r].ctx].fwd = "Up"
  /\ refresh' = [refresh EXCEPT ![r].stage = "probing"]
  /\ UNCHANGED <<session, panel, picker>>

\* Mutant: the watches resume, and the refreshed client is not recorded.
RefreshSucceedsUnrecorded(r) ==
  /\ refresh[r] # None /\ refresh[r].stage = "probing"
  /\ LET c == refresh[r].ctx
     IN session' = IF Open(c) THEN [session EXCEPT ![c] = ResumedAll(session[c])]
                   ELSE session
  /\ refresh' = [refresh EXCEPT ![r] = None]
  /\ UNCHANGED <<panel, picker>>

\* refresh_client: the session is looked up by name alone.
RefreshSucceeds(r) ==
  /\ refresh[r] # None /\ refresh[r].stage = "probing"
  /\ LET c == refresh[r].ctx
     IN session' = IF Open(c)
                   THEN [session EXCEPT ![c] =
                           ResumedAll([session[c] EXCEPT !.client = "valid"])]
                   ELSE session
  /\ refresh' = [refresh EXCEPT ![r] = None]
  /\ UNCHANGED <<panel, picker>>

\* Nothing is done with a failed refresh; lost records that it happened.
RefreshFails(r) ==
  /\ refresh[r] # None
  /\ LET c == refresh[r].ctx
     IN session' = IF Open(c) /\ ~refresh[r].stale
                   THEN [session EXCEPT ![c].lost = TRUE] ELSE session
  /\ refresh' = [refresh EXCEPT ![r] = None]
  /\ UNCHANGED <<panel, picker>>

-----------------------------------------------------------------------------
Init ==
  /\ session = [c \in Contexts |-> NoSession]
  /\ panel = [p \in Panels |-> "closed"]
  /\ picker = [w \in Windows |-> None]
  /\ refresh = [r \in Slots |-> None]

WindowStep ==
  \/ \E w \in Windows, c \in Contexts : PickerSelect(w, c) \/ Disconnect(w, c)
  \/ \E w \in Windows : OrphanConnected(w) \/ CloseWindow(w) \/ PickerDismiss(w)
  \/ \E w \in Windows, cs \in SUBSET Contexts : Restore(w, cs)
  \/ \E p \in Panels : OpenPanel(p) \/ ClosePanel(p)

ConnectStep ==
  \E c \in Contexts : ConnWaits(c) \/ ConnProbes(c) \/ ConnConnected(c) \/ ConnFailed(c)

HealthStep ==
  \E c \in Contexts :
    ForwardUp(c) \/ ForwardDrops(c) \/ HealthObserve(c) \/ HealthApply(c)

CredentialStep ==
  \/ \E c \in Contexts : Expire(c) \/ Unauthorized(c)
  \/ \E r \in Slots : RefreshProbes(r) \/ RefreshSucceeds(r) \/ RefreshFails(r)

Next == WindowStep \/ ConnectStep \/ HealthStep \/ CredentialStep

\* A probe succeeds or fails; a wait for the tunnel need not end.
ProbeEnds(c) ==
  session[c].conn # "WaitingForTunnel" /\ (ConnConnected(c) \/ ConnFailed(c))

\* The runtime polls every spawned task and the main thread drains every
\* channel; a probe ends by its timeout; a watch on an expired client is
\* refused when it next talks to the server.
Fairness ==
  /\ \A c \in Contexts :
       /\ WF_vars(HealthObserve(c)) /\ WF_vars(HealthApply(c))
       /\ WF_vars(ConnWaits(c)) /\ WF_vars(ConnProbes(c))
       /\ WF_vars(ProbeEnds(c))
       /\ WF_vars(Unauthorized(c))
  /\ \A r \in Slots :
       /\ WF_vars(RefreshProbes(r))
       /\ WF_vars(RefreshSucceeds(r) \/ RefreshFails(r))

Spec == Init /\ [][Next]_vars
FairSpec == Spec /\ Fairness

-----------------------------------------------------------------------------
(* Properties.                                                              *)

TypeOK ==
  /\ session \in [Contexts -> Session]
  /\ panel \in [Panels -> {"closed", "waiting", "subscribed", "orphaned"}]
  /\ picker \in [Windows -> Attempt \cup {None}]
  /\ refresh \in [Slots -> Refresh \cup {None}]

Subscribed == {p \in Panels : panel[p] = "subscribed"}

\* A watch's reference count is the number of open panels that subscribed to
\* it: no sequence of opens, closes, disconnects, window closes and
\* reconnects leaks a count or tears a watch down under a panel.
RefcountMatchesPanels ==
  \A c \in Contexts, k \in Keys :
    session[c].watch[k].refs = Cardinality(OnKey(Subscribed, c, k))

\* A watch task runs exactly while some panel wants it and it is not paused:
\* no pause, resume, 401 or refresh leaves a watch running unpaused twice,
\* paused but consuming, or wanted and stopped for good.
RunningIffWanted ==
  \A c \in Contexts, k \in Keys :
    LET e == session[c].watch[k]
    IN (e.task # "none") <=> (e.refs > 0 /\ e.paused = "no")

\* An open panel's window holds the panel's context, and the session the panel
\* observes is the one the map has: none is dropped or replaced under a panel.
PanelsAreHeld ==
  \A p \in Panels : panel[p] # "closed" =>
    /\ panel[p] # "orphaned"
    /\ PanelWindow[p] \in session[PanelContext[p]].holders

\* A watch paused by the tunnel has its resume ahead of it: the health task
\* still sees the tunnel down, or the resume edge is on its way.
PauseHasItsResume ==
  \A c \in Contexts, k \in Keys :
    session[c].watch[k].paused = "Reconnecting" =>
      \/ session[c].seen = "Reconnecting"
      \/ \E i \in 1..Len(session[c].edges) : session[c].edges[i] = "Resume"

\* A watch paused for credentials has a refresh of its own session in flight,
\* unless one failed: nothing else leaves it paused.
RefreshIsPursued ==
  \A c \in Contexts, k \in Keys :
    session[c].watch[k].paused = "CredentialRefresh" =>
      \/ session[c].lost
      \/ \E r \in Slots : refresh[r] # None /\ refresh[r].ctx = c /\ ~refresh[r].stale

\* No pause is left to itself: what the tunnel or a 401 stopped has its end on
\* the way.
PauseIsTended == PauseHasItsResume /\ RefreshIsPursued

\* Once the tunnel is back up and stays up, a watch it paused runs again.
FlapRecovers ==
  \A c \in Contexts, k \in Keys :
    (session[c].watch[k].paused = "Reconnecting" /\ session[c].fwd = "Up")
      ~> (session[c].watch[k].paused # "Reconnecting" \/ session[c].fwd # "Up")

TunnelReady(c) == c \notin Bound \/ session[c].fwd = "Up"

\* A watch on expired credentials is replaced or torn down, while the tunnel
\* stays up and no refresh fails.
ExpiredWatchIsRefreshed ==
  \A c \in Contexts, k \in Keys :
    (session[c].watch[k].refs > 0 /\ session[c].watch[k].task # "valid")
      ~> \/ session[c].watch[k].task = "valid"
         \/ session[c].watch[k].refs = 0
         \/ session[c].lost \/ ~TunnelReady(c)

\* A stopped watch somebody wants runs again, after a flap and after a 401.
StoppedWatchRecovers == FlapRecovers /\ ExpiredWatchIsRefreshed

\* A panel opened on a context gets its watch, unless its connection fails or
\* its tunnel does not come up.
PanelGetsItsWatch ==
  \A p \in Panels :
    panel[p] = "waiting" ~>
      \/ panel[p] # "waiting"
      \/ session[PanelContext[p]].conn = "Failed"
      \/ ~TunnelReady(PanelContext[p])

=============================================================================
