------------------------ MODULE ClusterSessions_proofs ------------------------
(* Proofs about ClusterSessions: every session keeps its shape, and each watch *)
(* task runs exactly while it is wanted and not paused; then what ties a       *)
(* session to the panels of its windows, and what its pauses wait for.         *)
EXTENDS ClusterSessions, FiniteSetTheorems, TLAPS

(* A session by itself: the strengthening of RunningIffWanted that every step  *)
(* preserves.  A restart needs a client, so a session with a subscribed watch  *)
(* must know one, and so must a connected session that a panel may subscribe   *)
(* on; and an entry is paused only while it has subscribers.                   *)
EntrySound(e) ==
  /\ (e.task # "none") <=> (e.refs > 0 /\ e.paused = "no")
  /\ e.paused # "no" => e.refs > 0

ClientSound(s) ==
  /\ s.conn = "Connected" => s.connClient # "none"
  /\ \A k \in Keys : s.watch[k].refs > 0 => s.client # "none"

SessionSound(s) ==
  /\ s \in Session
  /\ \A k \in Keys : EntrySound(s.watch[k])
  /\ ClientSound(s)

AllSound == \A c \in Contexts : SessionSound(session[c])

SoundInv == TypeOK /\ AllSound

-----------------------------------------------------------------------------
(* Entries: what each registry operation returns.                              *)

\* A subscription keeps an entry sound and adds the new subscribers to its count.
LEMMA EntrySubscribe ==
  ASSUME NEW e \in Entry, EntrySound(e), NEW n \in Nat, NEW cl \in Client, cl # "none"
  PROVE  /\ Subscribe(e, n, cl) \in Entry
         /\ EntrySound(Subscribe(e, n, cl))
         /\ Subscribe(e, n, cl).refs = e.refs + n
  BY DEF Subscribe, Entry, EntrySound, Client, Paused

\* Unsubscribing keeps an entry sound, and its count never goes below zero.
LEMMA EntryUnsubscribe ==
  ASSUME NEW e \in Entry, EntrySound(e), NEW n \in Nat
  PROVE  /\ Unsubscribe(e, n) \in Entry
         /\ EntrySound(Unsubscribe(e, n))
         /\ Unsubscribe(e, n).refs = IF e.refs <= n THEN 0 ELSE e.refs - n
  BY DEF Unsubscribe, Idle, Entry, EntrySound, Client, Paused

\* A pause keeps an entry sound and its count as it was.
LEMMA EntryPause ==
  ASSUME NEW e \in Entry, EntrySound(e), NEW reason \in Paused \ {"no"}
  PROVE  /\ Pause(e, reason) \in Entry
         /\ EntrySound(Pause(e, reason))
         /\ Pause(e, reason).refs = e.refs
  BY DEF Pause, Entry, EntrySound, Client, Paused

\* A resume with a client, where there is anybody to resume for, does too.
LEMMA EntryResume ==
  ASSUME NEW e \in Entry, EntrySound(e), NEW cl \in Client, e.refs > 0 => cl # "none"
  PROVE  /\ Resume(e, cl) \in Entry
         /\ EntrySound(Resume(e, cl))
         /\ Resume(e, cl).refs = e.refs
  BY DEF Resume, Entry, EntrySound, Client, Paused

-----------------------------------------------------------------------------
(* Sessions: what each operation on one session returns.                       *)

\* The number of panels on a key is a number, and zero for no panel.
LEMMA OnKeyCount ==
  ASSUME NEW P \in SUBSET Panels, NEW c, NEW k
  PROVE  /\ Cardinality(OnKey(P, c, k)) \in Nat
         /\ OnKey(P, c, k) = {} <=> Cardinality(OnKey(P, c, k)) = 0
<1>1. OnKey(P, c, k) \subseteq Panels  BY DEF OnKey
<1>2. IsFiniteSet(OnKey(P, c, k))  BY <1>1, PanelAssumption, FS_Subset
<1> QED  BY <1>2, FS_CardinalityType, FS_EmptySet

\* A session not yet connected, without watches, is sound.
LEMMA FreshSound ==
  ASSUME NEW conn \in Conn \ {"Connected"}, NEW fwd \in Forward
  PROVE  SessionSound(SessionWith(conn, fwd))
<1> DEFINE s == SessionWith(conn, fwd)
<1>1. s \in Session
  BY DEF SessionWith, Session, Idle, Entry, Conn, Client, Forward, Edge, Paused
<1>2. \A k \in Keys : EntrySound(s.watch[k])
  BY DEF SessionWith, EntrySound, Idle
<1>3. ClientSound(s)
  BY DEF SessionWith, ClientSound, Idle
<1> QED  BY <1>1, <1>2, <1>3 DEF SessionSound

\* What a lookup returns, found or newly created, is sound.
LEMMA EnsuredSound ==
  ASSUME NEW c \in Contexts, SessionSound(session[c]), NEW s \in Ensured(c)
  PROVE  SessionSound(s)
<1>1. \A x \in NewSessions(c) : SessionSound(x)
  BY FreshSound DEF NewSessions, Conn, Forward
<1> QED  BY <1>1 DEF Ensured

\* No session is a sound session.
LEMMA NoneSound == SessionSound(NoSession)
  BY FreshSound DEF NoSession, Conn, Forward

\* Replacing the watches by sound entries, where the client of a subscribed one
\* is known, keeps a session sound.
LEMMA WatchSound ==
  ASSUME NEW s, SessionSound(s), NEW W \in [Keys -> Entry], NEW cl \in Client,
         \A k \in Keys : EntrySound(W[k]),
         \A k \in Keys : W[k].refs > 0 => cl # "none"
  PROVE  SessionSound([s EXCEPT !.watch = W, !.client = cl])
  BY DEF SessionSound, Session, ClientSound

\* The panels subscribing on a connected session leave it sound.
LEMMA SubscribedSound ==
  ASSUME NEW s, SessionSound(s), s.conn = "Connected",
         NEW c, NEW P \in SUBSET Panels
  PROVE  SessionSound(WithSubscribed(s, c, P))
<1> DEFINE n(k) == Cardinality(OnKey(P, c, k))
           W == [k \in Keys |-> Subscribe(s.watch[k], n(k), s.connClient)]
           cl == IF \E k \in Keys : s.watch[k].refs = 0 /\ OnKey(P, c, k) # {}
                 THEN s.connClient ELSE s.client
<1>1. s.connClient \in Client /\ s.connClient # "none" /\ s.client \in Client
  BY DEF SessionSound, ClientSound, Session
<1>2. \A k \in Keys : s.watch[k] \in Entry /\ EntrySound(s.watch[k]) /\ s.watch[k].refs \in Nat
  BY DEF SessionSound, Session, Entry
<1>3. \A k \in Keys : n(k) \in Nat /\ (OnKey(P, c, k) = {} <=> n(k) = 0)
  BY OnKeyCount
<1>4. \A k \in Keys : /\ W[k] \in Entry /\ EntrySound(W[k])
                      /\ W[k].refs = s.watch[k].refs + n(k)
  BY <1>1, <1>2, <1>3, EntrySubscribe
<1>5. W \in [Keys -> Entry]  BY <1>4
<1>6. ASSUME NEW k \in Keys, W[k].refs > 0  PROVE cl # "none"
  <2>1. CASE s.watch[k].refs = 0
    <3>1. n(k) # 0  BY <1>2, <1>3, <1>4, <1>6, <2>1
    <3> QED  BY <3>1, <2>1, <1>3, <1>1
  <2>2. CASE s.watch[k].refs # 0
    <3>1. s.client # "none"  BY <2>2, <1>2 DEF SessionSound, ClientSound
    <3> QED  BY <3>1, <1>1
  <2> QED  BY <2>1, <2>2
<1>7. cl \in Client  BY <1>1
<1>8. SessionSound([s EXCEPT !.watch = W, !.client = cl])
  <2> HIDE DEF W, cl
  <2> QED  BY <1>4, <1>5, <1>6, <1>7, WatchSound
<1>9. WithSubscribed(s, c, P) = [s EXCEPT !.watch = W, !.client = cl]
  BY DEF WithSubscribed
<1> QED  BY <1>8, <1>9

\* Panels unsubscribing leave a session sound.
LEMMA UnsubscribedSound ==
  ASSUME NEW s, SessionSound(s), NEW c, NEW P \in SUBSET Panels
  PROVE  SessionSound(WithUnsubscribed(s, c, P))
<1> DEFINE n(k) == Cardinality(OnKey(P, c, k))
           W == [k \in Keys |-> Unsubscribe(s.watch[k], n(k))]
<1>1. \A k \in Keys : s.watch[k] \in Entry /\ EntrySound(s.watch[k]) /\ s.watch[k].refs \in Nat
  BY DEF SessionSound, Session, Entry
<1>2. \A k \in Keys : n(k) \in Nat  BY OnKeyCount
<1>3. \A k \in Keys : /\ W[k] \in Entry /\ EntrySound(W[k])
                      /\ W[k].refs > 0 => s.watch[k].refs > 0
  BY <1>1, <1>2, EntryUnsubscribe
<1>4. W \in [Keys -> Entry]  BY <1>3
<1>5. s.client \in Client /\ s \in Session  BY DEF SessionSound, Session
<1>6. \A k \in Keys : W[k].refs > 0 => s.client # "none"
  BY <1>3 DEF SessionSound, ClientSound
<1>7. SessionSound([s EXCEPT !.watch = W, !.client = s.client])
  <2> HIDE DEF W
  <2> QED  BY <1>3, <1>4, <1>5, <1>6, WatchSound
<1>8. WithUnsubscribed(s, c, P) = [s EXCEPT !.watch = W, !.client = s.client]
  BY <1>5 DEF WithUnsubscribed, Session
<1> QED  BY <1>7, <1>8

\* Pausing every watch leaves a session sound.
LEMMA PausedSound ==
  ASSUME NEW s, SessionSound(s), NEW reason \in Paused \ {"no"}
  PROVE  SessionSound(PausedAll(s, reason))
<1> DEFINE W == [k \in Keys |-> Pause(s.watch[k], reason)]
<1>1. \A k \in Keys : s.watch[k] \in Entry /\ EntrySound(s.watch[k])
  BY DEF SessionSound, Session
<1>2. \A k \in Keys : W[k] \in Entry /\ EntrySound(W[k]) /\ W[k].refs = s.watch[k].refs
  BY <1>1, EntryPause
<1>3. W \in [Keys -> Entry]  BY <1>2
<1>4. s.client \in Client /\ s \in Session  BY DEF SessionSound, Session
<1>5. \A k \in Keys : W[k].refs > 0 => s.client # "none"
  BY <1>2 DEF SessionSound, ClientSound
<1>6. SessionSound([s EXCEPT !.watch = W, !.client = s.client])
  <2> HIDE DEF W
  <2> QED  BY <1>2, <1>3, <1>4, <1>5, WatchSound
<1>7. PausedAll(s, reason) = [s EXCEPT !.watch = W, !.client = s.client]
  BY <1>4 DEF PausedAll, Session
<1> QED  BY <1>6, <1>7

\* Resuming every watch with a session's client leaves the session sound.
LEMMA ResumedSound ==
  ASSUME NEW s, SessionSound(s)
  PROVE  SessionSound(ResumedAll(s))
<1> DEFINE W == [k \in Keys |-> Resume(s.watch[k], s.client)]
           t == [s EXCEPT !.watch = W, !.client = s.client]
<1>1. \A k \in Keys : /\ s.watch[k] \in Entry /\ EntrySound(s.watch[k])
                      /\ s.watch[k].refs > 0 => s.client # "none"
  BY DEF SessionSound, Session, ClientSound
<1>2. s.client \in Client /\ s \in Session  BY DEF SessionSound, Session
<1>3. \A k \in Keys : W[k] \in Entry /\ EntrySound(W[k]) /\ W[k].refs = s.watch[k].refs
  BY <1>1, <1>2, EntryResume
<1>4. W \in [Keys -> Entry]  BY <1>3
<1>5. \A k \in Keys : W[k].refs > 0 => s.client # "none"  BY <1>1, <1>3
<1>6. SessionSound(t)
  <2> HIDE DEF W
  <2> QED  BY <1>2, <1>3, <1>4, <1>5, WatchSound
<1>7. ResumedAll(s) = [t EXCEPT !.lost = FALSE]
  BY <1>2 DEF ResumedAll, Session
<1>8. SessionSound([t EXCEPT !.lost = FALSE])
  <2> HIDE DEF t
  <2> QED  BY <1>6 DEF SessionSound, Session, ClientSound
<1> QED  BY <1>7, <1>8

\* A window, with the panels it brings, enters a session and leaves it sound.
LEMMA EnteredSound ==
  ASSUME NEW s, SessionSound(s), NEW c, NEW W \in SUBSET Windows, NEW P \in SUBSET Panels
  PROVE  SessionSound(Entered(s, c, W, P))
<1> DEFINE held == [s EXCEPT !.holders = @ \cup W]
<1>1. SessionSound(held)  BY DEF SessionSound, Session, ClientSound
<1>2. held.conn = s.conn  BY DEF SessionSound, Session
<1>3. s.conn = "Connected" => SessionSound(WithSubscribed(held, c, P))
  <2> HIDE DEF held
  <2> QED  BY <1>1, <1>2, SubscribedSound
<1> QED  BY <1>1, <1>3 DEF Entered

\* A session stays sound whatever its connection short of Connected, its
\* forward and its health task come to.
LEMMA FieldsSound ==
  ASSUME NEW s, SessionSound(s), NEW conn \in (Conn \ {"Connected"}) \cup {s.conn},
         NEW holders \in SUBSET Windows, NEW fwd \in Forward, NEW seen \in Forward,
         NEW edges \in Seq(Edge), NEW lost \in BOOLEAN
  PROVE  SessionSound([s EXCEPT !.conn = conn, !.holders = holders, !.fwd = fwd,
                                !.seen = seen, !.edges = edges, !.lost = lost])
  BY DEF SessionSound, Session, ClientSound

-----------------------------------------------------------------------------
(* Steps.                                                                      *)

SessionsSound == session \in [Contexts -> Session] /\ AllSound

RestOK ==
  /\ panel \in [Panels -> {"closed", "waiting", "subscribed", "orphaned"}]
  /\ picker \in [Windows -> Attempt \cup {None}]
  /\ refresh \in [Slots -> Refresh \cup {None}]

\* Putting a sound session in the map leaves all of them sound.
LEMMA PutSound ==
  ASSUME SessionsSound, NEW c \in Contexts, NEW t, SessionSound(t),
         session' = [session EXCEPT ![c] = t]
  PROVE  SessionsSound'
<1>1. t \in Session  BY DEF SessionSound
<1>2. session' \in [Contexts -> Session]  BY <1>1 DEF SessionsSound
<1>3. ASSUME NEW d \in Contexts  PROVE SessionSound(session'[d])
  <2>1. session'[d] = t \/ session'[d] = session[d]  BY DEF SessionsSound
  <2> QED  BY <2>1 DEF SessionsSound, AllSound
<1> QED  BY <1>2, <1>3 DEF SessionsSound, AllSound

\* So does mapping every context to a sound session.
LEMMA MapSound ==
  ASSUME \A c \in Contexts : SessionSound(session'[c]),
         session' = [c \in Contexts |-> session'[c]]
  PROVE  SessionsSound'
<1>1. session' \in [Contexts -> Session]  BY DEF SessionSound
<1> QED  BY <1>1 DEF SessionsSound, AllSound

\* The panels that enter a session keep their type.
LEMMA PanelsEnteredType ==
  ASSUME RestOK, NEW s, NEW P \in SUBSET Panels
  PROVE  PanelsEntered(s, P) \in [Panels -> {"closed", "waiting", "subscribed", "orphaned"}]
  BY DEF RestOK, PanelsEntered

\* What a drop leaves of the panels and the refreshes keeps its type.
LEMMA DroppedType ==
  ASSUME RestOK, NEW D, NEW closing, Dropped(D, closing)
  PROVE  /\ panel' \in [Panels -> {"closed", "waiting", "subscribed", "orphaned"}]
         /\ refresh' \in [Slots -> Refresh \cup {None}]
<1>1. panel' \in [Panels -> {"closed", "waiting", "subscribed", "orphaned"}]
  BY DEF RestOK, Dropped
<1>2. \A r \in Slots : refresh[r] # None =>
        [refresh[r] EXCEPT !.stale = TRUE] \in Refresh
  BY DEF RestOK, Refresh
<1> QED  BY <1>1, <1>2 DEF Dropped, RestOK

\* And so do the pickers.
LEMMA PickersAfterType ==
  ASSUME RestOK, NEW D
  PROVE  PickersAfter(D) \in [Windows -> Attempt \cup {None}]
<1>1. \A w \in Windows : picker[w] # None =>
        [picker[w] EXCEPT !.orphan = TRUE] \in Attempt
  BY DEF RestOK, Attempt
<1>2. ASSUME NEW w \in Windows  PROVE PickersAfter(D)[w] \in Attempt \cup {None}
  <2>1. CASE \E c \in D : On(picker[w], c)
    <3>1. picker[w] # None  BY <2>1 DEF On
    <3> QED  BY <1>1, <2>1, <3>1 DEF PickersAfter
  <2>2. CASE ~ \E c \in D : On(picker[w], c)
    BY <2>2 DEF PickersAfter, RestOK
  <2> QED  BY <2>1, <2>2
<1> QED  BY <1>2 DEF PickersAfter

\* The first panels of windows are panels.
LEMMA FirstPanelsType ==
  ASSUME NEW W, NEW c  PROVE FirstPanels(W, c) \in SUBSET Panels
  BY DEF FirstPanels

-----------------------------------------------------------------------------
(* The windows' steps.                                                         *)

\* Selecting a context enters, joins or replaces a session by a sound one.
LEMMA PickerSelectSound ==
  ASSUME SessionsSound, RestOK, NEW w \in Windows, NEW c \in Contexts, PickerSelect(w, c)
  PROVE  SessionsSound' /\ RestOK'
<1> DEFINE s == session[c]
           stale == s.conn = "Failed" /\ Unheld(c, {})
           first == FirstPanels({w}, c)
<1>1. SessionSound(s)  BY DEF SessionsSound, AllSound
<1>2. first \in SUBSET Panels /\ {w} \in SUBSET Windows  BY FirstPanelsType
<1>3. [ctx |-> c, orphan |-> FALSE] \in Attempt  BY DEF Attempt
<1>4. CASE /\ session' = [session EXCEPT ![c] = Entered(s, c, {w}, first)]
           /\ panel' = PanelsEntered(s, first)
           /\ picker' = [picker EXCEPT ![w] = None]
           /\ UNCHANGED refresh
  <2>1. SessionSound(Entered(s, c, {w}, first))  BY <1>1, <1>2, EnteredSound
  <2>2. SessionsSound'  BY <2>1, <1>4, PutSound
  <2>3. RestOK'  BY <1>2, <1>4, PanelsEnteredType DEF RestOK
  <2> QED  BY <2>2, <2>3
<1>5. CASE /\ picker' = [picker EXCEPT ![w] = [ctx |-> c, orphan |-> FALSE]]
           /\ UNCHANGED <<session, panel, refresh>>
  <2>1. SessionsSound'  BY <1>5 DEF SessionsSound, AllSound
  <2>2. RestOK'  BY <1>3, <1>5 DEF RestOK
  <2> QED  BY <2>1, <2>2
<1>6. CASE /\ ~Open(c) \/ stale
           /\ \E new \in NewSessions(c) : session' = [session EXCEPT ![c] = new]
           /\ picker' = [(IF stale THEN PickersAfter({c}) ELSE picker)
                           EXCEPT ![w] = [ctx |-> c, orphan |-> FALSE]]
           /\ Dropped(IF stale THEN {c} ELSE {}, {})
  <2>1. \A new \in NewSessions(c) : SessionSound(new)
    BY FreshSound DEF NewSessions, Conn, Forward
  <2>2. SessionsSound'  BY <2>1, <1>6, PutSound
  <2>3. (IF stale THEN PickersAfter({c}) ELSE picker) \in [Windows -> Attempt \cup {None}]
    BY PickersAfterType DEF RestOK
  <2>4. picker' \in [Windows -> Attempt \cup {None}]
    <3> HIDE DEF stale
    <3> QED  BY <1>3, <1>6, <2>3
  <2>5. RestOK'  BY <1>6, <2>4, DroppedType DEF RestOK
  <2> QED  BY <2>2, <2>5
<1> QED  BY <1>4, <1>5, <1>6 DEF PickerSelect

\* A connection that outlived its session enters a sound one.
LEMMA OrphanConnectedSound ==
  ASSUME SessionsSound, RestOK, NEW w \in Windows, OrphanConnected(w)
  PROVE  SessionsSound' /\ RestOK'
<1> DEFINE c == picker[w].ctx
           first == FirstPanels({w}, c)
<1>1. c \in Contexts  BY DEF OrphanConnected, RestOK, Attempt
<1>2. first \in SUBSET Panels /\ {w} \in SUBSET Windows  BY FirstPanelsType
<1>3. PICK s \in Ensured(c) :
        /\ session' = [session EXCEPT ![c] = Entered(s, c, {w}, first)]
        /\ panel' = PanelsEntered(s, first)
  BY DEF OrphanConnected
<1>4. SessionSound(s)  BY <1>1, EnsuredSound DEF SessionsSound, AllSound
<1>5. SessionSound(Entered(s, c, {w}, first))  BY <1>2, <1>4, EnteredSound
<1>6. SessionsSound'
  <2> HIDE DEF c, first
  <2> QED  BY <1>1, <1>3, <1>5, PutSound
<1>7. RestOK'  BY <1>2, <1>3, PanelsEnteredType DEF RestOK, OrphanConnected
<1> QED  BY <1>6, <1>7

\* Restoring a window enters sound sessions only.
LEMMA RestoreSound ==
  ASSUME SessionsSound, RestOK, NEW w \in Windows, NEW cs \in SUBSET Contexts, Restore(w, cs)
  PROVE  SessionsSound' /\ RestOK'
<1>1. PICK c0 \in cs, s \in [cs -> UNION {Ensured(c) : c \in cs}] :
        /\ \A c \in cs : s[c] \in Ensured(c)
        /\ session' = [c \in Contexts |->
             IF c \in cs THEN Entered(s[c], c, {w}, FirstPanels({w}, c0)) ELSE session[c]]
        /\ panel' = PanelsEntered(s[c0], FirstPanels({w}, c0))
  BY DEF Restore
<1> DEFINE first == FirstPanels({w}, c0)
<1>2. first \in SUBSET Panels /\ {w} \in SUBSET Windows  BY FirstPanelsType
<1>3. ASSUME NEW c \in Contexts  PROVE SessionSound(session'[c])
  <2>1. CASE c \in cs
    <3>1. SessionSound(s[c])  BY <1>1, <2>1, EnsuredSound DEF SessionsSound, AllSound
    <3>2. SessionSound(Entered(s[c], c, {w}, first))  BY <1>2, <3>1, EnteredSound
    <3> QED  BY <1>1, <2>1, <3>2
  <2>2. CASE c \notin cs  BY <1>1, <2>2 DEF SessionsSound, AllSound
  <2> QED  BY <2>1, <2>2
<1>4. session' = [c \in Contexts |-> session'[c]]  BY <1>1
<1>5. SessionsSound'  BY <1>3, <1>4, MapSound
<1>6. RestOK'  BY <1>1, <1>2, PanelsEnteredType DEF RestOK, Restore
<1> QED  BY <1>5, <1>6

\* Windows going away, with the panels that close with them.
LEMMA ReleaseSound ==
  ASSUME SessionsSound, RestOK, NEW W \in SUBSET Windows, NEW closing \in SUBSET Panels,
         NEW gone, Release(W, closing, gone)
  PROVE  SessionsSound' /\ RestOK'
<1> DEFINE D == {c \in Contexts : Unheld(c, W)}
           leaving == {p \in closing : panel[p] = "subscribed"}
<1>1. session' = [c \in Contexts |->
        IF c \in D \/ ~Open(c) THEN NoSession
        ELSE WithUnsubscribed([session[c] EXCEPT !.holders = @ \ W], c, leaving)]
  BY DEF Release
<1>2. ASSUME NEW c \in Contexts  PROVE SessionSound(session'[c])
  <2> DEFINE held == [session[c] EXCEPT !.holders = @ \ W]
  <2>1. SessionSound(held)
    BY DEF SessionsSound, AllSound, SessionSound, Session, ClientSound
  <2>2. leaving \in SUBSET Panels  OBVIOUS
  <2>3. SessionSound(WithUnsubscribed(held, c, leaving))
    <3> HIDE DEF held, leaving
    <3> QED  BY <2>1, <2>2, UnsubscribedSound
  <2> QED  BY <1>1, <2>3, NoneSound
<1>3. session' = [c \in Contexts |-> session'[c]]  BY <1>1
<1>4. SessionsSound'  BY <1>2, <1>3, MapSound
<1>5. Dropped(D, closing)  BY DEF Release
<1>6. picker' \in [Windows -> Attempt \cup {None}]
  BY PickersAfterType DEF Release
<1>7. RestOK'  BY <1>5, <1>6, DroppedType DEF RestOK
<1> QED  BY <1>4, <1>7

\* A disconnect drops the session, or leaves it sound without one holder.
LEMMA DisconnectSound ==
  ASSUME SessionsSound, RestOK, NEW w \in Windows, NEW c \in Contexts, Disconnect(w, c)
  PROVE  SessionsSound' /\ RestOK'
<1> DEFINE closing == {p \in Panels : PanelWindow[p] = w /\ PanelContext[p] = c}
           leaving == {p \in closing : panel[p] = "subscribed"}
           D == {d \in {c} : Unheld(d, {w})}
           held == [session[c] EXCEPT !.holders = @ \ {w}]
           t == IF c \in D THEN NoSession ELSE WithUnsubscribed(held, c, leaving)
<1>1. SessionSound(held)
  BY DEF SessionsSound, AllSound, SessionSound, Session, ClientSound
<1>2. leaving \in SUBSET Panels  OBVIOUS
<1>3. SessionSound(WithUnsubscribed(held, c, leaving))
  <2> HIDE DEF held, leaving
  <2> QED  BY <1>1, <1>2, UnsubscribedSound
<1>4. SessionSound(t)  BY <1>3, NoneSound
<1>5. session' = [session EXCEPT ![c] = t]  BY DEF Disconnect
<1>6. SessionsSound'
  <2> HIDE DEF t
  <2> QED  BY <1>4, <1>5, PutSound
<1>7. Dropped(D, closing) /\ picker' = PickersAfter(D)  BY DEF Disconnect
<1>8. RestOK'
  <2> HIDE DEF D, closing
  <2> QED  BY <1>7, DroppedType, PickersAfterType DEF RestOK
<1> QED  BY <1>6, <1>8

\* A panel opening subscribes on a sound session.
LEMMA OpenPanelSound ==
  ASSUME SessionsSound, RestOK, NEW p \in Panels, OpenPanel(p)
  PROVE  SessionsSound' /\ RestOK'
<1> DEFINE c == PanelContext[p]
<1>1. c \in Contexts  BY PanelAssumption
<1>2. SessionSound(Entered(session[c], c, {}, {p}))
  BY <1>1, EnteredSound DEF SessionsSound, AllSound
<1>3. SessionsSound'
  <2>1. session' = [session EXCEPT ![c] = Entered(session[c], c, {}, {p})]  BY DEF OpenPanel
  <2> HIDE DEF c
  <2> QED  BY <1>1, <1>2, <2>1, PutSound
<1>4. RestOK'  BY PanelsEnteredType DEF RestOK, OpenPanel
<1> QED  BY <1>3, <1>4

\* A panel closing unsubscribes from a sound session.
LEMMA ClosePanelSound ==
  ASSUME SessionsSound, RestOK, NEW p \in Panels, ClosePanel(p)
  PROVE  SessionsSound' /\ RestOK'
<1> DEFINE c == PanelContext[p]
<1>1. c \in Contexts  BY PanelAssumption
<1>2. SessionSound(WithUnsubscribed(session[c], c, {p}))
  BY <1>1, UnsubscribedSound DEF SessionsSound, AllSound
<1>3. SessionsSound'
  <2>1. CASE session' = [session EXCEPT ![c] = WithUnsubscribed(session[c], c, {p})]
    <3> HIDE DEF c
    <3> QED  BY <1>1, <1>2, <2>1, PutSound
  <2>2. CASE session' = session  BY <2>2 DEF SessionsSound, AllSound
  <2> QED  BY <2>1, <2>2 DEF ClosePanel
<1>4. RestOK'  BY DEF RestOK, ClosePanel
<1> QED  BY <1>3, <1>4

-----------------------------------------------------------------------------
(* The steps of the tasks.                                                     *)

\* Steps of the connect path: what changes is the connection, and on success
\* its client, with the panels that were waiting for it.
LEMMA ConnectSound ==
  ASSUME SessionsSound, RestOK, NEW c \in Contexts,
         ConnWaits(c) \/ ConnProbes(c) \/ ConnConnected(c) \/ ConnFailed(c)
  PROVE  SessionsSound' /\ RestOK'
<1> DEFINE s == session[c]
<1>1. SessionSound(s) /\ s \in Session  BY DEF SessionsSound, AllSound, SessionSound
<1>2. ASSUME NEW conn \in Conn \ {"Connected"}, session' = [session EXCEPT ![c].conn = conn]
      PROVE  SessionsSound'
  <2>1. SessionSound([s EXCEPT !.conn = conn])
    BY <1>1 DEF SessionSound, Session, ClientSound
  <2> QED  BY <1>2, <2>1, PutSound
<1>3. CASE ConnWaits(c)
  BY <1>2, <1>3 DEF ConnWaits, RestOK, Conn
<1>4. CASE ConnProbes(c)
  BY <1>2, <1>4 DEF ConnProbes, RestOK, Conn
<1>5. CASE ConnFailed(c)
  BY <1>2, <1>5 DEF ConnFailed, RestOK, Conn
<1>6. CASE ConnConnected(c)
  <2> DEFINE W == {w \in Windows : On(picker[w], c)}
             waiting == {p \in Panels : panel[p] = "waiting" /\ PanelContext[p] = c}
             up == [s EXCEPT !.conn = "Connected", !.connClient = "valid"]
             P == waiting \cup FirstPanels(W, c)
  <2>1. /\ session' = [session EXCEPT ![c] = Entered(up, c, W, P)]
        /\ panel' = PanelsEntered(up, P)
        /\ picker' = [w \in Windows |-> IF w \in W THEN None ELSE picker[w]]
        /\ refresh' = refresh
    BY <1>6 DEF ConnConnected
  <2>2. SessionSound(up)
    BY <1>1 DEF SessionSound, Session, ClientSound, Conn, Client
  <2>3. W \in SUBSET Windows /\ P \in SUBSET Panels  BY FirstPanelsType
  <2>4. SessionsSound'
    <3> HIDE DEF up, W, P
    <3>1. SessionSound(Entered(up, c, W, P))  BY <2>2, <2>3, EnteredSound
    <3> QED  BY <3>1, <2>1, PutSound
  <2>5. panel' \in [Panels -> {"closed", "waiting", "subscribed", "orphaned"}]
    BY <2>1, <2>3, PanelsEnteredType
  <2> QED  BY <2>1, <2>4, <2>5 DEF RestOK
<1> QED  BY <1>3, <1>4, <1>5, <1>6

\* Steps of the forward and of the health task that follows it.
LEMMA HealthSound ==
  ASSUME SessionsSound, RestOK, NEW c \in Contexts,
         ForwardUp(c) \/ ForwardDrops(c) \/ HealthObserve(c) \/ HealthApply(c)
  PROVE  SessionsSound' /\ RestOK'
<1> DEFINE s == session[c]
<1>1. SessionSound(s) /\ s \in Session  BY DEF SessionsSound, AllSound, SessionSound
<1>2. RestOK'
  BY DEF RestOK, ForwardUp, ForwardDrops, HealthObserve, HealthApply
<1>3. ASSUME NEW fwd \in Forward, session' = [session EXCEPT ![c].fwd = fwd]
      PROVE  SessionsSound'
  <2>1. SessionSound([s EXCEPT !.fwd = fwd])
    BY <1>1 DEF SessionSound, Session, ClientSound
  <2> QED  BY <1>3, <2>1, PutSound
<1>4. CASE ForwardUp(c)
  BY <1>2, <1>3, <1>4 DEF ForwardUp, Forward
<1>5. CASE ForwardDrops(c)
  BY <1>2, <1>3, <1>5 DEF ForwardDrops, Forward
<1>6. CASE HealthObserve(c)
  <2> DEFINE new == EdgesOf(s.seen, s.fwd)
             t == [s EXCEPT !.seen = s.fwd, !.edges = s.edges \o new]
  <2>1. new \in Seq(Edge)
    <3>1. new \in {<<>>, <<"Pause">>, <<"Resume">>}
      <4>1. CASE s.seen = "Up" /\ s.fwd = "Reconnecting"  BY <4>1, Zenon DEF EdgesOf
      <4>2. CASE s.seen = "Reconnecting" /\ s.fwd = "Up"  BY <4>2 DEF EdgesOf
      <4>3. CASE /\ ~(s.seen = "Up" /\ s.fwd = "Reconnecting")
                 /\ ~(s.seen = "Reconnecting" /\ s.fwd = "Up")
        BY <4>3 DEF EdgesOf
      <4> QED  BY <4>1, <4>2, <4>3
    <3>2. <<>> \in Seq(Edge) /\ <<"Pause">> \in Seq(Edge) /\ <<"Resume">> \in Seq(Edge)
      BY DEF Edge
    <3> HIDE DEF new
    <3> QED  BY <3>1, <3>2
  <2>2. s.edges \o new \in Seq(Edge)
    <3>1. s.edges \in Seq(Edge)  BY <1>1 DEF Session
    <3> HIDE DEF s, new
    <3> QED  BY <2>1, <3>1
  <2>3. SessionSound(t)
    <3> HIDE DEF new
    <3> QED  BY <1>1, <2>2 DEF SessionSound, Session, ClientSound
  <2>4. session' = [session EXCEPT ![c] = t]
    BY <1>6, <1>1 DEF HealthObserve, SessionsSound
  <2>5. SessionsSound'
    <3> HIDE DEF t
    <3> QED  BY <2>3, <2>4, PutSound
  <2> QED  BY <1>2, <2>5
<1>7. CASE HealthApply(c)
  <2> DEFINE t == [s EXCEPT !.edges = Tail(s.edges)]
             u == IF Head(s.edges) = "Pause" THEN PausedAll(t, "Reconnecting")
                  ELSE ResumedAll(t)
  <2>1. Tail(s.edges) \in Seq(Edge)
    <3>1. s.edges \in Seq(Edge) /\ s.edges # <<>>
      BY <1>1, <1>7 DEF Session, HealthApply
    <3> HIDE DEF s
    <3> QED  BY <3>1
  <2>2. SessionSound(t)
    BY <1>1, <2>1 DEF SessionSound, Session, ClientSound
  <2>3. SessionSound(u)
    <3> HIDE DEF t
    <3> QED  BY <2>2, PausedSound, ResumedSound DEF Paused
  <2>4. session' = [session EXCEPT ![c] = u]
    BY <1>7, <1>1 DEF HealthApply
  <2>5. SessionsSound'
    <3> HIDE DEF u
    <3> QED  BY <2>3, <2>4, PutSound
  <2> QED  BY <1>2, <2>5
<1> QED  BY <1>4, <1>5, <1>6, <1>7

\* A credential expiring renames clients and stops nothing.
LEMMA ExpireSound ==
  ASSUME SessionsSound, RestOK, NEW c \in Contexts, Expire(c)
  PROVE  SessionsSound' /\ RestOK'
<1> DEFINE s == session[c]
           E(e) == [e EXCEPT !.task = Expired(e.task)]
           W == [k \in Keys |-> E(s.watch[k])]
           t == [s EXCEPT !.connClient = Expired(s.connClient), !.client = Expired(s.client),
                          !.watch = W]
<1>1. SessionSound(s) /\ s \in Session  BY DEF SessionsSound, AllSound, SessionSound
<1>2. \A cl \in Client : Expired(cl) \in Client /\ (Expired(cl) # "none" <=> cl # "none")
  BY DEF Client, Expired
<1>3. \A e \in Entry : /\ E(e) \in Entry /\ E(e).refs = e.refs
                       /\ EntrySound(e) => EntrySound(E(e))
  BY <1>2 DEF Entry, EntrySound
<1>4. \A k \in Keys : s.watch[k] \in Entry /\ EntrySound(s.watch[k])
  BY <1>1 DEF SessionSound, Session
<1>5. \A k \in Keys : W[k] \in Entry /\ EntrySound(W[k]) /\ W[k].refs = s.watch[k].refs
  <2> HIDE DEF E, s
  <2> QED  BY <1>3, <1>4
<1>6. W \in [Keys -> Entry]  BY <1>5
<1>7. SessionSound(t)
  <2>1. t.client # "none" <=> s.client # "none"
    BY <1>1, <1>2 DEF Session
  <2>2. t.connClient # "none" <=> s.connClient # "none"
    BY <1>1, <1>2 DEF Session
  <2>3. t \in Session /\ t.watch = W /\ t.conn = s.conn
    <3> HIDE DEF W
    <3> QED  BY <1>1, <1>2, <1>6 DEF Session
  <2> HIDE DEF W, t
  <2> QED  BY <1>1, <1>5, <2>1, <2>2, <2>3 DEF SessionSound, ClientSound
<1>8. session' = [session EXCEPT ![c] = t]
  BY <1>1 DEF Expire, SessionsSound
<1>9. SessionsSound'
  <2> HIDE DEF t
  <2> QED  BY <1>7, <1>8, PutSound
<1> QED  BY <1>9 DEF RestOK, Expire

\* A 401 pauses the watches of one session and starts a refresh.
LEMMA UnauthorizedSound ==
  ASSUME SessionsSound, RestOK, NEW c \in Contexts, Unauthorized(c)
  PROVE  SessionsSound' /\ RestOK'
<1>1. SessionSound(PausedAll(session[c], "CredentialRefresh"))
  BY PausedSound DEF SessionsSound, AllSound, Paused
<1>2. session' = [session EXCEPT ![c] = PausedAll(session[c], "CredentialRefresh")]
  BY DEF Unauthorized
<1>3. SessionsSound'  BY <1>1, <1>2, PutSound
<1>4. [ctx |-> c, stage |-> "waiting", stale |-> FALSE] \in Refresh  BY DEF Refresh
<1>5. refresh' \in [Slots -> Refresh \cup {None}]
  BY <1>4 DEF Unauthorized, RestOK
<1> QED  BY <1>3, <1>5 DEF RestOK, Unauthorized

\* A refresh moves on, resumes the watches of the session its name has now, or
\* leaves them as they are.
LEMMA RefreshSound ==
  ASSUME SessionsSound, RestOK, NEW r \in Slots,
         RefreshProbes(r) \/ RefreshSucceeds(r) \/ RefreshFails(r)
  PROVE  SessionsSound' /\ RestOK'
<1> DEFINE c == refresh[r].ctx
<1>1. refresh[r] \in Refresh /\ c \in Contexts
  BY DEF RestOK, Refresh, RefreshProbes, RefreshSucceeds, RefreshFails
<1>2. SessionSound(session[c])  BY <1>1 DEF SessionsSound, AllSound
<1>3. ASSUME session' = session  PROVE SessionsSound'
  BY <1>3 DEF SessionsSound, AllSound
<1>4. CASE RefreshProbes(r)
  <2>1. [refresh[r] EXCEPT !.stage = "probing"] \in Refresh  BY <1>1 DEF Refresh
  <2>2. RestOK'  BY <1>4, <2>1 DEF RefreshProbes, RestOK
  <2> QED  BY <1>4, <1>3, <2>2 DEF RefreshProbes
<1>5. CASE RefreshSucceeds(r)
  <2> DEFINE t == [session[c] EXCEPT !.client = "valid"]
  <2>1. SessionSound(t)
    BY <1>2 DEF SessionSound, Session, ClientSound, Client
  <2>2. SessionSound(ResumedAll(t))
    <3> HIDE DEF t
    <3> QED  BY <2>1, ResumedSound
  <2>3. session' = session \/ session' = [session EXCEPT ![c] = ResumedAll(t)]
    BY <1>5 DEF RefreshSucceeds
  <2>4. SessionsSound'
    <3> HIDE DEF t, c
    <3> QED  BY <1>1, <1>3, <2>2, <2>3, PutSound
  <2> QED  BY <1>5, <2>4 DEF RefreshSucceeds, RestOK
<1>6. CASE RefreshFails(r)
  <2> DEFINE t == [session[c] EXCEPT !.lost = TRUE]
  <2>1. SessionSound(t)
    BY <1>2 DEF SessionSound, Session, ClientSound
  <2>2. session' = session \/ session' = [session EXCEPT ![c] = t]
    BY <1>6 DEF RefreshFails
  <2>3. SessionsSound'
    <3> HIDE DEF t, c
    <3> QED  BY <1>1, <1>3, <2>1, <2>2, PutSound
  <2> QED  BY <1>6, <2>3 DEF RefreshFails, RestOK
<1> QED  BY <1>4, <1>5, <1>6

-----------------------------------------------------------------------------
(* The theorems.                                                               *)

\* No session, no panel, no attempt, no refresh: the empty map is sound.
LEMMA InitSound == Init => SessionsSound /\ RestOK
<1>1. Init => SessionsSound
  <2>1. NoSession \in Session  BY NoneSound DEF SessionSound
  <2> QED  BY <2>1, NoneSound DEF Init, SessionsSound, AllSound
<1> QED  BY <1>1 DEF Init, RestOK

\* Every step keeps every session sound and every variable of its type.
LEMMA NextSound == SessionsSound /\ RestOK /\ [Next]_vars => SessionsSound' /\ RestOK'
<1> SUFFICES ASSUME SessionsSound, RestOK, [Next]_vars
             PROVE  SessionsSound' /\ RestOK'
  OBVIOUS
<1>1. CASE WindowStep
  <2>1. ASSUME NEW w \in Windows, CloseWindow(w)  PROVE SessionsSound' /\ RestOK'
    BY <2>1, ReleaseSound DEF CloseWindow
  <2>2. ASSUME NEW w \in Windows, PickerDismiss(w)  PROVE SessionsSound' /\ RestOK'
    BY <2>2, ReleaseSound DEF PickerDismiss
  <2> QED
    BY <1>1, <2>1, <2>2, PickerSelectSound, DisconnectSound, OrphanConnectedSound,
       RestoreSound, OpenPanelSound, ClosePanelSound DEF WindowStep
<1>2. CASE ConnectStep  BY <1>2, ConnectSound DEF ConnectStep
<1>3. CASE HealthStep  BY <1>3, HealthSound DEF HealthStep
<1>4. CASE CredentialStep
  BY <1>4, ExpireSound, UnauthorizedSound, RefreshSound DEF CredentialStep
<1>5. CASE UNCHANGED vars
  BY <1>5 DEF vars, SessionsSound, AllSound, RestOK
<1> QED  BY <1>1, <1>2, <1>3, <1>4, <1>5 DEF Next

\* In every reachable state every variable has its type and every session is
\* sound, whatever the windows, contexts, keys and panels.
THEOREM SpecSound == Spec => []SoundInv
<1>1. SessionsSound /\ RestOK <=> SoundInv
  BY DEF SoundInv, TypeOK, SessionsSound, RestOK
<1> QED  BY InitSound, NextSound, <1>1, PTL DEF Spec

\* The type invariant the runs check.
THEOREM SpecTypeOK == Spec => []TypeOK
<1>1. SoundInv => TypeOK  BY DEF SoundInv
<1> QED  BY <1>1, SpecSound, PTL

\* A watch task runs exactly while some panel wants it and it is not paused:
\* the restart a resume makes always finds a client to restart it with.
THEOREM SpecRunningIffWanted == Spec => []RunningIffWanted
<1>1. SoundInv => RunningIffWanted
  BY DEF SoundInv, AllSound, SessionSound, EntrySound, RunningIffWanted
<1> QED  BY <1>1, SpecSound, PTL

-----------------------------------------------------------------------------
(* Sessions and the panels of their windows.  The count of a watch is a        *)
(* cardinality of a set of panels, so its lemmas are about how that set grows  *)
(* and shrinks.                                                                *)

\* The panels that are subscribed in pn.
SubscribedIn(pn) == {p \in Panels : pn[p] = "subscribed"}

\* s counts the panels Q on each of its keys.
Counts(s, c, Q) == \A k \in Keys : s.watch[k].refs = Cardinality(OnKey(Q, c, k))

\* A panel is open only while its window holds the session, and subscribed only
\* while that session is connected.
Hosts(s, c, pn) ==
  \A p \in Panels : PanelContext[p] = c /\ pn[p] # "closed" =>
    /\ pn[p] # "orphaned"
    /\ PanelWindow[p] \in s.holders
    /\ pn[p] = "subscribed" => s.conn = "Connected"

\* What binds the session of c to the panels: with SessionSound, the
\* strengthening of RefcountMatchesPanels and PanelsAreHeld that is inductive.
Tended(s, c, pn) ==
  /\ s.conn = "none" => s.holders = {}
  /\ Hosts(s, c, pn)
  /\ Counts(s, c, SubscribedIn(pn))

AllTended == \A c \in Contexts : Tended(session[c], c, panel)

-----------------------------------------------------------------------------
(* Counting.                                                                   *)

\* Panels joining those already counted add their own number.
LEMMA OnKeyJoin ==
  ASSUME NEW c, NEW k, NEW P \in SUBSET Panels, NEW Q \in SUBSET Panels,
         NEW R \in SUBSET Panels,
         \A p \in Panels : PanelContext[p] = c =>
           /\ p \in R <=> p \in Q \/ p \in P
           /\ ~(p \in Q /\ p \in P)
  PROVE  Cardinality(OnKey(R, c, k)) =
           Cardinality(OnKey(Q, c, k)) + Cardinality(OnKey(P, c, k))
<1>1. OnKey(R, c, k) = OnKey(Q, c, k) \cup OnKey(P, c, k)  BY DEF OnKey
<1>2. OnKey(Q, c, k) \cap OnKey(P, c, k) = {}  BY DEF OnKey
<1>3. /\ OnKey(Q, c, k) \subseteq Panels
      /\ OnKey(P, c, k) \subseteq Panels
  BY DEF OnKey
<1>4. IsFiniteSet(OnKey(Q, c, k)) /\ IsFiniteSet(OnKey(P, c, k))
  BY <1>3, PanelAssumption, FS_Subset
<1> DEFINE X == OnKey(Q, c, k)
           Y == OnKey(P, c, k)
<1>5. Cardinality(X \cap Y) = 0  BY <1>2, FS_EmptySet
<1>6. Cardinality(X) \in Nat /\ Cardinality(Y) \in Nat  BY OnKeyCount
<1>7. IsFiniteSet(X) /\ IsFiniteSet(Y)  BY <1>4
<1>9. Cardinality(X \cup Y) = Cardinality(X) + Cardinality(Y)
  <2> HIDE DEF X, Y
  <2>1. Cardinality(X \cup Y) = Cardinality(X) + Cardinality(Y) - Cardinality(X \cap Y)
    BY <1>7, FS_Union
  <2> QED  BY <2>1, <1>5, <1>6
<1> QED  BY <1>1, <1>9

\* Two sets with the same panels of c count the same.
LEMMA OnKeySame ==
  ASSUME NEW c, NEW k, NEW Q \in SUBSET Panels, NEW R \in SUBSET Panels,
         \A p \in Panels : PanelContext[p] = c => (p \in R <=> p \in Q)
  PROVE  OnKey(R, c, k) = OnKey(Q, c, k)
  BY DEF OnKey

\* What a panel subscribing does to a connected session's counts.
LEMMA CountsSubscribed ==
  ASSUME NEW s, SessionSound(s), s.conn = "Connected", NEW c,
         NEW P \in SUBSET Panels, NEW Q \in SUBSET Panels, NEW R \in SUBSET Panels,
         Counts(s, c, Q),
         \A p \in Panels : PanelContext[p] = c =>
           /\ p \in R <=> p \in Q \/ p \in P
           /\ ~(p \in Q /\ p \in P)
  PROVE  Counts(WithSubscribed(s, c, P), c, R)
<1> SUFFICES ASSUME NEW k \in Keys
             PROVE  WithSubscribed(s, c, P).watch[k].refs = Cardinality(OnKey(R, c, k))
  BY DEF Counts
<1> DEFINE n == Cardinality(OnKey(P, c, k))
           e == s.watch[k]
<1>1. s \in Session /\ e \in Entry /\ EntrySound(e)
      /\ s.connClient \in Client /\ s.connClient # "none"
  BY DEF SessionSound, ClientSound, Session
<1>2. n \in Nat  BY OnKeyCount
<1>3. Subscribe(e, n, s.connClient).refs = e.refs + n
  <2> HIDE DEF e, n
  <2> QED  BY <1>1, <1>2, EntrySubscribe
<1>4. WithSubscribed(s, c, P).watch[k].refs = Subscribe(e, n, s.connClient).refs
  BY <1>1 DEF WithSubscribed, Session
<1>5. e.refs = Cardinality(OnKey(Q, c, k))  BY DEF Counts
<1>6. Cardinality(OnKey(R, c, k)) = Cardinality(OnKey(Q, c, k)) + n  BY OnKeyJoin
<1> QED  BY <1>3, <1>4, <1>5, <1>6

\* What panels unsubscribing do to a session's counts.
LEMMA CountsUnsubscribed ==
  ASSUME NEW s, SessionSound(s), NEW c,
         NEW P \in SUBSET Panels, NEW Q \in SUBSET Panels, NEW R \in SUBSET Panels,
         Counts(s, c, Q),
         \A p \in Panels : PanelContext[p] = c =>
           /\ p \in R <=> p \in Q /\ p \notin P
           /\ p \in P => p \in Q
  PROVE  Counts(WithUnsubscribed(s, c, P), c, R)
<1> SUFFICES ASSUME NEW k \in Keys
             PROVE  WithUnsubscribed(s, c, P).watch[k].refs = Cardinality(OnKey(R, c, k))
  BY DEF Counts
<1> DEFINE n == Cardinality(OnKey(P, c, k))
           e == s.watch[k]
<1>1. s \in Session /\ e \in Entry /\ EntrySound(e)
  BY DEF SessionSound, Session
<1>2. n \in Nat /\ Cardinality(OnKey(R, c, k)) \in Nat  BY OnKeyCount
<1>3. Unsubscribe(e, n).refs = IF e.refs <= n THEN 0 ELSE e.refs - n
  <2> HIDE DEF e, n
  <2> QED  BY <1>1, <1>2, EntryUnsubscribe
<1>4. WithUnsubscribed(s, c, P).watch[k].refs = Unsubscribe(e, n).refs
  BY <1>1 DEF WithUnsubscribed, Session
<1>5. e.refs = Cardinality(OnKey(Q, c, k))  BY DEF Counts
<1>6. Cardinality(OnKey(Q, c, k)) = Cardinality(OnKey(R, c, k)) + n  BY OnKeyJoin
<1> QED  BY <1>2, <1>3, <1>4, <1>5, <1>6

-----------------------------------------------------------------------------
(* One session and its panels.                                                 *)

\* Nobody's session has no open panel.
LEMMA UnheldHasNoPanel ==
  ASSUME NEW s, NEW c, NEW pn, Tended(s, c, pn), s.holders = {},
         NEW p \in Panels, PanelContext[p] = c
  PROVE  pn[p] = "closed"
  BY DEF Tended, Hosts

\* A session is tended still if it keeps its holders, its counts, and its
\* connection once connected, and its panels stay as they are.
LEMMA TendedFrame ==
  ASSUME NEW s, NEW t, NEW c, NEW pn, NEW pn2, Tended(s, c, pn),
         t.conn = "none" => s.conn = "none", s.conn = "Connected" => t.conn = "Connected",
         t.holders = s.holders,
         \A k \in Keys : t.watch[k].refs = s.watch[k].refs,
         \A p \in Panels : PanelContext[p] = c => pn2[p] = pn[p]
  PROVE  Tended(t, c, pn2)
<1>1. Hosts(t, c, pn2)  BY DEF Tended, Hosts
<1>2. SubscribedIn(pn) \in SUBSET Panels /\ SubscribedIn(pn2) \in SUBSET Panels
  BY DEF SubscribedIn
<1>3. \A k \in Keys : OnKey(SubscribedIn(pn2), c, k) = OnKey(SubscribedIn(pn), c, k)
  BY DEF OnKey, SubscribedIn
<1>4. Counts(t, c, SubscribedIn(pn2))  BY <1>3 DEF Tended, Counts
<1> QED  BY <1>1, <1>4 DEF Tended

\* A session without subscribers is tended if all its panels are closed.
LEMMA TendedFresh ==
  ASSUME NEW t, NEW c, NEW pn, t.conn = "none" => t.holders = {},
         \A k \in Keys : t.watch[k].refs = 0,
         \A p \in Panels : PanelContext[p] = c => pn[p] = "closed"
  PROVE  Tended(t, c, pn)
<1>1. Hosts(t, c, pn)  BY DEF Hosts
<1>2. \A k \in Keys : OnKey(SubscribedIn(pn), c, k) = {}  BY DEF OnKey, SubscribedIn
<1>3. Counts(t, c, SubscribedIn(pn))  BY <1>2, FS_EmptySet DEF Counts
<1> QED  BY <1>1, <1>3 DEF Tended

\* What a session becomes when windows W enter it with panels P that were not
\* subscribed is tended.
LEMMA TendedEntered ==
  ASSUME NEW s, SessionSound(s), NEW c, NEW W \in SUBSET Windows,
         NEW P \in SUBSET Panels, NEW pn, NEW pn2,
         Tended(s, c, pn), s.conn # "none",
         \A p \in P : PanelContext[p] = c =>
           PanelWindow[p] \in s.holders \cup W /\ pn[p] \in {"closed", "waiting"},
         \A p \in Panels : PanelContext[p] = c =>
           pn2[p] = IF p \in P
                    THEN IF s.conn = "Connected" THEN "subscribed" ELSE "waiting"
                    ELSE pn[p]
  PROVE  Tended(Entered(s, c, W, P), c, pn2)
<1> DEFINE held == [s EXCEPT !.holders = @ \cup W]
           u == WithSubscribed(held, c, P)
<1>1. s \in Session  BY DEF SessionSound
<1>2. /\ held \in Session /\ held.conn = s.conn /\ held.holders = s.holders \cup W
      /\ held.watch = s.watch /\ SessionSound(held)
  BY <1>1 DEF SessionSound, Session, ClientSound
<1>3. SubscribedIn(pn) \in SUBSET Panels /\ SubscribedIn(pn2) \in SUBSET Panels
  BY DEF SubscribedIn
<1>4. CASE s.conn = "Connected"
  <2>1. Entered(s, c, W, P) = u  BY <1>4 DEF Entered
  <2>2. u.conn = s.conn /\ u.holders = s.holders \cup W
    <3> HIDE DEF held
    <3> QED  BY <1>2 DEF WithSubscribed, Session
  <2>3. Counts(held, c, SubscribedIn(pn))  BY <1>2 DEF Tended, Counts
  <2>4. \A p \in Panels : PanelContext[p] = c =>
           /\ p \in SubscribedIn(pn2) <=> p \in SubscribedIn(pn) \/ p \in P
           /\ ~(p \in SubscribedIn(pn) /\ p \in P)
    BY <1>4 DEF SubscribedIn
  <2>5. Counts(u, c, SubscribedIn(pn2))
    <3> HIDE DEF held
    <3> QED  BY <1>2, <1>3, <1>4, <2>3, <2>4, CountsSubscribed
  <2>6. Hosts(u, c, pn2)
    <3> HIDE DEF u, held
    <3> QED  BY <1>4, <2>2 DEF Hosts, Tended
  <2> QED  BY <1>4, <2>1, <2>2, <2>5, <2>6 DEF Tended
<1>5. CASE s.conn # "Connected"
  <2>1. Entered(s, c, W, P) = held  BY <1>5 DEF Entered
  <2>2. \A p \in Panels : PanelContext[p] = c =>
          (p \in SubscribedIn(pn2) <=> p \in SubscribedIn(pn))
    BY <1>5 DEF SubscribedIn
  <2>3. Counts(held, c, SubscribedIn(pn2))
    BY <1>2, <1>3, <2>2, OnKeySame DEF Tended, Counts
  <2>4. Hosts(held, c, pn2)
    <3> HIDE DEF held
    <3> QED  BY <1>2, <1>5 DEF Hosts, Tended
  <2> QED  BY <1>2, <2>1, <2>3, <2>4 DEF Tended
<1> QED  BY <1>4, <1>5

\* The windows W leave the session s, which becomes held, and close all their
\* panels: pn becomes pn2, and those that are leaving have yet to unsubscribe.
Leaves(s, held, c, W, closing, leaving, pn, pn2) ==
  /\ held.conn = s.conn /\ held.watch = s.watch /\ held.holders = s.holders \ W
  /\ \A p \in Panels : PanelContext[p] = c /\ PanelWindow[p] \in W => p \in closing
  /\ \A p \in Panels : PanelContext[p] = c =>
       pn2[p] = IF p \in closing THEN "closed" ELSE pn[p]
  /\ \A p \in Panels : p \in leaving <=> p \in closing /\ pn[p] = "subscribed"

\* Once they have, the session is tended.
LEMMA TendedLeft ==
  ASSUME NEW s, NEW c, NEW W, NEW closing, NEW pn, NEW pn2,
         Tended(s, c, pn), s.conn # "none",
         NEW held, SessionSound(held), NEW leaving \in SUBSET Panels,
         Leaves(s, held, c, W, closing, leaving, pn, pn2)
  PROVE  Tended(WithUnsubscribed(held, c, leaving), c, pn2)
<1> DEFINE u == WithUnsubscribed(held, c, leaving)
<1>1. held \in Session  BY DEF SessionSound
<1>2. SubscribedIn(pn) \in SUBSET Panels /\ SubscribedIn(pn2) \in SUBSET Panels
  BY DEF SubscribedIn
<1>3. u.conn = s.conn /\ u.holders = s.holders \ W
  BY <1>1 DEF WithUnsubscribed, Session, Leaves
<1>4. Counts(held, c, SubscribedIn(pn))  BY DEF Tended, Counts, Leaves
<1>5. \A p \in Panels : PanelContext[p] = c =>
         /\ p \in SubscribedIn(pn2) <=> p \in SubscribedIn(pn) /\ p \notin leaving
         /\ p \in leaving => p \in SubscribedIn(pn)
  BY DEF SubscribedIn, Leaves
<1>6. Counts(u, c, SubscribedIn(pn2))
  BY <1>2, <1>4, <1>5, CountsUnsubscribed
<1>7. Hosts(u, c, pn2)
  <2> HIDE DEF u
  <2> QED  BY <1>3 DEF Hosts, Tended, Leaves
<1> QED  BY <1>3, <1>6, <1>7 DEF Tended

-----------------------------------------------------------------------------
(* The windows' steps.                                                         *)

\* A lookup returns a tended session: the map's, or a fresh one for panels that
\* are all closed.
LEMMA EnsuredTended ==
  ASSUME NEW c \in Contexts, SessionSound(session[c]), Tended(session[c], c, panel),
         NEW s \in Ensured(c)
  PROVE  Tended(s, c, panel) /\ SessionSound(s) /\ s.conn # "none"
<1>1. SessionSound(s)  BY EnsuredSound
<1>2. CASE Open(c)  BY <1>1, <1>2 DEF Ensured, Open
<1>3. CASE ~Open(c)
  <2>1. PICK conn \in {"Connecting", "Failed"}, fwd \in Forward : s = SessionWith(conn, fwd)
    BY <1>3 DEF Ensured, NewSessions, Forward
  <2>2. s.conn # "none" /\ \A k \in Keys : s.watch[k].refs = 0
    BY <2>1 DEF SessionWith, Idle
  <2>3. \A p \in Panels : PanelContext[p] = c => panel[p] = "closed"
    BY <1>3, UnheldHasNoPanel DEF Open, Tended
  <2> QED  BY <1>1, <2>2, <2>3, TendedFresh
<1> QED  BY <1>2, <1>3

\* The panels a window opens first are closed panels of that window.
LEMMA FirstPanelsAre ==
  ASSUME NEW W, NEW c, NEW p \in FirstPanels(W, c)
  PROVE  PanelWindow[p] \in W /\ PanelContext[p] = c /\ panel[p] = "closed"
  BY DEF FirstPanels

\* Selecting a context.
LEMMA PickerSelectTended ==
  ASSUME SessionsSound, RestOK, AllTended,
         NEW w \in Windows, NEW c \in Contexts, PickerSelect(w, c)
  PROVE  AllTended'
<1> DEFINE s == session[c]
           stale == s.conn = "Failed" /\ Unheld(c, {})
           first == FirstPanels({w}, c)
<1> SUFFICES ASSUME NEW d \in Contexts  PROVE Tended(session'[d], d, panel')
  BY DEF AllTended
<1>1. SessionSound(s) /\ Tended(s, c, panel) /\ Tended(session[d], d, panel)
      /\ session \in [Contexts -> Session]
  BY DEF SessionsSound, AllSound, AllTended
<1>2. first \in SUBSET Panels /\ {w} \in SUBSET Windows  BY FirstPanelsType
<1>3. CASE /\ s.conn = "Connected"
           /\ session' = [session EXCEPT ![c] = Entered(s, c, {w}, first)]
           /\ panel' = PanelsEntered(s, first)
  <2>1. CASE d = c
    <3>1. \A p \in first : PanelWindow[p] \in s.holders \cup {w} /\ panel[p] \in {"closed", "waiting"}
      BY FirstPanelsAre
    <3>2. \A p \in Panels : panel'[p] =
            IF p \in first THEN IF s.conn = "Connected" THEN "subscribed" ELSE "waiting"
            ELSE panel[p]
      BY <1>3 DEF PanelsEntered
    <3>3. session'[c] = Entered(s, c, {w}, first)  BY <1>1, <1>3
    <3>4. Tended(Entered(s, c, {w}, first), c, panel')
      <4> HIDE DEF s, first
      <4> QED  BY <1>1, <1>2, <1>3, <3>1, <3>2, TendedEntered
    <3> QED  BY <2>1, <3>3, <3>4
  <2>2. CASE d # c
    <3>1. session'[d] = session[d]  BY <1>3, <2>2
    <3>2. \A p \in Panels : PanelContext[p] = d => panel'[p] = panel[p]
      BY <1>3, <2>2, FirstPanelsAre DEF PanelsEntered
    <3> QED  BY <1>1, <3>1, <3>2, TendedFrame
  <2> QED  BY <2>1, <2>2
<1>4. CASE UNCHANGED <<session, panel, refresh>>
  BY <1>1, <1>4
<1>5. CASE /\ ~Open(c) \/ stale
           /\ \E new \in NewSessions(c) : session' = [session EXCEPT ![c] = new]
           /\ Dropped(IF stale THEN {c} ELSE {}, {})
  <2>1. \A p \in Panels : PanelContext[p] = c => panel[p] = "closed"
    <3>1. s.holders = {}  BY <1>1, <1>5 DEF Tended, Open, Unheld
    <3> QED  BY <1>1, <3>1, UnheldHasNoPanel
  <2>2. \A p \in Panels : panel'[p] = panel[p]
    BY <1>5, <2>1 DEF Dropped
  <2>3. CASE d = c
    <3>1. PICK conn \in {"Connecting", "Failed"}, fwd \in Forward :
            session'[c] = SessionWith(conn, fwd)
      BY <1>1, <1>5 DEF NewSessions, Forward
    <3>2. session'[c].conn # "none" /\ \A k \in Keys : session'[c].watch[k].refs = 0
      BY <3>1 DEF SessionWith, Idle
    <3> QED  BY <2>1, <2>2, <2>3, <3>2, TendedFresh
  <2>4. CASE d # c
    <3>1. session'[d] = session[d]  BY <1>5, <2>4
    <3> QED  BY <1>1, <2>2, <3>1, TendedFrame
  <2> QED  BY <2>3, <2>4
<1> QED  BY <1>3, <1>4, <1>5 DEF PickerSelect

\* A window entering a context whose session a lookup returns: s is that
\* session, and no other context's panels change.
LEMMA EnterTended ==
  ASSUME SessionsSound, AllTended, NEW c \in Contexts, NEW d \in Contexts,
         NEW w \in Windows, NEW s \in Ensured(c), NEW P \in SUBSET Panels,
         \A p \in P : PanelContext[p] = c => PanelWindow[p] = w /\ panel[p] = "closed",
         \A p \in Panels : PanelContext[p] = c =>
           panel'[p] = IF p \in P
                       THEN IF s.conn = "Connected" THEN "subscribed" ELSE "waiting"
                       ELSE panel[p]
  PROVE  Tended(Entered(s, c, {w}, P), c, panel')
<1>1. SessionSound(s) /\ Tended(s, c, panel) /\ s.conn # "none"
  BY EnsuredTended DEF SessionsSound, AllSound, AllTended
<1>2. \A p \in P : PanelContext[p] = c =>
        PanelWindow[p] \in s.holders \cup {w} /\ panel[p] \in {"closed", "waiting"}
  OBVIOUS
<1>3. {w} \in SUBSET Windows  OBVIOUS
<1> QED  BY <1>1, <1>2, <1>3, TendedEntered

\* A connection that outlived its session comes up.
LEMMA OrphanConnectedTended ==
  ASSUME SessionsSound, RestOK, AllTended, NEW w \in Windows, OrphanConnected(w)
  PROVE  AllTended'
<1> DEFINE c == picker[w].ctx
           first == FirstPanels({w}, c)
<1>1. c \in Contexts  BY DEF OrphanConnected, RestOK, Attempt
<1>2. PICK s \in Ensured(c) :
        /\ session' = [session EXCEPT ![c] = Entered(s, c, {w}, first)]
        /\ panel' = PanelsEntered(s, first)
  BY DEF OrphanConnected
<1> SUFFICES ASSUME NEW d \in Contexts  PROVE Tended(session'[d], d, panel')
  BY DEF AllTended
<1>3. \A p \in first : PanelWindow[p] = w /\ PanelContext[p] = c /\ panel[p] = "closed"
  BY FirstPanelsAre
<1>4. first \in SUBSET Panels  BY FirstPanelsType
<1> HIDE DEF c, first
<1>5. CASE d = c
  <2>1. \A p \in Panels : PanelContext[p] = c =>
           panel'[p] = IF p \in first
                       THEN IF s.conn = "Connected" THEN "subscribed" ELSE "waiting"
                       ELSE panel[p]
    BY <1>2 DEF PanelsEntered
  <2>2. Tended(Entered(s, c, {w}, first), c, panel')
    BY <1>1, <1>3, <1>4, <2>1, EnterTended
  <2> QED  BY <1>1, <1>2, <1>5, <2>2 DEF SessionsSound
<1>6. CASE d # c
  <2>1. session'[d] = session[d]  BY <1>2, <1>6 DEF SessionsSound
  <2>2. \A p \in Panels : PanelContext[p] = d => panel'[p] = panel[p]
    BY <1>2, <1>3, <1>6 DEF PanelsEntered
  <2> QED  BY <2>1, <2>2, TendedFrame DEF AllTended
<1> QED  BY <1>5, <1>6

\* A restored window.
LEMMA RestoreTended ==
  ASSUME SessionsSound, RestOK, AllTended, NEW w \in Windows, NEW cs \in SUBSET Contexts,
         Restore(w, cs)
  PROVE  AllTended'
<1>1. PICK c0 \in cs, s \in [cs -> UNION {Ensured(c) : c \in cs}] :
        /\ \A c \in cs : s[c] \in Ensured(c)
        /\ session' = [c \in Contexts |->
             IF c \in cs THEN Entered(s[c], c, {w}, FirstPanels({w}, c0)) ELSE session[c]]
        /\ panel' = PanelsEntered(s[c0], FirstPanels({w}, c0))
  BY DEF Restore
<1> DEFINE first == FirstPanels({w}, c0)
<1> SUFFICES ASSUME NEW d \in Contexts  PROVE Tended(session'[d], d, panel')
  BY DEF AllTended
<1>2. \A p \in first : PanelWindow[p] = w /\ PanelContext[p] = c0 /\ panel[p] = "closed"
  BY FirstPanelsAre
<1>3. first \in SUBSET Panels  BY FirstPanelsType
<1>4. session'[d] = IF d \in cs THEN Entered(s[d], d, {w}, first) ELSE session[d]
  BY <1>1
<1>5. panel' = PanelsEntered(s[c0], first)  BY <1>1
<1> HIDE DEF first
<1>6. \A p \in Panels : PanelContext[p] = d =>
        panel'[p] = IF p \in first
                    THEN IF s[d].conn = "Connected" THEN "subscribed" ELSE "waiting"
                    ELSE panel[p]
  BY <1>2, <1>5 DEF PanelsEntered
<1>7. CASE d \in cs
  <2>1. s[d] \in Ensured(d)  BY <1>1, <1>7
  <2>2. \A p \in first : PanelContext[p] = d => PanelWindow[p] = w /\ panel[p] = "closed"
    BY <1>2
  <2>3. Tended(Entered(s[d], d, {w}, first), d, panel')
    BY <1>3, <1>6, <2>1, <2>2, EnterTended
  <2> QED  BY <1>4, <1>7, <2>3
<1>8. CASE d \notin cs
  <2>1. \A p \in Panels : PanelContext[p] = d => panel'[p] = panel[p]
    BY <1>2, <1>6, <1>8
  <2> QED  BY <1>4, <1>8, <2>1, TendedFrame DEF AllTended
<1> QED  BY <1>7, <1>8

\* Windows W going away with all their panels: what stays is tended, and what
\* is dropped leaves no panel behind.
LEMMA LeaveTended ==
  ASSUME SessionsSound, AllTended, NEW c \in Contexts, NEW W \in SUBSET Windows,
         NEW closing \in SUBSET Panels, NEW D \in SUBSET Contexts,
         Dropped(D, closing), c \in D <=> Unheld(c, W),
         \A p \in Panels : PanelContext[p] = c /\ PanelWindow[p] \in W => p \in closing,
         session'[c] =
           IF c \in D \/ ~Open(c) THEN NoSession
           ELSE WithUnsubscribed([session[c] EXCEPT !.holders = @ \ W], c,
                                 {p \in closing : panel[p] = "subscribed"})
  PROVE  Tended(session'[c], c, panel')
<1>1. SessionSound(session[c]) /\ Tended(session[c], c, panel)
  BY DEF SessionsSound, AllSound, AllTended
<1>2. \A p \in Panels : panel'[p] =
        IF p \in closing THEN "closed"
        ELSE IF panel[p] # "closed" /\ PanelContext[p] \in D THEN "orphaned" ELSE panel[p]
  BY DEF Dropped
<1>3. CASE c \in D \/ ~Open(c)
  <2>1. session[c].holders \subseteq W
    BY <1>1, <1>3 DEF Unheld, Open, Tended
  <2>2. ASSUME NEW p \in Panels, PanelContext[p] = c  PROVE panel'[p] = "closed"
    <3>1. CASE p \in closing  BY <1>2, <3>1
    <3>2. CASE p \notin closing
      <4>1. PanelWindow[p] \notin W  BY <2>2, <3>2
      <4>2. panel[p] = "closed"  BY <1>1, <2>1, <2>2, <4>1 DEF Tended, Hosts
      <4> QED  BY <1>2, <3>2, <4>2
    <3> QED  BY <3>1, <3>2
  <2>3. NoSession.holders = {} /\ \A k \in Keys : NoSession.watch[k].refs = 0
    BY DEF NoSession, SessionWith, Idle
  <2> QED  BY <1>3, <2>2, <2>3, TendedFresh
<1>4. CASE c \notin D /\ Open(c)
  <2>1. \A p \in Panels : PanelContext[p] = c =>
           panel'[p] = IF p \in closing THEN "closed" ELSE panel[p]
    BY <1>2, <1>4
  <2> DEFINE held == [session[c] EXCEPT !.holders = @ \ W]
             leaving == {p \in closing : panel[p] = "subscribed"}
  <2>2. session[c].conn # "none"  BY <1>4 DEF Open
  <2>3. /\ SessionSound(held) /\ held.conn = session[c].conn
        /\ held.watch = session[c].watch /\ held.holders = session[c].holders \ W
    BY <1>1 DEF SessionSound, Session, ClientSound
  <2>4. leaving \in SUBSET Panels
        /\ Leaves(session[c], held, c, W, closing, leaving, panel, panel')
    <3> HIDE DEF held
    <3> QED  BY <2>1, <2>3 DEF Leaves
  <2>5. session'[c] = WithUnsubscribed(held, c, leaving)  BY <1>4
  <2> HIDE DEF held, leaving
  <2>6. Tended(WithUnsubscribed(held, c, leaving), c, panel')
    BY <1>1, <2>1, <2>2, <2>3, <2>4, TendedLeft
  <2> QED  BY <2>5, <2>6
<1> QED  BY <1>3, <1>4

\* Closing a window, or its picker.
LEMMA ReleaseTended ==
  ASSUME SessionsSound, RestOK, AllTended, NEW W \in SUBSET Windows,
         NEW closing \in SUBSET Panels, NEW gone, Release(W, closing, gone),
         \A p \in Panels : PanelWindow[p] \in W => p \in closing
  PROVE  AllTended'
<1> SUFFICES ASSUME NEW c \in Contexts  PROVE Tended(session'[c], c, panel')
  BY DEF AllTended
<1> DEFINE D == {x \in Contexts : Unheld(x, W)}
<1>1. Dropped(D, closing) /\ D \in SUBSET Contexts /\ (c \in D <=> Unheld(c, W))
  BY DEF Release
<1>2. session'[c] =
        IF c \in D \/ ~Open(c) THEN NoSession
        ELSE WithUnsubscribed([session[c] EXCEPT !.holders = @ \ W], c,
                              {p \in closing : panel[p] = "subscribed"})
  BY DEF Release
<1> HIDE DEF D
<1> QED  BY <1>1, <1>2, LeaveTended

\* A disconnect.
LEMMA DisconnectTended ==
  ASSUME SessionsSound, RestOK, AllTended, NEW w \in Windows, NEW c \in Contexts,
         Disconnect(w, c)
  PROVE  AllTended'
<1> DEFINE closing == {p \in Panels : PanelWindow[p] = w /\ PanelContext[p] = c}
           D == {d \in {c} : Unheld(d, {w})}
<1> SUFFICES ASSUME NEW d \in Contexts  PROVE Tended(session'[d], d, panel')
  BY DEF AllTended
<1>1. Dropped(D, closing) /\ D \in SUBSET Contexts /\ (c \in D <=> Unheld(c, {w}))
  BY DEF Disconnect
<1>2. Open(c)  BY DEF Disconnect, AllTended, Tended, Open
<1>3. CASE d = c
  <2>1. session'[c] =
          IF c \in D \/ ~Open(c) THEN NoSession
          ELSE WithUnsubscribed([session[c] EXCEPT !.holders = @ \ {w}], c,
                                {p \in closing : panel[p] = "subscribed"})
    BY <1>2 DEF Disconnect, SessionsSound
  <2>2. \A p \in Panels : PanelContext[p] = c /\ PanelWindow[p] \in {w} => p \in closing
    OBVIOUS
  <2>3. closing \in SUBSET Panels /\ {w} \in SUBSET Windows  OBVIOUS
  <2>4. Tended(session'[c], c, panel')
    <3> HIDE DEF closing, D
    <3> QED  BY <1>1, <2>1, <2>2, <2>3, LeaveTended
  <2> QED  BY <1>3, <2>4
<1>4. CASE d # c
  <2>1. session'[d] = session[d]  BY <1>4 DEF Disconnect, SessionsSound
  <2>2. \A p \in Panels : PanelContext[p] = d => panel'[p] = panel[p]
    BY <1>1, <1>4 DEF Dropped
  <2> QED  BY <2>1, <2>2, TendedFrame DEF AllTended
<1> QED  BY <1>3, <1>4

\* A panel opens.
LEMMA OpenPanelTended ==
  ASSUME SessionsSound, RestOK, AllTended, NEW p \in Panels, OpenPanel(p)
  PROVE  AllTended'
<1> DEFINE c == PanelContext[p]
<1>1. c \in Contexts  BY PanelAssumption
<1>2. session' = [session EXCEPT ![c] = Entered(session[c], c, {}, {p})]
      /\ panel' = PanelsEntered(session[c], {p})
  BY DEF OpenPanel
<1> SUFFICES ASSUME NEW d \in Contexts  PROVE Tended(session'[d], d, panel')
  BY DEF AllTended
<1>3. CASE d = c
  <2>1. SessionSound(session[c]) /\ Tended(session[c], c, panel)
    BY <1>1 DEF SessionsSound, AllSound, AllTended
  <2>2. session[c].conn # "none"  BY <2>1 DEF Tended, OpenPanel
  <2>3. \A q \in {p} : PanelContext[q] = c =>
          PanelWindow[q] \in session[c].holders \cup {} /\ panel[q] \in {"closed", "waiting"}
    BY DEF OpenPanel
  <2>4. \A q \in Panels : PanelContext[q] = c =>
          panel'[q] = IF q \in {p}
                      THEN IF session[c].conn = "Connected" THEN "subscribed" ELSE "waiting"
                      ELSE panel[q]
    BY <1>2 DEF PanelsEntered
  <2>5. Tended(Entered(session[c], c, {}, {p}), c, panel')
    <3> HIDE DEF c
    <3> QED  BY <2>1, <2>2, <2>3, <2>4, TendedEntered
  <2> QED  BY <1>1, <1>2, <1>3, <2>5 DEF SessionsSound
<1>4. CASE d # c
  <2>1. session'[d] = session[d]  BY <1>2, <1>4 DEF SessionsSound
  <2>2. \A q \in Panels : PanelContext[q] = d => panel'[q] = panel[q]
    BY <1>2, <1>4 DEF PanelsEntered
  <2> QED  BY <2>1, <2>2, TendedFrame DEF AllTended
<1> QED  BY <1>3, <1>4

\* A panel closes.
LEMMA ClosePanelTended ==
  ASSUME SessionsSound, RestOK, AllTended, NEW p \in Panels, ClosePanel(p)
  PROVE  AllTended'
<1> DEFINE c == PanelContext[p]
           s == session[c]
<1>1. c \in Contexts /\ SessionSound(s) /\ Tended(s, c, panel)
  BY PanelAssumption DEF SessionsSound, AllSound, AllTended
<1>2. \A q \in Panels : panel'[q] = IF q = p THEN "closed" ELSE panel[q]
  BY DEF ClosePanel, RestOK
<1>3. s.conn # "none"  BY <1>1 DEF ClosePanel, Tended, Hosts
<1> SUFFICES ASSUME NEW d \in Contexts  PROVE Tended(session'[d], d, panel')
  BY DEF AllTended
<1>4. CASE d = c
  <2> DEFINE P == {q \in {p} : panel[q] = "subscribed"}
  <2>1. CASE panel[p] = "subscribed"
    <3>1. session'[c] = WithUnsubscribed(s, c, {p})
      BY <1>1, <1>3, <2>1 DEF ClosePanel, Open, SessionsSound
    <3>2. SubscribedIn(panel) \in SUBSET Panels /\ SubscribedIn(panel') \in SUBSET Panels
      BY DEF SubscribedIn
    <3>3. \A q \in Panels : PanelContext[q] = c =>
            /\ q \in SubscribedIn(panel') <=> q \in SubscribedIn(panel) /\ q \notin {p}
            /\ q \in {p} => q \in SubscribedIn(panel)
      BY <1>2, <2>1 DEF SubscribedIn
    <3>4. Counts(session'[c], c, SubscribedIn(panel'))
      <4> HIDE DEF s, c
      <4> QED  BY <1>1, <3>1, <3>2, <3>3, CountsUnsubscribed DEF Tended
    <3>5. session'[c].conn = s.conn /\ session'[c].holders = s.holders
      BY <1>1, <3>1 DEF WithUnsubscribed, SessionSound, Session
    <3>6. Hosts(session'[c], c, panel')
      <4> HIDE DEF s, c
      <4> QED  BY <1>1, <1>2, <3>5 DEF Hosts, Tended
    <3> QED  BY <1>3, <1>4, <3>4, <3>5, <3>6 DEF Tended
  <2>2. CASE panel[p] # "subscribed"
    <3>1. session' = session  BY <2>2 DEF ClosePanel
    <3>2. SubscribedIn(panel') = SubscribedIn(panel)  BY <1>2, <2>2 DEF SubscribedIn
    <3>3. Hosts(s, c, panel')
      <4> HIDE DEF s, c
      <4> QED  BY <1>1, <1>2 DEF Hosts, Tended
    <3> QED  BY <1>1, <1>4, <3>1, <3>2, <3>3 DEF Tended
  <2> QED  BY <2>1, <2>2
<1>5. CASE d # c
  <2>1. session'[d] = session[d]  BY <1>5 DEF ClosePanel, SessionsSound
  <2>2. \A q \in Panels : PanelContext[q] = d => panel'[q] = panel[q]
    BY <1>2, <1>5
  <2> QED  BY <2>1, <2>2, TendedFrame DEF AllTended
<1> QED  BY <1>4, <1>5

-----------------------------------------------------------------------------
(* The steps of the tasks.                                                     *)

\* t keeps what the panels of s rest on.
Keeps(t, s) ==
  /\ t.conn = "none" => s.conn = "none"
  /\ s.conn = "Connected" => t.conn = "Connected"
  /\ t.holders = s.holders
  /\ \A k \in Keys : t.watch[k].refs = s.watch[k].refs

\* A step that leaves the panels alone, and changes one session in ways that do
\* not concern them.
LEMMA QuietTended ==
  ASSUME SessionsSound, AllTended, panel' = panel, NEW c \in Contexts, NEW t,
         Keeps(t, session[c]), session' = [session EXCEPT ![c] = t]
  PROVE  AllTended'
<1> SUFFICES ASSUME NEW d \in Contexts  PROVE Tended(session'[d], d, panel')
  BY DEF AllTended
<1>1. Tended(session[d], d, panel) /\ session \in [Contexts -> Session]
  BY DEF AllTended, SessionsSound
<1>2. CASE d # c  BY <1>1, <1>2
<1>3. CASE d = c
  <2>1. session'[d] = t  BY <1>1, <1>3
  <2>2. Tended(t, d, panel')  BY <1>1, <1>3, TendedFrame DEF Keeps
  <2> QED  BY <2>1, <2>2
<1> QED  BY <1>2, <1>3

\* Pauses and resumes keep every count, and what else the panels rest on.
LEMMA PausedKeeps ==
  ASSUME NEW s, SessionSound(s), NEW reason
  PROVE  Keeps(PausedAll(s, reason), s)
<1>1. s \in Session /\ \A k \in Keys : s.watch[k] \in Entry
  BY DEF SessionSound, Session
<1>2. \A e \in Entry : Pause(e, reason).refs = e.refs  BY DEF Pause, Entry
<1> QED  BY <1>1, <1>2 DEF PausedAll, Session, Keeps

LEMMA ResumedKeeps ==
  ASSUME NEW s, SessionSound(s)
  PROVE  Keeps(ResumedAll(s), s)
<1>1. s \in Session /\ \A k \in Keys : s.watch[k] \in Entry
  BY DEF SessionSound, Session
<1>2. \A e \in Entry : Resume(e, s.client).refs = e.refs  BY DEF Resume, Entry
<1> QED  BY <1>1, <1>2 DEF ResumedAll, Session, Keeps

LEMMA KeepsTwice ==
  ASSUME NEW s, NEW t, NEW u, Keeps(t, s), Keeps(u, t)  PROVE Keeps(u, s)
  BY DEF Keeps

\* A connection comes up: the panels that waited for it, and the first ones of
\* the pickers' windows, are subscribed.
LEMMA ConnectTended ==
  ASSUME SessionsSound, RestOK, AllTended, NEW c \in Contexts,
         ConnWaits(c) \/ ConnProbes(c) \/ ConnConnected(c) \/ ConnFailed(c)
  PROVE  AllTended'
<1> DEFINE s == session[c]
<1>1. SessionSound(s) /\ s \in Session /\ Tended(s, c, panel) /\ session \in [Contexts -> Session]
  BY DEF SessionsSound, AllSound, SessionSound, AllTended
<1>2. ASSUME NEW conn \in Conn \ {"none", "Connected"}, s.conn # "Connected", panel' = panel,
             session' = [session EXCEPT ![c].conn = conn]
      PROVE  AllTended'
  <2> DEFINE t == [s EXCEPT !.conn = conn]
  <2>1. Keeps(t, s)  BY <1>1, <1>2 DEF Session, Keeps
  <2>2. session' = [session EXCEPT ![c] = t]  BY <1>2
  <2> HIDE DEF t
  <2> QED  BY <1>2, <2>1, <2>2, QuietTended
<1>3. CASE ConnWaits(c)  BY <1>2, <1>3 DEF ConnWaits, Conn
<1>4. CASE ConnProbes(c)  BY <1>2, <1>4 DEF ConnProbes, Conn
<1>5. CASE ConnFailed(c)  BY <1>2, <1>5 DEF ConnFailed, Conn, Pending
<1>6. CASE ConnConnected(c)
  <2> DEFINE W == {w \in Windows : On(picker[w], c)}
             waiting == {p \in Panels : panel[p] = "waiting" /\ PanelContext[p] = c}
             up == [s EXCEPT !.conn = "Connected", !.connClient = "valid"]
             P == waiting \cup FirstPanels(W, c)
  <2> SUFFICES ASSUME NEW d \in Contexts  PROVE Tended(session'[d], d, panel')
    BY DEF AllTended
  <2>1. session' = [session EXCEPT ![c] = Entered(up, c, W, P)] /\ panel' = PanelsEntered(up, P)
    BY <1>6 DEF ConnConnected
  <2>2. SessionSound(up) /\ up.conn = "Connected" /\ up.holders = s.holders
        /\ up.watch = s.watch
    BY <1>1 DEF SessionSound, Session, ClientSound, Conn, Client
  <2>3. W \in SUBSET Windows /\ P \in SUBSET Panels  BY FirstPanelsType
  <2>4. \A p \in P : /\ PanelContext[p] = c
                     /\ PanelWindow[p] \in s.holders \cup W
                     /\ panel[p] \in {"closed", "waiting"}
    <3>1. \A p \in waiting : PanelWindow[p] \in s.holders
      <4> HIDE DEF s
      <4> QED  BY <1>1 DEF Tended, Hosts
    <3> QED  BY <3>1, FirstPanelsAre
  <2>5. Tended(up, c, panel)
    <3> HIDE DEF up, s
    <3> QED  BY <1>1, <2>2, TendedFrame
  <2> HIDE DEF up, W, P
  <2>6. CASE d = c
    <3>1. \A p \in Panels : PanelContext[p] = c =>
            panel'[p] = IF p \in P THEN IF up.conn = "Connected" THEN "subscribed" ELSE "waiting"
                        ELSE panel[p]
      BY <2>1 DEF PanelsEntered
    <3>2. Tended(Entered(up, c, W, P), c, panel')
      BY <2>2, <2>3, <2>4, <2>5, <3>1, TendedEntered
    <3> QED  BY <1>1, <2>1, <2>6, <3>2
  <2>7. CASE d # c
    <3>1. session'[d] = session[d]  BY <1>1, <2>1, <2>7
    <3>2. \A p \in Panels : PanelContext[p] = d => panel'[p] = panel[p]
      BY <2>1, <2>4, <2>7 DEF PanelsEntered
    <3> QED  BY <3>1, <3>2, TendedFrame DEF AllTended
  <2> QED  BY <2>6, <2>7
<1> QED  BY <1>3, <1>4, <1>5, <1>6

\* The forward and the health task.
LEMMA HealthTended ==
  ASSUME SessionsSound, RestOK, AllTended, NEW c \in Contexts,
         ForwardUp(c) \/ ForwardDrops(c) \/ HealthObserve(c) \/ HealthApply(c)
  PROVE  AllTended'
<1> DEFINE s == session[c]
<1>1. SessionSound(s) /\ s \in Session /\ session \in [Contexts -> Session]
  BY DEF SessionsSound, AllSound, SessionSound
<1>2. panel' = panel
  BY DEF ForwardUp, ForwardDrops, HealthObserve, HealthApply
<1>3. ASSUME NEW fwd, NEW seen, NEW edges,
             session' = [session EXCEPT ![c] =
               [s EXCEPT !.fwd = fwd, !.seen = seen, !.edges = edges]]
      PROVE  AllTended'
  <2> DEFINE t == [s EXCEPT !.fwd = fwd, !.seen = seen, !.edges = edges]
  <2>1. Keeps(t, s)  BY <1>1 DEF Session, Keeps
  <2>2. session' = [session EXCEPT ![c] = t]  BY <1>3
  <2> HIDE DEF t
  <2> QED  BY <1>2, <2>1, <2>2, QuietTended
<1>4. CASE ForwardUp(c)
  <2>1. session' = [session EXCEPT ![c] =
          [s EXCEPT !.fwd = "Up", !.seen = s.seen, !.edges = s.edges]]
    BY <1>1, <1>4 DEF ForwardUp, Session
  <2> QED  BY <1>3, <2>1
<1>5. CASE ForwardDrops(c)
  <2>1. session' = [session EXCEPT ![c] =
          [s EXCEPT !.fwd = "Reconnecting", !.seen = s.seen, !.edges = s.edges]]
    BY <1>1, <1>5 DEF ForwardDrops, Session
  <2> QED  BY <1>3, <2>1
<1>6. CASE HealthObserve(c)
  <2>1. session' = [session EXCEPT ![c] =
          [s EXCEPT !.fwd = s.fwd, !.seen = s.fwd,
                    !.edges = s.edges \o EdgesOf(s.seen, s.fwd)]]
    BY <1>1, <1>6 DEF HealthObserve, Session
  <2> QED  BY <1>3, <2>1
<1>7. CASE HealthApply(c)
  <2> DEFINE t == [s EXCEPT !.edges = Tail(s.edges)]
             u == IF Head(s.edges) = "Pause" THEN PausedAll(t, "Reconnecting")
                  ELSE ResumedAll(t)
  <2>1. Tail(s.edges) \in Seq(Edge)
    <3>1. s.edges \in Seq(Edge) /\ s.edges # <<>>
      BY <1>1, <1>7 DEF Session, HealthApply
    <3> HIDE DEF s
    <3> QED  BY <3>1
  <2>2. SessionSound(t) /\ Keeps(t, s)
    BY <1>1, <2>1 DEF SessionSound, Session, ClientSound, Keeps
  <2>3. Keeps(u, s)
    <3> HIDE DEF t
    <3> QED  BY <2>2, PausedKeeps, ResumedKeeps, KeepsTwice
  <2>4. session' = [session EXCEPT ![c] = u]
    BY <1>7, <1>1 DEF HealthApply
  <2> HIDE DEF u
  <2> QED  BY <1>2, <2>3, <2>4, QuietTended
<1> QED  BY <1>4, <1>5, <1>6, <1>7

\* Credentials.
LEMMA CredentialTended ==
  ASSUME SessionsSound, RestOK, AllTended, CredentialStep
  PROVE  AllTended'
<1>1. ASSUME NEW c \in Contexts, Expire(c)  PROVE AllTended'
  <2> DEFINE s == session[c]
             W == [k \in Keys |-> [s.watch[k] EXCEPT !.task = Expired(@)]]
             t == [s EXCEPT !.connClient = Expired(@), !.client = Expired(@), !.watch = W]
  <2>1. s \in Session /\ \A k \in Keys : s.watch[k] \in Entry
    BY DEF SessionsSound, Session
  <2>2. \A k \in Keys : W[k].refs = s.watch[k].refs  BY <2>1 DEF Entry
  <2>3. Keeps(t, s)
    <3>1. t.conn = s.conn /\ t.holders = s.holders /\ t.watch = W
      <4> HIDE DEF W
      <4> QED  BY <2>1 DEF Session
    <3> HIDE DEF t, W
    <3> QED  BY <2>2, <3>1 DEF Keeps
  <2>4. session' = [session EXCEPT ![c] = t] /\ panel' = panel
    BY <1>1, <2>1 DEF Expire, SessionsSound
  <2> HIDE DEF t
  <2> QED  BY <2>3, <2>4, QuietTended
<1>2. ASSUME NEW c \in Contexts, Unauthorized(c)  PROVE AllTended'
  <2>1. SessionSound(session[c])  BY DEF SessionsSound, AllSound
  <2>2. session' = [session EXCEPT ![c] = PausedAll(session[c], "CredentialRefresh")]
        /\ panel' = panel
    BY <1>2 DEF Unauthorized
  <2> QED  BY <2>1, <2>2, PausedKeeps, QuietTended
<1>3. ASSUME NEW r \in Slots, RefreshProbes(r) \/ RefreshSucceeds(r) \/ RefreshFails(r)
      PROVE  AllTended'
  <2> DEFINE c == refresh[r].ctx
             s == session[c]
  <2>1. c \in Contexts
    BY <1>3 DEF RestOK, Refresh, RefreshProbes, RefreshSucceeds, RefreshFails
  <2>2. SessionSound(s) /\ s \in Session  BY <2>1 DEF SessionsSound, AllSound, SessionSound
  <2>3. panel' = panel  BY <1>3 DEF RefreshProbes, RefreshSucceeds, RefreshFails
  <2>4. CASE session' = session  BY <2>3, <2>4 DEF AllTended
  <2>5. CASE session' = [session EXCEPT ![c] = ResumedAll([s EXCEPT !.client = "valid"])]
    <3> DEFINE t == [s EXCEPT !.client = "valid"]
    <3>1. SessionSound(t) /\ Keeps(t, s)
      BY <2>2 DEF SessionSound, Session, ClientSound, Client, Keeps
    <3>2. session' = [session EXCEPT ![c] = ResumedAll(t)]  BY <2>5
    <3> HIDE DEF t, c
    <3>3. Keeps(ResumedAll(t), s)  BY <3>1, ResumedKeeps, KeepsTwice
    <3> QED  BY <2>1, <2>3, <3>2, <3>3, QuietTended
  <2>6. CASE session' = [session EXCEPT ![c] = [s EXCEPT !.lost = TRUE]]
    <3> DEFINE t == [s EXCEPT !.lost = TRUE]
    <3>1. Keeps(t, s)  BY <2>2 DEF Session, Keeps
    <3>2. session' = [session EXCEPT ![c] = t]  BY <2>6
    <3> HIDE DEF t, c
    <3> QED  BY <2>1, <2>3, <3>1, <3>2, QuietTended
  <2>7. \/ session' = session
        \/ session' = [session EXCEPT ![c] = ResumedAll([s EXCEPT !.client = "valid"])]
        \/ session' = [session EXCEPT ![c] = [s EXCEPT !.lost = TRUE]]
    BY <1>3 DEF RefreshProbes, RefreshSucceeds, RefreshFails
  <2> HIDE DEF c
  <2> QED  BY <2>4, <2>5, <2>6, <2>7
<1> QED  BY <1>1, <1>2, <1>3 DEF CredentialStep

-----------------------------------------------------------------------------
(* The theorems.                                                               *)

LEMMA InitTended == Init => AllTended
<1> SUFFICES ASSUME Init, NEW c \in Contexts  PROVE Tended(session[c], c, panel)
  BY DEF AllTended
<1>1. session[c].holders = {} /\ \A k \in Keys : session[c].watch[k].refs = 0
  BY DEF Init, NoSession, SessionWith, Idle
<1>2. \A p \in Panels : panel[p] = "closed"  BY DEF Init
<1> QED  BY <1>1, <1>2, TendedFresh

LEMMA NextTended ==
  SessionsSound /\ RestOK /\ AllTended /\ [Next]_vars => AllTended'
<1> SUFFICES ASSUME SessionsSound, RestOK, AllTended, [Next]_vars  PROVE AllTended'
  OBVIOUS
<1>1. CASE WindowStep
  <2>1. ASSUME NEW w \in Windows, CloseWindow(w)  PROVE AllTended'
    <3>1. Release({w}, {p \in Panels : PanelWindow[p] = w}, {w})
      BY <2>1 DEF CloseWindow
    <3> QED  BY <3>1, ReleaseTended
  <2>2. ASSUME NEW w \in Windows, PickerDismiss(w)  PROVE AllTended'
    <3>1. Release({}, {}, {w})  BY <2>2 DEF PickerDismiss
    <3> QED  BY <3>1, ReleaseTended
  <2> QED
    BY <1>1, <2>1, <2>2, PickerSelectTended, DisconnectTended, OrphanConnectedTended,
       RestoreTended, OpenPanelTended, ClosePanelTended DEF WindowStep
<1>2. CASE ConnectStep  BY <1>2, ConnectTended DEF ConnectStep
<1>3. CASE HealthStep  BY <1>3, HealthTended DEF HealthStep
<1>4. CASE CredentialStep  BY <1>4, CredentialTended
<1>5. CASE UNCHANGED vars  BY <1>5 DEF vars, AllTended
<1> QED  BY <1>1, <1>2, <1>3, <1>4, <1>5 DEF Next

\* In every reachable state every session is tended by its panels.
THEOREM SpecTended == Spec => [](SessionsSound /\ RestOK /\ AllTended)
<1>1. Init => SessionsSound /\ RestOK /\ AllTended  BY InitSound, InitTended
<1>2. SessionsSound /\ RestOK /\ AllTended /\ [Next]_vars
        => (SessionsSound /\ RestOK /\ AllTended)'
  BY NextSound, NextTended
<1> QED  BY <1>1, <1>2, PTL DEF Spec

\* The count of a watch is the number of the panels subscribed to it, whatever
\* the windows, contexts, keys and panels.
THEOREM SpecRefcountMatchesPanels == Spec => []RefcountMatchesPanels
<1>1. AllTended => RefcountMatchesPanels
  BY DEF AllTended, Tended, Counts, RefcountMatchesPanels, Subscribed, SubscribedIn
<1> QED  BY <1>1, SpecTended, PTL

\* No session is dropped or replaced under an open panel of a window.
THEOREM SpecPanelsAreHeld == Spec => []PanelsAreHeld
<1>1. AllTended => PanelsAreHeld
  <2> SUFFICES ASSUME AllTended, NEW p \in Panels, panel[p] # "closed"
               PROVE  /\ panel[p] # "orphaned"
                      /\ PanelWindow[p] \in session[PanelContext[p]].holders
    BY DEF PanelsAreHeld
  <2>1. PanelContext[p] \in Contexts  BY PanelAssumption
  <2> QED  BY <2>1 DEF AllTended, Tended, Hosts
<1> QED  BY <1>1, SpecTended, PTL

-----------------------------------------------------------------------------
(* Pauses: each has its end ahead of it.                                       *)

\* A watch paused by the tunnel has its resume ahead of it; so has every pause
\* still in the channel, or else the health task sees the tunnel down; and once
\* it saw the forward up, the forward only flaps.
PauseSound(s) ==
  /\ \A k \in Keys : s.watch[k].paused = "Reconnecting" =>
       s.seen = "Reconnecting" \/ \E i \in 1..Len(s.edges) : s.edges[i] = "Resume"
  /\ \A i \in 1..Len(s.edges) : s.edges[i] = "Pause" =>
       \/ s.seen = "Reconnecting"
       \/ \E j \in 1..Len(s.edges) : i < j /\ s.edges[j] = "Resume"
  /\ s.seen \in {"Up", "Reconnecting"} => s.fwd \in {"Up", "Reconnecting"}

\* A watch paused for credentials has a refresh of its own session.
Pursued(s, c, rf) ==
  \A k \in Keys : s.watch[k].paused = "CredentialRefresh" =>
    \/ s.lost
    \/ \E r \in Slots : rf[r] # None /\ rf[r].ctx = c /\ ~rf[r].stale

AllPursued ==
  \A c \in Contexts : PauseSound(session[c]) /\ Pursued(session[c], c, refresh)

\* t pauses nothing that s did not, and has the same edges ahead.
Follows(t, s) ==
  /\ t.seen = s.seen /\ t.edges = s.edges
  /\ s.fwd \in {"Up", "Reconnecting"} => t.fwd \in {"Up", "Reconnecting"}
  /\ s.lost => t.lost
  /\ \A k \in Keys : t.watch[k].paused # "no" => t.watch[k].paused = s.watch[k].paused

\* Nothing is paused, and no health task has started.
Calm(t) ==
  /\ t.seen = "none" /\ t.edges = <<>>
  /\ \A k \in Keys : t.watch[k].paused = "no"

\* The refreshes of c's session are still that.
RefreshesStay(c) ==
  \A r \in Slots : refresh[r] # None /\ refresh[r].ctx = c =>
    refresh'[r] # None /\ refresh'[r].ctx = c /\ refresh'[r].stale = refresh[r].stale

GoesOn(c) ==
  Calm(session'[c]) \/ (Follows(session'[c], session[c]) /\ RefreshesStay(c))

-----------------------------------------------------------------------------
(* What keeps a pause pursued.                                                 *)

LEMMA CalmPursued ==
  ASSUME NEW t, NEW c, NEW rf, Calm(t)  PROVE PauseSound(t) /\ Pursued(t, c, rf)
  BY DEF Calm, PauseSound, Pursued

LEMMA FollowsSound ==
  ASSUME NEW s, NEW t, PauseSound(s), Follows(t, s)  PROVE PauseSound(t)
  BY DEF PauseSound, Follows

LEMMA GoesOnPursued ==
  ASSUME NEW c \in Contexts, AllPursued, GoesOn(c)
  PROVE  PauseSound(session'[c]) /\ Pursued(session'[c], c, refresh')
<1>1. CASE Calm(session'[c])  BY <1>1, CalmPursued
<1>2. CASE Follows(session'[c], session[c]) /\ RefreshesStay(c)
  <2>1. PauseSound(session'[c])  BY <1>2, FollowsSound DEF AllPursued
  <2>2. Pursued(session'[c], c, refresh')
    BY <1>2 DEF AllPursued, Pursued, Follows, RefreshesStay
  <2> QED  BY <2>1, <2>2
<1> QED  BY <1>1, <1>2 DEF GoesOn

LEMMA FollowsTwice ==
  ASSUME NEW s, NEW t, NEW u, Follows(t, s), Follows(u, t)  PROVE Follows(u, s)
  BY DEF Follows

LEMMA FreshCalm ==
  ASSUME NEW conn, NEW fwd  PROVE Calm(SessionWith(conn, fwd))
  BY DEF Calm, SessionWith, Idle

\* Subscribing and unsubscribing pause nothing.
LEMMA SubscribedFollows ==
  ASSUME NEW s \in Session, NEW c, NEW P  PROVE Follows(WithSubscribed(s, c, P), s)
<1>1. \A k \in Keys : s.watch[k] \in Entry  BY DEF Session
<1>2. \A e \in Entry : \A n, cl : Subscribe(e, n, cl).paused # "no"
        => Subscribe(e, n, cl).paused = e.paused
  BY DEF Subscribe, Entry
<1> QED  BY <1>1, <1>2 DEF WithSubscribed, Session, Follows

LEMMA UnsubscribedFollows ==
  ASSUME NEW s \in Session, NEW c, NEW P  PROVE Follows(WithUnsubscribed(s, c, P), s)
<1>1. \A k \in Keys : s.watch[k] \in Entry  BY DEF Session
<1>2. \A e \in Entry : \A n : Unsubscribe(e, n).paused # "no"
        => Unsubscribe(e, n).paused = e.paused
  BY DEF Unsubscribe, Idle, Entry
<1> QED  BY <1>1, <1>2 DEF WithUnsubscribed, Session, Follows

LEMMA EnteredFollows ==
  ASSUME NEW s \in Session, NEW c, NEW W \in SUBSET Windows, NEW P
  PROVE  Follows(Entered(s, c, W, P), s)
<1> DEFINE held == [s EXCEPT !.holders = @ \cup W]
<1>1. held \in Session /\ Follows(held, s)  BY DEF Session, Follows
<1>2. Follows(WithSubscribed(held, c, P), s)
  <2> HIDE DEF held
  <2> QED  BY <1>1, SubscribedFollows, FollowsTwice
<1> QED  BY <1>1, <1>2 DEF Entered

LEMMA EnteredCalm ==
  ASSUME NEW s, SessionSound(s), NEW c, NEW W \in SUBSET Windows, NEW P, Calm(s)
  PROVE  Calm(Entered(s, c, W, P))
<1>1. Follows(Entered(s, c, W, P), s)  BY EnteredFollows DEF SessionSound
<1> QED  BY <1>1 DEF Calm, Follows

\* What a lookup returns, entered, goes on from the map's session or is calm.
LEMMA EnsuredGoes ==
  ASSUME NEW c \in Contexts, SessionSound(session[c]), NEW s \in Ensured(c),
         NEW W \in SUBSET Windows, NEW P
  PROVE  Calm(Entered(s, c, W, P)) \/ Follows(Entered(s, c, W, P), session[c])
<1>1. SessionSound(s)  BY EnsuredSound
<1>2. CASE Open(c)
  BY <1>1, <1>2, EnteredFollows DEF Ensured, SessionSound
<1>3. CASE ~Open(c)
  <2>1. Calm(s)  BY <1>3, FreshCalm DEF Ensured, NewSessions
  <2> QED  BY <1>1, <2>1, EnteredCalm
<1> QED  BY <1>2, <1>3

-----------------------------------------------------------------------------
(* Steps.                                                                      *)

\* A session the step does not touch goes on, if its refreshes do.
LEMMA SameGoesOn ==
  ASSUME NEW c \in Contexts, session'[c] = session[c], RefreshesStay(c)
  PROVE  GoesOn(c)
  BY DEF GoesOn, Follows

LEMMA UnchangedRefreshes ==
  ASSUME refresh' = refresh, NEW c  PROVE RefreshesStay(c)
  BY DEF RefreshesStay

\* Dropping sessions makes stale their own refreshes only.
LEMMA DroppedRefreshes ==
  ASSUME RestOK, NEW D, NEW closing, Dropped(D, closing), NEW c \in Contexts, c \notin D
  PROVE  RefreshesStay(c)
  BY DEF Dropped, RefreshesStay

LEMMA PickerSelectGoes ==
  ASSUME SessionsSound, RestOK, NEW w \in Windows, NEW c \in Contexts, PickerSelect(w, c),
         NEW d \in Contexts
  PROVE  GoesOn(d)
<1> DEFINE s == session[c]
           stale == s.conn = "Failed" /\ Unheld(c, {})
           first == FirstPanels({w}, c)
<1>1. session \in [Contexts -> Session] /\ s \in Session  BY DEF SessionsSound
<1>2. CASE /\ session' = [session EXCEPT ![c] = Entered(s, c, {w}, first)]
           /\ UNCHANGED refresh
  <2>1. RefreshesStay(d)  BY <1>2, UnchangedRefreshes
  <2>2. CASE d # c  BY <1>1, <1>2, <2>1, <2>2, SameGoesOn
  <2>3. CASE d = c
    <3>1. Follows(Entered(s, c, {w}, first), s)
      <4> HIDE DEF s, first
      <4> QED  BY <1>1, EnteredFollows
    <3> QED  BY <1>1, <1>2, <2>1, <2>3, <3>1 DEF GoesOn
  <2> QED  BY <2>2, <2>3
<1>3. CASE UNCHANGED <<session, panel, refresh>>
  BY <1>3, SameGoesOn, UnchangedRefreshes
<1>4. CASE /\ \E new \in NewSessions(c) : session' = [session EXCEPT ![c] = new]
           /\ Dropped(IF stale THEN {c} ELSE {}, {})
  <2>1. CASE d = c
    <3>1. Calm(session'[c])  BY <1>1, <1>4, FreshCalm DEF NewSessions
    <3> QED  BY <2>1, <3>1 DEF GoesOn
  <2>2. CASE d # c
    <3>1. d \notin (IF stale THEN {c} ELSE {})  BY <2>2
    <3>2. RefreshesStay(d)
      <4> HIDE DEF stale
      <4> QED  BY <1>4, <3>1, DroppedRefreshes
    <3> QED  BY <1>1, <1>4, <2>2, <3>2, SameGoesOn
  <2> QED  BY <2>1, <2>2
<1> QED  BY <1>2, <1>3, <1>4 DEF PickerSelect

LEMMA OrphanConnectedGoes ==
  ASSUME SessionsSound, RestOK, NEW w \in Windows, OrphanConnected(w), NEW d \in Contexts
  PROVE  GoesOn(d)
<1> DEFINE c == picker[w].ctx
           first == FirstPanels({w}, c)
<1>1. c \in Contexts  BY DEF OrphanConnected, RestOK, Attempt
<1>2. PICK s \in Ensured(c) : session' = [session EXCEPT ![c] = Entered(s, c, {w}, first)]
  BY DEF OrphanConnected
<1>3. RefreshesStay(d)  BY UnchangedRefreshes DEF OrphanConnected
<1>4. {w} \in SUBSET Windows /\ SessionSound(session[c])
  BY <1>1 DEF SessionsSound, AllSound
<1> HIDE DEF c, first
<1>5. Calm(Entered(s, c, {w}, first)) \/ Follows(Entered(s, c, {w}, first), session[c])
  BY <1>1, <1>4, EnsuredGoes
<1>6. CASE d = c
  BY <1>1, <1>2, <1>3, <1>5, <1>6 DEF GoesOn, SessionsSound
<1>7. CASE d # c
  BY <1>2, <1>3, <1>7, SameGoesOn DEF SessionsSound
<1> QED  BY <1>6, <1>7

LEMMA RestoreGoes ==
  ASSUME SessionsSound, RestOK, NEW w \in Windows, NEW cs \in SUBSET Contexts,
         Restore(w, cs), NEW d \in Contexts
  PROVE  GoesOn(d)
<1>1. PICK c0 \in cs, s \in [cs -> UNION {Ensured(c) : c \in cs}] :
        /\ \A c \in cs : s[c] \in Ensured(c)
        /\ session' = [c \in Contexts |->
             IF c \in cs THEN Entered(s[c], c, {w}, FirstPanels({w}, c0)) ELSE session[c]]
  BY DEF Restore
<1> DEFINE first == FirstPanels({w}, c0)
<1>2. session'[d] = IF d \in cs THEN Entered(s[d], d, {w}, first) ELSE session[d]
  BY <1>1
<1>3. RefreshesStay(d)  BY UnchangedRefreshes DEF Restore
<1>4. {w} \in SUBSET Windows /\ SessionSound(session[d])  BY DEF SessionsSound, AllSound
<1> HIDE DEF first
<1>5. CASE d \in cs
  <2>1. s[d] \in Ensured(d)  BY <1>1, <1>5
  <2>2. Calm(Entered(s[d], d, {w}, first)) \/ Follows(Entered(s[d], d, {w}, first), session[d])
    BY <1>4, <2>1, EnsuredGoes
  <2> QED  BY <1>2, <1>3, <1>5, <2>2 DEF GoesOn
<1>6. CASE d \notin cs  BY <1>2, <1>3, <1>6, SameGoesOn
<1> QED  BY <1>5, <1>6

\* A window leaving the session of d, which may be dropped.
LEMMA LeaveGoes ==
  ASSUME SessionsSound, RestOK, NEW d \in Contexts, NEW W, NEW leaving,
         NEW D, NEW closing, Dropped(D, closing), d \in D => session'[d] = NoSession,
         \/ session'[d] = NoSession
         \/ session'[d] = WithUnsubscribed([session[d] EXCEPT !.holders = @ \ W], d, leaving)
  PROVE  GoesOn(d)
<1>1. CASE session'[d] = NoSession
  BY <1>1, FreshCalm DEF NoSession, GoesOn
<1>2. CASE /\ d \notin D
           /\ session'[d] = WithUnsubscribed([session[d] EXCEPT !.holders = @ \ W], d, leaving)
  <2> DEFINE held == [session[d] EXCEPT !.holders = @ \ W]
  <2>1. held \in Session /\ Follows(held, session[d])
    BY DEF SessionsSound, Session, Follows
  <2>2. session'[d] = WithUnsubscribed(held, d, leaving)  BY <1>2
  <2>3. Follows(WithUnsubscribed(held, d, leaving), session[d])
    <3> HIDE DEF held
    <3> QED  BY <2>1, UnsubscribedFollows, FollowsTwice
  <2>4. RefreshesStay(d)  BY <1>2, DroppedRefreshes
  <2> QED  BY <2>2, <2>3, <2>4 DEF GoesOn
<1> QED  BY <1>1, <1>2

LEMMA ReleaseGoes ==
  ASSUME SessionsSound, RestOK, NEW W, NEW closing, NEW gone, Release(W, closing, gone),
         NEW d \in Contexts
  PROVE  GoesOn(d)
<1> DEFINE D == {c \in Contexts : Unheld(c, W)}
           leaving == {p \in closing : panel[p] = "subscribed"}
<1>1. Dropped(D, closing)
      /\ session'[d] = IF d \in D \/ ~Open(d) THEN NoSession
                       ELSE WithUnsubscribed([session[d] EXCEPT !.holders = @ \ W], d, leaving)
  BY DEF Release
<1> HIDE DEF D, leaving
<1> QED  BY <1>1, LeaveGoes

LEMMA DisconnectGoes ==
  ASSUME SessionsSound, RestOK, NEW w \in Windows, NEW c \in Contexts, Disconnect(w, c),
         NEW d \in Contexts
  PROVE  GoesOn(d)
<1> DEFINE closing == {p \in Panels : PanelWindow[p] = w /\ PanelContext[p] = c}
           leaving == {p \in closing : panel[p] = "subscribed"}
           D == {x \in {c} : Unheld(x, {w})}
           t == IF c \in D THEN NoSession
                ELSE WithUnsubscribed([session[c] EXCEPT !.holders = @ \ {w}], c, leaving)
<1>1. Dropped(D, closing) /\ session' = [session EXCEPT ![c] = t]  BY DEF Disconnect
<1>2. CASE d = c
  <2>1. session'[d] = t  BY <1>1, <1>2 DEF SessionsSound
  <2> HIDE DEF D, closing, leaving
  <2> QED  BY <1>1, <1>2, <2>1, LeaveGoes
<1>3. CASE d # c
  <2>1. session'[d] = session[d]  BY <1>1, <1>3 DEF SessionsSound
  <2>2. d \notin D  BY <1>3
  <2> HIDE DEF D, closing
  <2> QED  BY <1>1, <2>1, <2>2, SameGoesOn, DroppedRefreshes
<1> QED  BY <1>2, <1>3

LEMMA PanelGoes ==
  ASSUME SessionsSound, RestOK, NEW p \in Panels, OpenPanel(p) \/ ClosePanel(p),
         NEW d \in Contexts
  PROVE  GoesOn(d)
<1> DEFINE c == PanelContext[p]
           s == session[c]
<1>1. c \in Contexts /\ s \in Session /\ session \in [Contexts -> Session]
  BY PanelAssumption DEF SessionsSound
<1>2. \/ session' = session
      \/ session' = [session EXCEPT ![c] = Entered(s, c, {}, {p})]
      \/ session' = [session EXCEPT ![c] = WithUnsubscribed(s, c, {p})]
  BY DEF OpenPanel, ClosePanel
<1>3. RefreshesStay(d)  BY UnchangedRefreshes DEF OpenPanel, ClosePanel
<1> HIDE DEF c, s
<1>4. Follows(Entered(s, c, {}, {p}), s)  BY <1>1, EnteredFollows
<1>5. Follows(WithUnsubscribed(s, c, {p}), s)  BY <1>1, UnsubscribedFollows
<1>6. session'[d] = session[d] \/ Follows(session'[d], session[d])
  BY <1>1, <1>2, <1>4, <1>5 DEF s
<1> QED  BY <1>3, <1>6, SameGoesOn DEF GoesOn

LEMMA ConnectGoes ==
  ASSUME SessionsSound, RestOK, NEW c \in Contexts,
         ConnWaits(c) \/ ConnProbes(c) \/ ConnConnected(c) \/ ConnFailed(c),
         NEW d \in Contexts
  PROVE  GoesOn(d)
<1> DEFINE s == session[c]
<1>1. s \in Session /\ session \in [Contexts -> Session]  BY DEF SessionsSound
<1>2. RefreshesStay(d)
  BY UnchangedRefreshes DEF ConnWaits, ConnProbes, ConnConnected, ConnFailed
<1>3. ASSUME NEW conn, session' = [session EXCEPT ![c].conn = conn]  PROVE GoesOn(d)
  <2>1. Follows([s EXCEPT !.conn = conn], s)  BY <1>1 DEF Session, Follows
  <2>2. session'[d] = session[d] \/ (d = c /\ session'[d] = [s EXCEPT !.conn = conn])
    BY <1>1, <1>3
  <2> QED  BY <1>2, <2>1, <2>2, SameGoesOn DEF GoesOn
<1>4. CASE ConnConnected(c)
  <2> DEFINE W == {w \in Windows : On(picker[w], c)}
             up == [s EXCEPT !.conn = "Connected", !.connClient = "valid"]
             P == {p \in Panels : panel[p] = "waiting" /\ PanelContext[p] = c}
                    \cup FirstPanels(W, c)
  <2>1. session' = [session EXCEPT ![c] = Entered(up, c, W, P)]
    BY <1>4 DEF ConnConnected
  <2>2. up \in Session /\ Follows(up, s)
    BY <1>1 DEF Session, Follows, Conn, Client
  <2>3. W \in SUBSET Windows  OBVIOUS
  <2> HIDE DEF up, W, P
  <2>4. Follows(Entered(up, c, W, P), s)  BY <2>2, <2>3, EnteredFollows, FollowsTwice
  <2>5. session'[d] = session[d] \/ (d = c /\ session'[d] = Entered(up, c, W, P))
    BY <1>1, <2>1
  <2> QED  BY <1>2, <2>4, <2>5, SameGoesOn DEF GoesOn
<1> QED  BY <1>3, <1>4 DEF ConnWaits, ConnProbes, ConnFailed

LEMMA ExpireGoes ==
  ASSUME SessionsSound, RestOK, NEW c \in Contexts, Expire(c), NEW d \in Contexts
  PROVE  GoesOn(d)
<1> DEFINE s == session[c]
           W == [k \in Keys |-> [s.watch[k] EXCEPT !.task = Expired(@)]]
           t == [s EXCEPT !.connClient = Expired(@), !.client = Expired(@), !.watch = W]
<1>1. s \in Session /\ session \in [Contexts -> Session]
      /\ \A k \in Keys : s.watch[k] \in Entry
  BY DEF SessionsSound, Session
<1>2. RefreshesStay(d)  BY UnchangedRefreshes DEF Expire
<1>3. \A k \in Keys : W[k].paused = s.watch[k].paused  BY <1>1 DEF Entry
<1>4. Follows(t, s)
  <2>1. t.seen = s.seen /\ t.edges = s.edges /\ t.fwd = s.fwd /\ t.lost = s.lost /\ t.watch = W
    <3> HIDE DEF W
    <3> QED  BY <1>1 DEF Session
  <2> HIDE DEF t, W
  <2> QED  BY <1>3, <2>1 DEF Follows
<1>5. session' = [session EXCEPT ![c] = t]  BY <1>1 DEF Expire
<1> HIDE DEF t
<1>6. session'[d] = session[d] \/ (d = c /\ session'[d] = t)  BY <1>1, <1>5
<1> QED  BY <1>2, <1>4, <1>6, SameGoesOn DEF GoesOn

\* The forward goes up and down, and is followed.
LEMMA ForwardGoes ==
  ASSUME SessionsSound, RestOK, NEW c \in Contexts, ForwardUp(c) \/ ForwardDrops(c),
         NEW d \in Contexts
  PROVE  GoesOn(d)
<1> DEFINE s == session[c]
<1>1. s \in Session /\ session \in [Contexts -> Session]  BY DEF SessionsSound
<1>2. RefreshesStay(d)  BY UnchangedRefreshes DEF ForwardUp, ForwardDrops
<1>3. PICK fwd \in {"Up", "Reconnecting"} : session' = [session EXCEPT ![c].fwd = fwd]
  BY DEF ForwardUp, ForwardDrops
<1>4. Follows([s EXCEPT !.fwd = fwd], s)  BY <1>1 DEF Session, Follows
<1>5. session'[d] = session[d] \/ (d = c /\ session'[d] = [s EXCEPT !.fwd = fwd])
  BY <1>1, <1>3
<1> QED  BY <1>2, <1>4, <1>5, SameGoesOn DEF GoesOn

-----------------------------------------------------------------------------
(* The health task: the edges themselves.                                      *)

LEMMA TailAt ==
  ASSUME NEW e \in Seq(Edge), e # <<>>
  PROVE  /\ Len(e) \in Nat \ {0} /\ Len(Tail(e)) = Len(e) - 1
         /\ \A i \in 1..Len(Tail(e)) : Tail(e)[i] = e[i + 1]
         /\ Head(e) = e[1]
  OBVIOUS

\* Whatever edge is still ahead behind the first is ahead in the rest.
LEMMA AheadInTail ==
  ASSUME NEW e \in Seq(Edge), e # <<>>, NEW i \in 1..Len(e), i > 1
  PROVE  i - 1 \in 1..Len(Tail(e)) /\ Tail(e)[i - 1] = e[i]
<1>1. i - 1 \in 1..Len(Tail(e)) /\ (i - 1) + 1 = i  BY TailAt
<1> QED  BY <1>1, TailAt

LEMMA ObserveSound ==
  ASSUME NEW s \in Session, PauseSound(s), s.fwd # "none", s.seen # s.fwd,
         NEW t, t.watch = s.watch, t.fwd = s.fwd, t.seen = s.fwd,
         t.edges = s.edges \o EdgesOf(s.seen, s.fwd)
  PROVE  PauseSound(t)
<1> DEFINE e == s.edges
<1>1. e \in Seq(Edge) /\ Len(e) \in Nat /\ s.seen \in Forward /\ s.fwd \in Forward
  BY DEF Session
<1>2. CASE s.fwd = "Reconnecting"
  BY <1>2 DEF PauseSound
<1>3. CASE s.seen = "Reconnecting" /\ s.fwd = "Up"
  <2>1. t.edges = Append(e, "Resume")
    <3>1. t.edges = e \o <<"Resume">>  BY <1>3 DEF EdgesOf
    <3> HIDE DEF e
    <3> QED  BY <1>1, <3>1
  <2>2. /\ Len(t.edges) = Len(e) + 1 /\ t.edges[Len(e) + 1] = "Resume"
        /\ Len(e) + 1 \in 1..Len(t.edges)
    <3> HIDE DEF e
    <3> QED  BY <1>1, <2>1
  <2>3. ASSUME NEW i \in 1..Len(t.edges), t.edges[i] = "Pause"  PROVE i < Len(e) + 1
    <3>1. i # Len(e) + 1  BY <2>2, <2>3
    <3>2. i \in 1..(Len(e) + 1)  BY <2>2
    <3> HIDE DEF e
    <3> QED  BY <1>1, <3>1, <3>2
  <2> QED  BY <1>3, <2>2, <2>3 DEF PauseSound
<1>4. CASE s.seen # "Reconnecting" /\ s.fwd # "Reconnecting"
  <2>1. EdgesOf(s.seen, s.fwd) = <<>>  BY <1>4 DEF EdgesOf
  <2>2. t.edges = e
    <3> HIDE DEF e
    <3> QED  BY <1>1, <2>1 DEF e
  <2> QED  BY <1>1, <1>4, <2>2 DEF PauseSound, Forward
<1>5. s.seen = "Reconnecting" => s.fwd \in {"Up", "Reconnecting"}  BY DEF PauseSound
<1> QED  BY <1>2, <1>3, <1>4, <1>5

LEMMA ApplySound ==
  ASSUME NEW s \in Session, PauseSound(s), s.edges # <<>>,
         NEW t, t.fwd = s.fwd, t.seen = s.seen, t.edges = Tail(s.edges),
         Head(s.edges) # "Pause" => \A k \in Keys : t.watch[k].paused = "no"
  PROVE  PauseSound(t)
<1> DEFINE e == s.edges
<1>1. /\ e \in Seq(Edge) /\ e # <<>>
      /\ Len(e) \in Nat \ {0} /\ Len(Tail(e)) = Len(e) - 1 /\ Head(e) = e[1]
  BY TailAt DEF Session
<1>2. ASSUME NEW i \in 1..Len(e), e[i] = "Pause", s.seen # "Reconnecting"
      PROVE  \E j \in 1..Len(Tail(e)) : i < j + 1 /\ Tail(e)[j] = "Resume"
  <2>1. PICK j \in 1..Len(e) : i < j /\ e[j] = "Resume"  BY <1>2 DEF PauseSound
  <2>2. j > 1  BY <1>1, <2>1
  <2>3. j - 1 \in 1..Len(Tail(e)) /\ Tail(e)[j - 1] = e[j] /\ i < (j - 1) + 1
    <3> HIDE DEF e
    <3> QED  BY <1>1, <2>1, <2>2, AheadInTail
  <2> QED  BY <2>1, <2>3
<1>3. ASSUME NEW i \in 1..Len(t.edges), t.edges[i] = "Pause", t.seen # "Reconnecting"
      PROVE  \E j \in 1..Len(t.edges) : i < j /\ t.edges[j] = "Resume"
  <2>1. i + 1 \in 1..Len(e) /\ e[i + 1] = "Pause"
    <3>1. t.edges = Tail(e)  OBVIOUS
    <3>2. i \in 1..Len(Tail(e)) /\ Tail(e)[i] = "Pause"  BY <1>3, <3>1
    <3>3. i \in 1..(Len(e) - 1)  BY <1>1, <3>2
    <3> HIDE DEF e
    <3>4. Tail(e)[i] = e[i + 1]  BY <1>1, <3>2, TailAt
    <3>5. i + 1 \in 1..Len(e)  BY <1>1, <3>3
    <3> QED  BY <3>2, <3>4, <3>5
  <2>2. PICK j \in 1..Len(Tail(e)) : i + 1 < j + 1 /\ Tail(e)[j] = "Resume"
    <3> HIDE DEF e
    <3> QED  BY <1>2, <1>3, <2>1
  <2> QED  BY <2>2
<1>4. ASSUME NEW k \in Keys, t.watch[k].paused = "Reconnecting", t.seen # "Reconnecting"
      PROVE  \E j \in 1..Len(t.edges) : t.edges[j] = "Resume"
  <2>1. e[1] = "Pause" /\ 1 \in 1..Len(e)  BY <1>1, <1>4
  <2> QED  BY <1>2, <1>4, <2>1
<1> QED  BY <1>3, <1>4 DEF PauseSound

\* What a pause and a resume leave of an entry's own pause.
LEMMA EntryPaused ==
  ASSUME NEW e \in Entry, NEW reason
  PROVE  Pause(e, reason).paused = IF e.refs > 0 /\ e.paused = "no" THEN reason ELSE e.paused
  BY DEF Pause, Entry

LEMMA EntryResumed ==
  ASSUME NEW e \in Entry, NEW cl  PROVE Resume(e, cl).paused = "no"
  BY DEF Resume, Entry

\* A step of c alone that keeps its watches' pauses pursued.
LEMMA HealthPursued ==
  ASSUME SessionsSound, RestOK, AllPursued, NEW c \in Contexts,
         HealthObserve(c) \/ HealthApply(c), NEW d \in Contexts
  PROVE  PauseSound(session'[d]) /\ Pursued(session'[d], d, refresh')
<1> DEFINE s == session[c]
<1>1. s \in Session /\ session \in [Contexts -> Session] /\ PauseSound(s)
      /\ \A k \in Keys : s.watch[k] \in Entry
  BY DEF SessionsSound, AllPursued, Session
<1>2. refresh' = refresh  BY DEF HealthObserve, HealthApply
<1>3. CASE d # c
  <2>1. session'[d] = session[d]  BY <1>1, <1>3 DEF HealthObserve, HealthApply
  <2> QED  BY <1>2, <2>1 DEF AllPursued
<1>4. CASE d = c /\ HealthObserve(c)
  <2> DEFINE t == [s EXCEPT !.seen = s.fwd, !.edges = s.edges \o EdgesOf(s.seen, s.fwd)]
  <2>1. session'[c] = t  BY <1>1, <1>4 DEF HealthObserve
  <2>2. /\ t.watch = s.watch /\ t.fwd = s.fwd /\ t.seen = s.fwd /\ t.lost = s.lost
        /\ t.edges = s.edges \o EdgesOf(s.seen, s.fwd)
    BY <1>1 DEF Session
  <2>3. s.fwd # "none" /\ s.seen # s.fwd  BY <1>4 DEF HealthObserve
  <2> HIDE DEF t
  <2>4. PauseSound(t)  BY <1>1, <2>2, <2>3, ObserveSound
  <2>5. Pursued(t, c, refresh)  BY <2>2 DEF AllPursued, Pursued
  <2> QED  BY <1>2, <1>4, <2>1, <2>4, <2>5
<1>5. CASE d = c /\ HealthApply(c)
  <2> DEFINE u == [s EXCEPT !.edges = Tail(s.edges)]
             t == IF Head(s.edges) = "Pause" THEN PausedAll(u, "Reconnecting")
                  ELSE ResumedAll(u)
  <2>1. session'[c] = t /\ s.edges # <<>>  BY <1>1, <1>5 DEF HealthApply
  <2>2. /\ t.fwd = s.fwd /\ t.seen = s.seen /\ t.edges = Tail(s.edges)
        /\ t.watch = IF Head(s.edges) = "Pause"
                     THEN [k \in Keys |-> Pause(s.watch[k], "Reconnecting")]
                     ELSE [k \in Keys |-> Resume(s.watch[k], s.client)]
        /\ t.lost = IF Head(s.edges) = "Pause" THEN s.lost ELSE FALSE
    BY <1>1 DEF Session, PausedAll, ResumedAll
  <2> HIDE DEF t
  <2>3. Head(s.edges) # "Pause" => \A k \in Keys : t.watch[k].paused = "no"
    BY <1>1, <2>2, EntryResumed
  <2>4. PauseSound(t)  BY <1>1, <2>1, <2>2, <2>3, ApplySound
  <2>5. Pursued(t, c, refresh)
    <3>1. CASE Head(s.edges) = "Pause"
      <4>1. \A k \in Keys : t.watch[k].paused = "CredentialRefresh"
              => s.watch[k].paused = "CredentialRefresh"
        BY <1>1, <2>2, <3>1, EntryPaused
      <4> QED  BY <2>2, <3>1, <4>1 DEF AllPursued, Pursued
    <3>2. CASE Head(s.edges) # "Pause"  BY <2>3, <3>2 DEF Pursued
    <3> QED  BY <3>1, <3>2
  <2> QED  BY <1>2, <1>5, <2>1, <2>4, <2>5
<1> QED  BY <1>3, <1>4, <1>5

-----------------------------------------------------------------------------
(* Credentials.                                                                *)

LEMMA UnauthorizedPursued ==
  ASSUME SessionsSound, RestOK, AllPursued, NEW c \in Contexts, Unauthorized(c),
         NEW d \in Contexts
  PROVE  PauseSound(session'[d]) /\ Pursued(session'[d], d, refresh')
<1> DEFINE s == session[c]
           new == [ctx |-> c, stage |-> "waiting", stale |-> FALSE]
<1>1. s \in Session /\ session \in [Contexts -> Session] /\ PauseSound(s)
      /\ \A k \in Keys : s.watch[k] \in Entry
  BY DEF SessionsSound, AllPursued, Session
<1>2. PICK r \in Slots : refresh[r] = None /\ refresh' = [refresh EXCEPT ![r] = new]
  BY DEF Unauthorized
<1>3. new # None
  <2>1. new \in [ctx : Contexts, stage : {"waiting", "probing"}, stale : BOOLEAN]  OBVIOUS
  <2> HIDE DEF new
  <2> QED  BY <2>1, NoneAssumption
<1>4. CASE d # c
  <2>1. session'[d] = session[d]  BY <1>1, <1>4 DEF Unauthorized
  <2>2. RefreshesStay(d)
    <3> HIDE DEF new
    <3> QED  BY <1>2 DEF RefreshesStay, RestOK
  <2> QED  BY <2>1, <2>2, SameGoesOn, GoesOnPursued
<1>5. CASE d = c
  <2> DEFINE t == PausedAll(s, "CredentialRefresh")
  <2>1. session'[c] = t  BY <1>1 DEF Unauthorized
  <2>2. /\ t.fwd = s.fwd /\ t.seen = s.seen /\ t.edges = s.edges
        /\ t.watch = [k \in Keys |-> Pause(s.watch[k], "CredentialRefresh")]
    BY <1>1 DEF Session, PausedAll
  <2> HIDE DEF t
  <2>3. \A k \in Keys : t.watch[k].paused = "Reconnecting"
          => s.watch[k].paused = "Reconnecting"
    BY <1>1, <2>2, EntryPaused
  <2>4. PauseSound(t)  BY <1>1, <2>2, <2>3 DEF PauseSound
  <2>5. refresh'[r] # None /\ refresh'[r].ctx = c /\ ~refresh'[r].stale
    BY <1>2, <1>3 DEF RestOK
  <2>6. Pursued(t, c, refresh')  BY <2>5 DEF Pursued
  <2> QED  BY <1>5, <2>1, <2>4, <2>6
<1> QED  BY <1>4, <1>5

\* Nothing is paused where the map has no session.
LEMMA AbsentUnpaused ==
  ASSUME SessionsSound, AllTended, NEW c \in Contexts, ~Open(c), NEW k \in Keys
  PROVE  session[c].watch[k].paused = "no"
<1>1. SessionSound(session[c]) /\ Tended(session[c], c, panel)
  BY DEF SessionsSound, AllSound, AllTended
<1>2. \A p \in Panels : PanelContext[p] = c => panel[p] = "closed"
  BY <1>1, UnheldHasNoPanel DEF Open, Tended
<1>3. OnKey(SubscribedIn(panel), c, k) = {}  BY <1>2 DEF OnKey, SubscribedIn
<1>4. session[c].watch[k].refs = 0
  BY <1>1, <1>3, FS_EmptySet DEF Tended, Counts
<1> QED  BY <1>1, <1>4 DEF SessionSound, EntrySound

LEMMA RefreshProbesGoes ==
  ASSUME RestOK, NEW r \in Slots, RefreshProbes(r), NEW d \in Contexts
  PROVE  GoesOn(d)
<1>1. session' = session /\ refresh' = [refresh EXCEPT ![r].stage = "probing"]
      /\ refresh[r] # None
  BY DEF RefreshProbes
<1> DEFINE new == [refresh[r] EXCEPT !.stage = "probing"]
<1>2. refresh[r] \in Refresh  BY <1>1 DEF RestOK
<1>3. new \in Refresh /\ new.ctx = refresh[r].ctx /\ new.stale = refresh[r].stale
  BY <1>2 DEF Refresh
<1>4. new # None  BY <1>3, NoneAssumption DEF Refresh
<1>5. refresh' = [refresh EXCEPT ![r] = new]  BY <1>1
<1>6. RefreshesStay(d)
  <2> HIDE DEF new
  <2> QED  BY <1>3, <1>4, <1>5 DEF RestOK, RefreshesStay
<1> QED  BY <1>1, <1>6, SameGoesOn

\* With fewer watches paused, the edges they wait for are still to come.
LEMMA UnpausedSound ==
  ASSUME NEW s, NEW t, PauseSound(s),
         t.fwd = s.fwd, t.seen = s.seen, t.edges = s.edges,
         \A k \in Keys : t.watch[k].paused \in {"no", s.watch[k].paused}
  PROVE  PauseSound(t)
<1>1. \A k \in Keys : t.watch[k].paused = "Reconnecting"
                      => s.watch[k].paused = "Reconnecting"
  OBVIOUS
<1>2. \A k \in Keys : t.watch[k].paused = "Reconnecting" =>
        t.seen = "Reconnecting" \/ \E i \in 1..Len(t.edges) : t.edges[i] = "Resume"
  BY <1>1 DEF PauseSound
<1>3. \A i \in 1..Len(t.edges) : t.edges[i] = "Pause" =>
        \/ t.seen = "Reconnecting"
        \/ \E j \in 1..Len(t.edges) : i < j /\ t.edges[j] = "Resume"
  BY DEF PauseSound
<1>4. t.seen \in {"Up", "Reconnecting"} => t.fwd \in {"Up", "Reconnecting"}
  BY DEF PauseSound
<1> QED  BY <1>2, <1>3, <1>4 DEF PauseSound

LEMMA RefreshEndsPursued ==
  ASSUME SessionsSound, RestOK, AllTended, AllPursued, NEW r \in Slots,
         RefreshSucceeds(r) \/ RefreshFails(r), NEW d \in Contexts
  PROVE  PauseSound(session'[d]) /\ Pursued(session'[d], d, refresh')
<1> DEFINE c == refresh[r].ctx
           s == session[c]
<1>1. refresh[r] # None /\ refresh' = [refresh EXCEPT ![r] = None]
  BY DEF RefreshSucceeds, RefreshFails
<1>2. c \in Contexts  BY <1>1 DEF RestOK, Refresh
<1>3. s \in Session /\ session \in [Contexts -> Session] /\ PauseSound(s)
      /\ \A k \in Keys : s.watch[k] \in Entry
  BY <1>2 DEF SessionsSound, AllPursued, Session
<1>4. session' = session \/ \E t : session' = [session EXCEPT ![c] = t]
  BY DEF RefreshSucceeds, RefreshFails
<1>5. CASE d # c
  <2>1. session'[d] = session[d]  BY <1>3, <1>4, <1>5
  <2>2. RefreshesStay(d)  BY <1>1, <1>5 DEF RefreshesStay, RestOK
  <2> QED  BY <2>1, <2>2, SameGoesOn, GoesOnPursued
<1>6. CASE d = c /\ ~Open(c)
  <2>1. session'[c] = s  BY <1>6 DEF RefreshSucceeds, RefreshFails
  <2>2. \A k \in Keys : s.watch[k].paused = "no"  BY <1>2, <1>6, AbsentUnpaused
  <2> QED  BY <1>3, <1>6, <2>1, <2>2 DEF Pursued
<1>7. CASE d = c /\ Open(c) /\ RefreshSucceeds(r)
  <2> DEFINE v == [s EXCEPT !.client = "valid"]
             t == ResumedAll(v)
  <2>1. session'[c] = t  BY <1>2, <1>3, <1>7 DEF RefreshSucceeds
  <2>2. /\ t.fwd = s.fwd /\ t.seen = s.seen /\ t.edges = s.edges
        /\ t.watch = [k \in Keys |-> Resume(s.watch[k], "valid")]
    BY <1>3 DEF Session, ResumedAll
  <2> HIDE DEF t
  <2>3. \A k \in Keys : t.watch[k].paused = "no"  BY <1>3, <2>2, EntryResumed
  <2>4. PauseSound(t)
    <3>1. PauseSound(s)  BY <1>3
    <3>2. t.fwd = s.fwd /\ t.seen = s.seen /\ t.edges = s.edges  BY <2>2
    <3> HIDE DEF s
    <3> QED  BY <3>1, <3>2, <2>3, UnpausedSound
  <2>5. Pursued(t, c, refresh')  BY <2>3 DEF Pursued
  <2>6. session'[d] = t /\ d = c  BY <1>7, <2>1
  <2> HIDE DEF c
  <2> QED  BY <2>4, <2>5, <2>6
<1>8. CASE d = c /\ Open(c) /\ RefreshFails(r)
  <2>1. CASE ~refresh[r].stale
    <3> DEFINE t == [s EXCEPT !.lost = TRUE]
    <3>1. session'[c] = t  BY <1>2, <1>3, <1>8, <2>1 DEF RefreshFails
    <3>2. /\ t.fwd = s.fwd /\ t.seen = s.seen /\ t.edges = s.edges
          /\ t.watch = s.watch /\ t.lost
      BY <1>3 DEF Session
    <3> HIDE DEF t
    <3>3. PauseSound(s)  BY <1>3
    <3>4. PauseSound(t)
      <4> HIDE DEF s
      <4> QED  BY <3>2, <3>3, UnpausedSound
    <3>5. Pursued(t, c, refresh')  BY <3>2 DEF Pursued
    <3>6. session'[d] = t /\ d = c  BY <1>8, <3>1
    <3> HIDE DEF c
    <3> QED  BY <3>4, <3>5, <3>6
  <2>2. CASE refresh[r].stale
    <3>1. session'[c] = s  BY <1>8, <2>2 DEF RefreshFails
    <3>2. Pursued(s, c, refresh)  BY <1>2 DEF AllPursued
    <3>3. \A q \in Slots : refresh[q] # None /\ refresh[q].ctx = c /\ ~refresh[q].stale
            => refresh'[q] = refresh[q]
      BY <1>1, <2>2 DEF RestOK
    <3>4. Pursued(s, c, refresh')
      <4> HIDE DEF c, s
      <4> QED  BY <3>2, <3>3 DEF Pursued
    <3> QED  BY <1>3, <1>8, <3>1, <3>4
  <2> QED  BY <2>1, <2>2
<1> QED  BY <1>5, <1>6, <1>7, <1>8

-----------------------------------------------------------------------------
(* The theorems.                                                               *)

LEMMA InitPursued == Init => AllPursued
<1> SUFFICES ASSUME Init, NEW c \in Contexts
             PROVE  PauseSound(session[c]) /\ Pursued(session[c], c, refresh)
  BY DEF AllPursued
<1>1. Calm(session[c])  BY FreshCalm DEF Init, NoSession
<1> QED  BY <1>1, CalmPursued

LEMMA NextPursued ==
  SessionsSound /\ RestOK /\ AllTended /\ AllPursued /\ [Next]_vars => AllPursued'
<1> SUFFICES ASSUME SessionsSound, RestOK, AllTended, AllPursued, [Next]_vars,
                    NEW d \in Contexts
             PROVE  PauseSound(session'[d]) /\ Pursued(session'[d], d, refresh')
  BY DEF AllPursued
<1>1. CASE WindowStep
  <2>1. ASSUME NEW w \in Windows, CloseWindow(w)  PROVE GoesOn(d)
    <3>1. Release({w}, {p \in Panels : PanelWindow[p] = w}, {w})
      BY <2>1 DEF CloseWindow
    <3> QED  BY <3>1, ReleaseGoes
  <2>2. ASSUME NEW w \in Windows, PickerDismiss(w)  PROVE GoesOn(d)
    <3>1. Release({}, {}, {w})  BY <2>2 DEF PickerDismiss
    <3> QED  BY <3>1, ReleaseGoes
  <2>3. GoesOn(d)
    BY <1>1, <2>1, <2>2, PickerSelectGoes, DisconnectGoes, OrphanConnectedGoes,
       RestoreGoes, PanelGoes DEF WindowStep
  <2> QED  BY <2>3, GoesOnPursued
<1>2. CASE ConnectStep  BY <1>2, ConnectGoes, GoesOnPursued DEF ConnectStep
<1>3. CASE HealthStep
  BY <1>3, ForwardGoes, GoesOnPursued, HealthPursued DEF HealthStep
<1>4. CASE CredentialStep
  BY <1>4, ExpireGoes, RefreshProbesGoes, GoesOnPursued, UnauthorizedPursued,
     RefreshEndsPursued DEF CredentialStep
<1>5. CASE UNCHANGED vars
  BY <1>5 DEF vars, AllPursued
<1> QED  BY <1>1, <1>2, <1>3, <1>4, <1>5 DEF Next

\* In every reachable state every pause is pursued.
THEOREM SpecPursued == Spec => []AllPursued
<1> DEFINE IInv == SessionsSound /\ RestOK /\ AllTended /\ AllPursued
<1>1. Init => IInv  BY InitSound, InitTended, InitPursued
<1>2. IInv /\ [Next]_vars => IInv'  BY NextSound, NextTended, NextPursued
<1>3. IInv => AllPursued  OBVIOUS
<1> HIDE DEF IInv
<1> QED  BY <1>1, <1>2, <1>3, PTL DEF Spec

\* A watch paused by the tunnel has its resume ahead of it, whatever the
\* capacity of the health task's channel.
THEOREM SpecPauseHasItsResume == Spec => []PauseHasItsResume
<1>1. AllPursued => PauseHasItsResume
  BY DEF AllPursued, PauseSound, PauseHasItsResume
<1> QED  BY <1>1, SpecPursued, PTL

\* A watch paused for credentials has a refresh of its own session, whatever
\* the number of refreshes in flight, unless one failed.
THEOREM SpecRefreshIsPursued == Spec => []RefreshIsPursued
<1>1. AllPursued => RefreshIsPursued
  BY DEF AllPursued, Pursued, RefreshIsPursued
<1> QED  BY <1>1, SpecPursued, PTL

\* No pause is left to itself, by the tunnel's edges or by the refreshes.
THEOREM SpecPauseIsTended == Spec => []PauseIsTended
<1>1. PauseHasItsResume /\ RefreshIsPursued => PauseIsTended
  BY DEF PauseIsTended
<1> QED  BY <1>1, SpecPauseHasItsResume, SpecRefreshIsPursued, PTL
=============================================================================
