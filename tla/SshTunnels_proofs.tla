-------------------------- MODULE SshTunnels_proofs --------------------------
(* Proofs about SshTunnels, for any connections, targets and forwards.       *)
EXTENDS SshTunnels, TLAPS

\* Every connection's forward goes to the connection's own API server, forwards
\* are shared per server, and the key is there only with a forward in use: each
\* needs the others, for a forward nobody holds may be taken for another server.
SharingInv ==
  TypeOK /\ RoutedToItsTarget /\ OneForwardPerTarget /\ KeyGoesWithItsTunnels

\* A forward that is gone belongs to no connection, so a new one takes it over
\* from nobody (ForwardRegistry::acquire, the factory's forward).
LEMMA GoneIsFree ==
  ASSUME SharingInv, NEW c \in Conns, hold[c] # None
  PROVE  fwd[hold[c]] # Gone
  BY TargetAssumption, NoneAssumption DEF SharingInv, TypeOK, RoutedToItsTarget, Gone

\* Before the first connect the registry is empty (ForwardRegistry::new).
LEMMA InitSharing == Init => SharingInv
<1>1. Gone \in Forward
  BY DEF Gone, Forward
<1>2. QED
  BY <1>1 DEF Init, SharingInv, TypeOK, RoutedToItsTarget, OneForwardPerTarget,
              KeyGoesWithItsTunnels

\* A step that only moves a supervisor's stage disturbs no sharing
\* (forward/supervisor, run).
LEMMA StageKeepsSharing ==
  ASSUME SharingInv, NEW f \in Forwards,
         UNCHANGED <<hold, stored, keyfile>>,
         fwd' \in [Forwards -> Forward],
         \A g \in Forwards : g # f => fwd'[g] = fwd[g],
         fwd'[f].target = fwd[f].target \/ ~Held(f)
  PROVE  SharingInv'
  BY DEF SharingInv, TypeOK, RoutedToItsTarget, OneForwardPerTarget,
         KeyGoesWithItsTunnels, Held

\* Acquiring joins the forward to the connection's server, or makes one when
\* there is none (ForwardRegistry::acquire).
LEMMA AcquireKeepsSharing ==
  ASSUME SharingInv, NEW c \in Conns, Acquire(c)
  PROVE  SharingInv'
<1> DEFINE t == TargetOf[c]
<1>1. t \in Targets
  BY TargetAssumption
<1>2. stored' = stored
  BY DEF Acquire
<1>3. CASE \E f \in Live(t) :
             /\ hold' = [hold EXCEPT ![c] = f]
             /\ keyfile' = (keyfile /\ ~stored)
             /\ UNCHANGED fwd
  <2>1. PICK f \in Live(t) :
             /\ hold' = [hold EXCEPT ![c] = f]
             /\ keyfile' = (keyfile /\ ~stored)
             /\ UNCHANGED fwd
    BY <1>3
  <2>2. f \in Forwards /\ fwd[f].target = t
    BY DEF Live
  <2>3. PICK d \in Conns : hold[d] = f
    BY DEF Live, Held
  <2>4. f # None
    BY <2>2, NoneAssumption
  <2>5. TypeOK'
    BY <1>2, <2>1, <2>2 DEF SharingInv, TypeOK
  <2>6. RoutedToItsTarget'
    BY <2>1, <2>2 DEF SharingInv, TypeOK, RoutedToItsTarget
  <2>7. \A e \in Conns : hold[e] # None /\ TargetOf[e] = t => hold[e] = f
    BY <2>2, <2>3, <2>4 DEF SharingInv, OneForwardPerTarget, RoutedToItsTarget
  <2>8. OneForwardPerTarget'
    BY <2>1, <2>7 DEF SharingInv, TypeOK, OneForwardPerTarget
  <2>9. KeyGoesWithItsTunnels'
    BY <2>1, <2>2 DEF SharingInv, TypeOK, KeyGoesWithItsTunnels, Held
  <2>10. QED
    BY <2>5, <2>6, <2>8, <2>9 DEF SharingInv
<1>4. CASE /\ Live(t) = {}
           /\ \E f \in Forwards :
                /\ fwd[f] = Gone
                /\ hold' = [hold EXCEPT ![c] = f]
                /\ fwd' = [fwd EXCEPT ![f] =
                     [st |-> "idle", target |-> t, beenUp |-> FALSE]]
           /\ keyfile' = stored
  <2>1. PICK f \in Forwards :
                /\ fwd[f] = Gone
                /\ hold' = [hold EXCEPT ![c] = f]
                /\ fwd' = [fwd EXCEPT ![f] =
                     [st |-> "idle", target |-> t, beenUp |-> FALSE]]
    BY <1>4
  <2>2. [st |-> "idle", target |-> t, beenUp |-> FALSE] \in Forward
    BY <1>1 DEF Forward
  <2>3. \A d \in Conns : hold[d] # f
    BY <2>1, GoneIsFree, NoneAssumption DEF SharingInv, TypeOK
  <2>4. TypeOK'
    BY <1>4, <1>2, <2>1, <2>2 DEF SharingInv, TypeOK
  <2>5. RoutedToItsTarget'
    BY <2>1, <2>3 DEF SharingInv, TypeOK, RoutedToItsTarget
  <2>6. \A e \in Conns : hold[e] # None => TargetOf[e] # t
    BY <1>4 DEF SharingInv, TypeOK, RoutedToItsTarget, Live, Held
  <2>7. OneForwardPerTarget'
    BY <2>1, <2>6 DEF SharingInv, TypeOK, OneForwardPerTarget
  <2>8. KeyGoesWithItsTunnels'
    BY <2>1 DEF SharingInv, TypeOK, KeyGoesWithItsTunnels, Held
  <2>9. QED
    BY <2>4, <2>5, <2>7, <2>8 DEF SharingInv
<1>5. QED
  BY <1>3, <1>4 DEF Acquire

\* Releasing leaves the others' forwards alone, and takes the key with the last
\* of one (Drop for RegistryHandle and for TransientIdentityFile).
LEMMA ReleaseKeepsSharing ==
  ASSUME SharingInv, NEW c \in Conns, Release(c)
  PROVE  SharingInv'
<1>1. TypeOK'
  BY DEF SharingInv, TypeOK, Release
<1>2. RoutedToItsTarget' /\ OneForwardPerTarget'
  BY DEF SharingInv, TypeOK, RoutedToItsTarget, OneForwardPerTarget, Release
<1>3. ASSUME keyfile' PROVE \E g \in Forwards : Held(g)'
  <2>1. PICK d \in Conns \ {c} : hold[d] = hold[c]
    BY <1>3 DEF Release
  <2>2. hold'[d] = hold[c] /\ hold[c] \in Forwards
    BY <2>1 DEF SharingInv, TypeOK, Release
  <2>3. QED
    BY <2>1, <2>2 DEF Held
<1>4. KeyGoesWithItsTunnels'
  BY <1>3 DEF KeyGoesWithItsTunnels
<1>5. QED
  BY <1>1, <1>2, <1>4 DEF SharingInv

\* Every step keeps the sharing: the handlers' and the supervisors'.
LEMMA NextSharing == SharingInv /\ [Next]_vars => SharingInv'
<1> SUFFICES ASSUME SharingInv, [Next]_vars PROVE SharingInv'
  OBVIOUS
<1>1. CASE \E c \in Conns : Acquire(c)
  BY <1>1, AcquireKeepsSharing
<1>2. CASE \E c \in Conns : Release(c)
  BY <1>2, ReleaseKeepsSharing
<1>3. ASSUME NEW f \in Forwards, Supervises(f) \/ Breaks(f)
      PROVE  SharingInv'
  <2>1. PICK from, to \in {"idle", "launched", "up", "broken", "backoff"} :
          Moves(f, from, to) /\ (to = "broken" => from = "up") /\ to # "up"
    BY <1>3 DEF Supervises, Breaks, Launch, LaunchFails, HealthCheckFails, BackoffEnds
  <2>2. fwd'[f] \in Forward /\ fwd'[f].target = fwd[f].target
    <3>1. fwd[f] \in Forward /\ fwd[f].st = from
          /\ fwd'[f] = [fwd[f] EXCEPT !.st = to]
      BY <2>1 DEF SharingInv, TypeOK, Moves
    <3>2. fwd[f].target \in Targets /\ fwd[f].beenUp \in BOOLEAN
          /\ (from = "up" => fwd[f].beenUp = TRUE)
          /\ fwd'[f] = [st |-> to, target |-> fwd[f].target, beenUp |-> fwd[f].beenUp]
      BY <2>1, <3>1 DEF Forward
    <3>3. fwd'[f].target = fwd[f].target
      BY <3>2
    <3>4. fwd'[f] \in Forward
      <4>1. CASE to = "broken"
        <5>1. fwd[f].target \in Targets
              /\ fwd'[f] = [st |-> "broken", target |-> fwd[f].target, beenUp |-> TRUE]
          BY <2>1, <3>2, <4>1
        <5>2. QED
          BY <5>1 DEF Forward
      <4>2. CASE to \in {"idle", "launched", "backoff"}
        <5>1. \A b \in BOOLEAN :
                [st |-> to, target |-> fwd[f].target, beenUp |-> b] \in
                  [st : {"idle", "launched", "backoff"}, target : Targets, beenUp : BOOLEAN]
          BY <3>2, <4>2
        <5>2. QED
          BY <3>2, <5>1 DEF Forward
      <4>3. QED
        BY <2>1, <4>1, <4>2
    <3>5. QED
      BY <3>3, <3>4
  <2>3. fwd' \in [Forwards -> Forward] /\ (\A g \in Forwards : g # f => fwd'[g] = fwd[g])
        /\ UNCHANGED <<hold, stored, keyfile>>
    BY <2>1, <2>2 DEF SharingInv, TypeOK, Moves
  <2>4. QED
    BY <2>2, <2>3, StageKeepsSharing
<1>4. ASSUME NEW f \in Forwards, Ready(f) PROVE SharingInv'
  <2>1. fwd[f] \in Forward /\ fwd[f].st = "launched"
        /\ fwd'[f] = [fwd[f] EXCEPT !.st = "up", !.beenUp = TRUE]
    BY <1>4 DEF SharingInv, TypeOK, Ready
  <2>2. fwd[f].target \in Targets
        /\ fwd'[f] = [st |-> "up", target |-> fwd[f].target, beenUp |-> TRUE]
    BY <2>1 DEF Forward
  <2>3. fwd'[f] \in Forward /\ fwd'[f].target = fwd[f].target
    BY <2>2 DEF Forward
  <2>4. fwd' \in [Forwards -> Forward] /\ (\A g \in Forwards : g # f => fwd'[g] = fwd[g])
        /\ UNCHANGED <<hold, stored, keyfile>>
    BY <1>4, <2>3 DEF SharingInv, TypeOK, Ready
  <2>5. QED
    BY <2>3, <2>4, StageKeepsSharing
<1>5. ASSUME NEW f \in Forwards, Dropped(f) PROVE SharingInv'
  <2>1. Gone \in Forward
    BY DEF Gone, Forward
  <2>2. fwd' \in [Forwards -> Forward] /\ (\A g \in Forwards : g # f => fwd'[g] = fwd[g])
        /\ UNCHANGED <<hold, stored, keyfile>> /\ ~Held(f)
    BY <1>5, <2>1 DEF SharingInv, TypeOK, Dropped
  <2>3. QED
    BY <2>2, StageKeepsSharing
<1>6. CASE UNCHANGED vars
  BY <1>6 DEF vars, SharingInv, TypeOK, RoutedToItsTarget, OneForwardPerTarget,
              KeyGoesWithItsTunnels, Held
<1>7. QED
  BY <1>1, <1>2, <1>3, <1>4, <1>5, <1>6 DEF Next

\* Whatever connections start and end, over any number of targets, each goes
\* through a forward to its own API server.
THEOREM SpecRouted == Spec => []RoutedToItsTarget
<1>1. SharingInv => RoutedToItsTarget
  BY DEF SharingInv
<1>2. QED
  BY <1>1, InitSharing, NextSharing, PTL DEF Spec

\* Connections to one API server never end up with two forwards.
THEOREM SpecOneForward == Spec => []OneForwardPerTarget
<1>1. SharingInv => OneForwardPerTarget
  BY DEF SharingInv
<1>2. QED
  BY <1>1, InitSharing, NextSharing, PTL DEF Spec

\* One forward for each API server that is connected to, and it leads there.
THEOREM SpecForwardsAreShared == Spec => []ForwardsAreShared
<1>1. SharingInv => ForwardsAreShared
  BY DEF SharingInv, ForwardsAreShared
<1>2. QED
  BY <1>1, InitSharing, NextSharing, PTL DEF Spec

\* The tunnel's key is never left on disk by a tunnel nobody uses.
THEOREM SpecKeyGoes == Spec => []KeyGoesWithItsTunnels
<1>1. SharingInv => KeyGoesWithItsTunnels
  BY DEF SharingInv
<1>2. QED
  BY <1>1, InitSharing, NextSharing, PTL DEF Spec

\* Types of the connections' handles, the supervisors' stages and the key.
THEOREM SpecTypeOK == Spec => []TypeOK
<1>1. SharingInv => TypeOK
  BY DEF SharingInv
<1>2. QED
  BY <1>1, InitSharing, NextSharing, PTL DEF Spec

-----------------------------------------------------------------------------
(* The refinement of SharedForward.                                          *)

\* Among connections that agree on a forward, it does not matter which is asked.
LEMMA AnyHolder ==
  ASSUME NEW H, NEW S, NEW c \in S, \A d, e \in S : H[d] = H[e]
  PROVE  H[CHOOSE d \in S : TRUE] = H[c]
  OBVIOUS

\* What a server's connections see is what any one's forward shows
\* (ForwardWait::of).
LEMMA HolderState ==
  ASSUME SharingInv, NEW c \in Conns, hold[c] # None
  PROVE  StateOf(TargetOf[c]) = Shown(hold[c])
<1>1. c \in UsersOf(TargetOf[c])
  BY DEF UsersOf
<1>2. \A d, e \in UsersOf(TargetOf[c]) : hold[d] = hold[e]
  BY DEF UsersOf, SharingInv, OneForwardPerTarget
<1>3. hold[CHOOSE d \in UsersOf(TargetOf[c]) : TRUE] = hold[c]
  BY <1>1, <1>2, AnyHolder
<1>4. QED
  BY <1>1, <1>3 DEF StateOf

\* The same of the next state.
LEMMA HolderStateNext ==
  ASSUME SharingInv', NEW c \in Conns, hold'[c] # None
  PROVE  StateOf(TargetOf[c])' = Shown(hold[c])'
<1>1. c \in UsersOf(TargetOf[c])'
  BY DEF UsersOf
<1>2. \A d, e \in UsersOf(TargetOf[c])' : hold'[d] = hold'[e]
  BY DEF UsersOf, SharingInv, OneForwardPerTarget
<1>3. hold'[CHOOSE d \in UsersOf(TargetOf[c])' : TRUE] = hold'[c]
  BY <1>1, <1>2, AnyHolder
<1>4. QED
  BY <1>1, <1>3 DEF StateOf

\* A server whose connections keep their handles, on forwards that show the
\* same, sees no change.
LEMMA SameUsersSameState ==
  ASSUME SharingInv, SharingInv', NEW t \in Targets, UsersOf(t)' = UsersOf(t),
         \A c \in UsersOf(t) : Shown(hold[c])' = Shown(hold[c])
  PROVE  StateOf(t)' = StateOf(t)
<1>1. CASE UsersOf(t) = {}
  BY <1>1 DEF StateOf
<1>2. CASE UsersOf(t) # {}
  <2>1. PICK c \in UsersOf(t) : TRUE
    BY <1>2
  <2>2. c \in Conns /\ hold[c] # None /\ hold'[c] # None /\ TargetOf[c] = t
    BY <2>1 DEF UsersOf
  <2>3. QED
    BY <2>1, <2>2, HolderState, HolderStateNext
<1>3. QED
  BY <1>1, <1>2

\* Acquiring joins the server's shared forward, or starts it
\* (ForwardRegistry::acquire).
LEMMA AcquireJoins ==
  ASSUME SharingInv, SharingInv', NEW c \in Conns, Acquire(c)
  PROVE  Shared!Join(c)
<1> DEFINE t == TargetOf[c]
<1>1. t \in Targets /\ hold[c] = None /\ hold' \in [Conns -> Forwards \cup {None}]
  BY TargetAssumption DEF Acquire, SharingInv, TypeOK
<1>2. hold'[c] # None /\ hold'[c] \in Forwards /\ \A d \in Conns : d # c => hold'[d] = hold[d]
  BY NoneAssumption DEF Acquire, SharingInv, TypeOK, Live
<1>3. UsersOf(t)' = UsersOf(t) \cup {c} /\ c \notin UsersOf(t)
  BY <1>1, <1>2 DEF UsersOf
<1>4. \A u \in Targets : u # t => UsersOf(u)' = UsersOf(u)
  BY <1>2, TargetAssumption DEF UsersOf
<1>5. ASSUME NEW d \in Conns, hold[d] # None PROVE Shown(hold[d])' = Shown(hold[d])
  <2>1. hold[d] \in Forwards /\ fwd[hold[d]] # Gone /\ hold'[d] = hold[d]
    BY <1>1, <1>2, <1>5, GoneIsFree DEF SharingInv, TypeOK
  <2>2. fwd'[hold[d]] = fwd[hold[d]]
    BY <2>1 DEF Acquire, SharingInv, TypeOK
  <2>3. QED
    BY <2>1, <2>2 DEF Shown
<1>6. \A u \in Targets : u # t => StateOf(u)' = StateOf(u)
  BY <1>4, <1>5, SameUsersSameState DEF UsersOf
<1>7. StateOf(t)' = IF StateOf(t) = "Closed" THEN "Connecting" ELSE StateOf(t)
  <2>1. StateOf(t)' = Shown(hold[c])'
    BY <1>2, HolderStateNext
  <2>2. CASE \E f \in Live(t) :
             /\ hold' = [hold EXCEPT ![c] = f]
             /\ keyfile' = (keyfile /\ ~stored)
             /\ UNCHANGED fwd
    <3>1. PICK f \in Live(t) : hold' = [hold EXCEPT ![c] = f] /\ UNCHANGED fwd
      BY <2>2
    <3>2. PICK d \in Conns : hold[d] = f
      BY DEF Live, Held
    <3>3. f \in Forwards /\ fwd[f].target = t /\ f # None
      BY NoneAssumption DEF Live
    <3>4. TargetOf[d] = t
      BY <3>2, <3>3 DEF SharingInv, RoutedToItsTarget
    <3>5. StateOf(t) = Shown(f) /\ Shown(f) # "Closed"
      BY <3>2, <3>3, <3>4, HolderState DEF Shown
    <3>6. hold'[c] = f
      BY <3>1 DEF SharingInv, TypeOK
    <3>7. Shown(hold[c])' = Shown(f)
      BY <3>1, <3>6 DEF Shown
    <3>8. QED
      BY <2>1, <3>5, <3>7
  <2>3. CASE /\ Live(t) = {}
             /\ \E f \in Forwards :
                  /\ fwd[f] = Gone
                  /\ hold' = [hold EXCEPT ![c] = f]
                  /\ fwd' = [fwd EXCEPT ![f] =
                       [st |-> "idle", target |-> t, beenUp |-> FALSE]]
             /\ keyfile' = stored
    <3>1. PICK f \in Forwards :
             /\ hold' = [hold EXCEPT ![c] = f]
             /\ fwd' = [fwd EXCEPT ![f] =
                  [st |-> "idle", target |-> t, beenUp |-> FALSE]]
      BY <2>3
    <3>2. hold'[c] = f /\ fwd'[f] = [st |-> "idle", target |-> t, beenUp |-> FALSE]
      BY <3>1 DEF SharingInv, TypeOK
    <3>3. Shown(hold[c])' = "Connecting"
      BY <3>2 DEF Shown
    <3>4. UsersOf(t) = {}
      BY <2>3 DEF UsersOf, Live, Held, SharingInv, TypeOK, RoutedToItsTarget
    <3>5. StateOf(t) = "Closed"
      BY <3>4 DEF StateOf
    <3>6. QED
      BY <2>1, <3>3, <3>5
  <2>4. QED
    BY <2>2, <2>3 DEF Acquire
<1>8. QED
  BY <1>1, <1>3, <1>4, <1>6, <1>7 DEF Shared!Join

\* Releasing leaves the shared forward, and the last one closes it (Drop for
\* RegistryHandle).
LEMMA ReleaseLeaves ==
  ASSUME SharingInv, SharingInv', NEW c \in Conns, Release(c)
  PROVE  Shared!Leave(c)
<1> DEFINE t == TargetOf[c]
<1>1. t \in Targets /\ hold[c] # None
  BY TargetAssumption DEF Release
<1>2. hold'[c] = None /\ fwd' = fwd /\ \A d \in Conns : d # c => hold'[d] = hold[d]
  BY DEF Release, SharingInv, TypeOK
<1>3. UsersOf(t)' = UsersOf(t) \ {c} /\ c \in UsersOf(t)
  BY <1>1, <1>2 DEF UsersOf
<1>4. \A u \in Targets : u # t => UsersOf(u)' = UsersOf(u)
  BY <1>2 DEF UsersOf
<1>5. \A u \in Targets : u # t => StateOf(u)' = StateOf(u)
  <2>1. ASSUME NEW u \in Targets, u # t, NEW d \in UsersOf(u)
        PROVE  Shown(hold[d])' = Shown(hold[d])
    <3>1. hold'[d] = hold[d]
      BY <1>2, <2>1 DEF UsersOf
    <3>2. QED
      BY <1>2, <3>1 DEF Shown
  <2>2. QED
    BY <1>4, <2>1, SameUsersSameState
<1>6. StateOf(t)' = IF UsersOf(t) = {c} THEN "Closed" ELSE StateOf(t)
  <2>1. CASE UsersOf(t) = {c}
    BY <1>3, <2>1 DEF StateOf
  <2>2. CASE UsersOf(t) # {c}
    <3>1. PICK d \in UsersOf(t) : d # c
      BY <1>3, <2>2
    <3>2. d \in Conns /\ TargetOf[d] = t /\ hold[d] # None /\ hold'[d] = hold[d]
      BY <1>2, <3>1 DEF UsersOf
    <3>3. StateOf(t) = Shown(hold[d]) /\ StateOf(t)' = Shown(hold[d])'
      BY <3>2, HolderState, HolderStateNext
    <3>4. Shown(hold[d])' = Shown(hold[d])
      BY <1>2, <3>2 DEF Shown
    <3>5. QED
      BY <2>2, <3>3, <3>4
  <2>3. QED
    BY <2>1, <2>2
<1>7. QED
  BY <1>1, <1>3, <1>4, <1>5, <1>6 DEF Shared!Leave

\* A step of one forward's supervisor shows at its holders' server, or nowhere
\* (forward/supervisor, run).
LEMMA StageShows ==
  ASSUME SharingInv, SharingInv', NEW f \in Forwards, UNCHANGED hold,
         \A g \in Forwards : g # f => fwd'[g] = fwd[g],
         \/ Shown(f)' = Shown(f)
         \/ ~Held(f)
         \/ Shown(f) \in {"Connecting", "Reconnecting"} /\ Shown(f)' = "Up"
         \/ Shown(f) = "Up" /\ Shown(f)' = "Reconnecting"
  PROVE  [Shared!Next]_(Shared!sharedVars)
<1>1. \A t \in Targets : UsersOf(t)' = UsersOf(t)
  BY DEF UsersOf
<1>2. ASSUME NEW t \in Targets, \A c \in UsersOf(t) : hold[c] # f
      PROVE  StateOf(t)' = StateOf(t)
  <2>1. \A c \in UsersOf(t) : hold[c] \in Forwards /\ hold[c] # f /\ hold'[c] = hold[c]
    BY <1>2 DEF UsersOf, SharingInv, TypeOK
  <2>2. \A c \in UsersOf(t) : Shown(hold[c])' = Shown(hold[c])
    BY <2>1 DEF Shown
  <2>3. QED
    BY <1>1, <2>2, SameUsersSameState
<1>3. CASE ~Held(f)
  <2>1. \A t \in Targets : StateOf(t)' = StateOf(t)
    BY <1>2, <1>3 DEF Held, UsersOf
  <2>2. QED
    BY <1>1, <2>1 DEF Shared!sharedVars
<1>4. CASE Held(f)
  <2>1. PICK c \in Conns : hold[c] = f
    BY <1>4 DEF Held
  <2> DEFINE t == TargetOf[c]
  <2>2. t \in Targets /\ f # None /\ hold'[c] = f
    BY <2>1, TargetAssumption, NoneAssumption
  <2>3. StateOf(t) = Shown(f) /\ StateOf(t)' = Shown(f)'
    <3>1. Shown(hold[c])' = Shown(f)'
      BY <2>1 DEF Shown
    <3>2. QED
      BY <2>1, <2>2, <3>1, HolderState, HolderStateNext
  <2>4. \A u \in Targets : u # t => StateOf(u)' = StateOf(u)
    <3>1. \A u \in Targets : u # t => \A d \in UsersOf(u) : hold[d] # f
      BY <2>1, <2>2 DEF UsersOf, SharingInv, RoutedToItsTarget
    <3>2. QED
      BY <1>2, <3>1
  <2>5. CASE Shown(f)' = Shown(f)
    BY <1>1, <2>3, <2>4, <2>5 DEF Shared!sharedVars
  <2>6. CASE Shown(f) \in {"Connecting", "Reconnecting"} /\ Shown(f)' = "Up"
    <3>1. Shared!ComesUp(t)
      BY <1>1, <2>2, <2>3, <2>4, <2>6 DEF Shared!ComesUp, Shared!Shows
    <3>2. QED
      BY <2>2, <3>1 DEF Shared!Next
  <2>7. CASE Shown(f) = "Up" /\ Shown(f)' = "Reconnecting"
    <3>1. Shared!Breaks(t)
      BY <1>1, <2>2, <2>3, <2>4, <2>7 DEF Shared!Breaks, Shared!Shows
    <3>2. QED
      BY <2>2, <3>1 DEF Shared!Next
  <2>8. QED
    BY <1>4, <2>5, <2>6, <2>7
<1>5. QED
  BY <1>3, <1>4

\* Every step of the tunnel is one of the shared forwards', or none.
LEMMA NextImplements ==
  ASSUME SharingInv, SharingInv', [Next]_vars
  PROVE  [Shared!Next]_(Shared!sharedVars)
<1>1. ASSUME NEW c \in Conns, Acquire(c) \/ Release(c) PROVE Shared!Next
  BY <1>1, AcquireJoins, ReleaseLeaves DEF Shared!Next
<1>2. ASSUME NEW f \in Forwards, Launch(f) \/ LaunchFails(f) \/ BackoffEnds(f) \/ Breaks(f)
      PROVE  [Shared!Next]_(Shared!sharedVars)
  <2>1. PICK from, to : Moves(f, from, to)
                        /\ <<from, to>> \in {<<"idle", "launched">>, <<"launched", "backoff">>,
                                             <<"backoff", "idle">>, <<"up", "broken">>}
    BY <1>2 DEF Launch, LaunchFails, BackoffEnds, Breaks
  <2>2. fwd'[f].st = to /\ fwd'[f].beenUp = fwd[f].beenUp /\ fwd[f].st = from
        /\ UNCHANGED hold /\ \A g \in Forwards : g # f => fwd'[g] = fwd[g]
    BY <2>1 DEF Moves, SharingInv, TypeOK, Forward
  <2>3. Shown(f)' = Shown(f)
    BY <2>1, <2>2 DEF Shown
  <2>4. QED
    BY <2>2, <2>3, StageShows
<1>3. ASSUME NEW f \in Forwards, HealthCheckFails(f)
      PROVE  [Shared!Next]_(Shared!sharedVars)
  <2>1. fwd[f].st = "broken" /\ fwd[f].beenUp = TRUE
    BY <1>3 DEF HealthCheckFails, Moves, SharingInv, TypeOK, Forward
  <2>2. fwd'[f].st = "idle" /\ fwd'[f].beenUp = TRUE
        /\ UNCHANGED hold /\ \A g \in Forwards : g # f => fwd'[g] = fwd[g]
    BY <1>3, <2>1 DEF HealthCheckFails, Moves, SharingInv, TypeOK, Forward
  <2>3. Shown(f) = "Up" /\ Shown(f)' = "Reconnecting"
    <3>1. Shown(f) = "Up"
      BY <2>1 DEF Shown
    <3>2. Shown(f)' = "Reconnecting"
      BY <2>2 DEF Shown
    <3>3. QED
      BY <3>1, <3>2
  <2>4. QED
    BY <2>2, <2>3, StageShows
<1>4. ASSUME NEW f \in Forwards, Ready(f)
      PROVE  [Shared!Next]_(Shared!sharedVars)
  <2>1. fwd[f].st = "launched" /\ fwd[f].beenUp \in BOOLEAN
    BY <1>4 DEF Ready, SharingInv, TypeOK, Forward
  <2>2. fwd'[f].st = "up"
        /\ UNCHANGED hold /\ \A g \in Forwards : g # f => fwd'[g] = fwd[g]
    BY <1>4 DEF Ready, SharingInv, TypeOK, Forward
  <2>3. Shown(f) \in {"Connecting", "Reconnecting"} /\ Shown(f)' = "Up"
    <3>1. Shown(f) = IF fwd[f].beenUp THEN "Reconnecting" ELSE "Connecting"
      BY <2>1 DEF Shown
    <3>2. Shown(f)' = "Up"
      BY <2>2 DEF Shown
    <3>3. QED
      BY <3>1, <3>2
  <2>4. QED
    BY <2>2, <2>3, StageShows
<1>5. ASSUME NEW f \in Forwards, Dropped(f)
      PROVE  [Shared!Next]_(Shared!sharedVars)
  <2>1. ~Held(f) /\ UNCHANGED hold /\ \A g \in Forwards : g # f => fwd'[g] = fwd[g]
    BY <1>5 DEF Dropped, SharingInv, TypeOK
  <2>2. QED
    BY <2>1, StageShows
<1>6. CASE UNCHANGED vars
  <2>1. \A t \in Targets : UsersOf(t)' = UsersOf(t) /\ StateOf(t)' = StateOf(t)
    BY <1>6 DEF vars, UsersOf, StateOf, Shown
  <2>2. QED
    BY <2>1 DEF Shared!sharedVars
<1>7. QED
  BY <1>1, <1>2, <1>3, <1>4, <1>5, <1>6 DEF Next, Supervises

\* Whatever connections, servers and forwards there are: to the connections of a
\* server, the tunnel is one shared forward that only ends with the last of them.
THEOREM SpecImplementsShared == Spec => ImplementsSharedForward
<1>1. Init => Shared!Init
  <2>1. ASSUME Init PROVE \A t \in Targets : UsersOf(t) = {} /\ StateOf(t) = "Closed"
    BY <2>1 DEF Init, UsersOf, StateOf
  <2>2. QED
    BY <2>1 DEF Shared!Init
<1>2. SharingInv /\ SharingInv' /\ [Next]_vars => [Shared!Next]_(Shared!sharedVars)
  BY NextImplements
<1>3. QED
  BY <1>1, <1>2, InitSharing, NextSharing, PTL DEF Spec, ImplementsSharedForward, Shared!Spec
=============================================================================
