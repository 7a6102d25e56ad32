---------------------------- MODULE ManualTunnels ----------------------------
(***************************************************************************)
(* One manual tunnel (tunnel/manual): a tunnel whose "connect" is the      *)
(* user's Proceed or Cancel.  The contexts bound to it share one forward,  *)
(* kept alive by the handles their connections hold; the forward's         *)
(* transport, on the tokio runtime, publishes a confirmation and withdraws *)
(* it when it is dropped, by events the main thread applies later.         *)
(*                                                                         *)
(* GPUI runs a handler to completion on one thread: Acquire, Close,        *)
(* Resolve, the applied events and Drained are such handlers.  The forward *)
(* tasks and the connect tasks run on other threads and interleave.        *)
(***************************************************************************)
EXTENDS Naturals, Sequences, FiniteSets, SequencesExt

CONSTANTS
  Contexts,  \* kubeconfig contexts bound to the tunnel
  Forwards,  \* bound on the forwards, live or still referred to, at one time
  None       \* no forward

ASSUME NoneAssumption == None \notin Forwards

VARIABLES
  conn,     \* context -> its connection and the forward it holds
  fwd,      \* forward -> where its supervised transport is
  queue,    \* the events the transports sent and the main thread has not applied
  pending,  \* ManualConfirmations.pending: the prompts, oldest first
  waiting   \* ManualConfirmations.waiting, of this tunnel

vars == <<conn, fwd, queue, pending, waiting>>

-----------------------------------------------------------------------------
(* Connections.  "answered" and "refused" are a connect task's last state,  *)
(* in its channel and not yet drained by the main thread.                   *)

Holding == {"waiting", "probing", "answered", "refused", "Connected"}
Idle == {"none", "Failed"}
Connection ==
  [st : Holding, fwd : Forwards] \cup [st : Idle, fwd : {None}]

(* Forwards.  "settled": found the API server reachable, its Settled sent.  *)
(* "Proceed", "Cancel": asking, with the answer in the oneshot channel.     *)
Asked == {"asking", "Proceed", "Cancel"}
Forward == {"gone", "starting", "settled", "up", "gaveup"} \cup Asked

\* A Settled event carries the tunnel only; f is the forward that sent it.
Event == [kind : {"Pending", "Withdrawn", "Settled"}, f : Forwards]
Prompt == [f : Forwards, contexts : SUBSET Contexts]

TypeOK ==
  /\ conn \in [Contexts -> Connection]
  /\ fwd \in [Forwards -> Forward]
  /\ queue \in Seq(Event)
  /\ pending \in Seq(Prompt)
  /\ waiting \subseteq Contexts

Init ==
  /\ conn = [c \in Contexts |-> [st |-> "none", fwd |-> None]]
  /\ fwd = [f \in Forwards |-> "gone"]
  /\ queue = <<>>
  /\ pending = <<>>
  /\ waiting = {}

-----------------------------------------------------------------------------
\* The registry's weak reference to f upgrades.
Held(f) == \E c \in Contexts : conn[c].fwd = f

Queued(kind, f) == {i \in DOMAIN queue : queue[i] = [kind |-> kind, f |-> f]}
Prompts(f) == {i \in DOMAIN pending : pending[i].f = f}

\* f stands for nothing any more, and may stand for a new forward.
Fresh(f) ==
  /\ fwd[f] = "gone"
  /\ Prompts(f) = {}
  /\ \A i \in DOMAIN queue : queue[i].f # f

Send(kind, f) == queue' = Append(queue, [kind |-> kind, f |-> f])

\* note_waiting: c waits, and joins the tunnel's prompt if one is up.
NoteWaiting(c) ==
  /\ waiting' = waiting \cup {c}
  /\ pending' = [i \in DOMAIN pending |->
                   IF i = 1 THEN [pending[i] EXCEPT !.contexts = @ \cup {c}]
                   ELSE pending[i]]

\* Mutant: a forward that is not up yet is not joined.
AcquiredIfUp ==
  IF \E f \in Forwards : Held(f) /\ fwd[f] = "up"
  THEN {f \in Forwards : Held(f) /\ fwd[f] = "up"}
  ELSE {f \in Forwards : Fresh(f)}

\* ForwardRegistry::acquire: the forward alive for the tunnel, or a new one.
Acquired ==
  IF \E f \in Forwards : Held(f) THEN {f \in Forwards : Held(f)}
  ELSE {f \in Forwards : Fresh(f)}

-----------------------------------------------------------------------------
(* The main thread.                                                         *)

\* A connection starts, the first one or a retry after a failure.
Acquire(c) ==
  /\ conn[c].st \in Idle
  /\ \E f \in Acquired :
       /\ conn' = [conn EXCEPT ![c] = [st |-> "waiting", fwd |-> f]]
       /\ fwd' = [fwd EXCEPT ![f] = IF @ = "gone" THEN "starting" ELSE @]
       /\ IF fwd[f] = "up" THEN UNCHANGED <<pending, waiting>> ELSE NoteWaiting(c)
  /\ UNCHANGED queue

\* Mutant: the connection goes and its handle stays.
CloseLeaksHandle(c) ==
  /\ conn[c].st # "none"
  /\ conn' = [conn EXCEPT ![c].st = "none"]
  /\ UNCHANGED <<fwd, queue, pending, waiting>>

\* The context's session is dropped, its connection and its handle with it.
Close(c) ==
  /\ conn[c].st # "none"
  /\ conn' = [conn EXCEPT ![c] = [st |-> "none", fwd |-> None]]
  /\ UNCHANGED <<fwd, queue, pending, waiting>>

\* The user answers the tunnel's prompt: the oldest, if there are several.
Resolve(decision) ==
  /\ pending # <<>>
  /\ pending' = Tail(pending)
  /\ waiting' = {}
  /\ fwd' = [fwd EXCEPT ![Head(pending).f] = IF @ = "asking" THEN decision ELSE @]
  /\ UNCHANGED <<conn, queue>>

\* Mutant: a tunnel that has a prompt gets no second one.
ApplyPendingOnce ==
  /\ queue # <<>> /\ Head(queue).kind = "Pending"
  /\ queue' = Tail(queue)
  /\ pending' = IF pending # <<>> THEN pending
                ELSE <<[f |-> Head(queue).f, contexts |-> waiting]>>
  /\ UNCHANGED <<conn, fwd, waiting>>

ApplyPending ==
  /\ queue # <<>> /\ Head(queue).kind = "Pending"
  /\ queue' = Tail(queue)
  /\ pending' = Append(pending, [f |-> Head(queue).f, contexts |-> waiting])
  /\ UNCHANGED <<conn, fwd, waiting>>

ApplySettled ==
  /\ queue # <<>> /\ Head(queue).kind = "Settled"
  /\ queue' = Tail(queue)
  /\ waiting' = IF pending = <<>> THEN {} ELSE waiting
  /\ UNCHANGED <<conn, fwd, pending>>

\* Mutant: the tunnel's prompt is withdrawn, whichever forward asked.
ApplyWithdrawnByTunnel ==
  /\ queue # <<>> /\ Head(queue).kind = "Withdrawn"
  /\ queue' = Tail(queue)
  /\ pending' = IF pending = <<>> THEN <<>> ELSE Tail(pending)
  /\ waiting' = IF pending = <<>> THEN waiting ELSE {}
  /\ UNCHANGED <<conn, fwd>>

\* Mutant: a prompt that somebody waits for stays.
ApplyWithdrawnUnlessWaited ==
  /\ queue # <<>> /\ Head(queue).kind = "Withdrawn"
  /\ queue' = Tail(queue)
  /\ IF (\E c \in waiting : conn[c].st = "waiting") \/ Prompts(Head(queue).f) = {}
     THEN UNCHANGED pending
     ELSE \E i \in Prompts(Head(queue).f) : pending' = RemoveAt(pending, i)
  /\ UNCHANGED <<conn, fwd, waiting>>

ApplyWithdrawn ==
  /\ queue # <<>> /\ Head(queue).kind = "Withdrawn"
  /\ queue' = Tail(queue)
  /\ IF Prompts(Head(queue).f) = {}
     THEN UNCHANGED <<pending, waiting>>
     ELSE \E i \in Prompts(Head(queue).f) :
            pending' = RemoveAt(pending, i) /\ waiting' = {}
  /\ UNCHANGED <<conn, fwd>>

\* Mutant: a failed connection keeps its forward.
DrainedKeepsForward(c) ==
  /\ \/ /\ conn[c].st = "answered"
        /\ conn' = [conn EXCEPT ![c].st = "Connected"]
     \/ /\ conn[c].st = "refused"
        /\ conn' = [conn EXCEPT ![c].st = "Failed"]
  /\ UNCHANGED <<fwd, queue, pending, waiting>>

\* The connection takes its task's last state; a failure lets the forward go.
Drained(c) ==
  /\ \/ /\ conn[c].st = "answered"
        /\ conn' = [conn EXCEPT ![c].st = "Connected"]
     \/ /\ conn[c].st = "refused"
        /\ conn' = [conn EXCEPT ![c] = [st |-> "Failed", fwd |-> None]]
  /\ UNCHANGED <<fwd, queue, pending, waiting>>

-----------------------------------------------------------------------------
(* The forward's supervised transport.  The last handle's drop aborts its   *)
(* task, which may finish the poll it is in before it is dropped.           *)

\* The reachability shortcut: the API server answered the probe.
TransportReachable(f) ==
  /\ fwd[f] = "starting"
  /\ fwd' = [fwd EXCEPT ![f] = "settled"]
  /\ Send("Settled", f)
  /\ UNCHANGED <<conn, pending, waiting>>

\* No shortcut, or the probe failed.
TransportAsks(f) ==
  /\ fwd[f] = "starting"
  /\ fwd' = [fwd EXCEPT ![f] = "asking"]
  /\ Send("Pending", f)
  /\ UNCHANGED <<conn, pending, waiting>>

\* connect_outcome returned: Up, or the end of the task and of its channel.
TransportReturns(f) ==
  /\ \/ /\ fwd[f] \in {"settled", "Proceed"}
        /\ fwd' = [fwd EXCEPT ![f] = "up"]
     \/ /\ fwd[f] = "Cancel"
        /\ fwd' = [fwd EXCEPT ![f] = "gaveup"]
  /\ UNCHANGED <<conn, queue, pending, waiting>>

\* Mutant: a prompt is withdrawn only if it was never answered nor applied.
TransportDroppedQuietly(f) ==
  /\ fwd[f] # "gone" /\ ~Held(f)
  /\ fwd' = [fwd EXCEPT ![f] = "gone"]
  /\ IF fwd[f] \in Asked /\ Prompts(f) = {} THEN Send("Withdrawn", f) ELSE UNCHANGED queue
  /\ UNCHANGED <<conn, pending, waiting>>

\* The aborted task is dropped, and withdraws the prompt it waits on.
TransportDropped(f) ==
  /\ fwd[f] # "gone" /\ ~Held(f)
  /\ fwd' = [fwd EXCEPT ![f] = "gone"]
  /\ IF fwd[f] \in Asked THEN Send("Withdrawn", f) ELSE UNCHANGED queue
  /\ UNCHANGED <<conn, pending, waiting>>

-----------------------------------------------------------------------------
(* The connect task.                                                        *)

\* Mutant: the wait for the forward ends with its next change.
WaitEndsOnChange(c) ==
  /\ conn[c].st = "waiting"
  /\ fwd[conn[c].fwd] # "starting"
  /\ conn' = [conn EXCEPT ![c].st = "probing"]
  /\ UNCHANGED <<fwd, queue, pending, waiting>>

\* Mutant: the wait outlives the forward's channel.
WaitEndsWhenUp(c) ==
  /\ conn[c].st = "waiting"
  /\ fwd[conn[c].fwd] = "up"
  /\ conn' = [conn EXCEPT ![c].st = "probing"]
  /\ UNCHANGED <<fwd, queue, pending, waiting>>

WaitEnds(c) ==
  /\ conn[c].st = "waiting"
  /\ \/ /\ fwd[conn[c].fwd] = "up"
        /\ conn' = [conn EXCEPT ![c].st = "probing"]
     \/ /\ fwd[conn[c].fwd] = "gaveup"
        /\ conn' = [conn EXCEPT ![c].st = "refused"]
  /\ UNCHANGED <<fwd, queue, pending, waiting>>

ProbeEnds(c) ==
  /\ conn[c].st = "probing"
  /\ \E st \in {"answered", "refused"} : conn' = [conn EXCEPT ![c].st = st]
  /\ UNCHANGED <<fwd, queue, pending, waiting>>

-----------------------------------------------------------------------------
Applies == ApplyPending \/ ApplySettled \/ ApplyWithdrawn
Transport(f) ==
  \/ TransportReachable(f) \/ TransportAsks(f)
  \/ TransportReturns(f) \/ TransportDropped(f)
Connects(c) == WaitEnds(c) \/ ProbeEnds(c) \/ Drained(c)

Next ==
  \/ \E c \in Contexts : Acquire(c) \/ Close(c) \/ Connects(c)
  \/ \E decision \in {"Proceed", "Cancel"} : Resolve(decision)
  \/ Applies
  \/ \E f \in Forwards : Transport(f)

Spec == Init /\ [][Next]_vars

\* Tasks are polled and channels drained; nobody has to connect, close or answer.
Fairness ==
  /\ WF_vars(Applies)
  /\ \A f \in Forwards : WF_vars(Transport(f))
  /\ \A c \in Contexts : WF_vars(Connects(c))

FairSpec == Spec /\ Fairness

-----------------------------------------------------------------------------
\* A forward that asks is in front of the user exactly once: its request is on
\* the way, or its prompt is up, or its answer is.  No withdrawal of another
\* attempt, and no answer given to one, takes it away.
PromptNotLost ==
  \A f \in Forwards :
    LET places == Cardinality(Queued("Pending", f)) + Cardinality(Prompts(f))
    IN /\ places <= 1
       /\ fwd[f] = "asking" => places = 1
       /\ places = 1 => fwd[f] \in {"asking", "gone"}

\* What a dropped forward has asked or is about to ask is withdrawn by an event
\* still to come, and behind the request: no prompt stays for a forward that
\* is gone (Drop for ManualTransport).
PromptHasItsWithdrawal ==
  \A f \in Forwards :
    fwd[f] = "gone" /\ (Queued("Pending", f) # {} \/ Prompts(f) # {})
      => \E i \in Queued("Withdrawn", f) : \A j \in Queued("Pending", f) : j < i

\* Every prompt, and every event about one, is accounted for.
PromptsAreSound == TypeOK /\ PromptNotLost /\ PromptHasItsWithdrawal

\* No context connects, or probes its API server, before the forward it holds
\* was confirmed, and a Cancel stops all of those that wait.
ConfirmedFirst ==
  \A c \in Contexts :
    conn[c].st \in {"probing", "answered", "Connected"} => fwd[conn[c].fwd] = "up"

\* The contexts that hold the tunnel's forward, and the state it shows them.
UsersNow == {c \in Contexts : conn[c].fwd # None}
StateNow ==
  IF UsersNow = {} THEN "Closed"
  ELSE LET st == fwd[conn[CHOOSE c \in UsersNow : TRUE].fwd]
       IN CASE st = "up" -> "Up"
            [] st = "gaveup" -> "Ended"
            [] OTHER -> "Connecting"

TheTunnel == "tunnel"
Shared == INSTANCE SharedForward
          WITH Users <- Contexts, Keys <- {TheTunnel},
               KeyOf <- [c \in Contexts |-> TheTunnel], Cancellable <- {TheTunnel},
               users <- [k \in {TheTunnel} |-> UsersNow],
               state <- [k \in {TheTunnel} |-> StateNow]

\* To the contexts bound to it the tunnel is one shared forward, which a Cancel
\* may end under all of them: no overlap of an attempt with one still being torn
\* down shows.
ImplementsSharedForward == Shared!Spec

RetriesFrom(c) == conn[c].st = "Failed" /\ conn'[c].st = "waiting"

\* A connection that failed starts over with a new forward, and so with a new
\* prompt, unless another context uses the tunnel.
LoneRetryPromptsAgain ==
  [][\A c \in Contexts :
       RetriesFrom(c) /\ (\A d \in Contexts \ {c} : conn[d].fwd = None)
         => fwd[conn'[c].fwd] = "gone"]_vars

WaitsOn(c, f) == conn[c] = [st |-> "waiting", fwd |-> f]

\* A context that waits on the tunnel comes to a prompt the user can answer, or
\* stops waiting.
PromptIsShown ==
  \A c \in Contexts, f \in Forwards :
    WaitsOn(c, f) ~> (Prompts(f) # {} \/ ~WaitsOn(c, f))

\* A prompt nobody waits for any more goes away.
PromptIsWithdrawn ==
  \A f \in Forwards : (Prompts(f) # {} /\ ~Held(f)) ~> Prompts(f) = {}

\* A prompt comes, and goes, with those who wait for it.
PromptFollowsItsWaiters == PromptIsShown /\ PromptIsWithdrawn

\* One answer reaches every context waiting on the forward.
AnswerReachesEveryWaiter ==
  \A c \in Contexts, f \in Forwards :
    (WaitsOn(c, f) /\ fwd[f] \in {"Proceed", "Cancel"}) ~> ~WaitsOn(c, f)
=============================================================================
