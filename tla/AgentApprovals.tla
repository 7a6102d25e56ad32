---------------------------- MODULE AgentApprovals ----------------------------
(***************************************************************************)
(* The gate an agent's action passes (mcp/approval): its call waits for its*)
(* turn, has the main thread open a dialog (mcp/foreground, a bounded queue*)
(* of jobs; ui/agent_approval), and waits for the user's answer, a timeout,*)
(* or the agent hanging up (mcp/server); a Drop withdraws the question.    *)
(*                                                                         *)
(* What a call reads before it asks and what its write does are left out,  *)
(* and so is the frame protocol.  The questions of a time are in one main  *)
(* window, which may close, and which has other dialogs too.               *)
(***************************************************************************)
EXTENDS Naturals, Sequences, FiniteSets, SequencesExt

CONSTANTS
  Calls,           \* tool calls, each on a connection of its own
  Other,           \* a dialog that is not a question
  NoCall,            \* no question
  MaxConnections,  \* MCP_MAX_CONNECTIONS
  QueueSize,       \* MCP_FOREGROUND_QUEUE
  MaxOthers,       \* bound: other dialogs at once
  MaxWindows       \* bound: main windows opened one after the other

ASSUME BoundsAssumption ==
  /\ {MaxConnections, QueueSize} \subseteq Nat \ {0}
  /\ MaxOthers \in Nat /\ MaxWindows \in Nat
  /\ Other \notin Calls /\ NoCall \notin Calls

VARIABLES
  call,           \* call -> where its handler is
  turn,           \* who holds the gate's turn, and who waits for it
  jobs,           \* the main thread's queue
  dialogs,        \* the window's dialogs, the last on top
  window,         \* which main window it is
  open_question,  \* OpenQuestion: the question taken to be open
  shown_in,       \* call -> the window its question was opened in
  answer          \* call -> its oneshot

gate_vars == <<call, turn, jobs, dialogs, window, open_question, shown_in, answer>>

-----------------------------------------------------------------------------
\* "sending" and "opening": before and after the job is in the queue. "shown": its
\* result is sent. "asked": the handler has the question, and its Withdraw guard.
Asking == {"sending", "opening", "shown", "asked"}
Over == {"done", "denied", "timed_out", "unavailable", "hung_up"}
Live(c) == call[c] \in {"turn", "writing"} \cup Asking

Job == [do : {"open", "withdraw"}, for : Calls] \cup [do : {"work"}, for : {NoCall}]

GateTypeOK ==
  /\ call \in [Calls -> {"idle", "turn", "writing"} \cup Asking \cup Over]
  /\ turn \in Seq(Calls)
  /\ jobs \in Seq(Job) /\ Len(jobs) <= QueueSize
  /\ dialogs \in Seq(Calls \cup {Other})
  /\ window \in 0 .. MaxWindows
  /\ open_question \in Calls \cup {NoCall}
  /\ shown_in \in [Calls -> 0 .. MaxWindows]
  /\ answer \in [Calls -> {"none", "allow", "deny", "closed"}]
  /\ \A c \in Calls : call[c] \in Asking => turn # <<>> /\ c = Head(turn)

GateInit ==
  /\ call = [c \in Calls |-> "idle"]
  /\ turn = <<>> /\ jobs = <<>> /\ dialogs = <<>>
  /\ window = 0
  /\ open_question = NoCall
  /\ shown_in = [c \in Calls |-> 0]
  /\ answer = [c \in Calls |-> "none"]

-----------------------------------------------------------------------------
Shown == {dialogs[i] : i \in DOMAIN dialogs}
WithoutTop == SubSeq(dialogs, 1, Len(dialogs) - 1)
HasRoom == Len(jobs) < QueueSize
HoldsTurn(c) == turn # <<>> /\ Head(turn) = c

\* The turn goes to the next who waits for it. Who writes has none to give up.
GivesUpTurn(c) ==
  \/ \E i \in DOMAIN turn : turn[i] = c /\ turn' = RemoveAt(turn, i)
  \/ (\A i \in DOMAIN turn : turn[i] # c) /\ UNCHANGED turn

\* Withdraw's Drop: only a handler that has the question has the guard, and its job
\* is lost if the queue is full.
PostsWithdraw(c) ==
  jobs' = IF call[c] = "asked" /\ HasRoom
          THEN Append(jobs, [do |-> "withdraw", for |-> c]) ELSE jobs

-----------------------------------------------------------------------------
(* Handlers.                                                                *)

\* A connection is accepted while a slot is free; the tool resolves its target and
\* asks for the turn.
Arrives(c) ==
  /\ call[c] = "idle"
  /\ Cardinality({d \in Calls : Live(d)}) < MaxConnections
  /\ call' = [call EXCEPT ![c] = "turn"]
  /\ turn' = Append(turn, c)
  /\ UNCHANGED <<jobs, dialogs, window, open_question, shown_in, answer>>

\* Mutant: the gate has no turn.
AsksAtOnce(c) ==
  /\ call[c] = "turn"
  /\ call' = [call EXCEPT ![c] = "sending"]
  /\ UNCHANGED <<turn, jobs, dialogs, window, open_question, shown_in, answer>>

TakesTurn(c) ==
  /\ call[c] = "turn" /\ HoldsTurn(c)
  /\ call' = [call EXCEPT ![c] = "sending"]
  /\ UNCHANGED <<turn, jobs, dialogs, window, open_question, shown_in, answer>>

\* Foreground::run
Sends(c) ==
  /\ call[c] = "sending" /\ HasRoom
  /\ call' = [call EXCEPT ![c] = "opening"]
  /\ jobs' = Append(jobs, [do |-> "open", for |-> c])
  /\ UNCHANGED <<turn, dialogs, window, open_question, shown_in, answer>>

Resumes(c) ==
  /\ call[c] = "shown"
  /\ call' = [call EXCEPT ![c] = "asked"]
  /\ UNCHANGED <<turn, jobs, dialogs, window, open_question, shown_in, answer>>

\* An answer, or the reply dropped without one.
SeesAnswer(c) ==
  /\ call[c] = "asked" /\ answer[c] # "none"
  /\ call' = [call EXCEPT ![c] = IF answer[c] = "allow" THEN "writing" ELSE "denied"]
  /\ GivesUpTurn(c)
  /\ UNCHANGED <<jobs, dialogs, window, open_question, shown_in, answer>>

\* Mutant: the turn is not given up on a timeout.
TimesOutWithTheTurn(c) ==
  /\ call[c] \in Asking
  /\ call' = [call EXCEPT ![c] = "timed_out"]
  /\ PostsWithdraw(c)
  /\ UNCHANGED <<turn, dialogs, window, open_question, shown_in, answer>>

TimesOut(c) ==
  /\ call[c] \in Asking
  /\ call' = [call EXCEPT ![c] = "timed_out"]
  /\ PostsWithdraw(c)
  /\ GivesUpTurn(c)
  /\ UNCHANGED <<dialogs, window, open_question, shown_in, answer>>

\* The agent closes its end, or the endpoint stops: the handler is dropped where it
\* is, its question before its turn.
HangsUp(c) ==
  /\ Live(c)
  /\ call' = [call EXCEPT ![c] = "hung_up"]
  /\ PostsWithdraw(c)
  /\ GivesUpTurn(c)
  /\ UNCHANGED <<dialogs, window, open_question, shown_in, answer>>

\* The action's request, sent once the turn is given up.
Writes(c) ==
  /\ call[c] = "writing"
  /\ call' = [call EXCEPT ![c] = "done"]
  /\ UNCHANGED <<turn, jobs, dialogs, window, open_question, shown_in, answer>>

\* Another tool's work for the main thread.
Works ==
  /\ HasRoom
  /\ jobs' = Append(jobs, [do |-> "work", for |-> NoCall])
  /\ UNCHANGED <<call, turn, dialogs, window, open_question, shown_in, answer>>

-----------------------------------------------------------------------------
(* The main thread runs the jobs in order.                                  *)

RunsWork ==
  /\ jobs # <<>> /\ Head(jobs).do = "work"
  /\ jobs' = Tail(jobs)
  /\ UNCHANGED <<call, turn, dialogs, window, open_question, shown_in, answer>>

\* Mutant: a question that is taken to be open stays so.
OpensUntracked(c) ==
  /\ jobs # <<>> /\ Head(jobs) = [do |-> "open", for |-> c]
  /\ jobs' = Tail(jobs)
  /\ dialogs' = Append(dialogs, c)
  /\ open_question' = IF open_question = NoCall THEN c ELSE open_question
  /\ shown_in' = [shown_in EXCEPT ![c] = window]
  /\ call' = [call EXCEPT ![c] = IF @ = "opening" THEN "shown" ELSE @]
  /\ UNCHANGED <<turn, window, answer>>

\* agent_approval::open; the call may be over.
Opens(c) ==
  /\ jobs # <<>> /\ Head(jobs) = [do |-> "open", for |-> c]
  /\ jobs' = Tail(jobs)
  /\ dialogs' = Append(dialogs, c)
  /\ open_question' = c
  /\ shown_in' = [shown_in EXCEPT ![c] = window]
  /\ call' = [call EXCEPT ![c] = IF @ = "opening" THEN "shown" ELSE @]
  /\ UNCHANGED <<turn, window, answer>>

\* No main window is open, and none can be.
CannotOpen(c) ==
  /\ jobs # <<>> /\ Head(jobs) = [do |-> "open", for |-> c]
  /\ dialogs = <<>>
  /\ jobs' = Tail(jobs)
  /\ IF call[c] = "opening"
     THEN call' = [call EXCEPT ![c] = "unavailable"] /\ GivesUpTurn(c)
     ELSE UNCHANGED <<call, turn>>
  /\ UNCHANGED <<dialogs, window, open_question, shown_in, answer>>

\* The dialog on top closes; a question's reply goes with it.
ClosesTop ==
  IF dialogs = <<>> THEN UNCHANGED <<dialogs, answer>>
  ELSE /\ dialogs' = WithoutTop
       /\ answer' = [c \in Calls |->
            IF c = dialogs[Len(dialogs)] /\ answer[c] = "none" THEN "closed" ELSE answer[c]]

\* Mutant: which question is open is not looked at.
WithdrawsUnasked(c) ==
  /\ jobs # <<>> /\ Head(jobs) = [do |-> "withdraw", for |-> c]
  /\ jobs' = Tail(jobs)
  /\ open_question' = NoCall
  /\ IF shown_in[c] = window THEN ClosesTop ELSE UNCHANGED <<dialogs, answer>>
  /\ UNCHANGED <<call, turn, window, shown_in>>

\* agent_approval::withdraw: close_dialog closes whatever is on top.
Withdraws(c) ==
  /\ jobs # <<>> /\ Head(jobs) = [do |-> "withdraw", for |-> c]
  /\ jobs' = Tail(jobs)
  /\ IF open_question = c
     THEN /\ open_question' = NoCall
          /\ IF shown_in[c] = window THEN ClosesTop ELSE UNCHANGED <<dialogs, answer>>
     ELSE UNCHANGED <<dialogs, open_question, answer>>
  /\ UNCHANGED <<call, turn, window, shown_in>>

-----------------------------------------------------------------------------
(* The user.                                                                *)

\* Allow or Cancel, in the dialog on top.
Answers(c) ==
  /\ dialogs # <<>> /\ dialogs[Len(dialogs)] = c
  /\ \E said \in {"allow", "deny"} : answer' = [answer EXCEPT ![c] = said]
  /\ dialogs' = WithoutTop
  /\ open_question' = IF open_question = c THEN NoCall ELSE open_question
  /\ UNCHANGED <<call, turn, jobs, window, shown_in>>

OtherOpens ==
  /\ Cardinality({i \in DOMAIN dialogs : dialogs[i] = Other}) < MaxOthers
  /\ dialogs' = Append(dialogs, Other)
  /\ UNCHANGED <<call, turn, jobs, window, open_question, shown_in, answer>>

OtherCloses ==
  /\ dialogs # <<>> /\ dialogs[Len(dialogs)] = Other
  /\ dialogs' = WithoutTop
  /\ UNCHANGED <<call, turn, jobs, window, open_question, shown_in, answer>>

\* The dialogs go with their window, unanswered.
WindowCloses ==
  /\ window < MaxWindows
  /\ window' = window + 1
  /\ dialogs' = <<>>
  /\ answer' = [c \in Calls |->
       IF c \in Shown /\ answer[c] = "none" THEN "closed" ELSE answer[c]]
  /\ UNCHANGED <<call, turn, jobs, open_question, shown_in>>

-----------------------------------------------------------------------------
Handler(c) == TakesTurn(c) \/ Sends(c) \/ Resumes(c) \/ SeesAnswer(c)
MainThread == RunsWork \/ \E c \in Calls : Opens(c) \/ CannotOpen(c) \/ Withdraws(c)
User == OtherOpens \/ OtherCloses \/ WindowCloses \/ \E c \in Calls : Answers(c)

GateNext ==
  \/ \E c \in Calls : Arrives(c) \/ Handler(c) \/ Writes(c) \/ TimesOut(c) \/ HangsUp(c)
  \/ Works \/ MainThread \/ User

GateSpec == GateInit /\ [][GateNext]_gate_vars

\* tokio polls the handlers and its timer, the main thread takes its jobs; neither
\* the user nor the agent has to do anything.
GateFairness ==
  /\ \A c \in Calls : WF_gate_vars(Handler(c)) /\ WF_gate_vars(TimesOut(c))
  /\ WF_gate_vars(MainThread)

GateFairSpec == GateSpec /\ GateFairness

-----------------------------------------------------------------------------
\* Who waits for the turn or has it is a call that asks or is about to, and waits
\* once: no call that is over keeps the turn from the others.
TurnIsLive ==
  /\ {turn[i] : i \in DOMAIN turn} = {c \in Calls : call[c] \in {"turn"} \cup Asking}
  /\ \A i, j \in DOMAIN turn : turn[i] = turn[j] => i = j

\* One question is asked at a time, by the call that has the turn; it, and no other,
\* is the one taken to be open, so that a withdrawal finds it: jobs of calls that
\* are over come before it.
OneQuestionIsOpen ==
  /\ GateTypeOK /\ TurnIsLive
  /\ \A c \in Calls :
       call[c] \in {"shown", "asked"} /\ c \in Shown => open_question = c

\* No call waits for nothing: its job is in the queue, or its question is on screen,
\* or what became of that has been sent, also when its window or dialog was closed.
NobodyAsksInVain ==
  \A c \in Calls :
    /\ call[c] = "opening" => \E i \in DOMAIN jobs : jobs[i] = [do |-> "open", for |-> c]
    /\ call[c] \in {"shown", "asked"} => c \in Shown \/ answer[c] # "none"

\* Every question asked is accounted for, from its call to its dialog and back.
QuestionIsTracked == OneQuestionIsOpen /\ NobodyAsksInVain

\* A question that was answered takes no other dialog with it when its call ends.
AnsweredClosesNothing ==
  [][\A c \in Calls : Withdraws(c) /\ c \notin Shown => UNCHANGED dialogs]_gate_vars

\* A withdrawal leaves every other question on screen, to its user.
WithdrawsOnlyItsOwn ==
  [][\A c, d \in Calls : Withdraws(c) /\ c # d =>
       answer'[d] = answer[d] /\ (d \in Shown => d \in Shown')]_gate_vars

\* A withdrawal leaves every other question alone, and once its own was answered,
\* every dialog.  A dialog that is no question and lies above its
\* own it closes instead of that.
WithdrawalSparesOtherQuestions == AnsweredClosesNothing /\ WithdrawsOnlyItsOwn

\* An agent hears back, whatever the user and the other agents do: every call that
\* waits for its turn ends, or is allowed.
AgentHearsBack ==
  \A c \in Calls : call[c] = "turn" ~> call[c] \in Over \cup {"writing"}

-----------------------------------------------------------------------------
(* What the source says of itself, and the code does not do.                *)

\* approval.rs: a request is withdrawn whenever its call is, and the dialog closes
\* with it.
DialogClosesWithItsCall ==
  \A c \in Calls :
    c \in Shown /\ call[c] \in Over
      => \E i \in DOMAIN jobs : jobs[i] = [do |-> "withdraw", for |-> c]
=============================================================================
