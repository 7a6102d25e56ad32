----------------------------- MODULE OidcRenewals -----------------------------
(***************************************************************************)
(* The renewal of OIDC tokens (k8s/cluster/oidc): connections of several   *)
(* copies of the app, and of several users of one kubeconfig, find their   *)
(* id-token expired, and trade the refresh token for new ones, which they  *)
(* write back to the kubeconfig.  The issuer may rotate the refresh token  *)
(* and refuses the old one after that, so a renewal holds a lock of its    *)
(* process and one on the file from re-reading the file to writing it.     *)
(*                                                                         *)
(* Renewals are tokio tasks; a copy of the app may be killed at any step.  *)
(* Tokens of a user are numbered by the renewal that issued them.  Nobody  *)
(* else writes the kubeconfig meanwhile: kubectl does not take this lock.  *)
(***************************************************************************)
EXTENDS Naturals

CONSTANTS
  Tasks,     \* connects that may resolve their config at one time
  Procs,     \* copies of the app
  Users,     \* users of the kubeconfig
  ProcOf,    \* the copy a task runs in
  UserOf,    \* the user it authenticates as
  MaxIssued, \* bound on the id-tokens of each user
  None       \* no task

ASSUME TaskAssumption == ProcOf \in [Tasks -> Procs] /\ UserOf \in [Tasks -> Users]
ASSUME MaxAssumption == MaxIssued \in [Users -> Nat]
ASSUME NoneAssumption == None \notin Tasks

VARIABLES
  issuer,   \* user -> what the issuer issued, and which refresh token it takes
  file,     \* user -> the tokens in the kubeconfig
  task,     \* task -> where its renewal is, and the tokens it has
  locks,    \* process, user -> the task that holds the in-process lock
  flock,    \* the task that holds the lock on the file
  lost      \* user -> a refresh token was issued that nobody could save

vars == <<issuer, file, task, locks, flock, lost>>

-----------------------------------------------------------------------------
Tokens == [id : Nat, refresh : Nat]
NoTokens == [id |-> 0, refresh |-> 0]

\* issued: the last id-token.  valid: the refresh token accepted now.
\* expired: every id-token up to this one has expired, or is about to.
Issuer == [issued : Nat, valid : Nat, expired : Nat]

\* "queued": waits for the in-process lock, "inproc" for the file's.  "asking":
\* its request is before the issuer; "blind": so it is, with the tokens read
\* before it waited.  "granted": the issuer has answered.  "saving": has read the
\* whole file, to replace it.
Stages ==
  {"idle", "queued", "inproc", "locked", "asking", "blind", "granted", "saving"}
Task == [st : Stages, tokens : Tokens, read : [Users -> Tokens]]

TypeOK ==
  /\ issuer \in [Users -> Issuer]
  /\ file \in [Users -> Tokens]
  /\ task \in [Tasks -> Task]
  /\ locks \in [Procs -> [Users -> Tasks \cup {None}]]
  /\ flock \in Tasks \cup {None}
  /\ lost \in [Users -> BOOLEAN]
  /\ \A t \in Tasks : task[t].st = "idle" => task[t].tokens = NoTokens

NothingRead == [u \in Users |-> NoTokens]
IdleTask == [st |-> "idle", tokens |-> NoTokens, read |-> NothingRead]

\* Each user has logged in once.
Init ==
  /\ issuer = [u \in Users |-> [issued |-> 1, valid |-> 1, expired |-> 0]]
  /\ file = [u \in Users |-> [id |-> 1, refresh |-> 1]]
  /\ task = [t \in Tasks |-> IdleTask]
  /\ locks = [p \in Procs |-> [u \in Users |-> None]]
  /\ flock = None
  /\ lost = [u \in Users |-> FALSE]

-----------------------------------------------------------------------------
NeedsRefresh(u, tokens) == tokens.id <= issuer[u].expired
Asks(t) == task[t].st \in {"asking", "blind"}
HasNewTokens(t) == task[t].st \in {"granted", "saving"}

\* The file has another refresh token than the one the issuer takes.
Strays(u) == file[u].refresh # issuer[u].valid

\* The task of t goes to a stage, with these tokens.
Holds(t, st, tokens) ==
  task' = [task EXCEPT ![t] = [st |-> st, tokens |-> tokens, read |-> NothingRead]]
Sets(t, st) == Holds(t, st, task[t].tokens)

\* Mutant: an early return keeps the lock on the file.
EndsLocked(t) ==
  /\ task' = [task EXCEPT ![t] = IdleTask]
  /\ locks' = [locks EXCEPT ![ProcOf[t]][UserOf[t]] = None]
  /\ UNCHANGED flock

\* refresh_expired returns, and RenewalLock is dropped.
Ends(t) ==
  /\ task' = [task EXCEPT ![t] = IdleTask]
  /\ locks' = [locks EXCEPT ![ProcOf[t]][UserOf[t]] = None]
  /\ flock' = None

-----------------------------------------------------------------------------
\* A connect, or a 401, reads the kubeconfig and finds the id-token expired; one
\* whose token is good connects without any of this.
Begin(t) ==
  /\ task[t].st = "idle"
  /\ NeedsRefresh(UserOf[t], file[UserOf[t]])
  /\ Holds(t, "queued", file[UserOf[t]])
  /\ UNCHANGED <<issuer, file, locks, flock, lost>>

LockInProcess(t) ==
  /\ task[t].st = "queued"
  /\ locks[ProcOf[t]][UserOf[t]] = None
  /\ locks' = [locks EXCEPT ![ProcOf[t]][UserOf[t]] = t]
  /\ Sets(t, "inproc")
  /\ UNCHANGED <<issuer, file, flock, lost>>

\* Mutant: each user has a sidecar file to lock.
LockFilePerUser(t) ==
  /\ task[t].st = "inproc"
  /\ IF flock = None THEN TRUE ELSE UserOf[flock] # UserOf[t]
  /\ flock' = t
  /\ Sets(t, "locked")
  /\ UNCHANGED <<issuer, file, locks, lost>>

LockFile(t) ==
  /\ task[t].st = "inproc"
  /\ flock = None
  /\ flock' = t
  /\ Sets(t, "locked")
  /\ UNCHANGED <<issuer, file, locks, lost>>

\* Mutant: what was read before the wait is good enough.
RereadsNothing(t) ==
  /\ task[t].st = "locked"
  /\ Sets(t, "asking")
  /\ UNCHANGED <<issuer, file, locks, flock, lost>>

\* Mutant: the refresh token is read again, and spent.
RereadsRefreshToken(t) ==
  /\ task[t].st = "locked"
  /\ Holds(t, "asking", file[UserOf[t]])
  /\ UNCHANGED <<issuer, file, locks, flock, lost>>

\* Another renewal may have stored new tokens while this one waited.
Rereads(t) ==
  /\ task[t].st = "locked"
  /\ IF NeedsRefresh(UserOf[t], file[UserOf[t]])
     THEN /\ Holds(t, "asking", file[UserOf[t]])
          /\ UNCHANGED <<locks, flock>>
     ELSE Ends(t)
  /\ UNCHANGED <<issuer, file, lost>>

\* The file cannot be read just then: what was read before has to do.
CannotReread(t) ==
  /\ task[t].st = "locked"
  /\ Sets(t, "blind")
  /\ UNCHANGED <<issuer, file, locks, flock, lost>>

\* The sidecar cannot be opened or locked.
CannotLock(t) ==
  /\ task[t].st = "inproc"
  /\ task' = [task EXCEPT ![t] = IdleTask]
  /\ locks' = [locks EXCEPT ![ProcOf[t]][UserOf[t]] = None]
  /\ UNCHANGED <<issuer, file, flock, lost>>

\* Mutant: the tokens stay in memory after a failure.
KeepsTokens(t) ==
  /\ Asks(t)
  /\ Sets(t, "idle")
  /\ locks' = [locks EXCEPT ![ProcOf[t]][UserOf[t]] = None]
  /\ flock' = None
  /\ UNCHANGED <<issuer, file, lost>>

\* The issuer could not be reached or was not trusted: nothing was spent.
Unreachable(t) ==
  /\ Asks(t)
  /\ Ends(t)
  /\ UNCHANGED <<issuer, file, lost>>

-----------------------------------------------------------------------------
\* The issuer, outside the app: it takes one refresh token of a user, and may
\* replace it by a new one.
Grant(t) ==
  LET u == UserOf[t]
      next == issuer[u].issued + 1
  IN /\ Asks(t)
     /\ task[t].tokens.refresh = issuer[u].valid
     /\ next <= MaxIssued[u]
     /\ \E refresh \in {next, issuer[u].valid} :
          /\ issuer' = [issuer EXCEPT ![u].issued = next, ![u].valid = refresh]
          /\ Holds(t, "granted", [id |-> next, refresh |-> refresh])
     /\ UNCHANGED <<file, locks, flock, lost>>

Refuse(t) ==
  /\ Asks(t)
  /\ task[t].tokens.refresh # issuer[UserOf[t]].valid
  /\ Ends(t)
  /\ UNCHANGED <<issuer, file, lost>>

\* Time passes: the id-tokens issued so far expire.
Expire(u) ==
  /\ issuer[u].expired < issuer[u].issued
  /\ issuer' = [issuer EXCEPT ![u].expired = issuer[u].issued]
  /\ UNCHANGED <<file, task, locks, flock, lost>>

-----------------------------------------------------------------------------
\* The answer is lost or late, or the file cannot be read, parsed or replaced.
NotSaved(t) ==
  /\ HasNewTokens(t)
  /\ Ends(t)
  /\ lost' = [lost EXCEPT ![UserOf[t]] = @ \/ Strays(UserOf[t])]
  /\ UNCHANGED <<issuer, file>>

ReadsFile(t) ==
  /\ task[t].st = "granted"
  /\ task' = [task EXCEPT ![t] =
       [st |-> "saving", tokens |-> task[t].tokens, read |-> file]]
  /\ UNCHANGED <<issuer, file, locks, flock, lost>>

\* The file as it was read, with this user's tokens, is renamed over the old one.
Saves(t) ==
  /\ task[t].st = "saving"
  /\ file' = [task[t].read EXCEPT ![UserOf[t]] = task[t].tokens]
  /\ Ends(t)
  /\ UNCHANGED <<issuer, lost>>

\* The copy is killed, or quits: its locks go with it.
Crash(p) ==
  /\ \E t \in Tasks : ProcOf[t] = p /\ task[t].st # "idle"
  /\ task' = [t \in Tasks |-> IF ProcOf[t] = p THEN IdleTask ELSE task[t]]
  /\ locks' = [locks EXCEPT ![p] = [u \in Users |-> None]]
  /\ flock' = IF flock # None /\ ProcOf[flock] = p THEN None ELSE flock
  /\ lost' = [u \in Users |->
       \/ lost[u]
       \/ Strays(u) /\ \E t \in Tasks : ProcOf[t] = p /\ UserOf[t] = u /\ HasNewTokens(t)]
  /\ UNCHANGED <<issuer, file>>

-----------------------------------------------------------------------------
Runs(t) ==
  \/ Rereads(t) \/ CannotReread(t) \/ Unreachable(t) \/ Grant(t) \/ Refuse(t)
  \/ NotSaved(t) \/ ReadsFile(t) \/ Saves(t)

Next ==
  \/ \E t \in Tasks : Begin(t) \/ LockInProcess(t) \/ LockFile(t)
       \/ CannotLock(t) \/ Runs(t)
  \/ \E u \in Users : Expire(u)
  \/ \E p \in Procs : Crash(p)

Spec == Init /\ [][Next]_vars

\* Tasks are polled, requests to the issuer time out, and both locks are handed
\* on to whoever waits.
Fairness ==
  \A t \in Tasks :
    WF_vars(Runs(t)) /\ SF_vars(LockInProcess(t)) /\ SF_vars(LockFile(t))

FairSpec == Spec /\ Fairness

-----------------------------------------------------------------------------
\* The module doc of lock.rs: no two renewals, of one copy or of two, spend the
\* same refresh token.  What reaches the issuer is the token it takes, unless a
\* newer one was lost before anybody could save it.
AsksWithTheValidToken ==
  \A t \in Tasks :
    task[t].st = "asking" /\ ~lost[UserOf[t]]
      => task[t].tokens.refresh = issuer[UserOf[t]].valid

\* The issuer's newest tokens are in the kubeconfig or with the renewal about to
\* write them: none is clobbered by a later write, of the same user or of another
\* one in the file, and the user is not locked out.
NewestIsKept ==
  \A u \in Users :
    \/ lost[u]
    \/ file[u].refresh = issuer[u].valid
    \/ \E t \in Tasks : /\ UserOf[t] = u /\ HasNewTokens(t)
                        /\ task[t].tokens.refresh = issuer[u].valid

\* A renewal that waited for another uses the tokens that one stored rather than
\* renewing again, if it could read them.
RenewsOnlyExpired ==
  [][\A t \in Tasks :
       Grant(t) /\ task[t].st = "asking"
         => NeedsRefresh(UserOf[t], file[UserOf[t]])]_vars

\* A connect that needs a renewal gets past it, renewed or failed: no lock stays
\* taken, whatever fails or crashes.
RenewalEnds == \A t \in Tasks : task[t].st # "idle" ~> task[t].st = "idle"
=============================================================================
