------------------------- MODULE OidcRenewals_proofs -------------------------
(***************************************************************************)
(* That renewals do not lose or spend twice a refresh token, for any       *)
(* number of copies of the app, users and renewals.  What a renewal holds  *)
(* between re-reading the kubeconfig and writing it is protected by one    *)
(* lock on the file, whatever the user: that is the inductive invariant.   *)
(***************************************************************************)
EXTENDS OidcRenewals, TLAPS

LockedStages == {"locked", "asking", "blind", "granted", "saving"}

\* The lock on the file is held by the one renewal between taking it and its end.
LockIsHeld ==
  \A t \in Tasks : task[t].st \in LockedStages <=> flock = t

\* Under the lock, what was read is what the file holds.
ReadIsCurrent ==
  \A t \in Tasks :
    /\ task[t].st = "asking" =>
         task[t].tokens = file[UserOf[t]] /\ NeedsRefresh(UserOf[t], file[UserOf[t]])
    /\ task[t].st = "saving" => task[t].read = file

\* New tokens are the issuer's newest until they are saved.
NewIsNewest ==
  \A t \in Tasks :
    HasNewTokens(t) => task[t].tokens.refresh = issuer[UserOf[t]].valid

IInv == TypeOK /\ LockIsHeld /\ ReadIsCurrent /\ NewIsNewest /\ NewestIsKept

-----------------------------------------------------------------------------
\* What a step does to the one task it is of.
LEMMA OneTask ==
  ASSUME TypeOK, NEW t \in Tasks, NEW new \in Task,
         task' = [task EXCEPT ![t] = new],
         new.st = "idle" => new.tokens = NoTokens
  PROVE  /\ task' \in [Tasks -> Task]
         /\ \A s \in Tasks : task'[s].st = "idle" => task'[s].tokens = NoTokens
         /\ task'[t] = new
         /\ \A s \in Tasks \ {t} : task'[s] = task[s]
BY DEF TypeOK

LEMMA IdleTaskType == IdleTask \in Task /\ IdleTask.st = "idle" /\ IdleTask.tokens = NoTokens
BY DEF IdleTask, Task, Stages, Tokens, NoTokens, NothingRead

\* Moving on changes nothing else of the task.
LEMMA HoldsTask ==
  ASSUME TypeOK, NEW t \in Tasks, NEW st \in Stages \ {"idle"}, NEW tokens \in Tokens,
         Holds(t, st, tokens)
  PROVE  /\ task' \in [Tasks -> Task]
         /\ \A s \in Tasks : task'[s].st = "idle" => task'[s].tokens = NoTokens
         /\ task'[t].st = st /\ task'[t].tokens = tokens
         /\ \A s \in Tasks \ {t} : task'[s] = task[s]
<1> DEFINE new == [st |-> st, tokens |-> tokens, read |-> NothingRead]
<1>1. new \in Task BY DEF Task, NothingRead, NoTokens, Tokens
<1>2. new.st = st /\ new.tokens = tokens /\ new.st # "idle" OBVIOUS
<1>3. task' = [task EXCEPT ![t] = new] BY DEF Holds
<1> HIDE DEF new
<1> QED BY <1>1, <1>2, <1>3, OneTask

LEMMA SetsTask ==
  ASSUME TypeOK, NEW t \in Tasks, NEW st \in Stages \ {"idle"}, Sets(t, st)
  PROVE  /\ task' \in [Tasks -> Task]
         /\ \A s \in Tasks : task'[s].st = "idle" => task'[s].tokens = NoTokens
         /\ task'[t].st = st /\ task'[t].tokens = task[t].tokens
         /\ \A s \in Tasks \ {t} : task'[s] = task[s]
<1>1. task[t].tokens \in Tokens BY DEF TypeOK, Task
<1>2. Holds(t, st, task[t].tokens) BY DEF Sets
<1> QED BY <1>1, <1>2, HoldsTask

\* The end of a renewal, for its task and its locks.
LEMMA EndsTask ==
  ASSUME TypeOK, NEW t \in Tasks, Ends(t)
  PROVE  /\ task' \in [Tasks -> Task]
         /\ \A s \in Tasks : task'[s].st = "idle" => task'[s].tokens = NoTokens
         /\ task'[t] = IdleTask
         /\ \A s \in Tasks \ {t} : task'[s] = task[s]
         /\ locks' \in [Procs -> [Users -> Tasks \cup {None}]]
         /\ flock' = None
<1>1. task' = [task EXCEPT ![t] = IdleTask] BY DEF Ends
<1>2. locks' \in [Procs -> [Users -> Tasks \cup {None}]]
  BY TaskAssumption DEF Ends, TypeOK
<1> QED BY <1>1, <1>2, IdleTaskType, OneTask DEF Ends

-----------------------------------------------------------------------------
LEMMA InitIInv == Init => IInv
<1> SUFFICES ASSUME Init PROVE IInv OBVIOUS
<1>1. issuer \in [Users -> Issuer] BY DEF Init, Issuer
<1>2. file \in [Users -> Tokens] BY DEF Init, Tokens
<1>3. \A t \in Tasks : task[t] = IdleTask /\ task[t].st = "idle" BY DEF Init, IdleTask
<1>4. task \in [Tasks -> Task] BY IdleTaskType DEF Init
<1>5. TypeOK BY <1>1, <1>2, <1>3, <1>4, IdleTaskType DEF TypeOK, Init
<1>6. LockIsHeld /\ ReadIsCurrent /\ NewIsNewest
  BY <1>3, NoneAssumption DEF LockIsHeld, ReadIsCurrent, NewIsNewest, LockedStages,
     HasNewTokens, Init
<1>7. NewestIsKept BY DEF NewestIsKept, Init
<1> QED BY <1>5, <1>6, <1>7 DEF IInv

-----------------------------------------------------------------------------
\* A connect that only waits, or that fails before it has the lock on the file,
\* leaves what the lock protects alone.
LEMMA Outside ==
  ASSUME IInv, TypeOK', UNCHANGED <<issuer, file, flock, lost>>,
         NEW t \in Tasks, task[t].st \notin LockedStages, task'[t].st \notin LockedStages,
         \A s \in Tasks \ {t} : task'[s] = task[s]
  PROVE  IInv'
<1>1. LockIsHeld' BY DEF IInv, LockIsHeld
<1>2. ReadIsCurrent'
  BY DEF IInv, ReadIsCurrent, NeedsRefresh, LockedStages
<1>3. NewIsNewest' BY DEF IInv, NewIsNewest, HasNewTokens, LockedStages
<1>4. NewestIsKept' BY DEF IInv, NewestIsKept, HasNewTokens, LockedStages
<1> QED BY <1>1, <1>2, <1>3, <1>4 DEF IInv

\* A renewal that holds the lock on the file is the only one to hold new tokens.
LEMMA OneHolder ==
  ASSUME IInv, NEW t \in Tasks, task[t].st \in LockedStages, NEW s \in Tasks \ {t}
  PROVE  task[s].st \notin LockedStages
BY DEF IInv, LockIsHeld

\* The same for a step of the one that holds the lock, unless it has new tokens:
\* it asks, or ends without having been given any.
LEMMA Inside ==
  ASSUME IInv, TypeOK', UNCHANGED <<issuer, file, lost>>,
         NEW t \in Tasks,
         task[t].st \in LockedStages, ~HasNewTokens(t),
         ~HasNewTokens(t)',
         task'[t].st \in LockedStages <=> flock' = t,
         flock' = t \/ flock' = None,
         task'[t].st = "asking" =>
           task'[t].tokens = file[UserOf[t]] /\ NeedsRefresh(UserOf[t], file[UserOf[t]]),
         \A s \in Tasks \ {t} : task'[s] = task[s]
  PROVE  IInv'
<1>1. \A s \in Tasks \ {t} : task'[s].st \notin LockedStages
  BY OneHolder
<1>2. LockIsHeld' BY <1>1, NoneAssumption DEF LockIsHeld
<1>3. \A s \in Tasks : ~HasNewTokens(s)' BY <1>1 DEF HasNewTokens, LockedStages
<1>4. \A s \in Tasks : ~HasNewTokens(s) BY OneHolder DEF HasNewTokens, LockedStages
<1>5. ReadIsCurrent'
  BY <1>1, <1>3 DEF ReadIsCurrent, NeedsRefresh, LockedStages, HasNewTokens
<1>6. NewIsNewest' BY <1>3 DEF NewIsNewest, HasNewTokens
<1>7. NewestIsKept' BY <1>4 DEF IInv, NewestIsKept
<1> QED BY <1>2, <1>5, <1>6, <1>7 DEF IInv

LEMMA BeginKeeps == ASSUME IInv, NEW t \in Tasks, Begin(t) PROVE IInv'
<1>1. file[UserOf[t]] \in Tokens BY TaskAssumption DEF IInv, TypeOK
<1>2. /\ task' \in [Tasks -> Task]
      /\ \A s \in Tasks : task'[s].st = "idle" => task'[s].tokens = NoTokens
      /\ task'[t].st = "queued"
      /\ \A s \in Tasks \ {t} : task'[s] = task[s]
  BY <1>1, HoldsTask DEF Begin, IInv, Stages
<1>3. TypeOK' BY <1>2 DEF Begin, IInv, TypeOK
<1> QED BY <1>2, <1>3, Outside DEF Begin, LockedStages

LEMMA LockInProcessKeeps == ASSUME IInv, NEW t \in Tasks, LockInProcess(t) PROVE IInv'
<1>1. /\ task' \in [Tasks -> Task]
      /\ \A s \in Tasks : task'[s].st = "idle" => task'[s].tokens = NoTokens
      /\ task'[t].st = "inproc"
      /\ \A s \in Tasks \ {t} : task'[s] = task[s]
  BY SetsTask DEF LockInProcess, IInv, Stages
<1>2. locks' \in [Procs -> [Users -> Tasks \cup {None}]]
  BY TaskAssumption DEF LockInProcess, IInv, TypeOK
<1>3. TypeOK' BY <1>1, <1>2 DEF LockInProcess, IInv, TypeOK
<1> QED BY <1>1, <1>3, Outside DEF LockInProcess, LockedStages

LEMMA CannotLockKeeps == ASSUME IInv, NEW t \in Tasks, CannotLock(t) PROVE IInv'
<1>1. /\ task' \in [Tasks -> Task]
      /\ \A s \in Tasks : task'[s].st = "idle" => task'[s].tokens = NoTokens
      /\ task'[t] = IdleTask
      /\ \A s \in Tasks \ {t} : task'[s] = task[s]
  BY OneTask, IdleTaskType DEF CannotLock, IInv
<1>2. locks' \in [Procs -> [Users -> Tasks \cup {None}]]
  BY TaskAssumption DEF CannotLock, IInv, TypeOK
<1>3. TypeOK' BY <1>1, <1>2 DEF CannotLock, IInv, TypeOK
<1> QED BY <1>1, <1>3, IdleTaskType, Outside DEF CannotLock, LockedStages

LEMMA LockFileKeeps == ASSUME IInv, NEW t \in Tasks, LockFile(t) PROVE IInv'
<1>1. /\ task' \in [Tasks -> Task]
      /\ \A s \in Tasks : task'[s].st = "idle" => task'[s].tokens = NoTokens
      /\ task'[t].st = "locked"
      /\ \A s \in Tasks \ {t} : task'[s] = task[s]
  BY SetsTask DEF LockFile, IInv, Stages
<1>2. TypeOK' BY <1>1 DEF LockFile, IInv, TypeOK
<1>3. \A s \in Tasks : task[s].st \notin LockedStages
  BY NoneAssumption DEF IInv, LockIsHeld, LockFile
<1>4. LockIsHeld' BY <1>1, <1>3 DEF LockIsHeld, LockedStages, LockFile
<1>5. \A s \in Tasks : ~HasNewTokens(s) /\ ~HasNewTokens(s)'
  BY <1>1, <1>3 DEF HasNewTokens, LockedStages
<1>6. ReadIsCurrent' BY <1>1, <1>3 DEF ReadIsCurrent, LockedStages
<1>7. NewIsNewest' BY <1>5 DEF NewIsNewest, HasNewTokens
<1>8. NewestIsKept' BY <1>5 DEF IInv, NewestIsKept, LockFile
<1> QED BY <1>2, <1>4, <1>6, <1>7, <1>8 DEF IInv

LEMMA EndsWithoutTokens ==
  ASSUME IInv, NEW t \in Tasks, Ends(t), task[t].st \in LockedStages, ~HasNewTokens(t),
         UNCHANGED <<issuer, file, lost>>
  PROVE  IInv'
<1>1. /\ task' \in [Tasks -> Task]
      /\ \A s \in Tasks : task'[s].st = "idle" => task'[s].tokens = NoTokens
      /\ task'[t] = IdleTask
      /\ \A s \in Tasks \ {t} : task'[s] = task[s]
      /\ locks' \in [Procs -> [Users -> Tasks \cup {None}]]
      /\ flock' = None
  BY EndsTask DEF IInv
<1>2. TypeOK' BY <1>1 DEF IInv, TypeOK
<1>3. task'[t].st = "idle" BY <1>1, IdleTaskType
<1> QED BY <1>1, <1>2, <1>3, NoneAssumption, Inside DEF LockedStages, HasNewTokens

LEMMA RereadsKeeps == ASSUME IInv, NEW t \in Tasks, Rereads(t) PROVE IInv'
<1>1. ~HasNewTokens(t) /\ task[t].st \in LockedStages
  BY DEF Rereads, HasNewTokens, LockedStages
<1>2. CASE NeedsRefresh(UserOf[t], file[UserOf[t]])
  <2>1. file[UserOf[t]] \in Tokens BY TaskAssumption DEF IInv, TypeOK
  <2>2. Holds(t, "asking", file[UserOf[t]]) /\ UNCHANGED <<locks, flock>>
    BY <1>2 DEF Rereads
  <2>3. /\ task' \in [Tasks -> Task]
        /\ \A s \in Tasks : task'[s].st = "idle" => task'[s].tokens = NoTokens
        /\ task'[t].st = "asking" /\ task'[t].tokens = file[UserOf[t]]
        /\ \A s \in Tasks \ {t} : task'[s] = task[s]
    BY <2>1, <2>2, HoldsTask DEF IInv, Stages
  <2>4. TypeOK' BY <2>2, <2>3 DEF Rereads, IInv, TypeOK
  <2>5. flock' = t BY <1>1, <2>2 DEF IInv, LockIsHeld
  <2>6. ~HasNewTokens(t)' /\ task'[t].st \in LockedStages
    BY <2>3 DEF HasNewTokens, LockedStages
  <2> QED BY <1>1, <1>2, <2>3, <2>4, <2>5, <2>6, Inside DEF Rereads
<1>3. CASE ~NeedsRefresh(UserOf[t], file[UserOf[t]])
  <2>1. Ends(t) BY <1>3 DEF Rereads
  <2> QED BY <1>1, <2>1, EndsWithoutTokens DEF Rereads
<1> QED BY <1>2, <1>3

LEMMA CannotRereadKeeps == ASSUME IInv, NEW t \in Tasks, CannotReread(t) PROVE IInv'
<1>1. ~HasNewTokens(t) /\ task[t].st \in LockedStages
  BY DEF CannotReread, HasNewTokens, LockedStages
<1>2. /\ task' \in [Tasks -> Task]
      /\ \A s \in Tasks : task'[s].st = "idle" => task'[s].tokens = NoTokens
      /\ task'[t].st = "blind"
      /\ \A s \in Tasks \ {t} : task'[s] = task[s]
  BY SetsTask DEF CannotReread, IInv, Stages
<1>3. TypeOK' BY <1>2 DEF CannotReread, IInv, TypeOK
<1>4. flock' = t BY <1>1 DEF IInv, LockIsHeld, CannotReread
<1>5. ~HasNewTokens(t)' /\ task'[t].st \in LockedStages /\ task'[t].st # "asking"
  BY <1>2 DEF HasNewTokens, LockedStages
<1> QED BY <1>1, <1>2, <1>3, <1>4, <1>5, Inside DEF CannotReread

LEMMA NotGrantedKeeps ==
  ASSUME IInv, NEW t \in Tasks, Unreachable(t) \/ Refuse(t)
  PROVE  IInv'
<1>1. Ends(t) /\ Asks(t) /\ UNCHANGED <<issuer, file, lost>> BY DEF Unreachable, Refuse
<1>2. ~HasNewTokens(t) /\ task[t].st \in LockedStages
  BY <1>1 DEF Asks, HasNewTokens, LockedStages
<1> QED BY <1>1, <1>2, EndsWithoutTokens

\* While one renewal has the lock on the file and asks, nobody has new tokens,
\* so the file has the refresh token the issuer takes.
LEMMA GrantKeeps == ASSUME IInv, NEW t \in Tasks, Grant(t) PROVE IInv'
<1> DEFINE u == UserOf[t]
           next == issuer[u].issued + 1
<1>1. u \in Users /\ issuer[u] \in Issuer BY TaskAssumption DEF IInv, TypeOK
<1>2. PICK refresh \in {next, issuer[u].valid} :
        /\ issuer' = [issuer EXCEPT ![u].issued = next, ![u].valid = refresh]
        /\ Holds(t, "granted", [id |-> next, refresh |-> refresh])
  BY DEF Grant
<1>3. next \in Nat /\ refresh \in Nat BY <1>1, <1>2 DEF Issuer
<1> DEFINE new == [id |-> next, refresh |-> refresh]
<1>4. new \in Tokens BY <1>3 DEF Tokens
<1>5. task[t].st \in LockedStages /\ UNCHANGED <<file, locks, flock, lost>>
  BY DEF Grant, Asks, LockedStages
<1>6. /\ task' \in [Tasks -> Task]
      /\ \A s \in Tasks : task'[s].st = "idle" => task'[s].tokens = NoTokens
      /\ task'[t].st = "granted" /\ task'[t].tokens = new
      /\ \A s \in Tasks \ {t} : task'[s] = task[s]
  BY <1>2, <1>4, HoldsTask DEF IInv, Stages
<1>7. /\ issuer' \in [Users -> Issuer]
      /\ issuer'[u].valid = refresh
      /\ \A v \in Users \ {u} : issuer'[v] = issuer[v]
  <2>1. issuer[u] = [issued |-> issuer[u].issued, valid |-> issuer[u].valid,
                     expired |-> issuer[u].expired]
    BY <1>1 DEF Issuer
  <2> DEFINE new1 == [issuer EXCEPT ![u].issued = next]
  <2>2. new1[u] = [issued |-> next, valid |-> issuer[u].valid,
                   expired |-> issuer[u].expired]
    BY <1>1, <2>1 DEF IInv, TypeOK
  <2>3. issuer' = [new1 EXCEPT ![u].valid = refresh] BY <1>1, <1>2 DEF IInv, TypeOK
  <2>4. new1 \in [Users -> Issuer] BY <1>1, <1>3, <2>2 DEF IInv, TypeOK, Issuer
  <2> QED BY <1>1, <1>3, <2>2, <2>3, <2>4 DEF Issuer, IInv, TypeOK
<1>8. TypeOK' BY <1>5, <1>6, <1>7 DEF IInv, TypeOK
<1>9. \A s \in Tasks \ {t} : task'[s].st \notin LockedStages BY <1>5, <1>6, OneHolder
<1>10. LockIsHeld' BY <1>5, <1>6, <1>9 DEF IInv, LockIsHeld, LockedStages
<1>11. ReadIsCurrent' BY <1>6, <1>9 DEF ReadIsCurrent, LockedStages
<1>12. NewIsNewest' BY <1>6, <1>7, <1>9 DEF NewIsNewest, HasNewTokens, LockedStages
<1>13. \A s \in Tasks : ~HasNewTokens(s)
  <2>1. ~HasNewTokens(t) BY DEF Grant, Asks, HasNewTokens
  <2> QED BY <1>5, <2>1, OneHolder DEF HasNewTokens, LockedStages
<1>14. NewestIsKept'
  <2>1. HasNewTokens(t)' /\ task'[t].tokens.refresh = issuer'[u].valid
    BY <1>6, <1>7 DEF HasNewTokens
  <2>2. \A v \in Users \ {u} : lost[v] \/ file[v].refresh = issuer'[v].valid
    BY <1>7, <1>13 DEF IInv, NewestIsKept
  <2> QED BY <1>5, <2>1, <2>2 DEF NewestIsKept
<1> QED BY <1>8, <1>10, <1>11, <1>12, <1>14 DEF IInv

LEMMA ReadsFileKeeps == ASSUME IInv, NEW t \in Tasks, ReadsFile(t) PROVE IInv'
<1> DEFINE new == [st |-> "saving", tokens |-> task[t].tokens, read |-> file]
<1>1. new \in Task /\ new.st = "saving" /\ new.tokens = task[t].tokens /\ new.read = file
  BY DEF Task, Stages, IInv, TypeOK
<1>2. task' = [task EXCEPT ![t] = new] BY DEF ReadsFile
<1> HIDE DEF new
<1>3. /\ task' \in [Tasks -> Task]
      /\ \A s \in Tasks : task'[s].st = "idle" => task'[s].tokens = NoTokens
      /\ task'[t] = new
      /\ \A s \in Tasks \ {t} : task'[s] = task[s]
  BY <1>1, <1>2, OneTask DEF IInv
<1>4. TypeOK' BY <1>3 DEF ReadsFile, IInv, TypeOK
<1>5. task[t].st \in LockedStages BY DEF ReadsFile, LockedStages
<1>6. LockIsHeld' BY <1>1, <1>3, <1>5 DEF ReadsFile, IInv, LockIsHeld, LockedStages
<1>7. ReadIsCurrent' BY <1>1, <1>3 DEF ReadsFile, IInv, ReadIsCurrent, NeedsRefresh
<1>8. NewIsNewest' BY <1>1, <1>3 DEF ReadsFile, IInv, NewIsNewest, HasNewTokens
<1>9. NewestIsKept'
  <2>1. \A s \in Tasks :
          /\ HasNewTokens(s) => HasNewTokens(s)'
          /\ task'[s].tokens = task[s].tokens
    BY <1>1, <1>3 DEF ReadsFile, HasNewTokens
  <2> QED BY <2>1 DEF ReadsFile, IInv, NewestIsKept
<1> QED BY <1>4, <1>6, <1>7, <1>8, <1>9 DEF IInv

\* The end of a renewal that was granted: no renewal is under the lock after it.
LEMMA GrantedEnds ==
  ASSUME IInv, NEW t \in Tasks, Ends(t), HasNewTokens(t),
         issuer' = issuer, file' \in [Users -> Tokens], lost' \in [Users -> BOOLEAN],
         \A u \in Users : lost'[u] \/ file'[u].refresh = issuer[u].valid
  PROVE  IInv'
<1>1. /\ task' \in [Tasks -> Task]
      /\ \A s \in Tasks : task'[s].st = "idle" => task'[s].tokens = NoTokens
      /\ task'[t] = IdleTask
      /\ \A s \in Tasks \ {t} : task'[s] = task[s]
      /\ locks' \in [Procs -> [Users -> Tasks \cup {None}]]
      /\ flock' = None
  BY EndsTask DEF IInv
<1>2. TypeOK' BY <1>1 DEF IInv, TypeOK
<1>3. task[t].st \in LockedStages BY DEF HasNewTokens, LockedStages
<1>4. \A s \in Tasks : task'[s].st \notin LockedStages
  BY <1>1, <1>3, IdleTaskType, OneHolder DEF LockedStages
<1>5. LockIsHeld' BY <1>1, <1>4, NoneAssumption DEF LockIsHeld
<1>6. ReadIsCurrent' BY <1>4 DEF ReadIsCurrent, LockedStages
<1>7. NewIsNewest' BY <1>4 DEF NewIsNewest, HasNewTokens, LockedStages
<1>8. NewestIsKept' BY DEF NewestIsKept
<1> QED BY <1>2, <1>5, <1>6, <1>7, <1>8 DEF IInv

\* A user whose new tokens are not with the renewal that has the lock has them in
\* the file.
LEMMA OthersAreSaved ==
  ASSUME IInv, NEW t \in Tasks, task[t].st \in LockedStages,
         NEW u \in Users, UserOf[t] # u \/ ~HasNewTokens(t)
  PROVE  lost[u] \/ file[u].refresh = issuer[u].valid
<1>1. \A s \in Tasks : UserOf[s] = u => ~HasNewTokens(s)
  BY OneHolder DEF HasNewTokens, LockedStages
<1> QED BY <1>1 DEF IInv, NewestIsKept

LEMMA NotSavedKeeps == ASSUME IInv, NEW t \in Tasks, NotSaved(t) PROVE IInv'
<1>1. task[t].st \in LockedStages BY DEF NotSaved, HasNewTokens, LockedStages
<1>2. /\ lost' \in [Users -> BOOLEAN]
      /\ \A u \in Users : lost[u] => lost'[u]
      /\ Strays(UserOf[t]) => lost'[UserOf[t]]
  BY TaskAssumption DEF NotSaved, IInv, TypeOK
<1>3. \A u \in Users : lost'[u] \/ file[u].refresh = issuer[u].valid
  BY <1>1, <1>2, OthersAreSaved DEF Strays
<1> QED BY <1>2, <1>3, GrantedEnds DEF NotSaved, IInv, TypeOK

\* Writing the whole file back changes one user's entry: the others are as they
\* were read, and nobody wrote since.
LEMMA SavesKeeps == ASSUME IInv, NEW t \in Tasks, Saves(t) PROVE IInv'
<1>1. task[t].st \in LockedStages /\ HasNewTokens(t)
  BY DEF Saves, HasNewTokens, LockedStages
<1>2. file' = [file EXCEPT ![UserOf[t]] = task[t].tokens]
  BY DEF Saves, IInv, ReadIsCurrent
<1>3. task[t].tokens \in Tokens BY DEF IInv, TypeOK, Task
<1>4. file' \in [Users -> Tokens] BY <1>2, <1>3 DEF IInv, TypeOK
<1>5. UserOf[t] \in Users BY TaskAssumption
<1>6. task[t].tokens.refresh = issuer[UserOf[t]].valid BY <1>1 DEF IInv, NewIsNewest
<1>7. \A u \in Users : lost[u] \/ file'[u].refresh = issuer[u].valid
  <2>1. file'[UserOf[t]].refresh = issuer[UserOf[t]].valid
    BY <1>2, <1>5, <1>6 DEF IInv, TypeOK
  <2>2. \A u \in Users : UserOf[t] # u => file'[u] = file[u]
    BY <1>2 DEF IInv, TypeOK
  <2> QED BY <1>1, <2>1, <2>2, OthersAreSaved
<1> QED BY <1>1, <1>4, <1>7, GrantedEnds DEF Saves, IInv, TypeOK

LEMMA ExpireKeeps == ASSUME IInv, NEW u \in Users, Expire(u) PROVE IInv'
<1>1. issuer[u] \in Issuer BY DEF IInv, TypeOK
<1> DEFINE new == [issued |-> issuer[u].issued, valid |-> issuer[u].valid,
                   expired |-> issuer[u].issued]
<1>2. issuer[u] = [issued |-> issuer[u].issued, valid |-> issuer[u].valid,
                   expired |-> issuer[u].expired]
  BY <1>1 DEF Issuer
<1>3. [issuer[u] EXCEPT !.expired = issuer[u].issued] = new BY <1>2
<1>4. issuer' = [issuer EXCEPT ![u] = new] BY <1>3 DEF Expire
<1>5. new \in Issuer /\ new.valid = issuer[u].valid /\ new.expired = issuer[u].issued
  BY <1>1 DEF Issuer
<1> HIDE DEF new
<1>6. /\ issuer' \in [Users -> Issuer]
      /\ issuer'[u] = new
      /\ \A v \in Users \ {u} : issuer'[v] = issuer[v]
  BY <1>4, <1>5 DEF IInv, TypeOK
<1>7. \A v \in Users : issuer'[v].valid = issuer[v].valid BY <1>5, <1>6
<1>8. \A v \in Users : NeedsRefresh(v, file[v]) => NeedsRefresh(v, file[v])'
  <2> SUFFICES ASSUME NEW v \in Users, file[v].id <= issuer[v].expired
               PROVE  file[v].id <= issuer'[v].expired
    BY DEF NeedsRefresh, Expire
  <2>1. CASE v # u BY <1>6, <2>1
  <2>2. CASE v = u
    <3>1. file[v].id \in Nat BY DEF IInv, TypeOK, Tokens
    <3>2. issuer[v].expired \in Nat /\ issuer[v].issued \in Nat
      BY DEF IInv, TypeOK, Issuer
    <3>3. issuer[v].expired < issuer[v].issued /\ issuer'[v].expired = issuer[v].issued
      BY <1>5, <1>6, <2>2 DEF Expire
    <3> QED BY <3>1, <3>2, <3>3
  <2> QED BY <2>1, <2>2
<1>9. TypeOK' BY <1>6 DEF Expire, IInv, TypeOK
<1>10. LockIsHeld' BY DEF Expire, IInv, LockIsHeld
<1>11. ReadIsCurrent'
  BY <1>8, TaskAssumption DEF Expire, IInv, ReadIsCurrent, NeedsRefresh
<1>12. NewIsNewest'
  BY <1>7, TaskAssumption DEF Expire, IInv, NewIsNewest, HasNewTokens
<1>13. NewestIsKept' BY <1>7 DEF Expire, IInv, NewestIsKept, HasNewTokens
<1> QED BY <1>9, <1>10, <1>11, <1>12, <1>13 DEF IInv

\* A copy that dies takes only its own renewals with it; new tokens one of them
\* had are the only ones that can be lost.
LEMMA CrashKeeps == ASSUME IInv, NEW p \in Procs, Crash(p) PROVE IInv'
<1>1. /\ task' \in [Tasks -> Task]
      /\ \A t \in Tasks : ProcOf[t] = p => task'[t] = IdleTask
      /\ \A t \in Tasks : ProcOf[t] # p => task'[t] = task[t]
  BY IdleTaskType DEF Crash, IInv, TypeOK
<1>2. \A t \in Tasks : task'[t].st = "idle" => task'[t].tokens = NoTokens
  BY <1>1, IdleTaskType DEF IInv, TypeOK
<1>3. locks' \in [Procs -> [Users -> Tasks \cup {None}]] BY DEF Crash, IInv, TypeOK
<1>4. lost' \in [Users -> BOOLEAN]
  <2> DEFINE Loses(u) == \E t \in Tasks : ProcOf[t] = p /\ UserOf[t] = u /\ HasNewTokens(t)
  <2>1. lost' = [u \in Users |-> lost[u] \/ (Strays(u) /\ Loses(u))] BY DEF Crash
  <2>2. \A u \in Users : (lost[u] \/ (Strays(u) /\ Loses(u))) \in BOOLEAN
    BY DEF IInv, TypeOK
  <2> QED BY <2>1, <2>2
<1>5. flock' \in Tasks \cup {None} BY DEF Crash, IInv, TypeOK
<1>6. TypeOK' BY <1>1, <1>2, <1>3, <1>4, <1>5 DEF Crash, IInv, TypeOK
<1>7. \A t \in Tasks : ProcOf[t] = p => task'[t].st \notin LockedStages
  BY <1>1, IdleTaskType DEF LockedStages
<1>8. LockIsHeld'
  <2> SUFFICES ASSUME NEW t \in Tasks PROVE task'[t].st \in LockedStages <=> flock' = t
    BY DEF LockIsHeld
  <2>1. CASE ProcOf[t] = p
    <3>1. flock' # t BY <2>1, NoneAssumption DEF Crash
    <3> QED BY <2>1, <3>1, <1>7
  <2>2. CASE ProcOf[t] # p
    <3>1. flock' = t <=> flock = t BY <2>2, NoneAssumption DEF Crash
    <3> QED BY <2>2, <3>1, <1>1 DEF IInv, LockIsHeld
  <2> QED BY <2>1, <2>2
<1>9. ReadIsCurrent'
  BY <1>1, <1>7 DEF Crash, IInv, ReadIsCurrent, NeedsRefresh, LockedStages
<1>10. NewIsNewest'
  BY <1>1, <1>7 DEF Crash, IInv, NewIsNewest, HasNewTokens, LockedStages
<1>11. NewestIsKept'
  <2> SUFFICES ASSUME NEW u \in Users, ~lost'[u], file[u].refresh # issuer[u].valid
               PROVE  \E t \in Tasks : /\ UserOf[t] = u /\ HasNewTokens(t)'
                                       /\ task'[t].tokens.refresh = issuer[u].valid
    BY DEF NewestIsKept, Crash
  <2>1. /\ ~lost[u]
        /\ ~(Strays(u) /\ \E t \in Tasks : ProcOf[t] = p /\ UserOf[t] = u /\ HasNewTokens(t))
    BY DEF Crash
  <2>2. Strays(u) BY DEF Strays
  <2>3. PICK t \in Tasks : /\ UserOf[t] = u /\ HasNewTokens(t)
                           /\ task[t].tokens.refresh = issuer[u].valid
    BY <2>1 DEF IInv, NewestIsKept
  <2>4. ProcOf[t] # p BY <2>1, <2>2, <2>3
  <2> QED BY <1>1, <2>3, <2>4 DEF HasNewTokens
<1> QED BY <1>6, <1>8, <1>9, <1>10, <1>11 DEF IInv

LEMMA NextIInv == IInv /\ [Next]_vars => IInv'
<1> SUFFICES ASSUME IInv, [Next]_vars PROVE IInv' OBVIOUS
<1>1. ASSUME NEW t \in Tasks, Begin(t) PROVE IInv' BY <1>1, BeginKeeps
<1>2. ASSUME NEW t \in Tasks, LockInProcess(t) PROVE IInv' BY <1>2, LockInProcessKeeps
<1>3. ASSUME NEW t \in Tasks, LockFile(t) PROVE IInv' BY <1>3, LockFileKeeps
<1>4. ASSUME NEW t \in Tasks, CannotLock(t) PROVE IInv' BY <1>4, CannotLockKeeps
<1>5. ASSUME NEW t \in Tasks, Rereads(t) PROVE IInv' BY <1>5, RereadsKeeps
<1>6. ASSUME NEW t \in Tasks, CannotReread(t) PROVE IInv' BY <1>6, CannotRereadKeeps
<1>7. ASSUME NEW t \in Tasks, Unreachable(t) \/ Refuse(t) PROVE IInv'
  BY <1>7, NotGrantedKeeps
<1>8. ASSUME NEW t \in Tasks, Grant(t) PROVE IInv' BY <1>8, GrantKeeps
<1>9. ASSUME NEW t \in Tasks, NotSaved(t) PROVE IInv' BY <1>9, NotSavedKeeps
<1>10. ASSUME NEW t \in Tasks, ReadsFile(t) PROVE IInv' BY <1>10, ReadsFileKeeps
<1>11. ASSUME NEW t \in Tasks, Saves(t) PROVE IInv' BY <1>11, SavesKeeps
<1>12. ASSUME NEW u \in Users, Expire(u) PROVE IInv' BY <1>12, ExpireKeeps
<1>13. ASSUME NEW p \in Procs, Crash(p) PROVE IInv' BY <1>13, CrashKeeps
<1>14. CASE UNCHANGED vars
  BY <1>14 DEF vars, IInv, TypeOK, LockIsHeld, ReadIsCurrent, NewIsNewest, NewestIsKept,
     NeedsRefresh, HasNewTokens
<1> QED
  BY <1>1, <1>2, <1>3, <1>4, <1>5, <1>6, <1>7, <1>8, <1>9, <1>10, <1>11, <1>12, <1>13,
     <1>14 DEF Next, Runs

\* A renewal asks under the lock, with what the file holds; no other has new
\* tokens then.
LEMMA AsksWithTheFiles == IInv => AsksWithTheValidToken
<1> SUFFICES ASSUME IInv, NEW t \in Tasks, task[t].st = "asking", ~lost[UserOf[t]]
             PROVE  task[t].tokens.refresh = issuer[UserOf[t]].valid
  BY DEF AsksWithTheValidToken
<1>1. task[t].st \in LockedStages /\ ~HasNewTokens(t) BY DEF LockedStages, HasNewTokens
<1>2. UserOf[t] \in Users BY TaskAssumption
<1>3. file[UserOf[t]].refresh = issuer[UserOf[t]].valid BY <1>1, <1>2, OthersAreSaved
<1> QED BY <1>3 DEF IInv, ReadIsCurrent

LEMMA SpecIInv == Spec => []IInv
BY InitIInv, NextIInv, PTL DEF Spec

-----------------------------------------------------------------------------
\* The state of the renewals has its type: a renewal that ended keeps no tokens.
THEOREM SpecTypeOK == Spec => []TypeOK
<1>1. IInv => TypeOK BY DEF IInv
<1> QED BY <1>1, SpecIInv, PTL

\* No two renewals spend one refresh token, in one copy of the app or in two
\* (refresh_expired under RenewalLock).
THEOREM SpecAsksWithTheValidToken == Spec => []AsksWithTheValidToken
BY SpecIInv, AsksWithTheFiles, PTL

\* The newest refresh token of a user survives every other renewal's write of the
\* kubeconfig (persist::save under RenewalLock).
THEOREM SpecNewestIsKept == Spec => []NewestIsKept
<1>1. IInv => NewestIsKept BY DEF IInv
<1> QED BY <1>1, SpecIInv, PTL

\* A renewal that re-read the file asks only if what is stored has expired.
THEOREM SpecRenewsOnlyExpired == Spec => RenewsOnlyExpired
<1>1. IInv /\ [Next]_vars =>
        [\A t \in Tasks : Grant(t) /\ task[t].st = "asking"
           => NeedsRefresh(UserOf[t], file[UserOf[t]])]_vars
  BY DEF IInv, ReadIsCurrent
<1> QED BY <1>1, SpecIInv, PTL DEF Spec, RenewsOnlyExpired

-----------------------------------------------------------------------------
\* A renewal past "queued" has the lock of its copy and user.
HasProcLock(t) == task[t].st \notin {"idle", "queued"}

\* Each lock in a process is held by the one renewal of that process and user that
\* is past it, and by nobody else: no ended, failed or killed renewal keeps one.
ProcLockIsHeld ==
  \A t \in Tasks, p \in Procs, u \in Users :
    locks[p][u] = t <=> ProcOf[t] = p /\ UserOf[t] = u /\ HasProcLock(t)

\* A renewal can take its next step: it waits for no lock, or the lock is free.
MovesOn(t) ==
  \/ task[t].st \in LockedStages
  \/ task[t].st = "inproc" /\ flock = None
  \/ task[t].st = "queued" /\ locks[ProcOf[t]][UserOf[t]] = None

\* The renewals do not all wait for each other's locks.
NotAllWait == (\E t \in Tasks : task[t].st # "idle") => \E t \in Tasks : MovesOn(t)

LEMMA ProcStays ==
  ASSUME TypeOK, ProcLockIsHeld, UNCHANGED locks,
         NEW t \in Tasks, HasProcLock(t) <=> HasProcLock(t)',
         \A s \in Tasks \ {t} : task'[s] = task[s]
  PROVE  ProcLockIsHeld'
BY DEF ProcLockIsHeld, HasProcLock

\* A renewal that ends, or cannot lock the file, lets go of its own lock only.
LEMMA ProcLetsGo ==
  ASSUME TypeOK, ProcLockIsHeld, NEW t \in Tasks, HasProcLock(t), task'[t].st = "idle",
         locks' = [locks EXCEPT ![ProcOf[t]][UserOf[t]] = None],
         \A s \in Tasks \ {t} : task'[s] = task[s]
  PROVE  ProcLockIsHeld'
<1>1. /\ locks'[ProcOf[t]][UserOf[t]] = None
      /\ \A p \in Procs, u \in Users :
           p # ProcOf[t] \/ u # UserOf[t] => locks'[p][u] = locks[p][u]
  BY TaskAssumption DEF TypeOK
<1> SUFFICES ASSUME NEW s \in Tasks, NEW p \in Procs, NEW u \in Users
             PROVE  locks'[p][u] = s <=> ProcOf[s] = p /\ UserOf[s] = u /\ HasProcLock(s)'
  BY DEF ProcLockIsHeld
<1>2. locks[ProcOf[t]][UserOf[t]] = t BY TaskAssumption DEF ProcLockIsHeld
<1>3. locks[p][u] = s <=> ProcOf[s] = p /\ UserOf[s] = u /\ HasProcLock(s)
  BY DEF ProcLockIsHeld
<1>4. CASE s = t
  <2>1. ~HasProcLock(s)' BY <1>4 DEF HasProcLock
  <2>2. locks'[p][u] # s BY <1>1, <1>3, <1>4, NoneAssumption
  <2> QED BY <2>1, <2>2
<1>5. CASE s # t
  <2>1. HasProcLock(s)' <=> HasProcLock(s) BY <1>5 DEF HasProcLock
  <2>2. CASE p = ProcOf[t] /\ u = UserOf[t]
    BY <1>1, <1>2, <1>3, <1>5, <2>1, <2>2, NoneAssumption
  <2>3. CASE p # ProcOf[t] \/ u # UserOf[t] BY <1>1, <1>3, <2>1, <2>3
  <2> QED BY <2>2, <2>3
<1> QED BY <1>4, <1>5

LEMMA ProcEnds ==
  ASSUME TypeOK, ProcLockIsHeld, NEW t \in Tasks, HasProcLock(t), Ends(t)
  PROVE  ProcLockIsHeld'
<1>1. task'[t].st = "idle" /\ \A s \in Tasks \ {t} : task'[s] = task[s]
  BY EndsTask, IdleTaskType
<1> QED BY <1>1, ProcLetsGo DEF Ends

LEMMA ProcLocks ==
  ASSUME TypeOK, ProcLockIsHeld, NEW t \in Tasks, LockInProcess(t)
  PROVE  ProcLockIsHeld'
<1>1. task'[t].st = "inproc" /\ \A s \in Tasks \ {t} : task'[s] = task[s]
  BY SetsTask DEF LockInProcess, Stages
<1>2. /\ locks'[ProcOf[t]][UserOf[t]] = t
      /\ \A p \in Procs, u \in Users :
           p # ProcOf[t] \/ u # UserOf[t] => locks'[p][u] = locks[p][u]
  BY TaskAssumption DEF LockInProcess, TypeOK
<1>3. locks[ProcOf[t]][UserOf[t]] = None /\ ~HasProcLock(t)
  BY DEF LockInProcess, HasProcLock
<1> SUFFICES ASSUME NEW s \in Tasks, NEW p \in Procs, NEW u \in Users
             PROVE  locks'[p][u] = s <=> ProcOf[s] = p /\ UserOf[s] = u /\ HasProcLock(s)'
  BY DEF ProcLockIsHeld
<1>4. locks[p][u] = s <=> ProcOf[s] = p /\ UserOf[s] = u /\ HasProcLock(s)
  BY DEF ProcLockIsHeld
<1>5. CASE s = t
  <2>1. HasProcLock(s)' BY <1>1, <1>5 DEF HasProcLock
  <2> QED BY <1>2, <1>3, <1>4, <1>5, <2>1
<1>6. CASE s # t
  <2>1. HasProcLock(s)' <=> HasProcLock(s) BY <1>1, <1>6 DEF HasProcLock
  <2>2. CASE p = ProcOf[t] /\ u = UserOf[t]
    BY <1>2, <1>3, <1>4, <1>6, <2>1, <2>2, NoneAssumption
  <2>3. CASE p # ProcOf[t] \/ u # UserOf[t] BY <1>2, <1>4, <2>1, <2>3
  <2> QED BY <2>2, <2>3
<1> QED BY <1>5, <1>6

\* The operating system closes a dead copy's files, and its memory is gone.
LEMMA ProcCrashes ==
  ASSUME TypeOK, ProcLockIsHeld, NEW p \in Procs, Crash(p)
  PROVE  ProcLockIsHeld'
<1>1. /\ \A t \in Tasks : ProcOf[t] = p => task'[t] = IdleTask
      /\ \A t \in Tasks : ProcOf[t] # p => task'[t] = task[t]
      /\ \A q \in Procs, u \in Users :
           locks'[q][u] = IF q = p THEN None ELSE locks[q][u]
  BY DEF Crash, TypeOK
<1>2. \A t \in Tasks : HasProcLock(t)' <=> ProcOf[t] # p /\ HasProcLock(t)
  BY <1>1, IdleTaskType DEF HasProcLock
<1> QED BY <1>1, <1>2, NoneAssumption DEF ProcLockIsHeld

LEMMA InitProc == Init => ProcLockIsHeld
BY NoneAssumption DEF Init, IdleTask, ProcLockIsHeld, HasProcLock

LEMMA NextProc == TypeOK /\ ProcLockIsHeld /\ [Next]_vars => ProcLockIsHeld'
<1> SUFFICES ASSUME TypeOK, ProcLockIsHeld, [Next]_vars PROVE ProcLockIsHeld' OBVIOUS
<1>1. ASSUME NEW t \in Tasks, Begin(t) PROVE ProcLockIsHeld'
  <2>1. file[UserOf[t]] \in Tokens BY TaskAssumption DEF TypeOK
  <2>2. task'[t].st = "queued" /\ \A s \in Tasks \ {t} : task'[s] = task[s]
    BY <1>1, <2>1, HoldsTask DEF Begin, Stages
  <2>3. HasProcLock(t) <=> HasProcLock(t)' BY <1>1, <2>2 DEF Begin, HasProcLock
  <2> QED BY <1>1, <2>2, <2>3, ProcStays DEF Begin
<1>2. ASSUME NEW t \in Tasks, LockInProcess(t) PROVE ProcLockIsHeld'
  BY <1>2, ProcLocks
<1>3. ASSUME NEW t \in Tasks, LockFile(t) PROVE ProcLockIsHeld'
  <2>1. task'[t].st = "locked" /\ \A s \in Tasks \ {t} : task'[s] = task[s]
    BY <1>3, SetsTask DEF LockFile, Stages
  <2>2. HasProcLock(t) <=> HasProcLock(t)' BY <1>3, <2>1 DEF LockFile, HasProcLock
  <2> QED BY <1>3, <2>1, <2>2, ProcStays DEF LockFile
<1>4. ASSUME NEW t \in Tasks, CannotLock(t) PROVE ProcLockIsHeld'
  <2>1. task'[t] = IdleTask /\ \A s \in Tasks \ {t} : task'[s] = task[s]
    BY <1>4, OneTask, IdleTaskType DEF CannotLock
  <2>2. HasProcLock(t) BY <1>4 DEF CannotLock, HasProcLock
  <2> QED BY <1>4, <2>1, <2>2, IdleTaskType, ProcLetsGo DEF CannotLock
<1>5. ASSUME NEW t \in Tasks, Rereads(t) PROVE ProcLockIsHeld'
  <2>1. HasProcLock(t) BY <1>5 DEF Rereads, HasProcLock
  <2>2. CASE Ends(t) BY <2>1, <2>2, ProcEnds
  <2>3. CASE Holds(t, "asking", file[UserOf[t]]) /\ UNCHANGED locks
    <3>1. file[UserOf[t]] \in Tokens BY TaskAssumption DEF TypeOK
    <3>2. task'[t].st = "asking" /\ \A s \in Tasks \ {t} : task'[s] = task[s]
      BY <2>3, <3>1, HoldsTask DEF Stages
    <3>3. HasProcLock(t)' BY <3>2 DEF HasProcLock
    <3> QED BY <2>1, <2>3, <3>2, <3>3, ProcStays
  <2> QED BY <1>5, <2>2, <2>3 DEF Rereads
<1>6. ASSUME NEW t \in Tasks, CannotReread(t) PROVE ProcLockIsHeld'
  <2>1. task'[t].st = "blind" /\ \A s \in Tasks \ {t} : task'[s] = task[s]
    BY <1>6, SetsTask DEF CannotReread, Stages
  <2>2. HasProcLock(t) <=> HasProcLock(t)' BY <1>6, <2>1 DEF CannotReread, HasProcLock
  <2> QED BY <1>6, <2>1, <2>2, ProcStays DEF CannotReread
<1>7. ASSUME NEW t \in Tasks, Unreachable(t) \/ Refuse(t) \/ NotSaved(t) \/ Saves(t)
      PROVE  ProcLockIsHeld'
  <2>1. Ends(t) /\ HasProcLock(t)
    BY <1>7 DEF Unreachable, Refuse, NotSaved, Saves, Asks, HasNewTokens, HasProcLock
  <2> QED BY <2>1, ProcEnds
<1>8. ASSUME NEW t \in Tasks, Grant(t) PROVE ProcLockIsHeld'
  <2> DEFINE u == UserOf[t]
             next == issuer[u].issued + 1
  <2>1. PICK refresh \in {next, issuer[u].valid} :
          Holds(t, "granted", [id |-> next, refresh |-> refresh])
    BY <1>8 DEF Grant
  <2>2. [id |-> next, refresh |-> refresh] \in Tokens
    BY <2>1, TaskAssumption DEF TypeOK, Issuer, Tokens
  <2>3. task'[t].st = "granted" /\ \A s \in Tasks \ {t} : task'[s] = task[s]
    BY <2>1, <2>2, HoldsTask DEF Stages
  <2>4. HasProcLock(t) <=> HasProcLock(t)' BY <1>8, <2>3 DEF Grant, Asks, HasProcLock
  <2> QED BY <1>8, <2>3, <2>4, ProcStays DEF Grant
<1>9. ASSUME NEW t \in Tasks, ReadsFile(t) PROVE ProcLockIsHeld'
  <2> DEFINE new == [st |-> "saving", tokens |-> task[t].tokens, read |-> file]
  <2>1. task' = [task EXCEPT ![t] = new] /\ new.st = "saving" BY <1>9 DEF ReadsFile
  <2>2. task'[t].st = "saving" /\ \A s \in Tasks \ {t} : task'[s] = task[s]
    BY <2>1 DEF TypeOK
  <2>3. HasProcLock(t) <=> HasProcLock(t)' BY <1>9, <2>2 DEF ReadsFile, HasProcLock
  <2> QED BY <1>9, <2>2, <2>3, ProcStays DEF ReadsFile
<1>10. ASSUME NEW u \in Users, Expire(u) PROVE ProcLockIsHeld'
  BY <1>10 DEF Expire, ProcLockIsHeld, HasProcLock
<1>11. ASSUME NEW p \in Procs, Crash(p) PROVE ProcLockIsHeld' BY <1>11, ProcCrashes
<1>12. CASE UNCHANGED vars BY <1>12 DEF vars, ProcLockIsHeld, HasProcLock
<1> QED
  BY <1>1, <1>2, <1>3, <1>4, <1>5, <1>6, <1>7, <1>8, <1>9, <1>10, <1>11, <1>12
  DEF Next, Runs

\* Whoever has the lock on the file waits for nothing; if nobody has it, whoever has
\* a lock in a process can take it; if nobody has that one either, anyone can.
LEMMA LocksAreOrdered == TypeOK /\ LockIsHeld /\ ProcLockIsHeld => NotAllWait
<1> SUFFICES ASSUME TypeOK, LockIsHeld, ProcLockIsHeld, NEW t \in Tasks, task[t].st # "idle"
             PROVE  \E s \in Tasks : MovesOn(s)
  BY DEF NotAllWait
<1>1. CASE flock # None
  <2>1. flock \in Tasks /\ task[flock].st \in LockedStages
    BY <1>1 DEF TypeOK, LockIsHeld
  <2> QED BY <2>1 DEF MovesOn
<1>2. CASE flock = None
  <2>1. \A s \in Tasks : HasProcLock(s) => MovesOn(s)
    <3> SUFFICES ASSUME NEW s \in Tasks, HasProcLock(s) PROVE MovesOn(s) OBVIOUS
    <3>1. task[s].st \in Stages BY DEF TypeOK, Task
    <3> QED BY <1>2, <3>1 DEF MovesOn, HasProcLock, Stages, LockedStages
  <2>2. CASE HasProcLock(t) BY <2>1, <2>2
  <2>3. CASE ~HasProcLock(t)
    <3> DEFINE h == locks[ProcOf[t]][UserOf[t]]
    <3>1. task[t].st = "queued" BY <2>3 DEF HasProcLock
    <3>2. h \in Tasks \cup {None} BY TaskAssumption DEF TypeOK
    <3>3. CASE h = None BY <3>1, <3>3 DEF MovesOn
    <3>4. CASE h \in Tasks
      <4>1. HasProcLock(h) BY <3>4, TaskAssumption DEF ProcLockIsHeld
      <4> QED BY <2>1, <3>4, <4>1
    <3> QED BY <3>2, <3>3, <3>4
  <2> QED BY <2>2, <2>3
<1> QED BY <1>1, <1>2

\* No lock is left taken by a renewal that ended, failed or was killed, and the
\* renewals never all wait for each other: the part of RenewalEnds that needs no
\* fairness (RenewalLock's two locks, always taken in one order).
THEOREM SpecLocksAreHandedOn == Spec => [](LockIsHeld /\ ProcLockIsHeld /\ NotAllWait)
<1>1. IInv => TypeOK /\ LockIsHeld BY DEF IInv
<1>2. Spec => []TypeOK BY <1>1, SpecIInv, PTL
<1>3. Spec => []ProcLockIsHeld
  BY <1>2, InitProc, NextProc, PTL DEF Spec
<1> QED BY <1>1, <1>3, LocksAreOrdered, SpecIInv, PTL
=============================================================================
