------------------------- MODULE UserPrompts_proofs --------------------------
(***************************************************************************)
(* Proofs about what the app asks its user.                                *)
(*                                                                         *)
(* ManualTunnels: every prompt of a manual tunnel is accounted for, nothing*)
(* connects before it was confirmed, and the tunnel is one shared forward  *)
(* to the contexts bound to it: for any contexts, and any number of        *)
(* attempts that overlap with ones still being torn down.                  *)
(*                                                                         *)
(* AgentApprovals: the question that is asked is the one taken to be open, *)
(* by the one call that has the turn, and withdrawing it leaves every other*)
(* question to its user.                                                   *)
(***************************************************************************)
EXTENDS ManualTunnels, AgentApprovals, FiniteSetTheorems, SequenceTheorems, TLAPS

\* Where the events of one kind about f are in a queue, and its prompts.
At(q, kind, f) == {i \in DOMAIN q : q[i] = [kind |-> kind, f |-> f]}
In(p, f) == {i \in DOMAIN p : p[i].f = f}

AtMostOne(S) == \A i, j \in S : i = j

\* What binds a forward in state st to its requests A and its withdrawals W in the
\* queue and to its prompts P.
Accounted(st, A, P, W) ==
  /\ AtMostOne(A) /\ AtMostOne(P) /\ (A = {} \/ P = {})
  /\ st = "asking" => A # {} \/ P # {}
  /\ A # {} \/ P # {} => st \in {"asking", "gone"}
  /\ W # {} => st = "gone"
  /\ st = "gone" /\ (A # {} \/ P # {}) => \E i \in W : \A j \in A : j < i

AccountedFor(f) ==
  Accounted(fwd[f], At(queue, "Pending", f), In(pending, f), At(queue, "Withdrawn", f))

\* The contexts that hold a forward hold the same one, and it is not gone.
HeldOK ==
  /\ \A c, d \in Contexts :
       conn[c].fwd # None /\ conn[d].fwd # None => conn[c].fwd = conn[d].fwd
  /\ \A c \in Contexts : conn[c].fwd # None => fwd[conn[c].fwd] # "gone"

IInv ==
  /\ TypeOK /\ HeldOK /\ ConfirmedFirst
  /\ \A f \in Forwards : AccountedFor(f)

-----------------------------------------------------------------------------
(* Queues and prompts as the sets of their places.                            *)

Positive == Nat \ {0}
Down(S) == {i \in Positive : i + 1 \in S}

LEMMA PlacesTyped ==
  ASSUME NEW q \in Seq(Event), NEW p \in Seq(Prompt), NEW kind, NEW f
  PROVE  /\ At(q, kind, f) \in SUBSET Positive /\ At(q, kind, f) \subseteq 1..Len(q)
         /\ In(p, f) \in SUBSET Positive /\ In(p, f) \subseteq 1..Len(p)
<1>1. DOMAIN q = 1..Len(q) /\ Len(q) \in Nat /\ DOMAIN p = 1..Len(p) /\ Len(p) \in Nat
  OBVIOUS
<1> QED  BY <1>1 DEF At, In, Positive

LEMMA AtAppend ==
  ASSUME NEW q \in Seq(Event), NEW e \in Event, NEW kind, NEW f
  PROVE  At(Append(q, e), kind, f) =
           At(q, kind, f) \cup
             (IF e = [kind |-> kind, f |-> f] THEN {Len(q) + 1} ELSE {})
<1>1. /\ DOMAIN q = 1..Len(q) /\ Len(q) \in Nat
      /\ DOMAIN Append(q, e) = 1..(Len(q) + 1)
      /\ \A i \in 1..Len(q) : Append(q, e)[i] = q[i]
      /\ Append(q, e)[Len(q) + 1] = e
  BY AppendProperties
<1>2. 1..(Len(q) + 1) = 1..Len(q) \cup {Len(q) + 1}  BY <1>1
<1> QED  BY <1>1, <1>2 DEF At

LEMMA AtTail ==
  ASSUME NEW q \in Seq(Event), q # <<>>, NEW kind, NEW f
  PROVE  At(Tail(q), kind, f) = Down(At(q, kind, f))
<1>1. /\ DOMAIN q = 1..Len(q) /\ Len(q) \in Nat /\ Len(q) > 0
      /\ DOMAIN Tail(q) = 1..(Len(q) - 1)
      /\ \A i \in 1..(Len(q) - 1) : Tail(q)[i] = q[i + 1]
  BY HeadTailProperties, EmptySeq
<1>2. \A i \in Positive : i \in 1..(Len(q) - 1) <=> i + 1 \in 1..Len(q)
  BY <1>1 DEF Positive
<1> QED  BY <1>1, <1>2 DEF At, Down, Positive

LEMMA InAppend ==
  ASSUME NEW p \in Seq(Prompt), NEW x \in Prompt, NEW f
  PROVE  In(Append(p, x), f) = In(p, f) \cup (IF x.f = f THEN {Len(p) + 1} ELSE {})
<1>1. /\ DOMAIN p = 1..Len(p) /\ Len(p) \in Nat
      /\ DOMAIN Append(p, x) = 1..(Len(p) + 1)
      /\ \A i \in 1..Len(p) : Append(p, x)[i] = p[i]
      /\ Append(p, x)[Len(p) + 1] = x
  BY AppendProperties
<1>2. 1..(Len(p) + 1) = 1..Len(p) \cup {Len(p) + 1}  BY <1>1
<1> QED  BY <1>1, <1>2 DEF In

LEMMA InTail ==
  ASSUME NEW p \in Seq(Prompt), p # <<>>, NEW f
  PROVE  In(Tail(p), f) = Down(In(p, f))
<1>1. /\ DOMAIN p = 1..Len(p) /\ Len(p) \in Nat /\ Len(p) > 0
      /\ DOMAIN Tail(p) = 1..(Len(p) - 1)
      /\ \A i \in 1..(Len(p) - 1) : Tail(p)[i] = p[i + 1]
  BY HeadTailProperties, EmptySeq
<1>2. \A i \in Positive : i \in 1..(Len(p) - 1) <=> i + 1 \in 1..Len(p)
  BY <1>1 DEF Positive
<1> QED  BY <1>1, <1>2 DEF In, Down, Positive

\* The prompt removed leaves every other one, of the same forward or another.
LEMMA InRemoved ==
  ASSUME NEW p \in Seq(Prompt), NEW i \in DOMAIN p
  PROVE  /\ RemoveAt(p, i) \in Seq(Prompt)
         /\ \A f, j : j \in In(RemoveAt(p, i), f) <=>
              \/ j \in In(p, f) /\ j < i
              \/ j \in Positive /\ j >= i /\ j + 1 \in In(p, f)
<1> DEFINE a == SubSeq(p, 1, i - 1)
           b == SubSeq(p, i + 1, Len(p))
<1>1. DOMAIN p = 1..Len(p) /\ Len(p) \in Nat /\ i \in 1..Len(p) /\ i \in Int
  OBVIOUS
<1>2. \A j \in 1..Len(p) : p[j] \in Prompt  BY <1>1
<1>3. /\ a \in Seq(Prompt) /\ Len(a) = i - 1
      /\ \A j \in 1..(i - 1) : a[j] = p[j]
  <2>1. \A j \in 1..(i - 1) : p[j] \in Prompt  BY <1>1, <1>2
  <2>2. /\ a \in Seq(Prompt) /\ Len(a) = IF 1 <= i - 1 THEN (i - 1) - 1 + 1 ELSE 0
        /\ \A j \in 1..((i - 1) - 1 + 1) : a[j] = p[1 + j - 1]
    BY <1>1, <2>1, SubSeqProperties
  <2> HIDE DEF a
  <2> QED  BY <1>1, <2>2
<1>4. /\ b \in Seq(Prompt) /\ Len(b) = Len(p) - i
      /\ \A j \in 1..(Len(p) - i) : b[j] = p[i + j]
  <2>1. \A j \in (i + 1)..Len(p) : p[j] \in Prompt  BY <1>1, <1>2
  <2>2. /\ b \in Seq(Prompt)
        /\ Len(b) = IF i + 1 <= Len(p) THEN Len(p) - (i + 1) + 1 ELSE 0
        /\ \A j \in 1..(Len(p) - (i + 1) + 1) : b[j] = p[i + 1 + j - 1]
    BY <1>1, <2>1, SubSeqProperties
  <2> HIDE DEF b
  <2>3. Len(b) = Len(p) - i  BY <1>1, <2>2
  <2>4. ASSUME NEW j \in 1..(Len(p) - i)  PROVE b[j] = p[i + j]
    <3>1. j \in 1..(Len(p) - (i + 1) + 1) /\ i + 1 + j - 1 = i + j  BY <1>1
    <3> QED  BY <2>2, <3>1
  <2> QED  BY <2>2, <2>3, <2>4
<1>5. RemoveAt(p, i) = a \o b  BY DEF RemoveAt
<1> HIDE DEF a, b
<1> DEFINE r == a \o b
<1>6. /\ r \in Seq(Prompt) /\ DOMAIN r = 1..(Len(p) - 1)
      /\ \A j \in 1..(Len(p) - 1) : r[j] = IF j <= i - 1 THEN a[j] ELSE b[j - (i - 1)]
  <2>1. /\ r \in Seq(Prompt) /\ Len(r) = Len(a) + Len(b)
        /\ \A j \in 1..(Len(a) + Len(b)) : r[j] = IF j <= Len(a) THEN a[j] ELSE b[j - Len(a)]
    BY <1>3, <1>4, ConcatProperties
  <2>2. DOMAIN r = 1..Len(r)  BY <2>1
  <2> HIDE DEF r
  <2> QED  BY <1>1, <1>3, <1>4, <2>1, <2>2
<1> HIDE DEF r
<1>7. \A j \in 1..(Len(p) - 1) : r[j] = IF j < i THEN p[j] ELSE p[j + 1]
  <2> TAKE j \in 1..(Len(p) - 1)
  <2>1. CASE j < i
    <3>1. j \in 1..(i - 1) /\ j <= i - 1  BY <1>1, <2>1
    <3> QED  BY <1>3, <1>6, <2>1, <3>1
  <2>2. CASE j >= i
    <3>1. j - (i - 1) \in 1..(Len(p) - i) /\ ~(j <= i - 1) /\ i + (j - (i - 1)) = j + 1
      BY <1>1, <2>2
    <3> QED  BY <1>1, <1>4, <1>6, <2>2, <3>1
  <2> QED  BY <1>1, <2>1, <2>2
<1>8. ASSUME NEW f, NEW j
      PROVE  j \in In(r, f) <=>
               \/ j \in In(p, f) /\ j < i
               \/ j \in Positive /\ j >= i /\ j + 1 \in In(p, f)
  <2>1. j \in In(r, f) <=> j \in 1..(Len(p) - 1) /\ r[j].f = f
    BY <1>6 DEF In
  <2>2. \A k : k \in In(p, f) <=> k \in 1..Len(p) /\ p[k].f = f
    BY <1>1 DEF In
  <2>3. CASE j \in Positive /\ j < i
    <3>1. j \in 1..(Len(p) - 1) /\ j \in 1..Len(p)  BY <1>1, <2>3 DEF Positive
    <3> QED  BY <1>1, <1>7, <2>1, <2>2, <2>3, <3>1 DEF Positive
  <2>4. CASE j \in Positive /\ j >= i
    <3>1. j \in 1..(Len(p) - 1) <=> j + 1 \in 1..Len(p)  BY <1>1, <2>4 DEF Positive
    <3> QED  BY <1>1, <1>7, <2>1, <2>2, <2>4, <3>1 DEF Positive
  <2>5. CASE j \notin Positive
    <3>1. j \notin 1..(Len(p) - 1) /\ j \notin 1..Len(p)  BY <1>1, <2>5 DEF Positive
    <3> QED  BY <2>1, <2>2, <2>5, <3>1
  <2> QED  BY <1>1, <2>3, <2>4, <2>5 DEF Positive
<1> QED  BY <1>5, <1>6, <1>8 DEF r

-----------------------------------------------------------------------------
(* How the account of a forward goes on.                                      *)

\* Its events move up as another one is taken.
LEMMA MovesUp ==
  ASSUME NEW st, NEW A \in SUBSET Positive, NEW P, NEW W \in SUBSET Positive,
         Accounted(st, A, P, W), 1 \notin A, 1 \notin W
  PROVE  Accounted(st, Down(A), P, Down(W))
<1>1. \A i \in A : i - 1 \in Down(A)  BY DEF Positive, Down
<1>2. \A i \in W : i - 1 \in Down(W)  BY DEF Positive, Down
<1>3. (Down(A) = {} <=> A = {}) /\ (Down(W) = {} <=> W = {})
  BY <1>1, <1>2 DEF Down
<1>4. AtMostOne(Down(A))  BY DEF Accounted, AtMostOne, Down, Positive
<1>5. ASSUME NEW i \in W, \A j \in A : j < i
      PROVE  \E k \in Down(W) : \A j \in Down(A) : j < k
  <2>1. i - 1 \in Down(W)  BY <1>2
  <2>2. \A j \in Down(A) : j < i - 1  BY <1>5 DEF Down, Positive
  <2> QED  BY <2>1, <2>2
<1> QED  BY <1>3, <1>4, <1>5 DEF Accounted

\* Its request is taken, and makes a prompt.
LEMMA Prompted ==
  ASSUME NEW st, NEW A \in SUBSET Positive, NEW P, NEW W \in SUBSET Positive, NEW n,
         Accounted(st, A, P, W), 1 \in A, 1 \notin W
  PROVE  Accounted(st, Down(A), P \cup {n}, Down(W))
<1>1. A = {1} /\ P = {}  BY DEF Accounted, AtMostOne
<1>2. Down(A) = {}  BY <1>1 DEF Down, Positive
<1>3. \A i \in W : i - 1 \in Down(W)  BY DEF Positive, Down
<1>4. Down(W) # {} => W # {}  BY DEF Down
<1> QED  BY <1>1, <1>2, <1>3, <1>4 DEF Accounted, AtMostOne

\* Its withdrawal is taken, and its prompt with it.
LEMMA Withdrawn ==
  ASSUME NEW st, NEW A \in SUBSET Positive, NEW P, NEW W \in SUBSET Positive,
         Accounted(st, A, P, W), 1 \in W, 1 \notin A
  PROVE  Accounted(st, Down(A), {}, Down(W))
<1>1. st = "gone"  BY DEF Accounted
<1>2. Down(A) # {} => A # {}  BY DEF Down
<1>3. AtMostOne(Down(A))  BY DEF Accounted, AtMostOne, Down, Positive
<1>4. ASSUME A # {}  PROVE \E k \in Down(W) : \A j \in Down(A) : j < k
  <2>1. PICK i \in W : \A j \in A : j < i  BY <1>1, <1>4 DEF Accounted
  <2>2. i - 1 \in Down(W)
    <3>1. PICK j \in A : j < i  BY <1>4, <2>1
    <3> QED  BY <3>1 DEF Down, Positive
  <2>3. \A j \in Down(A) : j < i - 1  BY <2>1 DEF Down, Positive
  <2> QED  BY <2>2, <2>3
<1> QED  BY <1>1, <1>2, <1>3, <1>4 DEF Accounted, AtMostOne

\* Its prompts move up, or the only one goes as it is answered.
LEMMA PromptsMoveUp ==
  ASSUME NEW st, NEW A, NEW P \in SUBSET Positive, NEW W, Accounted(st, A, P, W), 1 \notin P
  PROVE  Accounted(st, A, Down(P), W)
<1>1. \A i \in P : i - 1 \in Down(P)  BY DEF Positive, Down
<1>2. Down(P) = {} <=> P = {}  BY <1>1 DEF Down
<1>3. AtMostOne(Down(P))  BY DEF Accounted, AtMostOne, Down, Positive
<1> QED  BY <1>2, <1>3 DEF Accounted

LEMMA Answered ==
  ASSUME NEW st, NEW A, NEW P \in SUBSET Positive, NEW W, Accounted(st, A, P, W), 1 \in P,
         NEW decision \in {"Proceed", "Cancel"}
  PROVE  Accounted(IF st = "asking" THEN decision ELSE st, A, Down(P), W)
<1>1. P = {1} /\ A = {}  BY DEF Accounted, AtMostOne
<1>2. Down(P) = {}  BY <1>1 DEF Down, Positive
<1> QED  BY <1>1, <1>2 DEF Accounted, AtMostOne

-----------------------------------------------------------------------------
(* The account of every forward through the steps.                            *)

\* What concerns f in the queue and the prompts, as typed sets of places.
LEMMA Places ==
  ASSUME TypeOK, NEW f
  PROVE  /\ At(queue, "Pending", f) \in SUBSET Positive
         /\ At(queue, "Withdrawn", f) \in SUBSET Positive
         /\ In(pending, f) \in SUBSET Positive
         /\ \A i \in At(queue, "Pending", f) : i < Len(queue) + 1
BY PlacesTyped DEF TypeOK

LEMMA MainThreadAccounts ==
  ASSUME IInv, NEW f \in Forwards,
         \/ \E decision \in {"Proceed", "Cancel"} : Resolve(decision)
         \/ Applies
  PROVE  AccountedFor(f)'
<1> DEFINE A == At(queue, "Pending", f)
           W == At(queue, "Withdrawn", f)
           P == In(pending, f)
<1>1. /\ TypeOK /\ Accounted(fwd[f], A, P, W)
      /\ A \in SUBSET Positive /\ W \in SUBSET Positive /\ P \in SUBSET Positive
  BY Places DEF IInv, AccountedFor
<1>2. ASSUME NEW decision \in {"Proceed", "Cancel"}, Resolve(decision)
      PROVE  AccountedFor(f)'
  <2>1. /\ pending # <<>> /\ pending' = Tail(pending) /\ queue' = queue
        /\ fwd' = [fwd EXCEPT ![Head(pending).f] = IF @ = "asking" THEN decision ELSE @]
    BY <1>2 DEF Resolve
  <2>2. In(pending', f) = Down(P)  BY <1>1, <2>1, InTail DEF TypeOK
  <2>3. 1 \in P <=> Head(pending).f = f
    <3>1. 1 \in DOMAIN pending /\ Head(pending) = pending[1]
      BY <1>1, <2>1 DEF TypeOK
    <3> QED  BY <3>1 DEF In
  <2>4. CASE 1 \in P
    <3>1. fwd'[f] = IF fwd[f] = "asking" THEN decision ELSE fwd[f]
      BY <1>1, <2>1, <2>3, <2>4 DEF TypeOK
    <3>2. Accounted(fwd'[f], A, Down(P), W)
      <4> HIDE DEF A, P, W
      <4> QED  BY <1>1, <2>4, <3>1, Answered
    <3> QED  BY <2>1, <2>2, <3>2 DEF AccountedFor
  <2>5. CASE 1 \notin P
    <3>1. fwd'[f] = fwd[f]  BY <1>1, <2>1, <2>3, <2>5 DEF TypeOK
    <3>2. Accounted(fwd'[f], A, Down(P), W)
      <4> HIDE DEF A, P, W
      <4> QED  BY <1>1, <2>5, <3>1, PromptsMoveUp
    <3> QED  BY <2>1, <2>2, <3>2 DEF AccountedFor
  <2> QED  BY <2>4, <2>5
<1>3. ASSUME Applies
      PROVE  /\ At(queue', "Pending", f) = Down(A)
             /\ At(queue', "Withdrawn", f) = Down(W)
             /\ 1 \in A <=> Head(queue) = [kind |-> "Pending", f |-> f]
             /\ 1 \in W <=> Head(queue) = [kind |-> "Withdrawn", f |-> f]
             /\ Head(queue) \in Event
             /\ fwd' = fwd
  <2>1. queue # <<>> /\ queue' = Tail(queue) /\ fwd' = fwd
    BY <1>3 DEF Applies, ApplyPending, ApplySettled, ApplyWithdrawn
  <2>2. 1 \in DOMAIN queue /\ Head(queue) = queue[1] /\ Head(queue) \in Event
    BY <1>1, <2>1 DEF TypeOK
  <2> QED  BY <1>1, <2>1, <2>2, AtTail DEF At, TypeOK
<1>4. CASE ApplyPending
  <2>1. /\ Head(queue).kind = "Pending"
        /\ pending' = Append(pending, [f |-> Head(queue).f, contexts |-> waiting])
    BY <1>4 DEF ApplyPending
  <2>2. [f |-> Head(queue).f, contexts |-> waiting] \in Prompt
    BY <1>1, <1>3, <1>4 DEF TypeOK, Prompt, Event, Applies
  <2>3. In(pending', f) = P \cup (IF Head(queue).f = f THEN {Len(pending) + 1} ELSE {})
    BY <1>1, <2>1, <2>2, InAppend DEF TypeOK
  <2>4. 1 \notin W /\ (1 \in A <=> Head(queue).f = f)
    BY <1>3, <1>4, <2>1 DEF Event, Applies
  <2>5. Accounted(fwd[f], Down(A), In(pending', f), Down(W))
    <3> DEFINE n == Len(pending) + 1
    <3>1. CASE 1 \in A
      <4>1. In(pending', f) = P \cup {n}  BY <2>3, <2>4, <3>1
      <4>2. Accounted(fwd[f], Down(A), P \cup {n}, Down(W))
        <5> HIDE DEF A, P, W, n
        <5> QED  BY <1>1, <2>4, <3>1, Prompted
      <4> QED  BY <4>1, <4>2
    <3>2. CASE 1 \notin A
      <4>1. In(pending', f) = P  BY <2>3, <2>4, <3>2
      <4> HIDE DEF A, P, W, n
      <4> QED  BY <1>1, <2>4, <3>2, <4>1, MovesUp
    <3> QED  BY <3>1, <3>2
  <2> QED  BY <1>3, <1>4, <2>5 DEF AccountedFor, Applies
<1>5. CASE ApplySettled
  <2>1. Head(queue).kind = "Settled" /\ pending' = pending  BY <1>5 DEF ApplySettled
  <2>2. 1 \notin A /\ 1 \notin W  BY <1>3, <1>5, <2>1 DEF Applies
  <2>3. Accounted(fwd[f], Down(A), P, Down(W))
    <3> HIDE DEF A, P, W
    <3> QED  BY <1>1, <2>2, MovesUp
  <2> QED  BY <1>3, <1>5, <2>1, <2>3 DEF AccountedFor, Applies
<1>6. CASE ApplyWithdrawn
  <2>1. Head(queue).kind = "Withdrawn"  BY <1>6 DEF ApplyWithdrawn
  <2>2. 1 \notin A /\ (1 \in W <=> Head(queue).f = f)
    BY <1>3, <1>6, <2>1 DEF Event, Applies
  <2>3. CASE Prompts(Head(queue).f) = {}
    <3>1. pending' = pending  BY <1>6, <2>3 DEF ApplyWithdrawn
    <3>2. 1 \in W => P = {}  BY <2>2, <2>3 DEF Prompts, In
    <3>3. Accounted(fwd[f], Down(A), P, Down(W))
      <4> HIDE DEF A, P, W
      <4> QED  BY <1>1, <2>2, <3>2, MovesUp, Withdrawn
    <3> QED  BY <1>3, <1>6, <3>1, <3>3 DEF AccountedFor, Applies
  <2>4. CASE Prompts(Head(queue).f) # {}
    <3>1. PICK i \in Prompts(Head(queue).f) : pending' = RemoveAt(pending, i)
      BY <1>6, <2>4 DEF ApplyWithdrawn
    <3>2. i \in DOMAIN pending /\ pending[i].f = Head(queue).f /\ i \in Positive
      BY <1>1, <3>1 DEF Prompts, TypeOK, Positive
    <3>3. \A j : j \in In(pending', f) <=>
            \/ j \in P /\ j < i
            \/ j \in Positive /\ j >= i /\ j + 1 \in P
      BY <1>1, <3>1, <3>2, InRemoved DEF TypeOK
    <3>4. CASE Head(queue).f = f
      <4>1. i \in P  BY <3>2, <3>4 DEF In
      <4>2. P = {i}  BY <1>1, <4>1 DEF Accounted, AtMostOne
      <4>3. In(pending', f) = {}
        <5>1. \A j : ~(j \in P /\ j < i)  BY <3>2, <4>2 DEF Positive
        <5>2. \A j \in Positive : j >= i => j + 1 \notin P  BY <3>2, <4>2 DEF Positive
        <5> QED  BY <3>3, <5>1, <5>2
      <4>4. Accounted(fwd[f], Down(A), {}, Down(W))
        <5> HIDE DEF A, P, W
        <5> QED  BY <1>1, <2>2, <3>4, Withdrawn
      <4> QED  BY <1>3, <1>6, <4>3, <4>4 DEF AccountedFor, Applies
    <3>5. CASE Head(queue).f # f
      <4>1. i \notin P  BY <3>2, <3>5 DEF In
      <4>2. Accounted(fwd[f], Down(A), P, Down(W))
        <5> HIDE DEF A, P, W
        <5> QED  BY <1>1, <2>2, <3>5, MovesUp
      <4>3. AtMostOne(In(pending', f)) /\ (In(pending', f) = {} <=> P = {})
        <5> DEFINE R == In(pending', f)
        <5> HIDE DEF R, P
        <5>1. \A j \in R : j \in P \/ (j \in Positive /\ j + 1 \in P)
          BY <3>3 DEF R
        <5>2. \A k \in P : (k < i /\ k \in R) \/ (k > i /\ k - 1 \in R)
          <6> TAKE k \in P
          <6>1. k \in Positive /\ k # i  BY <1>1, <4>1
          <6>2. CASE k < i  BY <3>3, <6>2 DEF R
          <6>3. CASE k > i
            <7>1. k - 1 \in Positive /\ k - 1 >= i /\ (k - 1) + 1 \in P
              BY <3>2, <6>1, <6>3 DEF Positive
            <7> QED  BY <3>3, <6>3, <7>1 DEF R
          <6> QED  BY <3>2, <6>1, <6>2, <6>3 DEF Positive
        <5>3. AtMostOne(P)  BY <1>1 DEF Accounted
        <5>4. \A j, k \in R : j = k
          <6> TAKE j, k \in R
          <6>1. (j \in P /\ j < i) \/ (j \in Positive /\ j >= i /\ j + 1 \in P)
            BY <3>3 DEF R
          <6>2. (k \in P /\ k < i) \/ (k \in Positive /\ k >= i /\ k + 1 \in P)
            BY <3>3 DEF R
          <6>3. \A l, m \in P : l = m  BY <5>3 DEF AtMostOne
          <6>4. CASE j \in P /\ k \in P  BY <6>3, <6>4
          <6>5. CASE j + 1 \in P /\ k + 1 \in P /\ j \in Positive /\ k \in Positive
            <7>1. j + 1 = k + 1  BY <6>3, <6>5
            <7> QED  BY <6>5, <7>1 DEF Positive
          <6>6. CASE j \in P /\ j < i /\ k + 1 \in P /\ k >= i /\ k \in Positive
            <7>1. j = k + 1  BY <6>3, <6>6
            <7> QED  BY <3>2, <6>6, <7>1 DEF Positive
          <6>7. CASE k \in P /\ k < i /\ j + 1 \in P /\ j >= i /\ j \in Positive
            <7>1. k = j + 1  BY <6>3, <6>7
            <7> QED  BY <3>2, <6>7, <7>1 DEF Positive
          <6> QED  BY <6>1, <6>2, <6>4, <6>5, <6>6, <6>7
        <5> QED  BY <5>1, <5>2, <5>4 DEF AtMostOne, R
      <4>4. Accounted(fwd[f], Down(A), In(pending', f), Down(W))
        <5> HIDE DEF A, P, W
        <5> QED  BY <4>2, <4>3 DEF Accounted
      <4> QED  BY <1>3, <1>6, <4>4 DEF AccountedFor, Applies
    <3> QED  BY <3>4, <3>5
  <2> QED  BY <2>3, <2>4
<1> QED  BY <1>2, <1>4, <1>5, <1>6 DEF Applies

LEMMA OthersAccount ==
  ASSUME IInv, NEW f \in Forwards,
         \/ \E c \in Contexts : Acquire(c) \/ Close(c) \/ Connects(c)
         \/ \E g \in Forwards : Transport(g)
         \/ UNCHANGED vars
  PROVE  AccountedFor(f)'
<1> DEFINE A == At(queue, "Pending", f)
           W == At(queue, "Withdrawn", f)
           P == In(pending, f)
           n == Len(queue) + 1
<1>1. /\ TypeOK /\ Accounted(fwd[f], A, P, W) /\ fwd[f] \in Forward
      /\ A \in SUBSET Positive /\ W \in SUBSET Positive /\ P \in SUBSET Positive
      /\ \A i \in A : i < n
  BY Places DEF IInv, AccountedFor, TypeOK
\* A step that leaves the queue and the prompts, and f if it is asking or gone.
<1>2. ASSUME queue' = queue, In(pending', f) = P,
             fwd'[f] = fwd[f] \/ {fwd[f], fwd'[f]} \cap {"asking", "gone"} = {}
      PROVE  AccountedFor(f)'
  <2>1. Accounted(fwd'[f], A, P, W)
    <3> HIDE DEF A, P, W
    <3>1. CASE fwd'[f] = fwd[f]  BY <1>1, <3>1
    <3>2. CASE {fwd[f], fwd'[f]} \cap {"asking", "gone"} = {}
      <4>1. fwd[f] \notin {"asking", "gone"} /\ fwd'[f] \notin {"asking", "gone"}
        BY <3>2
      <4>2. A = {} /\ P = {} /\ W = {}  BY <1>1, <4>1 DEF Accounted
      <4> QED  BY <4>1, <4>2 DEF Accounted, AtMostOne
    <3> QED  BY <1>2, <3>1, <3>2
  <2> QED  BY <1>2, <2>1 DEF AccountedFor
\* A step that sends an event about f, or another forward.
<1>3. ASSUME NEW kind \in {"Pending", "Withdrawn", "Settled"}, NEW g \in Forwards,
             Send(kind, g), pending' = pending
      PROVE  /\ In(pending', f) = P
             /\ At(queue', "Pending", f) = A \cup (IF kind = "Pending" /\ g = f THEN {n} ELSE {})
             /\ At(queue', "Withdrawn", f) = W \cup (IF kind = "Withdrawn" /\ g = f THEN {n} ELSE {})
  <2>1. [kind |-> kind, f |-> g] \in Event  BY DEF Event
  <2>2. queue' = Append(queue, [kind |-> kind, f |-> g])  BY <1>3 DEF Send
  <2> QED  BY <1>1, <1>3, <2>1, <2>2, AtAppend DEF TypeOK
<1>4. ASSUME NEW c \in Contexts, Acquire(c)  PROVE AccountedFor(f)'
  <2>1. PICK g \in Acquired :
          /\ fwd' = [fwd EXCEPT ![g] = IF @ = "gone" THEN "starting" ELSE @]
          /\ IF fwd[g] = "up" THEN UNCHANGED <<pending, waiting>> ELSE NoteWaiting(c)
    BY <1>4 DEF Acquire
  <2>2. queue' = queue  BY <1>4 DEF Acquire
  <2>3. In(pending', f) = P
    <3>1. CASE pending' = pending  BY <3>1
    <3>2. CASE NoteWaiting(c)
      <4>1. DOMAIN pending' = DOMAIN pending  BY <3>2 DEF NoteWaiting
      <4>2. \A i \in DOMAIN pending : pending'[i].f = pending[i].f
        <5> TAKE i \in DOMAIN pending
        <5>1. pending[i] \in Prompt  BY <1>1 DEF TypeOK
        <5> QED  BY <3>2, <5>1 DEF NoteWaiting, Prompt
      <4> QED  BY <4>1, <4>2 DEF In
    <3> QED  BY <2>1, <3>1, <3>2
  <2>4. CASE f = g /\ fwd[f] = "gone"
    <3>1. Fresh(f)
      <4>1. CASE \E h \in Forwards : Held(h)
        <5>1. Held(f)  BY <2>1, <2>4, <4>1 DEF Acquired
        <5>2. fwd[f] # "gone"  BY <5>1, NoneAssumption DEF Held, IInv, HeldOK
        <5> QED  BY <2>4, <5>2
      <4>2. CASE ~\E h \in Forwards : Held(h)
        BY <2>4, <4>2 DEF Acquired
      <4> QED  BY <4>1, <4>2
    <3>2. A = {} /\ W = {} /\ P = {}  BY <3>1 DEF Fresh, At, In, Prompts
    <3>3. fwd'[f] = "starting"  BY <1>1, <2>1, <2>4 DEF TypeOK
    <3>4. Accounted(fwd'[f], A, P, W)  BY <3>2, <3>3 DEF Accounted, AtMostOne
    <3> QED  BY <2>2, <2>3, <3>4 DEF AccountedFor
  <2>5. CASE ~(f = g /\ fwd[f] = "gone")
    <3>1. fwd'[f] = fwd[f]  BY <1>1, <2>1, <2>5 DEF TypeOK
    <3> QED  BY <1>2, <2>2, <2>3, <3>1
  <2> QED  BY <2>4, <2>5
<1>5. ASSUME NEW c \in Contexts, Close(c) \/ Connects(c)  PROVE AccountedFor(f)'
  <2>1. UNCHANGED <<fwd, queue, pending>>
    BY <1>5 DEF Close, Connects, WaitEnds, ProbeEnds, Drained
  <2> QED  BY <1>2, <2>1
<1>6. ASSUME NEW g \in Forwards, Transport(g)  PROVE AccountedFor(f)'
  <2>1. CASE TransportReachable(g)
    <3>1. /\ Send("Settled", g) /\ pending' = pending
          /\ fwd[g] = "starting" /\ fwd' = [fwd EXCEPT ![g] = "settled"]
      BY <2>1 DEF TransportReachable
    <3>2. /\ In(pending', f) = P
          /\ At(queue', "Pending", f) = A /\ At(queue', "Withdrawn", f) = W
      BY <1>3, <3>1
    <3>3. Accounted(fwd'[f], A, P, W)
      BY <1>1, <3>1 DEF Accounted, TypeOK
    <3> QED  BY <3>2, <3>3 DEF AccountedFor
  <2>2. CASE TransportAsks(g)
    <3>1. /\ Send("Pending", g) /\ pending' = pending
          /\ fwd[g] = "starting" /\ fwd' = [fwd EXCEPT ![g] = "asking"]
      BY <2>2 DEF TransportAsks
    <3>2. /\ In(pending', f) = P /\ At(queue', "Withdrawn", f) = W
          /\ At(queue', "Pending", f) = A \cup (IF g = f THEN {n} ELSE {})
      BY <1>3, <3>1
    <3>3. CASE g = f
      <4>1. A = {} /\ P = {} /\ W = {} /\ fwd'[f] = "asking"
        BY <1>1, <3>1, <3>3 DEF Accounted, TypeOK
      <4>2. Accounted("asking", {n}, {}, {})  BY DEF Accounted, AtMostOne
      <4> QED  BY <3>2, <3>3, <4>1, <4>2 DEF AccountedFor
    <3>4. CASE g # f
      BY <1>1, <3>1, <3>2, <3>4 DEF AccountedFor, TypeOK
    <3> QED  BY <3>3, <3>4
  <2>3. CASE TransportReturns(g)
    <3>1. /\ queue' = queue /\ pending' = pending
          /\ fwd[g] \in {"settled", "Proceed", "Cancel"}
          /\ \E st \in {"up", "gaveup"} : fwd' = [fwd EXCEPT ![g] = st]
      BY <2>3 DEF TransportReturns
    <3>2. \/ fwd'[f] = fwd[f]
          \/ fwd'[f] \in {"up", "gaveup"} /\ fwd[f] \in {"settled", "Proceed", "Cancel"}
      BY <1>1, <3>1 DEF TypeOK
    <3> QED  BY <1>2, <3>1, <3>2
  <2>4. CASE TransportDropped(g)
    <3>1. fwd' = [fwd EXCEPT ![g] = "gone"] /\ pending' = pending /\ fwd[g] # "gone"
      BY <2>4 DEF TransportDropped
    <3>2. CASE g # f
      <4>1. fwd'[f] = fwd[f]  BY <1>1, <3>1, <3>2 DEF TypeOK
      <4>2. CASE Send("Withdrawn", g)
        <5>1. /\ In(pending', f) = P /\ At(queue', "Withdrawn", f) = W
              /\ At(queue', "Pending", f) = A
          BY <1>3, <3>1, <3>2, <4>2
        <5> QED  BY <1>1, <4>1, <5>1 DEF AccountedFor
      <4>3. CASE queue' = queue  BY <1>2, <3>1, <4>1, <4>3
      <4> QED  BY <2>4, <4>2, <4>3 DEF TransportDropped
    <3>3. CASE g = f
      <4>1. fwd'[f] = "gone" /\ W = {}
        BY <1>1, <3>1, <3>3 DEF TypeOK, Accounted
      <4>2. CASE fwd[f] \in Asked
        <5>1. Send("Withdrawn", f)  BY <2>4, <3>3, <4>2 DEF TransportDropped
        <5>2. /\ In(pending', f) = P /\ At(queue', "Withdrawn", f) = {n}
              /\ At(queue', "Pending", f) = A
          BY <1>3, <3>1, <4>1, <5>1
        <5>3. Accounted("gone", A, P, {n})
          <6> HIDE DEF A, P, W, n
          <6> QED  BY <1>1 DEF Accounted
        <5> QED  BY <4>1, <5>2, <5>3 DEF AccountedFor
      <4>3. CASE fwd[f] \notin Asked
        <5>1. queue' = queue  BY <2>4, <3>3, <4>3 DEF TransportDropped
        <5>2. A = {} /\ P = {}  BY <1>1, <3>1, <3>3, <4>3 DEF Accounted, Asked
        <5>3. Accounted("gone", A, P, W)
          BY <4>1, <5>2 DEF Accounted, AtMostOne
        <5> QED  BY <3>1, <4>1, <5>1, <5>3 DEF AccountedFor
      <4> QED  BY <4>2, <4>3
    <3> QED  BY <3>2, <3>3
  <2> QED  BY <1>6, <2>1, <2>2, <2>3, <2>4 DEF Transport
<1>7. CASE UNCHANGED vars  BY <1>2, <1>7 DEF vars
<1> QED  BY <1>4, <1>5, <1>6, <1>7

-----------------------------------------------------------------------------
(* Connections and the forward they hold.                                     *)

\* A connection changes, and its forward with it or not at all.
LEMMA HeldKeeps ==
  ASSUME IInv, Next \/ UNCHANGED vars
  PROVE  (TypeOK /\ HeldOK /\ ConfirmedFirst)'
<1>1. TypeOK /\ HeldOK /\ ConfirmedFirst  BY DEF IInv
<1>2. \A c \in Contexts : conn[c] \in Connection  BY <1>1 DEF TypeOK
<1>3. ASSUME NEW c \in Contexts, Acquire(c)  PROVE (TypeOK /\ HeldOK /\ ConfirmedFirst)'
  <2>1. PICK g \in Acquired :
          /\ conn' = [conn EXCEPT ![c] = [st |-> "waiting", fwd |-> g]]
          /\ fwd' = [fwd EXCEPT ![g] = IF @ = "gone" THEN "starting" ELSE @]
          /\ IF fwd[g] = "up" THEN UNCHANGED <<pending, waiting>> ELSE NoteWaiting(c)
    BY <1>3 DEF Acquire
  <2>2. g \in Forwards /\ queue' = queue  BY <1>3, <2>1 DEF Acquired, Acquire
  <2>3. conn' \in [Contexts -> Connection]
    BY <1>1, <2>1, <2>2 DEF TypeOK, Connection, Holding
  <2>4. fwd' \in [Forwards -> Forward]
    BY <1>1, <2>1, <2>2 DEF TypeOK, Forward
  <2>5. pending' \in Seq(Prompt) /\ waiting' \subseteq Contexts
    <3>1. CASE UNCHANGED <<pending, waiting>>  BY <1>1, <3>1 DEF TypeOK
    <3>2. CASE NoteWaiting(c)
      <4>1. waiting' \subseteq Contexts  BY <1>1, <3>2 DEF NoteWaiting, TypeOK
      <4>2. pending = <<>> => pending' = <<>>  BY <3>2 DEF NoteWaiting
      <4>4. <<>> \in Seq(Prompt)  OBVIOUS
      <4>3. ASSUME pending # <<>>  PROVE pending' \in Seq(Prompt)
        <5>1. 1 \in DOMAIN pending /\ pending[1] \in Prompt
          BY <1>1, <4>3 DEF TypeOK
        <5> DEFINE x == [pending[1] EXCEPT !.contexts = @ \cup {c}]
        <5>2. x \in Prompt  BY <5>1 DEF Prompt
        <5>3. pending' = [pending EXCEPT ![1] = x]
          BY <1>1, <3>2, <5>1 DEF NoteWaiting, TypeOK
        <5>4. pending \in Seq(Prompt) /\ 1 \in 1..Len(pending)
          BY <1>1, <5>1 DEF TypeOK
        <5> HIDE DEF x
        <5>5. [pending EXCEPT ![1] = x] \in Seq(Prompt)  BY <5>2, <5>4, ExceptSeq
        <5> QED  BY <5>3, <5>5
      <4> QED  BY <4>1, <4>2, <4>3, <4>4
    <3> QED  BY <2>1, <3>1, <3>2
  <2>6. /\ \A d \in Contexts \ {c} : conn'[d] = conn[d] /\ conn[d].fwd \in {g, None}
        /\ conn'[c].fwd = g /\ conn'[c].st = "waiting" /\ fwd'[g] # "gone"
        /\ \A h \in Forwards \ {g} : fwd'[h] = fwd[h]
        /\ fwd[g] = "up" => fwd'[g] = "up"
    <3>1. \A d \in Contexts \ {c} : conn[d].fwd \in {g, None}
      <4> SUFFICES ASSUME NEW d \in Contexts \ {c}, conn[d].fwd # None
                   PROVE  conn[d].fwd = g
        OBVIOUS
      <4>1. conn[d].fwd \in Forwards /\ Held(conn[d].fwd)
        BY <1>2 DEF Held, Connection
      <4>2. Held(g)  BY <2>1, <4>1 DEF Acquired
      <4> QED  BY <1>1, <2>2, <4>2, NoneAssumption DEF Held, HeldOK
    <3> QED  BY <1>1, <2>1, <2>2, <3>1 DEF TypeOK
  <2>7. HeldOK'
    BY <1>1, <2>2, <2>6, NoneAssumption DEF HeldOK
  <2>8. ConfirmedFirst'
    <3> SUFFICES ASSUME NEW d \in Contexts,
                        conn'[d].st \in {"probing", "answered", "Connected"}
                 PROVE  fwd'[conn'[d].fwd] = "up"
      BY DEF ConfirmedFirst
    <3>1. d # c /\ conn'[d] = conn[d]  BY <2>6
    <3>2. conn[d].fwd \in Forwards /\ fwd[conn[d].fwd] = "up"
      BY <1>1, <1>2, <3>1 DEF ConfirmedFirst, Connection, Idle
    <3> QED  BY <2>6, <3>1, <3>2
  <2> QED  BY <1>1, <2>2, <2>3, <2>4, <2>5, <2>7, <2>8 DEF TypeOK
<1>4. ASSUME NEW c \in Contexts, Close(c) \/ Connects(c)
      PROVE  (TypeOK /\ HeldOK /\ ConfirmedFirst)'
  <2>1. UNCHANGED <<fwd, queue, pending, waiting>>
    BY <1>4 DEF Close, Connects, WaitEnds, ProbeEnds, Drained
  <2> DEFINE Fits(v) ==
               /\ v \in Connection /\ v.fwd \in {conn[c].fwd, None}
               /\ v.st \in {"probing", "answered", "Connected"}
                    => fwd[conn[c].fwd] = "up" /\ v.fwd = conn[c].fwd
             Moved(st) == [st |-> st, fwd |-> conn[c].fwd]
  \* A connection that moves on keeps the forward it holds.
  <2>a. ASSUME NEW st \in Holding, conn[c].st \in Holding, conn' = [conn EXCEPT ![c].st = st],
               st \in {"probing", "answered", "Connected"} => fwd[conn[c].fwd] = "up"
        PROVE  \E v : conn' = [conn EXCEPT ![c] = v] /\ Fits(v)
    <3>1. conn[c] \in [st : Holding, fwd : Forwards]
      BY <1>2, <2>a DEF Connection, Idle, Holding
    <3>2. [conn[c] EXCEPT !.st = st] = Moved(st)  BY <3>1
    <3>3. conn' = [conn EXCEPT ![c] = Moved(st)]  BY <1>1, <2>a, <3>2 DEF TypeOK
    <3>4. Fits(Moved(st))  BY <2>a, <3>1 DEF Connection
    <3> QED  BY <3>3, <3>4
  \* A connection that ends lets the forward go.
  <2>b. ASSUME NEW st \in Idle, conn' = [conn EXCEPT ![c] = [st |-> st, fwd |-> None]]
        PROVE  \E v : conn' = [conn EXCEPT ![c] = v] /\ Fits(v)
    <3>1. Fits([st |-> st, fwd |-> None])  BY DEF Connection, Idle
    <3> QED  BY <2>b, <3>1
  <2>2. PICK v : conn' = [conn EXCEPT ![c] = v] /\ Fits(v)
    <3> HIDE DEF Fits
    <3>1. CASE Close(c)
      <4>1. "none" \in Idle  BY DEF Idle
      <4> QED  BY <2>b, <3>1, <4>1 DEF Close
    <3>2. CASE WaitEnds(c)
      <4>1. conn[c].st \in Holding  BY <3>2 DEF WaitEnds, Holding
      <4>2. "probing" \in Holding /\ "refused" \in Holding  BY DEF Holding
      <4>3. CASE fwd[conn[c].fwd] = "up" /\ conn' = [conn EXCEPT ![c].st = "probing"]
        BY <2>a, <4>1, <4>2, <4>3
      <4>4. CASE conn' = [conn EXCEPT ![c].st = "refused"]
        BY <2>a, <4>1, <4>2, <4>4
      <4> QED  BY <3>2, <4>3, <4>4 DEF WaitEnds
    <3>3. CASE ProbeEnds(c)
      <4>1. conn[c].st \in Holding /\ fwd[conn[c].fwd] = "up"
        BY <1>1, <3>3 DEF ProbeEnds, Holding, ConfirmedFirst
      <4>2. PICK st \in {"answered", "refused"} : conn' = [conn EXCEPT ![c].st = st]
        BY <3>3 DEF ProbeEnds
      <4>3. st \in Holding  BY DEF Holding
      <4> QED  BY <2>a, <4>1, <4>2, <4>3
    <3>4. CASE Drained(c)
      <4>1. CASE conn[c].st = "answered" /\ conn' = [conn EXCEPT ![c].st = "Connected"]
        <5>1. conn[c].st \in Holding /\ fwd[conn[c].fwd] = "up" /\ "Connected" \in Holding
          BY <1>1, <4>1 DEF Holding, ConfirmedFirst
        <5> QED  BY <2>a, <4>1, <5>1
      <4>2. CASE conn' = [conn EXCEPT ![c] = [st |-> "Failed", fwd |-> None]]
        <5>1. "Failed" \in Idle  BY DEF Idle
        <5> QED  BY <2>b, <4>2, <5>1
      <4> QED  BY <3>4, <4>1, <4>2 DEF Drained
    <3> QED  BY <1>4, <3>1, <3>2, <3>3, <3>4 DEF Connects
  <2>3. /\ v \in Connection /\ v.fwd \in {conn[c].fwd, None}
        /\ v.st \in {"probing", "answered", "Connected"}
             => fwd[conn[c].fwd] = "up" /\ v.fwd = conn[c].fwd
        /\ conn'[c] = v /\ \A d \in Contexts \ {c} : conn'[d] = conn[d]
    BY <1>1, <2>2 DEF TypeOK
  <2>4. TypeOK'  BY <1>1, <2>1, <2>2, <2>3 DEF TypeOK
  <2> HIDE DEF Fits, Moved
  <2>5. HeldOK'  BY <1>1, <2>1, <2>3 DEF HeldOK
  <2>6. ConfirmedFirst'  BY <1>1, <2>1, <2>3 DEF ConfirmedFirst
  <2> QED  BY <2>4, <2>5, <2>6
\* Without a change to the connections, a held forward does not go, and is up for good.
<1>5. ASSUME conn' = conn,
             \A f \in Forwards : Held(f) => /\ fwd'[f] = "gone" => fwd[f] = "gone"
                                            /\ fwd[f] = "up" => fwd'[f] = "up"
      PROVE  (HeldOK /\ ConfirmedFirst)'
  <2>1. \A c \in Contexts : conn[c].fwd # None => conn[c].fwd \in Forwards /\ Held(conn[c].fwd)
    BY <1>2 DEF Connection, Held
  <2>2. HeldOK'  BY <1>1, <1>5, <2>1 DEF HeldOK
  <2>3. \A c \in Contexts : conn[c].st \in {"probing", "answered", "Connected"} => conn[c].fwd # None
    BY <1>2, NoneAssumption DEF Connection, Idle
  <2>4. ConfirmedFirst'  BY <1>1, <1>5, <2>1, <2>3 DEF ConfirmedFirst
  <2> QED  BY <2>2, <2>4
<1>6. ASSUME NEW decision \in {"Proceed", "Cancel"}, Resolve(decision)
      PROVE  (TypeOK /\ HeldOK /\ ConfirmedFirst)'
  <2>1. /\ pending # <<>> /\ pending' = Tail(pending) /\ waiting' = {}
        /\ conn' = conn /\ queue' = queue
        /\ fwd' = [fwd EXCEPT ![Head(pending).f] = IF @ = "asking" THEN decision ELSE @]
    BY <1>6 DEF Resolve
  <2>2. Head(pending).f \in Forwards /\ pending' \in Seq(Prompt)
    <3>1. pending \in Seq(Prompt)  BY <1>1 DEF TypeOK
    <3>2. Head(pending) \in Prompt /\ Tail(pending) \in Seq(Prompt)
      BY <2>1, <3>1, HeadTailProperties
    <3> QED  BY <2>1, <3>2 DEF Prompt
  <2>3. TypeOK'  BY <1>1, <2>1, <2>2 DEF TypeOK, Forward, Asked
  <2>4. \A f \in Forwards : fwd'[f] = fwd[f] \/ (fwd[f] = "asking" /\ fwd'[f] = decision)
    BY <1>1, <2>1, <2>2 DEF TypeOK
  <2> QED  BY <1>5, <2>1, <2>3, <2>4
<1>7. ASSUME Applies  PROVE (TypeOK /\ HeldOK /\ ConfirmedFirst)'
  <2>1. conn' = conn /\ fwd' = fwd /\ queue # <<>> /\ queue' = Tail(queue)
    BY <1>7 DEF Applies, ApplyPending, ApplySettled, ApplyWithdrawn
  <2>2. queue' \in Seq(Event) /\ Head(queue) \in Event
    <3>1. queue \in Seq(Event)  BY <1>1 DEF TypeOK
    <3> QED  BY <2>1, <3>1, HeadTailProperties
  <2>3. pending' \in Seq(Prompt) /\ waiting' \subseteq Contexts
    <3>1. CASE ApplyPending
      <4>1. [f |-> Head(queue).f, contexts |-> waiting] \in Prompt
        BY <1>1, <2>2 DEF TypeOK, Prompt, Event
      <4> QED  BY <1>1, <3>1, <4>1, AppendProperties DEF ApplyPending, TypeOK
    <3>2. CASE ApplySettled  BY <1>1, <3>2 DEF ApplySettled, TypeOK
    <3>3. CASE ApplyWithdrawn
      <4>1. \A i \in Prompts(Head(queue).f) : RemoveAt(pending, i) \in Seq(Prompt)
        BY <1>1, InRemoved DEF Prompts, TypeOK
      <4> QED  BY <1>1, <3>3, <4>1 DEF ApplyWithdrawn, TypeOK
    <3> QED  BY <1>7, <3>1, <3>2, <3>3 DEF Applies
  <2>4. TypeOK'  BY <1>1, <2>1, <2>2, <2>3 DEF TypeOK
  <2> QED  BY <1>5, <2>1, <2>4
<1>8. ASSUME NEW g \in Forwards, Transport(g)
      PROVE  (TypeOK /\ HeldOK /\ ConfirmedFirst)'
  <2>1. UNCHANGED <<conn, pending, waiting>>
    BY <1>8 DEF Transport, TransportReachable, TransportAsks, TransportReturns, TransportDropped
  <2>2. PICK st \in Forward : /\ fwd' = [fwd EXCEPT ![g] = st]
                              /\ fwd[g] # "up" \/ ~Held(g)
                              /\ st = "gone" => ~Held(g)
    BY <1>8 DEF Transport, TransportReachable, TransportAsks, TransportReturns,
                TransportDropped, Forward, Asked
  <2>3. queue' \in Seq(Event)
    <3>1. \A kind \in {"Pending", "Withdrawn", "Settled"} :
            Append(queue, [kind |-> kind, f |-> g]) \in Seq(Event)
      BY <1>1, AppendProperties DEF Event, TypeOK
    <3> QED
      BY <1>1, <1>8, <3>1 DEF Transport, TransportReachable, TransportAsks,
         TransportReturns, TransportDropped, Send, TypeOK
  <2>4. TypeOK'  BY <1>1, <2>1, <2>2, <2>3 DEF TypeOK
  <2>5. \A f \in Forwards : fwd'[f] = IF f = g THEN st ELSE fwd[f]
    BY <1>1, <2>2 DEF TypeOK
  <2> QED  BY <1>5, <2>1, <2>2, <2>4, <2>5
<1>9. CASE UNCHANGED vars
  BY <1>1, <1>9 DEF vars, TypeOK, HeldOK, ConfirmedFirst
<1> QED  BY <1>3, <1>4, <1>6, <1>7, <1>8, <1>9 DEF Next

-----------------------------------------------------------------------------
(* The invariant and what it says.                                            *)

LEMMA InitIInv == Init => IInv
<1> SUFFICES ASSUME Init PROVE IInv
  OBVIOUS
<1>1. TypeOK
  BY DEF Init, TypeOK, Connection, Idle, Forward
<1>2. HeldOK /\ ConfirmedFirst
  BY DEF Init, HeldOK, ConfirmedFirst
<1>3. ASSUME NEW f \in Forwards  PROVE AccountedFor(f)
  <2>1. \A kind : At(queue, kind, f) = {}  BY DEF Init, At
  <2>2. In(pending, f) = {}  BY DEF Init, In
  <2>3. Accounted("gone", {}, {}, {})  BY DEF Accounted, AtMostOne
  <2>4. fwd[f] = "gone"  BY DEF Init
  <2> QED  BY <2>1, <2>2, <2>3, <2>4 DEF AccountedFor
<1> QED  BY <1>1, <1>2, <1>3 DEF IInv

LEMMA NextIInv == IInv /\ [Next]_vars => IInv'
<1> SUFFICES ASSUME IInv, [Next]_vars PROVE IInv'
  OBVIOUS
<1>1. (TypeOK /\ HeldOK /\ ConfirmedFirst)'  BY HeldKeeps
<1>2. ASSUME NEW f \in Forwards  PROVE AccountedFor(f)'
  <2>1. CASE \/ \E decision \in {"Proceed", "Cancel"} : Resolve(decision)
             \/ Applies
    BY <2>1, MainThreadAccounts
  <2>2. CASE \/ \E c \in Contexts : Acquire(c) \/ Close(c) \/ Connects(c)
             \/ \E g \in Forwards : Transport(g)
             \/ UNCHANGED vars
    BY <2>2, OthersAccount
  <2> QED  BY <2>1, <2>2 DEF Next
<1> QED  BY <1>1, <1>2 DEF IInv

LEMMA SpecIInv == Spec => []IInv
BY InitIInv, NextIInv, PTL DEF Spec

LEMMA AtMostOneCounts ==
  ASSUME NEW S, AtMostOne(S)
  PROVE  Cardinality(S) = IF S = {} THEN 0 ELSE 1
<1>1. CASE S = {}  BY <1>1, FS_EmptySet
<1>2. CASE S # {}
  <2>1. PICK i \in S : S = {i}  BY <1>2 DEF AtMostOne
  <2> QED  BY <1>2, <2>1, FS_Singleton
<1> QED  BY <1>1, <1>2

LEMMA AccountsAreSound == IInv => PromptsAreSound
<1> SUFFICES ASSUME IInv PROVE PromptsAreSound
  OBVIOUS
<1>1. ASSUME NEW f \in Forwards
      PROVE  Accounted(fwd[f], Queued("Pending", f), Prompts(f), Queued("Withdrawn", f))
  BY <1>1 DEF IInv, AccountedFor, At, In, Queued, Prompts
<1>2. PromptNotLost
  <2> SUFFICES ASSUME NEW f \in Forwards
               PROVE  LET places == Cardinality(Queued("Pending", f)) + Cardinality(Prompts(f))
                      IN /\ places <= 1
                         /\ fwd[f] = "asking" => places = 1
                         /\ places = 1 => fwd[f] \in {"asking", "gone"}
    BY DEF PromptNotLost
  <2> DEFINE A == Queued("Pending", f)
             P == Prompts(f)
             W == Queued("Withdrawn", f)
  <2>1. Accounted(fwd[f], A, P, W)  BY <1>1
  <2>2. AtMostOne(A) /\ AtMostOne(P)  BY <2>1 DEF Accounted
  <2>3. Cardinality(A) = IF A = {} THEN 0 ELSE 1  BY <2>2, AtMostOneCounts
  <2>4. Cardinality(P) = IF P = {} THEN 0 ELSE 1  BY <2>2, AtMostOneCounts
  <2> HIDE DEF A, P, W
  <2>5. /\ A = {} \/ P = {}
        /\ fwd[f] = "asking" => A # {} \/ P # {}
        /\ A # {} \/ P # {} => fwd[f] \in {"asking", "gone"}
    BY <2>1 DEF Accounted
  <2>6. /\ Cardinality(A) + Cardinality(P) <= 1
        /\ fwd[f] = "asking" => Cardinality(A) + Cardinality(P) = 1
        /\ Cardinality(A) + Cardinality(P) = 1 => fwd[f] \in {"asking", "gone"}
    BY <2>3, <2>4, <2>5
  <2> QED  BY <2>6 DEF A, P
<1>3. PromptHasItsWithdrawal
  BY <1>1 DEF PromptHasItsWithdrawal, Accounted
<1> QED  BY <1>2, <1>3 DEF PromptsAreSound, IInv

\* Types of the connections and the forwards they hold, of the transports' events
\* and of the prompts, for any contexts and attempts (tunnel/manual).
THEOREM SpecTypeOK == Spec => []TypeOK
<1>1. IInv => TypeOK  BY DEF IInv
<1> QED  BY <1>1, SpecIInv, PTL

\* A confirmation a transport asks for is in front of the user exactly once, and
\* one whose transport is dropped has its withdrawal behind it: no order in which
\* the main thread applies the events, the user answers and the tasks run loses a
\* prompt or leaves one behind (ManualConfirmations::apply, Drop for
\* ManualTransport).
THEOREM SpecPromptsAreSound == Spec => []PromptsAreSound
BY SpecIInv, AccountsAreSound, PTL

\* A context only probes its API server and connects over a forward that was
\* confirmed (connect_outcome, the connect task's wait for the forward).
THEOREM SpecConfirmedFirst == Spec => []ConfirmedFirst
<1>1. IInv => ConfirmedFirst  BY DEF IInv
<1> QED  BY <1>1, SpecIInv, PTL

LEMMA LoneRetryIsFresh ==
  ASSUME IInv, Next \/ UNCHANGED vars, NEW c \in Contexts, RetriesFrom(c),
         \A d \in Contexts \ {c} : conn[d].fwd = None
  PROVE  fwd[conn'[c].fwd] = "gone"
<1>1. conn \in [Contexts -> Connection] /\ conn[c].st = "Failed" /\ conn'[c].st = "waiting"
  BY DEF IInv, TypeOK, RetriesFrom
<1>2. conn[c].fwd = None
  <2>1. conn[c] \in Connection  BY <1>1
  <2> QED  BY <1>1, <2>1 DEF Connection, Holding
<1>3. \A f \in Forwards : ~Held(f)  BY <1>2, NoneAssumption DEF Held
<1>4. conn' # conn  BY <1>1
<1>5. PICK d \in Contexts : Acquire(d) \/ Close(d) \/ Connects(d)
  BY <1>4 DEF Next, vars, Resolve, Applies, ApplyPending, ApplySettled, ApplyWithdrawn,
     Transport, TransportReachable, TransportAsks, TransportReturns, TransportDropped
<1>6. CASE Acquire(d)
  <2>1. PICK g \in Acquired : conn' = [conn EXCEPT ![d] = [st |-> "waiting", fwd |-> g]]
    BY <1>6 DEF Acquire
  <2>2. d = c  BY <1>1, <2>1
  <2>3. fwd[g] = "gone"  BY <1>3, <2>1 DEF Acquired, Fresh
  <2> QED  BY <1>1, <2>1, <2>2, <2>3
<1>7. CASE Close(d)  BY <1>1, <1>7 DEF Close
<1>8. CASE Connects(d)
  <2>1. d # c  BY <1>1, <1>8 DEF Connects, WaitEnds, ProbeEnds, Drained
  <2>2. conn'[c] = conn[c]
    BY <1>1, <1>8, <2>1 DEF Connects, WaitEnds, ProbeEnds, Drained
  <2> QED  BY <1>1, <2>2
<1> QED  BY <1>5, <1>6, <1>7, <1>8

\* Connecting again after a failure asks the user again, with a new forward,
\* whatever is left of the attempts before: unless another context bound to the
\* tunnel holds its forward (ForwardRegistry::acquire).
THEOREM SpecLoneRetryPromptsAgain == Spec => LoneRetryPromptsAgain
<1>1. IInv /\ [Next]_vars
        => [\A c \in Contexts :
              RetriesFrom(c) /\ (\A d \in Contexts \ {c} : conn[d].fwd = None)
                => fwd[conn'[c].fwd] = "gone"]_vars
  BY LoneRetryIsFresh
<1> QED  BY <1>1, SpecIInv, PTL DEF Spec, LoneRetryPromptsAgain

-----------------------------------------------------------------------------
(* The refinement of SharedForward.                                           *)

\* What a forward shows those who hold it.
ShownOf(st) ==
  CASE st = "up" -> "Up" [] st = "gaveup" -> "Ended" [] OTHER -> "Connecting"

\* Among contexts that agree on a forward, it does not matter which is asked.
LEMMA AnyHolder ==
  ASSUME NEW H, NEW S, NEW c \in S, \A d, e \in S : H[d].fwd = H[e].fwd
  PROVE  H[CHOOSE d \in S : TRUE].fwd = H[c].fwd
  OBVIOUS

\* What the contexts see is what the forward of any of them shows.
LEMMA HolderState ==
  ASSUME HeldOK, NEW c \in Contexts, conn[c].fwd # None
  PROVE  StateNow = ShownOf(fwd[conn[c].fwd])
<1>1. c \in UsersNow  BY DEF UsersNow
<1>2. \A d, e \in UsersNow : conn[d].fwd = conn[e].fwd  BY DEF UsersNow, HeldOK
<1>3. conn[CHOOSE d \in UsersNow : TRUE].fwd = conn[c].fwd  BY <1>1, <1>2, AnyHolder
<1> QED  BY <1>1, <1>3 DEF StateNow, ShownOf

LEMMA HolderStateNext ==
  ASSUME HeldOK', NEW c \in Contexts, conn'[c].fwd # None
  PROVE  StateNow' = ShownOf(fwd'[conn'[c].fwd])
<1>1. c \in UsersNow'  BY DEF UsersNow
<1>2. \A d, e \in UsersNow' : conn'[d].fwd = conn'[e].fwd  BY DEF UsersNow, HeldOK
<1>3. conn'[CHOOSE d \in UsersNow' : TRUE].fwd = conn'[c].fwd  BY <1>1, <1>2, AnyHolder
<1> QED  BY <1>1, <1>3 DEF StateNow, ShownOf

\* The contexts that use the tunnel stay the same, as does what they see.
LEMMA SameUsersSameState ==
  ASSUME HeldOK, HeldOK', UsersNow' = UsersNow,
         \A c \in UsersNow : ShownOf(fwd'[conn'[c].fwd]) = ShownOf(fwd[conn[c].fwd])
  PROVE  StateNow' = StateNow
<1>1. CASE UsersNow = {}  BY <1>1 DEF StateNow
<1>2. CASE UsersNow # {}
  <2>1. PICK c \in UsersNow : TRUE  BY <1>2
  <2>2. c \in Contexts /\ conn[c].fwd # None /\ conn'[c].fwd # None
    BY <2>1 DEF UsersNow
  <2> QED  BY <2>1, <2>2, HolderState, HolderStateNext
<1> QED  BY <1>1, <1>2

LEMMA Stutters ==
  ASSUME HeldOK, HeldOK', \A c \in Contexts : conn'[c].fwd = conn[c].fwd,
         \A c \in UsersNow : ShownOf(fwd'[conn[c].fwd]) = ShownOf(fwd[conn[c].fwd])
  PROVE  UNCHANGED Shared!sharedVars
<1>1. UsersNow' = UsersNow  BY DEF UsersNow
<1>2. \A c \in UsersNow : ShownOf(fwd'[conn'[c].fwd]) = ShownOf(fwd[conn[c].fwd])
  BY DEF UsersNow
<1>3. StateNow' = StateNow  BY <1>1, <1>2, SameUsersSameState
<1> QED  BY <1>1, <1>3 DEF Shared!sharedVars

\* A connection that starts joins the tunnel's forward, or starts one.
LEMMA AcquireJoins ==
  ASSUME IInv, IInv', NEW c \in Contexts, Acquire(c)
  PROVE  Shared!Join(c)
<1>1. TypeOK /\ HeldOK /\ HeldOK'  BY DEF IInv
<1>2. PICK g \in Acquired :
        /\ conn' = [conn EXCEPT ![c] = [st |-> "waiting", fwd |-> g]]
        /\ fwd' = [fwd EXCEPT ![g] = IF @ = "gone" THEN "starting" ELSE @]
  BY DEF Acquire
<1>3. g \in Forwards /\ g # None  BY <1>2, NoneAssumption DEF Acquired
<1>4. conn[c].fwd = None
  <2>1. conn[c] \in Connection /\ conn[c].st \in Idle  BY <1>1 DEF TypeOK, Acquire
  <2> QED  BY <2>1 DEF Connection, Idle, Holding
<1>5. conn'[c].fwd = g /\ \A d \in Contexts \ {c} : conn'[d] = conn[d]
  BY <1>1, <1>2 DEF TypeOK
<1>6. UsersNow' = UsersNow \cup {c} /\ c \notin UsersNow
  BY <1>3, <1>4, <1>5 DEF UsersNow
<1>7. StateNow' = ShownOf(fwd'[g])  BY <1>1, <1>3, <1>5, HolderStateNext
<1>8. StateNow' = IF StateNow = "Closed" THEN "Connecting" ELSE StateNow
  <2>1. CASE \E f \in Forwards : Held(f)
    <3>1. PICK d \in Contexts : conn[d].fwd = g  BY <1>2, <2>1 DEF Acquired, Held
    <3>2. StateNow = ShownOf(fwd[g])  BY <1>1, <1>3, <3>1, HolderState
    <3>3. fwd[g] # "gone"  BY <1>1, <1>3, <3>1 DEF HeldOK
    <3>4. fwd'[g] = fwd[g]  BY <1>1, <1>2, <1>3, <3>3 DEF TypeOK
    <3>5. ShownOf(fwd[g]) # "Closed"  BY DEF ShownOf
    <3> QED  BY <1>7, <3>2, <3>4, <3>5
  <2>2. CASE ~\E f \in Forwards : Held(f)
    <3>1. fwd[g] = "gone"  BY <1>2, <2>2 DEF Acquired, Fresh
    <3>2. fwd'[g] = "starting"  BY <1>1, <1>2, <1>3, <3>1 DEF TypeOK
    <3>3. UsersNow = {}
      <4>1. \A d \in Contexts : conn[d].fwd \in Forwards \cup {None}
        BY <1>1 DEF TypeOK, Connection
      <4> QED  BY <2>2, <4>1 DEF UsersNow, Held
    <3>4. StateNow = "Closed"  BY <3>3 DEF StateNow
    <3>5. ShownOf("starting") = "Connecting"  BY DEF ShownOf
    <3> QED  BY <1>7, <3>2, <3>4, <3>5
  <2> QED  BY <2>1, <2>2
<1> QED  BY <1>6, <1>8 DEF Shared!Join

\* A connection that ends leaves it, and the last one closes it.
LEMMA EndLeaves ==
  ASSUME IInv, IInv', NEW c \in Contexts, conn[c].fwd # None, fwd' = fwd,
         NEW st \in Idle, conn' = [conn EXCEPT ![c] = [st |-> st, fwd |-> None]]
  PROVE  Shared!Leave(c)
<1>1. TypeOK /\ HeldOK /\ HeldOK'  BY DEF IInv
<1>2. conn'[c].fwd = None /\ \A d \in Contexts \ {c} : conn'[d] = conn[d]
  BY <1>1 DEF TypeOK
<1>3. UsersNow' = UsersNow \ {c} /\ c \in UsersNow  BY <1>2 DEF UsersNow
<1>4. StateNow' = IF UsersNow = {c} THEN "Closed" ELSE StateNow
  <2>1. CASE UsersNow = {c}  BY <1>3, <2>1 DEF StateNow
  <2>2. CASE UsersNow # {c}
    <3>1. PICK d \in UsersNow : d # c  BY <1>3, <2>2
    <3>2. d \in Contexts /\ conn[d].fwd # None /\ conn'[d] = conn[d]
      BY <1>2, <3>1 DEF UsersNow
    <3>3. StateNow = ShownOf(fwd[conn[d].fwd])  BY <1>1, <3>2, HolderState
    <3>4. StateNow' = ShownOf(fwd'[conn'[d].fwd])  BY <1>1, <3>2, HolderStateNext
    <3> QED  BY <2>2, <3>2, <3>3, <3>4
  <2> QED  BY <2>1, <2>2
<1> QED  BY <1>3, <1>4 DEF Shared!Leave

\* A step of a connection is one of its forward's, or none.
LEMMA ConnectionImplements ==
  ASSUME IInv, IInv', NEW c \in Contexts, Acquire(c) \/ Close(c) \/ Connects(c)
  PROVE  [Shared!Next]_(Shared!sharedVars)
<1>1. TypeOK /\ HeldOK /\ HeldOK'  BY DEF IInv
<1>2. CASE Acquire(c)  BY <1>2, AcquireJoins DEF Shared!Next
<1>3. ASSUME fwd' = fwd, NEW st \in Idle,
             conn' = [conn EXCEPT ![c] = [st |-> st, fwd |-> None]]
      PROVE  [Shared!Next]_(Shared!sharedVars)
  <2>1. CASE conn[c].fwd # None
    <3>1. Shared!Leave(c)  BY <1>3, <2>1, EndLeaves
    <3> QED  BY <3>1 DEF Shared!Next
  <2>2. CASE conn[c].fwd = None
    <3>1. \A d \in Contexts : conn'[d].fwd = conn[d].fwd
      BY <1>1, <1>3, <2>2 DEF TypeOK
    <3> QED  BY <1>1, <1>3, <3>1, Stutters
  <2> QED  BY <2>1, <2>2
<1>4. ASSUME fwd' = fwd, NEW st, conn' = [conn EXCEPT ![c].st = st]
      PROVE  [Shared!Next]_(Shared!sharedVars)
  <2>1. \A d \in Contexts : conn[d] \in [st : Holding \cup Idle, fwd : Forwards \cup {None}]
    BY <1>1 DEF TypeOK, Connection
  <2>2. \A d \in Contexts : conn'[d].fwd = conn[d].fwd
    BY <1>1, <1>4, <2>1 DEF TypeOK
  <2> QED  BY <1>1, <1>4, <2>2, Stutters
<1>5. CASE Close(c)
  <2>1. "none" \in Idle  BY DEF Idle
  <2> QED  BY <1>3, <1>5, <2>1 DEF Close
<1>6. CASE Connects(c)
  <2>1. fwd' = fwd  BY <1>6 DEF Connects, WaitEnds, ProbeEnds, Drained
  <2>2. "Failed" \in Idle  BY DEF Idle
  <2>3. \/ \E st : conn' = [conn EXCEPT ![c].st = st]
        \/ conn' = [conn EXCEPT ![c] = [st |-> "Failed", fwd |-> None]]
    BY <1>6 DEF Connects, WaitEnds, ProbeEnds, Drained
  <2> QED  BY <1>3, <1>4, <2>1, <2>2, <2>3
<1> QED  BY <1>2, <1>5, <1>6

\* A step of a transport shows if somebody holds its forward.
LEMMA TransportImplements ==
  ASSUME IInv, IInv', NEW g \in Forwards, Transport(g)
  PROVE  [Shared!Next]_(Shared!sharedVars)
<1>1. TypeOK /\ HeldOK /\ HeldOK'  BY DEF IInv
<1>2. conn' = conn
  BY DEF Transport, TransportReachable, TransportAsks, TransportReturns, TransportDropped
<1>3. PICK st \in Forward :
        /\ fwd' = [fwd EXCEPT ![g] = st]
        /\ \/ ShownOf(st) = ShownOf(fwd[g])
           \/ ~Held(g)
           \/ ShownOf(fwd[g]) = "Connecting" /\ ShownOf(st) \in {"Up", "Ended"}
  BY DEF Transport, TransportReachable, TransportAsks, TransportReturns, TransportDropped,
         Forward, Asked, ShownOf
<1>4. \A f \in Forwards : fwd'[f] = IF f = g THEN st ELSE fwd[f]
  BY <1>1, <1>3 DEF TypeOK
<1>5. \A c \in UsersNow : conn[c].fwd \in Forwards
  BY <1>1 DEF UsersNow, TypeOK, Connection
<1>6. CASE ShownOf(st) = ShownOf(fwd[g]) \/ ~Held(g)
  <2>1. \A c \in UsersNow : ShownOf(fwd'[conn[c].fwd]) = ShownOf(fwd[conn[c].fwd])
    BY <1>4, <1>5, <1>6 DEF UsersNow, Held
  <2> QED  BY <1>1, <1>2, <2>1, Stutters
<1>7. CASE Held(g) /\ ShownOf(fwd[g]) = "Connecting" /\ ShownOf(st) \in {"Up", "Ended"}
  <2>1. PICK c \in Contexts : conn[c].fwd = g  BY <1>7 DEF Held
  <2>2. conn[c].fwd # None /\ conn'[c].fwd = g /\ g # None  BY <1>2, <2>1, NoneAssumption
  <2>3. StateNow = ShownOf(fwd[g])  BY <1>1, <2>1, <2>2, HolderState
  <2>4. StateNow' = ShownOf(fwd'[g])  BY <1>1, <2>2, HolderStateNext
  <2>5. StateNow = "Connecting" /\ StateNow' \in {"Up", "Ended"}
    BY <1>4, <1>7, <2>3, <2>4
  <2>6. UsersNow' = UsersNow  BY <1>2 DEF UsersNow
  <2>7. \E k \in {TheTunnel} : Shared!ComesUp(k) \/ Shared!GivesUp(k)
    BY <2>5, <2>6 DEF Shared!ComesUp, Shared!GivesUp, Shared!Shows
  <2> QED  BY <2>7 DEF Shared!Next
<1> QED  BY <1>3, <1>6, <1>7

LEMMA NextImplements ==
  ASSUME IInv, IInv', [Next]_vars
  PROVE  [Shared!Next]_(Shared!sharedVars)
<1>1. TypeOK /\ HeldOK /\ HeldOK'  BY DEF IInv
<1>2. ASSUME NEW decision \in {"Proceed", "Cancel"}, Resolve(decision)
      PROVE  [Shared!Next]_(Shared!sharedVars)
  <2>1. /\ conn' = conn
        /\ fwd' = [fwd EXCEPT ![Head(pending).f] = IF @ = "asking" THEN decision ELSE @]
    BY <1>2 DEF Resolve
  <2>2. \A f \in Forwards : \/ fwd'[f] = fwd[f]
                            \/ fwd[f] = "asking" /\ fwd'[f] \in {"Proceed", "Cancel"}
    BY <1>1, <2>1 DEF TypeOK
  <2>3. \A f \in Forwards : ShownOf(fwd'[f]) = ShownOf(fwd[f])
    <3> TAKE f \in Forwards
    <3>1. CASE fwd'[f] = fwd[f]  BY <3>1
    <3>2. CASE fwd[f] = "asking" /\ fwd'[f] \in {"Proceed", "Cancel"}
      BY <3>2 DEF ShownOf
    <3> QED  BY <2>2, <3>1, <3>2
  <2>4. \A c \in UsersNow : conn[c].fwd \in Forwards
    BY <1>1 DEF UsersNow, TypeOK, Connection
  <2> QED  BY <1>1, <2>1, <2>3, <2>4, Stutters
<1>3. CASE Applies \/ UNCHANGED vars
  <2>1. conn' = conn /\ fwd' = fwd
    BY <1>3 DEF vars, Applies, ApplyPending, ApplySettled, ApplyWithdrawn
  <2> QED  BY <1>1, <2>1, Stutters
<1> QED  BY <1>2, <1>3, ConnectionImplements, TransportImplements DEF Next

\* Whatever contexts are bound to the tunnel, and however many attempts overlap
\* with ones still being torn down: to the contexts it is one shared forward,
\* which comes up once and which a Cancel ends for all of them (tunnel/manual on
\* forward/managed).
THEOREM SpecImplementsShared == Spec => ImplementsSharedForward
<1>1. Init => Shared!Init
  <2>1. Init => UsersNow = {}  BY DEF Init, UsersNow
  <2>2. Init => StateNow = "Closed"  BY <2>1 DEF StateNow
  <2> QED  BY <2>1, <2>2 DEF Shared!Init
<1>2. IInv /\ IInv' /\ [Next]_vars => [Shared!Next]_(Shared!sharedVars)
  BY NextImplements
<1> QED
  BY <1>1, <1>2, InitIInv, NextIInv, PTL DEF Spec, ImplementsSharedForward, Shared!Spec

-----------------------------------------------------------------------------
(* The gate of an agent's actions.                                           *)

ShownBy(ds) == {ds[i] : i \in DOMAIN ds}

\* A job that opens a question is for a call that waits for it, or is over; one
\* that withdraws it is for a call that is over.
JobOK(j, k, S) ==
  /\ j.do = "open" => k[j.for] \in {"opening"} \cup Over /\ j.for \notin S
  /\ j.do = "withdraw" => k[j.for] \in Over

\* What binds the jobs js to the calls' states k and the questions S that are shown:
\* no question is opened twice, none behind the one that is waited for, and none
\* once that one is shown.
JobsOK(js, k, S) ==
  /\ \A i \in DOMAIN js : JobOK(js[i], k, S)
  /\ \A i, j \in DOMAIN js : js[i].do = "open" /\ js[j] = js[i] => i = j
  /\ \A i, j \in DOMAIN js :
       js[i].do = "open" /\ js[j].do = "open" /\ k[js[j].for] = "opening" => i <= j
  /\ (\E c \in Calls : k[c] \in {"shown", "asked"}) => \A i \in DOMAIN js : js[i].do # "open"

\* A question that is shown was asked for, and is shown once.
DialogsOK(ds, k) ==
  /\ \A c \in Calls :
       c \in ShownBy(ds) => k[c] \in {"shown", "asked", "writing"} \cup Over
  /\ \A i, j \in DOMAIN ds : ds[i] \in Calls /\ ds[i] = ds[j] => i = j

\* The question q taken to be open is shown, unless its window w is not the one
\* it was opened in (in), and no other question is above it.
TrackOK(ds, q, in, w) ==
  /\ \A c \in Calls : in[c] <= w
  /\ q \in Calls /\ in[q] = w => q \in ShownBy(ds)
  /\ q \in Calls => \A i, j \in DOMAIN ds : ds[i] = q /\ i < j => ds[j] \notin Calls

GateInv ==
  /\ OneQuestionIsOpen
  /\ JobsOK(jobs, call, ShownBy(dialogs))
  /\ DialogsOK(dialogs, call)
  /\ TrackOK(dialogs, open_question, shown_in, window)

\* From k to l no call comes to wait for its question, or to be asked, and none
\* that is over resumes.
GoesOn(k, l) ==
  \A c \in Calls :
    /\ k[c] = "opening" => l[c] \in {"opening"} \cup Over
    /\ k[c] \in Over => l[c] \in Over
    /\ k[c] \in {"shown", "asked", "writing"} =>
         l[c] \in {"shown", "asked", "writing"} \cup Over
    /\ l[c] = "opening" => k[c] = "opening"
    /\ l[c] \in {"shown", "asked"} => k[c] \in {"shown", "asked"}

LEMMA JobsGoOn ==
  ASSUME NEW js \in Seq(Job), NEW k, NEW l, NEW S, NEW T \in SUBSET S,
         JobsOK(js, k, S), GoesOn(k, l)
  PROVE  JobsOK(js, l, T)
<1>1. \A i \in DOMAIN js : js[i].do \in {"open", "withdraw"} => js[i].for \in Calls
  BY DEF Job
<1>2. \A i \in DOMAIN js : JobOK(js[i], l, T)  BY <1>1 DEF JobsOK, JobOK, GoesOn
<1>3. \A i, j \in DOMAIN js :
        js[i].do = "open" /\ js[j].do = "open" /\ l[js[j].for] = "opening" => i <= j
  BY <1>1 DEF JobsOK, GoesOn
<1> QED  BY <1>2, <1>3 DEF JobsOK, GoesOn

LEMMA JobsTail ==
  ASSUME NEW js \in Seq(Job), js # <<>>, NEW k, NEW S, JobsOK(js, k, S)
  PROVE  JobsOK(Tail(js), k, S)
<1>1. /\ DOMAIN js = 1..Len(js) /\ Len(js) \in Nat /\ Len(js) > 0
      /\ DOMAIN Tail(js) = 1..(Len(js) - 1)
      /\ \A i \in DOMAIN Tail(js) : i + 1 \in DOMAIN js /\ Tail(js)[i] = js[i + 1]
  OBVIOUS
<1>2. \A i, j \in DOMAIN Tail(js) : (i + 1 = j + 1 => i = j) /\ (i + 1 <= j + 1 => i <= j)
  BY <1>1
<1> DEFINE tail == Tail(js)
<1> HIDE DEF tail
<1>3. \A i \in DOMAIN tail : i + 1 \in DOMAIN js /\ tail[i] = js[i + 1]  BY <1>1 DEF tail
<1>4. \A i, j \in DOMAIN tail : (i + 1 = j + 1 => i = j) /\ (i + 1 <= j + 1 => i <= j)
  BY <1>2 DEF tail
<1>5. JobsOK(tail, k, S)  BY <1>3, <1>4 DEF JobsOK
<1> QED  BY <1>5 DEF tail

LEMMA JobsAppend ==
  ASSUME NEW js \in Seq(Job), NEW e \in Job, NEW k, NEW S, JobsOK(js, k, S),
         e.do # "open", JobOK(e, k, S)
  PROVE  JobsOK(Append(js, e), k, S)
<1> DEFINE q == Append(js, e)
           n == Len(js) + 1
<1>1. /\ DOMAIN js = 1..Len(js) /\ Len(js) \in Nat
      /\ DOMAIN q = DOMAIN js \cup {n}
      /\ \A i \in DOMAIN js : q[i] = js[i]
      /\ q[n] = e
  OBVIOUS
<1> HIDE DEF q, n
<1>2. JobsOK(q, k, S)
  <2>1. \A i \in DOMAIN q : JobOK(q[i], k, S)  BY <1>1 DEF JobsOK
  <2>2. \A i \in DOMAIN q : q[i].do = "open" => i \in DOMAIN js /\ q[i] = js[i]  BY <1>1
  <2> QED  BY <2>1, <2>2 DEF JobsOK
<1> QED  BY <1>2 DEF q

\* The one call that asks sends its job.
LEMMA JobsSends ==
  ASSUME NEW js \in Seq(Job), NEW V, NEW k \in [Calls -> V], NEW S, JobsOK(js, k, S),
         NEW c \in Calls, k[c] = "sending", c \notin S,
         \A d \in Calls : k[d] \in Asking => d = c
  PROVE  JobsOK(Append(js, [do |-> "open", for |-> c]), [k EXCEPT ![c] = "opening"], S)
<1> DEFINE e == [do |-> "open", for |-> c]
           l == [k EXCEPT ![c] = "opening"]
           q == Append(js, e)
           n == Len(js) + 1
<1>1. /\ DOMAIN js = 1..Len(js) /\ Len(js) \in Nat
      /\ DOMAIN q = DOMAIN js \cup {n}
      /\ \A i \in DOMAIN js : q[i] = js[i] /\ i < n
      /\ q[n] = e /\ n \in Nat
  BY DEF Job
<1>2. e.do = "open" /\ e.for = c  OBVIOUS
<1>3. l[c] = "opening" /\ \A d \in Calls : d # c => l[d] = k[d]  OBVIOUS
<1>4. \A i \in DOMAIN js : js[i].do \in {"open", "withdraw"} => js[i].for \in Calls
  BY DEF Job
<1>5. \A i \in DOMAIN js : js[i].do \in {"open", "withdraw"} => js[i].for # c
  BY DEF JobsOK, JobOK, Over
<1>6. \A i \in DOMAIN q : JobOK(q[i], l, S)
  <2>1. JobOK(e, l, S)  BY <1>2, <1>3 DEF JobOK
  <2>2. ASSUME NEW i \in DOMAIN js  PROVE JobOK(js[i], l, S)
    <3>1. JobOK(js[i], k, S)  BY DEF JobsOK
    <3> HIDE DEF l
    <3> QED  BY <3>1, <1>3, <1>4, <1>5 DEF JobOK
  <2> QED  BY <1>1, <2>1, <2>2
<1> HIDE DEF e, l, q, n
<1>7. \A i, j \in DOMAIN q : q[i].do = "open" /\ q[j] = q[i] => i = j
  <2>1. \A i, j \in DOMAIN js : js[i].do = "open" /\ js[j] = js[i] => i = j  BY DEF JobsOK
  <2>2. \A i \in DOMAIN js : js[i] # e  BY <1>2, <1>5
  <2> QED  BY <1>1, <2>1, <2>2
<1>8. \A i, j \in DOMAIN q :
        q[i].do = "open" /\ q[j].do = "open" /\ l[q[j].for] = "opening" => i <= j
  <2>1. \A j \in DOMAIN js : js[j].do = "open" => l[js[j].for] # "opening"
    BY <1>3, <1>4, <1>5 DEF Asking, JobsOK
  <2>2. \A i \in DOMAIN q : i <= n  BY <1>1
  <2> QED  BY <1>1, <2>1, <2>2
<1>9. \A d \in Calls : l[d] \notin {"shown", "asked"}  BY <1>3 DEF Asking
<1>10. JobsOK(q, l, S)  BY <1>6, <1>7, <1>8, <1>9 DEF JobsOK
<1> QED  BY <1>10 DEF q, l, e

\* The main thread opens the question of the job at the head.
LEMMA JobsOpens ==
  ASSUME NEW js \in Seq(Job), js # <<>>, NEW V, NEW k \in [Calls -> V], NEW S,
         JobsOK(js, k, S), NEW c \in Calls, Head(js) = [do |-> "open", for |-> c]
  PROVE  JobsOK(Tail(js), [k EXCEPT ![c] = IF @ = "opening" THEN "shown" ELSE @], S \cup {c})
<1> DEFINE l == [k EXCEPT ![c] = IF @ = "opening" THEN "shown" ELSE @]
           tail == Tail(js)
<1>1. /\ l[c] = IF k[c] = "opening" THEN "shown" ELSE k[c]
      /\ \A d \in Calls : d # c => l[d] = k[d]
  OBVIOUS
<1>2. /\ js[1] = [do |-> "open", for |-> c] /\ 1 \in DOMAIN js
      /\ \A i \in DOMAIN tail : i + 1 \in DOMAIN js /\ tail[i] = js[i + 1] /\ i + 1 > 1
  OBVIOUS
<1>3. js[1].do = "open" /\ js[1].for = c  BY <1>2
<1>4. \A i \in DOMAIN js : js[i].do \in {"open", "withdraw"} => js[i].for \in Calls
  BY DEF Job
<1>5. JobsOK(tail, k, S)  BY JobsTail
<1>6. k[c] \in {"opening"} \cup Over  BY <1>2, <1>3 DEF JobsOK, JobOK
<1>7. \A d \in Calls : k[d] \notin {"shown", "asked"}  BY <1>2, <1>3 DEF JobsOK
<1>8. ASSUME NEW i \in DOMAIN tail, tail[i].do = "open"  PROVE tail[i].for # c
  <2>1. js[i + 1] # js[1]  BY <1>2, <1>3, <1>8 DEF JobsOK
  <2>2. js[i + 1] \in Job /\ js[i + 1].do = "open"  BY <1>2, <1>8
  <2> HIDE DEF tail
  <2> QED  BY <1>2, <2>1, <2>2 DEF Job
<1>9. k[c] = "opening" => \A i \in DOMAIN tail : tail[i].do # "open"
  <2> SUFFICES ASSUME k[c] = "opening", NEW i \in DOMAIN tail, tail[i].do = "open"
               PROVE  FALSE
    OBVIOUS
  <2>1. i + 1 <= 1  BY <1>2, <1>3 DEF JobsOK
  <2> QED  BY <1>2, <2>1
<1> HIDE DEF l
<1>10. \A i \in DOMAIN tail : JobOK(tail[i], l, S \cup {c})
  <2> SUFFICES ASSUME NEW i \in DOMAIN tail  PROVE JobOK(tail[i], l, S \cup {c})
    OBVIOUS
  <2>1. JobOK(tail[i], k, S)  BY <1>5 DEF JobsOK
  <2>2. tail[i].do \in {"open", "withdraw"} => tail[i].for \in Calls  BY <1>2, <1>4
  <2>3. tail[i].do = "open" => tail[i].for # c  BY <1>8
  <2> HIDE DEF tail
  <2>4. tail[i].do = "withdraw" => l[tail[i].for] \in Over
    BY <1>1, <2>1, <2>2 DEF JobOK, Over
  <2>5. tail[i].do = "open" =>
          l[tail[i].for] \in {"opening"} \cup Over /\ tail[i].for \notin S \cup {c}
    BY <1>1, <2>1, <2>2, <2>3 DEF JobOK
  <2> QED  BY <2>4, <2>5 DEF JobOK
<1>11. (\E d \in Calls : l[d] \in {"shown", "asked"}) => \A i \in DOMAIN tail : tail[i].do # "open"
  BY <1>1, <1>6, <1>7, <1>9 DEF Over
<1>12. \A i, j \in DOMAIN tail :
         tail[i].do = "open" /\ tail[j].do = "open" /\ l[tail[j].for] = "opening" => i <= j
  <2>1. \A d \in Calls : l[d] = "opening" => k[d] = "opening"  BY <1>1
  <2>2. \A j \in DOMAIN tail : tail[j].do = "open" => tail[j].for \in Calls  BY <1>2, <1>4
  <2> HIDE DEF tail
  <2> QED  BY <1>5, <2>1, <2>2 DEF JobsOK
<1> HIDE DEF tail
<1>13. JobsOK(tail, l, S \cup {c})  BY <1>5, <1>10, <1>11, <1>12 DEF JobsOK
<1> QED  BY <1>13 DEF l, tail

LEMMA DialogsPushed ==
  ASSUME NEW ds \in Seq(Calls \cup {Other}), NEW d \in Calls \cup {Other}
  PROVE  LET new == Append(ds, d)
         IN /\ new \in Seq(Calls \cup {Other})
            /\ ShownBy(new) = ShownBy(ds) \cup {d}
            /\ DOMAIN new = DOMAIN ds \cup {Len(ds) + 1}
            /\ \A i \in DOMAIN ds : new[i] = ds[i] /\ i < Len(ds) + 1
            /\ new[Len(ds) + 1] = d
            /\ Len(ds) + 1 \in Nat /\ DOMAIN ds \subseteq Nat
<1> DEFINE new == Append(ds, d)
           n == Len(ds) + 1
<1>1. /\ new \in Seq(Calls \cup {Other})
      /\ DOMAIN new = DOMAIN ds \cup {n}
      /\ \A i \in DOMAIN ds : new[i] = ds[i] /\ i < n
      /\ new[n] = d /\ n \in Nat /\ DOMAIN ds \subseteq Nat
  OBVIOUS
<1> HIDE DEF new, n
<1>2. ShownBy(new) = ShownBy(ds) \cup {d}  BY <1>1 DEF ShownBy
<1> QED  BY <1>1, <1>2 DEF new, n

LEMMA DialogsPopped ==
  ASSUME NEW ds \in Seq(Calls \cup {Other}), ds # <<>>
  PROVE  LET new == SubSeq(ds, 1, Len(ds) - 1)
         IN /\ new \in Seq(Calls \cup {Other})
            /\ DOMAIN ds = DOMAIN new \cup {Len(ds)}
            /\ \A i \in DOMAIN new : new[i] = ds[i] /\ i < Len(ds)
            /\ ShownBy(new) \subseteq ShownBy(ds)
            /\ ShownBy(ds) = ShownBy(new) \cup {ds[Len(ds)]}
            /\ ds[Len(ds)] \in Calls \cup {Other}
            /\ Len(ds) \in Nat /\ DOMAIN ds \subseteq Nat
<1> DEFINE new == SubSeq(ds, 1, Len(ds) - 1)
           n == Len(ds)
<1>1. n \in Nat /\ n > 0 /\ DOMAIN ds = 1..n /\ \A i \in 1..n : ds[i] \in Calls \cup {Other}
  OBVIOUS
<1>2. /\ new \in Seq(Calls \cup {Other}) /\ Len(new) = n - 1
      /\ \A i \in 1..(n - 1) : new[i] = ds[i]
  <2>1. /\ new \in Seq(Calls \cup {Other})
        /\ Len(new) = IF 1 <= n - 1 THEN n - 1 - 1 + 1 ELSE 0
        /\ \A i \in 1..(n - 1 - 1 + 1) : new[i] = ds[1 + i - 1]
    <3>1. \A i \in 1..(n - 1) : ds[i] \in Calls \cup {Other}  BY <1>1
    <3> QED  BY <1>1, <3>1, SubSeqProperties
  <2> HIDE DEF new, n
  <2> QED  BY <1>1, <2>1
<1> HIDE DEF new
<1>3. DOMAIN new = 1..(n - 1)  BY <1>2
<1>4. /\ DOMAIN ds = DOMAIN new \cup {n}
      /\ \A i \in DOMAIN new : new[i] = ds[i] /\ i < n
  BY <1>1, <1>2, <1>3
<1> HIDE DEF n
<1>5. ShownBy(new) \subseteq ShownBy(ds) /\ ShownBy(ds) = ShownBy(new) \cup {ds[n]}
  BY <1>4 DEF ShownBy
<1> QED  BY <1>1, <1>2, <1>4, <1>5 DEF new, n

LEMMA NoDialogs == ShownBy(<<>>) = {} /\ DOMAIN <<>> = {}
<1>1. DOMAIN <<>> = {}  OBVIOUS
<1> QED  BY <1>1 DEF ShownBy

\* Who is in the turn's queue, once each.
InTurn(q) == {q[i] : i \in DOMAIN q}
OnceEach(q) == \A i, j \in DOMAIN q : q[i] = q[j] => i = j

LEMMA TurnRemoved ==
  ASSUME NEW q \in Seq(Calls), NEW i \in DOMAIN q
  PROVE  LET new == RemoveAt(q, i)
         IN /\ new \in Seq(Calls) /\ Len(new) = Len(q) - 1
            /\ \A j \in 1..(Len(q) - 1) : new[j] = IF j < i THEN q[j] ELSE q[j + 1]
<1> DEFINE new == RemoveAt(q, i)
           n == Len(q)
           a == SubSeq(q, 1, i - 1)
           b == SubSeq(q, i + 1, n)
<1>1. DOMAIN q = 1..n /\ n \in Nat /\ i \in 1..n /\ i \in Int /\ \A j \in 1..n : q[j] \in Calls
  OBVIOUS
<1>2. new = a \o b  BY DEF RemoveAt
<1> HIDE DEF n, new
<1>3. /\ a \in Seq(Calls) /\ Len(a) = i - 1 /\ \A j \in 1..(i - 1) : a[j] = q[j]
  <2>1. \A j \in 1..(i - 1) : q[j] \in Calls  BY <1>1
  <2>2. /\ a \in Seq(Calls) /\ Len(a) = IF 1 <= i - 1 THEN (i - 1) - 1 + 1 ELSE 0
        /\ \A j \in 1..((i - 1) - 1 + 1) : a[j] = q[1 + j - 1]
    BY <1>1, <2>1, SubSeqProperties
  <2> HIDE DEF a
  <2> QED  BY <1>1, <2>2
<1>4. /\ b \in Seq(Calls) /\ Len(b) = n - i /\ \A j \in 1..(n - i) : b[j] = q[i + j]
  <2>1. \A j \in (i + 1)..n : q[j] \in Calls  BY <1>1
  <2>2. /\ b \in Seq(Calls) /\ Len(b) = IF i + 1 <= n THEN n - (i + 1) + 1 ELSE 0
        /\ \A j \in 1..(n - (i + 1) + 1) : b[j] = q[i + 1 + j - 1]
    <3>1. i + 1 \in Int /\ n \in Int  BY <1>1
    <3> QED  BY <2>1, <3>1, SubSeqProperties
  <2> HIDE DEF b
  <2>3. Len(b) = n - i  BY <1>1, <2>2
  <2>4. ASSUME NEW j \in 1..(n - i)  PROVE b[j] = q[i + j]
    <3>1. j \in 1..(n - (i + 1) + 1) /\ i + 1 + j - 1 = i + j  BY <1>1
    <3>2. b[j] = q[i + 1 + j - 1]  BY <2>2, <3>1
    <3> QED  BY <3>1, <3>2
  <2> QED  BY <2>2, <2>3, <2>4
<1> HIDE DEF a, b
<1>5. /\ new \in Seq(Calls) /\ Len(new) = Len(a) + Len(b)
      /\ \A j \in 1..(Len(a) + Len(b)) : new[j] = IF j <= Len(a) THEN a[j] ELSE b[j - Len(a)]
  BY <1>2, <1>3, <1>4, ConcatProperties
<1>6. ASSUME NEW j \in 1..(n - 1)  PROVE new[j] = IF j < i THEN q[j] ELSE q[j + 1]
  <2>1. new[j] = IF j <= i - 1 THEN a[j] ELSE b[j - (i - 1)]  BY <1>1, <1>3, <1>4, <1>5
  <2>2. CASE j < i  BY <1>1, <1>3, <2>1, <2>2
  <2>3. CASE ~(j < i)
    <3> DEFINE k == j - (i - 1)
    <3>1. k \in 1..(n - i) /\ i + k = j + 1 /\ ~(j <= i - 1)  BY <1>1, <2>3
    <3>2. new[j] = b[k]  BY <2>1, <3>1
    <3> HIDE DEF k
    <3>3. b[k] = q[i + k]  BY <1>4, <3>1
    <3> QED  BY <2>3, <3>1, <3>2, <3>3
  <2> QED  BY <2>2, <2>3
<1> QED  BY <1>1, <1>3, <1>4, <1>5, <1>6 DEF n, new

\* A call that gives up its turn, or its place, leaves the others theirs.
LEMMA TurnGivenUp ==
  ASSUME turn \in Seq(Calls), OnceEach(turn), NEW c \in Calls, GivesUpTurn(c)
  PROVE  /\ turn' \in Seq(Calls) /\ OnceEach(turn') /\ InTurn(turn') = InTurn(turn) \ {c}
         /\ \A d \in Calls : d # c /\ turn # <<>> /\ d = Head(turn)
                               => turn' # <<>> /\ d = Head(turn')
<1>1. CASE (\A i \in DOMAIN turn : turn[i] # c) /\ UNCHANGED turn
  BY <1>1 DEF OnceEach, InTurn
<1>2. ASSUME NEW i \in DOMAIN turn, turn[i] = c, turn' = RemoveAt(turn, i)
      PROVE  /\ turn' \in Seq(Calls) /\ OnceEach(turn') /\ InTurn(turn') = InTurn(turn) \ {c}
             /\ \A d \in Calls : d # c /\ d = Head(turn) => turn' # <<>> /\ d = Head(turn')
  <2> DEFINE n == Len(turn)
             new == RemoveAt(turn, i)
  <2>1. n \in Nat /\ DOMAIN turn = 1..n /\ i \in 1..n  OBVIOUS
  <2>2. /\ new \in Seq(Calls) /\ Len(new) = n - 1
        /\ \A j \in 1..(n - 1) : new[j] = IF j < i THEN turn[j] ELSE turn[j + 1]
    BY TurnRemoved
  <2>3. turn' = new  BY <1>2
  <2> HIDE DEF n, new
  <2>4. DOMAIN new = 1..(n - 1)  BY <2>2
  <2>5. OnceEach(new)
    <3> SUFFICES ASSUME NEW j \in 1..(n - 1), NEW k \in 1..(n - 1), new[j] = new[k]
                 PROVE  j = k
      BY <2>4 DEF OnceEach
    <3> DEFINE from(l) == IF l < i THEN l ELSE l + 1
    <3>1. /\ from(j) \in 1..n /\ from(k) \in 1..n
          /\ new[j] = turn[from(j)] /\ new[k] = turn[from(k)]
      BY <2>1, <2>2
    <3>2. from(j) = from(k)  BY <2>1, <3>1 DEF OnceEach
    <3> QED  BY <2>1, <3>2
  <2>6. InTurn(new) = InTurn(turn) \ {c}
    <3>1. ASSUME NEW j \in 1..(n - 1)
          PROVE  new[j] \in InTurn(turn) /\ new[j] # c
      <4>1. CASE j < i  BY <1>2, <2>1, <2>2, <4>1 DEF InTurn, OnceEach
      <4>2. CASE ~(j < i)
        <5>1. j + 1 \in 1..n /\ j + 1 # i /\ new[j] = turn[j + 1]  BY <2>1, <2>2, <4>2
        <5> QED  BY <1>2, <2>1, <5>1 DEF InTurn, OnceEach
      <4> QED  BY <4>1, <4>2
    <3>2. ASSUME NEW j \in 1..n, turn[j] # c  PROVE turn[j] \in InTurn(new)
      <4>1. j # i  BY <1>2, <3>2
      <4>2. CASE j < i
        <5>1. j \in 1..(n - 1) /\ new[j] = turn[j]  BY <2>1, <2>2, <4>2
        <5> QED  BY <2>4, <5>1 DEF InTurn
      <4>3. CASE j > i
        <5>1. j - 1 \in 1..(n - 1) /\ ~(j - 1 < i) /\ (j - 1) + 1 = j  BY <2>1, <4>3
        <5>2. new[j - 1] = turn[j]  BY <2>2, <5>1
        <5> QED  BY <2>4, <5>1, <5>2 DEF InTurn
      <4> QED  BY <2>1, <4>1, <4>2, <4>3
    <3> QED  BY <2>1, <2>4, <3>1, <3>2 DEF InTurn
  <2>7. ASSUME NEW d \in Calls, d # c, d = Head(turn)  PROVE new # <<>> /\ d = Head(new)
    <3>1. Head(turn) = turn[1]  BY <2>1
    <3>2. i > 1 /\ n - 1 >= 1  BY <1>2, <2>1, <2>7, <3>1
    <3>3. new[1] = turn[1] /\ new # <<>>  BY <2>1, <2>2, <3>2
    <3>4. Head(new) = new[1]  BY <2>2, <3>3
    <3> QED  BY <2>7, <3>1, <3>3, <3>4
  <2> QED  BY <2>2, <2>3, <2>5, <2>6, <2>7
<1> QED  BY <1>1, <1>2 DEF GivesUpTurn

\* Who is in the turn's queue, of these calls' states.
Waiting(k) == {c \in Calls : k[c] \in {"turn"} \cup Asking}
TurnOK(q, k) == InTurn(q) = Waiting(k) /\ OnceEach(q)

LEMMA TurnIsOK == (TurnIsLive <=> TurnOK(turn, call)) /\ (TurnIsLive' <=> TurnOK(turn', call'))
BY DEF TurnIsLive, TurnOK, InTurn, OnceEach, Waiting

\* One call asks at a time.
LEMMA OneAsks ==
  ASSUME GateTypeOK, NEW c \in Calls, NEW d \in Calls,
         call[c] \in Asking, call[d] \in Asking
  PROVE  c = d
BY DEF GateTypeOK

\* A step that changes the turn is that of one call, which leaves its queue when it
\* has ended, or is allowed.
LEMMA TurnStaysLive ==
  ASSUME GateTypeOK, TurnIsLive, [GateNext]_gate_vars
  PROVE  TurnIsLive'
<1> DEFINE States == {"idle", "turn", "writing"} \cup Asking \cup Over
<1>1. /\ call \in [Calls -> States] /\ turn \in Seq(Calls)
      /\ TurnOK(turn, call) /\ OnceEach(turn) /\ InTurn(turn) = Waiting(call)
  BY TurnIsOK DEF GateTypeOK, TurnOK
\* A call goes on with the turn, or has none to lose.
<1>2. ASSUME UNCHANGED turn, Waiting(call') = Waiting(call)  PROVE TurnIsLive'
  BY <1>1, <1>2, TurnIsOK DEF TurnOK
<1>3. ASSUME NEW c \in Calls, NEW to \in States, call' = [call EXCEPT ![c] = to]
      PROVE  /\ c \in Waiting(call') <=> to \in {"turn"} \cup Asking
             /\ \A d \in Calls : d # c => (d \in Waiting(call') <=> d \in Waiting(call))
  <2>1. call'[c] = to /\ \A d \in Calls : d # c => call'[d] = call[d]  BY <1>1, <1>3
  <2> QED  BY <2>1 DEF Waiting
\* A call leaves the gate.
<1>4. ASSUME NEW c \in Calls, NEW to \in {"writing"} \cup Over,
             call' = [call EXCEPT ![c] = to], GivesUpTurn(c)
      PROVE  TurnIsLive'
  <2>1. to \in States /\ to \notin {"turn"} \cup Asking  BY DEF Asking, Over
  <2>2. Waiting(call') = Waiting(call) \ {c}
    <3>1. \A d \in Waiting(call) \cup Waiting(call') : d \in Calls  BY DEF Waiting
    <3> HIDE DEF States
    <3> QED  BY <1>3, <1>4, <2>1, <3>1
  <2>3. OnceEach(turn') /\ InTurn(turn') = InTurn(turn) \ {c}  BY <1>1, <1>4, TurnGivenUp
  <2> QED  BY <1>1, <2>2, <2>3, TurnIsOK DEF TurnOK
\* A call goes on within the gate, or outside.
<1>5. ASSUME NEW c \in Calls, NEW to \in States, call' = [call EXCEPT ![c] = to],
             c \in Waiting(call) <=> to \in {"turn"} \cup Asking, UNCHANGED turn
      PROVE  TurnIsLive'
  <2>1. \A d \in Waiting(call) \cup Waiting(call') : d \in Calls  BY DEF Waiting
  <2>2. /\ c \in Waiting(call') <=> to \in {"turn"} \cup Asking
        /\ \A d \in Calls : d # c => (d \in Waiting(call') <=> d \in Waiting(call))
    <3> HIDE DEF States
    <3> QED  BY <1>3, <1>5
  <2>3. Waiting(call') = Waiting(call)
    <3>1. \A d \in Calls : d \in Waiting(call') <=> d \in Waiting(call)  BY <1>5, <2>2
    <3> QED  BY <2>1, <3>1
  <2> QED  BY <1>2, <1>5, <2>3
<1>6. ASSUME NEW c \in Calls, Arrives(c)  PROVE TurnIsLive'
  <2> DEFINE new == Append(turn, c)
             n == Len(turn) + 1
  <2>1. call[c] = "idle" /\ call' = [call EXCEPT ![c] = "turn"] /\ turn' = new
    BY <1>6 DEF Arrives
  <2>2. c \notin InTurn(turn)  BY <1>1, <2>1 DEF Waiting, Asking
  <2>3. /\ DOMAIN new = DOMAIN turn \cup {n} /\ n \notin DOMAIN turn
        /\ \A i \in DOMAIN turn : new[i] = turn[i]
        /\ new[n] = c
    BY <1>1
  <2> HIDE DEF new, n
  <2>4. InTurn(new) = InTurn(turn) \cup {c} /\ OnceEach(new)
    BY <1>1, <2>2, <2>3 DEF InTurn, OnceEach
  <2>5. Waiting(call') = Waiting(call) \cup {c}
    <3>1. \A d \in Waiting(call) \cup Waiting(call') : d \in Calls  BY DEF Waiting
    <3>2. "turn" \in States  OBVIOUS
    <3> HIDE DEF States
    <3> QED  BY <1>3, <2>1, <3>1, <3>2
  <2> QED  BY <1>1, <2>1, <2>4, <2>5, TurnIsOK DEF TurnOK
<1>7. ASSUME NEW c \in Calls, TakesTurn(c) \/ Sends(c) \/ Resumes(c) \/ Writes(c)
      PROVE  TurnIsLive'
  <2>1. PICK to \in States :
          /\ call' = [call EXCEPT ![c] = to] /\ UNCHANGED turn
          /\ c \in Waiting(call) <=> to \in {"turn"} \cup Asking
    BY <1>7 DEF TakesTurn, Sends, Resumes, Writes, Waiting, Asking, Over
  <2> QED  BY <1>5, <2>1
<1>8. ASSUME NEW c \in Calls, SeesAnswer(c) \/ TimesOut(c) \/ HangsUp(c)  PROVE TurnIsLive'
  <2>1. PICK to \in {"writing"} \cup Over :
          call' = [call EXCEPT ![c] = to] /\ GivesUpTurn(c)
    BY <1>8 DEF SeesAnswer, TimesOut, HangsUp, Over
  <2> QED  BY <1>4, <2>1
<1>9. ASSUME NEW c \in Calls, Opens(c)  PROVE TurnIsLive'
  <2>1. call' = [call EXCEPT ![c] = IF @ = "opening" THEN "shown" ELSE @] /\ UNCHANGED turn
    BY <1>9 DEF Opens
  <2>2. CASE call[c] = "opening"
    <3>1. call' = [call EXCEPT ![c] = "shown"]  BY <2>1, <2>2
    <3>2. c \in Waiting(call) /\ "shown" \in Asking  BY <2>2 DEF Waiting, Asking
    <3> QED  BY <1>5, <2>1, <3>1, <3>2
  <2>3. CASE call[c] # "opening"  BY <1>1, <1>2, <2>1, <2>3
  <2> QED  BY <2>2, <2>3
<1>10. ASSUME NEW c \in Calls, CannotOpen(c)  PROVE TurnIsLive'
  <2>1. CASE call[c] = "opening"
    <3>1. call' = [call EXCEPT ![c] = "unavailable"] /\ GivesUpTurn(c)
      BY <1>10, <2>1 DEF CannotOpen
    <3> QED  BY <1>4, <3>1 DEF Over
  <2>2. CASE call[c] # "opening"
    BY <1>2, <1>10, <2>2 DEF CannotOpen
  <2> QED  BY <2>1, <2>2
<1>11. ASSUME UNCHANGED <<call, turn>>  PROVE TurnIsLive'  BY <1>2, <1>11
<1>12. CASE Works \/ RunsWork \/ \E c \in Calls : Withdraws(c)
  BY <1>11, <1>12 DEF Works, RunsWork, Withdraws
<1>13. CASE User
  BY <1>11, <1>13 DEF User, OtherOpens, OtherCloses, WindowCloses, Answers
<1>14. CASE UNCHANGED gate_vars  BY <1>11, <1>14 DEF gate_vars
<1> QED
  BY <1>6, <1>7, <1>8, <1>9, <1>10, <1>12, <1>13, <1>14 DEF GateNext, Handler, MainThread

\* What a handler does to GateInv, whose jobs are those of the state after it.
LEMMA HandlerKeeps ==
  ASSUME GateInv, GateTypeOK', TurnIsLive', GoesOn(call, call'),
         JobsOK(jobs', call', ShownBy(dialogs)),
         UNCHANGED <<dialogs, window, open_question, shown_in>>
  PROVE  GateInv'
<1> USE DEF GateInv
<1>1. ShownBy(dialogs)' = ShownBy(dialogs)  BY DEF ShownBy
<1>2. JobsOK(jobs, call, ShownBy(dialogs))'  BY <1>1 DEF JobsOK, JobOK
<1>3. DialogsOK(dialogs, call)'
  <2>1. \A c \in Calls :
          call[c] \in {"shown", "asked", "writing"} \cup Over
            => call'[c] \in {"shown", "asked", "writing"} \cup Over
    BY DEF GoesOn
  <2> QED  BY <1>1, <2>1 DEF DialogsOK
<1>4. TrackOK(dialogs, open_question, shown_in, window)'  BY <1>1 DEF TrackOK
<1>5. \A c \in Calls :
        call'[c] \in {"shown", "asked"} /\ c \in Shown' => open_question' = c
  BY DEF OneQuestionIsOpen, GoesOn, Shown
<1> QED  BY <1>2, <1>3, <1>4, <1>5 DEF OneQuestionIsOpen

\* A step of a handler.
LEMMA HandlersKeepGate ==
  ASSUME GateInv, TurnIsLive', NEW c \in Calls,
         \/ Arrives(c) \/ Handler(c) \/ Writes(c)
         \/ TimesOut(c) \/ HangsUp(c)
  PROVE  GateInv'
<1> DEFINE S == ShownBy(dialogs)
           CallStates == {"idle", "turn", "writing"} \cup Asking \cup Over
<1>1. GateTypeOK /\ JobsOK(jobs, call, S) /\ DialogsOK(dialogs, call)
  BY DEF GateInv, OneQuestionIsOpen
<1>2. /\ call \in [Calls -> CallStates] /\ turn \in Seq(Calls) /\ jobs \in Seq(Job)
      /\ Len(jobs) \in Nat /\ Len(jobs) <= QueueSize /\ QueueSize \in Nat
  BY <1>1, BoundsAssumption DEF GateTypeOK
\* The jobs stay, or get one more.
<1>3. ASSUME NEW e \in Job, HasRoom, jobs' = Append(jobs, e)
      PROVE  jobs' \in Seq(Job) /\ Len(jobs') <= QueueSize
  BY <1>2, <1>3 DEF HasRoom
<1>4. ASSUME NEW to \in CallStates, call' = [call EXCEPT ![c] = to]
      PROVE  /\ call' \in [Calls -> CallStates] /\ call'[c] = to
             /\ \A d \in Calls : d # c => call'[d] = call[d]
  BY <1>2, <1>4
<1> HIDE DEF CallStates
\* c stays out of the jobs, and of those that ask.
<1>5. ASSUME UNCHANGED <<jobs, dialogs, window, open_question, shown_in>>,
             GateTypeOK', GoesOn(call, call')
      PROVE  GateInv'
  BY <1>1, <1>2, <1>5, JobsGoOn, HandlerKeeps DEF S
<1>6. CASE Arrives(c)
  <2>1. /\ call[c] = "idle" /\ call' = [call EXCEPT ![c] = "turn"]
        /\ turn' = Append(turn, c)
        /\ UNCHANGED <<jobs, dialogs, window, open_question, shown_in, answer>>
    BY <1>6 DEF Arrives
  <2>2. /\ call' \in [Calls -> CallStates] /\ call'[c] = "turn"
        /\ \A d \in Calls : d # c => call'[d] = call[d]
    BY <1>4, <2>1 DEF CallStates
  <2>3. turn' \in Seq(Calls) /\ (turn # <<>> => turn' # <<>> /\ Head(turn') = Head(turn))
    BY <1>2, <2>1
  <2>4. GateTypeOK'
    BY <1>1, <2>1, <2>2, <2>3 DEF GateTypeOK, Asking, CallStates
  <2>5. GoesOn(call, call')  BY <2>1, <2>2 DEF GoesOn, Over
  <2> QED  BY <1>5, <2>1, <2>4, <2>5
<1>7. CASE TakesTurn(c)
  <2>1. /\ call[c] = "turn" /\ call' = [call EXCEPT ![c] = "sending"]
        /\ turn # <<>> /\ Head(turn) = c
        /\ UNCHANGED <<turn, jobs, dialogs, window, open_question, shown_in, answer>>
    BY <1>7 DEF TakesTurn, HoldsTurn
  <2>2. /\ call' \in [Calls -> CallStates] /\ call'[c] = "sending"
        /\ \A d \in Calls : d # c => call'[d] = call[d]
    BY <1>4, <2>1 DEF CallStates, Asking
  <2>3. GateTypeOK'
    BY <1>1, <2>1, <2>2 DEF GateTypeOK, CallStates
  <2>4. GoesOn(call, call')  BY <2>1, <2>2 DEF GoesOn, Over
  <2> QED  BY <1>5, <2>1, <2>3, <2>4
<1>8. CASE Sends(c)
  <2> DEFINE e == [do |-> "open", for |-> c]
  <2>1. /\ call[c] = "sending" /\ call' = [call EXCEPT ![c] = "opening"]
        /\ HasRoom /\ jobs' = Append(jobs, e)
        /\ UNCHANGED <<turn, dialogs, window, open_question, shown_in, answer>>
    BY <1>8 DEF Sends
  <2>2. /\ call' \in [Calls -> CallStates] /\ call'[c] = "opening"
        /\ \A d \in Calls : d # c => call'[d] = call[d]
    BY <1>4, <2>1 DEF CallStates, Asking
  <2>3. e \in Job  BY DEF Job
  <2>4. call[c] \in Asking /\ call'[c] \in Asking  BY <2>1, <2>2 DEF Asking
  <2>5. \A d \in Calls : call[d] \in Asking => d = c  BY <1>1, <2>4, OneAsks
  <2>6. c \notin S  BY <1>1, <2>1 DEF DialogsOK, Over
  <2>7. JobsOK(jobs', call', S)
    <3> HIDE DEF S
    <3> QED  BY <1>1, <1>2, <2>1, <2>5, <2>6, JobsSends
  <2>8. jobs' \in Seq(Job) /\ Len(jobs') <= QueueSize  BY <1>3, <2>1, <2>3
  <2>9. GateTypeOK'
    BY <1>1, <2>1, <2>2, <2>4, <2>8 DEF GateTypeOK, CallStates
  <2>10. UNCHANGED <<dialogs, window, open_question, shown_in>>  BY <2>1
  <2>11. GateInv'
    <3>1. /\ ShownBy(dialogs)' = S
          /\ \A d \in Calls : call'[d] \in {"shown", "asked", "writing"} \cup Over
                                <=> call[d] \in {"shown", "asked", "writing"} \cup Over
          /\ \A d \in Calls : call'[d] \in {"shown", "asked"} => call[d] \in {"shown", "asked"}
      BY <2>1, <2>2, <2>10 DEF S, ShownBy, Over
    <3>2. JobsOK(jobs, call, ShownBy(dialogs))'  BY <2>7, <3>1 DEF JobsOK, JobOK
    <3>3. DialogsOK(dialogs, call)'  BY <1>1, <2>10, <3>1 DEF DialogsOK, S
    <3>4. TrackOK(dialogs, open_question, shown_in, window)'
      BY <2>10, <3>1 DEF GateInv, TrackOK, S
    <3>5. \A d \in Calls :
            call'[d] \in {"shown", "asked"} /\ d \in Shown' => open_question' = d
      BY <2>10, <3>1 DEF GateInv, OneQuestionIsOpen, Shown
    <3> QED  BY <2>9, <3>2, <3>3, <3>4, <3>5 DEF GateInv, OneQuestionIsOpen
  <2> QED  BY <2>11
<1>9. CASE Resumes(c)
  <2>1. /\ call[c] = "shown" /\ call' = [call EXCEPT ![c] = "asked"]
        /\ UNCHANGED <<turn, jobs, dialogs, window, open_question, shown_in, answer>>
    BY <1>9 DEF Resumes
  <2>2. /\ call' \in [Calls -> CallStates] /\ call'[c] = "asked"
        /\ \A d \in Calls : d # c => call'[d] = call[d]
    BY <1>4, <2>1 DEF CallStates, Asking
  <2>3. GateTypeOK'
    BY <1>1, <2>1, <2>2 DEF GateTypeOK, CallStates, Asking
  <2>4. GoesOn(call, call')  BY <2>1, <2>2 DEF GoesOn, Over
  <2> QED  BY <1>5, <2>1, <2>3, <2>4
<1>10. CASE Writes(c)
  <2>1. /\ call[c] = "writing" /\ call' = [call EXCEPT ![c] = "done"]
        /\ UNCHANGED <<turn, jobs, dialogs, window, open_question, shown_in, answer>>
    BY <1>10 DEF Writes
  <2>2. /\ call' \in [Calls -> CallStates] /\ call'[c] = "done"
        /\ \A d \in Calls : d # c => call'[d] = call[d]
    BY <1>4, <2>1 DEF CallStates, Over
  <2>3. GateTypeOK'
    BY <1>1, <2>1, <2>2 DEF GateTypeOK, CallStates, Asking
  <2>4. GoesOn(call, call')  BY <2>1, <2>2 DEF GoesOn, Over
  <2> QED  BY <1>5, <2>1, <2>3, <2>4
\* A call leaves the gate: it is allowed, or over.
<1>11. ASSUME NEW to \in {"writing"} \cup Over, to = "writing" => call[c] = "asked",
              call' = [call EXCEPT ![c] = to], call[c] \notin Over,
              GivesUpTurn(c), jobs' \in Seq(Job), Len(jobs') <= QueueSize,
              UNCHANGED <<dialogs, window, open_question, shown_in>>,
              answer' = answer
       PROVE  GateTypeOK' /\ GoesOn(call, call') /\ JobsOK(jobs, call', S)
  <2>1. /\ call' \in [Calls -> CallStates] /\ call'[c] = to
        /\ \A d \in Calls : d # c => call'[d] = call[d]
    BY <1>4, <1>11 DEF CallStates
  <2>2. /\ turn' \in Seq(Calls)
        /\ \A d \in Calls : d # c /\ turn # <<>> /\ d = Head(turn)
                              => turn' # <<>> /\ d = Head(turn')
    BY <1>2, <1>11, TurnGivenUp, TurnIsOK DEF TurnOK, GateInv, OneQuestionIsOpen
  <2>3. call'[c] \notin Asking  BY <1>11, <2>1 DEF Asking, Over
  <2>4. GateTypeOK'
    BY <1>1, <1>11, <2>1, <2>2, <2>3 DEF GateTypeOK, CallStates
  <2>5. GoesOn(call, call')
    <3> SUFFICES ASSUME NEW d \in Calls
                 PROVE /\ call[d] = "opening" => call'[d] \in {"opening"} \cup Over
                       /\ call[d] \in Over => call'[d] \in Over
                       /\ call[d] \in {"shown", "asked", "writing"} =>
                            call'[d] \in {"shown", "asked", "writing"} \cup Over
                       /\ call'[d] = "opening" => call[d] = "opening"
                       /\ call'[d] \in {"shown", "asked"} => call[d] \in {"shown", "asked"}
      BY DEF GoesOn
    <3>1. CASE d = c  BY <1>11, <2>1, <3>1 DEF Over
    <3>2. CASE d # c  BY <2>1, <3>2
    <3> QED  BY <3>1, <3>2
  <2>6. JobsOK(jobs, call', S)  BY <1>1, <1>2, <2>5, JobsGoOn
  <2> QED  BY <2>4, <2>5, <2>6
<1>12. CASE SeesAnswer(c)
  <2> DEFINE to == IF answer[c] = "allow" THEN "writing" ELSE "denied"
  <2>1. /\ call[c] = "asked" /\ call' = [call EXCEPT ![c] = to] /\ GivesUpTurn(c)
        /\ UNCHANGED <<jobs, dialogs, window, open_question, shown_in, answer>>
    BY <1>12 DEF SeesAnswer
  <2>2. to \in {"writing"} \cup Over /\ call[c] \notin Over  BY <2>1 DEF Over
  <2> HIDE DEF to
  <2>3. GateTypeOK' /\ GoesOn(call, call')  BY <1>2, <1>11, <2>1, <2>2
  <2> QED  BY <1>5, <2>1, <2>3
<1>13. ASSUME NEW to \in {"timed_out", "hung_up"}, call[c] \notin Over,
              call' = [call EXCEPT ![c] = to], PostsWithdraw(c), GivesUpTurn(c),
              UNCHANGED <<dialogs, window, open_question, shown_in, answer>>
       PROVE  GateInv'
  <2> DEFINE e == [do |-> "withdraw", for |-> c]
  <2>1. \/ UNCHANGED jobs
        \/ HasRoom /\ jobs' = Append(jobs, e)
    BY <1>13 DEF PostsWithdraw
  <2>2. e \in Job /\ e.do = "withdraw" /\ e.for = c  BY DEF Job
  <2> HIDE DEF e
  <2>3. jobs' \in Seq(Job) /\ Len(jobs') <= QueueSize  BY <1>2, <1>3, <2>1, <2>2
  <2>4. to \in {"writing"} \cup Over /\ to # "writing" /\ call'[c] = to
    BY <1>2, <1>13 DEF Over
  <2>5. GateTypeOK' /\ GoesOn(call, call') /\ JobsOK(jobs, call', S)
    BY <1>11, <1>13, <2>3, <2>4
  <2>6. JobsOK(jobs', call', S)
    <3>1. JobOK(e, call', S)  BY <1>13, <2>2, <2>4 DEF JobOK, Over
    <3>2. e.do # "open"  BY <2>2
    <3> HIDE DEF S
    <3> QED  BY <1>2, <2>1, <2>2, <2>5, <3>1, <3>2, JobsAppend
  <2> QED  BY <1>13, <2>5, <2>6, HandlerKeeps
<1>14. CASE TimesOut(c)
  BY <1>13, <1>14 DEF TimesOut, Asking, Over
<1>15. CASE HangsUp(c)
  BY <1>13, <1>15 DEF HangsUp, Live, Asking, Over
<1> QED  BY <1>6, <1>7, <1>8, <1>9, <1>10, <1>12, <1>14, <1>15 DEF Handler

LEMMA MainThreadKeepsGate ==
  ASSUME GateInv, TurnIsLive', MainThread
  PROVE  GateInv'
<1> DEFINE S == ShownBy(dialogs)
           CallStates == {"idle", "turn", "writing"} \cup Asking \cup Over
           OpenedBy(c) == [do |-> "open", for |-> c]
           WithdrawnBy(c) == [do |-> "withdraw", for |-> c]
<1>1. /\ GateTypeOK /\ JobsOK(jobs, call, S) /\ DialogsOK(dialogs, call)
      /\ TrackOK(dialogs, open_question, shown_in, window)
      /\ \A c \in Calls : call[c] \in {"shown", "asked"} /\ c \in S => open_question = c
  BY DEF GateInv, OneQuestionIsOpen, ShownBy, Shown
<1>2. /\ call \in [Calls -> CallStates] /\ turn \in Seq(Calls) /\ jobs \in Seq(Job)
      /\ Len(jobs) <= QueueSize /\ QueueSize \in Nat /\ window \in 0 .. MaxWindows
      /\ MaxWindows \in Nat /\ dialogs \in Seq(Calls \cup {Other})
      /\ shown_in \in [Calls -> 0 .. MaxWindows]
      /\ Other \notin Calls /\ NoCall \notin Calls
  BY <1>1, BoundsAssumption DEF GateTypeOK
<1>3. ASSUME jobs # <<>>, jobs' = Tail(jobs)
      PROVE  /\ jobs' \in Seq(Job) /\ Len(jobs') <= QueueSize
             /\ JobsOK(jobs', call, S)
             /\ Head(jobs) = jobs[1] /\ 1 \in DOMAIN jobs
  BY <1>1, <1>2, <1>3, JobsTail
<1> HIDE DEF CallStates
<1>4. CASE RunsWork
  <2>1. /\ jobs # <<>> /\ jobs' = Tail(jobs)
        /\ UNCHANGED <<call, turn, dialogs, window, open_question, shown_in, answer>>
    BY <1>4 DEF RunsWork
  <2>2. GateTypeOK'  BY <1>1, <1>3, <2>1 DEF GateTypeOK
  <2>3. GoesOn(call, call')  BY <2>1 DEF GoesOn
  <2>4. JobsOK(jobs', call', S)  BY <1>3, <2>1
  <2> QED  BY <2>1, <2>2, <2>3, <2>4, HandlerKeeps
<1>5. ASSUME NEW c \in Calls, Opens(c)  PROVE GateInv'
  <2> DEFINE n == Len(dialogs) + 1
  <2>1. /\ jobs # <<>> /\ Head(jobs) = OpenedBy(c) /\ jobs' = Tail(jobs)
        /\ dialogs' = Append(dialogs, c) /\ open_question' = c
        /\ shown_in' = [shown_in EXCEPT ![c] = window]
        /\ call' = [call EXCEPT ![c] = IF @ = "opening" THEN "shown" ELSE @]
        /\ UNCHANGED <<turn, window, answer>>
    BY <1>5 DEF Opens
  <2>2. /\ call[c] \in {"opening"} \cup Over /\ c \notin S
        /\ \A d \in Calls : call[d] \notin {"shown", "asked"}
    <3>1. JobOK(jobs[1], call, S) /\ jobs[1].do = "open" /\ jobs[1].for = c
      BY <1>1, <1>3, <2>1 DEF JobsOK
    <3> QED  BY <1>1, <1>3, <2>1, <3>1 DEF JobOK, JobsOK
  <2>3. /\ call' \in [Calls -> CallStates]
        /\ call'[c] \in {"shown"} \cup Over
        /\ (call'[c] = call[c] \/ call[c] = "opening")
        /\ \A d \in Calls : d # c => call'[d] = call[d]
    BY <1>2, <2>1, <2>2 DEF CallStates, Asking, Over
  <2>4. /\ dialogs' \in Seq(Calls \cup {Other})
        /\ ShownBy(dialogs') = S \cup {c}
        /\ DOMAIN dialogs' = DOMAIN dialogs \cup {n}
        /\ \A i \in DOMAIN dialogs : dialogs'[i] = dialogs[i] /\ i < n
        /\ dialogs'[n] = c /\ n \in Nat /\ DOMAIN dialogs \subseteq Nat
    <3> DEFINE new == Append(dialogs, c)
    <3>1. /\ new \in Seq(Calls \cup {Other})
          /\ ShownBy(new) = ShownBy(dialogs) \cup {c}
          /\ DOMAIN new = DOMAIN dialogs \cup {n}
          /\ \A i \in DOMAIN dialogs : new[i] = dialogs[i] /\ i < n
          /\ new[n] = c /\ n \in Nat /\ DOMAIN dialogs \subseteq Nat
      BY <1>2, DialogsPushed
    <3>2. dialogs' = new  BY <2>1
    <3> HIDE DEF new, n
    <3> QED  BY <3>1, <3>2
  <2> HIDE DEF n
  <2>5. /\ shown_in' \in [Calls -> 0 .. MaxWindows] /\ shown_in'[c] = window
        /\ \A d \in Calls : d # c => shown_in'[d] = shown_in[d]
    BY <1>2, <2>1
  <2>6. GateTypeOK'
    <3>1. \A d \in Calls : call'[d] \in Asking => call[d] \in Asking
      BY <2>3 DEF Asking, Over
    <3> QED  BY <1>1, <1>3, <2>1, <2>3, <2>4, <2>5, <3>1 DEF GateTypeOK, CallStates
  <2>7. JobsOK(jobs, call, ShownBy(dialogs))'
    <3>1. JobsOK(jobs', call', ShownBy(dialogs'))
      <4> DEFINE l == [call EXCEPT ![c] = IF @ = "opening" THEN "shown" ELSE @]
      <4>1. jobs \in Seq(Job) /\ jobs # <<>> /\ call \in [Calls -> CallStates]
            /\ JobsOK(jobs, call, S) /\ Head(jobs) = [do |-> "open", for |-> c]
        BY <1>1, <1>2, <2>1
      <4> HIDE DEF S
      <4>2. JobsOK(Tail(jobs), l, S \cup {c})  BY <4>1, JobsOpens
      <4>3. call' = l /\ jobs' = Tail(jobs)  BY <2>1
      <4> HIDE DEF l
      <4> QED  BY <2>4, <4>2, <4>3
    <3> QED  BY <3>1 DEF JobsOK, JobOK, ShownBy
  <2>8. DialogsOK(dialogs, call)'
    <3>1. \A d \in Calls : d \in ShownBy(dialogs')
            => call'[d] \in {"shown", "asked", "writing"} \cup Over
      BY <1>1, <2>2, <2>3, <2>4 DEF DialogsOK
    <3>2. \A i, j \in DOMAIN dialogs' :
            dialogs'[i] \in Calls /\ dialogs'[i] = dialogs'[j] => i = j
      <4>1. \A i \in DOMAIN dialogs : dialogs[i] # c  BY <2>2 DEF ShownBy
      <4> QED  BY <1>1, <2>4, <4>1 DEF DialogsOK
    <3> QED  BY <3>1, <3>2 DEF DialogsOK, ShownBy
  <2>9. TrackOK(dialogs, open_question, shown_in, window)'
    <3>1. \A d \in Calls : shown_in'[d] <= window'  BY <1>1, <1>2, <2>1, <2>5 DEF TrackOK
    <3>2. open_question' \in ShownBy(dialogs')  BY <2>1, <2>4
    <3>3. \A i, j \in DOMAIN dialogs' :
            dialogs'[i] = open_question' /\ i < j => dialogs'[j] \notin Calls
      <4>1. \A i \in DOMAIN dialogs : dialogs'[i] # c  BY <2>2, <2>4 DEF ShownBy
      <4>2. \A j \in DOMAIN dialogs' : ~(n < j)  BY <2>4
      <4> QED  BY <2>1, <2>4, <4>1, <4>2
    <3> QED  BY <3>1, <3>2, <3>3 DEF TrackOK, ShownBy
  <2>10. \A d \in Calls : call'[d] \in {"shown", "asked"} => open_question' = d
    BY <2>1, <2>2, <2>3
  <2> QED  BY <2>6, <2>7, <2>8, <2>9, <2>10 DEF GateInv, OneQuestionIsOpen
<1>6. ASSUME NEW c \in Calls, CannotOpen(c)  PROVE GateInv'
  <2>1. /\ jobs # <<>> /\ jobs' = Tail(jobs)
        /\ UNCHANGED <<dialogs, window, open_question, shown_in, answer>>
        /\ \/ /\ call[c] = "opening" /\ GivesUpTurn(c)
              /\ call' = [call EXCEPT ![c] = "unavailable"]
           \/ UNCHANGED <<call, turn>>
    BY <1>6 DEF CannotOpen
  <2>2. CASE UNCHANGED <<call, turn>>
    <3>1. GateTypeOK'  BY <1>1, <1>3, <2>1, <2>2 DEF GateTypeOK
    <3>2. GoesOn(call, call')  BY <2>2 DEF GoesOn
    <3>3. JobsOK(jobs', call', S)  BY <1>3, <2>1, <2>2
    <3> QED  BY <2>1, <3>1, <3>2, <3>3, HandlerKeeps
  <2>3. CASE /\ call[c] = "opening" /\ GivesUpTurn(c)
             /\ call' = [call EXCEPT ![c] = "unavailable"]
    <3>1. /\ call' \in [Calls -> CallStates] /\ call'[c] = "unavailable"
          /\ \A d \in Calls : d # c => call'[d] = call[d]
      BY <1>2, <2>3 DEF CallStates, Over
    <3>2. /\ turn' \in Seq(Calls)
          /\ \A d \in Calls : d # c /\ turn # <<>> /\ d = Head(turn)
                                => turn' # <<>> /\ d = Head(turn')
      BY <1>2, <2>3, TurnGivenUp, TurnIsOK DEF TurnOK, GateInv, OneQuestionIsOpen
    <3>3. call'[c] \notin Asking  BY <3>1 DEF Asking
    <3>4. GateTypeOK'
      BY <1>1, <1>3, <2>1, <3>1, <3>2, <3>3 DEF GateTypeOK, CallStates
    <3>5. GoesOn(call, call')  BY <2>3, <3>1 DEF GoesOn, Over
    <3>6. JobsOK(jobs', call', S)
      <4>1. jobs' \in Seq(Job) /\ JobsOK(jobs', call, S)  BY <1>3, <2>1
      <4> QED  BY <3>5, <4>1, JobsGoOn
    <3> QED  BY <2>1, <3>4, <3>5, <3>6, HandlerKeeps
  <2> QED  BY <2>1, <2>2, <2>3
<1>7. ASSUME NEW c \in Calls, Withdraws(c)  PROVE GateInv'
  <2>1. /\ jobs # <<>> /\ Head(jobs) = WithdrawnBy(c) /\ jobs' = Tail(jobs)
        /\ UNCHANGED <<call, turn, window, shown_in>>
    BY <1>7 DEF Withdraws
  <2>2. /\ answer' \in [Calls -> {"none", "allow", "deny", "closed"}]
        /\ \/ UNCHANGED <<dialogs, open_question>>
           \/ UNCHANGED dialogs /\ open_question = c /\ open_question' = NoCall
           \/ /\ open_question = c /\ open_question' = NoCall
              /\ dialogs # <<>> /\ dialogs' = WithoutTop
    BY <1>1, <1>7 DEF Withdraws, ClosesTop, GateTypeOK
  <2>3. call[c] \in Over
    <3>1. JobOK(jobs[1], call, S) /\ jobs[1].do = "withdraw" /\ jobs[1].for = c
      BY <1>1, <1>3, <2>1 DEF JobsOK
    <3> QED  BY <3>1 DEF JobOK
  <2>4. CASE UNCHANGED <<dialogs, open_question>>
    <3>1. GateTypeOK'  BY <1>1, <1>3, <2>1, <2>2, <2>4 DEF GateTypeOK
    <3>2. GoesOn(call, call')  BY <2>1 DEF GoesOn
    <3>3. JobsOK(jobs', call', S)  BY <1>3, <2>1
    <3> QED  BY <2>1, <2>4, <3>1, <3>2, <3>3, HandlerKeeps
  <2>5. CASE open_question = c /\ open_question' = NoCall
    <3>1. /\ dialogs' \in Seq(Calls \cup {Other})
          /\ DOMAIN dialogs' \subseteq DOMAIN dialogs
          /\ \A i \in DOMAIN dialogs' : dialogs'[i] = dialogs[i]
          /\ ShownBy(dialogs') \subseteq S
      <4>1. CASE UNCHANGED dialogs  BY <1>2, <4>1
      <4>2. CASE dialogs # <<>> /\ dialogs' = WithoutTop
        <5> DEFINE new == WithoutTop
        <5>1. /\ new \in Seq(Calls \cup {Other})
              /\ DOMAIN dialogs = DOMAIN new \cup {Len(dialogs)}
              /\ \A i \in DOMAIN new : new[i] = dialogs[i]
              /\ ShownBy(new) \subseteq S
          BY <1>2, <4>2, DialogsPopped DEF WithoutTop
        <5>2. dialogs' = new  BY <4>2
        <5> HIDE DEF new, S
        <5> QED  BY <5>1, <5>2
      <4> QED  BY <2>2, <4>1, <4>2
    <3>2. GateTypeOK'  BY <1>1, <1>3, <2>1, <2>2, <2>5, <3>1 DEF GateTypeOK
    <3>3. JobsOK(jobs, call, ShownBy(dialogs))'
      <4>1. jobs' \in Seq(Job) /\ JobsOK(jobs', call, S)  BY <1>3, <2>1
      <4>2. GoesOn(call, call')  BY <2>1 DEF GoesOn
      <4>3. JobsOK(jobs', call', ShownBy(dialogs'))  BY <3>1, <4>1, <4>2, JobsGoOn
      <4> QED  BY <4>3 DEF JobsOK, JobOK, ShownBy
    <3>4. DialogsOK(dialogs, call)'
      <4>1. ShownBy(dialogs)' = ShownBy(dialogs')  BY DEF ShownBy
      <4> QED  BY <1>1, <2>1, <3>1, <4>1 DEF DialogsOK
    <3>5. TrackOK(dialogs, open_question, shown_in, window)'
      BY <1>1, <1>2, <2>1, <2>5 DEF TrackOK
    <3>6. \A d \in Calls :
            call'[d] \in {"shown", "asked"} /\ d \in Shown' => open_question' = d
      <4>1. Shown' = ShownBy(dialogs')  BY DEF Shown, ShownBy
      <4>2. \A d \in Calls : call'[d] \in {"shown", "asked"} /\ d \in Shown' => d = c
        BY <1>1, <2>1, <2>5, <3>1, <4>1
      <4> QED  BY <2>1, <2>3, <4>2 DEF Over
    <3> QED  BY <3>2, <3>3, <3>4, <3>5, <3>6 DEF GateInv, OneQuestionIsOpen
  <2> QED  BY <2>2, <2>4, <2>5
<1> QED  BY <1>4, <1>5, <1>6, <1>7 DEF MainThread

\* The dialogs change by a step of the user, which leaves calls, turns and jobs alone.
LEMMA UserKeepsGate ==
  ASSUME GateInv, TurnIsLive', User
  PROVE  GateInv'
<1> DEFINE S == ShownBy(dialogs)
<1>1. /\ GateTypeOK /\ JobsOK(jobs, call, S) /\ DialogsOK(dialogs, call)
      /\ TrackOK(dialogs, open_question, shown_in, window)
      /\ \A c \in Calls : call[c] \in {"shown", "asked"} /\ c \in S => open_question = c
  BY DEF GateInv, OneQuestionIsOpen, ShownBy, Shown
<1>2. /\ jobs \in Seq(Job) /\ window \in 0 .. MaxWindows /\ MaxWindows \in Nat
      /\ dialogs \in Seq(Calls \cup {Other}) /\ open_question \in Calls \cup {NoCall}
      /\ shown_in \in [Calls -> 0 .. MaxWindows]
      /\ answer \in [Calls -> {"none", "allow", "deny", "closed"}]
      /\ Other \notin Calls /\ NoCall \notin Calls
  BY <1>1, BoundsAssumption DEF GateTypeOK
<1>3. UNCHANGED <<call, turn, jobs, shown_in>>
  BY DEF User, OtherOpens, OtherCloses, WindowCloses, Answers
\* Enough of the dialogs after the step.
<1>4. ASSUME dialogs' \in Seq(Calls \cup {Other}), window' \in 0 .. MaxWindows,
             answer' \in [Calls -> {"none", "allow", "deny", "closed"}],
             open_question' \in Calls \cup {NoCall},
             ShownBy(dialogs') \cap Calls \subseteq S,
             \A i, j \in DOMAIN dialogs' :
               dialogs'[i] \in Calls /\ dialogs'[i] = dialogs'[j] => i = j,
             TrackOK(dialogs', open_question', shown_in', window'),
             \A c \in Calls : call[c] \in {"shown", "asked"} /\ c \in ShownBy(dialogs')
                                => open_question' = c
      PROVE  GateInv'
  <2>1. GateTypeOK'  BY <1>1, <1>3, <1>4 DEF GateTypeOK
  <2>2. ShownBy(dialogs)' = ShownBy(dialogs') /\ Shown' = ShownBy(dialogs')
    BY DEF ShownBy, Shown
  <2>3. JobsOK(jobs, call, ShownBy(dialogs))'
    <3>1. \A i \in DOMAIN jobs : jobs[i].do = "open" => jobs[i].for \in Calls
      BY <1>2 DEF Job
    <3>2. \A i \in DOMAIN jobs : JobOK(jobs[i], call, ShownBy(dialogs'))
      <4> HIDE DEF S
      <4> QED  BY <1>1, <1>4, <3>1 DEF JobsOK, JobOK
    <3>3. JobsOK(jobs, call, ShownBy(dialogs'))  BY <1>1, <3>2 DEF JobsOK
    <3> QED  BY <1>3, <2>2, <3>3 DEF JobsOK, JobOK
  <2>4. DialogsOK(dialogs, call)'  BY <1>1, <1>3, <1>4, <2>2 DEF DialogsOK
  <2>5. TrackOK(dialogs, open_question, shown_in, window)'  BY <1>4, <2>2 DEF TrackOK
  <2>6. \A c \in Calls :
          call'[c] \in {"shown", "asked"} /\ c \in Shown' => open_question' = c
    BY <1>3, <1>4, <2>2
  <2> QED  BY <2>1, <2>3, <2>4, <2>5, <2>6 DEF GateInv, OneQuestionIsOpen
<1>5. CASE OtherOpens
  <2> DEFINE new == Append(dialogs, Other)
             n == Len(dialogs) + 1
  <2>1. /\ new \in Seq(Calls \cup {Other})
        /\ ShownBy(new) = ShownBy(dialogs) \cup {Other}
        /\ DOMAIN new = DOMAIN dialogs \cup {n}
        /\ \A i \in DOMAIN dialogs : new[i] = dialogs[i] /\ i < n
        /\ new[n] = Other /\ n \in Nat /\ DOMAIN dialogs \subseteq Nat
    BY <1>2, DialogsPushed
  <2>2. dialogs' = new /\ UNCHANGED <<window, open_question, answer>>
    BY <1>5 DEF OtherOpens
  <2> HIDE DEF new, n
  <2>3. ShownBy(new) \cap Calls = S \cap Calls  BY <1>2, <2>1
  <2>4. \A i, j \in DOMAIN new : new[i] \in Calls /\ new[i] = new[j] => i = j
    BY <1>1, <1>2, <2>1 DEF DialogsOK
  <2>5. TrackOK(new, open_question, shown_in, window)
    <3>1. open_question \in Calls => \A i, j \in DOMAIN new :
            new[i] = open_question /\ i < j => new[j] \notin Calls
      <4> SUFFICES ASSUME open_question \in Calls, NEW i \in DOMAIN new, NEW j \in DOMAIN new,
                          new[i] = open_question, i < j
                   PROVE  new[j] \notin Calls
        OBVIOUS
      <4>1. i \in DOMAIN dialogs  BY <1>2, <2>1
      <4>2. CASE j = n  BY <1>2, <2>1, <4>2
      <4>3. CASE j \in DOMAIN dialogs  BY <1>1, <2>1, <4>1, <4>3 DEF TrackOK
      <4> QED  BY <2>1, <4>2, <4>3
    <3> QED  BY <1>1, <2>3, <3>1 DEF TrackOK
  <2>6. \A c \in Calls : call[c] \in {"shown", "asked"} /\ c \in ShownBy(new)
                           => open_question = c
    BY <1>1, <2>3
  <2> QED  BY <1>2, <1>3, <1>4, <2>1, <2>2, <2>3, <2>4, <2>5, <2>6
\* The dialog on top closes.
<1>6. ASSUME dialogs # <<>>, dialogs' = WithoutTop, UNCHANGED window,
             answer' \in [Calls -> {"none", "allow", "deny", "closed"}],
             LET top == dialogs[Len(dialogs)]
             IN open_question' = IF open_question = top /\ top \in Calls THEN NoCall
                                 ELSE open_question
      PROVE  GateInv'
  <2> DEFINE new == WithoutTop
             n == Len(dialogs)
             top == dialogs[n]
  <2>1. /\ new \in Seq(Calls \cup {Other})
        /\ DOMAIN dialogs = DOMAIN new \cup {n}
        /\ \A i \in DOMAIN new : new[i] = dialogs[i] /\ i < n
        /\ ShownBy(new) \subseteq S /\ S = ShownBy(new) \cup {top}
        /\ n \in Nat /\ DOMAIN dialogs \subseteq Nat
    BY <1>2, <1>6, DialogsPopped DEF WithoutTop
  <2>2. /\ dialogs' = new
        /\ open_question' = IF open_question = top /\ top \in Calls THEN NoCall
                            ELSE open_question
    BY <1>6
  <2> HIDE DEF new, n
  <2>3. open_question' \in Calls \cup {NoCall}  BY <1>2, <2>2
  <2>4. \A i, j \in DOMAIN new : new[i] \in Calls /\ new[i] = new[j] => i = j
    BY <1>1, <2>1 DEF DialogsOK
  <2>5. open_question' \in Calls => open_question' = open_question /\ open_question # top
    BY <1>2, <2>2
  <2>6. TrackOK(new, open_question', shown_in, window)
    <3>1. open_question' \in Calls /\ shown_in[open_question'] = window
            => open_question' \in ShownBy(new)
      <4>1. open_question \in Calls /\ shown_in[open_question] = window => open_question \in S
        BY <1>1 DEF TrackOK
      <4> HIDE DEF S, top
      <4> QED  BY <2>1, <2>5, <4>1
    <3>2. open_question' \in Calls => \A i, j \in DOMAIN new :
            new[i] = open_question' /\ i < j => new[j] \notin Calls
      BY <1>1, <2>1, <2>5 DEF TrackOK
    <3> QED  BY <1>1, <3>1, <3>2 DEF TrackOK
  <2>7. top \notin Calls \/ top \notin ShownBy(new)
    <3>1. \A i \in DOMAIN new : dialogs[i] = top => top \notin Calls
      <4>1. \A i \in DOMAIN new : i \in DOMAIN dialogs /\ i # n /\ n \in DOMAIN dialogs
        BY <2>1
      <4> QED  BY <1>1, <4>1 DEF DialogsOK
    <3> QED  BY <2>1, <3>1 DEF ShownBy
  <2>8. \A c \in Calls : call[c] \in {"shown", "asked"} /\ c \in ShownBy(new)
                           => open_question' = c
    <3> HIDE DEF S, top
    <3> QED  BY <1>1, <2>1, <2>2, <2>7
  <2> QED  BY <1>2, <1>3, <1>4, <1>6, <2>1, <2>2, <2>3, <2>4, <2>6, <2>8
<1>7. ASSUME NEW c \in Calls, Answers(c)  PROVE GateInv'
  <2>1. /\ dialogs # <<>> /\ dialogs[Len(dialogs)] = c /\ dialogs' = WithoutTop
        /\ open_question' = IF open_question = c THEN NoCall ELSE open_question
        /\ UNCHANGED window
    BY <1>7 DEF Answers
  <2>2. answer' \in [Calls -> {"none", "allow", "deny", "closed"}]
    BY <1>2, <1>7 DEF Answers
  <2> QED  BY <1>6, <2>1, <2>2
<1>8. CASE OtherCloses
  <2>1. /\ dialogs # <<>> /\ dialogs[Len(dialogs)] = Other /\ dialogs' = WithoutTop
        /\ UNCHANGED <<window, open_question, answer>>
    BY <1>8 DEF OtherCloses
  <2> QED  BY <1>2, <1>6, <2>1
<1>9. CASE WindowCloses
  <2>1. /\ window < MaxWindows /\ window' = window + 1 /\ dialogs' = <<>>
        /\ UNCHANGED open_question
    BY <1>9 DEF WindowCloses
  <2>2. answer' \in [Calls -> {"none", "allow", "deny", "closed"}]
    BY <1>2, <1>9 DEF WindowCloses
  <2>3. window' \in 0 .. MaxWindows /\ <<>> \in Seq(Calls \cup {Other})
    BY <1>2, <2>1
  <2>4. TrackOK(<<>>, open_question, shown_in, window')
    <3>1. \A c \in Calls : shown_in[c] <= window' /\ shown_in[c] # window'
      <4>1. \A c \in Calls : shown_in[c] <= window /\ shown_in[c] \in Nat
        BY <1>1, <1>2 DEF TrackOK
      <4> QED  BY <1>2, <2>1, <4>1
    <3> QED  BY <3>1, NoDialogs DEF TrackOK
  <2> QED  BY <1>2, <1>3, <1>4, <2>1, <2>2, <2>3, <2>4, NoDialogs
<1> QED  BY <1>5, <1>7, <1>8, <1>9 DEF User

LEMMA InitGate ==
  ASSUME GateInit  PROVE GateInv
<1>1. GateTypeOK
  <2>1. jobs \in Seq(Job) /\ Len(jobs) = 0 /\ turn \in Seq(Calls)
        /\ dialogs \in Seq(Calls \cup {Other})
    BY DEF GateInit
  <2> QED  BY <2>1, BoundsAssumption DEF GateInit, GateTypeOK, Asking
<1>2. \A c \in Calls : call[c] = "idle" /\ shown_in[c] = 0  BY DEF GateInit
<1>3. ShownBy(dialogs) = {} /\ DOMAIN dialogs = {} /\ DOMAIN jobs = {}
  BY NoDialogs DEF GateInit
<1>4. JobsOK(jobs, call, ShownBy(dialogs)) /\ DialogsOK(dialogs, call)
  BY <1>3 DEF JobsOK, DialogsOK
<1>5. TrackOK(dialogs, open_question, shown_in, window)
  BY <1>2, <1>3, BoundsAssumption DEF TrackOK, GateInit
<1>6. TurnIsLive
  <2>1. turn = <<>> /\ DOMAIN turn = {}  BY DEF GateInit
  <2> QED  BY <1>2, <2>1 DEF TurnIsLive, Asking
<1> QED  BY <1>1, <1>2, <1>4, <1>5, <1>6 DEF GateInv, OneQuestionIsOpen

LEMMA NextGate == GateInv /\ [GateNext]_gate_vars => GateInv'
<1> SUFFICES ASSUME GateInv, [GateNext]_gate_vars  PROVE GateInv'  OBVIOUS
<1>0. TurnIsLive'  BY TurnStaysLive DEF GateInv, OneQuestionIsOpen
<1>1. ASSUME NEW c \in Calls,
             \/ Arrives(c) \/ Handler(c) \/ Writes(c)
             \/ TimesOut(c) \/ HangsUp(c)
      PROVE  GateInv'
  BY <1>0, <1>1, HandlersKeepGate
<1>2. CASE Works
  <2> DEFINE e == [do |-> "work", for |-> NoCall]
             q == Append(jobs, e)
  <2>1. /\ HasRoom /\ jobs' = q
        /\ UNCHANGED <<call, turn, dialogs, window, open_question, shown_in, answer>>
    BY <1>2 DEF Works
  <2>2. e \in Job /\ e.do = "work"  BY DEF Job
  <2>3. /\ GateTypeOK /\ JobsOK(jobs, call, ShownBy(dialogs))
        /\ jobs \in Seq(Job) /\ Len(jobs) \in Nat /\ QueueSize \in Nat
    BY BoundsAssumption DEF GateInv, OneQuestionIsOpen, GateTypeOK
  <2>4. q \in Seq(Job) /\ Len(q) <= QueueSize  BY <2>1, <2>2, <2>3 DEF HasRoom
  <2>5. JobsOK(q, call, ShownBy(dialogs))
    <3>1. JobOK(e, call, ShownBy(dialogs)) /\ e.do # "open"  BY <2>2 DEF JobOK
    <3> HIDE DEF e
    <3> QED  BY <2>2, <2>3, <3>1, JobsAppend
  <2> HIDE DEF q
  <2>6. GateTypeOK'  BY <2>1, <2>3, <2>4 DEF GateTypeOK
  <2>7. GoesOn(call, call')  BY <2>1 DEF GoesOn
  <2>8. JobsOK(jobs', call', ShownBy(dialogs))  BY <2>1, <2>5
  <2> QED  BY <1>0, <2>1, <2>6, <2>7, <2>8, HandlerKeeps
<1>3. CASE MainThread  BY <1>0, <1>3, MainThreadKeepsGate
<1>4. CASE User  BY <1>0, <1>4, UserKeepsGate
<1>5. CASE UNCHANGED gate_vars
  BY <1>0, <1>5 DEF gate_vars, GateInv, OneQuestionIsOpen, GateTypeOK, Shown, ShownBy,
              JobsOK, JobOK, DialogsOK, TrackOK
<1> QED  BY <1>1, <1>2, <1>3, <1>4, <1>5 DEF GateNext

LEMMA SpecGate == GateSpec => []GateInv
BY InitGate, NextGate, PTL DEF GateSpec

\* A call's job is in the queue; what became of its question shows, or was sent.
HasJob(js, d) == \E i \in DOMAIN js : js[i] = [do |-> "open", for |-> d]
Known(ds, an, d) == d \in ShownBy(ds) \/ an[d] # "none"

LEMMA JobPosted ==
  ASSUME NEW js \in Seq(Job), NEW e \in Job
  PROVE  /\ \A d \in Calls : HasJob(js, d) => HasJob(Append(js, e), d)
         /\ \A d \in Calls : e = [do |-> "open", for |-> d] => HasJob(Append(js, e), d)
<1> DEFINE q == Append(js, e)
           n == Len(js) + 1
<1>1. DOMAIN q = DOMAIN js \cup {n} /\ (\A i \in DOMAIN js : q[i] = js[i]) /\ q[n] = e
  OBVIOUS
<1> HIDE DEF q, n
<1>2. /\ \A d \in Calls : HasJob(js, d) => HasJob(q, d)
      /\ \A d \in Calls : e = [do |-> "open", for |-> d] => HasJob(q, d)
  BY <1>1 DEF HasJob
<1> QED  BY <1>2 DEF q

LEMMA JobTaken ==
  ASSUME NEW js \in Seq(Job), js # <<>>
  PROVE  \A d \in Calls : HasJob(js, d) /\ Head(js) # [do |-> "open", for |-> d]
                            => HasJob(Tail(js), d)
<1> DEFINE tail == Tail(js)
<1>1. /\ DOMAIN js = 1..Len(js) /\ Len(js) \in Nat /\ Head(js) = js[1]
      /\ DOMAIN tail = 1..(Len(js) - 1)
      /\ \A i \in DOMAIN tail : tail[i] = js[i + 1]
  OBVIOUS
<1>2. \A i \in DOMAIN js : i # 1 => i - 1 \in DOMAIN tail /\ tail[i - 1] = js[i]
  <2>1. \A i \in DOMAIN js : i # 1 => i - 1 \in DOMAIN tail /\ (i - 1) + 1 = i  BY <1>1
  <2> HIDE DEF tail
  <2> QED  BY <1>1, <2>1
<1> HIDE DEF tail
<1>3. \A d \in Calls : HasJob(js, d) /\ js[1] # [do |-> "open", for |-> d] => HasJob(tail, d)
  BY <1>2 DEF HasJob
<1> QED  BY <1>1, <1>3 DEF tail

\* No call comes to wait, and none that waits loses what it waits for.
LEMMA StillServed ==
  ASSUME NobodyAsksInVain,
         \A d \in Calls : call'[d] = "opening" =>
           \/ HasJob(jobs', d)
           \/ call[d] = "opening" /\ (HasJob(jobs, d) => HasJob(jobs', d)),
         \A d \in Calls : call'[d] \in {"shown", "asked"} =>
           \/ Known(dialogs', answer', d)
           \/ /\ call[d] \in {"shown", "asked"}
              /\ Known(dialogs, answer, d) => Known(dialogs', answer', d)
  PROVE  NobodyAsksInVain'
<1>1. \A d \in Calls : /\ call[d] = "opening" => HasJob(jobs, d)
                       /\ call[d] \in {"shown", "asked"} => Known(dialogs, answer, d)
  BY DEF NobodyAsksInVain, HasJob, Known, Shown, ShownBy
<1>2. \A d \in Calls : /\ call'[d] = "opening" => HasJob(jobs', d)
                       /\ call'[d] \in {"shown", "asked"} => Known(dialogs', answer', d)
  BY <1>1
<1> QED  BY <1>2 DEF NobodyAsksInVain, HasJob, Known, Shown, ShownBy

LEMMA HandlersServe ==
  ASSUME GateInv, NobodyAsksInVain, NEW c \in Calls,
         \/ Arrives(c) \/ Handler(c) \/ Writes(c)
         \/ TimesOut(c) \/ HangsUp(c)
  PROVE  NobodyAsksInVain'
<1>1. /\ call \in [Calls -> {"idle", "turn", "writing"} \cup Asking \cup Over]
      /\ jobs \in Seq(Job)
  BY DEF GateInv, OneQuestionIsOpen, GateTypeOK
<1>2. UNCHANGED <<dialogs, answer>>
  BY DEF Arrives, Handler, TakesTurn, Sends, Resumes, SeesAnswer, Writes, TimesOut, HangsUp
<1>3. CASE Sends(c)
  <2> DEFINE e == [do |-> "open", for |-> c]
  <2>1. e \in Job  BY DEF Job
  <2>2. call' = [call EXCEPT ![c] = "opening"] /\ jobs' = Append(jobs, e)  BY <1>3 DEF Sends
  <2>3. HasJob(jobs', c) /\ \A d \in Calls : HasJob(jobs, d) => HasJob(jobs', d)
    BY <1>1, <2>1, <2>2, JobPosted
  <2>4. call'[c] = "opening" /\ \A d \in Calls : d # c => call'[d] = call[d]
    BY <1>1, <2>2
  <2>5. \A d \in Calls : call'[d] = "opening" =>
          \/ HasJob(jobs', d)
          \/ call[d] = "opening" /\ (HasJob(jobs, d) => HasJob(jobs', d))
    BY <2>3, <2>4
  <2>6. \A d \in Calls : call'[d] \in {"shown", "asked"} =>
          /\ call[d] \in {"shown", "asked"}
          /\ Known(dialogs, answer, d) => Known(dialogs', answer', d)
    BY <1>2, <2>4
  <2> QED  BY <2>5, <2>6, StillServed
<1>4. CASE ~Sends(c)
  <2>1. \A d \in Calls : /\ d # c => call'[d] = call[d]
                         /\ call'[d] # "opening" \/ call[d] = "opening"
                         /\ call'[d] \in {"shown", "asked"} => call[d] \in {"shown", "asked"}
    BY <1>1, <1>4 DEF Arrives, Handler, TakesTurn, Resumes, SeesAnswer, Writes, TimesOut,
                      HangsUp
  <2>2. UNCHANGED jobs \/ jobs' = Append(jobs, [do |-> "withdraw", for |-> c])
    BY <1>4 DEF Arrives, Handler, TakesTurn, Resumes, SeesAnswer, Writes, TimesOut, HangsUp,
                PostsWithdraw
  <2>3. [do |-> "withdraw", for |-> c] \in Job  BY DEF Job
  <2>4. \A d \in Calls : HasJob(jobs, d) => HasJob(jobs', d)
    <3>1. CASE UNCHANGED jobs  BY <3>1
    <3>2. CASE jobs' = Append(jobs, [do |-> "withdraw", for |-> c])
      BY <1>1, <2>3, <3>2, JobPosted
    <3> QED  BY <2>2, <3>1, <3>2
  <2> QED  BY <1>2, <2>1, <2>4, StillServed
<1> QED  BY <1>3, <1>4

\* Whose dialog closes has been answered, if only by that.
LEMMA TopClosed ==
  ASSUME GateTypeOK, dialogs # <<>>, dialogs' = WithoutTop,
         \A d \in Calls : /\ answer[d] # "none" => answer'[d] # "none"
                          /\ d = dialogs[Len(dialogs)] => answer'[d] # "none"
  PROVE  \A d \in Calls : Known(dialogs, answer, d) => Known(dialogs', answer', d)
<1> DEFINE new == WithoutTop
<1>1. dialogs \in Seq(Calls \cup {Other})  BY DEF GateTypeOK
<1>2. ShownBy(dialogs) = ShownBy(new) \cup {dialogs[Len(dialogs)]}
  BY <1>1, DialogsPopped DEF WithoutTop
<1> HIDE DEF new
<1>3. dialogs' = new  BY DEF new
<1> QED  BY <1>2, <1>3 DEF Known

LEMMA MainThreadServes ==
  ASSUME GateInv, NobodyAsksInVain, MainThread
  PROVE  NobodyAsksInVain'
<1>1. /\ call \in [Calls -> {"idle", "turn", "writing"} \cup Asking \cup Over]
      /\ answer \in [Calls -> {"none", "allow", "deny", "closed"}]
      /\ jobs \in Seq(Job) /\ dialogs \in Seq(Calls \cup {Other}) /\ GateTypeOK
  BY DEF GateInv, OneQuestionIsOpen, GateTypeOK
<1>2. jobs # <<>> /\ jobs' = Tail(jobs)
  BY DEF MainThread, RunsWork, Opens, CannotOpen, Withdraws
<1>3. \A d \in Calls : HasJob(jobs, d) /\ Head(jobs) # [do |-> "open", for |-> d]
                         => HasJob(jobs', d)
  BY <1>1, <1>2, JobTaken
<1>4. CASE RunsWork
  <2>1. Head(jobs).do = "work" /\ UNCHANGED <<call, dialogs, answer>>  BY <1>4 DEF RunsWork
  <2>2. \A d \in Calls : [do |-> "open", for |-> d].do # "work"  OBVIOUS
  <2>3. \A d \in Calls : Head(jobs) # [do |-> "open", for |-> d]  BY <2>1, <2>2
  <2> QED  BY <1>3, <2>1, <2>3, StillServed
<1>5. ASSUME NEW c \in Calls, Opens(c)  PROVE NobodyAsksInVain'
  <2>1. /\ Head(jobs) = [do |-> "open", for |-> c] /\ dialogs' = Append(dialogs, c)
        /\ call' = [call EXCEPT ![c] = IF @ = "opening" THEN "shown" ELSE @]
        /\ UNCHANGED answer
    BY <1>5 DEF Opens
  <2>2. call'[c] # "opening" /\ \A d \in Calls : d # c => call'[d] = call[d]
    BY <1>1, <2>1
  <2>3. \A d \in Calls : d # c => Head(jobs) # [do |-> "open", for |-> d]
    <3>1. Head(jobs).for = c  BY <2>1
    <3>2. \A d \in Calls : [do |-> "open", for |-> d].for = d  OBVIOUS
    <3> QED  BY <3>1, <3>2
  <2> DEFINE new == Append(dialogs, c)
  <2>4. ShownBy(new) = ShownBy(dialogs) \cup {c}  BY <1>1, DialogsPushed
  <2> HIDE DEF new
  <2>5. dialogs' = new  BY <2>1 DEF new
  <2>6. \A d \in Calls : /\ Known(dialogs, answer, d) => Known(dialogs', answer', d)
                         /\ d = c => Known(dialogs', answer', d)
    BY <2>1, <2>4, <2>5 DEF Known
  <2>7. \A d \in Calls : call'[d] = "opening" =>
          call[d] = "opening" /\ (HasJob(jobs, d) => HasJob(jobs', d))
    BY <1>3, <2>2, <2>3
  <2>8. \A d \in Calls : call'[d] \in {"shown", "asked"} =>
          \/ Known(dialogs', answer', d)
          \/ /\ call[d] \in {"shown", "asked"}
             /\ Known(dialogs, answer, d) => Known(dialogs', answer', d)
    BY <2>2, <2>6
  <2> QED  BY <2>7, <2>8, StillServed
<1>6. ASSUME NEW c \in Calls, CannotOpen(c)  PROVE NobodyAsksInVain'
  <2>1. /\ Head(jobs) = [do |-> "open", for |-> c] /\ UNCHANGED <<dialogs, answer>>
        /\ \/ call[c] = "opening" /\ call' = [call EXCEPT ![c] = "unavailable"]
           \/ call[c] # "opening" /\ UNCHANGED call
    BY <1>6 DEF CannotOpen
  <2>2. /\ call'[c] # "opening" /\ \A d \in Calls : d # c => call'[d] = call[d]
        /\ call'[c] \in {"shown", "asked"} => call'[c] = call[c]
    BY <1>1, <2>1
  <2>3. \A d \in Calls : d # c => Head(jobs) # [do |-> "open", for |-> d]
    <3>1. Head(jobs).for = c  BY <2>1
    <3>2. \A d \in Calls : [do |-> "open", for |-> d].for = d  OBVIOUS
    <3> QED  BY <3>1, <3>2
  <2>4. \A d \in Calls : call'[d] = "opening" =>
          call[d] = "opening" /\ (HasJob(jobs, d) => HasJob(jobs', d))
    BY <1>3, <2>2, <2>3
  <2> QED  BY <2>1, <2>2, <2>4, StillServed
<1>7. ASSUME NEW c \in Calls, Withdraws(c)  PROVE NobodyAsksInVain'
  <2>1. /\ Head(jobs) = [do |-> "withdraw", for |-> c] /\ UNCHANGED call
        /\ UNCHANGED <<dialogs, answer>> \/ ClosesTop
    BY <1>7 DEF Withdraws
  <2>2. \A d \in Calls : Head(jobs) # [do |-> "open", for |-> d]
    <3>1. Head(jobs).do = "withdraw"  BY <2>1
    <3>2. \A d \in Calls : [do |-> "open", for |-> d].do = "open"  OBVIOUS
    <3> QED  BY <3>1, <3>2
  <2>3. \A d \in Calls : Known(dialogs, answer, d) => Known(dialogs', answer', d)
    <3>1. CASE UNCHANGED <<dialogs, answer>>  BY <3>1
    <3>2. CASE ClosesTop /\ dialogs # <<>>
      <4>1. dialogs' = WithoutTop  BY <3>2 DEF ClosesTop
      <4> DEFINE top == dialogs[Len(dialogs)]
      <4>2. answer' = [d \in Calls |->
                         IF d = top /\ answer[d] = "none" THEN "closed" ELSE answer[d]]
        BY <3>2 DEF ClosesTop
      <4> HIDE DEF top
      <4>3. \A d \in Calls : /\ answer[d] # "none" => answer'[d] # "none"
                             /\ d = top => answer'[d] # "none"
        BY <4>2
      <4> QED  BY <1>1, <3>2, <4>1, <4>3, TopClosed DEF top
    <3>3. CASE ClosesTop /\ dialogs = <<>>  BY <3>3 DEF ClosesTop
    <3> QED  BY <2>1, <3>1, <3>2, <3>3
  <2> QED  BY <1>3, <2>1, <2>2, <2>3, StillServed
<1> QED  BY <1>4, <1>5, <1>6, <1>7 DEF MainThread

LEMMA UserServes ==
  ASSUME GateInv, NobodyAsksInVain, User
  PROVE  NobodyAsksInVain'
<1>1. /\ answer \in [Calls -> {"none", "allow", "deny", "closed"}]
      /\ dialogs \in Seq(Calls \cup {Other}) /\ GateTypeOK /\ Other \notin Calls
  BY BoundsAssumption DEF GateInv, OneQuestionIsOpen, GateTypeOK
<1>2. UNCHANGED <<call, jobs>>
  BY DEF User, OtherOpens, OtherCloses, WindowCloses, Answers
<1>3. \A d \in Calls : Known(dialogs, answer, d) => Known(dialogs', answer', d)
  <2>1. CASE OtherOpens
    <3> DEFINE new == Append(dialogs, Other)
    <3>1. ShownBy(new) = ShownBy(dialogs) \cup {Other}  BY <1>1, DialogsPushed
    <3>2. dialogs' = new /\ UNCHANGED answer  BY <2>1 DEF OtherOpens
    <3> HIDE DEF new
    <3> QED  BY <3>1, <3>2 DEF Known
  <2>2. CASE OtherCloses
    <3>1. /\ dialogs # <<>> /\ dialogs[Len(dialogs)] = Other /\ dialogs' = WithoutTop
          /\ UNCHANGED answer
      BY <2>2 DEF OtherCloses
    <3> QED  BY <1>1, <3>1, TopClosed
  <2>3. CASE WindowCloses
    <3>1. answer' = [d \in Calls |->
                       IF d \in Shown /\ answer[d] = "none" THEN "closed" ELSE answer[d]]
      BY <2>3 DEF WindowCloses
    <3>2. \A d \in Calls : d \in Shown \/ answer[d] # "none" => answer'[d] # "none"
      <4> DEFINE S == Shown
      <4>1. answer' = [d \in Calls |->
                         IF d \in S /\ answer[d] = "none" THEN "closed" ELSE answer[d]]
        BY <3>1
      <4> HIDE DEF S
      <4>2. \A d \in Calls : d \in S \/ answer[d] # "none" => answer'[d] # "none"  BY <4>1
      <4> QED  BY <4>2 DEF S
    <3> QED  BY <3>2 DEF Known, Shown, ShownBy
  <2>4. ASSUME NEW c \in Calls, Answers(c)
        PROVE  \A d \in Calls : Known(dialogs, answer, d) => Known(dialogs', answer', d)
    <3>1. dialogs # <<>> /\ dialogs[Len(dialogs)] = c /\ dialogs' = WithoutTop
      BY <2>4 DEF Answers
    <3>2. \A d \in Calls : /\ answer[d] # "none" => answer'[d] # "none"
                           /\ d = c => answer'[d] # "none"
      BY <1>1, <2>4 DEF Answers
    <3> QED  BY <1>1, <3>1, <3>2, TopClosed
  <2> QED  BY <2>1, <2>2, <2>3, <2>4 DEF User
<1> QED  BY <1>2, <1>3, StillServed

LEMMA NextServes == GateInv /\ NobodyAsksInVain /\ [GateNext]_gate_vars => NobodyAsksInVain'
<1> SUFFICES ASSUME GateInv, NobodyAsksInVain, [GateNext]_gate_vars
             PROVE  NobodyAsksInVain'
  OBVIOUS
<1>1. ASSUME NEW c \in Calls,
             \/ Arrives(c) \/ Handler(c) \/ Writes(c)
             \/ TimesOut(c) \/ HangsUp(c)
      PROVE  NobodyAsksInVain'
  BY <1>1, HandlersServe
<1>2. CASE Works
  <2>1. /\ jobs' = Append(jobs, [do |-> "work", for |-> NoCall])
        /\ UNCHANGED <<call, dialogs, answer>>
    BY <1>2 DEF Works
  <2>2. [do |-> "work", for |-> NoCall] \in Job  BY DEF Job
  <2>3. jobs \in Seq(Job)  BY DEF GateInv, OneQuestionIsOpen, GateTypeOK
  <2>4. \A d \in Calls : HasJob(jobs, d) => HasJob(jobs', d)  BY <2>1, <2>2, <2>3, JobPosted
  <2> QED  BY <2>1, <2>4, StillServed
<1>3. CASE MainThread  BY <1>3, MainThreadServes
<1>4. CASE User  BY <1>4, UserServes
<1>5. CASE UNCHANGED gate_vars  BY <1>5 DEF gate_vars, NobodyAsksInVain, Shown
<1> QED  BY <1>1, <1>2, <1>3, <1>4, <1>5 DEF GateNext

\* The question that is asked, and no other, is the one taken to be open, whatever
\* jobs of calls that are over wait before it and whichever windows have closed; and
\* no call waits for a dialog whose fate it will not hear of.
THEOREM SpecQuestionIsTracked == GateSpec => []QuestionIsTracked
<1>1. GateInit => NobodyAsksInVain  BY DEF GateInit, NobodyAsksInVain
<1>2. GateSpec => []NobodyAsksInVain  BY <1>1, NextServes, SpecGate, PTL DEF GateSpec
<1>3. GateInv /\ NobodyAsksInVain => QuestionIsTracked  BY DEF GateInv, QuestionIsTracked
<1> QED  BY <1>2, <1>3, SpecGate, PTL

LEMMA WithdrawalSpares ==
  ASSUME GateInv, NEW c \in Calls, Withdraws(c)
  PROVE  /\ c \notin Shown => UNCHANGED dialogs
         /\ \A d \in Calls : c # d =>
              answer'[d] = answer[d] /\ (d \in Shown => d \in Shown')
<1>1. /\ TrackOK(dialogs, open_question, shown_in, window)
      /\ dialogs \in Seq(Calls \cup {Other})
      /\ answer \in [Calls -> {"none", "allow", "deny", "closed"}]
  BY DEF GateInv, OneQuestionIsOpen, GateTypeOK
<1>2. CASE open_question # c \/ shown_in[c] # window \/ dialogs = <<>>
  BY <1>2 DEF Withdraws, ClosesTop, Shown
<1>3. CASE open_question = c /\ shown_in[c] = window /\ dialogs # <<>>
  <2> DEFINE n == Len(dialogs)
  <2>1. n \in DOMAIN dialogs /\ \A i \in DOMAIN dialogs : i = n \/ i < n  BY <1>1, <1>3
  <2>2. answer' = [d \in Calls |->
                     IF d = dialogs[n] /\ answer[d] = "none" THEN "closed" ELSE answer[d]]
    BY <1>3 DEF Withdraws, ClosesTop
  <2>3. dialogs' = SubSeq(dialogs, 1, n - 1) /\ n \in Nat
    BY <1>1, <1>3 DEF Withdraws, ClosesTop, WithoutTop
  <2> HIDE DEF n
  <2>4. \A i \in DOMAIN dialogs : i < n => i \in DOMAIN dialogs' /\ dialogs'[i] = dialogs[i]
    BY <1>1, <2>1, <2>3
  <2>5. c \in ShownBy(dialogs)  BY <1>1, <1>3 DEF TrackOK
  <2>6. PICK i \in DOMAIN dialogs : dialogs[i] = c  BY <2>5 DEF ShownBy
  <2>7. dialogs[n] = c \/ dialogs[n] \notin Calls  BY <1>1, <1>3, <2>1, <2>6 DEF TrackOK
  <2>8. ASSUME NEW d \in Calls, c # d, d \in Shown  PROVE d \in Shown'
    <3>1. PICK j \in DOMAIN dialogs : dialogs[j] = d  BY <2>8 DEF Shown
    <3>2. j < n  BY <2>1, <2>7, <2>8, <3>1
    <3> QED  BY <2>4, <3>1, <3>2 DEF Shown
  <2> QED  BY <2>2, <2>5, <2>7, <2>8 DEF Shown, ShownBy
<1> QED  BY <1>2, <1>3

\* A withdrawal that finds its question answered closes no dialog, and none closes
\* another call's question: withdraw closes whatever is on top, which is its own
\* question or a dialog that is none.
THEOREM SpecWithdrawalSparesOtherQuestions == GateSpec => WithdrawalSparesOtherQuestions
<1> DEFINE A == \A c \in Calls : Withdraws(c) /\ c \notin Shown => UNCHANGED dialogs
           B == \A c, d \in Calls : Withdraws(c) /\ c # d =>
                  answer'[d] = answer[d] /\ (d \in Shown => d \in Shown')
<1>1. GateInv => A /\ B  BY WithdrawalSpares
<1>2. AnsweredClosesNothing <=> [][A]_gate_vars  BY PTL DEF AnsweredClosesNothing
<1>3. WithdrawsOnlyItsOwn <=> [][B]_gate_vars  BY PTL DEF WithdrawsOnlyItsOwn
<1> HIDE DEF A, B
<1>4. GateSpec => [][A]_gate_vars /\ [][B]_gate_vars  BY <1>1, SpecGate, PTL DEF GateSpec
<1> QED  BY <1>2, <1>3, <1>4, PTL DEF WithdrawalSparesOtherQuestions
=============================================================================
