------------------------- MODULE ObjectStores_proofs -------------------------
(***************************************************************************)
(* Proofs about ObjectStores and the index under it: the index keeps its   *)
(* rows and their places apart from each other's changes, a table always   *)
(* shows one point of the server's history, it flashes what happened, and  *)
(* the store implements a live view of the cluster.                        *)
(***************************************************************************)
EXTENDS ObjectStores, FiniteSetTheorems, SequenceTheorems, WellFoundedInduction, TLAPS

\* The indexes over these keys and rows.
IsIndex(index, Keys, Items) ==
  /\ index = [items |-> index.items, uids |-> index.uids, positions |-> index.positions]
  /\ index.items \in Seq(Items)
  /\ index.uids \in Seq(Keys)
  /\ DOMAIN index.positions \subseteq Keys
  /\ index.positions = [u \in DOMAIN index.positions |-> index.positions[u]]
  /\ WellFormed(index)

\* new is index but for the row of uid.
OthersStay(index, new, uid) ==
  /\ \A u : u # uid => (contains(new, u) <=> contains(index, u))
  /\ \A u : u # uid /\ contains(index, u) => RowOf(new, u) = RowOf(index, u)

\* Removing by swapping leaves all but one element, and moves one.
LEMMA SwapRemoveElements ==
  ASSUME NEW S, NEW s \in Seq(S), NEW i \in 1 .. Len(s)
  PROVE  /\ swap_remove(s, i) \in Seq(S)
         /\ Len(swap_remove(s, i)) = Len(s) - 1
         /\ i < Len(s) => swap_remove(s, i)[i] = s[Len(s)]
         /\ \A j \in 1 .. Len(s) - 1 : j # i => swap_remove(s, i)[j] = s[j]
<1>1. Len(s) \in Nat /\ Len(s) - 1 \in Nat OBVIOUS
<1> DEFINE new == [j \in 1 .. Len(s) - 1 |-> IF j = i THEN s[Len(s)] ELSE s[j]]
<1>2. \A j \in 1 .. Len(s) : s[j] \in S OBVIOUS
<1>3. \A j \in 1 .. Len(s) - 1 : new[j] \in S BY <1>1, <1>2
<1>4. new \in [1 .. Len(s) - 1 -> S] BY <1>3
<1>5. new \in Seq(S) /\ Len(new) = Len(s) - 1 BY <1>1, <1>4
<1> QED BY <1>1, <1>5 DEF swap_remove

\* An object that is applied has its row, new or in the place of the old one
\* (ResourceIndex::apply_applied).
THEOREM AppliedPuts ==
  ASSUME NEW Keys, NEW Items, NEW index, IsIndex(index, Keys, Items),
         NEW uid \in Keys, NEW item \in Items
  PROVE  LET new == apply_applied(index, uid, item)
         IN /\ IsIndex(new, Keys, Items)
            /\ contains(new, uid) /\ RowOf(new, uid) = item
            /\ OthersStay(index, new, uid)
<1> DEFINE new == apply_applied(index, uid, item)
           p   == index.positions
           n   == Len(index.uids)
<1>1. n \in Nat /\ Len(index.items) = n
  BY DEF IsIndex, WellFormed
<1>2. CASE contains(index, uid)
  <2>1. /\ new.items = [index.items EXCEPT ![p[uid]] = item]
        /\ new.uids = index.uids /\ new.positions = p
    BY <1>2 DEF apply_applied
  <2>2. p[uid] \in 1 .. n BY <1>2 DEF IsIndex, WellFormed, contains
  <2>3. /\ new.items \in Seq(Items) /\ Len(new.items) = n
        /\ new.items[p[uid]] = item
        /\ \A i \in 1 .. n : i # p[uid] => new.items[i] = index.items[i]
    BY <1>1, <2>1, <2>2 DEF IsIndex
  <2>4. WellFormed(new) BY <1>1, <2>1, <2>3 DEF IsIndex, WellFormed
  <2>5. new = [items |-> new.items, uids |-> new.uids, positions |-> new.positions]
    BY <1>2 DEF apply_applied
  <2>6. IsIndex(new, Keys, Items) BY <2>1, <2>3, <2>4, <2>5 DEF IsIndex
  <2>7. \A u : u # uid /\ contains(index, u) => p[u] \in 1 .. n /\ p[u] # p[uid]
    BY <1>2 DEF IsIndex, WellFormed, contains
  <2>8. OthersStay(index, new, uid)
    BY <2>1, <2>3, <2>7 DEF OthersStay, contains, RowOf
  <2> QED BY <1>2, <2>1, <2>3, <2>6, <2>8 DEF contains, RowOf
<1>3. CASE ~contains(index, uid)
  <2> DEFINE q == [u \in DOMAIN p \cup {uid} |-> IF u = uid THEN n + 1 ELSE p[u]]
  <2>1. /\ new.items = Append(index.items, item)
        /\ new.uids = Append(index.uids, uid)
        /\ new.positions = q
    BY <1>1, <1>3 DEF apply_applied
  <2>2. /\ new.items \in Seq(Items) /\ Len(new.items) = n + 1
        /\ new.items[n + 1] = item
        /\ \A i \in 1 .. n : new.items[i] = index.items[i]
    BY <1>1, <2>1 DEF IsIndex
  <2>3. /\ new.uids \in Seq(Keys) /\ Len(new.uids) = n + 1
        /\ new.uids[n + 1] = uid
        /\ \A i \in 1 .. n : new.uids[i] = index.uids[i]
    BY <1>1, <2>1 DEF IsIndex
  <2>4. \A u \in DOMAIN p : p[u] \in 1 .. n /\ index.uids[p[u]] = u /\ u # uid
    BY <1>3 DEF IsIndex, WellFormed, contains
  <2>5. \A i \in 1 .. n : index.uids[i] \in DOMAIN p /\ p[index.uids[i]] = i
    BY DEF IsIndex, WellFormed
  <2>6. DOMAIN q = DOMAIN p \cup {uid} /\ q[uid] = n + 1 OBVIOUS
  <2>7. \A u \in DOMAIN p : q[u] = p[u] BY <2>4
  <2> HIDE DEF q, new
  <2>8. \A u \in DOMAIN q : q[u] \in 1 .. n + 1 /\ new.uids[q[u]] = u
    BY <1>1, <2>3, <2>4, <2>6, <2>7
  <2>9. \A i \in 1 .. n + 1 : new.uids[i] \in DOMAIN q /\ q[new.uids[i]] = i
    <3> SUFFICES ASSUME NEW i \in 1 .. n + 1
                 PROVE  new.uids[i] \in DOMAIN q /\ q[new.uids[i]] = i
      OBVIOUS
    <3>1. CASE i = n + 1 BY <3>1, <2>3, <2>6
    <3>2. CASE i \in 1 .. n BY <3>2, <2>3, <2>5, <2>6, <2>7
    <3> QED BY <1>1, <3>1, <3>2
  <2>10. WellFormed(new) BY <2>1, <2>2, <2>3, <2>8, <2>9 DEF WellFormed
  <2>11. new = [items |-> new.items, uids |-> new.uids, positions |-> new.positions]
    BY <1>3 DEF new, apply_applied
  <2>12. q = [u \in DOMAIN q |-> q[u]] BY DEF q
  <2>13. IsIndex(new, Keys, Items)
    BY <2>1, <2>2, <2>3, <2>6, <2>10, <2>11, <2>12 DEF IsIndex
  <2>14. OthersStay(index, new, uid)
    BY <2>1, <2>2, <2>4, <2>6, <2>7 DEF OthersStay, contains, RowOf
  <2>15. contains(new, uid) /\ RowOf(new, uid) = item
    BY <2>1, <2>2, <2>6 DEF contains, RowOf
  <2> QED BY <2>13, <2>14, <2>15 DEF new
<1> QED BY <1>2, <1>3

\* An object that is deleted has no row, and the row swapped into its place is
\* found there (ResourceIndex::apply_deleted).
THEOREM DeletedDrops ==
  ASSUME NEW Keys, NEW Items, NEW index, IsIndex(index, Keys, Items), NEW uid
  PROVE  LET new == apply_deleted(index, uid)
         IN /\ IsIndex(new, Keys, Items)
            /\ ~contains(new, uid)
            /\ OthersStay(index, new, uid)
<1> DEFINE new == apply_deleted(index, uid)
           p   == index.positions
           n   == Len(index.uids)
           i   == p[uid]
<1>1. n \in Nat /\ Len(index.items) = n
  BY DEF IsIndex, WellFormed
<1>2. CASE ~contains(index, uid)
  BY <1>2 DEF apply_deleted, OthersStay
<1>3. CASE contains(index, uid)
  <2> DEFINE q == [u \in DOMAIN p \ {uid} |->
                     IF i <= Len(swap_remove(index.uids, i))
                        /\ swap_remove(index.uids, i)[i] = u
                     THEN i ELSE p[u]]
  <2>1. /\ new.items = swap_remove(index.items, i)
        /\ new.uids = swap_remove(index.uids, i)
        /\ new.positions = q
        /\ new = [items |-> new.items, uids |-> new.uids, positions |-> new.positions]
    BY <1>3 DEF apply_deleted
  <2>2. i \in 1 .. n /\ index.uids[i] = uid BY <1>3 DEF IsIndex, WellFormed, contains
  <2>3. /\ new.items \in Seq(Items) /\ Len(new.items) = n - 1
        /\ i < n => new.items[i] = index.items[n]
        /\ \A j \in 1 .. n - 1 : j # i => new.items[j] = index.items[j]
    BY <1>1, <2>1, <2>2, SwapRemoveElements DEF IsIndex
  <2>4. /\ new.uids \in Seq(Keys) /\ Len(new.uids) = n - 1
        /\ i < n => new.uids[i] = index.uids[n]
        /\ \A j \in 1 .. n - 1 : j # i => new.uids[j] = index.uids[j]
    BY <1>1, <2>1, <2>2, SwapRemoveElements DEF IsIndex
  <2>5. \A u \in DOMAIN p : p[u] \in 1 .. n /\ index.uids[p[u]] = u
    BY DEF IsIndex, WellFormed
  <2>6. \A j \in 1 .. n : index.uids[j] \in DOMAIN p /\ p[index.uids[j]] = j
    BY DEF IsIndex, WellFormed
  <2>7. DOMAIN q = DOMAIN p \ {uid} OBVIOUS
  <2>8. \A u \in DOMAIN q : q[u] = IF i < n /\ index.uids[n] = u THEN i ELSE p[u]
    BY <1>1, <2>1, <2>2, <2>4
  <2>9. q = [u \in DOMAIN q |-> q[u]] OBVIOUS
  <2> HIDE DEF q, new, i
  \* The last row is the one that is moved, if it is not the one removed.
  <2>10. \A u \in DOMAIN q :
           /\ p[u] # i
           /\ p[u] = n => i < n /\ index.uids[n] = u
           /\ index.uids[n] = u => p[u] = n
    <3> SUFFICES ASSUME NEW u \in DOMAIN q
                 PROVE  /\ p[u] # i
                        /\ p[u] = n => i < n /\ index.uids[n] = u
                        /\ index.uids[n] = u => p[u] = n
      OBVIOUS
    <3>1. u # uid /\ p[u] \in 1 .. n /\ index.uids[p[u]] = u BY <2>5, <2>7
    <3>2. p[u] # i BY <2>2, <3>1
    <3>3. n \in 1 .. n /\ p[index.uids[n]] = n BY <1>1, <2>2, <2>6
    <3>4. p[u] = n => i < n /\ index.uids[n] = u BY <1>1, <2>2, <3>1, <3>2
    <3> QED BY <3>2, <3>3, <3>4
  <2>11. \A u \in DOMAIN q : q[u] = IF p[u] = n THEN i ELSE p[u]
    BY <2>8, <2>10
  <2>12. \A u \in DOMAIN q :
           /\ q[u] \in 1 .. n - 1
           /\ new.uids[q[u]] = u
           /\ new.items[q[u]] = index.items[p[u]]
    <3> SUFFICES ASSUME NEW u \in DOMAIN q
                 PROVE  /\ q[u] \in 1 .. n - 1
                        /\ new.uids[q[u]] = u
                        /\ new.items[q[u]] = index.items[p[u]]
      OBVIOUS
    <3>1. u \in DOMAIN p /\ p[u] \in 1 .. n /\ index.uids[p[u]] = u BY <2>5, <2>7
    <3>2. CASE p[u] = n
      <4>1. i < n /\ index.uids[n] = u /\ q[u] = i BY <3>2, <2>10, <2>11
      <4> QED BY <4>1, <3>2, <1>1, <2>2, <2>3, <2>4
    <3>3. CASE p[u] # n
      <4>1. q[u] = p[u] /\ p[u] # i BY <3>3, <2>10, <2>11
      <4>2. p[u] \in 1 .. n - 1 BY <3>1, <3>3, <1>1
      <4> QED BY <4>1, <4>2, <3>1, <2>3, <2>4
    <3> QED BY <3>2, <3>3
  <2>13. \A j \in 1 .. n - 1 : new.uids[j] \in DOMAIN q /\ q[new.uids[j]] = j
    <3> SUFFICES ASSUME NEW j \in 1 .. n - 1
                 PROVE  new.uids[j] \in DOMAIN q /\ q[new.uids[j]] = j
      OBVIOUS
    <3>1. CASE j = i
      <4>1. i < n /\ new.uids[j] = index.uids[n] BY <1>1, <2>4, <3>1
      <4>2. index.uids[n] \in DOMAIN p /\ p[index.uids[n]] = n BY <1>1, <2>2, <2>6, <4>1
      <4>3. index.uids[n] # uid BY <1>1, <2>2, <2>6, <4>1, <4>2 DEF i
      <4> QED BY <3>1, <4>1, <4>2, <4>3, <2>7, <2>11
    <3>2. CASE j # i
      <4>1. new.uids[j] = index.uids[j] BY <2>4, <3>2
      <4>2. j \in 1 .. n /\ j # n BY <1>1
      <4>3. index.uids[j] \in DOMAIN p /\ p[index.uids[j]] = j BY <4>2, <2>6
      <4>4. index.uids[j] # uid BY <3>2, <4>3 DEF i
      <4> QED BY <4>1, <4>2, <4>3, <4>4, <2>7, <2>11
    <3> QED BY <3>1, <3>2
  <2>14. WellFormed(new) BY <2>1, <2>3, <2>4, <2>12, <2>13 DEF WellFormed
  <2>15. IsIndex(new, Keys, Items)
    <3>1. DOMAIN q \subseteq Keys BY <2>7 DEF IsIndex
    <3> QED BY <2>1, <2>3, <2>4, <2>9, <2>14, <3>1 DEF IsIndex
  <2>16. OthersStay(index, new, uid)
    BY <2>1, <2>7, <2>12 DEF OthersStay, contains, RowOf
  <2>17. ~contains(new, uid) BY <2>1, <2>7 DEF contains
  <2> QED BY <2>15, <2>16, <2>17 DEF new
<1> QED BY <1>2, <1>3
-----------------------------------------------------------------------------
\* Induction over the numbers of a set.
LEMMA SetInduction ==
  ASSUME NEW S, 0 \in S, \A n \in Nat : n \in S => n + 1 \in S
  PROVE  Nat \subseteq S
<1> DEFINE T == Nat \ S
<1> SUFFICES ASSUME T # {}  PROVE FALSE  OBVIOUS
<1>1. PICK x \in T : \A y \in T : ~(<<y, x>> \in OpToRel(<, Nat))
  <2>1. IsWellFoundedOn(OpToRel(<, Nat), Nat)  BY NatLessThanWellFounded
  <2>2. T \subseteq Nat  OBVIOUS
  <2> HIDE DEF T
  <2> QED  BY <2>1, <2>2, WFMin
<1>2. x # 0 /\ x - 1 \in Nat  OBVIOUS
<1>3. x - 1 \in T  BY <1>2
<1>4. <<x - 1, x>> \in OpToRel(<, Nat)  BY <1>2 DEF OpToRel
<1> QED  BY <1>1, <1>3, <1>4

\* The rows under the numbers that changes have.
Rows == Nat \ {0}

\* A sweep takes out the rows of the stale uids and no others, whatever rows
\* are moved meanwhile (InitDone).
LEMMA WithoutDrops ==
  ASSUME NEW index, IsIndex(index, Uids, Rows), NEW stale \in SUBSET Uids
  PROVE  LET new == Without(index, stale)
         IN /\ IsIndex(new, Uids, Rows)
            /\ \A u : contains(new, u) <=> contains(index, u) /\ u \notin stale
            /\ \A u : contains(new, u) => RowOf(new, u) = RowOf(index, u)
<1> DEFINE N == Len(index.uids)
           uids == index.uids
           Body(g, n) == IF n = 0 THEN index
                         ELSE IF uids[n] \in stale THEN apply_deleted(g[n - 1], uids[n])
                         ELSE g[n - 1]
           after == CHOOSE g : g = [n \in 0 .. N |-> Body(g, n)]
<1>1. Without(index, stale) = after[N]  BY DEF Without
<1>2. N \in Nat /\ uids \in Seq(Uids)  BY DEF IsIndex
<1>3. \E g : g = [n \in 0 .. N |-> Body(g, n)]
  <2> DEFINE S == {m \in Nat : \E g : g = [n \in 0 .. m |-> Body(g, n)]}
  <2>1. 0 \in S
    <3> DEFINE g == [n \in 0 .. 0 |-> index]
    <3>1. g = [n \in 0 .. 0 |-> Body(g, n)]  OBVIOUS
    <3> QED  BY <3>1
  <2>2. ASSUME NEW m \in Nat, m \in S  PROVE m + 1 \in S
    <3>1. PICK g : g = [n \in 0 .. m |-> Body(g, n)]  BY <2>2
    <3> DEFINE top == Body(g, m + 1)
               h == [n \in 0 .. m + 1 |-> IF n = m + 1 THEN top ELSE g[n]]
    <3> HIDE DEF top
    <3>2. \A n \in 0 .. m : h[n] = g[n] /\ g[n] = Body(g, n)  BY <3>1
    <3>3. \A n \in 0 .. m + 1 : h[n] = Body(h, n)
      <4> SUFFICES ASSUME NEW n \in 0 .. m + 1  PROVE h[n] = Body(h, n)  OBVIOUS
      <4>2. CASE n = m + 1
        <5>1. h[n] = top /\ n # 0 /\ n - 1 = m /\ h[m] = g[m]  BY <4>2
        <5>2. uids[n] \in stale => top = apply_deleted(g[m], uids[n])  BY <4>2, <5>1 DEF top
        <5>3. uids[n] \notin stale => top = g[m]  BY <4>2, <5>1 DEF top
        <5> QED  BY <5>1, <5>2, <5>3
      <4>3. CASE n \in 0 .. m
        <5>1. h[n] = g[n] /\ g[n] = Body(g, n)  BY <4>3, <3>2
        <5>2. n # 0 => h[n - 1] = g[n - 1]  BY <4>3
        <5>3. Body(h, n) = Body(g, n)  BY <5>2
        <5> QED  BY <5>1, <5>3
      <4> QED  BY <4>2, <4>3
    <3>4. h = [n \in 0 .. m + 1 |-> Body(h, n)]  BY <3>3
    <3> HIDE DEF h
    <3>5. \E k : k = [n \in 0 .. m + 1 |-> Body(k, n)]  BY <3>4
    <3> QED  BY <3>5
  <2> HIDE DEF S
  <2>3. N \in S  BY <1>2, <2>1, <2>2, SetInduction
  <2> QED  BY <2>3 DEF S
<1>4. after = [n \in 0 .. N |-> Body(after, n)]  BY <1>3
<1> HIDE DEF after
<1>5. after[0] = index  BY <1>2, <1>4
<1>6. \A m \in Nat : m + 1 <= N =>
        after[m + 1] = IF uids[m + 1] \in stale THEN apply_deleted(after[m], uids[m + 1])
                       ELSE after[m]
  BY <1>2, <1>4
<1> DEFINE Gone(m) == {uids[i] : i \in 1 .. m} \cap stale
           OK(m) == /\ IsIndex(after[m], Uids, Rows)
                    /\ \A u : contains(after[m], u) <=> contains(index, u) /\ u \notin Gone(m)
                    /\ \A u : contains(after[m], u) => RowOf(after[m], u) = RowOf(index, u)
           S == {m \in Nat : m <= N => OK(m)}
<1>7. 0 \in S  BY <1>5
<1>8. ASSUME NEW m \in Nat, m \in S  PROVE m + 1 \in S
  <2> SUFFICES ASSUME m + 1 <= N  PROVE OK(m + 1)  OBVIOUS
  <2>1. OK(m)  BY <1>2, <1>8
  <2>2. uids[m + 1] \in Uids  BY <1>2
  <2>3. Gone(m + 1) = Gone(m) \cup ({uids[m + 1]} \cap stale)
    <3>1. 1 .. m + 1 = (1 .. m) \cup {m + 1}  OBVIOUS
    <3> QED  BY <3>1
  <2> HIDE DEF Gone
  <2>4. CASE uids[m + 1] \in stale
    <3> DEFINE new == apply_deleted(after[m], uids[m + 1])
    <3>1. after[m + 1] = new  BY <1>6, <2>4
    <3>2. /\ IsIndex(new, Uids, Rows) /\ ~contains(new, uids[m + 1])
          /\ OthersStay(after[m], new, uids[m + 1])
      BY <2>1, DeletedDrops
    <3> HIDE DEF new
    <3>3. \A u : contains(new, u) <=> contains(after[m], u) /\ u # uids[m + 1]
      BY <3>2 DEF OthersStay
    <3>4. \A u : contains(new, u) => RowOf(new, u) = RowOf(after[m], u)
      BY <3>2, <3>3 DEF OthersStay
    <3>5. \A u : contains(new, u) <=> contains(index, u) /\ u \notin Gone(m + 1)
      BY <2>1, <2>3, <2>4, <3>3
    <3>6. \A u : contains(new, u) => RowOf(new, u) = RowOf(index, u)
      BY <2>1, <3>3, <3>4
    <3> QED  BY <3>1, <3>2, <3>5, <3>6
  <2>5. CASE uids[m + 1] \notin stale
    BY <1>6, <2>1, <2>3, <2>5
  <2> QED  BY <2>4, <2>5
<1> HIDE DEF S
<1>9. N \in S  BY <1>2, <1>7, <1>8, SetInduction
<1>10. OK(N)  BY <1>2, <1>9 DEF S
<1>11. \A u : contains(index, u) => u \in {uids[i] : i \in 1 .. N}
  BY DEF IsIndex, WellFormed, contains
<1> QED  BY <1>1, <1>10, <1>11
-----------------------------------------------------------------------------
\* The server's objects, change by change.
Line == [uid : Uids, change : Changes]

LEMMA LargestIsThere ==
  ASSUME NEW n \in Nat, NEW S \in SUBSET (0 .. n), 0 \in S
  PROVE  Max(S) \in S /\ \A y \in S : y <= Max(S)
<1> DEFINE T == {m \in Nat : \A X \in SUBSET (0 .. m) :
                               0 \in X => \E x \in X : \A y \in X : x >= y}
<1>1. 0 \in T  OBVIOUS
<1>2. ASSUME NEW m \in Nat, m \in T  PROVE m + 1 \in T
  <2> SUFFICES ASSUME NEW X \in SUBSET (0 .. m + 1), 0 \in X
               PROVE  \E x \in X : \A y \in X : x >= y
    OBVIOUS
  <2>1. CASE m + 1 \in X  BY <2>1
  <2>2. CASE m + 1 \notin X
    <3>1. X \in SUBSET (0 .. m)  BY <2>2
    <3> QED  BY <1>2, <3>1
  <2> QED  BY <2>1, <2>2
<1> HIDE DEF T
<1>3. n \in T  BY <1>1, <1>2, SetInduction
<1>4. \E x \in S : \A y \in S : x >= y  BY <1>3 DEF T
<1> DEFINE mx == Max(S)
<1>5. mx \in S /\ \A y \in S : mx >= y  BY <1>4 DEF Max
<1> QED  BY <1>5

\* The last of the first n changes that is about u, 0 for none.
LastChange(n, u) == Max({i \in 1 .. n : log[i].uid = u} \cup {0})

LEMMA LastOne ==
  ASSUME NEW n \in Nat, NEW u
  PROVE  /\ LastChange(n, u) \in 0 .. n
         /\ LastChange(n, u) # 0 => log[LastChange(n, u)].uid = u
         /\ \A i \in 1 .. n : log[i].uid = u => i <= LastChange(n, u)
<1> DEFINE S == {i \in 1 .. n : log[i].uid = u} \cup {0}
<1>1. S \in SUBSET (0 .. n) /\ 0 \in S  OBVIOUS
<1>2. \A i \in 1 .. n : log[i].uid = u => i \in S  OBVIOUS
<1>3. \A i \in S : i # 0 => log[i].uid = u  OBVIOUS
<1>4. LastChange(n, u) = Max(S)  BY DEF LastChange
<1> HIDE DEF S
<1>5. Max(S) \in S /\ \A y \in S : y <= Max(S)  BY <1>1, LargestIsThere
<1> QED  BY <1>1, <1>2, <1>3, <1>4, <1>5

LEMMA StateOf ==
  ASSUME NEW n, NEW u \in Uids
  PROVE  StateAt(n)[u] = IF LastChange(n, u) = 0 THEN 0
                         ELSE IF log[LastChange(n, u)].change = "Deleted" THEN 0
                         ELSE LastChange(n, u)
BY DEF StateAt, LastChange

\* An object that is there is there in its last version.
LEMMA StateIsAVersion ==
  ASSUME NEW n \in Nat, NEW u \in Uids
  PROVE  /\ StateAt(n)[u] \in 0 .. n
         /\ StateAt(n)[u] # 0 => /\ log[StateAt(n)[u]].uid = u
                                 /\ log[StateAt(n)[u]].change # "Deleted"
BY LastOne, StateOf

\* An object is there, in the same version or a later one, or was deleted.
LEMMA StateIsNewer ==
  ASSUME NEW n \in Nat, NEW u \in Uids, NEW v \in 1 .. n, log[v].uid = u
  PROVE  \/ v <= StateAt(n)[u]
         \/ StateAt(n)[u] = 0 /\ \E i \in 1 .. n : log[i].uid = u /\ log[i].change = "Deleted"
BY LastOne, StateOf

\* One more change touches its object alone.
LEMMA StateSteps ==
  ASSUME NEW n \in Nat, NEW u \in Uids
  PROVE  StateAt(n + 1)[u] =
           IF log[n + 1].uid # u THEN StateAt(n)[u]
           ELSE IF log[n + 1].change = "Deleted" THEN 0 ELSE n + 1
<1>1. CASE log[n + 1].uid = u
  <2>1. LastChange(n + 1, u) = n + 1  BY <1>1, LastOne
  <2> QED  BY <1>1, <2>1, StateOf
<1>2. CASE log[n + 1].uid # u
  <2>1. {i \in 1 .. n + 1 : log[i].uid = u} = {i \in 1 .. n : log[i].uid = u}
    BY <1>2
  <2>2. LastChange(n + 1, u) = LastChange(n, u)  BY <2>1 DEF LastChange
  <2> QED  BY <1>2, <2>2, StateOf
<1> QED  BY <1>1, <1>2

LEMMA StateStart ==
  ASSUME NEW u \in Uids
  PROVE  StateAt(0)[u] = 0
BY StateIsAVersion

\* A uid that no change is about is not there.
LEMMA StateBefore ==
  ASSUME NEW n \in Nat, NEW u \in Uids, \A i \in 1 .. n : log[i].uid # u
  PROVE  StateAt(n)[u] = 0
BY LastOne, StateOf

\* What has happened stays.
LEMMA StateStays ==
  ASSUME log \in Seq(Line), NEW line, log' = Append(log, line), NEW n \in 0 .. Len(log)
  PROVE  StateAt(n)' = StateAt(n)
<1>1. \A i \in 1 .. Len(log) : log'[i] = log[i]  OBVIOUS
<1>2. \A u \in Uids : StateAt(n)'[u] = StateAt(n)[u]
  <2> SUFFICES ASSUME NEW u \in Uids  PROVE StateAt(n)'[u] = StateAt(n)[u]  OBVIOUS
  <2>1. {i \in 1 .. n : log'[i].uid = u} = {i \in 1 .. n : log[i].uid = u}  BY <1>1
  <2>2. LastChange(n, u)' = LastChange(n, u)  BY <2>1 DEF LastChange
  <2>3. LastChange(n, u) \in 0 .. n  BY LastOne
  <2>4. LastChange(n, u) # 0 => log'[LastChange(n, u)] = log[LastChange(n, u)]  BY <1>1, <2>3
  <2>5. StateAt(n)'[u] = IF LastChange(n, u)' = 0 THEN 0
                         ELSE IF log'[LastChange(n, u)'].change = "Deleted" THEN 0
                         ELSE LastChange(n, u)'
    BY DEF StateAt, LastChange
  <2> QED  BY <2>2, <2>4, <2>5, StateOf
<1>3. StateAt(n) = [u \in Uids |-> StateAt(n)[u]]  BY DEF StateAt
<1>4. StateAt(n)' = [u \in Uids |-> StateAt(n)'[u]]  BY DEF StateAt
<1> QED  BY <1>2, <1>3, <1>4

\* A list of the objects there has each of them in its version.
LEMMA ListedObjects ==
  ASSUME NEW state \in [Uids -> Nat], NEW objects \in ListsOf(state)
  PROVE  /\ objects \in Seq([uid : Uids, rv : Nat]) /\ Len(objects) \in Nat
         /\ \A i \in 1 .. Len(objects) :
              objects[i].uid \in Present(state) /\ objects[i].rv = state[objects[i].uid]
         /\ \A u \in Present(state) : \E i \in 1 .. Len(objects) : objects[i].uid = u
<1> DEFINE O == Present(state)
           c == Cardinality(O)
<1>1. O \subseteq Uids  BY DEF Present
<1>2. c \in Nat  BY <1>1, UidsAssumption, FS_Subset, FS_CardinalityType
<1>3. PICK order \in [1 .. c -> O] :
        /\ Range(order) = O
        /\ objects = [i \in DOMAIN order |-> [uid |-> order[i], rv |-> state[order[i]]]]
  BY DEF ListsOf
<1> HIDE DEF c, O
<1>4. objects = [i \in 1 .. c |-> [uid |-> order[i], rv |-> state[order[i]]]]
  BY <1>3
<1>5. objects \in [1 .. c -> [uid : Uids, rv : Nat]]  BY <1>1, <1>3, <1>4
<1>6. Len(objects) = c  BY <1>2, <1>5
<1>7. \A u \in O : \E i \in 1 .. c : order[i] = u  BY <1>3 DEF Range
<1>8. \A i \in 1 .. c : objects[i].uid = order[i] /\ objects[i].rv = state[order[i]]
  BY <1>4
<1> QED  BY <1>2, <1>3, <1>5, <1>6, <1>7, <1>8 DEF O
-----------------------------------------------------------------------------
\* The table's events.
Row(t, u) == IF contains(t.index, u) THEN RowOf(t.index, u) ELSE 0

\* How a table is built.
IsTable(t) ==
  /\ t \in [index : {t.index}, relisting : BOOLEAN, seen : SUBSET Uids, phase : Phases,
            refused : BOOLEAN, journal : SUBSET [rv : Nat, change : Changes]]
  /\ IsIndex(t.index, Uids, Rows)
  /\ ~t.relisting => t.seen = {}
  /\ t.phase = "FirstLoad" => t.journal = {}

\* A row is a row of its object's index, and 0 where there is none.
LEMMA RowIsThere ==
  ASSUME NEW t, IsTable(t), NEW u
  PROVE  /\ contains(t.index, u) <=> Row(t, u) # 0
         /\ Row(t, u) \in Nat
<1>1. CASE contains(t.index, u)
  <2>1. t.index.positions[u] \in 1 .. Len(t.index.items) /\ t.index.items \in Seq(Rows)
    BY <1>1 DEF IsTable, IsIndex, WellFormed, contains
  <2>2. RowOf(t.index, u) \in Rows  BY <2>1 DEF RowOf
  <2> QED  BY <1>1, <2>2 DEF Row, Rows
<1>2. CASE ~contains(t.index, u)  BY <1>2 DEF Row
<1> QED  BY <1>1, <1>2

LEMMA InitApplies ==
  ASSUME NEW t, IsTable(t), NEW u \in Uids, NEW rv \in Rows
  PROVE  LET new == InitApply(t, u, rv)
         IN /\ IsTable(new)
            /\ new.relisting = t.relisting /\ new.phase = t.phase /\ new.journal = t.journal
            /\ new.seen = IF t.relisting THEN t.seen \cup {u} ELSE t.seen
            /\ \A w : Row(new, w) = IF w = u THEN rv ELSE Row(t, w)
<1> DEFINE index == apply_applied(t.index, u, rv)
           new == InitApply(t, u, rv)
<1>1. IsIndex(t.index, Uids, Rows)  BY DEF IsTable
<1>2. /\ IsIndex(index, Uids, Rows) /\ contains(index, u) /\ RowOf(index, u) = rv
      /\ OthersStay(t.index, index, u)
  BY <1>1, AppliedPuts
<1> HIDE DEF index
<1>3. /\ new.index = index /\ new.relisting = t.relisting /\ new.phase = t.phase
      /\ new.journal = t.journal /\ new.refused = t.refused
      /\ new.seen = IF t.relisting THEN t.seen \cup {u} ELSE t.seen
      /\ new \in [index : {index}, relisting : BOOLEAN, seen : SUBSET Uids, phase : Phases,
                  refused : BOOLEAN, journal : SUBSET [rv : Nat, change : Changes]]
  BY DEF InitApply, IsTable, index
<1> HIDE DEF new
<1>4. IsTable(new)  BY <1>2, <1>3 DEF IsTable
<1>5. \A w : Row(new, w) = IF w = u THEN rv ELSE Row(t, w)
  BY <1>2, <1>3 DEF Row, OthersStay
<1> QED  BY <1>3, <1>4, <1>5 DEF new

LEMMA Applies ==
  ASSUME NEW t, IsTable(t), NEW u \in Uids, NEW rv \in Rows
  PROVE  LET new == Apply(t, u, rv)
         IN /\ IsTable(new)
            /\ new.relisting = t.relisting /\ new.phase = t.phase /\ new.seen = t.seen
            /\ new.journal =
                 Journals(t, rv, IF contains(t.index, u) THEN "Modified" ELSE "Added")
            /\ \A w : Row(new, w) = IF w = u THEN rv ELSE Row(t, w)
<1> DEFINE index == apply_applied(t.index, u, rv)
           journal == Journals(t, rv, IF contains(t.index, u) THEN "Modified" ELSE "Added")
           new == Apply(t, u, rv)
<1>1. IsIndex(t.index, Uids, Rows)  BY DEF IsTable
<1>2. /\ IsIndex(index, Uids, Rows) /\ contains(index, u) /\ RowOf(index, u) = rv
      /\ OthersStay(t.index, index, u)
  BY <1>1, AppliedPuts
<1> HIDE DEF index
<1>3. /\ journal \in SUBSET [rv : Nat, change : Changes]
      /\ t.phase = "FirstLoad" => journal = {}
  <2>1. (IF contains(t.index, u) THEN "Modified" ELSE "Added") \in Changes  BY DEF Changes
  <2>2. t.journal \in SUBSET [rv : Nat, change : Changes]  BY DEF IsTable
  <2>3. t.phase = "FirstLoad" => t.journal = {}  BY DEF IsTable
  <2>4. rv \in Nat  BY DEF Rows
  <2> QED  BY <2>1, <2>2, <2>3, <2>4 DEF Journals, live
<1> HIDE DEF journal
<1>4. /\ new.index = index /\ new.relisting = t.relisting /\ new.phase = t.phase
      /\ new.journal = journal /\ new.refused = t.refused /\ new.seen = t.seen
      /\ new \in [index : {index}, relisting : BOOLEAN, seen : SUBSET Uids, phase : Phases,
                  refused : BOOLEAN, journal : SUBSET [rv : Nat, change : Changes]]
  BY <1>3 DEF Apply, IsTable, index, journal
<1> HIDE DEF new
<1>5. IsTable(new)  BY <1>2, <1>3, <1>4 DEF IsTable
<1>6. \A w : Row(new, w) = IF w = u THEN rv ELSE Row(t, w)
  BY <1>2, <1>4 DEF Row, OthersStay
<1> QED  BY <1>4, <1>5, <1>6 DEF new, journal

LEMMA Deletes ==
  ASSUME NEW t, IsTable(t), NEW u \in Uids, NEW rv \in Rows
  PROVE  LET new == Delete(t, u, rv)
         IN /\ IsTable(new)
            /\ new.relisting = t.relisting /\ new.phase = t.phase /\ new.seen = t.seen
            /\ new.journal = IF contains(t.index, u) THEN Journals(t, rv, "Deleted")
                             ELSE t.journal
            /\ \A w : Row(new, w) = IF w = u THEN 0 ELSE Row(t, w)
<1> DEFINE index == apply_deleted(t.index, u)
           journal == IF contains(t.index, u) THEN Journals(t, rv, "Deleted") ELSE t.journal
           new == Delete(t, u, rv)
<1>1. IsIndex(t.index, Uids, Rows)  BY DEF IsTable
<1>2. /\ IsIndex(index, Uids, Rows) /\ ~contains(index, u)
      /\ OthersStay(t.index, index, u)
  BY <1>1, DeletedDrops
<1> HIDE DEF index
<1>3. /\ journal \in SUBSET [rv : Nat, change : Changes]
      /\ t.phase = "FirstLoad" => journal = {}
  <2>1. "Deleted" \in Changes  BY DEF Changes
  <2>2. t.journal \in SUBSET [rv : Nat, change : Changes]  BY DEF IsTable
  <2>3. t.phase = "FirstLoad" => t.journal = {}  BY DEF IsTable
  <2>4. rv \in Nat  BY DEF Rows
  <2> QED  BY <2>1, <2>2, <2>3, <2>4 DEF Journals, live
<1> HIDE DEF journal
<1>4. /\ new.index = index /\ new.relisting = t.relisting /\ new.phase = t.phase
      /\ new.journal = journal /\ new.refused = t.refused /\ new.seen = t.seen
      /\ new \in [index : {index}, relisting : BOOLEAN, seen : SUBSET Uids, phase : Phases,
                  refused : BOOLEAN, journal : SUBSET [rv : Nat, change : Changes]]
  BY <1>3 DEF Delete, IsTable, index, journal
<1> HIDE DEF new
<1>5. IsTable(new)  BY <1>2, <1>3, <1>4 DEF IsTable
<1>6. \A w : Row(new, w) = IF w = u THEN 0 ELSE Row(t, w)
  BY <1>2, <1>4 DEF Row, OthersStay
<1> QED  BY <1>4, <1>5, <1>6 DEF new, journal

LEMMA ListStarts ==
  ASSUME NEW t, IsTable(t)
  PROVE  LET new == Starts(t)
         IN /\ IsTable(new)
            /\ new.relisting /\ new.seen = {} /\ new.journal = t.journal
            /\ \A w : Row(new, w) = Row(t, w)
<1> DEFINE new == Starts(t)
           phase == IF t.phase = "FirstLoad" THEN t.phase ELSE "Refreshing"
<1>1. phase \in Phases /\ (phase = "FirstLoad" => t.phase = "FirstLoad")
  BY DEF Phases, IsTable
<1> HIDE DEF phase
<1>2. /\ new.index = t.index /\ new.relisting /\ new.phase = phase
      /\ new.journal = t.journal /\ new.seen = {}
      /\ new \in [index : {t.index}, relisting : BOOLEAN, seen : SUBSET Uids, phase : Phases,
                  refused : BOOLEAN, journal : SUBSET [rv : Nat, change : Changes]]
  BY <1>1 DEF Starts, IsTable, phase
<1> HIDE DEF new
<1>3. IsTable(new)  BY <1>1, <1>2 DEF IsTable
<1>4. \A w : Row(new, w) = Row(t, w)  BY <1>2 DEF Row
<1> QED  BY <1>2, <1>3, <1>4 DEF new

\* A list that ends leaves the rows it saw, and of the others none.
LEMMA ListEnds ==
  ASSUME NEW t, IsTable(t), t.relisting
  PROVE  LET new == InitDone(t)
         IN /\ IsTable(new)
            /\ ~new.relisting /\ new.seen = {} /\ new.journal = t.journal
            /\ new.phase = "Loaded"
            /\ \A w \in Uids : Row(new, w) = IF w \in t.seen THEN Row(t, w) ELSE 0
<1> DEFINE stale == Uids \ t.seen
           index == Without(t.index, stale)
           new == InitDone(t)
<1>1. IsIndex(t.index, Uids, Rows) /\ stale \in SUBSET Uids  BY DEF IsTable
<1>2. /\ IsIndex(index, Uids, Rows)
      /\ \A u : contains(index, u) <=> contains(t.index, u) /\ u \notin stale
      /\ \A u : contains(index, u) => RowOf(index, u) = RowOf(t.index, u)
  <2> HIDE DEF stale
  <2> QED  BY <1>1, WithoutDrops
<1> HIDE DEF index
<1>3. /\ new.index = index /\ ~new.relisting /\ new.phase = "Loaded"
      /\ new.journal = t.journal /\ new.seen = {}
      /\ new \in [index : {index}, relisting : BOOLEAN, seen : SUBSET Uids, phase : Phases,
                  refused : BOOLEAN, journal : SUBSET [rv : Nat, change : Changes]]
  BY DEF InitDone, IsTable, index, Phases
<1> HIDE DEF new
<1>4. IsTable(new)  BY <1>2, <1>3 DEF IsTable
<1>5. \A w \in Uids : Row(new, w) = IF w \in t.seen THEN Row(t, w) ELSE 0
  BY <1>2, <1>3 DEF Row
<1> QED  BY <1>3, <1>4, <1>5 DEF new

\* A poll's list leaves the table with the objects of that moment and no others.
LEMMA Replaces ==
  ASSUME NEW t, IsTable(t), NEW state \in [Uids -> Nat],
         NEW objects \in ListsOf(state)
  PROVE  LET new == replace_all(t, objects)
         IN /\ IsTable(new)
            /\ ~new.relisting /\ new.journal = t.journal
            /\ \A u \in Uids : Row(new, u) = state[u]
<1> DEFINE N == Len(objects)
           Body(g, k) == IF k = 0 THEN Starts(t)
                         ELSE InitApply(g[k - 1], objects[k].uid, objects[k].rv)
           after == CHOOSE g : g = [k \in 0 .. N |-> Body(g, k)]
<1>1. replace_all(t, objects) = InitDone(after[N])  BY DEF replace_all
<1>2. N \in Nat  BY ListedObjects
<1>3. \E g : g = [k \in 0 .. N |-> Body(g, k)]
  <2> DEFINE S == {m \in Nat : \E g : g = [k \in 0 .. m |-> Body(g, k)]}
  <2>1. 0 \in S
    <3> DEFINE g == [k \in 0 .. 0 |-> Starts(t)]
    <3>1. g = [k \in 0 .. 0 |-> Body(g, k)]  OBVIOUS
    <3> QED  BY <3>1
  <2>2. ASSUME NEW m \in Nat, m \in S  PROVE m + 1 \in S
    <3>1. PICK g : g = [k \in 0 .. m |-> Body(g, k)]  BY <2>2
    <3> DEFINE top == Body(g, m + 1)
               h == [k \in 0 .. m + 1 |-> IF k = m + 1 THEN top ELSE g[k]]
    <3> HIDE DEF top
    <3>2. \A k \in 0 .. m : h[k] = g[k] /\ g[k] = Body(g, k)  BY <3>1
    <3>3. \A k \in 0 .. m + 1 : h[k] = Body(h, k)
      <4> SUFFICES ASSUME NEW k \in 0 .. m + 1  PROVE h[k] = Body(h, k)  OBVIOUS
      <4>1. CASE k = m + 1
        <5>1. h[k] = top /\ k # 0 /\ k - 1 = m /\ h[m] = g[m]  BY <4>1
        <5>2. top = InitApply(g[m], objects[k].uid, objects[k].rv)
          BY <4>1, <5>1 DEF top
        <5> QED  BY <5>1, <5>2
      <4>2. CASE k \in 0 .. m
        <5>1. h[k] = g[k] /\ g[k] = Body(g, k)  BY <4>2, <3>2
        <5>2. k # 0 => h[k - 1] = g[k - 1]  BY <4>2
        <5>3. Body(h, k) = Body(g, k)  BY <5>2
        <5> QED  BY <5>1, <5>3
      <4> QED  BY <4>1, <4>2
    <3>4. h = [k \in 0 .. m + 1 |-> Body(h, k)]  BY <3>3
    <3> HIDE DEF h
    <3>5. \E f : f = [k \in 0 .. m + 1 |-> Body(f, k)]  BY <3>4
    <3> QED  BY <3>5
  <2> HIDE DEF S
  <2>3. N \in S  BY <1>2, <2>1, <2>2, SetInduction
  <2> QED  BY <2>3 DEF S
<1>4. after = [k \in 0 .. N |-> Body(after, k)]  BY <1>3
<1> HIDE DEF after
<1>5. after[0] = Starts(t)  BY <1>2, <1>4
<1>6. \A m \in Nat : m + 1 <= N =>
        after[m + 1] = InitApply(after[m], objects[m + 1].uid, objects[m + 1].rv)
  BY <1>2, <1>4
<1> DEFINE Given(m) == {objects[i].uid : i \in 1 .. m}
           OK(m) == /\ IsTable(after[m])
                    /\ after[m].relisting /\ after[m].journal = t.journal
                    /\ after[m].seen = Given(m)
                    /\ \A u \in Given(m) : Row(after[m], u) = state[u]
           S == {m \in Nat : m <= N => OK(m)}
<1>7. 0 \in S  BY <1>5, ListStarts
<1>8. ASSUME NEW m \in Nat, m \in S  PROVE m + 1 \in S
  <2> SUFFICES ASSUME m + 1 <= N  PROVE OK(m + 1)  OBVIOUS
  <2>1. OK(m)  BY <1>2, <1>8
  <2> DEFINE u == objects[m + 1].uid
             rv == objects[m + 1].rv
             new == InitApply(after[m], u, rv)
  <2>2. u \in Present(state) /\ rv = state[u]  BY <1>2, ListedObjects
  <2>3. u \in Uids /\ rv # 0  BY <2>2 DEF Present
  <2>4. rv \in Rows  BY <2>2, <2>3 DEF Rows
  <2>5. Given(m + 1) = Given(m) \cup {u}
    <3>1. 1 .. m + 1 = (1 .. m) \cup {m + 1}  OBVIOUS
    <3> QED  BY <3>1
  <2>6. after[m + 1] = new  BY <1>6
  <2> HIDE DEF Given, u, rv
  <2>7. /\ IsTable(new) /\ new.relisting = after[m].relisting
        /\ new.journal = after[m].journal
        /\ new.seen = IF after[m].relisting THEN after[m].seen \cup {u} ELSE after[m].seen
        /\ \A w : Row(new, w) = IF w = u THEN rv ELSE Row(after[m], w)
    BY <2>1, <2>3, <2>4, InitApplies
  <2> HIDE DEF new
  <2> QED  BY <2>1, <2>2, <2>5, <2>6, <2>7
<1> HIDE DEF S
<1>9. N \in S  BY <1>2, <1>7, <1>8, SetInduction
<1>10. OK(N)  BY <1>2, <1>9 DEF S
<1>11. Given(N) = Present(state)
  <2>1. \A i \in 1 .. N : objects[i].uid \in Present(state)  BY ListedObjects
  <2>2. \A u \in Present(state) : \E i \in 1 .. N : objects[i].uid = u  BY ListedObjects
  <2> QED  BY <2>1, <2>2
<1> HIDE DEF Given
<1> DEFINE last == after[N]
           new == InitDone(last)
<1>12. IsTable(last) /\ last.relisting  BY <1>10
<1> HIDE DEF last
<1>13. /\ IsTable(new) /\ ~new.relisting /\ new.journal = last.journal
       /\ \A w \in Uids : Row(new, w) = IF w \in last.seen THEN Row(last, w) ELSE 0
  BY <1>12, ListEnds
<1> HIDE DEF new
<1>14. \A u \in Uids : u \notin Present(state) => state[u] = 0  BY DEF Present
<1>15. \A u \in Uids : Row(new, u) = state[u]
  BY <1>10, <1>11, <1>13, <1>14 DEF last
<1> QED  BY <1>1, <1>10, <1>13, <1>15 DEF new, last
-----------------------------------------------------------------------------
\* The inductive invariant. What is under way from the feed to the table is a
\* path: the point of the history where the table is, the one where each outcome
\* in the channel takes it, up to the one where the feed is.

\* In a list of the state after rv, with the objects left of it; or watching,
\* after rv.
Point == [listing : BOOLEAN, rv : Nat, left : SUBSET Uids]

History == [n \in 0 .. Len(log) |-> StateAt(n)]

InHistory(h, a) == a.rv \in DOMAIN h /\ a.left \subseteq Present(h[a.rv])

\* No row is ahead of the point, and all that were seen are there.
TableAt(h, t, a) ==
  /\ \A u \in Uids : Row(t, u) <= a.rv
  /\ a.listing =>
       /\ t.relisting
       /\ t.seen = Present(h[a.rv]) \ a.left
       /\ \A u \in t.seen : Row(t, u) = h[a.rv][u]
  /\ ~a.listing =>
       /\ ~t.relisting
       /\ \A u \in Uids : Row(t, u) = h[a.rv][u]

FeedAt(h, f, a) ==
  /\ f.st = "list" => a.listing /\ a.left = Present(h[a.rv])
  /\ f.st = "page" => a.listing /\ a.rv = f.rv /\ a.left = f.left
  /\ f.st = "watch" => ~a.listing /\ a.rv = f.rv

\* The last outcome of a feed.
Closes(msg) == msg.k \in {"Refused", "Unauthorized", "NoResourceVersion"}

CarriesInit(h, a, msg, b) ==
  msg.k = "Init" /\ a.rv <= b.rv /\ b.listing /\ b.left = Present(h[b.rv])

CarriesRow(h, a, msg, b) ==
  /\ msg.k = "InitApply" /\ msg.uid \in a.left /\ msg.rv = h[a.rv][msg.uid]
  /\ a.listing /\ b.listing /\ b.rv = a.rv /\ b.left = a.left \ {msg.uid}

CarriesDone(a, msg, b) ==
  msg.k = "InitDone" /\ a.listing /\ a.left = {} /\ ~b.listing /\ b.rv = a.rv

CarriesChange(l, a, msg, b) ==
  /\ msg.k \in {"Apply", "Delete"} /\ msg.rv = b.rv /\ msg.uid = l[b.rv].uid
  /\ msg.k = "Delete" <=> l[b.rv].change = "Deleted"
  /\ ~a.listing /\ ~b.listing /\ b.rv = a.rv + 1

CarriesList(h, a, msg, b) ==
  msg.k = "Listed" /\ a.rv <= b.rv /\ ~b.listing /\ msg.objects \in ListsOf(h[b.rv])

\* This outcome takes the table from a to b.
Carries(h, l, a, msg, b) ==
  \/ CarriesInit(h, a, msg, b)
  \/ CarriesRow(h, a, msg, b)
  \/ CarriesDone(a, msg, b)
  \/ CarriesChange(l, a, msg, b)
  \/ CarriesList(h, a, msg, b)
  \/ Closes(msg) /\ b = a

IsPath(h, l, p, c, t, f) ==
  /\ p \in Seq(Point) /\ Len(p) = Len(c) + 1
  /\ \A i \in 1 .. Len(c) + 1 : InHistory(h, p[i])
  /\ TableAt(h, t, p[1])
  /\ \A i \in 1 .. Len(c) : Carries(h, l, p[i], c[i], p[i + 1])
  /\ \A i \in 1 .. Len(c) : Closes(c[i]) => f.st = "ended"
  /\ FeedAt(h, f, p[Len(c) + 1])

Message ==
  [k : {"Init", "InitDone", "Refused", "Unauthorized", "NoResourceVersion"}]
    \cup [k : {"InitApply", "Apply", "Delete"}, uid : Uids, rv : Nat]
    \cup [k : {"Listed"}, objects : Seq([uid : Uids, rv : Nat])]

Versions(u) == {i \in 1 .. Len(log) : log[i].uid = u /\ log[i].change # "Deleted"}

\* An object is added when it is not there, and is there when it changes or goes.
LogOK ==
  /\ log \in Seq(Line)
  /\ \A n \in 1 .. Len(log) :
       log[n].change = "Added" <=> StateAt(n - 1)[log[n].uid] = 0

FeedOK ==
  /\ kind \in Kinds
  /\ feed \in [st : FeedStages, rv : 0 .. Len(log), left : SUBSET Uids]

ChanOK == chan \in Seq(Message) /\ Len(chan) <= Capacity

\* What a row shows is a version of its object, what flashes is what happened.
TableOK ==
  /\ IsTable(table)
  /\ \A u \in Uids : Row(table, u) \in Versions(u) \cup {0}
  /\ \A entry \in table.journal :
       entry.rv \in 1 .. Len(log) /\ log[entry.rv].change = entry.change

PathOK == \E p : IsPath(History, log, p, chan, table, feed)

IInv == LogOK /\ FeedOK /\ ChanOK /\ TableOK /\ PathOK

-----------------------------------------------------------------------------
\* What the invariant says of the properties.
LEMMA ShownRows == Shown = [u \in Uids |-> Row(table, u)]
BY DEF Shown, Row

LEMMA PointFacts ==
  ASSUME NEW h, NEW l, NEW p, NEW c, NEW t, NEW f, Len(c) \in Nat,
         IsPath(h, l, p, c, t, f), NEW i \in 1 .. Len(c) + 1
  PROVE  /\ p[i] \in Point
         /\ p[i].rv \in DOMAIN h /\ p[i].left \subseteq Present(h[p[i].rv])
BY DEF IsPath, InHistory

LEMMA InvImplies ==
  ASSUME IInv
  PROVE  TableIsSound /\ ShowsOneMoment /\ FlashesWhatHappened
<1>1. TypeOK  BY DEF IInv, LogOK, FeedOK, ChanOK, TableOK, TypeOK, IsTable, Line
<1>2. IndexIsConsistent  BY DEF IInv, TableOK, IsTable, IsIndex, IndexIsConsistent
<1>3. FlashesWhatHappened  BY DEF IInv, TableOK, FlashesWhatHappened
<1>4. PICK p : IsPath(History, log, p, chan, table, feed)  BY DEF IInv, PathOK
<1> DEFINE a == p[1]
<1>5. Len(chan) \in Nat  BY DEF IInv, ChanOK
<1>6. a \in Point /\ a.rv \in DOMAIN History  BY <1>4, <1>5, PointFacts
<1>7. a.rv \in 0 .. Len(log) /\ History[a.rv] = StateAt(a.rv)  BY <1>6 DEF History
<1>8. TableAt(History, table, a)  BY <1>4 DEF IsPath
<1> HIDE DEF a
<1>9. ASSUME ~a.listing  PROVE ~table.relisting /\ Shown = StateAt(a.rv)
  <2>1. ~table.relisting /\ \A u \in Uids : Row(table, u) = StateAt(a.rv)[u]
    BY <1>7, <1>8, <1>9 DEF TableAt
  <2>2. StateAt(a.rv) = [u \in Uids |-> StateAt(a.rv)[u]]  BY DEF StateAt
  <2> QED  BY <2>1, <2>2, ShownRows
<1>10. ASSUME live(table)  PROVE \E n \in 0 .. Len(log) : Shown = StateAt(n)
  <2>1. ~a.listing  BY <1>6, <1>8, <1>10 DEF TableAt, live, Point
  <2> QED  BY <1>7, <1>9, <2>1
<1>11. ASSUME feed.st = "watch", chan = <<>>
       PROVE  ~table.relisting /\ Shown = StateAt(feed.rv)
  <2>1. FeedAt(History, feed, p[Len(chan) + 1])  BY <1>4 DEF IsPath
  <2>2. Len(chan) + 1 = 1  BY <1>11
  <2>3. FeedAt(History, feed, a)  BY <2>1, <2>2 DEF a
  <2>4. ~a.listing /\ a.rv = feed.rv  BY <1>11, <2>3 DEF FeedAt
  <2> QED  BY <1>9, <2>4
<1>12. ShowsOneMoment  BY <1>10, <1>11 DEF ShowsOneMoment
<1> QED  BY <1>1, <1>2, <1>3, <1>12 DEF TableIsSound
-----------------------------------------------------------------------------
\* What keeps a path.

\* The history goes on.
LEMMA PathGrows ==
  ASSUME NEW h, NEW l, NEW h2, NEW l2, NEW p, NEW c, NEW t, NEW f, Len(c) \in Nat,
         DOMAIN h \subseteq DOMAIN h2, DOMAIN h \subseteq Nat,
         \A n \in DOMAIN h : h2[n] = h[n],
         \A n \in DOMAIN h : n # 0 => l2[n] = l[n],
         IsPath(h, l, p, c, t, f)
  PROVE  IsPath(h2, l2, p, c, t, f)
<1>1. \A i \in 1 .. Len(c) + 1 : InHistory(h, p[i]) /\ InHistory(h2, p[i])
  BY DEF IsPath, InHistory
<1>2. TableAt(h2, t, p[1])
  <2>1. InHistory(h, p[1])  BY <1>1
  <2> QED  BY <2>1 DEF IsPath, TableAt, InHistory
<1>3. FeedAt(h2, f, p[Len(c) + 1])
  <2>1. InHistory(h, p[Len(c) + 1])  BY <1>1
  <2> QED  BY <2>1 DEF IsPath, FeedAt, InHistory
<1>4. ASSUME NEW i \in 1 .. Len(c)  PROVE Carries(h2, l2, p[i], c[i], p[i + 1])
  <2> DEFINE a == p[i]
             b == p[i + 1]
             msg == c[i]
  <2>1. a \in Point /\ b \in Point /\ i + 1 \in 1 .. Len(c) + 1  BY DEF IsPath
  <2>2. InHistory(h, a) /\ InHistory(h, b)  BY <1>1, <2>1
  <2>3. Carries(h, l, a, msg, b)  BY DEF IsPath
  <2> HIDE DEF a, b, msg
  <2>4. h2[a.rv] = h[a.rv] /\ h2[b.rv] = h[b.rv]  BY <2>2 DEF InHistory
  <2>5. CASE CarriesChange(l, a, msg, b)
    <3>1. b.rv # 0  BY <2>1, <2>5 DEF CarriesChange, Point
    <3>2. l2[b.rv] = l[b.rv]  BY <2>2, <3>1 DEF InHistory
    <3>3. CarriesChange(l2, a, msg, b)  BY <2>5, <3>2 DEF CarriesChange
    <3>4. Carries(h2, l2, a, msg, b)  BY <3>3 DEF Carries
    <3> QED  BY <3>4 DEF a, b, msg
  <2>6. CASE ~CarriesChange(l, a, msg, b)
    <3>1. CarriesInit(h, a, msg, b) => CarriesInit(h2, a, msg, b)  BY <2>4 DEF CarriesInit
    <3>2. CarriesRow(h, a, msg, b) => CarriesRow(h2, a, msg, b)  BY <2>4 DEF CarriesRow
    <3>3. CarriesList(h, a, msg, b) => CarriesList(h2, a, msg, b)  BY <2>4 DEF CarriesList
    <3>4. Carries(h2, l2, a, msg, b)  BY <2>3, <2>6, <3>1, <3>2, <3>3 DEF Carries
    <3> QED  BY <3>4 DEF a, b, msg
  <2> QED  BY <2>5, <2>6
<1> QED  BY <1>1, <1>2, <1>3, <1>4 DEF IsPath

\* The feed sends an outcome that takes the table from where it was to where it is.
LEMMA PathSends ==
  ASSUME NEW h, NEW l, NEW p, NEW C, NEW c \in Seq(C), NEW t, NEW f, NEW f2,
         NEW msg \in C, NEW b \in Point,
         IsPath(h, l, p, c, t, f),
         InHistory(h, b), FeedAt(h, f2, b), f.st # "ended",
         Carries(h, l, p[Len(c) + 1], msg, b), Closes(msg) => f2.st = "ended"
  PROVE  \E q : IsPath(h, l, q, Append(c, msg), t, f2)
<1> DEFINE n == Len(c)
           q == Append(p, b)
           d == Append(c, msg)
<1>1. n \in Nat /\ p \in Seq(Point) /\ Len(p) = n + 1  BY DEF IsPath
<1>2. /\ q \in Seq(Point) /\ Len(q) = n + 2
      /\ \A i \in 1 .. n + 1 : q[i] = p[i]
      /\ q[n + 2] = b
  BY <1>1
<1>3. /\ Len(d) = n + 1 /\ d[n + 1] = msg
      /\ \A i \in 1 .. n : d[i] = c[i]
  OBVIOUS
<1>4. /\ \A i \in 1 .. n + 1 : InHistory(h, p[i])
      /\ TableAt(h, t, p[1])
      /\ \A i \in 1 .. n : Carries(h, l, p[i], c[i], p[i + 1])
      /\ \A i \in 1 .. n : ~Closes(c[i])
  BY DEF IsPath
<1> HIDE DEF q, d, n
<1>5. \A i \in 1 .. n + 2 : InHistory(h, q[i])
  <2>1. \A i \in 1 .. n + 2 : i \in 1 .. n + 1 \/ i = n + 2  BY <1>1
  <2> QED  BY <1>2, <1>4, <2>1
<1>6. TableAt(h, t, q[1])  BY <1>1, <1>2, <1>4
<1>7. ASSUME NEW i \in 1 .. n + 1
      PROVE  Carries(h, l, q[i], d[i], q[i + 1]) /\ (Closes(d[i]) => f2.st = "ended")
  <2>1. CASE i = n + 1
    <3>1. q[i] = p[n + 1] /\ d[i] = msg /\ q[i + 1] = b  BY <1>1, <1>2, <1>3, <2>1
    <3> QED  BY <3>1 DEF n
  <2>2. CASE i \in 1 .. n
    <3>1. q[i] = p[i] /\ d[i] = c[i] /\ q[i + 1] = p[i + 1]  BY <1>1, <1>2, <1>3, <2>2
    <3> QED  BY <1>4, <2>2, <3>1
  <2> QED  BY <1>1, <2>1, <2>2
<1>8. FeedAt(h, f2, q[n + 2])  BY <1>2
<1>9. Len(d) + 1 = n + 2  BY <1>1, <1>3
<1>10. IsPath(h, l, q, d, t, f2)
  BY <1>2, <1>3, <1>5, <1>6, <1>7, <1>8, <1>9 DEF IsPath
<1> QED  BY <1>10 DEF d

\* The table takes the first outcome.
LEMMA PathTakes ==
  ASSUME NEW h, NEW l, NEW p, NEW C, NEW c \in Seq(C), NEW t, NEW t2, NEW f,
         IsPath(h, l, p, c, t, f), c # <<>>, TableAt(h, t2, p[2])
  PROVE  \E q : IsPath(h, l, q, Tail(c), t2, f)
<1> DEFINE n == Len(c)
           q == Tail(p)
           d == Tail(c)
<1>1. n \in Nat /\ n # 0 /\ p \in Seq(Point) /\ Len(p) = n + 1
  BY EmptySeq DEF IsPath
<1>2. /\ q \in Seq(Point) /\ Len(q) = n
      /\ \A i \in 1 .. n : q[i] = p[i + 1]
  <2>1. p # <<>>  BY <1>1
  <2> QED  BY <1>1, <2>1, HeadTailProperties
<1>3. Len(d) = n - 1 /\ \A i \in 1 .. n - 1 : d[i] = c[i + 1]
  BY <1>1, HeadTailProperties
<1>4. /\ \A i \in 1 .. n + 1 : InHistory(h, p[i])
      /\ \A i \in 1 .. n : Carries(h, l, p[i], c[i], p[i + 1])
      /\ \A i \in 1 .. n : Closes(c[i]) => f.st = "ended"
      /\ FeedAt(h, f, p[n + 1])
  BY DEF IsPath
<1> HIDE DEF q, d, n
<1>5. Len(d) + 1 = n  BY <1>1, <1>3
<1>6. \A i \in 1 .. n : InHistory(h, q[i])
  <2>1. \A i \in 1 .. n : i + 1 \in 1 .. n + 1  BY <1>1
  <2> QED  BY <1>2, <1>4, <2>1
<1>7. TableAt(h, t2, q[1])
  <2>1. q[1] = p[2]  BY <1>1, <1>2
  <2> QED  BY <2>1
<1>8. ASSUME NEW i \in 1 .. n - 1
      PROVE  Carries(h, l, q[i], d[i], q[i + 1]) /\ (Closes(d[i]) => f.st = "ended")
  <2>1. i + 1 \in 1 .. n /\ i \in 1 .. n  BY <1>1
  <2>2. q[i] = p[i + 1] /\ d[i] = c[i + 1] /\ q[i + 1] = p[(i + 1) + 1]
    BY <1>2, <1>3, <2>1
  <2> QED  BY <1>4, <2>1, <2>2
<1>9. FeedAt(h, f, q[n])
  <2>1. q[n] = p[n + 1]  BY <1>1, <1>2
  <2> QED  BY <1>4, <2>1
<1>10. IsPath(h, l, q, d, t2, f)
  BY <1>2, <1>3, <1>5, <1>6, <1>7, <1>8, <1>9 DEF IsPath
<1> QED  BY <1>10 DEF d

\* The feed moves within its point.
LEMMA PathFeeds ==
  ASSUME NEW h, NEW l, NEW p, NEW c, NEW t, NEW f, NEW f2,
         IsPath(h, l, p, c, t, f), FeedAt(h, f2, p[Len(c) + 1]), f.st # "ended"
  PROVE  IsPath(h, l, p, c, t, f2)
BY DEF IsPath

\* The channel is dropped, and the feed with it.
LEMMA PathDrops ==
  ASSUME NEW h, NEW l, NEW p, NEW C, NEW c \in Seq(C), NEW t, NEW f, NEW f2,
         IsPath(h, l, p, c, t, f), f2.st \in {"off", "poll", "empty"}
  PROVE  \E q : IsPath(h, l, q, <<>>, t, f2)
<1>1. Len(c) \in Nat  OBVIOUS
<1>2. p[1] \in Point /\ InHistory(h, p[1]) /\ TableAt(h, t, p[1])
  BY <1>1 DEF IsPath
<1>3. FeedAt(h, f2, p[1])  BY DEF FeedAt
<1> DEFINE q == <<p[1]>>
<1>4. q \in Seq(Point) /\ Len(q) = 1 /\ q[1] = p[1]  BY <1>2
<1>5. Len(<<>>) = 0  OBVIOUS
<1> HIDE DEF q
<1>6. IsPath(h, l, q, <<>>, t, f2)  BY <1>2, <1>3, <1>4, <1>5 DEF IsPath
<1> QED  BY <1>6

\* A list is of a later moment than any that is on its way.
LEMMA PathLists ==
  ASSUME NEW h, NEW l, NEW p, NEW C, NEW c \in Seq(C), NEW t, NEW f, NEW f2,
         IsPath(h, l, p, c, t, f), f.st = "list",
         NEW b \in Point, InHistory(h, b), FeedAt(h, f2, b),
         b.listing, b.left = Present(h[b.rv]), \A i \in 1 .. Len(c) + 1 : p[i].rv <= b.rv,
         \A u \in Uids : Row(t, u) \in Nat
  PROVE  \E q : IsPath(h, l, q, c, t, f2)
<1> DEFINE n == Len(c)
           q == [p EXCEPT ![n + 1] = b]
<1>1. n \in Nat /\ p \in Seq(Point) /\ Len(p) = n + 1  BY DEF IsPath
<1>2. /\ q \in Seq(Point) /\ Len(q) = n + 1 /\ q[n + 1] = b
      /\ \A i \in 1 .. n : q[i] = p[i]
  BY <1>1
<1>3. /\ \A i \in 1 .. n + 1 : InHistory(h, p[i])
      /\ TableAt(h, t, p[1])
      /\ \A i \in 1 .. n : Carries(h, l, p[i], c[i], p[i + 1])
      /\ \A i \in 1 .. n : ~Closes(c[i])
      /\ p[n + 1].listing /\ p[n + 1].left = Present(h[p[n + 1].rv])
  BY DEF IsPath, FeedAt
<1> HIDE DEF q, n
<1>4. \A i \in 1 .. n + 1 : InHistory(h, q[i])
  <2>1. \A i \in 1 .. n + 1 : i \in 1 .. n \/ i = n + 1  BY <1>1
  <2> QED  BY <1>2, <1>3, <2>1
<1>5. TableAt(h, t, q[1])
  <2>1. CASE n = 0
    <3>1. p[1] \in Point /\ p[1].listing /\ p[1].left = Present(h[p[1].rv]) /\ p[1].rv <= b.rv
      <4>1. p[1] \in Point  BY <1>1
      <4>2. p[n + 1] = p[1]  BY <2>1
      <4>3. p[1].rv <= b.rv  BY <1>1 DEF n
      <4> QED  BY <1>3, <4>1, <4>2, <4>3
    <3>2. \A u \in Uids : Row(t, u) <= p[1].rv  BY <1>3 DEF TableAt
    <3>3. p[1].rv \in Nat /\ b.rv \in Nat  BY <3>1 DEF Point
    <3>4. \A u \in Uids : Row(t, u) <= b.rv  BY <3>1, <3>2, <3>3
    <3>5. t.relisting /\ t.seen = {}  BY <1>3, <3>1 DEF TableAt
    <3>6. q[1] = b  BY <1>2, <2>1
    <3> QED  BY <3>4, <3>5, <3>6 DEF TableAt
  <2>2. CASE n # 0
    <3>1. q[1] = p[1]  BY <1>1, <1>2, <2>2
    <3> QED  BY <1>3, <3>1
  <2> QED  BY <2>1, <2>2
<1>6. ASSUME NEW i \in 1 .. n  PROVE Carries(h, l, q[i], c[i], q[i + 1])
  <2>1. CASE i # n
    <3>1. q[i] = p[i] /\ q[i + 1] = p[i + 1]  BY <1>1, <1>2, <2>1
    <3> QED  BY <1>3, <3>1
  <2>2. CASE i = n
    <3> DEFINE a == p[i]
               z == p[i + 1]
               msg == c[i]
    <3>1. Carries(h, l, a, msg, z) /\ ~Closes(msg)  BY <1>3
    <3>2. z.listing /\ z.left = Present(h[z.rv])  BY <1>3, <2>2
    <3>3. a \in Point /\ InHistory(h, a) /\ a.rv <= b.rv  BY <1>1, <1>3 DEF n
    <3>4. q[i] = a /\ q[i + 1] = b  BY <1>2, <2>2
    <3> HIDE DEF a, z, msg
    <3>5. ~CarriesRow(h, a, msg, z)
      <4> SUFFICES ASSUME CarriesRow(h, a, msg, z)  PROVE FALSE  OBVIOUS
      <4>1. msg.uid \in Present(h[a.rv])  BY <3>3 DEF CarriesRow, InHistory
      <4>2. msg.uid \notin z.left /\ z.rv = a.rv  BY DEF CarriesRow
      <4> QED  BY <3>2, <4>1, <4>2
    <3>6. CarriesInit(h, a, msg, z)
      BY <3>1, <3>2, <3>5 DEF Carries, CarriesDone, CarriesChange, CarriesList
    <3>7. CarriesInit(h, a, msg, b)  BY <3>3, <3>6 DEF CarriesInit
    <3> QED  BY <3>4, <3>7 DEF Carries, msg
  <2> QED  BY <2>1, <2>2
<1>7. FeedAt(h, f2, q[n + 1])  BY <1>2
<1>8. IsPath(h, l, q, c, t, f2)
  BY <1>2, <1>3, <1>4, <1>5, <1>6, <1>7 DEF IsPath, n
<1> QED  BY <1>8
-----------------------------------------------------------------------------
\* The main thread takes an outcome.
IsDeleted(u) == \E i \in 1 .. Len(log) : log[i].uid = u /\ log[i].change = "Deleted"

\* Row by row, what LiveView lets a table do.
RowsMove(t, new) ==
  \A u \in Uids :
    \/ Row(new, u) \in Versions(u) /\ Row(t, u) <= Row(new, u)
    \/ Row(new, u) = 0 /\ (Row(t, u) = 0 \/ IsDeleted(u))

JournalOK(t) ==
  \A entry \in t.journal :
    entry.rv \in 1 .. Len(log) /\ log[entry.rv].change = entry.change

LEMMA HistoryIs ==
  ASSUME NEW a, InHistory(History, a)
  PROVE  /\ a.rv \in 0 .. Len(log) /\ History[a.rv] = StateAt(a.rv)
         /\ a.left \subseteq Present(StateAt(a.rv))
BY DEF InHistory, History

LEMMA StateType ==
  ASSUME NEW n \in Nat
  PROVE  StateAt(n) \in [Uids -> Nat]
<1>1. StateAt(n) = [u \in Uids |-> StateAt(n)[u]]  BY DEF StateAt
<1>2. \A u \in Uids : StateAt(n)[u] \in Nat  BY StateIsAVersion
<1> QED  BY <1>1, <1>2

\* A row may move to any state that is not behind it.
LEMMA MovesToState ==
  ASSUME LogOK, NEW n \in 0 .. Len(log), NEW u \in Uids,
         NEW v \in Versions(u) \cup {0}, v <= n
  PROVE  \/ StateAt(n)[u] \in Versions(u) /\ v <= StateAt(n)[u]
         \/ StateAt(n)[u] = 0 /\ (v = 0 \/ IsDeleted(u))
<1> DEFINE w == StateAt(n)[u]
<1>1. n \in Nat /\ Len(log) \in Nat  BY DEF LogOK
<1>2. w \in 0 .. n /\ (w # 0 => log[w].uid = u /\ log[w].change # "Deleted")
  BY <1>1, StateIsAVersion
<1>3. w # 0 => w \in Versions(u)  BY <1>1, <1>2 DEF Versions
<1>4. v # 0 => v \in 1 .. n /\ log[v].uid = u  BY <1>1 DEF Versions
<1>5. v # 0 => v <= w \/ (w = 0 /\ \E i \in 1 .. n : log[i].uid = u /\ log[i].change = "Deleted")
  BY <1>1, <1>4, StateIsNewer
<1>6. (\E i \in 1 .. n : log[i].uid = u /\ log[i].change = "Deleted") => IsDeleted(u)
  BY <1>1 DEF IsDeleted
<1> HIDE DEF w
<1>7. v = 0 => v <= w  BY <1>2
<1>8. CASE w = 0
  <2>1. v # 0 => v \in 1 .. n  BY <1>4
  <2> QED  BY <1>5, <1>6, <1>8, <2>1 DEF w
<1>9. CASE w # 0  BY <1>3, <1>5, <1>7, <1>9 DEF w
<1> QED  BY <1>8, <1>9

LEMMA TableTakes ==
  ASSUME IInv, NEW a \in Point, NEW b \in Point, NEW msg \in Message,
         InHistory(History, a), InHistory(History, b), TableAt(History, table, a),
         Carries(History, log, a, msg, b), ~Ends(msg)
  PROVE  LET new == Applied(msg)
         IN /\ IsTable(new) /\ TableAt(History, new, b)
            /\ RowsMove(table, new) /\ JournalOK(new)
<1> DEFINE new == Applied(msg)
           Good == /\ IsTable(new) /\ TableAt(History, new, b)
                   /\ RowsMove(table, new) /\ JournalOK(new)
<1>1. /\ a.rv \in 0 .. Len(log) /\ History[a.rv] = StateAt(a.rv)
      /\ a.left \subseteq Present(StateAt(a.rv))
      /\ b.rv \in 0 .. Len(log) /\ History[b.rv] = StateAt(b.rv)
  BY HistoryIs
<1>2. /\ IsTable(table) /\ JournalOK(table) /\ LogOK /\ Len(log) \in Nat
      /\ \A u \in Uids : Row(table, u) \in Versions(u) \cup {0}
  BY DEF IInv, TableOK, JournalOK, LogOK
<1>3. /\ \A u \in Uids : Row(table, u) <= a.rv
      /\ a.listing =>
           /\ table.relisting
           /\ table.seen = Present(StateAt(a.rv)) \ a.left
           /\ \A u \in table.seen : Row(table, u) = StateAt(a.rv)[u]
      /\ ~a.listing =>
           ~table.relisting /\ \A u \in Uids : Row(table, u) = StateAt(a.rv)[u]
  BY <1>1 DEF TableAt
<1>4. \A u \in Uids : Row(table, u) \in Nat  BY <1>2, RowIsThere
<1>5. \A u \in Uids : Row(table, u) # 0 => Row(table, u) \in Versions(u)  BY <1>2
<1>6. a.rv \in Nat /\ b.rv \in Nat  BY <1>1, <1>2
\* The table that is at a point where it watches.
<1>7. ASSUME IsTable(new), ~new.relisting, ~b.listing, a.rv <= b.rv, JournalOK(new),
             \A u \in Uids : Row(new, u) = StateAt(b.rv)[u]
      PROVE  Good
  <2>1. \A u \in Uids : StateAt(b.rv)[u] <= b.rv  BY <1>6, StateIsAVersion
  <2>2. TableAt(History, new, b)  BY <1>1, <1>7, <2>1 DEF TableAt
  <2>3. \A u \in Uids : Row(table, u) <= b.rv  BY <1>3, <1>4, <1>6, <1>7
  <2>4. RowsMove(table, new)
    <3> SUFFICES ASSUME NEW u \in Uids
                 PROVE  \/ Row(new, u) \in Versions(u) /\ Row(table, u) <= Row(new, u)
                        \/ Row(new, u) = 0 /\ (Row(table, u) = 0 \/ IsDeleted(u))
      BY DEF RowsMove
    <3>1. Row(new, u) = StateAt(b.rv)[u]  BY <1>7
    <3> QED  BY <1>1, <1>2, <2>3, <3>1, MovesToState
  <2> QED  BY <1>7, <2>2, <2>4
<1>8. CASE CarriesInit(History, a, msg, b)
  <2>1. new = Starts(table) /\ a.rv <= b.rv /\ b.listing /\ b.left = Present(StateAt(b.rv))
    BY <1>1, <1>8 DEF CarriesInit, Applied
  <2> HIDE DEF new
  <2>2. /\ IsTable(new) /\ new.relisting /\ new.seen = {} /\ new.journal = table.journal
        /\ \A u : Row(new, u) = Row(table, u)
    BY <1>2, <2>1, ListStarts
  <2>3. \A u \in Uids : Row(new, u) <= b.rv  BY <1>3, <1>4, <1>6, <2>1, <2>2
  <2>4. TableAt(History, new, b)  BY <1>1, <2>1, <2>2, <2>3 DEF TableAt
  <2>5. RowsMove(table, new)  BY <1>4, <1>5, <2>2 DEF RowsMove
  <2>6. JournalOK(new)  BY <1>2, <2>2 DEF JournalOK
  <2> QED  BY <2>2, <2>4, <2>5, <2>6 DEF new
<1>9. CASE CarriesRow(History, a, msg, b)
  <2> DEFINE u == msg.uid
             rv == msg.rv
  <2>1. /\ new = InitApply(table, u, rv) /\ u \in a.left /\ rv = StateAt(a.rv)[u]
        /\ a.listing /\ b.listing /\ b.rv = a.rv /\ b.left = a.left \ {u}
    BY <1>1, <1>9 DEF CarriesRow, Applied
  <2>2. u \in Present(StateAt(a.rv)) /\ u \in Uids /\ rv \in Rows
    BY <1>1, <1>6, <2>1, StateIsAVersion DEF Present, Rows
  <2> HIDE DEF new, u, rv
  <2>3. /\ IsTable(new) /\ new.relisting = table.relisting /\ new.journal = table.journal
        /\ new.seen = IF table.relisting THEN table.seen \cup {u} ELSE table.seen
        /\ \A w : Row(new, w) = IF w = u THEN rv ELSE Row(table, w)
    <3>1. IsTable(table) /\ u \in Uids /\ rv \in Rows  BY <1>2, <2>2
    <3>2. new = InitApply(table, u, rv)  BY <2>1
    <3> DEFINE x == InitApply(table, u, rv)
    <3>3. /\ IsTable(x) /\ x.relisting = table.relisting /\ x.journal = table.journal
          /\ x.seen = IF table.relisting THEN table.seen \cup {u} ELSE table.seen
          /\ \A w : Row(x, w) = IF w = u THEN rv ELSE Row(table, w)
      BY <3>1, InitApplies
    <3> HIDE DEF x
    <3> QED  BY <3>2, <3>3 DEF x
  <2>4. table.relisting /\ table.seen = Present(StateAt(a.rv)) \ a.left
    BY <1>3, <2>1
  <2>5. new.relisting /\ new.seen = Present(StateAt(b.rv)) \ b.left
    BY <2>1, <2>2, <2>3, <2>4
  <2>6. rv <= b.rv  BY <1>6, <2>1, <2>2, StateIsAVersion
  <2>7. \A w \in Uids : Row(new, w) <= b.rv  BY <1>3, <2>1, <2>3, <2>6
  <2>8. \A w \in new.seen : Row(new, w) = StateAt(b.rv)[w]
    BY <1>3, <2>1, <2>3, <2>4
  <2>9. TableAt(History, new, b)  BY <1>1, <2>1, <2>5, <2>7, <2>8 DEF TableAt
  <2>10. RowsMove(table, new)
    <3> SUFFICES ASSUME NEW w \in Uids
                 PROVE  \/ Row(new, w) \in Versions(w) /\ Row(table, w) <= Row(new, w)
                        \/ Row(new, w) = 0 /\ (Row(table, w) = 0 \/ IsDeleted(w))
      BY DEF RowsMove
    <3>1. CASE w = u
      <4>1. Row(new, w) = StateAt(a.rv)[w] /\ Row(table, w) <= a.rv  BY <1>3, <2>1, <2>3, <3>1
      <4> QED  BY <1>1, <1>2, <4>1, MovesToState
    <3>2. CASE w # u
      <4>1. Row(new, w) = Row(table, w)  BY <2>3, <3>2
      <4> QED  BY <1>4, <1>5, <4>1
    <3> QED  BY <3>1, <3>2
  <2>11. JournalOK(new)  BY <1>2, <2>3 DEF JournalOK
  <2> QED  BY <2>3, <2>9, <2>10, <2>11 DEF new
<1>10. CASE CarriesDone(a, msg, b)
  <2>1. new = InitDone(table) /\ a.listing /\ a.left = {} /\ ~b.listing /\ b.rv = a.rv
    BY <1>10 DEF CarriesDone, Applied
  <2>2. /\ table.relisting /\ table.seen = Present(StateAt(a.rv))
        /\ \A u \in table.seen : Row(table, u) = StateAt(a.rv)[u]
    BY <1>3, <2>1
  <2> HIDE DEF new
  <2>3. /\ IsTable(new) /\ ~new.relisting /\ new.journal = table.journal
        /\ \A w \in Uids : Row(new, w) = IF w \in table.seen THEN Row(table, w) ELSE 0
    BY <1>2, <2>1, <2>2, ListEnds
  <2>4. \A u \in Uids : u \notin table.seen => StateAt(a.rv)[u] = 0  BY <2>2 DEF Present
  <2>5. \A u \in Uids : Row(new, u) = StateAt(b.rv)[u]  BY <2>1, <2>2, <2>3, <2>4
  <2>6. JournalOK(new)  BY <1>2, <2>3 DEF JournalOK
  <2>7. a.rv <= b.rv  BY <1>6, <2>1
  <2> QED  BY <1>7, <2>1, <2>3, <2>5, <2>6, <2>7 DEF new
<1>11. CASE CarriesChange(log, a, msg, b)
  <2> DEFINE n == a.rv
             u == log[n + 1].uid
             change == log[n + 1].change
  <2>1. /\ ~a.listing /\ ~b.listing /\ b.rv = n + 1
        /\ new = IF change = "Deleted" THEN Delete(table, u, n + 1)
                 ELSE Apply(table, u, n + 1)
    <3>1. /\ ~a.listing /\ ~b.listing /\ b.rv = n + 1
          /\ msg.k \in {"Apply", "Delete"} /\ msg.rv = n + 1 /\ msg.uid = u
          /\ msg.k = "Delete" <=> change = "Deleted"
      BY <1>11 DEF CarriesChange
    <3>2. CASE msg.k = "Delete"  BY <3>1, <3>2 DEF Applied
    <3>3. CASE msg.k = "Apply"  BY <3>1, <3>3 DEF Applied
    <3> QED  BY <3>1, <3>2, <3>3
  <2>2. n \in Nat /\ n + 1 \in 1 .. Len(log)  BY <1>1, <1>2, <2>1
  <2>3. u \in Uids /\ change \in Changes /\ (change = "Added" <=> StateAt(n)[u] = 0)
    <3>1. log[n + 1] \in Line  BY <1>2, <2>2 DEF LogOK
    <3>2. change = "Added" <=> StateAt((n + 1) - 1)[u] = 0  BY <1>2, <2>2 DEF LogOK
    <3>3. (n + 1) - 1 = n  BY <2>2
    <3> QED  BY <3>1, <3>2, <3>3 DEF Line
  <2>4. \A w \in Uids : StateAt(n + 1)[w] =
          IF w = u THEN (IF change = "Deleted" THEN 0 ELSE n + 1) ELSE StateAt(n)[w]
    BY <2>2, StateSteps
  <2>5. ~table.relisting /\ \A w \in Uids : Row(table, w) = StateAt(n)[w]
    BY <1>3, <2>1
  <2>6. contains(table.index, u) <=> change # "Added"
    BY <1>2, <2>3, <2>5, RowIsThere
  <2>7. n + 1 \in Rows  BY <2>2 DEF Rows
  <2> HIDE DEF new, n, u, change
  <2>8. CASE change = "Deleted"
    <3>1. new = Delete(table, u, n + 1)  BY <2>1, <2>8
    <3>2. /\ IsTable(new) /\ new.relisting = table.relisting
          /\ new.journal = IF contains(table.index, u) THEN Journals(table, n + 1, "Deleted")
                           ELSE table.journal
          /\ \A w : Row(new, w) = IF w = u THEN 0 ELSE Row(table, w)
      BY <1>2, <2>3, <2>7, <3>1, Deletes
    <3>3. new.journal \subseteq table.journal \cup {[rv |-> n + 1, change |-> "Deleted"]}
      BY <3>2 DEF Journals
    <3>4. JournalOK(new)  BY <1>2, <2>2, <2>8, <3>3 DEF JournalOK, change
    <3>5. \A w \in Uids : Row(new, w) = StateAt(n + 1)[w]  BY <2>4, <2>5, <2>8, <3>2
    <3> QED  BY <1>7, <2>1, <2>2, <2>5, <3>2, <3>4, <3>5 DEF new, n
  <2>9. CASE change # "Deleted"
    <3>1. new = Apply(table, u, n + 1)  BY <2>1, <2>9
    <3>2. change = IF contains(table.index, u) THEN "Modified" ELSE "Added"
      BY <2>3, <2>6, <2>9 DEF Changes
    <3>3. /\ IsTable(new) /\ new.relisting = table.relisting
          /\ new.journal = Journals(table, n + 1, change)
          /\ \A w : Row(new, w) = IF w = u THEN n + 1 ELSE Row(table, w)
      BY <1>2, <2>3, <2>7, <3>1, <3>2, Applies
    <3>4. new.journal \subseteq table.journal \cup {[rv |-> n + 1, change |-> change]}
      BY <3>3 DEF Journals
    <3>5. JournalOK(new)  BY <1>2, <2>2, <3>4 DEF JournalOK, change
    <3>6. \A w \in Uids : Row(new, w) = StateAt(n + 1)[w]  BY <2>4, <2>5, <2>9, <3>3
    <3> QED  BY <1>7, <2>1, <2>2, <2>5, <3>3, <3>5, <3>6 DEF new, n
  <2> QED  BY <2>8, <2>9
<1>12. CASE CarriesList(History, a, msg, b)
  <2>1. /\ new = replace_all(table, msg.objects) /\ a.rv <= b.rv /\ ~b.listing
        /\ msg.objects \in ListsOf(StateAt(b.rv))
    BY <1>1, <1>12 DEF CarriesList, Applied
  <2>2. StateAt(b.rv) \in [Uids -> Nat]  BY <1>6, StateType
  <2> HIDE DEF new
  <2>3. /\ IsTable(new) /\ ~new.relisting /\ new.journal = table.journal
        /\ \A u \in Uids : Row(new, u) = StateAt(b.rv)[u]
    BY <1>2, <2>1, <2>2, Replaces
  <2>4. JournalOK(new)  BY <1>2, <2>3 DEF JournalOK
  <2> QED  BY <1>7, <2>1, <2>3, <2>4 DEF new
<1>13. CASE Closes(msg) /\ b = a
  <2>1. msg.k = "Refused"  BY <1>13 DEF Closes, Ends
  <2>2. new = [table EXCEPT !.refused = TRUE]  BY <2>1 DEF Applied
  <2> HIDE DEF new
  <2>3. /\ new.index = table.index /\ new.relisting = table.relisting
        /\ new.seen = table.seen /\ new.journal = table.journal /\ new.phase = table.phase
        /\ new \in [index : {table.index}, relisting : BOOLEAN, seen : SUBSET Uids,
                    phase : Phases, refused : BOOLEAN,
                    journal : SUBSET [rv : Nat, change : Changes]]
    BY <1>2, <2>2 DEF IsTable
  <2>4. IsTable(new)  BY <1>2, <2>3 DEF IsTable
  <2>5. \A u : Row(new, u) = Row(table, u)  BY <2>3 DEF Row
  <2>6. TableAt(History, new, b)  BY <1>13, <2>3, <2>5 DEF TableAt
  <2>7. RowsMove(table, new)  BY <1>4, <1>5, <2>5 DEF RowsMove
  <2>8. JournalOK(new)  BY <1>2, <2>3 DEF JournalOK
  <2> QED  BY <2>4, <2>6, <2>7, <2>8 DEF new
<1> QED  BY <1>8, <1>9, <1>10, <1>11, <1>12, <1>13 DEF Carries
-----------------------------------------------------------------------------
\* Every step keeps the invariant.
LEMMA InitInv ==
  ASSUME Init
  PROVE  IInv
<1>1. LogOK  BY DEF Init, LogOK
<1>2. FeedOK  BY DEF Init, FeedOK, Off, FeedStages
<1>3. ChanOK  BY BoundAssumption DEF Init, ChanOK
<1>4. IsTable(table)
  <2>1. IsIndex(EmptyIndex, Uids, Rows)
    BY DEF EmptyIndex, IsIndex, WellFormed
  <2> QED  BY <2>1 DEF Init, EmptyTable, IsTable, Phases
<1>5. \A u : Row(table, u) = 0
  BY DEF Init, EmptyTable, EmptyIndex, Row, contains
<1>6. TableOK  BY <1>4, <1>5 DEF TableOK, Init, EmptyTable
<1>7. PathOK
  <2> DEFINE a == [listing |-> FALSE, rv |-> 0, left |-> {}]
             p == <<a>>
  <2>1. a \in Point  BY DEF Point
  <2>2. 0 \in DOMAIN History /\ History[0] = StateAt(0)
    <3>1. Len(log) = 0  BY DEF Init
    <3> QED  BY <3>1 DEF History
  <2>3. InHistory(History, a)  BY <2>2 DEF InHistory
  <2>4. ~table.relisting  BY DEF Init, EmptyTable
  <2>5. TableAt(History, table, a)  BY <1>5, <2>2, <2>4, StateStart DEF TableAt
  <2>6. FeedAt(History, feed, a)  BY DEF FeedAt, Init, Off
  <2>7. p \in Seq(Point) /\ Len(p) = 1 /\ p[1] = a  BY <2>1
  <2>8. Len(chan) = 0  BY DEF Init
  <2> HIDE DEF p, a
  <2>9. IsPath(History, log, p, chan, table, feed)
    BY <2>3, <2>5, <2>6, <2>7, <2>8 DEF IsPath
  <2> QED  BY <2>9 DEF PathOK
<1> QED  BY <1>1, <1>2, <1>3, <1>6, <1>7 DEF IInv

\* A step that leaves the server alone.
LEMMA SameHistory ==
  ASSUME log' = log
  PROVE  /\ History' = History
         /\ LogOK => LogOK'
         /\ \A u : Versions(u)' = Versions(u)
<1>1. \A n : StateAt(n)' = StateAt(n)  BY DEF StateAt
<1> QED  BY <1>1 DEF History, LogOK, Versions

LEMMA SameTable ==
  ASSUME IInv, log' = log, table' = table
  PROVE  LogOK' /\ TableOK' /\ History' = History
<1>1. LogOK' /\ History' = History /\ \A u : Versions(u)' = Versions(u)
  BY SameHistory DEF IInv
<1>2. \A u \in Uids : Row(table, u) \in Versions(u) \cup {0}  BY DEF IInv, TableOK
<1>3. \A u \in Uids : Row(table', u) \in Versions(u)' \cup {0}  BY <1>1, <1>2
<1> QED  BY <1>1, <1>3 DEF IInv, TableOK

\* Where the feed of a path is.
LEMMA FeedPoint ==
  ASSUME IInv, NEW p, IsPath(History, log, p, chan, table, feed)
  PROVE  LET a == p[Len(chan) + 1]
         IN /\ a \in Point /\ InHistory(History, a) /\ FeedAt(History, feed, a)
            /\ a.rv \in 0 .. Len(log) /\ History[a.rv] = StateAt(a.rv)
            /\ a.left \subseteq Present(StateAt(a.rv))
<1>1. Len(chan) \in Nat  BY DEF IInv, ChanOK
<1> DEFINE a == p[Len(chan) + 1]
<1>2. a \in Point /\ InHistory(History, a) /\ FeedAt(History, feed, a)
  BY <1>1 DEF IsPath
<1> HIDE DEF a
<1> QED  BY <1>2, HistoryIs DEF a

LEMMA Sending ==
  ASSUME IInv, NEW p, IsPath(History, log, p, chan, table, feed),
         NEW msg \in Message, Sends(msg), NEW b \in Point,
         InHistory(History, b), FeedAt(History, feed', b), feed.st # "ended",
         Carries(History, log, p[Len(chan) + 1], msg, b),
         Closes(msg) => feed'.st = "ended",
         feed' \in [st : FeedStages, rv : 0 .. Len(log), left : SUBSET Uids]
  PROVE  IInv'
<1>1. /\ Len(chan) < Capacity /\ chan' = Append(chan, msg)
      /\ kind' = kind /\ log' = log /\ table' = table
  BY DEF Sends
<1>2. LogOK' /\ TableOK' /\ History' = History  BY <1>1, SameTable
<1>3. FeedOK'  BY <1>1 DEF FeedOK, IInv
<1>4. chan \in Seq(Message)  BY DEF IInv, ChanOK
<1>5. ChanOK'
  <2>1. Append(chan, msg) \in Seq(Message) /\ Len(Append(chan, msg)) = Len(chan) + 1
    BY <1>4
  <2>2. Len(chan) + 1 <= Capacity  BY <1>1, <1>4, BoundAssumption
  <2> QED  BY <1>1, <2>1, <2>2 DEF ChanOK
<1>6. \E q : IsPath(History, log, q, Append(chan, msg), table, feed')
  BY <1>4, PathSends
<1>7. PathOK'  BY <1>1, <1>2, <1>6 DEF PathOK
<1> QED  BY <1>2, <1>3, <1>5, <1>7 DEF IInv

LEMMA Feeding ==
  ASSUME IInv, kind' = kind, log' = log, chan' = chan, table' = table,
         \E q : IsPath(History, log, q, chan, table, feed'),
         feed' \in [st : FeedStages, rv : 0 .. Len(log), left : SUBSET Uids]
  PROVE  IInv'
<1>1. LogOK' /\ TableOK' /\ History' = History  BY SameTable
<1>2. FeedOK' /\ ChanOK'  BY DEF FeedOK, ChanOK, IInv
<1>3. PathOK'  BY <1>1 DEF PathOK
<1> QED  BY <1>1, <1>2, <1>3 DEF IInv

LEMMA Dropping ==
  ASSUME IInv, kind' = kind, log' = log, chan' = <<>>, table' = table,
         feed'.st \in {"off", "poll", "empty"},
         feed' \in [st : FeedStages, rv : 0 .. Len(log), left : SUBSET Uids]
  PROVE  IInv'
<1>1. LogOK' /\ TableOK' /\ History' = History  BY SameTable
<1>2. FeedOK' /\ ChanOK'  BY BoundAssumption DEF FeedOK, ChanOK, IInv
<1>3. chan \in Seq(Message)  BY DEF IInv, ChanOK
<1>4. PICK p : IsPath(History, log, p, chan, table, feed)  BY DEF IInv, PathOK
<1>5. \E q : IsPath(History, log, q, <<>>, table, feed')  BY <1>3, <1>4, PathDrops
<1>6. PathOK'  BY <1>1, <1>5 DEF PathOK
<1> QED  BY <1>1, <1>2, <1>6 DEF IInv

\* A point at the end of the history, or where the feed is, is in it.
LEMMA PointIs ==
  ASSUME NEW rv \in 0 .. Len(log), NEW left \in SUBSET Present(StateAt(rv)),
         NEW listing \in BOOLEAN, Len(log) \in Nat
  PROVE  LET b == [listing |-> listing, rv |-> rv, left |-> left]
         IN b \in Point /\ InHistory(History, b) /\ History[rv] = StateAt(rv)
<1>1. Present(StateAt(rv)) \subseteq Uids  BY DEF Present
<1>2. rv \in DOMAIN History /\ History[rv] = StateAt(rv)  BY DEF History
<1> QED  BY <1>1, <1>2 DEF Point, InHistory

LEMMA WatchesKeep ==
  ASSUME IInv, Watches
  PROVE  IInv'
<1>1. PICK p : IsPath(History, log, p, chan, table, feed)  BY DEF IInv, PathOK
<1> DEFINE a == p[Len(chan) + 1]
<1>2. /\ a \in Point /\ InHistory(History, a) /\ FeedAt(History, feed, a)
      /\ a.rv \in 0 .. Len(log) /\ History[a.rv] = StateAt(a.rv)
      /\ a.left \subseteq Present(StateAt(a.rv))
  BY <1>1, FeedPoint
<1>3. feed \in [st : FeedStages, rv : 0 .. Len(log), left : SUBSET Uids]
  BY DEF IInv, FeedOK
<1>4. log \in Seq(Line) /\ Len(log) \in Nat  BY DEF IInv, LogOK
<1> HIDE DEF a
<1>5. CASE SendInit
  <2> DEFINE b == [listing |-> TRUE, rv |-> a.rv, left |-> Present(StateAt(a.rv))]
             msg == [k |-> "Init"]
  <2>1. /\ feed.st = "empty" /\ Sends(msg) /\ feed' = [feed EXCEPT !.st = "list"]
    BY <1>5 DEF SendInit
  <2>2. b \in Point /\ InHistory(History, b)  BY <1>2, <1>4, PointIs
  <2>3. FeedAt(History, feed', b)  BY <1>2, <1>3, <2>1 DEF FeedAt
  <2>4. Carries(History, log, a, msg, b)
    <3>1. a.rv <= a.rv  BY <1>2, <1>4
    <3>2. CarriesInit(History, a, msg, b)  BY <1>2, <3>1 DEF CarriesInit
    <3> QED  BY <3>2 DEF Carries
  <2>5. msg \in Message /\ ~Closes(msg)  BY DEF Message, Closes
  <2>6. feed' \in [st : FeedStages, rv : 0 .. Len(log), left : SUBSET Uids]
    BY <1>3, <2>1 DEF FeedStages
  <2>7. feed.st # "ended"  BY <2>1
  <2> HIDE DEF b, msg
  <2> QED  BY <1>1, <2>1, <2>2, <2>3, <2>4, <2>5, <2>6, <2>7, Sending DEF a
<1>6. CASE List
  <2> DEFINE b == [listing |-> TRUE, rv |-> Len(log), left |-> Present(Now)]
  <2>1. /\ feed.st = "list" /\ feed' = [st |-> "page", rv |-> Len(log), left |-> Present(Now)]
        /\ kind' = kind /\ log' = log /\ chan' = chan /\ table' = table
    BY <1>6 DEF List
  <2>2. b \in Point /\ InHistory(History, b) /\ b.left = Present(History[b.rv])
    <3>1. Len(log) \in 0 .. Len(log)  BY <1>4
    <3> QED  BY <1>4, <3>1, PointIs DEF Now
  <2>3. FeedAt(History, feed', b)  BY <2>1 DEF FeedAt
  <2>4. b.listing /\ b.rv = Len(log)  OBVIOUS
  <2>5. \A i \in 1 .. Len(chan) + 1 : p[i].rv <= b.rv
    <3> SUFFICES ASSUME NEW i \in 1 .. Len(chan) + 1  PROVE p[i].rv <= b.rv  OBVIOUS
    <3>1. InHistory(History, p[i])  BY <1>1 DEF IsPath
    <3> QED  BY <1>4, <2>4, <3>1, HistoryIs
  <2>6. \A u \in Uids : Row(table, u) \in Nat  BY RowIsThere DEF IInv, TableOK
  <2>7. feed' \in [st : FeedStages, rv : 0 .. Len(log), left : SUBSET Uids]
    BY <1>4, <2>1 DEF FeedStages, Present
  <2>8. chan \in Seq(Message)  BY DEF IInv, ChanOK
  <2> HIDE DEF b
  <2>9. \E q : IsPath(History, log, q, chan, table, feed')
    BY <1>1, <2>1, <2>2, <2>3, <2>4, <2>5, <2>6, <2>8, PathLists
  <2> QED  BY <2>1, <2>7, <2>9, Feeding
<1>7. CASE SendRow
  <2>1. PICK u \in feed.left :
          /\ feed.st = "page"
          /\ Sends([k |-> "InitApply", uid |-> u, rv |-> StateAt(feed.rv)[u]])
          /\ feed' = [feed EXCEPT !.left = @ \ {u}]
    BY <1>7 DEF SendRow
  <2> DEFINE left == feed.left \ {u}
             b == [listing |-> TRUE, rv |-> feed.rv, left |-> left]
             msg == [k |-> "InitApply", uid |-> u, rv |-> StateAt(feed.rv)[u]]
  <2>2. a.listing /\ a.rv = feed.rv /\ a.left = feed.left  BY <1>2, <2>1 DEF FeedAt
  <2>3. feed.rv \in 0 .. Len(log) /\ left \subseteq Present(StateAt(feed.rv)) /\ u \in Uids
    BY <1>2, <1>3, <2>2
  <2>4. b \in Point /\ InHistory(History, b)
    <3> HIDE DEF left
    <3> QED  BY <1>4, <2>3, PointIs
  <2>5. feed' = [st |-> "page", rv |-> feed.rv, left |-> left]  BY <1>3, <2>1
  <2>6. FeedAt(History, feed', b)  BY <2>5 DEF FeedAt
  <2>7. Carries(History, log, a, msg, b)
    <3>1. CarriesRow(History, a, msg, b)  BY <1>2, <2>1, <2>2 DEF CarriesRow
    <3> QED  BY <3>1 DEF Carries
  <2>8. msg \in Message /\ ~Closes(msg)
    <3>1. feed.rv \in Nat  BY <1>4, <2>3
    <3>2. StateAt(feed.rv)[u] \in Nat  BY <2>3, <3>1, StateIsAVersion
    <3> HIDE DEF b
    <3> QED  BY <2>3, <3>2 DEF Message, Closes
  <2>9. feed' \in [st : FeedStages, rv : 0 .. Len(log), left : SUBSET Uids]
    BY <1>3, <2>5 DEF FeedStages
  <2>10. feed.st # "ended" /\ Sends(msg)  BY <2>1
  <2> HIDE DEF b, msg
  <2> QED  BY <1>1, <2>4, <2>6, <2>7, <2>8, <2>9, <2>10, Sending DEF a
<1>8. CASE SendDone
  <2> DEFINE b == [listing |-> FALSE, rv |-> feed.rv, left |-> {}]
             msg == [k |-> "InitDone"]
  <2>1. /\ feed.st = "page" /\ feed.left = {} /\ Sends(msg)
        /\ feed' = [feed EXCEPT !.st = "watch"]
    BY <1>8 DEF SendDone
  <2>2. a.listing /\ a.rv = feed.rv /\ a.left = {}  BY <1>2, <2>1 DEF FeedAt
  <2>3. b \in Point /\ InHistory(History, b)  BY <1>3, <1>4, PointIs
  <2>4. FeedAt(History, feed', b)  BY <1>3, <2>1 DEF FeedAt
  <2>5. Carries(History, log, a, msg, b)
    <3>1. CarriesDone(a, msg, b)  BY <2>2 DEF CarriesDone
    <3> QED  BY <3>1 DEF Carries
  <2>6. msg \in Message /\ ~Closes(msg)  BY DEF Message, Closes
  <2>7. feed' \in [st : FeedStages, rv : 0 .. Len(log), left : SUBSET Uids]
    BY <1>3, <2>1 DEF FeedStages
  <2>8. feed.st # "ended"  BY <2>1
  <2> HIDE DEF b, msg
  <2> QED  BY <1>1, <2>1, <2>3, <2>4, <2>5, <2>6, <2>7, <2>8, Sending DEF a
<1>9. CASE SendChange
  <2> DEFINE next == feed.rv + 1
             b == [listing |-> FALSE, rv |-> next, left |-> {}]
             msg == [k |-> IF log[next].change = "Deleted" THEN "Delete" ELSE "Apply",
                     uid |-> log[next].uid, rv |-> next]
  <2>1. /\ feed.st = "watch" /\ feed.rv < Len(log) /\ Sends(msg)
        /\ feed' = [feed EXCEPT !.rv = next]
    BY <1>9 DEF SendChange
  <2>2. ~a.listing /\ a.rv = feed.rv  BY <1>2, <2>1 DEF FeedAt
  <2>3. next \in 1 .. Len(log) /\ next \in Nat /\ next \in 0 .. Len(log)
    BY <1>3, <1>4, <2>1
  <2>4. log[next].uid \in Uids
    <3>1. log[next] \in Line  BY <1>4, <2>3
    <3> QED  BY <3>1 DEF Line
  <2>5. next = a.rv + 1  BY <2>2
  <2>6. feed' = [st |-> "watch", rv |-> next, left |-> feed.left]  BY <1>3, <2>1
  <2> HIDE DEF next
  <2>7. b \in Point /\ InHistory(History, b)  BY <1>4, <2>3, PointIs
  <2>8. FeedAt(History, feed', b)  BY <2>6 DEF FeedAt
  <2>9. Carries(History, log, a, msg, b)
    <3>1. CarriesChange(log, a, msg, b)  BY <2>2, <2>5 DEF CarriesChange
    <3> QED  BY <3>1 DEF Carries
  <2>10. msg \in Message /\ ~Closes(msg)
    <3>1. msg.k \in {"Apply", "Delete"}  OBVIOUS
    <3>2. msg = [k |-> msg.k, uid |-> log[next].uid, rv |-> next]  OBVIOUS
    <3> HIDE DEF msg, b
    <3> QED  BY <2>3, <2>4, <3>1, <3>2 DEF Message, Closes
  <2>11. feed' \in [st : FeedStages, rv : 0 .. Len(log), left : SUBSET Uids]
    BY <1>3, <2>3, <2>6 DEF FeedStages
  <2>12. feed.st # "ended"  BY <2>1
  <2> HIDE DEF b, msg
  <2> QED  BY <1>1, <2>1, <2>7, <2>8, <2>9, <2>10, <2>11, <2>12, Sending DEF a
<1>10. CASE SendNoVersion
  <2> DEFINE msg == [k |-> "NoResourceVersion"]
  <2>1. feed.st = "list" /\ Sends(msg) /\ feed' = [Off EXCEPT !.st = "ended"]
    BY <1>10 DEF SendNoVersion, EndsWith
  <2>2. FeedAt(History, feed', a) /\ feed'.st = "ended"  BY <2>1 DEF FeedAt, Off
  <2>3. Carries(History, log, a, msg, a)  BY DEF Carries, Closes
  <2>4. msg \in Message  BY DEF Message
  <2>5. feed' \in [st : FeedStages, rv : 0 .. Len(log), left : SUBSET Uids]
    BY <1>4, <2>1 DEF FeedStages, Off
  <2>6. feed.st # "ended"  BY <2>1
  <2> HIDE DEF msg
  <2> QED  BY <1>1, <1>2, <2>1, <2>2, <2>3, <2>4, <2>5, <2>6, Sending DEF a
<1> QED  BY <1>5, <1>6, <1>7, <1>8, <1>9, <1>10 DEF Watches

\* A feed that ends leaves the table where its last outcome takes it.
LEMMA EndsKeep ==
  ASSUME IInv, NEW k \in {"Unauthorized", "Refused"}, EndsWith(k), feed.st # "ended"
  PROVE  IInv'
<1> DEFINE msg == [k |-> k]
<1>1. PICK p : IsPath(History, log, p, chan, table, feed)  BY DEF IInv, PathOK
<1> DEFINE a == p[Len(chan) + 1]
<1>2. a \in Point /\ InHistory(History, a)  BY <1>1, FeedPoint
<1>3. Len(log) \in Nat  BY DEF IInv, LogOK
<1> HIDE DEF a
<1>4. Sends(msg) /\ feed' = [Off EXCEPT !.st = "ended"]  BY DEF EndsWith
<1>5. FeedAt(History, feed', a) /\ feed'.st = "ended"  BY <1>4 DEF FeedAt, Off
<1>6. Carries(History, log, a, msg, a)  BY DEF Carries, Closes
<1>7. msg \in Message  BY DEF Message
<1>8. feed' \in [st : FeedStages, rv : 0 .. Len(log), left : SUBSET Uids]
  BY <1>3, <1>4 DEF FeedStages, Off
<1> HIDE DEF msg
<1> QED  BY <1>1, <1>2, <1>4, <1>5, <1>6, <1>7, <1>8, Sending DEF a

LEMMA PollsAndFailsKeep ==
  ASSUME IInv, Polls \/ Fails \/ Pause \/ Resume
  PROVE  IInv'
<1>1. PICK p : IsPath(History, log, p, chan, table, feed)  BY DEF IInv, PathOK
<1> DEFINE a == p[Len(chan) + 1]
<1>2. /\ a \in Point /\ InHistory(History, a) /\ FeedAt(History, feed, a)
      /\ a.rv \in 0 .. Len(log)
  BY <1>1, FeedPoint
<1>3. feed \in [st : FeedStages, rv : 0 .. Len(log), left : SUBSET Uids]
  BY DEF IInv, FeedOK
<1>4. log \in Seq(Line) /\ Len(log) \in Nat  BY DEF IInv, LogOK
<1> HIDE DEF a
<1>5. CASE Poll
  <2>1. PICK objects \in ListsOf(Now) :
          /\ feed.st = "poll" /\ Sends([k |-> "Listed", objects |-> objects])
          /\ feed' = [feed EXCEPT !.st = "wait"]
    BY <1>5 DEF Poll
  <2> DEFINE b == [listing |-> FALSE, rv |-> Len(log), left |-> {}]
             msg == [k |-> "Listed", objects |-> objects]
  <2>2. b \in Point /\ InHistory(History, b) /\ History[Len(log)] = Now
    <3>1. Len(log) \in 0 .. Len(log)  BY <1>4
    <3> QED  BY <1>4, <3>1, PointIs DEF Now
  <2>3. FeedAt(History, feed', b)  BY <1>3, <2>1 DEF FeedAt
  <2>4. Carries(History, log, a, msg, b)
    <3>1. a.rv <= Len(log)  BY <1>2, <1>4
    <3>2. CarriesList(History, a, msg, b)  BY <2>2, <3>1 DEF CarriesList
    <3> QED  BY <3>2 DEF Carries
  <2>5. msg \in Message /\ ~Closes(msg)
    <3>1. Now \in [Uids -> Nat]  BY <1>4, StateType DEF Now
    <3>2. objects \in Seq([uid : Uids, rv : Nat])  BY <3>1, ListedObjects
    <3> HIDE DEF b
    <3> QED  BY <3>2 DEF Message, Closes
  <2>6. feed' \in [st : FeedStages, rv : 0 .. Len(log), left : SUBSET Uids]
    BY <1>3, <2>1 DEF FeedStages
  <2>7. feed.st # "ended" /\ Sends(msg)  BY <2>1
  <2> HIDE DEF b, msg
  <2> QED  BY <1>1, <2>2, <2>3, <2>4, <2>5, <2>6, <2>7, Sending DEF a
<1>6. CASE PollAgain \/ PollFails \/ StartsAgain
  <2>1. /\ kind' = kind /\ log' = log /\ chan' = chan /\ table' = table
        /\ feed.st # "ended"
        /\ feed' \in [st : {"poll", "wait", "empty"}, rv : 0 .. Len(log), left : SUBSET Uids]
    <3>1. CASE PollAgain  BY <1>3, <3>1 DEF PollAgain
    <3>2. CASE PollFails  BY <1>3, <3>2 DEF PollFails
    <3>3. CASE StartsAgain  BY <1>3, <3>3 DEF StartsAgain
    <3> QED  BY <1>6, <3>1, <3>2, <3>3
  <2>2. FeedAt(History, feed', a)  BY <2>1 DEF FeedAt
  <2>3. IsPath(History, log, p, chan, table, feed')  BY <1>1, <2>1, <2>2, PathFeeds DEF a
  <2>4. feed' \in [st : FeedStages, rv : 0 .. Len(log), left : SUBSET Uids]
    BY <2>1 DEF FeedStages
  <2> QED  BY <2>1, <2>3, <2>4, Feeding
<1>7. CASE Resume
  <2>1. /\ kind' = kind /\ log' = log /\ chan' = chan /\ table' = table
        /\ feed.st = "off" /\ feed' = Started(kind)
    BY <1>7 DEF Resume
  <2>2. feed' \in [st : {"poll", "empty"}, rv : 0 .. Len(log), left : SUBSET Uids]
    BY <1>4, <2>1 DEF Started, Off
  <2>3. FeedAt(History, feed', a)  BY <2>2 DEF FeedAt
  <2>4. IsPath(History, log, p, chan, table, feed')  BY <1>1, <2>1, <2>3, PathFeeds DEF a
  <2>5. feed' \in [st : FeedStages, rv : 0 .. Len(log), left : SUBSET Uids]
    BY <2>2 DEF FeedStages
  <2> QED  BY <2>1, <2>4, <2>5, Feeding
<1>8. CASE Pause
  <2>1. /\ kind' = kind /\ log' = log /\ chan' = <<>> /\ table' = table /\ feed' = Off
    BY <1>8 DEF Pause
  <2>2. /\ feed'.st = "off"
        /\ feed' \in [st : FeedStages, rv : 0 .. Len(log), left : SUBSET Uids]
    BY <1>4, <2>1 DEF Off, FeedStages
  <2> QED  BY <2>1, <2>2, Dropping
<1>9. CASE SendUnauthorized  BY <1>9, EndsKeep DEF SendUnauthorized
<1>10. CASE SendRefused  BY <1>10, EndsKeep DEF SendRefused
<1> QED  BY <1>5, <1>6, <1>7, <1>8, <1>9, <1>10 DEF Polls, Fails

\* Taking an outcome keeps the invariant, and moves the rows forward.
LEMMA TakesKeep ==
  ASSUME IInv, TakeRow
  PROVE  IInv' /\ RowsMove(table, table')
<1>1. PICK p : IsPath(History, log, p, chan, table, feed)  BY DEF IInv, PathOK
<1> DEFINE msg == Head(chan)
           a == p[1]
           b == p[2]
<1>2. /\ chan # <<>> /\ ~Ends(msg) /\ chan' = Tail(chan) /\ table' = Applied(msg)
      /\ kind' = kind /\ log' = log /\ feed' = feed
  BY DEF TakeRow
<1>3. chan \in Seq(Message) /\ Len(chan) \in Nat /\ Len(chan) <= Capacity
  BY DEF IInv, ChanOK
<1>4. /\ msg \in Message /\ msg = chan[1] /\ Len(chan) # 0
      /\ Tail(chan) \in Seq(Message) /\ Len(Tail(chan)) = Len(chan) - 1
  BY <1>2, <1>3, HeadTailProperties, EmptySeq
<1>5. 1 \in 1 .. Len(chan) /\ 1 \in 1 .. Len(chan) + 1 /\ 2 \in 1 .. Len(chan) + 1
  BY <1>3, <1>4
<1>6. a \in Point /\ b \in Point  BY <1>1, <1>3, <1>5, PointFacts
<1>7. /\ InHistory(History, a) /\ InHistory(History, b) /\ TableAt(History, table, a)
  BY <1>1, <1>5 DEF IsPath
<1>8. Carries(History, log, a, msg, b)
  <2>1. Carries(History, log, p[1], chan[1], p[1 + 1])  BY <1>1, <1>5 DEF IsPath
  <2>2. 1 + 1 = 2  OBVIOUS
  <2> QED  BY <1>4, <2>1, <2>2
<1> HIDE DEF a, b, msg
<1>9. /\ IsTable(table') /\ TableAt(History, table', b)
      /\ RowsMove(table, table') /\ JournalOK(table')
  <2> DEFINE new == Applied(msg)
  <2>1. IsTable(new) /\ TableAt(History, new, b) /\ RowsMove(table, new) /\ JournalOK(new)
    BY <1>2, <1>4, <1>6, <1>7, <1>8, TableTakes
  <2> HIDE DEF new
  <2>2. table' = new  BY <1>2 DEF new
  <2> QED  BY <2>1, <2>2
<1>10. LogOK' /\ History' = History /\ \A u : Versions(u)' = Versions(u)
  BY <1>2, SameHistory DEF IInv
<1>11. TableOK'
  <2>1. \A u \in Uids : Row(table', u) \in Versions(u) \cup {0}  BY <1>9 DEF RowsMove
  <2>2. \A u \in Uids : Row(table', u) \in Versions(u)' \cup {0}  BY <1>10, <2>1
  <2>3. \A entry \in table'.journal :
          entry.rv \in 1 .. Len(log') /\ log'[entry.rv].change = entry.change
    BY <1>2, <1>9 DEF JournalOK
  <2> QED  BY <1>9, <2>2, <2>3 DEF TableOK
<1>12. FeedOK'  BY <1>2 DEF FeedOK, IInv
<1>13. ChanOK'
  <2>1. Len(chan) - 1 <= Capacity  BY <1>3, BoundAssumption
  <2> QED  BY <1>2, <1>4, <2>1 DEF ChanOK
<1>14. \E q : IsPath(History, log, q, Tail(chan), table', feed)
  BY <1>1, <1>2, <1>3, <1>9, PathTakes DEF b
<1>15. PathOK'  BY <1>2, <1>10, <1>14 DEF PathOK
<1> QED  BY <1>9, <1>10, <1>11, <1>12, <1>13, <1>15 DEF IInv

LEMMA TakeEndKeeps ==
  ASSUME IInv, TakeEnd
  PROVE  IInv'
<1>1. /\ chan' = <<>> /\ kind' = kind /\ log' = log /\ table' = table
      /\ feed' = Off \/ feed' = Started("polled")
  BY DEF TakeEnd
<1>2. Len(log) \in Nat  BY DEF IInv, LogOK
<1>3. /\ feed'.st \in {"off", "poll", "empty"}
      /\ feed' \in [st : FeedStages, rv : 0 .. Len(log), left : SUBSET Uids]
  BY <1>1, <1>2 DEF Off, Started, FeedStages
<1> QED  BY <1>1, <1>3, Dropping

LEMMA ServerKeeps ==
  ASSUME IInv, ServerChanges
  PROVE  IInv'
<1>1. PICK u \in Uids, change \in Changes :
        CanChange(u, change) /\ log' = Append(log, [uid |-> u, change |-> change])
  BY DEF ServerChanges
<1>2. kind' = kind /\ feed' = feed /\ chan' = chan /\ table' = table
  BY DEF ServerChanges
<1> DEFINE line == [uid |-> u, change |-> change]
           N == Len(log)
<1>3. log \in Seq(Line) /\ N \in Nat /\ line \in Line  BY DEF IInv, LogOK, Line
<1>4. /\ log' \in Seq(Line) /\ Len(log') = N + 1 /\ log'[N + 1] = line
      /\ \A i \in 1 .. N : log'[i] = log[i]
  BY <1>1, <1>3
<1>5. \A n \in 0 .. N : StateAt(n)' = StateAt(n)  BY <1>1, <1>3, StateStays
<1>6. LogOK'
  <2> SUFFICES ASSUME NEW n \in 1 .. N + 1
               PROVE  log'[n].change = "Added" <=> StateAt(n - 1)'[log'[n].uid] = 0
    BY <1>4 DEF LogOK
  <2>1. n - 1 \in 0 .. N /\ StateAt(n - 1)' = StateAt(n - 1)  BY <1>3, <1>5
  <2>2. CASE n \in 1 .. N
    <3>1. log'[n] = log[n]  BY <1>4, <2>2
    <3>2. log[n].change = "Added" <=> StateAt(n - 1)[log[n].uid] = 0
      BY <2>2 DEF IInv, LogOK
    <3> QED  BY <2>1, <3>1, <3>2
  <2>3. CASE n = N + 1
    <3>1. log'[n].uid = u /\ log'[n].change = change  BY <1>4, <2>3
    <3>2. n - 1 = N  BY <1>3, <2>3
    <3>3. change = "Added" => StateAt(N)[u] = 0
      BY <1>1, <1>3, StateBefore DEF CanChange
    <3>4. change # "Added" => StateAt(N)[u] # 0  BY <1>1 DEF CanChange, Now
    <3> QED  BY <2>1, <3>1, <3>2, <3>3, <3>4
  <2> QED  BY <1>3, <2>2, <2>3
<1>7. FeedOK'
  <2>1. \A rv \in 0 .. N : rv \in 0 .. N + 1  BY <1>3
  <2> QED  BY <1>2, <1>4, <2>1 DEF IInv, FeedOK
<1>8. ChanOK'  BY <1>2 DEF IInv, ChanOK
<1>9. TableOK'
  <2>1. \A w : Versions(w) \subseteq Versions(w)'
    <3>1. \A i \in 1 .. N : i \in 1 .. N + 1  BY <1>3
    <3> QED  BY <1>4, <3>1 DEF Versions
  <2>2. \A w \in Uids : Row(table, w) \in Versions(w) \cup {0}  BY DEF IInv, TableOK
  <2>3. \A w \in Uids : Row(table', w) \in Versions(w)' \cup {0}  BY <1>2, <2>1, <2>2
  <2>4. \A entry \in table.journal :
          entry.rv \in 1 .. N /\ log[entry.rv].change = entry.change
    BY DEF IInv, TableOK
  <2>5. \A entry \in table'.journal :
          entry.rv \in 1 .. Len(log') /\ log'[entry.rv].change = entry.change
    BY <1>2, <1>3, <1>4, <2>4
  <2>6. IsTable(table')  BY <1>2 DEF IInv, TableOK
  <2> QED  BY <2>3, <2>5, <2>6 DEF TableOK
<1>10. PathOK'
  <2>1. PICK p : IsPath(History, log, p, chan, table, feed)  BY DEF IInv, PathOK
  <2> DEFINE h2 == History'
  <2>2. h2 = [n \in 0 .. N + 1 |-> StateAt(n)']  BY <1>4 DEF History
  <2>3. History = [n \in 0 .. N |-> StateAt(n)]  BY DEF History
  <2>4. /\ DOMAIN History \subseteq DOMAIN h2 /\ DOMAIN History \subseteq Nat
        /\ \A n \in DOMAIN History : h2[n] = History[n]
    <3>1. \A n \in 0 .. N : n \in 0 .. N + 1  BY <1>3
    <3> HIDE DEF h2
    <3> QED  BY <1>3, <1>5, <2>2, <2>3, <3>1
  <2>5. \A n \in DOMAIN History : n # 0 => log'[n] = log[n]  BY <1>3, <1>4, <2>3
  <2>6. Len(chan) \in Nat  BY DEF IInv, ChanOK
  <2> HIDE DEF h2
  <2>7. IsPath(h2, log', p, chan, table, feed)  BY <2>1, <2>4, <2>5, <2>6, PathGrows
  <2> QED  BY <1>2, <2>7 DEF PathOK, h2
<1> QED  BY <1>6, <1>7, <1>8, <1>9, <1>10 DEF IInv

LEMMA StutterKeeps ==
  ASSUME IInv, UNCHANGED vars
  PROVE  IInv'
<1>1. kind' = kind /\ log' = log /\ feed' = feed /\ chan' = chan /\ table' = table
  BY DEF vars
<1>2. LogOK' /\ TableOK' /\ History' = History  BY <1>1, SameTable
<1> QED  BY <1>1, <1>2 DEF IInv, FeedOK, ChanOK, PathOK

LEMMA NextKeeps ==
  ASSUME IInv, [Next]_vars
  PROVE  IInv'
BY ServerKeeps, WatchesKeep, PollsAndFailsKeep, TakesKeep, TakeEndKeeps, StutterKeeps
   DEF Next, Takes
-----------------------------------------------------------------------------
THEOREM SpecInv == Spec => []IInv
<1>1. Init => IInv  BY InitInv
<1>2. IInv /\ [Next]_vars => IInv'  BY NextKeeps
<1> QED  BY <1>1, <1>2, PTL DEF Spec

\* For any objects, kinds, changes and capacity: the channel is bounded, every row
\* is found under its uid, and the table and its feed are at places in their lists
\* that fit (ObjectsTable, PodsTable, EventsTable, ResourceIndex).
THEOREM SpecTableIsSound == Spec => []TableIsSound
<1>1. IInv => TableIsSound  BY InvImplies
<1> QED  BY <1>1, SpecInv, PTL

\* A table that is not in a list shows the server's objects of one moment: the
\* sweep of InitDone leaves nothing that went meanwhile and takes nothing else.
THEOREM SpecShowsOneMoment == Spec => []ShowsOneMoment
<1>1. IInv => ShowsOneMoment  BY InvImplies
<1> QED  BY <1>1, SpecInv, PTL

\* What the journal flashes is what the server did to the object (ChangeJournal).
THEOREM SpecFlashesWhatHappened == Spec => []FlashesWhatHappened
<1>1. IInv => FlashesWhatHappened  BY InvImplies
<1> QED  BY <1>1, SpecInv, PTL

-----------------------------------------------------------------------------
\* The table implements LiveView.
LEMMA ViewInit ==
  ASSUME Init
  PROVE  View!Init
<1>1. \A u : Row(table, u) = 0
  BY DEF Init, EmptyTable, EmptyIndex, Row, contains
<1>2. Shown = [u \in Uids |-> 0]  BY <1>1, ShownRows
<1> QED  BY <1>2 DEF Init, View!Init

\* The rows move, or stay.
LEMMA ViewMoves ==
  ASSUME IInv, log' = log, table' = table \/ TakeRow
  PROVE  View!RowsMove
<1>1. log \in Seq(Line) /\ Len(log) \in Nat  BY DEF IInv, LogOK
<1>2. \A u \in Uids : Row(table, u) \in Versions(u) \cup {0}  BY DEF IInv, TableOK
<1>3. \A u \in Uids : Row(table, u) \in Nat  BY RowIsThere DEF IInv, TableOK
<1>4. RowsMove(table, table')
  <2>1. CASE TakeRow  BY <2>1, TakesKeep
  <2>2. CASE table' = table  BY <1>2, <1>3, <2>2 DEF RowsMove
  <2> QED  BY <2>1, <2>2
<1>5. Shown = [u \in Uids |-> Row(table, u)]  BY ShownRows
<1>6. Shown' = [u \in Uids |-> Row(table', u)]  BY DEF Shown, Row
<1>7. \A u : View!Versions(u) = Versions(u)  BY DEF View!Versions, Versions
<1>8. \A u : View!IsDeleted(u) <=> IsDeleted(u)  BY DEF View!IsDeleted, IsDeleted
<1>9. Shown' \in [Uids -> 0 .. Len(log)]
  <2> SUFFICES ASSUME NEW u \in Uids  PROVE Row(table', u) \in 0 .. Len(log)
    BY <1>6
  <2>1. Row(table', u) \in Versions(u) \cup {0}  BY <1>4 DEF RowsMove
  <2> QED  BY <1>1, <2>1 DEF Versions
<1>10. ASSUME NEW u \in Uids  PROVE View!RowMoves(u)
  <2>1. Shown[u] = Row(table, u) /\ Shown'[u] = Row(table', u)  BY <1>5, <1>6
  <2>2. \/ Row(table', u) \in Versions(u) /\ Row(table, u) <= Row(table', u)
        \/ Row(table', u) = 0 /\ (Row(table, u) = 0 \/ IsDeleted(u))
    BY <1>4 DEF RowsMove
  <2>3. Row(table', u) \in Versions(u) => Row(table', u) \in Nat  BY <1>1 DEF Versions
  <2>4. CASE Row(table', u) \in Versions(u) /\ Row(table, u) <= Row(table', u)
    <3>1. Shown'[u] \in View!Versions(u) /\ Shown'[u] >= Shown[u]
      BY <1>3, <1>7, <2>1, <2>3, <2>4
    <3> QED  BY <3>1 DEF View!RowMoves
  <2>5. CASE Row(table', u) = 0 /\ (Row(table, u) = 0 \/ IsDeleted(u))
    BY <1>8, <2>1, <2>5 DEF View!RowMoves
  <2> QED  BY <2>2, <2>4, <2>5
<1> QED  BY <1>9, <1>10 DEF View!RowsMove

LEMMA ViewStep ==
  ASSUME IInv, [Next]_vars
  PROVE  [View!Next]_(View!viewVars)
<1>1. CASE ServerChanges
  <2>1. table' = table /\ \E u \in Uids, change \in Changes :
          log' = Append(log, [uid |-> u, change |-> change])
    BY <1>1 DEF ServerChanges
  <2>2. Shown' = Shown  BY <2>1 DEF Shown
  <2>3. View!ServerChanges  BY <2>1, <2>2 DEF View!ServerChanges, View!Changes, Changes
  <2> QED  BY <2>3 DEF View!Next
<1>2. CASE ~ServerChanges
  <2>1. log' = log /\ (table' = table \/ TakeRow)
    <3>1. CASE Watches
      BY <3>1 DEF Watches, SendInit, List, SendRow, SendDone, SendChange, SendNoVersion,
                  EndsWith, Sends
    <3>2. CASE Polls \/ Fails
      BY <3>2 DEF Polls, Fails, Poll, PollAgain, PollFails, StartsAgain, SendUnauthorized,
                  SendRefused, EndsWith, Sends
    <3>3. CASE Takes \/ Pause \/ Resume
      BY <3>3 DEF Takes, TakeRow, TakeEnd, Pause, Resume
    <3>4. CASE UNCHANGED vars  BY <3>4 DEF vars
    <3> QED  BY <1>2, <3>1, <3>2, <3>3, <3>4 DEF Next
  <2>2. View!RowsMove  BY <2>1, ViewMoves
  <2> QED  BY <2>2 DEF View!Next
<1> QED  BY <1>1, <1>2

\* Through errors, restarts and polls no row goes back in time, and none goes while
\* its object lives: the tables implement LiveView.
THEOREM SpecImplementsLiveView == Spec => ImplementsLiveView
<1>1. Init => View!Init  BY ViewInit
<1>2. IInv /\ [Next]_vars => [View!Next]_(View!viewVars)  BY ViewStep
<1> QED  BY <1>1, <1>2, SpecInv, PTL DEF Spec, ImplementsLiveView, View!Spec
=============================================================================
