---------------------------- MODULE ResourceIndex ----------------------------
(***************************************************************************)
(* The index behind every live table (util/resource_index): the rows in a  *)
(* vector, their uids in a parallel one, and the position of each uid, kept*)
(* in step while rows are removed by swapping the last one into their      *)
(* place.  Positions start at 1 here.                                      *)
(***************************************************************************)
EXTENDS Naturals, Sequences

EmptyIndex ==
  [items |-> <<>>, uids |-> <<>>, positions |-> [uid \in {} |-> 1]]

contains(index, uid) == uid \in DOMAIN index.positions

\* The row of a uid the index contains.
RowOf(index, uid) == index.items[index.positions[uid]]

apply_applied(index, uid, item) ==
  IF contains(index, uid)
  THEN [items     |-> [index.items EXCEPT ![index.positions[uid]] = item],
        uids      |-> index.uids,
        positions |-> index.positions]
  ELSE [items     |-> Append(index.items, item),
        uids      |-> Append(index.uids, uid),
        positions |-> [u \in DOMAIN index.positions \cup {uid} |->
                         IF u = uid THEN Len(index.items) + 1 ELSE index.positions[u]]]

\* The last element takes the place of the one removed.
swap_remove(s, i) ==
  [j \in 1 .. Len(s) - 1 |-> IF j = i THEN s[Len(s)] ELSE s[j]]

\* Mutant: the row that was moved keeps its old position.
DeletedWithoutMoving(index, uid) ==
  IF ~contains(index, uid)
  THEN index
  ELSE [items     |-> swap_remove(index.items, index.positions[uid]),
        uids      |-> swap_remove(index.uids, index.positions[uid]),
        positions |-> [u \in DOMAIN index.positions \ {uid} |-> index.positions[u]]]

\* A delete of a uid that is not there changes nothing.
apply_deleted(index, uid) ==
  LET i    == index.positions[uid]
      uids == swap_remove(index.uids, i)
  IN IF ~contains(index, uid)
     THEN index
     ELSE [items     |-> swap_remove(index.items, i),
           uids      |-> uids,
           positions |-> [u \in DOMAIN index.positions \ {uid} |->
                            IF i <= Len(uids) /\ uids[i] = u
                            THEN i
                            ELSE index.positions[u]]]

-----------------------------------------------------------------------------
\* Every row is found under its uid, and under no other.
WellFormed(index) ==
  /\ Len(index.items) = Len(index.uids)
  /\ \A uid \in DOMAIN index.positions :
       /\ index.positions[uid] \in 1 .. Len(index.uids)
       /\ index.uids[index.positions[uid]] = uid
  /\ \A i \in 1 .. Len(index.uids) :
       /\ index.uids[i] \in DOMAIN index.positions
       /\ index.positions[index.uids[i]] = i
=============================================================================
