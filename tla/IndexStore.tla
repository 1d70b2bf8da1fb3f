----------------------------- MODULE IndexStore -----------------------------
(***************************************************************************)
(* What SlotMap promises: a value that was inserted stays, unchanged,      *)
(* under the index that insert() returned until that index is removed, and *)
(* size() is the number of values.                                         *)
(***************************************************************************)
EXTENDS Naturals, FiniteSets

CONSTANT Values

VARIABLES
  store,   \* the value under each index in use
  count    \* size()

Init == store = [i \in {} |-> 0] /\ count = 0

Insert(i, v) ==
  /\ i \notin DOMAIN store
  /\ store' = [j \in DOMAIN store \cup {i} |-> IF j = i THEN v ELSE store[j]]
  /\ count' = count + 1

Remove(i) ==
  /\ store' = [j \in DOMAIN store \ {i} |-> store[j]]
  /\ count' = count - 1

Next ==
  \/ \E i \in DOMAIN store', v \in Values : Insert(i, v)
  \/ \E i \in DOMAIN store : Remove(i)

Spec == Init /\ [][Next]_<<store, count>>
=============================================================================
