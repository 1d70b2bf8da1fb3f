---------------------------- MODULE AbstractMap -----------------------------
(***************************************************************************)
(* What CompleterMap promises to the IoQueue: a map of at most Capacity    *)
(* entries from operation ids to completers, that knows how many it holds. *)
(* `remove' and `get' return the value stored under the key, or Null; an   *)
(* insertion may end the process only when the map is full.                *)
(***************************************************************************)
EXTENDS Naturals

CONSTANTS Keys,      \* operation ids
          Values,    \* completers
          Capacity,  \* number of entries the map can hold
          Null       \* the null pointer: no completer

VARIABLES map,       \* the completer stored under each key, or Null
          size,      \* the number of completers stored
          ret,       \* what the last get or remove returned
          aborted    \* the process has been aborted by an insertion

vars == <<map, size, ret, aborted>>

Init ==
  /\ map = [k \in Keys |-> Null]
  /\ size = 0
  /\ ret = Null
  /\ aborted = FALSE

Insert(key, value) ==
  /\ ~aborted
  /\ map[key] = Null
  /\ size < Capacity
  /\ map' = [map EXCEPT ![key] = value]
  /\ size' = size + 1
  /\ UNCHANGED <<ret, aborted>>

InsertAborts(key) ==
  /\ ~aborted
  /\ map[key] = Null
  /\ size >= Capacity
  /\ aborted' = TRUE
  /\ UNCHANGED <<map, size, ret>>

Get(key) ==
  /\ ~aborted
  /\ ret' = map[key]
  /\ UNCHANGED <<map, size, aborted>>

Remove(key) ==
  /\ ~aborted
  /\ map[key] # Null
  /\ ret' = map[key]
  /\ map' = [map EXCEPT ![key] = Null]
  /\ size' = size - 1
  /\ UNCHANGED aborted

RemoveMiss(key) ==
  /\ ~aborted
  /\ map[key] = Null
  /\ ret' = Null
  /\ UNCHANGED <<map, size, aborted>>

Next ==
  \E key \in Keys :
    \/ \E value \in Values : Insert(key, value)
    \/ InsertAborts(key)
    \/ Get(key)
    \/ Remove(key)
    \/ RemoveMiss(key)

Spec == Init /\ [][Next]_vars
=============================================================================
