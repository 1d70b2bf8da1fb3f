---------------------------- MODULE CompleterMap ----------------------------
(***************************************************************************)
(* CompleterMap: the open-addressing hash map, with double hashing and     *)
(* tombstones, that holds the completer of every pending operation of an   *)
(* IoQueue (src/include/aiopp/completermap.hpp, src/src/completermap.cpp). *)
(*                                                                         *)
(* A search loop of the code is an operator that picks the first probe     *)
(* index at which the loop stops.  The SplitMix64 hash is an arbitrary     *)
(* function Hash; 64-bit arithmetic is arithmetic modulo WordSize.         *)
(***************************************************************************)
EXTENDS Naturals, FiniteSets

CONSTANTS
  Keys,        \* keys the program inserts or looks up (operation ids)
  Values,      \* completer pointers
  Empty,       \* the null pointer: entry never used, and "no completer"
  Tombstone,   \* the all-ones pointer: entry used and removed
  Primes,      \* the table of sizes in getNextSize
  NumEntries,  \* the size the constructor is asked for
  WordSize,    \* 2^64 in the code
  Hash         \* hash of each key

(* The least size of the table above the requested one.                    *)
getNextSize(num) ==
  CHOOSE p \in Primes : p > num /\ \A q \in Primes : q > num => p <= q

Capacity == getNextSize(NumEntries)

ASSUME SizeAssumption ==
  /\ Primes \subseteq Nat
  /\ NumEntries \in Nat
  /\ Capacity \in Nat /\ Capacity > 1

ASSUME KeyAssumption ==
  /\ WordSize \in Nat \ {0}
  /\ Keys \subseteq 0 .. WordSize - 1
  /\ Hash \in [Keys -> Nat]

ASSUME ValueAssumption ==
  /\ Empty \notin Values
  /\ Tombstone \notin Values
  /\ Empty # Tombstone

VARIABLES
  entries,   \* entries_: key and value of every entry
  size,      \* size_
  ret,       \* the pointer the last get or remove returned
  aborted    \* an assertion or std::abort() of insert has ended the process

vars == <<entries, size, ret, aborted>>

Slots == 0 .. Capacity - 1
Entry == [key : 0 .. WordSize - 1, value : Values \cup {Empty, Tombstone}]
-----------------------------------------------------------------------------
(* Double hashing: the distance between two probes of a key lies in        *)
(* 1 .. Capacity - 1.                                                      *)
step(key) == (Hash[key] % (Capacity - 1)) + 1

(* The entry that iteration i of a search loop for the key looks at.       *)
probe(key, i) == ((key + i * step(key)) % WordSize) % Capacity

IsLive(slot) == entries[slot].value \in Values
Holds(slot, key) == IsLive(slot) /\ entries[slot].key = key

LiveSlots == {s \in Slots : IsLive(s)}

First(S) == CHOOSE i \in S : \A j \in S : i <= j

(* Iterations at which the loop of insert can place its entry; the faulty  *)
(* one does not use tombstones again.                                      *)
FreeProbesNeverUsed(key) ==
  {i \in Slots : entries[probe(key, i)].value = Empty}

FreeProbes(key) ==
  {i \in Slots : entries[probe(key, i)].value \in {Empty, Tombstone}}

(* Iterations at which the loop of lookup returns; the faulty one takes a  *)
(* tombstone for the end of the probe sequence.                            *)
StopProbesAtTombstone(key) ==
  {i \in Slots : \/ entries[probe(key, i)].value \in {Empty, Tombstone}
                 \/ Holds(probe(key, i), key)}

StopProbes(key) ==
  {i \in Slots : \/ entries[probe(key, i)].value = Empty
                 \/ Holds(probe(key, i), key)}

NoSlot == Capacity

(* The entry that holds the key, or NoSlot (std::nullopt).                 *)
lookup(key) ==
  IF StopProbes(key) = {} THEN NoSlot
  ELSE LET slot == probe(key, First(StopProbes(key)))
       IN  IF entries[slot].value = Empty THEN NoSlot ELSE slot
-----------------------------------------------------------------------------
Init ==
  /\ entries = [s \in Slots |-> [key |-> WordSize - 1, value |-> Empty]]
  /\ size = 0
  /\ ret = Empty
  /\ aborted = FALSE

(* The contract of insert: "If the key already exists, you mess up the     *)
(* map, so don't do that."                                                 *)
MayInsert(key) == ~aborted /\ \A s \in Slots : ~Holds(s, key)

Insert(key, value) ==
  /\ MayInsert(key)
  /\ size < Capacity
  /\ FreeProbes(key) # {}
  /\ entries' = [entries EXCEPT ![probe(key, First(FreeProbes(key)))] =
                                  [key |-> key, value |-> value]]
  /\ size' = size + 1
  /\ UNCHANGED <<ret, aborted>>

(* assert(size() < capacity()), or the std::abort() after the loop.        *)
InsertAborts(key) ==
  /\ MayInsert(key)
  /\ size >= Capacity \/ FreeProbes(key) = {}
  /\ aborted' = TRUE
  /\ UNCHANGED <<entries, size, ret>>

Get(key) ==
  /\ ~aborted
  /\ ret' = IF lookup(key) = NoSlot THEN Empty ELSE entries[lookup(key)].value
  /\ UNCHANGED <<entries, size, aborted>>

(* Faults of remove: it empties the entry instead of leaving a tombstone;  *)
(* it forgets size_--; it does size_-- for a key it did not find.          *)
RemoveWithoutTombstone(key) ==
  /\ ~aborted
  /\ lookup(key) # NoSlot
  /\ ret' = entries[lookup(key)].value
  /\ entries' = [entries EXCEPT ![lookup(key)].value = Empty]
  /\ size' = size - 1
  /\ UNCHANGED aborted

RemoveWithoutDecrement(key) ==
  /\ ~aborted
  /\ lookup(key) # NoSlot
  /\ ret' = entries[lookup(key)].value
  /\ entries' = [entries EXCEPT ![lookup(key)].value = Tombstone]
  /\ UNCHANGED <<size, aborted>>

RemoveHit(key) ==
  /\ ~aborted
  /\ lookup(key) # NoSlot
  /\ ret' = entries[lookup(key)].value
  /\ entries' = [entries EXCEPT ![lookup(key)].value = Tombstone]
  /\ size' = size - 1
  /\ UNCHANGED aborted

RemoveMissDecrements(key) ==
  /\ ~aborted
  /\ lookup(key) = NoSlot
  /\ ret' = Empty
  /\ size' = size - 1
  /\ UNCHANGED <<entries, aborted>>

RemoveMiss(key) ==
  /\ ~aborted
  /\ lookup(key) = NoSlot
  /\ ret' = Empty
  /\ UNCHANGED <<entries, size, aborted>>

Next ==
  \E key \in Keys :
    \/ \E value \in Values : Insert(key, value)
    \/ InsertAborts(key)
    \/ Get(key)
    \/ RemoveHit(key)
    \/ RemoveMiss(key)

Spec == Init /\ [][Next]_vars
-----------------------------------------------------------------------------
TypeOK ==
  /\ entries \in [Slots -> Entry]
  /\ size \in 0 .. Capacity
  /\ ret \in Values \cup {Empty}
  /\ aborted \in BOOLEAN

(* Every stored completer can be found again: whatever was inserted and    *)
(* removed in between, lookup of a live entry's key stops at that entry,   *)
(* so a completion never misses the completer that waits for it and no     *)
(* key is stored twice.                                                    *)
LiveKeysFindable ==
  \A s \in Slots : IsLive(s) => lookup(entries[s].key) = s

(* size() is the number of completers stored: IoQueueImpl::run returns     *)
(* exactly when it is 0.                                                   *)
SizeCountsLive == size = Cardinality(LiveSlots)

(* The inductive strengthening of LiveKeysFindable: a live entry lies on   *)
(* the probe sequence of its key and no entry before it on that sequence   *)
(* is Empty; no two live entries have the same key.                        *)
OnProbePath(s) ==
  \E i \in Slots : /\ probe(entries[s].key, i) = s
                   /\ \A j \in 0 .. i - 1 :
                        entries[probe(entries[s].key, j)].value # Empty

ProbePathsIntact ==
  \A s \in Slots : IsLive(s) => entries[s].key \in Keys /\ OnProbePath(s)

KeysUnique ==
  \A s, t \in Slots :
    IsLive(s) /\ IsLive(t) /\ entries[s].key = entries[t].key => s = t

Inv == TypeOK /\ ProbePathsIntact /\ KeysUnique /\ SizeCountsLive

(* The probe sequence of every key visits every entry.  It holds when      *)
(* Capacity is prime and no probe wraps around WordSize.                   *)
ProbesCover ==
  \A key \in Keys : \A s \in Slots : \E i \in Slots : probe(key, i) = s
-----------------------------------------------------------------------------
(* The refinement: the abstract map holds under each key the value of the  *)
(* live entry with that key.                                               *)
mapBar ==
  [key \in Keys |-> IF \E s \in Slots : Holds(s, key)
                    THEN entries[CHOOSE s \in Slots : Holds(s, key)].value
                    ELSE Empty]

Map == INSTANCE AbstractMap WITH map <- mapBar, Null <- Empty

(* CompleterMap implements AbstractMap: get and remove return what was     *)
(* inserted under the key and nothing else, and insert aborts only when    *)
(* the map is full.                                                        *)
ImplementsMap == Map!Spec
=============================================================================
