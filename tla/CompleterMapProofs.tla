------------------------- MODULE CompleterMapProofs -------------------------
(***************************************************************************)
(* Proofs about CompleterMap for every set of keys, every table size, every *)
(* hash function and every word size: Inv is inductive, so that every live *)
(* entry can be found and size_ counts the live entries; and CompleterMap  *)
(* implements AbstractMap if every probe sequence visits the whole table.  *)
(***************************************************************************)
EXTENDS CompleterMap, TLAPS, FiniteSetTheorems, WellFoundedInduction

(* A search loop that can stop, stops at a first iteration.                *)
LEMMA FirstIsLeast ==
  ASSUME NEW S \in SUBSET Nat, S # {}
  PROVE  /\ First(S) \in S
         /\ \A j \in S : First(S) <= j
<1> DEFINE R == {ss \in Nat \X Nat : ss[1] < ss[2]}
<1>1. IsWellFoundedOn(R, Nat)
  BY NatLessThanWellFounded, Zenon DEF OpToRel
<1>2. \E x \in S : \A y \in S : ~(<<y, x>> \in R)
  <2> HIDE DEF R
  <2>1. QED
    BY <1>1, WFMin, Zenon
<1>3. \E x \in S : \A y \in S : x <= y
  <2>1. PICK x \in S : \A y \in S : ~(<<y, x>> \in R)
    BY <1>2
  <2>2. ASSUME NEW y \in S
        PROVE  x <= y
    <3>1. x \in Nat /\ y \in Nat
      OBVIOUS
    <3>2. ~(y < x)
      BY <2>1, <3>1, Zenon
    <3>3. QED
      BY <3>1, <3>2, SMT
  <2>3. QED
    BY <2>2
<1>4. QED
  BY <1>3, Zenon DEF First

(* Remainders stay below a positive divisor.                               *)
LEMMA ModBounds ==
  ASSUME NEW a \in Nat, NEW b \in Nat, b > 0
  PROVE  a % b \in 0 .. b - 1
BY SMT

LEMMA ProductInNat ==
  ASSUME NEW a \in Nat, NEW b \in Nat
  PROVE  a * b \in Nat
BY SMT

(* Every iteration of insert and lookup looks at an entry of the table.    *)
LEMMA ProbeInSlots ==
  ASSUME NEW key \in Keys, NEW i \in Slots
  PROVE  probe(key, i) \in Slots
<1>1. key \in Nat /\ i \in Nat /\ Capacity \in Nat /\ Capacity > 1
  BY KeyAssumption, SizeAssumption, SMT DEF Slots
<1>2. Hash[key] \in Nat
  BY KeyAssumption, Zenon
<1>3. Hash[key] % (Capacity - 1) \in 0 .. (Capacity - 1) - 1
  <2>1. Capacity - 1 \in Nat /\ Capacity - 1 > 0
    BY <1>1, SMT
  <2>2. QED
    BY <1>2, <2>1, ModBounds, Zenon
<1>4. step(key) \in Nat
  <2> DEFINE r == Hash[key] % (Capacity - 1)
  <2>1. r \in Nat
    BY <1>1, <1>3, SMT
  <2>2. step(key) = r + 1
    BY Zenon DEF step
  <2> HIDE DEF r
  <2>3. QED
    BY <2>1, <2>2, SMT
<1>5. key + i * step(key) \in Nat
  <2>1. i * step(key) \in Nat
    BY <1>1, <1>4, ProductInNat, Zenon
  <2>2. QED
    BY <1>1, <2>1, SMT
<1>6. (key + i * step(key)) % WordSize \in Nat
  <2> DEFINE a == key + i * step(key)
  <2>1. a \in Nat
    BY <1>5, Zenon
  <2> HIDE DEF a
  <2>2. WordSize \in Nat /\ WordSize > 0
    BY KeyAssumption, SMT
  <2>3. a % WordSize \in 0 .. WordSize - 1
    BY <2>1, <2>2, ModBounds, Zenon
  <2>4. a % WordSize \in Nat
    BY <2>2, <2>3, SMT
  <2>5. QED
    BY <2>4, Zenon DEF a
<1>7. Capacity > 0
  BY <1>1, SMT
<1>8. QED
  BY <1>1, <1>6, <1>7, ModBounds, Zenon DEF probe, Slots

LEMMA SlotsFinite ==
  /\ Slots \subseteq Nat
  /\ IsFiniteSet(Slots)
  /\ Cardinality(Slots) = Capacity
  /\ NoSlot \notin Slots
<1>1. Capacity \in Nat /\ Capacity > 1
  BY SizeAssumption
<1>2. 0 \in Int /\ Capacity - 1 \in Int
  BY <1>1, SMT
<1>3. IsFiniteSet(Slots)
  BY <1>2, FS_Interval, Zenon DEF Slots
<1>4. Cardinality(Slots) = IF 0 > Capacity - 1 THEN 0 ELSE (Capacity - 1) - 0 + 1
  BY <1>2, FS_Interval, Zenon DEF Slots
<1>5. QED
  BY <1>1, <1>3, <1>4, SMT DEF Slots, NoSlot

LEMMA SlotSetFinite ==
  ASSUME NEW S \in SUBSET Slots
  PROVE  /\ IsFiniteSet(S)
         /\ Cardinality(S) \in 0 .. Capacity
         /\ Cardinality(S) = Capacity => S = Slots
<1>1. IsFiniteSet(S) /\ Cardinality(S) <= Capacity
  BY SlotsFinite, FS_Subset
<1>2. Cardinality(S) \in Nat
  BY <1>1, FS_CardinalityType
<1>3. Cardinality(S) = Capacity => S = Slots
  BY SlotsFinite, FS_Subset
<1>4. QED
  BY <1>1, <1>2, <1>3, SizeAssumption

(* What lookup computes in a state that satisfies the invariant: the entry *)
(* that holds the key, or nothing if no entry does.                        *)
LEMMA LookupCorrect ==
  ASSUME TypeOK, ProbePathsIntact, NEW key \in Keys
  PROVE  \/ lookup(key) = NoSlot /\ \A s \in Slots : ~Holds(s, key)
         \/ lookup(key) \in Slots /\ Holds(lookup(key), key)
<1> DEFINE Stop == StopProbes(key)
<1>1. Stop \in SUBSET Slots /\ Stop \in SUBSET Nat
  BY SlotsFinite DEF StopProbes
<1>2. ASSUME NEW s \in Slots, Holds(s, key)
      PROVE  \E i \in Stop : /\ probe(key, i) = s
                              /\ \A j \in 0 .. i - 1 : entries[probe(key, j)].value # Empty
  <2>1. IsLive(s) /\ entries[s].key = key
    BY <1>2, Zenon DEF Holds
  <2>2. OnProbePath(s)
    BY <2>1, Zenon DEF ProbePathsIntact
  <2>3. PICK i \in Slots : /\ probe(key, i) = s
                           /\ \A j \in 0 .. i - 1 : entries[probe(key, j)].value # Empty
    BY <2>1, <2>2, Zenon DEF OnProbePath
  <2>4. i \in Stop
    BY <1>2, <2>3, Zenon DEF StopProbes
  <2>5. QED
    BY <2>3, <2>4, Zenon
<1>3. CASE Stop = {}
  <2>1. lookup(key) = NoSlot
    BY <1>3, Zenon DEF lookup
  <2>2. \A s \in Slots : ~Holds(s, key)
    BY <1>2, <1>3, Zenon
  <2>3. QED
    BY <2>1, <2>2, Zenon
<1>4. CASE Stop # {}
  <2> DEFINE f == First(Stop)
             slot == probe(key, f)
  <2>1. f \in Stop /\ \A j \in Stop : f <= j
    BY <1>1, <1>4, FirstIsLeast, Zenon
  <2>2. f \in Slots /\ slot \in Slots
    BY <1>1, <2>1, ProbeInSlots, Zenon
  <2>3. lookup(key) = IF entries[slot].value = Empty THEN NoSlot ELSE slot
    BY <1>4, Zenon DEF lookup
  <2>4. CASE entries[slot].value = Empty
    <3>1. ASSUME NEW s \in Slots, Holds(s, key)
          PROVE  FALSE
      <4>1. PICK i \in Stop : /\ probe(key, i) = s
                              /\ \A j \in 0 .. i - 1 : entries[probe(key, j)].value # Empty
        BY <1>2, <3>1, Zenon
      <4>2. entries[s].value # Empty
        BY <3>1, ValueAssumption, Zenon DEF Holds, IsLive
      <4>3. f <= i /\ f # i
        BY <2>1, <2>4, <4>1, <4>2, Zenon
      <4>4. f \in 0 .. i - 1
        <5> HIDE DEF f, Stop
        <5>1. f \in Nat /\ i \in Nat
          BY <1>1, <2>1, <4>1, Zenon
        <5>2. QED
          BY <4>3, <5>1, SMT
      <4>5. QED
        BY <2>4, <4>1, <4>4, Zenon
    <3>2. QED
      BY <2>3, <2>4, <3>1, Zenon
  <2>5. CASE entries[slot].value # Empty
    <3>1. Holds(slot, key)
      BY <2>1, <2>5, Zenon DEF StopProbes
    <3>2. QED
      BY <2>2, <2>3, <2>5, <3>1, Zenon
  <2>6. QED
    BY <2>4, <2>5, Zenon
<1>5. QED
  BY <1>3, <1>4, Zenon

(* A step that empties no entry keeps the probe path of every entry it     *)
(* does not overwrite.                                                     *)
LEMMA PathsSurvive ==
  ASSUME TypeOK, NEW s \in Slots, entries[s].key \in Keys, OnProbePath(s),
         entries'[s].key = entries[s].key,
         \A t \in Slots : entries[t].value # Empty => entries'[t].value # Empty
  PROVE  OnProbePath(s)'
<1>1. PICK i \in Slots : /\ probe(entries[s].key, i) = s
                         /\ \A j \in 0 .. i - 1 :
                              entries[probe(entries[s].key, j)].value # Empty
  BY Zenon DEF OnProbePath
<1>2. ASSUME NEW j \in 0 .. i - 1
      PROVE  entries'[probe(entries[s].key, j)].value # Empty
  <2>1. j \in Slots
    BY SizeAssumption, SMT DEF Slots
  <2>2. QED
    BY <1>1, <2>1, ProbeInSlots, Zenon
<1>3. QED
  BY <1>1, <1>2, Zenon DEF OnProbePath

(* Where insert puts its entry.                                            *)
LEMMA InsertSlot ==
  ASSUME TypeOK, NEW key \in Keys, FreeProbes(key) # {}
  PROVE  LET i == First(FreeProbes(key))
             p == probe(key, i)
         IN  /\ i \in Slots /\ p \in Slots
             /\ entries[p].value \in {Empty, Tombstone}
             /\ \A j \in 0 .. i - 1 :
                  entries[probe(key, j)].value \notin {Empty, Tombstone}
<1> DEFINE Free == FreeProbes(key)
           i == First(Free)
<1>1. Free \in SUBSET Slots /\ Free \in SUBSET Nat
  BY SlotsFinite DEF FreeProbes
<1>2. i \in Free /\ \A j \in Free : i <= j
  BY <1>1, FirstIsLeast, Zenon
<1>3. i \in Slots /\ i \in Nat /\ probe(key, i) \in Slots
  BY <1>1, <1>2, ProbeInSlots, Zenon
<1>4. entries[probe(key, i)].value \in {Empty, Tombstone}
  BY <1>2, Zenon DEF FreeProbes
<1>5. ASSUME NEW j \in 0 .. i - 1
      PROVE  entries[probe(key, j)].value \notin {Empty, Tombstone}
  <2> HIDE DEF i, Free
  <2>1. j \in Slots /\ ~(i <= j)
    BY <1>3, SizeAssumption, SMT DEF Slots
  <2>2. j \notin Free
    BY <1>2, <2>1, Zenon
  <2>3. QED
    BY <2>1, <2>2, Zenon DEF Free, FreeProbes
<1>6. QED
  BY <1>3, <1>4, <1>5, Zenon

LEMMA InsertKeepsInv ==
  ASSUME Inv, NEW key \in Keys, NEW value \in Values, Insert(key, value)
  PROVE  Inv'
<1> DEFINE i == First(FreeProbes(key))
           p == probe(key, i)
           e == [key |-> key, value |-> value]
<1>0. TypeOK /\ ProbePathsIntact /\ KeysUnique /\ SizeCountsLive
  BY Zenon DEF Inv
<1>1. /\ i \in Slots /\ p \in Slots
      /\ entries[p].value \in {Empty, Tombstone}
      /\ \A j \in 0 .. i - 1 :
           entries[probe(key, j)].value \notin {Empty, Tombstone}
  BY <1>0, InsertSlot, Zenon DEF Insert
<1>2. /\ entries' = [entries EXCEPT ![p] = e]
      /\ size' = size + 1 /\ size < Capacity
      /\ ret' = ret /\ aborted' = aborted
      /\ \A s \in Slots : ~Holds(s, key)
  BY Zenon DEF Insert, MayInsert
<1>3. entries \in [Slots -> Entry] /\ e \in Entry
  <2>1. key \in 0 .. WordSize - 1
    BY KeyAssumption, Zenon
  <2>2. QED
    BY <1>0, <2>1, SMT DEF TypeOK, Entry
<1>e. e.key = key /\ e.value = value
  BY SMT
<1> HIDE DEF i, p, e
<1>4. /\ entries'[p].key = key /\ entries'[p].value = value
      /\ \A s \in Slots \ {p} : entries'[s] = entries[s]
  BY <1>1, <1>2, <1>3, <1>e, Zenon
<1>5. \A s \in Slots : entries[s].value # Empty => entries'[s].value # Empty
  BY <1>4, ValueAssumption, Zenon
<1>6. TypeOK'
  <2>1. entries' \in [Slots -> Entry]
    BY <1>2, <1>3, Zenon
  <2>2. size' \in 0 .. Capacity
    BY <1>0, <1>2, SizeAssumption, SMT DEF TypeOK
  <2>3. QED
    BY <1>0, <1>2, <2>1, <2>2, Zenon DEF TypeOK
<1>7. ProbePathsIntact'
  <2> SUFFICES ASSUME NEW s \in Slots, IsLive(s)'
               PROVE  entries'[s].key \in Keys /\ OnProbePath(s)'
    BY Zenon DEF ProbePathsIntact
  <2>1. CASE s = p
    <3>1. entries'[s].key = key
      BY <1>4, <2>1, Zenon
    <3>2. ASSUME NEW j \in 0 .. i - 1
          PROVE  entries'[probe(key, j)].value # Empty
      <4>1. j \in Slots
        BY <1>1, SizeAssumption, SMT DEF Slots
      <4>2. QED
        BY <1>1, <1>5, <4>1, ProbeInSlots, Zenon
    <3>3. QED
      BY <1>1, <2>1, <3>1, <3>2, Zenon DEF OnProbePath, p
  <2>2. CASE s # p
    <3>1. entries'[s] = entries[s] /\ IsLive(s)
      BY <1>4, <2>2, Zenon DEF IsLive
    <3>2. entries[s].key \in Keys /\ OnProbePath(s)
      BY <1>0, <3>1, Zenon DEF ProbePathsIntact
    <3>3. QED
      BY <1>0, <1>5, <3>1, <3>2, PathsSurvive, Zenon
  <2>3. QED
    BY <2>1, <2>2, Zenon
<1>8. KeysUnique'
  <2>1. \A s \in Slots \ {p} : IsLive(s)' => IsLive(s) /\ entries'[s].key # key
    BY <1>2, <1>4, Zenon DEF IsLive, Holds
  <2>2. QED
    BY <1>0, <1>4, <2>1, Zenon DEF KeysUnique
<1>9. SizeCountsLive'
  <2>1. p \notin LiveSlots
    BY <1>1, ValueAssumption, Zenon DEF LiveSlots, IsLive
  <2>2. LiveSlots' = LiveSlots \cup {p}
    BY <1>1, <1>4, Zenon DEF LiveSlots, IsLive
  <2>3. Cardinality(LiveSlots \cup {p}) = Cardinality(LiveSlots) + 1
    <3>1. LiveSlots \in SUBSET Slots
      BY Zenon DEF LiveSlots
    <3>2. QED
      BY <2>1, <3>1, SlotSetFinite, FS_AddElement, Zenon
  <2>4. QED
    BY <1>0, <1>2, <2>2, <2>3, Zenon DEF SizeCountsLive
<1>10. QED
  BY <1>6, <1>7, <1>8, <1>9, Zenon DEF Inv

LEMMA RemoveKeepsInv ==
  ASSUME Inv, NEW key \in Keys, RemoveHit(key)
  PROVE  Inv'
<1> DEFINE t == lookup(key)
<1>0. TypeOK /\ ProbePathsIntact /\ KeysUnique /\ SizeCountsLive
  BY Zenon DEF Inv
<1>1. t \in Slots /\ Holds(t, key)
  BY <1>0, LookupCorrect, Zenon DEF RemoveHit
<1>2. /\ entries' = [entries EXCEPT ![t].value = Tombstone]
      /\ ret' = entries[t].value
      /\ size' = size - 1
      /\ aborted' = aborted
  BY Zenon DEF RemoveHit
<1> HIDE DEF t
<1>3. /\ entries'[t].key = entries[t].key
      /\ entries'[t].value = Tombstone
      /\ entries' \in [Slots -> Entry]
      /\ \A s \in Slots \ {t} : entries'[s] = entries[s]
  BY <1>0, <1>1, <1>2, SMT DEF TypeOK, Entry
<1>4. \A s \in Slots : entries[s].value # Empty => entries'[s].value # Empty
  BY <1>3, ValueAssumption, Zenon
<1>5. \A s \in Slots : IsLive(s)' => s # t /\ entries'[s] = entries[s] /\ IsLive(s)
  BY <1>3, ValueAssumption, Zenon DEF IsLive
<1>6. SizeCountsLive'
  <2>1. t \in LiveSlots
    BY <1>1, Zenon DEF LiveSlots, Holds
  <2>2. LiveSlots' = LiveSlots \ {t}
    <3>1. \A s \in Slots : IsLive(s)' <=> IsLive(s) /\ s # t
      BY <1>3, <1>5, Zenon DEF IsLive
    <3>2. QED
      BY <3>1, Zenon DEF LiveSlots
  <2>3. Cardinality(LiveSlots \ {t}) = Cardinality(LiveSlots) - 1
    <3>1. LiveSlots \in SUBSET Slots
      BY Zenon DEF LiveSlots
    <3>2. QED
      BY <2>1, <3>1, SlotSetFinite, FS_RemoveElement, Zenon
  <2>4. QED
    BY <1>0, <1>2, <2>2, <2>3, Zenon DEF SizeCountsLive
<1>7. TypeOK'
  <2>1. Cardinality(LiveSlots') \in 0 .. Capacity
    <3>1. LiveSlots' \in SUBSET Slots
      BY Zenon DEF LiveSlots
    <3>2. QED
      BY <3>1, SlotSetFinite, Zenon
  <2>2. ret' \in Values
    BY <1>1, <1>2, Zenon DEF Holds, IsLive
  <2>3. QED
    BY <1>0, <1>2, <1>3, <1>6, <2>1, <2>2, Zenon DEF TypeOK, SizeCountsLive
<1>8. ProbePathsIntact'
  <2> SUFFICES ASSUME NEW s \in Slots, IsLive(s)'
               PROVE  entries'[s].key \in Keys /\ OnProbePath(s)'
    BY Zenon DEF ProbePathsIntact
  <2>1. entries'[s] = entries[s] /\ IsLive(s)
    BY <1>5, Zenon
  <2>2. entries[s].key \in Keys /\ OnProbePath(s)
    BY <1>0, <2>1, Zenon DEF ProbePathsIntact
  <2>3. QED
    BY <1>0, <1>4, <2>1, <2>2, PathsSurvive, Zenon
<1>9. KeysUnique'
  BY <1>0, <1>5, Zenon DEF KeysUnique
<1>10. QED
  BY <1>6, <1>7, <1>8, <1>9, Zenon DEF Inv

LEMMA InitEstablishesInv ==
  ASSUME Init
  PROVE  Inv
<1>1. TypeOK
  <2>1. WordSize - 1 \in 0 .. WordSize - 1
    BY KeyAssumption, SMT
  <2>2. 0 \in 0 .. Capacity
    BY SizeAssumption, SMT
  <2>3. [key |-> WordSize - 1, value |-> Empty] \in Entry
    BY <2>1, SMT DEF Entry
  <2>4. QED
    BY <2>2, <2>3, Zenon DEF Init, TypeOK
<1>2. \A s \in Slots : ~IsLive(s)
  BY ValueAssumption, SMT DEF Init, IsLive
<1>3. LiveSlots = {}
  BY <1>2, Zenon DEF LiveSlots
<1>4. SizeCountsLive
  BY <1>3, FS_EmptySet, Zenon DEF SizeCountsLive, Init
<1>5. QED
  BY <1>1, <1>2, <1>4, Zenon DEF Inv, ProbePathsIntact, KeysUnique

(* Steps that leave the entries and size_ alone.                           *)
LEMMA UnchangedKeepsInv ==
  ASSUME Inv, UNCHANGED <<entries, size>>,
         ret' \in Values \cup {Empty}, aborted' \in BOOLEAN
  PROVE  Inv'
BY Zenon DEF Inv, TypeOK, ProbePathsIntact, OnProbePath, KeysUnique, IsLive,
             SizeCountsLive, LiveSlots

LEMMA NextKeepsInv ==
  ASSUME Inv, [Next]_vars
  PROVE  Inv'
<1>0. TypeOK /\ ProbePathsIntact
  BY Zenon DEF Inv
<1>1. ASSUME NEW key \in Keys, NEW value \in Values, Insert(key, value)
      PROVE  Inv'
  BY <1>1, InsertKeepsInv, Zenon
<1>2. ASSUME NEW key \in Keys, InsertAborts(key)
      PROVE  Inv'
  BY <1>0, <1>2, UnchangedKeepsInv, Zenon DEF InsertAborts, TypeOK
<1>3. ASSUME NEW key \in Keys, Get(key)
      PROVE  Inv'
  <2>1. ret' \in Values \cup {Empty}
    BY <1>0, <1>3, LookupCorrect, Zenon DEF Get, Holds, IsLive
  <2>2. QED
    BY <1>0, <1>3, <2>1, UnchangedKeepsInv, Zenon DEF Get, TypeOK
<1>4. ASSUME NEW key \in Keys, RemoveHit(key)
      PROVE  Inv'
  BY <1>4, RemoveKeepsInv, Zenon
<1>5. ASSUME NEW key \in Keys, RemoveMiss(key)
      PROVE  Inv'
  BY <1>0, <1>5, UnchangedKeepsInv, Zenon DEF RemoveMiss, TypeOK
<1>6. CASE UNCHANGED vars
  BY <1>0, <1>6, UnchangedKeepsInv, Zenon DEF vars, TypeOK
<1>7. QED
  BY <1>1, <1>2, <1>3, <1>4, <1>5, <1>6, Zenon DEF Next

(* Inv holds in every reachable state: entries, size_, the returned        *)
(* pointer keep their types, the probe paths of the live entries stay      *)
(* unbroken, keys are unique and size_ counts the live entries.            *)
THEOREM InvHolds == Spec => []Inv
<1>1. Init => Inv
  BY InitEstablishesInv
<1>2. Inv /\ [Next]_vars => Inv'
  BY NextKeepsInv
<1>3. QED
  BY <1>1, <1>2, PTL DEF Spec

(* Type correctness, with size_ never above the capacity and never below   *)
(* zero (the size_-- of remove does not underflow).                        *)
THEOREM TypeCorrect == Spec => []TypeOK
<1>1. Inv => TypeOK
  BY Zenon DEF Inv
<1>2. QED
  BY <1>1, InvHolds, PTL

(* IoQueueImpl::run stops exactly when no completer is stored, because     *)
(* size() counts the stored completers.                                    *)
THEOREM SizeIsExact == Spec => []SizeCountsLive
<1>1. Inv => SizeCountsLive
  BY Zenon DEF Inv
<1>2. QED
  BY <1>1, InvHolds, PTL

(* Every stored completer is found by lookup, at the entry that holds it,  *)
(* whatever the hash function and wherever 64-bit probes wrap around.      *)
THEOREM LiveKeysAreFound == Spec => []LiveKeysFindable
<1>1. ASSUME Inv PROVE LiveKeysFindable
  <2> SUFFICES ASSUME NEW s \in Slots, IsLive(s)
               PROVE  lookup(entries[s].key) = s
    BY Zenon DEF LiveKeysFindable
  <2> DEFINE key == entries[s].key
  <2>1. key \in Keys /\ Holds(s, key)
    BY <1>1, Zenon DEF Inv, ProbePathsIntact, Holds
  <2>2. lookup(key) \in Slots /\ Holds(lookup(key), key)
    BY <1>1, <2>1, LookupCorrect, Zenon DEF Inv
  <2>3. QED
    BY <1>1, <2>1, <2>2, Zenon DEF Inv, KeysUnique, Holds
<1>2. Inv => LiveKeysFindable
  BY <1>1
<1>3. QED
  BY <1>2, InvHolds, PTL
-----------------------------------------------------------------------------
(* The refinement.  Under Inv the abstract value of a key is the value of  *)
(* the one entry that holds it.                                            *)
MapBarCorrect ==
  \A key \in Keys :
    /\ \A s \in Slots : Holds(s, key) => mapBar[key] = entries[s].value
    /\ (\A s \in Slots : ~Holds(s, key)) => mapBar[key] = Empty
    /\ mapBar[key] # Empty <=> \E s \in Slots : Holds(s, key)

LEMMA MapBarValue == Inv => MapBarCorrect
<1> SUFFICES ASSUME Inv, NEW key \in Keys
             PROVE  /\ \A s \in Slots : Holds(s, key) => mapBar[key] = entries[s].value
                    /\ (\A s \in Slots : ~Holds(s, key)) => mapBar[key] = Empty
                    /\ mapBar[key] # Empty <=> \E s \in Slots : Holds(s, key)
  BY Zenon DEF MapBarCorrect
<1>1. ASSUME NEW s \in Slots, Holds(s, key)
      PROVE  mapBar[key] = entries[s].value
  <2>1. \A t \in Slots : Holds(t, key) => t = s
    BY <1>1, Zenon DEF Inv, KeysUnique, Holds
  <2>2. (CHOOSE t \in Slots : Holds(t, key)) = s
    BY <1>1, <2>1, Zenon
  <2>3. QED
    BY <1>1, <2>2, Zenon DEF mapBar
<1>2. ASSUME \A s \in Slots : ~Holds(s, key)
      PROVE  mapBar[key] = Empty
  BY <1>2, Zenon DEF mapBar
<1>3. QED
  BY <1>1, <1>2, ValueAssumption, Zenon DEF Holds, IsLive

(* A key keeps its abstract value when the entry that holds it stays.      *)
LEMMA MapBarKept ==
  ASSUME MapBarCorrect, MapBarCorrect', NEW k \in Keys,
         \A s \in Slots : Holds(s, k)' <=> Holds(s, k),
         \A s \in Slots : Holds(s, k) => entries'[s] = entries[s]
  PROVE  mapBar'[k] = mapBar[k]
<1>1. CASE \E s \in Slots : Holds(s, k)
  <2>1. PICK s \in Slots : Holds(s, k)
    BY <1>1, Zenon
  <2>2. mapBar[k] = entries[s].value
    BY <2>1, Zenon DEF MapBarCorrect
  <2>3. mapBar'[k] = entries'[s].value
    BY <2>1, Zenon DEF MapBarCorrect
  <2>4. QED
    BY <2>1, <2>2, <2>3, Zenon
<1>2. CASE \A s \in Slots : ~Holds(s, k)
  <2>1. mapBar[k] = Empty
    BY <1>2, Zenon DEF MapBarCorrect
  <2>2. mapBar'[k] = Empty
    BY <1>2, Zenon DEF MapBarCorrect
  <2>3. QED
    BY <2>1, <2>2, Zenon
<1>3. QED
  BY <1>1, <1>2, Zenon

(* insert aborts only when every entry is live: size_ has reached the      *)
(* capacity, or the probes, which visit every entry, found no free one.    *)
LEMMA AbortsOnlyWhenFull ==
  ASSUME ProbesCover, Inv, NEW key \in Keys, InsertAborts(key)
  PROVE  size >= Capacity
<1>1. CASE size >= Capacity
  BY <1>1, Zenon
<1>2. CASE FreeProbes(key) = {}
  <2>1. ASSUME NEW s \in Slots PROVE s \in LiveSlots
    <3>1. PICK i \in Slots : probe(key, i) = s
      BY Zenon DEF ProbesCover
    <3>2. entries[s].value \notin {Empty, Tombstone}
      BY <1>2, <3>1, Zenon DEF FreeProbes
    <3>3. entries[s].value \in Values \cup {Empty, Tombstone}
      BY SMT DEF Inv, TypeOK, Entry
    <3>4. QED
      BY <3>2, <3>3, Zenon DEF LiveSlots, IsLive
  <2>2. LiveSlots = Slots
    BY <2>1, Zenon DEF LiveSlots
  <2>3. size = Capacity
    BY <2>2, SlotsFinite, Zenon DEF Inv, SizeCountsLive
  <2>4. QED
    BY <2>3, SizeAssumption, SMT
<1>3. QED
  BY <1>1, <1>2, Zenon DEF InsertAborts

(* With probe sequences that visit the whole table (a prime capacity and   *)
(* no wrap around the word size), CompleterMap implements AbstractMap:     *)
(* get and remove return exactly what was inserted, and insert aborts only *)
(* when Capacity completers are stored.                                    *)
THEOREM RefinesAbstractMap ==
  ASSUME ProbesCover
  PROVE  Spec => ImplementsMap
<1>1. Init => Map!Init
  <2>1. ASSUME Init PROVE Map!Init
    <3>1. \A s \in Slots : ~IsLive(s)
      BY <2>1, ValueAssumption, SMT DEF Init, IsLive
    <3>2. mapBar = [k \in Keys |-> Empty]
      BY <3>1, Zenon DEF mapBar, Holds
    <3>3. QED
      BY <2>1, <3>2, Zenon DEF Map!Init, Init
  <2>2. QED
    BY <2>1
<1>2. ASSUME Inv, Inv', [Next]_vars
      PROVE  [Map!Next]_(Map!vars)
  <2>a. TypeOK /\ ProbePathsIntact /\ MapBarCorrect
    BY <1>2, MapBarValue, Zenon DEF Inv
  <2>b. MapBarCorrect'
    BY <1>2, MapBarValue, PTL
  <2>1. ASSUME NEW key \in Keys, NEW value \in Values, Insert(key, value)
        PROVE  Map!Next
    <3> DEFINE p == probe(key, First(FreeProbes(key)))
               e == [key |-> key, value |-> value]
    <3>1. p \in Slots /\ entries[p].value \in {Empty, Tombstone}
      BY <2>a, <2>1, InsertSlot, Zenon DEF Insert
    <3>2. /\ ~aborted /\ \A s \in Slots : ~Holds(s, key)
          /\ size < Capacity
          /\ entries' = [entries EXCEPT ![p] = e]
          /\ size' = size + 1 /\ ret' = ret /\ aborted' = aborted
      BY <2>1, Zenon DEF Insert, MayInsert
    <3>e. e.key = key /\ e.value = value
      BY SMT
    <3> HIDE DEF p, e
    <3>3. /\ entries'[p].key = key /\ entries'[p].value = value
          /\ \A s \in Slots \ {p} : entries'[s] = entries[s]
      BY <2>a, <3>1, <3>2, <3>e, Zenon DEF TypeOK
    <3>4. mapBar[key] = Empty
      BY <2>a, <3>2, Zenon DEF MapBarCorrect
    <3>6. mapBar'[key] = value
      BY <2>b, <3>1, <3>3, Zenon DEF MapBarCorrect, Holds, IsLive
    <3>7. ASSUME NEW k \in Keys, k # key
          PROVE  mapBar'[k] = mapBar[k]
      <4>1. \A s \in Slots : Holds(s, k)' <=> Holds(s, k)
        BY <3>1, <3>3, <3>7, ValueAssumption, Zenon DEF Holds, IsLive
      <4>2. \A s \in Slots : Holds(s, k) => entries'[s] = entries[s]
        BY <3>1, <3>3, ValueAssumption, Zenon DEF Holds, IsLive
      <4>3. QED
        BY <2>a, <2>b, <4>1, <4>2, MapBarKept, Zenon
    <3>8. mapBar' = [mapBar EXCEPT ![key] = value]
      BY <3>6, <3>7, Zenon DEF mapBar
    <3>9. QED
      BY <3>2, <3>4, <3>8, Zenon DEF Map!Next, Map!Insert
  <2>2. ASSUME NEW key \in Keys, InsertAborts(key)
        PROVE  Map!Next
    <3>1. size >= Capacity
      BY <1>2, <2>2, AbortsOnlyWhenFull, Zenon
    <3>2. mapBar[key] = Empty
      BY <2>a, <2>2, Zenon DEF MapBarCorrect, InsertAborts, MayInsert
    <3>3. mapBar' = mapBar
      BY <2>2, Zenon DEF InsertAborts, mapBar, Holds, IsLive
    <3>4. QED
      BY <2>2, <3>1, <3>2, <3>3, Zenon DEF InsertAborts, MayInsert, Map!Next, Map!InsertAborts
  <2>3. ASSUME NEW key \in Keys, Get(key)
        PROVE  Map!Next
    <3>1. ret' = mapBar[key]
      BY <2>a, <2>3, LookupCorrect, SlotsFinite, Zenon DEF Get, MapBarCorrect
    <3>2. mapBar' = mapBar
      BY <2>3, Zenon DEF Get, mapBar, Holds, IsLive
    <3>3. QED
      BY <2>3, <3>1, <3>2, Zenon DEF Get, Map!Next, Map!Get
  <2>4. ASSUME NEW key \in Keys, RemoveHit(key)
        PROVE  Map!Next
    <3> DEFINE t == lookup(key)
    <3>1. t \in Slots /\ Holds(t, key)
      BY <2>a, <2>4, LookupCorrect, Zenon DEF RemoveHit
    <3>2. /\ ~aborted /\ aborted' = aborted /\ size' = size - 1
          /\ ret' = entries[t].value
          /\ entries' = [entries EXCEPT ![t].value = Tombstone]
      BY <2>4, Zenon DEF RemoveHit
    <3> HIDE DEF t
    <3>3. /\ entries'[t].value = Tombstone
          /\ \A s \in Slots \ {t} : entries'[s] = entries[s]
      BY <2>a, <3>1, <3>2, SMT DEF TypeOK, Entry
    <3>4. \A s \in Slots : Holds(s, key) => s = t
      BY <1>2, <3>1, Zenon DEF Inv, KeysUnique, Holds
    <3>5. mapBar'[key] = Empty
      <4>1. \A s \in Slots : ~Holds(s, key)'
        BY <3>3, <3>4, ValueAssumption, Zenon DEF Holds, IsLive
      <4>2. QED
        BY <2>b, <4>1, Zenon DEF MapBarCorrect
    <3>6. ASSUME NEW k \in Keys, k # key
          PROVE  mapBar'[k] = mapBar[k]
      <4>1. \A s \in Slots : Holds(s, k)' <=> Holds(s, k)
        BY <3>1, <3>3, <3>6, ValueAssumption, Zenon DEF Holds, IsLive
      <4>2. \A s \in Slots : Holds(s, k) => entries'[s] = entries[s]
        BY <3>1, <3>3, <3>6, Zenon DEF Holds, IsLive
      <4>3. QED
        BY <2>a, <2>b, <4>1, <4>2, MapBarKept, Zenon
    <3>7. mapBar' = [mapBar EXCEPT ![key] = Empty]
      BY <3>5, <3>6, Zenon DEF mapBar
    <3>8. ret' = mapBar[key] /\ mapBar[key] # Empty
      BY <2>a, <3>1, <3>2, Zenon DEF MapBarCorrect
    <3>9. QED
      BY <3>2, <3>7, <3>8, Zenon DEF Map!Next, Map!Remove
  <2>5. ASSUME NEW key \in Keys, RemoveMiss(key)
        PROVE  Map!Next
    <3>1. mapBar[key] = Empty
      BY <2>a, <2>5, LookupCorrect, SlotsFinite, Zenon DEF RemoveMiss, MapBarCorrect
    <3>2. mapBar' = mapBar
      BY <2>5, Zenon DEF RemoveMiss, mapBar, Holds, IsLive
    <3>3. QED
      BY <2>5, <3>1, <3>2, Zenon DEF RemoveMiss, Map!Next, Map!RemoveMiss
  <2>6. CASE UNCHANGED vars
    BY <2>6, Zenon DEF vars, Map!vars, mapBar, Holds, IsLive
  <2>7. QED
    BY <1>2, <2>1, <2>2, <2>3, <2>4, <2>5, <2>6, Zenon DEF Next
<1>3. QED
  BY <1>1, <1>2, InvHolds, PTL DEF Spec, ImplementsMap, Map!Spec
=============================================================================
