--------------------------- MODULE SlotMapProofs ----------------------------
(***************************************************************************)
(* Proofs about SlotMap for any set of values and any size: an index that  *)
(* is handed out is not in use, growth moves no raw slot, and SlotMap      *)
(* implements the abstract store.                                          *)
(***************************************************************************)
EXTENDS SlotMap, TLAPS, FiniteSetTheorems, SequenceTheorems

InUse == {i \in 0 .. size - 1 : contains(i)}
IsFree(i) == \E k \in 1 .. Len(freeList) : freeList[k] = i

(* Indices in use were handed out, and numOccupied_ counts them.           *)
UsedWereHandedOut == \A i \in DOMAIN occupied : occupied[i] => i < nextIndex

CountIsExact == numOccupied = Cardinality(InUse)

(* A slot has a value if and only if it is marked as occupied.             *)
MarksAreTrue == \A i \in 0 .. size - 1 : data[i] # Raw <=> contains(i)

FreeListIsFree ==
  \A k \in 1 .. Len(freeList) :
    /\ freeList[k] \in Nat /\ freeList[k] < nextIndex /\ ~contains(freeList[k])
    /\ \A m \in 1 .. Len(freeList) : freeList[m] = freeList[k] => m = k

(* Unless resize() was called, an index that was handed out is in use or   *)
(* will be handed out again.                                               *)
NothingIsSkipped ==
  ~resized => \A i \in 0 .. nextIndex - 1 : contains(i) \/ IsFree(i)

IInv ==
  /\ TypeOK
  /\ UsedWereHandedOut /\ CountIsExact /\ MarksAreTrue
  /\ FreeListIsFree /\ NothingIsSkipped /\ GrowthMovesNoRaw
-----------------------------------------------------------------------------
LEMMA SlotFacts ==
  ASSUME TypeOK
  PROVE  /\ size \in Nat /\ size <= MaxSize /\ MaxSize \in Nat
         /\ data \in [0 .. size - 1 -> Values \cup {Raw}]
         /\ \E n \in Nat : size <= n /\ n <= MaxSize
                           /\ occupied \in [0 .. n - 1 -> BOOLEAN]
         /\ nextIndex \in Nat /\ nextIndex <= size
         /\ numOccupied \in Nat /\ numOccupied <= size
         /\ freeList \in Seq(0 .. MaxSize - 1) /\ Len(freeList) \in Nat
<1>1. MaxSize \in Nat
  BY SlotAssumption
<1>2. freeList \in Seq(0 .. MaxSize - 1)
  BY DEF TypeOK
<1>3. Len(freeList) \in Nat
  BY <1>2, LenProperties
<1>4. PICK n \in size .. MaxSize : occupied \in [0 .. n - 1 -> BOOLEAN]
  BY Zenon DEF TypeOK
<1>5. size \in 0 .. MaxSize /\ nextIndex \in 0 .. size /\ numOccupied \in 0 .. size
  BY Zenon DEF TypeOK
<1>6. n \in Nat /\ size <= n /\ n <= MaxSize
  BY <1>1, <1>5, SMT
<1>7. /\ size \in Nat /\ size <= MaxSize /\ nextIndex \in Nat /\ nextIndex <= size
      /\ numOccupied \in Nat /\ numOccupied <= size
  BY <1>1, <1>5, SMT
<1>8. data \in [0 .. size - 1 -> Values \cup {Raw}]
  BY Zenon DEF TypeOK
<1>9. QED
  BY <1>1, <1>2, <1>3, <1>4, <1>6, <1>7, <1>8, Zenon

LEMMA SlotCount ==
  ASSUME NEW n \in Nat
  PROVE  IsFiniteSet(0 .. n - 1) /\ Cardinality(0 .. n - 1) = n
<1>1. 0 \in Int /\ n - 1 \in Int
  BY SMT
<1>2. /\ IsFiniteSet(0 .. n - 1)
      /\ Cardinality(0 .. n - 1) = IF 0 > n - 1 THEN 0 ELSE (n - 1) - 0 + 1
  BY <1>1, FS_Interval, Zenon
<1>3. (IF 0 > n - 1 THEN 0 ELSE (n - 1) - 0 + 1) = n
  BY SMT
<1>4. QED
  BY <1>2, <1>3, SMT

LEMMA UsedFacts ==
  ASSUME IInv, NEW i, contains(i)
  PROVE  i \in Nat /\ i < nextIndex /\ i < size
<1>1. TypeOK /\ UsedWereHandedOut
  BY DEF IInv
<1>2. /\ nextIndex \in Nat /\ nextIndex <= size /\ size \in Nat
      /\ \E n \in Nat : occupied \in [0 .. n - 1 -> BOOLEAN]
  BY <1>1, SlotFacts, Zenon
<1>3. i \in DOMAIN occupied /\ i < nextIndex
  BY <1>1, Zenon DEF contains, UsedWereHandedOut
<1>4. i \in Nat
  BY <1>2, <1>3, SMT
<1>5. QED
  BY <1>2, <1>3, <1>4, SMT

(* A block of n slots has the values of the old one.                       *)
LEMMA GrownFacts ==
  ASSUME IInv, NEW n \in Nat, size <= n
  PROVE  /\ newData(n) \in [0 .. n - 1 -> Values \cup {Raw}]
         /\ \A i \in 0 .. size - 1 : newData(n)[i] = data[i]
         /\ \A i \in size .. n - 1 : newData(n)[i] = Raw
         /\ newOccupied(n) \in [0 .. n - 1 -> BOOLEAN]
         /\ \A i \in 0 .. n - 1 : newOccupied(n)[i] = contains(i)
<1>1. size \in Nat /\ data \in [0 .. size - 1 -> Values \cup {Raw}]
  BY SlotFacts, Zenon DEF IInv
<1>2. \A i \in 0 .. n - 1 : contains(i) \in BOOLEAN
  <2>1. \E m \in Nat : occupied \in [0 .. m - 1 -> BOOLEAN]
    BY SlotFacts, Zenon DEF IInv
  <2>2. QED
    BY <2>1, Zenon DEF contains
<1>3. newOccupied(n) \in [0 .. n - 1 -> BOOLEAN]
  BY <1>2, Zenon DEF newOccupied
<1>4. \A i \in 0 .. n - 1 : newOccupied(n)[i] = contains(i)
  BY Zenon DEF newOccupied
<1>5. newData(n) \in [0 .. n - 1 -> Values \cup {Raw}]
  BY <1>1, SMT DEF newData, moved
<1>6. \A i \in 0 .. size - 1 : newData(n)[i] = data[i]
  BY <1>1, SMT DEF newData, moved
<1>7. \A i \in size .. n - 1 : newData(n)[i] = Raw
  BY <1>1, SMT DEF newData, moved
<1>8. QED
  BY <1>3, <1>4, <1>5, <1>6, <1>7, Zenon

(* The index that insert() takes is not in use; if the storage has to grow *)
(* for it, then it is the first one behind the storage.                    *)
LEMMA NewIndexFacts ==
  ASSUME IInv
  PROVE  /\ getNewIndex \in Nat /\ getNewIndex <= nextIndex
         /\ ~contains(getNewIndex)
         /\ freeList # <<>> => getNewIndex = freeList[1] /\ getNewIndex < nextIndex
         /\ freeList = <<>> => getNewIndex = nextIndex
         /\ grows(getNewIndex) => freeList = <<>> /\ nextIndex = size
<1>1. /\ TypeOK /\ FreeListIsFree
  BY DEF IInv
<1>2. /\ nextIndex \in Nat /\ nextIndex <= size /\ size \in Nat
      /\ freeList \in Seq(0 .. MaxSize - 1) /\ Len(freeList) \in Nat
  BY <1>1, SlotFacts, Zenon
<1>3. CASE freeList = <<>>
  <2>1. getNewIndex = nextIndex
    BY <1>3, Zenon DEF getNewIndex
  <2>2. ~contains(nextIndex)
    <3>1. SUFFICES ASSUME contains(nextIndex) PROVE FALSE
      OBVIOUS
    <3>2. nextIndex < nextIndex
      BY <3>1, UsedFacts, Zenon
    <3>3. QED
      BY <3>2, <1>2, SMT
  <2>3. nextIndex >= size => nextIndex = size
    BY <1>2, SMT
  <2>4. nextIndex <= nextIndex
    BY <1>2, SMT
  <2>5. QED
    BY <2>1, <2>2, <2>3, <2>4, <1>2, <1>3, Zenon DEF grows
<1>4. CASE freeList # <<>>
  <2>1. 1 \in 1 .. Len(freeList)
    BY <1>2, <1>4, SMT
  <2>2. getNewIndex = freeList[1]
    BY <1>2, <1>4, SMT DEF getNewIndex
  <2>3. freeList[1] \in Nat /\ freeList[1] < nextIndex /\ ~contains(freeList[1])
    BY <2>1, <1>1, Zenon DEF FreeListIsFree
  <2>4. freeList[1] <= nextIndex /\ ~(freeList[1] >= size)
    BY <2>3, <1>2, SMT
  <2>5. QED
    BY <2>2, <2>3, <2>4, <1>4, Zenon DEF grows
<1>5. QED
  BY <1>3, <1>4

(* What insert() does to the slots, whether the storage grows or not.      *)
LEMMA InsertFacts ==
  ASSUME IInv, NEW v \in Values, Insert(v), NEW x, x = getNewIndex
  PROVE  /\ size' \in Nat /\ size <= size' /\ size' <= MaxSize /\ x < size'
         /\ data' \in [0 .. size' - 1 -> Values \cup {Raw}]
         /\ data'[x] = v
         /\ \A i \in 0 .. size - 1 : i # x => data'[i] = data[i]
         /\ \A i \in size .. size' - 1 : i # x => data'[i] = Raw
         /\ \E n \in size' .. MaxSize : occupied' \in [0 .. n - 1 -> BOOLEAN]
         /\ \A i : contains(i)' <=> contains(i) \/ i = x
         /\ freeList = <<>> => size' > nextIndex
<1>1. /\ size \in Nat /\ size <= MaxSize /\ MaxSize \in Nat
      /\ data \in [0 .. size - 1 -> Values \cup {Raw}]
      /\ nextIndex \in Nat /\ nextIndex <= size
  BY SlotFacts, Zenon DEF IInv
<1>2. /\ x \in Nat /\ x <= nextIndex
      /\ freeList = <<>> => x = nextIndex
      /\ grows(x) => x = size
  BY NewIndexFacts, Zenon
<1>3. /\ grows(x) => grown(x) <= MaxSize
      /\ emplace(x, v)
  BY Zenon DEF Insert
<1>4. CASE grows(x)
  <2>1. PICK n : n = grown(x)
    OBVIOUS
  <2>2. n \in Nat /\ size < n /\ n <= MaxSize /\ x < n
    BY <1>1, <1>2, <1>3, <1>4, <2>1, SMT DEF grown
  <2>3. size' = n /\ data' = [newData(n) EXCEPT ![x] = v]
    BY <1>3, <1>4, <2>1, Zenon DEF emplace
  <2>4. occupied' = [newOccupied(n) EXCEPT ![x] = TRUE]
    BY <1>3, <1>4, <2>1, Zenon DEF emplace
  <2>5. size <= n
    BY <2>2, <1>1, SMT
  <2>6. /\ newData(n) \in [0 .. n - 1 -> Values \cup {Raw}]
        /\ \A i \in 0 .. size - 1 : newData(n)[i] = data[i]
        /\ \A i \in size .. n - 1 : newData(n)[i] = Raw
        /\ newOccupied(n) \in [0 .. n - 1 -> BOOLEAN]
        /\ \A i \in 0 .. n - 1 : newOccupied(n)[i] = contains(i)
    BY <2>2, <2>5, GrownFacts, Zenon
  <2>7. /\ x \in 0 .. n - 1 /\ n \in n .. MaxSize /\ n > nextIndex
        /\ \A i \in 0 .. size - 1 : i \in 0 .. n - 1
        /\ \A i \in size .. n - 1 : i \in 0 .. n - 1
    BY <1>1, <1>2, <2>2, SMT
  <2>8. /\ data' \in [0 .. n - 1 -> Values \cup {Raw}] /\ data'[x] = v
        /\ \A i \in 0 .. size - 1 : i # x => data'[i] = data[i]
        /\ \A i \in size .. n - 1 : i # x => data'[i] = Raw
    BY <2>3, <2>6, <2>7, SMT
  <2>9. occupied' \in [0 .. n - 1 -> BOOLEAN]
    BY <2>4, <2>6, <2>7, Zenon
  <2>10. /\ occupied'[x] = TRUE
         /\ \A i \in 0 .. n - 1 : i # x => occupied'[i] = contains(i)
    BY <2>4, <2>6, <2>7, Zenon
  <2>11. \A i : contains(i) => i \in 0 .. n - 1
    <3>1. \A i : contains(i) => i \in Nat /\ i < size
      BY UsedFacts, Zenon
    <3>2. QED
      BY <3>1, <2>2, <1>1, SMT
  <2>12. \A i : contains(i)' <=> contains(i) \/ i = x
    BY <2>7, <2>9, <2>10, <2>11, Zenon DEF contains
  <2>13. QED
    BY <2>2, <2>3, <2>5, <2>7, <2>8, <2>9, <2>12, Zenon
<1>5. CASE ~grows(x)
  <2>1. x < size
    BY <1>5, <1>2, <1>1, SMT DEF grows
  <2>2. size' = size /\ data' = [data EXCEPT ![x] = v]
        /\ occupied' = [occupied EXCEPT ![x] = TRUE]
    BY <1>3, <1>5, Zenon DEF emplace
  <2>3. PICK n \in Nat : size <= n /\ n <= MaxSize /\ occupied \in [0 .. n - 1 -> BOOLEAN]
    BY SlotFacts, Zenon DEF IInv
  <2>4. x \in 0 .. size - 1 /\ x \in 0 .. n - 1 /\ n \in size .. MaxSize /\ size <= size
    BY <1>1, <1>2, <2>1, <2>3, SMT
  <2>5. /\ data' \in [0 .. size - 1 -> Values \cup {Raw}] /\ data'[x] = v
        /\ \A i \in 0 .. size - 1 : i # x => data'[i] = data[i]
    BY <2>2, <2>4, <1>1, SMT
  <2>6. occupied' \in [0 .. n - 1 -> BOOLEAN] /\ occupied'[x] = TRUE
    BY <2>2, <2>3, <2>4, Zenon
  <2>7. \A i \in 0 .. n - 1 : i # x => occupied'[i] = occupied[i]
    BY <2>2, <2>3, Zenon
  <2>8. DOMAIN occupied = 0 .. n - 1 /\ DOMAIN occupied' = 0 .. n - 1
    BY <2>3, <2>6, Zenon
  <2>9. \A i : contains(i)' <=> contains(i) \/ i = x
    BY <2>4, <2>6, <2>7, <2>8, Zenon DEF contains
  <2>10. \A i \in size .. size - 1 : FALSE
    BY <1>1, SMT
  <2>11. freeList = <<>> => size > nextIndex
    BY <2>1, <1>1, <1>2, SMT
  <2>12. QED
    BY <1>1, <2>1, <2>2, <2>4, <2>5, <2>6, <2>9, <2>10, <2>11, Zenon
<1>6. QED
  BY <1>4, <1>5

LEMMA InsertKeeps ==
  ASSUME IInv, NEW v \in Values, Insert(v)
  PROVE  IInv'
<1>1. PICK x : x = getNewIndex
  OBVIOUS
<1>2. /\ TypeOK /\ CountIsExact /\ MarksAreTrue /\ FreeListIsFree
      /\ NothingIsSkipped /\ GrowthMovesNoRaw
  BY DEF IInv
<1>3. /\ size \in Nat /\ size <= MaxSize /\ MaxSize \in Nat
      /\ nextIndex \in Nat /\ nextIndex <= size
      /\ numOccupied \in Nat /\ numOccupied <= size
      /\ freeList \in Seq(0 .. MaxSize - 1) /\ Len(freeList) \in Nat
  BY <1>2, SlotFacts, Zenon
<1>4. /\ x \in Nat /\ x <= nextIndex /\ ~contains(x)
      /\ freeList # <<>> => x = freeList[1] /\ x < nextIndex
      /\ freeList = <<>> => x = nextIndex
      /\ grows(x) => freeList = <<>> /\ nextIndex = size
  BY <1>1, NewIndexFacts, Zenon
<1>5. /\ size' \in Nat /\ size <= size' /\ size' <= MaxSize /\ x < size'
      /\ data' \in [0 .. size' - 1 -> Values \cup {Raw}]
      /\ data'[x] = v
      /\ \A i \in 0 .. size - 1 : i # x => data'[i] = data[i]
      /\ \A i \in size .. size' - 1 : i # x => data'[i] = Raw
      /\ \E n \in size' .. MaxSize : occupied' \in [0 .. n - 1 -> BOOLEAN]
      /\ \A i : contains(i)' <=> contains(i) \/ i = x
      /\ freeList = <<>> => size' > nextIndex
  BY <1>1, InsertFacts, Zenon
<1>6. /\ numOccupied' = numOccupied + 1
      /\ rawMoved' = (rawMoved \/ (grows(x) /\ movesRaw))
      /\ nextIndex' = IF freeList = <<>> THEN nextIndex + 1 ELSE nextIndex
      /\ freeList' = IF freeList # <<>> THEN Tail(freeList) ELSE <<>>
      /\ resized' = resized /\ trivial' = trivial
  BY <1>1, Zenon DEF Insert, emplace, popped
<1>7. \A i : contains(i) => i \in Nat /\ i < nextIndex /\ i < size
  BY UsedFacts, Zenon
<1>8. nextIndex' \in Nat /\ nextIndex' <= size' /\ nextIndex <= nextIndex' /\ x < nextIndex'
  BY <1>3, <1>4, <1>5, <1>6, SMT
<1>9. UsedWereHandedOut'
  <2>1. SUFFICES ASSUME NEW i, contains(i)' PROVE i < nextIndex'
    BY Zenon DEF UsedWereHandedOut, contains
  <2>2. i = x \/ (i \in Nat /\ i < nextIndex)
    BY <2>1, <1>5, <1>7, Zenon
  <2>3. QED
    BY <2>2, <1>3, <1>8, SMT
<1>10. CountIsExact' /\ numOccupied' <= size'
  <2>1. InUse' = InUse \cup {x}
    <3>1. \A i : i \in 0 .. size' - 1 /\ contains(i)' <=> (i \in 0 .. size - 1 /\ contains(i)) \/ i = x
      BY <1>3, <1>4, <1>5, <1>7, SMT
    <3>2. QED
      BY <3>1, Zenon DEF InUse
  <2>2. IsFiniteSet(0 .. size - 1) /\ IsFiniteSet(0 .. size' - 1)
        /\ Cardinality(0 .. size' - 1) = size'
    BY <1>3, <1>5, SlotCount, Zenon
  <2>3. IsFiniteSet(InUse)
    BY <2>2, FS_Subset, Zenon DEF InUse
  <2>4. x \notin InUse
    BY <1>4, Zenon DEF InUse
  <2>5. Cardinality(InUse \cup {x}) = Cardinality(InUse) + 1
    BY <2>3, <2>4, FS_AddElement, Zenon
  <2>6. Cardinality(InUse') = numOccupied'
    BY <1>2, <1>6, <2>1, <2>5, Zenon DEF CountIsExact
  <2>7. InUse' \in SUBSET (0 .. size' - 1)
    BY Zenon DEF InUse
  <2>8. Cardinality(InUse') <= Cardinality(0 .. size' - 1)
    BY <2>2, <2>7, FS_Subset, Zenon
  <2>9. QED
    BY <2>2, <2>6, <2>8, Zenon DEF CountIsExact
<1>11. MarksAreTrue'
  <2>1. SUFFICES ASSUME NEW i \in 0 .. size' - 1
                 PROVE  data'[i] # Raw <=> contains(i)'
    BY Zenon DEF MarksAreTrue
  <2>2. CASE i = x
    BY <2>2, <1>5, SlotAssumption, Zenon
  <2>3. CASE i # x /\ i < size
    <3>1. i \in 0 .. size - 1
      BY <2>1, <2>3, <1>3, <1>5, SMT
    <3>2. QED
      BY <3>1, <2>3, <1>2, <1>5, Zenon DEF MarksAreTrue
  <2>4. CASE i # x /\ ~(i < size)
    <3>1. size' \in Nat /\ size \in Nat /\ ~(i < size)
      BY <1>3, <1>5, <2>4, Zenon
    <3>2. i \in size .. size' - 1
      <4>1. \A a, b \in Nat : \A j \in 0 .. b - 1 : j < a \/ j \in a .. b - 1
        BY SMT
      <4>2. QED
        BY <3>1, <4>1, Zenon
    <3>3. QED
      BY <3>2, <2>4, <1>5, <1>7, Zenon
  <2>5. QED
    BY <2>2, <2>3, <2>4, Zenon
<1>12. CASE freeList = <<>>
  <2>1. freeList' = <<>> /\ nextIndex' = nextIndex + 1 /\ x = nextIndex
    BY <1>4, <1>6, <1>12, Zenon
  <2>2. freeList' \in Seq(0 .. MaxSize - 1) /\ \A k \in 1 .. Len(freeList') : FALSE
    BY <2>1, SMT
  <2>3. FreeListIsFree'
    BY <2>2, Zenon DEF FreeListIsFree
  <2>4. \A k \in 1 .. Len(freeList) : FALSE
    BY <1>12, SMT
  <2>5. NothingIsSkipped'
    <3>1. SUFFICES ASSUME ~resized, NEW i \in 0 .. nextIndex' - 1
                   PROVE  contains(i)'
      BY <1>6, Zenon DEF NothingIsSkipped
    <3>2. i = x \/ i \in 0 .. nextIndex - 1
      BY <2>1, <1>3, SMT
    <3>3. QED
      BY <3>1, <3>2, <2>4, <1>2, <1>5, Zenon DEF NothingIsSkipped, IsFree
  <2>6. GrowthMovesNoRaw'
    <3>1. SUFFICES ASSUME grows(x), movesRaw, ~resized PROVE FALSE
      BY <1>2, <1>6, Zenon DEF GrowthMovesNoRaw
    <3>2. PICK i \in 0 .. size - 1 : data[i] = Raw
      BY <3>1, Zenon DEF movesRaw, moved
    <3>3. ~contains(i)
      BY <3>2, <1>2, Zenon DEF MarksAreTrue
    <3>4. i \in 0 .. nextIndex - 1
      BY <3>1, <3>2, <1>4, Zenon
    <3>5. QED
      BY <3>1, <3>3, <3>4, <2>4, <1>2, Zenon DEF NothingIsSkipped, IsFree
  <2>7. TypeOK'
    <3>1. size' \in 0 .. MaxSize /\ nextIndex' \in 0 .. size' /\ numOccupied' \in 0 .. size'
      BY <1>3, <1>5, <1>6, <1>8, <1>10, SMT
    <3>2. rawMoved' \in BOOLEAN /\ resized' \in BOOLEAN /\ trivial' \in BOOLEAN
      BY <1>2, <1>6, Zenon DEF TypeOK, grows, movesRaw
    <3>3. QED
      BY <3>1, <3>2, <2>2, <1>5, Zenon DEF TypeOK
  <2>8. QED
    BY <1>9, <1>10, <1>11, <2>3, <2>5, <2>6, <2>7, Zenon DEF IInv
<1>13. CASE freeList # <<>>
  <2>1. freeList' = Tail(freeList) /\ nextIndex' = nextIndex /\ x = freeList[1]
    BY <1>4, <1>6, <1>13, Zenon
  <2>2. /\ freeList' \in Seq(0 .. MaxSize - 1) /\ Len(freeList') = Len(freeList) - 1
        /\ Len(freeList) >= 1
        /\ \A k \in 1 .. Len(freeList) - 1 : freeList'[k] = freeList[k + 1]
    BY <2>1, <1>3, <1>13, SMT
  <2>3. \A k \in 1 .. Len(freeList') : k + 1 \in 1 .. Len(freeList) /\ k + 1 # 1
                                       /\ freeList'[k] = freeList[k + 1]
    <3>1. PICK m \in Nat : m = Len(freeList)
      BY <1>3
    <3>2. /\ 1 .. Len(freeList') = 1 .. m - 1
          /\ \A k \in 1 .. m - 1 : k + 1 \in 1 .. m /\ k + 1 # 1
      BY <2>2, <3>1, SMT
    <3>3. QED
      BY <2>2, <3>1, <3>2, Zenon
  <2>4. 1 \in 1 .. Len(freeList) /\ x = freeList[1]
    BY <2>1, <2>2, <1>3, SMT
  <2>5. FreeListIsFree'
    <3>1. SUFFICES ASSUME NEW k \in 1 .. Len(freeList')
                   PROVE  /\ freeList'[k] \in Nat /\ freeList'[k] < nextIndex'
                          /\ ~contains(freeList[k])'
                          /\ \A m \in 1 .. Len(freeList') : freeList'[m] = freeList'[k] => m = k
      BY Zenon DEF FreeListIsFree
    <3>2. /\ freeList'[k] \in Nat /\ freeList'[k] < nextIndex'
          /\ ~contains(freeList'[k])
      BY <3>1, <2>1, <2>3, <1>2, Zenon DEF FreeListIsFree
    <3>3. freeList'[k] # x
      BY <3>1, <2>3, <2>4, <1>2, Zenon DEF FreeListIsFree
    <3>4. \A m \in 1 .. Len(freeList') : freeList'[m] = freeList'[k] => m + 1 = k + 1
      BY <3>1, <2>3, <1>2, Zenon DEF FreeListIsFree
    <3>5. \A m \in 1 .. Len(freeList') : m + 1 = k + 1 => m = k
      BY <3>1, <2>2, <1>3, SMT
    <3>6. PICK y : y = freeList'[k]
      OBVIOUS
    <3>7. ~contains(y)'
      BY <3>2, <3>3, <3>6, <1>5, Zenon
    <3>8. ~contains(freeList[k])'
      BY <3>6, <3>7, Zenon DEF contains
    <3>9. QED
      BY <3>2, <3>4, <3>5, <3>8, Zenon
  <2>6. NothingIsSkipped'
    <3>1. SUFFICES ASSUME ~resized, NEW i \in 0 .. nextIndex - 1
                   PROVE  contains(i)' \/ IsFree(i)'
      BY <1>6, <2>1, Zenon DEF NothingIsSkipped
    <3>2. CASE contains(i)
      BY <3>2, <1>5, Zenon
    <3>3. ASSUME NEW k \in 1 .. Len(freeList), freeList[k] = i, k # 1 PROVE IsFree(i)'
      <4>1. k - 1 \in 1 .. Len(freeList') /\ freeList'[k - 1] = i
        BY <3>3, <2>2, <1>3, SMT
      <4>2. QED
        BY <4>1, Zenon DEF IsFree
    <3>4. QED
      BY <3>1, <3>2, <3>3, <2>4, <1>2, <1>5, Zenon DEF NothingIsSkipped, IsFree
  <2>7. GrowthMovesNoRaw' /\ rawMoved' = rawMoved
    BY <1>2, <1>4, <1>6, <1>13, Zenon DEF GrowthMovesNoRaw, TypeOK
  <2>8. TypeOK'
    <3>1. size' \in 0 .. MaxSize /\ nextIndex' \in 0 .. size' /\ numOccupied' \in 0 .. size'
      BY <1>3, <1>5, <1>6, <1>8, <1>10, SMT
    <3>2. rawMoved' \in BOOLEAN /\ resized' \in BOOLEAN /\ trivial' \in BOOLEAN
      BY <1>2, <1>6, <2>7, Zenon DEF TypeOK
    <3>3. QED
      BY <3>1, <3>2, <2>2, <1>5, Zenon DEF TypeOK
  <2>9. QED
    BY <1>9, <1>10, <1>11, <2>5, <2>6, <2>7, <2>8, Zenon DEF IInv
<1>14. QED
  BY <1>12, <1>13

(* What remove() does to the slots.                                        *)
LEMMA RemoveFacts ==
  ASSUME IInv, NEW x, Remove(x)
  PROVE  /\ x \in Nat /\ x < nextIndex /\ x < size /\ contains(x)
         /\ data' \in [0 .. size - 1 -> Values \cup {Raw}]
         /\ data'[x] = Raw
         /\ \A i \in 0 .. size - 1 : i # x => data'[i] = data[i]
         /\ \E n \in size .. MaxSize : occupied' \in [0 .. n - 1 -> BOOLEAN]
         /\ \A i : contains(i)' <=> contains(i) /\ i # x
<1>1. /\ contains(x)
      /\ data' = [data EXCEPT ![x] = Raw] /\ occupied' = [occupied EXCEPT ![x] = FALSE]
  BY Zenon DEF Remove, remove
<1>2. x \in Nat /\ x < nextIndex /\ x < size
  BY <1>1, UsedFacts, Zenon
<1>3. /\ size \in Nat /\ data \in [0 .. size - 1 -> Values \cup {Raw}]
      /\ MaxSize \in Nat
  BY SlotFacts, Zenon DEF IInv
<1>4. PICK n \in Nat : size <= n /\ n <= MaxSize /\ occupied \in [0 .. n - 1 -> BOOLEAN]
  BY SlotFacts, Zenon DEF IInv
<1>5. x \in 0 .. size - 1 /\ x \in 0 .. n - 1 /\ n \in size .. MaxSize
  BY <1>2, <1>3, <1>4, SMT
<1>6. /\ data' \in [0 .. size - 1 -> Values \cup {Raw}] /\ data'[x] = Raw
      /\ \A i \in 0 .. size - 1 : i # x => data'[i] = data[i]
  BY <1>1, <1>3, <1>5, SMT
<1>7. occupied' \in [0 .. n - 1 -> BOOLEAN] /\ occupied'[x] = FALSE
  BY <1>1, <1>4, <1>5, Zenon
<1>8. \A i \in 0 .. n - 1 : i # x => occupied'[i] = occupied[i]
  BY <1>1, <1>4, Zenon
<1>9. DOMAIN occupied = 0 .. n - 1 /\ DOMAIN occupied' = 0 .. n - 1
  BY <1>4, <1>7, Zenon
<1>10. \A i : contains(i)' <=> contains(i) /\ i # x
  BY <1>7, <1>8, <1>9, Zenon DEF contains
<1>11. QED
  BY <1>1, <1>2, <1>5, <1>6, <1>7, <1>10, Zenon

LEMMA RemoveKeeps ==
  ASSUME IInv, NEW x, Remove(x)
  PROVE  IInv'
<1>1. /\ TypeOK /\ CountIsExact /\ MarksAreTrue /\ FreeListIsFree
      /\ NothingIsSkipped /\ GrowthMovesNoRaw /\ UsedWereHandedOut
  BY DEF IInv
<1>2. /\ size \in Nat /\ size <= MaxSize /\ MaxSize \in Nat
      /\ nextIndex \in Nat /\ nextIndex <= size
      /\ numOccupied \in Nat /\ numOccupied <= size
      /\ freeList \in Seq(0 .. MaxSize - 1) /\ Len(freeList) \in Nat
  BY <1>1, SlotFacts, Zenon
<1>3. /\ x \in Nat /\ x < nextIndex /\ x < size /\ contains(x)
      /\ data' \in [0 .. size - 1 -> Values \cup {Raw}]
      /\ data'[x] = Raw
      /\ \A i \in 0 .. size - 1 : i # x => data'[i] = data[i]
      /\ \E n \in size .. MaxSize : occupied' \in [0 .. n - 1 -> BOOLEAN]
      /\ \A i : contains(i)' <=> contains(i) /\ i # x
  BY RemoveFacts, Zenon
<1>4. /\ numOccupied' = numOccupied - 1 /\ freeList' = Append(freeList, x)
      /\ size' = size /\ nextIndex' = nextIndex /\ rawMoved' = rawMoved
      /\ resized' = resized /\ trivial' = trivial
  BY Zenon DEF Remove, remove
<1>5. UsedWereHandedOut'
  BY <1>1, <1>3, <1>4, Zenon DEF UsedWereHandedOut, contains
<1>6. CountIsExact' /\ numOccupied' \in Nat
  <2>1. InUse' = InUse \ {x}
    <3>1. \A i : i \in 0 .. size' - 1 /\ contains(i)' <=> i \in 0 .. size - 1 /\ contains(i) /\ i # x
      BY <1>3, <1>4, Zenon
    <3>2. QED
      BY <3>1, Zenon DEF InUse
  <2>2. IsFiniteSet(InUse)
    BY <1>2, SlotCount, FS_Subset, Zenon DEF InUse
  <2>3. x \in 0 .. size - 1
    BY <1>2, <1>3, SMT
  <2>4. x \in InUse
    BY <2>3, <1>3, Zenon DEF InUse
  <2>5. IsFiniteSet(InUse \ {x}) /\ Cardinality(InUse \ {x}) = Cardinality(InUse) - 1
    BY <2>2, <2>4, FS_RemoveElement, Zenon
  <2>6. Cardinality(InUse \ {x}) \in Nat
    BY <2>5, FS_CardinalityType, Zenon
  <2>7. QED
    BY <1>1, <1>4, <2>1, <2>5, <2>6, Zenon DEF CountIsExact
<1>7. MarksAreTrue'
  <2>1. SUFFICES ASSUME NEW i \in 0 .. size - 1
                 PROVE  data'[i] # Raw <=> contains(i)'
    BY <1>4, Zenon DEF MarksAreTrue
  <2>2. QED
    BY <1>1, <1>3, Zenon DEF MarksAreTrue
<1>8. PICK n \in Nat : n = Len(freeList)
  BY <1>2
<1>9. x \in 0 .. MaxSize - 1
  BY <1>2, <1>3, SMT
<1>10. /\ freeList' \in Seq(0 .. MaxSize - 1) /\ Len(freeList') = n + 1
       /\ \A k \in 1 .. n : freeList'[k] = freeList[k]
       /\ freeList'[n + 1] = x
  BY <1>2, <1>4, <1>8, <1>9, SMT
<1>11. \A k \in 1 .. n + 1 : k \in 1 .. n \/ k = n + 1
  BY SMT
<1>12. FreeListIsFree'
  <2>1. SUFFICES ASSUME NEW k \in 1 .. n + 1
                 PROVE  /\ freeList'[k] \in Nat /\ freeList'[k] < nextIndex'
                        /\ ~contains(freeList[k])'
                        /\ \A m \in 1 .. n + 1 : freeList'[m] = freeList'[k] => m = k
    BY <1>10, Zenon DEF FreeListIsFree
  <2>2. \A m \in 1 .. n : freeList[m] # x
    BY <1>1, <1>3, <1>8, Zenon DEF FreeListIsFree
  <2>3. CASE k \in 1 .. n
    <3>1. PICK y : y = freeList[k]
      OBVIOUS
    <3>2. y = freeList'[k] /\ y \in Nat /\ y < nextIndex /\ ~contains(y)
      BY <2>3, <3>1, <1>1, <1>8, <1>10, Zenon DEF FreeListIsFree
    <3>3. ~contains(y)'
      BY <3>2, <1>3, Zenon
    <3>4. ~contains(freeList[k])'
      BY <3>2, <3>3, Zenon DEF contains
    <3>5. \A m \in 1 .. n + 1 : freeList'[m] = freeList'[k] => m = k
      BY <2>2, <2>3, <1>1, <1>8, <1>10, <1>11, Zenon DEF FreeListIsFree
    <3>6. QED
      BY <3>2, <3>4, <3>5, <1>4, Zenon
  <2>4. CASE k = n + 1
    <3>1. freeList'[k] = x
      BY <2>4, <1>10, Zenon
    <3>2. ~contains(x)'
      BY <1>3, Zenon
    <3>3. ~contains(freeList[k])'
      BY <3>1, <3>2, Zenon DEF contains
    <3>4. \A m \in 1 .. n + 1 : freeList'[m] = freeList'[k] => m = k
      BY <2>2, <2>4, <3>1, <1>10, <1>11, Zenon
    <3>5. QED
      BY <3>1, <3>3, <3>4, <1>3, <1>4, Zenon
  <2>5. QED
    BY <2>1, <2>3, <2>4, <1>11, Zenon
<1>13. NothingIsSkipped'
  <2>1. SUFFICES ASSUME ~resized, NEW i \in 0 .. nextIndex - 1
                 PROVE  contains(i)' \/ IsFree(i)'
    BY <1>4, Zenon DEF NothingIsSkipped
  <2>2. n + 1 \in 1 .. n + 1 /\ \A k \in 1 .. n : k \in 1 .. n + 1
    BY SMT
  <2>3. CASE i = x
    BY <2>2, <2>3, <1>10, Zenon DEF IsFree
  <2>4. CASE i # x /\ contains(i)
    BY <2>4, <1>3, Zenon
  <2>5. CASE IsFree(i)
    BY <2>2, <2>5, <1>8, <1>10, Zenon DEF IsFree
  <2>6. QED
    BY <2>1, <2>3, <2>4, <2>5, <1>1, Zenon DEF NothingIsSkipped
<1>14. TypeOK'
  <2>1. numOccupied' \in 0 .. size
    BY <1>2, <1>4, <1>6, SMT
  <2>2. QED
    BY <2>1, <1>1, <1>3, <1>4, <1>10, Zenon DEF TypeOK
<1>15. GrowthMovesNoRaw'
  BY <1>1, <1>4, Zenon DEF GrowthMovesNoRaw
<1>16. QED
  BY <1>5, <1>6, <1>7, <1>12, <1>13, <1>14, <1>15, Zenon DEF IInv

(* resize() changes no value and no mark.                                  *)
LEMMA ResizeFacts ==
  ASSUME IInv, NEW n \in 1 .. MaxSize, Resize(n)
  PROVE  /\ size' = n /\ size < n
         /\ data' \in [0 .. n - 1 -> Values \cup {Raw}]
         /\ \A i \in 0 .. size - 1 : data'[i] = data[i]
         /\ \A i \in size .. n - 1 : data'[i] = Raw
         /\ occupied' \in [0 .. n - 1 -> BOOLEAN]
         /\ \A i : contains(i)' <=> contains(i)
<1>1. n > size /\ data' = newData(n) /\ occupied' = newOccupied(n) /\ size' = n
  BY Zenon DEF Resize
<1>2. size \in Nat /\ MaxSize \in Nat
  BY SlotFacts, Zenon DEF IInv
<1>3. n \in Nat /\ size <= n /\ size < n
  BY <1>1, <1>2, SMT
<1>4. /\ newData(n) \in [0 .. n - 1 -> Values \cup {Raw}]
      /\ \A i \in 0 .. size - 1 : newData(n)[i] = data[i]
      /\ \A i \in size .. n - 1 : newData(n)[i] = Raw
      /\ newOccupied(n) \in [0 .. n - 1 -> BOOLEAN]
      /\ \A i \in 0 .. n - 1 : newOccupied(n)[i] = contains(i)
  BY <1>3, GrownFacts, Zenon
<1>5. \A i : contains(i) => i \in 0 .. n - 1
  <2>1. \A i : contains(i) => i \in Nat /\ i < size
    BY UsedFacts, Zenon
  <2>2. QED
    BY <2>1, <1>2, <1>3, SMT
<1>6. \A i : contains(i)' <=> contains(i)
  BY <1>1, <1>4, <1>5, Zenon DEF contains
<1>7. QED
  BY <1>1, <1>3, <1>4, <1>6, Zenon

LEMMA ResizeKeeps ==
  ASSUME IInv, NEW n \in 1 .. MaxSize, Resize(n)
  PROVE  IInv'
<1>1. /\ TypeOK /\ CountIsExact /\ MarksAreTrue /\ FreeListIsFree
  BY DEF IInv
<1>2. /\ size \in Nat /\ MaxSize \in Nat /\ nextIndex \in Nat /\ nextIndex <= size
      /\ numOccupied \in Nat /\ numOccupied <= size
      /\ freeList \in Seq(0 .. MaxSize - 1)
  BY <1>1, SlotFacts, Zenon
<1>3. /\ size' = n /\ size < n
      /\ data' \in [0 .. n - 1 -> Values \cup {Raw}]
      /\ \A i \in 0 .. size - 1 : data'[i] = data[i]
      /\ \A i \in size .. n - 1 : data'[i] = Raw
      /\ occupied' \in [0 .. n - 1 -> BOOLEAN]
      /\ \A i : contains(i)' <=> contains(i)
  BY ResizeFacts, Zenon
<1>4. /\ nextIndex' = size /\ resized' = TRUE /\ trivial' = trivial
      /\ rawMoved' = (rawMoved \/ movesRaw)
      /\ numOccupied' = numOccupied /\ freeList' = freeList
  BY Zenon DEF Resize
<1>5. \A i : contains(i) => i \in Nat /\ i < nextIndex /\ i < size
  BY UsedFacts, Zenon
<1>6. UsedWereHandedOut'
  BY <1>3, <1>4, <1>5, Zenon DEF UsedWereHandedOut, contains
<1>7. \A i : i \in 0 .. n - 1 <=> i \in 0 .. size - 1 \/ i \in size .. n - 1
  <2>1. \A a, b \in Nat : a < b =>
          \A i : i \in 0 .. b - 1 <=> i \in 0 .. a - 1 \/ i \in a .. b - 1
    BY SMT
  <2>2. n \in Nat
    BY <1>2, SMT
  <2>3. QED
    BY <2>1, <2>2, <1>2, <1>3, Zenon
<1>8. \A i \in size .. n - 1 : ~contains(i)
  <2>1. \A i \in size .. n - 1 : ~(i < size)
    BY <1>2, SMT
  <2>2. QED
    BY <2>1, <1>5, Zenon
<1>9. CountIsExact'
  <2>1. InUse' = InUse
    <3>1. \A i : i \in 0 .. size' - 1 /\ contains(i)' <=> i \in 0 .. size - 1 /\ contains(i)
      BY <1>3, <1>7, <1>8, Zenon
    <3>2. QED
      BY <3>1, Zenon DEF InUse
  <2>2. QED
    BY <2>1, <1>1, <1>4, Zenon DEF CountIsExact
<1>10. MarksAreTrue'
  <2>1. SUFFICES ASSUME NEW i \in 0 .. n - 1 PROVE data'[i] # Raw <=> contains(i)'
    BY <1>3, Zenon DEF MarksAreTrue
  <2>2. CASE i \in 0 .. size - 1
    BY <2>2, <1>1, <1>3, Zenon DEF MarksAreTrue
  <2>3. CASE i \in size .. n - 1
    BY <2>3, <1>3, <1>8, Zenon
  <2>4. QED
    BY <2>2, <2>3, <1>7, Zenon
<1>11. FreeListIsFree'
  <2>1. SUFFICES ASSUME NEW k \in 1 .. Len(freeList)
                 PROVE  /\ freeList[k] \in Nat /\ freeList[k] < nextIndex'
                        /\ ~contains(freeList[k])'
                        /\ \A m \in 1 .. Len(freeList) : freeList[m] = freeList[k] => m = k
    BY <1>4, Zenon DEF FreeListIsFree
  <2>2. PICK y : y = freeList[k]
    OBVIOUS
  <2>3. y \in Nat /\ y < nextIndex /\ ~contains(y)
        /\ \A m \in 1 .. Len(freeList) : freeList[m] = freeList[k] => m = k
    BY <2>1, <2>2, <1>1, Zenon DEF FreeListIsFree
  <2>4. y < nextIndex'
    BY <2>3, <1>2, <1>4, SMT
  <2>5. ~contains(y)' /\ y = freeList'[k]
    BY <2>2, <2>3, <1>3, <1>4, Zenon
  <2>6. ~contains(freeList[k])'
    BY <2>5, Zenon DEF contains
  <2>7. QED
    BY <2>2, <2>3, <2>4, <2>6, Zenon
<1>12. TypeOK'
  <2>1. /\ n \in 0 .. MaxSize /\ n \in n .. MaxSize /\ numOccupied \in 0 .. n
        /\ size \in 0 .. n
    BY <1>2, <1>3, SMT
  <2>2. rawMoved' \in BOOLEAN /\ resized' \in BOOLEAN /\ trivial' \in BOOLEAN
    BY <1>1, <1>4, Zenon DEF TypeOK, movesRaw
  <2>3. QED
    BY <2>1, <2>2, <1>2, <1>3, <1>4, Zenon DEF TypeOK
<1>13. NothingIsSkipped' /\ GrowthMovesNoRaw'
  BY <1>4, Zenon DEF NothingIsSkipped, GrowthMovesNoRaw
<1>14. QED
  BY <1>6, <1>9, <1>10, <1>11, <1>12, <1>13, Zenon DEF IInv

LEMMA InitEstablishes ==
  ASSUME Init
  PROVE  IInv
<1>1. PICK n \in 0 .. MaxSize : VectorMap(n)
  BY Zenon DEF Init
<1>2. /\ data = [i \in {} |-> Raw] /\ size = 0 /\ numOccupied = 0
      /\ occupied = [i \in 0 .. n - 1 |-> FALSE]
      /\ nextIndex = 0 /\ freeList = <<>> /\ rawMoved = FALSE /\ resized = FALSE
      /\ trivial \in BOOLEAN
  BY <1>1, Zenon DEF Init, VectorMap
<1>3. MaxSize \in Nat /\ 0 .. 0 - 1 = {}
  BY SlotAssumption, SMT
<1>4. \A i : ~contains(i)
  BY <1>2, Zenon DEF contains
<1>5. TypeOK
  <2>1. 0 \in 0 .. MaxSize /\ n \in 0 .. MaxSize /\ 0 \in 0 .. 0
    BY <1>3, SMT
  <2>2. occupied \in [0 .. n - 1 -> BOOLEAN]
    BY <1>2, Zenon
  <2>3. data \in [0 .. 0 - 1 -> Values \cup {Raw}]
    BY <1>2, <1>3, Zenon
  <2>4. freeList \in Seq(0 .. MaxSize - 1)
    BY <1>2, SMT
  <2>5. QED
    BY <1>2, <2>1, <2>2, <2>3, <2>4, Zenon DEF TypeOK
<1>6. UsedWereHandedOut
  BY <1>4, Zenon DEF UsedWereHandedOut, contains
<1>7. InUse = {}
  BY <1>4, Zenon DEF InUse
<1>8. CountIsExact
  BY <1>2, <1>7, FS_EmptySet, Zenon DEF CountIsExact
<1>9. MarksAreTrue
  BY <1>2, <1>3, Zenon DEF MarksAreTrue
<1>10. \A k \in 1 .. Len(freeList) : FALSE
  BY <1>2, SMT
<1>11. FreeListIsFree
  BY <1>10, Zenon DEF FreeListIsFree
<1>12. NothingIsSkipped /\ GrowthMovesNoRaw
  BY <1>2, <1>3, Zenon DEF NothingIsSkipped, GrowthMovesNoRaw
<1>13. QED
  BY <1>5, <1>6, <1>8, <1>9, <1>11, <1>12, Zenon DEF IInv

LEMMA NextKeeps ==
  ASSUME IInv, [Next]_vars
  PROVE  IInv'
<1>1. CASE \E v \in Values : Insert(v)
  BY <1>1, InsertKeeps, Zenon
<1>2. CASE \E i \in 0 .. MaxSize : Remove(i)
  BY <1>2, RemoveKeeps, Zenon
<1>3. CASE \E n \in 1 .. MaxSize : Resize(n)
  BY <1>3, ResizeKeeps, Zenon
<1>4. CASE UNCHANGED vars
  <2>1. /\ data' = data /\ size' = size /\ numOccupied' = numOccupied
        /\ occupied' = occupied /\ nextIndex' = nextIndex /\ freeList' = freeList
        /\ trivial' = trivial /\ rawMoved' = rawMoved /\ resized' = resized
    BY <1>4, Zenon DEF vars
  <2>2. TypeOK' /\ UsedWereHandedOut' /\ MarksAreTrue' /\ GrowthMovesNoRaw'
    BY <2>1, Zenon DEF IInv, TypeOK, UsedWereHandedOut, MarksAreTrue, GrowthMovesNoRaw, contains
  <2>3. CountIsExact' /\ FreeListIsFree' /\ NothingIsSkipped'
    BY <2>1, Zenon DEF IInv, CountIsExact, FreeListIsFree, NothingIsSkipped, InUse, IsFree, contains
  <2>4. QED
    BY <2>2, <2>3, Zenon DEF IInv
<1>5. QED
  BY <1>1, <1>2, <1>3, <1>4, Zenon DEF Next

(* The inductive invariant holds for any values and any size.              *)
THEOREM IInvHolds == Spec => []IInv
<1>1. Init => IInv
  BY InitEstablishes
<1>2. IInv /\ [Next]_vars => IInv'
  BY NextKeeps
<1>3. QED
  BY <1>1, <1>2, PTL DEF Spec

(* The assertion of VectorMap::emplace, that the index is not occupied,    *)
(* never fails for an index of getNewIndex(), and no index is twice in     *)
(* freeList_.                                                              *)
THEOREM IndexIsFresh == Spec => []NewIndexIsFresh
<1>1. IInv => NewIndexIsFresh
  <2>1. SUFFICES ASSUME IInv PROVE NewIndexIsFresh
    OBVIOUS
  <2>2. TypeOK /\ FreeListIsFree
    BY <2>1 DEF IInv
  <2>3. ~contains(getNewIndex)
    BY <2>1, NewIndexFacts, Zenon
  <2>4. DOMAIN freeList = 1 .. Len(freeList)
    <3>1. freeList \in Seq(0 .. MaxSize - 1)
      BY <2>2 DEF TypeOK
    <3>2. QED
      BY <3>1, LenProperties
  <2>5. QED
    BY <2>2, <2>3, <2>4, Zenon DEF NewIndexIsFresh, FreeListIsFree
<1>2. QED
  BY <1>1, IInvHolds, PTL

(* VectorMap::resize moves every slot without a look at occupied_, and yet *)
(* no raw slot is moved as long as the owner does not call resize().       *)
THEOREM NoRawIsMoved == Spec => []GrowthMovesNoRaw
<1>1. IInv => GrowthMovesNoRaw
  BY DEF IInv
<1>2. QED
  BY <1>1, IInvHolds, PTL
-----------------------------------------------------------------------------
(* The store that the slots stand for.                                     *)
Bar == [i \in {j \in DOMAIN data : contains(j)} |-> data[i]]

LEMMA BarFacts ==
  ASSUME IInv
  PROVE  /\ \A i : i \in DOMAIN Bar <=> contains(i)
         /\ \A i \in DOMAIN Bar : Bar[i] = data[i] /\ i \in 0 .. size - 1
<1>1. size \in Nat /\ data \in [0 .. size - 1 -> Values \cup {Raw}]
  BY SlotFacts, Zenon DEF IInv
<1>2. DOMAIN data = 0 .. size - 1
  BY <1>1, Zenon
<1>3. \A i : contains(i) => i \in Nat /\ i < size
  BY UsedFacts, Zenon
<1>4. \A i : contains(i) => i \in 0 .. size - 1
  BY <1>1, <1>3, SMT
<1>5. DOMAIN Bar = {j \in DOMAIN data : contains(j)}
  BY Zenon DEF Bar
<1>6. \A i \in DOMAIN Bar : Bar[i] = data[i]
  BY Zenon DEF Bar
<1>7. QED
  BY <1>2, <1>4, <1>5, <1>6, Zenon

BarIsExact ==
  /\ \A i : i \in DOMAIN Bar <=> contains(i)
  /\ \A i \in DOMAIN Bar : Bar[i] = data[i] /\ i \in 0 .. size - 1

LEMMA BarIsExactNow == IInv => BarIsExact
  BY BarFacts, Zenon DEF BarIsExact

LEMMA BarIsExactNext == IInv' => BarIsExact'
  BY BarIsExactNow, PTL

(* insert() inserts the value under the index it takes.                    *)
LEMMA InsertRefines ==
  ASSUME IInv, IInv', NEW v \in Values, Insert(v)
  PROVE  \E i \in DOMAIN Bar' :
           /\ i \notin DOMAIN Bar
           /\ Bar' = [j \in DOMAIN Bar \cup {i} |-> IF j = i THEN v ELSE Bar[j]]
           /\ numOccupied' = numOccupied + 1
<1>1. PICK x : x = getNewIndex
  OBVIOUS
<1>2. /\ data'[x] = v
      /\ \A i \in 0 .. size - 1 : i # x => data'[i] = data[i]
      /\ \A i : contains(i)' <=> contains(i) \/ i = x
  BY <1>1, InsertFacts, Zenon
<1>3. ~contains(x) /\ numOccupied' = numOccupied + 1
  BY <1>1, NewIndexFacts, Zenon DEF Insert, emplace
<1>4. BarIsExact /\ BarIsExact'
  BY BarIsExactNow, BarIsExactNext
<1>5. /\ \A i : i \in DOMAIN Bar <=> contains(i)
      /\ \A i \in DOMAIN Bar : Bar[i] = data[i] /\ i \in 0 .. size - 1
      /\ \A i : i \in DOMAIN Bar' <=> contains(i)'
      /\ \A i \in DOMAIN Bar' : Bar'[i] = data'[i]
  BY <1>4, Zenon DEF BarIsExact
<1>6. x \in DOMAIN Bar' /\ x \notin DOMAIN Bar
  BY <1>2, <1>3, <1>5, Zenon
<1>7. DOMAIN Bar' = DOMAIN Bar \cup {x}
  BY <1>2, <1>5, Zenon
<1>8. \A j \in DOMAIN Bar \cup {x} : Bar'[j] = IF j = x THEN v ELSE Bar[j]
  BY <1>2, <1>5, <1>7, Zenon
<1>9. Bar' = [j \in DOMAIN Bar' |-> Bar'[j]]
  BY Zenon DEF Bar
<1>10. Bar' = [j \in DOMAIN Bar \cup {x} |-> IF j = x THEN v ELSE Bar[j]]
  BY <1>7, <1>8, <1>9, Zenon
<1>11. QED
  BY <1>3, <1>6, <1>10, Zenon

(* remove() removes the value under its index.                             *)
LEMMA RemoveRefines ==
  ASSUME IInv, IInv', NEW x, Remove(x)
  PROVE  /\ x \in DOMAIN Bar
         /\ Bar' = [j \in DOMAIN Bar \ {x} |-> Bar[j]]
         /\ numOccupied' = numOccupied - 1
<1>1. /\ contains(x)
      /\ \A i \in 0 .. size - 1 : i # x => data'[i] = data[i]
      /\ \A i : contains(i)' <=> contains(i) /\ i # x
  BY RemoveFacts, Zenon
<1>2. BarIsExact /\ BarIsExact'
  BY BarIsExactNow, BarIsExactNext
<1>3. /\ \A i : i \in DOMAIN Bar <=> contains(i)
      /\ \A i \in DOMAIN Bar : Bar[i] = data[i] /\ i \in 0 .. size - 1
      /\ \A i : i \in DOMAIN Bar' <=> contains(i)'
      /\ \A i \in DOMAIN Bar' : Bar'[i] = data'[i]
  BY <1>2, Zenon DEF BarIsExact
<1>4. DOMAIN Bar' = DOMAIN Bar \ {x}
  BY <1>1, <1>3, Zenon
<1>5. \A j \in DOMAIN Bar \ {x} : Bar'[j] = Bar[j]
  BY <1>1, <1>3, <1>4, Zenon
<1>6. Bar' = [j \in DOMAIN Bar' |-> Bar'[j]]
  BY Zenon DEF Bar
<1>7. Bar' = [j \in DOMAIN Bar \ {x} |-> Bar[j]]
  BY <1>4, <1>5, <1>6, Zenon
<1>8. numOccupied' = numOccupied - 1
  BY Zenon DEF Remove, remove
<1>9. QED
  BY <1>1, <1>3, <1>7, <1>8, Zenon

(* resize() is invisible.                                                  *)
LEMMA ResizeRefines ==
  ASSUME IInv, IInv', NEW n \in 1 .. MaxSize, Resize(n)
  PROVE  Bar' = Bar /\ numOccupied' = numOccupied
<1>1. /\ \A i \in 0 .. size - 1 : data'[i] = data[i]
      /\ \A i : contains(i)' <=> contains(i)
  BY ResizeFacts, Zenon
<1>2. BarIsExact /\ BarIsExact'
  BY BarIsExactNow, BarIsExactNext
<1>3. /\ \A i : i \in DOMAIN Bar <=> contains(i)
      /\ \A i \in DOMAIN Bar : Bar[i] = data[i] /\ i \in 0 .. size - 1
      /\ \A i : i \in DOMAIN Bar' <=> contains(i)'
      /\ \A i \in DOMAIN Bar' : Bar'[i] = data'[i]
  BY <1>2, Zenon DEF BarIsExact
<1>4. DOMAIN Bar' = DOMAIN Bar
  BY <1>1, <1>3, Zenon
<1>5. \A j \in DOMAIN Bar : Bar'[j] = Bar[j]
  BY <1>1, <1>3, <1>4, Zenon
<1>6. Bar' = [j \in DOMAIN Bar' |-> Bar'[j]] /\ Bar = [j \in DOMAIN Bar |-> Bar[j]]
  BY Zenon DEF Bar
<1>7. Bar' = Bar
  BY <1>4, <1>5, <1>6, Zenon
<1>8. QED
  BY <1>7, Zenon DEF Resize

(* SlotMap implements the abstract store: whatever is inserted, removed    *)
(* and resized, a value stays under the index that insert() returned until *)
(* that index is removed, and numOccupied_ counts the values.  For a T     *)
(* that is not trivial this is up to the first raw slot that is moved.     *)
THEOREM SlotMapImplementsStore == Spec => ImplementsStore
<1>1. Init => Store!Init
  <2>1. SUFFICES ASSUME Init PROVE Store!Init
    OBVIOUS
  <2>3. data = [i \in {} |-> Raw] /\ numOccupied = 0
    BY <2>1, Zenon DEF Init, VectorMap
  <2>4. {j \in DOMAIN data : contains(j)} = {}
    BY <2>3, Zenon
  <2>5. [i \in {j \in DOMAIN data : contains(j)} |-> data[i]] = [i \in {} |-> 0]
    BY <2>4, SMT
  <2>6. QED
    BY <2>3, <2>5, Zenon DEF Store!Init
<1>2. IInv /\ IInv' /\ [Next]_vars => [Store!Next]_<<Bar, numOccupied>>
  <2>1. SUFFICES ASSUME IInv, IInv', [Next]_vars
                 PROVE  Store!Next \/ (Bar' = Bar /\ numOccupied' = numOccupied)
    BY Zenon
  <2>2. ASSUME NEW v \in Values, Insert(v) PROVE Store!Next
    <3>1. PICK i \in DOMAIN Bar' :
             /\ i \notin DOMAIN Bar
             /\ Bar' = [j \in DOMAIN Bar \cup {i} |-> IF j = i THEN v ELSE Bar[j]]
             /\ numOccupied' = numOccupied + 1
      BY <2>1, <2>2, InsertRefines, Zenon
    <3>2. Store!Insert(i, v)
      BY <3>1, Zenon DEF Store!Insert, Bar
    <3>3. QED
      BY <2>2, <3>1, <3>2, Zenon DEF Store!Next, Bar
  <2>3. ASSUME NEW x \in 0 .. MaxSize, Remove(x) PROVE Store!Next
    <3>1. /\ x \in DOMAIN Bar
          /\ Bar' = [j \in DOMAIN Bar \ {x} |-> Bar[j]]
          /\ numOccupied' = numOccupied - 1
      BY <2>1, <2>3, RemoveRefines, Zenon
    <3>2. Store!Remove(x)
      BY <3>1, Zenon DEF Store!Remove, Bar
    <3>3. QED
      BY <3>1, <3>2, Zenon DEF Store!Next, Bar
  <2>4. ASSUME NEW n \in 1 .. MaxSize, Resize(n)
        PROVE  Bar' = Bar /\ numOccupied' = numOccupied
    BY <2>1, <2>4, ResizeRefines, Zenon
  <2>5. ASSUME UNCHANGED vars PROVE Bar' = Bar /\ numOccupied' = numOccupied
    BY <2>5, Zenon DEF vars, Bar, contains
  <2>6. QED
    BY <2>1, <2>2, <2>3, <2>4, <2>5, Zenon DEF Next
<1>3. [Store!Next]_<<Bar, numOccupied>> =>
        [Store!Next]_<<[i \in {j \in DOMAIN data : contains(j)} |-> data[i]], numOccupied>>
  BY Zenon DEF Bar
<1>4. QED
  BY <1>1, <1>2, <1>3, IInvHolds, PTL DEF Spec, ImplementsStore, Store!Spec
=============================================================================
