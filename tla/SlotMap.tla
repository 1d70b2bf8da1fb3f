------------------------------ MODULE SlotMap -------------------------------
(***************************************************************************)
(* SlotMap over VectorMap: values under indices that are reused, in a      *)
(* block of raw storage that grows (src/include/aiopp/slotmap.hpp,         *)
(* vectormap.hpp).  A slot holds a value, or Raw if none has been          *)
(* constructed there.  Moving a value out of a raw slot is undefined       *)
(* behaviour for a T that is not trivial, and nothing is said about what   *)
(* follows: rawMoved ends the execution then.                              *)
(***************************************************************************)
EXTENDS Naturals, Sequences, FiniteSets

CONSTANTS
  Values,
  Raw,        \* the bytes of a slot without a value
  MaxSize     \* bound: slots of the storage

ASSUME SlotAssumption == Raw \notin Values /\ MaxSize \in Nat \ {0}

VARIABLES
  data,         \* data_, slots 0 .. size_ - 1
  size,         \* VectorMap::size_
  numOccupied,  \* numOccupied_
  occupied,     \* occupied_
  nextIndex,    \* SlotMap::nextIndex_
  freeList,     \* freeList_
  trivial,      \* the element type T is trivial: moving it copies bytes
  rawMoved,     \* history: a raw slot was moved
  resized       \* history: resize() was called

vars == <<data, size, numOccupied, occupied, nextIndex, freeList, trivial,
          rawMoved, resized>>

contains(i) == i \in DOMAIN occupied /\ occupied[i]
-----------------------------------------------------------------------------
(* The slots that VectorMap::resize moves; the faulty one stops early.     *)
movedTooFew == {i \in 0 .. size - 1 : i + 1 < size}

moved == 0 .. size - 1

(* VectorMap::resize: every slot is moved to a new block of n slots,       *)
(* whether it is occupied or not.                                          *)
newData(n) == [i \in 0 .. n - 1 |-> IF i \in moved THEN data[i] ELSE Raw]

newOccupied(n) == [i \in 0 .. n - 1 |-> contains(i)]

movesRaw == \E i \in moved : data[i] = Raw

(* When emplace resizes, and to which size.  The faulty one grows while    *)
(* there is a slot left.                                                   *)
growsEarly(index) == index + 1 >= size

grows(index) == index >= size

grown(index) == IF size * 2 > index + 1 THEN size * 2 ELSE index + 1

(* getNewIndex(), and the free list after it; the faulty one looks at the  *)
(* front of the list and does not pop.                                     *)
getNewIndex == IF freeList # <<>> THEN Head(freeList) ELSE nextIndex

notPopped == freeList

popped == IF freeList # <<>> THEN Tail(freeList) ELSE <<>>

(* VectorMap::emplace.  The assertion that the index is free is its guard; *)
(* see NewIndexIsFresh.                                                    *)
emplace(index, v) ==
  LET old == IF grows(index) THEN newData(grown(index)) ELSE data
      flags == IF grows(index) THEN newOccupied(grown(index)) ELSE occupied
  IN  /\ ~contains(index)
      /\ data' = [old EXCEPT ![index] = v]
      /\ occupied' = [flags EXCEPT ![index] = TRUE]
      /\ size' = IF grows(index) THEN grown(index) ELSE size
      /\ rawMoved' = (rawMoved \/ (grows(index) /\ movesRaw))
      /\ numOccupied' = numOccupied + 1

(* SlotMap::insert, emplace.                                               *)
Insert(v) ==
  /\ grows(getNewIndex) => grown(getNewIndex) <= MaxSize
  /\ emplace(getNewIndex, v)
  /\ nextIndex' = IF freeList = <<>> THEN nextIndex + 1 ELSE nextIndex
  /\ freeList' = popped
  /\ UNCHANGED <<trivial, resized>>

(* VectorMap::remove: the value is destroyed.                              *)
remove(i) ==
  /\ contains(i)
  /\ data' = [data EXCEPT ![i] = Raw]
  /\ occupied' = [occupied EXCEPT ![i] = FALSE]
  /\ numOccupied' = numOccupied - 1

(* SlotMap::remove.                                                        *)
Remove(i) ==
  /\ remove(i)
  /\ freeList' = Append(freeList, i)
  /\ UNCHANGED <<size, nextIndex, trivial, rawMoved, resized>>

(* SlotMap::resize: indices below the old size that were never handed out  *)
(* are not handed out any more.                                            *)
Resize(n) ==
  /\ n > size
  /\ nextIndex' = size
  /\ data' = newData(n)
  /\ occupied' = newOccupied(n)
  /\ size' = n
  /\ rawMoved' = (rawMoved \/ movesRaw)
  /\ resized' = TRUE
  /\ UNCHANGED <<numOccupied, freeList, trivial>>
-----------------------------------------------------------------------------
(* VectorMap(n): size_ stays 0, although there is storage for n slots.     *)
VectorMap(n) ==
  /\ data = [i \in {} |-> Raw] /\ size = 0
  /\ occupied = [i \in 0 .. n - 1 |-> FALSE]
  /\ numOccupied = 0

(* SlotMap(), or SlotMap(n), of any T.                                     *)
Init ==
  /\ \E n \in 0 .. MaxSize : VectorMap(n)
  /\ nextIndex = 0 /\ freeList = <<>>
  /\ trivial \in BOOLEAN
  /\ rawMoved = FALSE /\ resized = FALSE

(* What the program has done so far is defined.                            *)
defined == rawMoved => trivial

Next ==
  /\ defined
  /\ \/ \E v \in Values : Insert(v)
     \/ \E i \in 0 .. MaxSize : Remove(i)
     \/ \E n \in 1 .. MaxSize : Resize(n)

Spec == Init /\ [][Next]_vars
-----------------------------------------------------------------------------
(* The types: every index handed out has a slot.                           *)
TypeOK ==
  /\ size \in 0 .. MaxSize
  /\ data \in [0 .. size - 1 -> Values \cup {Raw}]
  /\ \E n \in size .. MaxSize : occupied \in [0 .. n - 1 -> BOOLEAN]
  /\ numOccupied \in 0 .. size
  /\ nextIndex \in 0 .. size
  /\ freeList \in Seq(0 .. MaxSize - 1)
  /\ trivial \in BOOLEAN /\ rawMoved \in BOOLEAN /\ resized \in BOOLEAN

(* An index that insert() hands out is not in use, now or later: the       *)
(* assertion of emplace never fails, whatever was removed and resized.     *)
NewIndexIsFresh ==
  /\ TypeOK
  /\ ~contains(getNewIndex)
  /\ \A k \in DOMAIN freeList :
       /\ freeList[k] < nextIndex /\ ~contains(freeList[k])
       /\ \A m \in DOMAIN freeList : freeList[m] = freeList[k] => m = k

(* Growing moves no raw slot, although resize() does not look at           *)
(* occupied_: emplace grows only when every slot is in use, unless         *)
(* SlotMap::resize has skipped slots.                                      *)
GrowthMovesNoRaw == rawMoved => resized

(* SlotMap implements the abstract store: growth, reuse of indices and     *)
(* resize() neither lose, change nor overwrite a value, as long as T is    *)
(* trivial or no raw slot has been moved.                                  *)
Store == INSTANCE IndexStore WITH
  store <- [i \in {j \in DOMAIN data : contains(j)} |-> data[i]],
  count <- numOccupied

ImplementsStore == Store!Spec
=============================================================================
