----------------------------- MODULE WaitProofs -----------------------------
(***************************************************************************)
(* Proofs about Wait for any number of children: what co_await of a        *)
(* WaitAll or WaitAny promises when it returns, and when a completion may  *)
(* resume the parent or touch the waiter at the wrong time.                *)
(***************************************************************************)
EXTENDS Wait, TLAPS, FiniteSetTheorems

(* Children that were added and have not completed, and those that have.   *)
Open == {i \in Children : child[i] \in {"pending", "destroyed"}}
Done == {i \in Children : child[i] = "done"}

(* pending_ counts the open children of a WaitAll, a destroyed one for     *)
(* ever.                                                                   *)
PendingIsExact == pending = IF kind = "all" THEN Cardinality(Open) ELSE 0

ChildrenAreAdded == \A i \in Children : child[i] = "none" <=> i > started

(* completed_ of a WaitAny is the child that completed first.              *)
CompletedIsFirst ==
  IF kind = "any" THEN completed = first /\ (completed # 0 => completed \in Done)
                  ELSE completed = 0

(* A co_await that has returned has found the waiter ready.                *)
AwaitedIsReady == awaited => await_ready

(* A waiter that has a continuation, but does not suspend it, is ready:    *)
(* the completion that made it ready has used the continuation.            *)
ContinuationIsUsed ==
  continuation /\ ~reused /\ waiter /\ parent # "waiting" /\ fault = "no" => await_ready

IInv ==
  /\ TypeOK
  /\ PendingIsExact /\ ChildrenAreAdded /\ CompletedIsFirst
  /\ AwaitedIsReady /\ ContinuationIsUsed
  /\ NoStaleResume /\ AwaitedWaiterIsSafe
-----------------------------------------------------------------------------
LEMMA ChildrenAreFinite ==
  ASSUME NEW S \in SUBSET Children
  PROVE  IsFiniteSet(S) /\ Cardinality(S) \in 0 .. MaxChildren
<1>1. IsFiniteSet(Children) /\ Cardinality(Children) = MaxChildren
  BY FS_Interval, BoundAssumption, SMT DEF Children
<1>2. IsFiniteSet(S) /\ Cardinality(S) <= MaxChildren
  BY <1>1, FS_Subset, Zenon
<1>3. Cardinality(S) \in Nat
  BY <1>2, FS_CardinalityType, Zenon
<1>4. QED
  BY <1>2, <1>3, BoundAssumption, SMT

LEMMA CountsAreFinite ==
  /\ IsFiniteSet(Open) /\ Cardinality(Open) \in Nat
  /\ IsFiniteSet(Done) /\ Cardinality(Done) \in Nat
<1>1. Open \in SUBSET Children /\ Done \in SUBSET Children
  BY Zenon DEF Open, Done
<1>2. QED
  BY <1>1, ChildrenAreFinite, BoundAssumption, SMT

(* add() of a child that suspends.                                         *)
LEMMA AddOpens ==
  ASSUME TypeOK, NEW i \in Children, child[i] = "none", child' = ChildTo(i, "pending")
  PROVE  Cardinality(Open') = Cardinality(Open) + 1 /\ Done' = Done
<1>1. Open' = Open \cup {i} /\ i \notin Open /\ Done' = Done
  BY SMT DEF Open, Done, ChildTo, TypeOK
<1>2. QED
  BY <1>1, CountsAreFinite, FS_AddElement, Zenon

(* A child that completes, within add() or later.                          *)
LEMMA CompletionCloses ==
  ASSUME TypeOK, NEW i \in Children, child[i] \in {"none", "pending"},
         child' = ChildTo(i, "done")
  PROVE  /\ Cardinality(Open') = IF child[i] = "none" THEN Cardinality(Open)
                                                     ELSE Cardinality(Open) - 1
         /\ child[i] = "pending" => Cardinality(Open) > 0
         /\ Done' = Done \cup {i}
         /\ Cardinality(Done') = Cardinality(Done) + 1
<1>1. Open' = Open \ {i} /\ (i \in Open <=> child[i] = "pending")
  BY SMT DEF Open, ChildTo, TypeOK
<1>2. Done' = Done \cup {i} /\ i \notin Done
  BY SMT DEF Done, ChildTo, TypeOK
<1>3. Cardinality(Done') = Cardinality(Done) + 1
  BY <1>2, CountsAreFinite, FS_AddElement, Zenon
<1>4. Cardinality(Open') = IF i \in Open THEN Cardinality(Open) - 1
                                         ELSE Cardinality(Open)
  BY <1>1, CountsAreFinite, FS_RemoveElement, Zenon
<1>5. i \in Open => Cardinality(Open) # 0
  BY CountsAreFinite, FS_EmptySet, Zenon
<1>6. QED
  BY <1>1, <1>2, <1>3, <1>4, <1>5, CountsAreFinite, SMT

(* A child that is destroyed stays open.                                   *)
LEMMA DestructionKeepsOpen ==
  ASSUME TypeOK, NEW S \in SUBSET Pending,
         child' \in [Children -> {"none", "pending", "done", "destroyed"}],
         \A j \in Children : child'[j] = IF j \in S THEN "destroyed" ELSE child[j]
  PROVE  Open' = Open /\ Done' = Done
BY SMT DEF Open, Done, Pending, TypeOK

LEMMA InitEstablishes ==
  ASSUME Init
  PROVE  IInv
<1>1. Open = {}
  BY SMT DEF Init, Open
<1>2. Cardinality(Open) = 0
  BY <1>1, FS_EmptySet, Zenon
<1>3. TypeOK
  <2>1. 0 \in 0 .. MaxChildren /\ 0 \in 0 .. 0
    BY BoundAssumption, SMT
  <2>2. QED
    BY <2>1, Zenon DEF Init, TypeOK
<1>4. QED
  BY <1>2, <1>3, SMT DEF Init, IInv, PendingIsExact, ChildrenAreAdded, CompletedIsFirst,
     AwaitedIsReady, ContinuationIsUsed, NoStaleResume, AwaitedWaiterIsSafe, Children

(* Steps that change no child and no count.                                *)
LEMMA ParentKeeps ==
  ASSUME IInv, AwaitReady \/ Await \/ EndScope \/ AwaitOther \/ OtherCompletes
  PROVE  IInv'
<1> USE DEF IInv
<1>1. Open' = Open /\ Done' = Done
  BY Zenon DEF AwaitReady, Await, EndScope, AwaitOther, OtherCompletes, Open, Done
<1>2. TypeOK'
  BY Zenon DEF AwaitReady, Await, EndScope, AwaitOther, OtherCompletes, TypeOK,
     waiterVars
<1>3. PendingIsExact' /\ ChildrenAreAdded' /\ CompletedIsFirst' /\ NoStaleResume'
  BY <1>1, SMT DEF AwaitReady, Await, EndScope, AwaitOther, OtherCompletes,
     PendingIsExact, ChildrenAreAdded, CompletedIsFirst, waiterVars, Runs, NoStaleResume
<1>4. AwaitedIsReady' /\ ContinuationIsUsed' /\ AwaitedWaiterIsSafe'
  BY SMT DEF AwaitReady, Await, EndScope, AwaitOther, OtherCompletes,
     AwaitedIsReady, ContinuationIsUsed, waiterVars, Runs, AwaitedWaiterIsSafe,
     await_ready, TypeOK
<1>5. QED
  BY <1>1, <1>2, <1>3, <1>4

(* A wrapper that reads its closure, or a waiter that is gone.             *)
LEMMA FaultsKeep ==
  ASSUME IInv, NEW i \in Children, ReadClosure(i) \/ CompleteGone(i)
  PROVE  IInv'
<1> USE DEF IInv
<1>1. Open' = Open /\ Done' = Done
  BY Zenon DEF ReadClosure, CompleteGone, Open, Done
<1>2. TypeOK'
  BY Zenon DEF ReadClosure, CompleteGone, TypeOK, waiterVars
<1>3. PendingIsExact' /\ ChildrenAreAdded' /\ CompletedIsFirst' /\ NoStaleResume'
  BY <1>1, SMT DEF ReadClosure, CompleteGone, PendingIsExact, ChildrenAreAdded,
     CompletedIsFirst, waiterVars, NoStaleResume
<1>4. AwaitedIsReady' /\ ContinuationIsUsed'
  BY SMT DEF ReadClosure, CompleteGone, AwaitedIsReady, ContinuationIsUsed, waiterVars,
     await_ready
<1>5. AwaitedWaiterIsSafe'
  <2>1. kind = "all" /\ awaited => Open = {}
    BY CountsAreFinite, FS_EmptySet, Zenon DEF AwaitedIsReady, await_ready,
       PendingIsExact
  <2>2. i \in Open
    BY Zenon DEF ReadClosure, CompleteGone, Open
  <2>3. QED
    BY <2>1, <2>2, Zenon DEF ReadClosure, CompleteGone, AwaitedWaiterIsSafe
<1>6. QED
  BY <1>2, <1>3, <1>4, <1>5

LEMMA DestroyChildKeeps ==
  ASSUME IInv, NEW i \in Children, DestroyChild(i)
  PROVE  IInv'
<1> USE DEF IInv
<1>1. /\ \A j \in Children : child'[j] = IF j \in {i} THEN "destroyed" ELSE child[j]
      /\ {i} \in SUBSET Pending
  BY SMT DEF DestroyChild, ChildTo, TypeOK, Pending
<1>3. child' \in [Children -> {"none", "pending", "done", "destroyed"}]
  BY SMT DEF DestroyChild, ChildTo, TypeOK
<1>2. Open' = Open /\ Done' = Done
  BY <1>1, <1>3, DestructionKeepsOpen, Zenon
<1>4. TypeOK'
  BY <1>3, Zenon DEF DestroyChild, TypeOK, waiterVars
<1>5. ChildrenAreAdded'
  BY <1>1, SMT DEF ChildrenAreAdded, DestroyChild, Pending
<1>6. PendingIsExact' /\ CompletedIsFirst'
  BY <1>2, Zenon DEF PendingIsExact, CompletedIsFirst, DestroyChild, waiterVars
<1>7. AwaitedIsReady' /\ ContinuationIsUsed' /\ AwaitedWaiterIsSafe' /\ NoStaleResume'
  BY SMT DEF DestroyChild, AwaitedIsReady, ContinuationIsUsed, waiterVars, await_ready,
     AwaitedWaiterIsSafe, NoStaleResume
<1>8. QED
  BY <1>4, <1>5, <1>6, <1>7

LEMMA FrameGoneKeeps ==
  ASSUME IInv, FrameGone
  PROVE  IInv'
<1> USE DEF IInv
<1>1. PICK S \in SUBSET (Pending \ owned) :
        child' = [j \in Children |-> IF j \in S THEN "destroyed" ELSE child[j]]
  BY Zenon DEF FrameGone
<1>3. child' \in [Children -> {"none", "pending", "done", "destroyed"}]
  BY <1>1, SMT DEF TypeOK
<1>2. Open' = Open /\ Done' = Done
  <2>1. /\ S \in SUBSET Pending
        /\ \A j \in Children : child'[j] = IF j \in S THEN "destroyed" ELSE child[j]
    BY <1>1, Zenon
  <2>2. QED
    BY <1>3, <2>1, DestructionKeepsOpen, Zenon
<1>4. TypeOK'
  BY <1>3, Zenon DEF FrameGone, TypeOK, waiterVars
<1>5. ChildrenAreAdded'
  BY <1>1, SMT DEF ChildrenAreAdded, FrameGone, Pending
<1>6. PendingIsExact' /\ CompletedIsFirst'
  BY <1>2, Zenon DEF PendingIsExact, CompletedIsFirst, FrameGone, waiterVars
<1>7. AwaitedIsReady' /\ ContinuationIsUsed' /\ AwaitedWaiterIsSafe' /\ NoStaleResume'
  BY SMT DEF FrameGone, AwaitedIsReady, ContinuationIsUsed, waiterVars, await_ready,
     AwaitedWaiterIsSafe, NoStaleResume
<1>8. QED
  BY <1>4, <1>5, <1>6, <1>7

LEMMA AddKeeps ==
  ASSUME IInv, NEW i \in Children, NEW move \in BOOLEAN, Add(i, move)
  PROVE  IInv'
<1> USE DEF IInv
<1>1. i = started + 1 /\ started \in Nat /\ child[i] = "none"
  BY SMT DEF Add, Adds, ChildrenAreAdded, TypeOK, Children
<1>2. Cardinality(Open') = Cardinality(Open) + 1 /\ Done' = Done
  BY <1>1, AddOpens, Zenon DEF Add
<1>3. PendingIsExact' /\ CompletedIsFirst'
  BY <1>2, SMT DEF Add, PendingIsExact, CompletedIsFirst, startAwaitable, TypeOK
<1>4. TypeOK'
  <2>1. /\ started' \in 0 .. MaxChildren
        /\ completed' \in 0 .. started' /\ first' \in 0 .. started'
    BY <1>1, SMT DEF Add, Adds, TypeOK, Children
  <2>2. Cardinality(Open') \in 0 .. MaxChildren /\ 0 \in 0 .. MaxChildren
    <3>1. Open' \in SUBSET Children
      BY Zenon DEF Open
    <3>2. QED
      BY <3>1, ChildrenAreFinite, BoundAssumption, SMT
  <2>3. pending' \in 0 .. MaxChildren
    BY <1>3, <2>2, Zenon DEF PendingIsExact
  <2>4. child' \in [Children -> {"none", "pending", "done", "destroyed"}]
    BY SMT DEF Add, ChildTo, TypeOK
  <2>5. owned' \subseteq Children /\ reused' \in BOOLEAN
    BY Zenon DEF Add, Adds, TypeOK
  <2>6. QED
    BY <2>1, <2>3, <2>4, <2>5, Zenon DEF Add, TypeOK
<1>5. ChildrenAreAdded'
  BY <1>1, SMT DEF Add, Adds, ChildrenAreAdded, ChildTo, TypeOK, Children
<1>6. AwaitedIsReady' /\ ContinuationIsUsed' /\ AwaitedWaiterIsSafe' /\ NoStaleResume'
  BY Zenon DEF Add, Adds, Runs, AwaitedIsReady, ContinuationIsUsed, AwaitedWaiterIsSafe,
     NoStaleResume
<1>7. QED
  BY <1>3, <1>4, <1>5, <1>6

(* awaitableCompleted(): child i completes, within add() or later.  If it  *)
(* resumes a parent that does not wait for it, then the waiter was reused, *)
(* or another child of a WaitAny had completed before.                     *)
LEMMA CompletionKeeps ==
  ASSUME IInv, fault = "no", NEW i \in Children, NEW p,
         child[i] \in {"none", "pending"}, child' = ChildTo(i, "done"),
         p = IF kind = "all" THEN Cardinality(Open') + 1 ELSE 0,
         awaitableCompleted(i, p),
         UNCHANGED <<kind, waiter, continuation>>,
         started' \in 0 .. MaxChildren, started <= started', ChildrenAreAdded',
         owned' \subseteq Children, reused' \in BOOLEAN, reused => reused',
         continuation /\ parent # "waiting" => reused' \/ (kind = "any" /\ Done # {})
  PROVE  IInv'
<1> USE DEF IInv
<1>1. /\ Cardinality(Open') \in 0 .. MaxChildren /\ Cardinality(Open') <= Cardinality(Open)
      /\ Done' = Done \cup {i}
      /\ Cardinality(Done') = Cardinality(Done) + 1
      /\ Done # {} => Cardinality(Done) > 0
  <2>1. Open' \in SUBSET Children
    BY Zenon DEF Open
  <2>2. Cardinality(Open') \in 0 .. MaxChildren
    BY <2>1, ChildrenAreFinite, Zenon
  <2>3. Done # {} => Cardinality(Done) # 0
    BY CountsAreFinite, FS_EmptySet, Zenon
  <2>4. QED
    BY <2>2, <2>3, CompletionCloses, CountsAreFinite, BoundAssumption, SMT
<1>2. /\ pending' = IF kind = "all" THEN Cardinality(Open') ELSE 0
      /\ completed' = IF kind = "any" THEN completedFirst(i) ELSE 0
      /\ first' = IF first = 0 THEN i ELSE first
  <2>1. /\ pending' = IF kind = "all" THEN p - 1 ELSE 0
        /\ completed' = IF kind = "any" THEN completedFirst(i) ELSE 0
        /\ first' = IF first = 0 THEN i ELSE first
    BY Zenon DEF awaitableCompleted
  <2>2. QED
    BY <1>1, <2>1, BoundAssumption, SMT
<1>3. PendingIsExact' /\ CompletedIsFirst'
  BY <1>1, <1>2, SMT DEF PendingIsExact, CompletedIsFirst, completedFirst, Children
<1>4. i \in 1 .. started'
  BY SMT DEF ChildrenAreAdded, ChildTo, TypeOK, Children
<1>5. /\ pending' \in 0 .. MaxChildren
      /\ completed' \in 0 .. started' /\ first' \in 0 .. started'
  BY <1>1, <1>2, <1>4, BoundAssumption, SMT DEF completedFirst, TypeOK
<1>6. child' \in [Children -> {"none", "pending", "done", "destroyed"}]
  BY SMT DEF ChildTo, TypeOK
<1>7. awaited /\ kind = "all" => pending' = 0
  BY <1>1, <1>2, CountsAreFinite, SMT DEF AwaitedIsReady, await_ready, PendingIsExact
<1>8. kind = "any" => completed' # 0
  BY <1>2, SMT DEF completedFirst, Children
<1>9. CASE continuation /\ (kind = "all" => pending' = 0) /\ parent = "waiting"
  <2>1. parent' = "running" /\ awaited' = TRUE /\ fault' = fault
    BY <1>9, Zenon DEF awaitableCompleted, resumesAll, Resume
  <2>2. TypeOK'
    BY <1>5, <1>6, <2>1, Zenon DEF TypeOK
  <2>3. await_ready'
    BY <1>8, <1>9, Zenon DEF await_ready, TypeOK
  <2>4. QED
    BY <1>3, <2>1, <2>2, <2>3, Zenon DEF AwaitedIsReady, ContinuationIsUsed,
       NoStaleResume, AwaitedWaiterIsSafe
<1>10. CASE continuation /\ (kind = "all" => pending' = 0) /\ parent # "waiting"
  <2>1. fault' = "misresumed" /\ UNCHANGED <<parent, awaited>>
    BY <1>10, Zenon DEF awaitableCompleted, resumesAll, Resume
  <2>2. TypeOK'
    BY <1>5, <1>6, <2>1, Zenon DEF TypeOK
  <2>3. await_ready'
    BY <1>8, <1>10, Zenon DEF await_ready, TypeOK
  <2>4. reused' \/ (kind' = "any" /\ Cardinality(Done') > 1)
    BY <1>1, <1>10, CountsAreFinite, SMT
  <2>5. NoStaleResume'
    BY <2>4, Zenon DEF NoStaleResume, Done
  <2>6. QED
    BY <1>3, <2>1, <2>2, <2>3, <2>5, Zenon DEF AwaitedIsReady, ContinuationIsUsed,
       AwaitedWaiterIsSafe
<1>11. CASE ~(continuation /\ (kind = "all" => pending' = 0))
  <2>1. UNCHANGED <<parent, awaited, fault>>
    BY <1>11, Zenon DEF awaitableCompleted, resumesAll
  <2>2. TypeOK'
    BY <1>5, <1>6, <2>1, Zenon DEF TypeOK
  <2>3. AwaitedIsReady'
    BY <1>7, <1>8, <2>1, Zenon DEF AwaitedIsReady, await_ready, TypeOK
  <2>4. ContinuationIsUsed'
    BY <1>8, <1>11, <2>1, Zenon DEF ContinuationIsUsed, await_ready, TypeOK
  <2>5. QED
    BY <1>3, <2>1, <2>2, <2>3, <2>4, Zenon DEF NoStaleResume, AwaitedWaiterIsSafe
<1>12. QED
  BY <1>9, <1>10, <1>11, Zenon

LEMMA AddReadyKeeps ==
  ASSUME IInv, NEW i \in Children, NEW move \in BOOLEAN, AddReady(i, move)
  PROVE  IInv'
<1> USE DEF IInv
<1>1. i = started + 1 /\ started \in Nat /\ child[i] = "none"
  BY SMT DEF AddReady, Adds, ChildrenAreAdded, TypeOK, Children
<1>2. Cardinality(Open') = Cardinality(Open)
  BY <1>1, CompletionCloses, Zenon DEF AddReady
<1>3. startAwaitable = IF kind = "all" THEN Cardinality(Open') + 1 ELSE 0
  BY <1>2, SMT DEF startAwaitable, PendingIsExact
<1>4. started' \in 0 .. MaxChildren /\ started <= started'
  BY <1>1, SMT DEF AddReady, Adds, Children
<1>5. ChildrenAreAdded'
  BY <1>1, SMT DEF AddReady, Adds, ChildrenAreAdded, ChildTo, TypeOK, Children
<1>6. /\ owned' \subseteq Children /\ reused' \in BOOLEAN /\ (reused => reused')
      /\ (continuation => reused') /\ fault = "no"
  BY Zenon DEF AddReady, Adds, Runs, TypeOK
<1>7. /\ child' = ChildTo(i, "done") /\ awaitableCompleted(i, startAwaitable)
      /\ UNCHANGED <<kind, waiter, continuation>>
  BY Zenon DEF AddReady
<1> HIDE DEF IInv
<1>8. QED
  <2>1. child[i] \in {"none", "pending"}
    BY <1>1, Zenon
  <2>2. continuation /\ parent # "waiting" => reused' \/ (kind = "any" /\ Done # {})
    BY <1>6, Zenon
  <2>3. QED
    BY <1>3, <1>4, <1>5, <1>6, <1>7, <2>1, <2>2, CompletionKeeps, SMT

LEMMA CompleteKeeps ==
  ASSUME IInv, NEW i \in Children, Complete(i)
  PROVE  IInv'
<1> USE DEF IInv
<1>1. Cardinality(Open') = Cardinality(Open) - 1 /\ Cardinality(Open) > 0
  BY CompletionCloses, SMT DEF Complete
<1>2. pending = IF kind = "all" THEN Cardinality(Open') + 1 ELSE 0
  BY <1>1, CountsAreFinite, SMT DEF PendingIsExact
<1>3. started' \in 0 .. MaxChildren /\ started <= started' /\ ChildrenAreAdded'
  BY SMT DEF Complete, ChildrenAreAdded, ChildTo, TypeOK, Children
<1>4. continuation /\ parent # "waiting" => reused \/ (kind = "any" /\ Done # {})
  <2>1. SUFFICES ASSUME continuation, parent # "waiting", ~reused
                 PROVE  kind = "any" /\ Done # {}
    OBVIOUS
  <2>2. await_ready
    BY <2>1, Zenon DEF ContinuationIsUsed, Complete, LoopRuns
  <2>3. kind = "any"
    BY <1>1, <2>2, SMT DEF await_ready, PendingIsExact, TypeOK
  <2>4. QED
    BY <2>2, <2>3, Zenon DEF await_ready, CompletedIsFirst
<1>5. /\ child' = ChildTo(i, "done") /\ awaitableCompleted(i, pending)
      /\ UNCHANGED <<kind, waiter, continuation, owned, reused>>
      /\ child[i] = "pending" /\ fault = "no"
      /\ owned \subseteq Children /\ reused \in BOOLEAN
  BY Zenon DEF Complete, LoopRuns, TypeOK
<1> HIDE DEF IInv
<1>6. QED
  <2>1. child[i] \in {"none", "pending"}
    BY <1>5, Zenon
  <2>2. /\ owned' \subseteq Children /\ reused' \in BOOLEAN /\ (reused => reused')
        /\ continuation /\ parent # "waiting" => reused' \/ (kind = "any" /\ Done # {})
    BY <1>4, <1>5, Zenon
  <2>3. QED
    BY <1>2, <1>3, <1>5, <2>1, <2>2, CompletionKeeps, SMT
-----------------------------------------------------------------------------
(* The inductive invariant holds for any number of children, however       *)
(* add(), co_await, completions and destructions follow each other.        *)
THEOREM IInvHolds == Spec => []IInv
<1>1. Init => IInv
  BY InitEstablishes
<1>2. IInv /\ [Next]_vars => IInv'
  <2>1. ASSUME IInv, Next PROVE IInv'
    BY <2>1, ParentKeeps, FaultsKeep, DestroyChildKeeps, FrameGoneKeeps, AddKeeps,
       AddReadyKeeps, CompleteKeeps, Zenon DEF Next
  <2>2. ASSUME IInv, UNCHANGED vars PROVE IInv'
    BY <2>2, Zenon DEF vars, waiterVars, IInv, TypeOK, PendingIsExact, ChildrenAreAdded,
       CompletedIsFirst, AwaitedIsReady, ContinuationIsUsed, NoStaleResume,
       AwaitedWaiterIsSafe, await_ready, Open, Done
  <2>3. QED
    BY <2>1, <2>2
<1>3. QED
  BY <1>1, <1>2, PTL DEF Spec

(* When co_await of a WaitAll returns, every child has completed; that of  *)
(* a WaitAny yields the child that completed first.                        *)
THEOREM AwaitIsHonest == Spec => []AwaitKeepsPromise
<1>1. IInv => AwaitKeepsPromise
  <2> SUFFICES ASSUME IInv PROVE AwaitKeepsPromise
    OBVIOUS
  <2> USE DEF IInv
  <2>1. ASSUME awaited, kind = "all", NEW i \in 1 .. started
        PROVE  child[i] = "done"
    <3>1. Open = {}
      BY <2>1, CountsAreFinite, FS_EmptySet, Zenon DEF AwaitedIsReady, await_ready,
         PendingIsExact
    <3>2. i \in Children /\ child[i] # "none"
      <4>1. started \in 0 .. MaxChildren /\ ChildrenAreAdded
        BY Zenon DEF TypeOK
      <4> HIDE DEF IInv
      <4>2. i \in Children /\ ~(i > started)
        BY <2>1, <4>1, BoundAssumption, SMT DEF Children
      <4>3. QED
        BY <4>1, <4>2, Zenon DEF ChildrenAreAdded
    <3>3. QED
      BY <3>1, <3>2, SMT DEF Open, TypeOK
  <2>2. awaited /\ kind # "all" => first # 0 /\ completed = first
    BY Zenon DEF AwaitedIsReady, await_ready, CompletedIsFirst, TypeOK
  <2>3. QED
    BY <2>1, <2>2, Zenon DEF AwaitKeepsPromise
<1>2. QED
  BY <1>1, IInvHolds, PTL

(* continuation_ is never reset, but only a reused waiter, or a WaitAny    *)
(* with a second child, can resume the parent at the wrong place.          *)
THEOREM ResumesAreNotStale == Spec => []NoStaleResume
<1>1. IInv => NoStaleResume
  BY DEF IInv
<1>2. QED
  BY <1>1, IInvHolds, PTL

(* Once co_await of a WaitAll has returned, no wrapper uses the waiter.    *)
THEOREM WaiterMayGo == Spec => []AwaitedWaiterIsSafe
<1>1. IInv => AwaitedWaiterIsSafe
  BY DEF IInv
<1>2. QED
  BY <1>1, IInvHolds, PTL
=============================================================================
