-------------------------------- MODULE Wait --------------------------------
(***************************************************************************)
(* WaitAll and WaitAny: a coroutine, here the parent, waits for several    *)
(* Tasks, its children (src/include/aiopp/wait.hpp, task.hpp,              *)
(* basiccoroutine.hpp).  add() starts a wrapper coroutine, a lambda, that  *)
(* awaits the child and then calls awaitableCompleted() of the waiter.     *)
(*                                                                         *)
(* The parent runs on the thread of the event loop: children complete only *)
(* while it is suspended, unless add() finds them ready.  Undefined        *)
(* behaviour ends a run of the model, with its cause in fault.             *)
(***************************************************************************)
EXTENDS Naturals, FiniteSets

CONSTANT MaxChildren   \* bound: calls of add()

ASSUME BoundAssumption == MaxChildren \in Nat

VARIABLES
  kind,          \* "all" for WaitAll, "any" for WaitAny
  waiter,        \* the WaitAll or WaitAny exists
  pending,       \* pending_
  started,       \* started_, and the number of calls of add()
  completed,     \* completed_: 0 for nullopt, else the index plus 1
  continuation,  \* continuation_ has been set
  child,         \* state of the task given to the n-th call of add()
  owned,         \* children that were moved into the frame of their wrapper
  parent,        \* state of the coroutine that uses the waiter
  first,         \* history: the child that completed first, 0 for none
  awaited,       \* history: a co_await has returned since the last add()
  reused,        \* history: add() was called after a co_await had suspended
  fault          \* what has ended the process, "no" for nothing

waiterVars == <<pending, completed, continuation>>
vars == <<kind, waiter, waiterVars, started, child, owned, parent, first, awaited,
          reused, fault>>

Children == 1 .. MaxChildren
Pending == {i \in Children : child[i] = "pending"}
Runs == fault = "no" /\ parent = "running"
LoopRuns == fault = "no" /\ parent # "running"
ChildTo(i, to) == [child EXCEPT ![i] = to]
-----------------------------------------------------------------------------
(* continuation_.resume(): right if the parent is suspended in co_await   *)
(* of this waiter.  Resumed at another suspension point, or while running, *)
(* it goes on without the result it waits for.                             *)
Resume ==
  IF parent = "waiting"
  THEN parent' = "running" /\ awaited' = TRUE /\ UNCHANGED fault
  ELSE fault' = "misresumed" /\ UNCHANGED <<parent, awaited>>

(* Faults: WaitAll resumes whenever a child completes; WaitAny keeps the   *)
(* index of the last child.                                                *)
resumesAlways == TRUE

completedLast(i) == i

(* The conditions of awaitableCompleted() to resume the continuation, and  *)
(* the index it keeps.                                                     *)
resumesAll == pending' = 0

completedFirst(i) == IF completed = 0 THEN i ELSE completed

(* WaitAll::awaitableCompleted and WaitAny::awaitableCompleted(idx), with  *)
(* p the value of pending_ before it.                                      *)
awaitableCompleted(i, p) ==
  /\ pending' = IF kind = "all" THEN p - 1 ELSE 0
  /\ completed' = IF kind = "any" THEN completedFirst(i) ELSE 0
  /\ first' = IF first = 0 THEN i ELSE first
  /\ IF continuation /\ (kind = "all" => resumesAll)
     THEN Resume
     ELSE UNCHANGED <<parent, awaited, fault>>

(* startAwaitable(): pending_ after it.                                    *)
startAwaitable == IF kind = "all" THEN pending + 1 ELSE 0

(* add() of an lvalue, which is referenced, or of a temporary, which is    *)
(* moved into the wrapper.  The wrapper starts the task, which suspends.   *)
Adds(i, move) ==
  /\ Runs /\ waiter
  /\ i = started + 1 /\ started' = i
  /\ owned' = IF move THEN owned \cup {i} ELSE owned
  /\ reused' = (reused \/ continuation)

Add(i, move) ==
  /\ Adds(i, move)
  /\ child' = ChildTo(i, "pending")
  /\ pending' = startAwaitable
  /\ awaited' = FALSE
  /\ UNCHANGED <<kind, waiter, completed, continuation, parent, first, fault>>

(* The task is done, or it runs to its end at once: the wrapper completes  *)
(* within add().                                                           *)
AddReady(i, move) ==
  /\ Adds(i, move)
  /\ child' = ChildTo(i, "done")
  /\ awaitableCompleted(i, startAwaitable)
  /\ UNCHANGED <<kind, waiter, continuation>>
-----------------------------------------------------------------------------
(* Fault: WaitAll is ready although one child has not completed.           *)
await_readyTooEarly == IF kind = "all" THEN pending <= 1 ELSE completed # 0

await_ready == IF kind = "all" THEN pending = 0 ELSE completed # 0

(* co_await of the waiter.                                                 *)
AwaitReady ==
  /\ Runs /\ waiter
  /\ await_ready
  /\ awaited' = TRUE
  /\ UNCHANGED <<kind, waiter, waiterVars, started, child, owned, parent, first,
                 reused, fault>>

(* Fault: await_suspend does not keep the continuation.                    *)
AwaitForgets ==
  /\ Runs /\ waiter
  /\ ~await_ready
  /\ parent' = "waiting"
  /\ UNCHANGED <<kind, waiter, waiterVars, started, child, owned, first, awaited,
                 reused, fault>>

Await ==
  /\ Runs /\ waiter
  /\ ~await_ready
  /\ continuation' = TRUE
  /\ parent' = "waiting"
  /\ UNCHANGED <<kind, waiter, pending, completed, started, child, owned, first,
                 awaited, reused, fault>>
-----------------------------------------------------------------------------
(* A child comes to its end on the event loop and resumes its wrapper,     *)
(* which reads this from the closure of the lambda.  The closure was a     *)
(* temporary in add(): what the wrapper reads is what was there, or not.   *)
ReadClosure(i) ==
  /\ LoopRuns
  /\ child[i] = "pending"
  /\ fault' = "closure"
  /\ UNCHANGED <<kind, waiter, waiterVars, started, child, owned, parent, first,
                 awaited, reused>>

(* The closure is intact, but the waiter is gone.                          *)
CompleteGone(i) ==
  /\ LoopRuns /\ ~waiter
  /\ child[i] = "pending"
  /\ fault' = "useAfterFree"
  /\ UNCHANGED <<kind, waiter, waiterVars, started, child, owned, parent, first,
                 awaited, reused>>

Complete(i) ==
  /\ LoopRuns /\ waiter
  /\ child[i] = "pending"
  /\ child' = ChildTo(i, "done")
  /\ awaitableCompleted(i, pending)
  /\ UNCHANGED <<kind, waiter, continuation, started, owned, reused>>
-----------------------------------------------------------------------------
(* The owner of a referenced task destroys it: its wrapper is never        *)
(* resumed, and its frame leaks.                                           *)
DestroyChild(i) ==
  /\ fault = "no"
  /\ child[i] = "pending" /\ i \notin owned
  /\ child' = ChildTo(i, "destroyed")
  /\ UNCHANGED <<kind, waiter, waiterVars, started, owned, parent, first, awaited,
                 reused, fault>>

(* The scope of the waiter ends; referenced tasks may live on.             *)
EndScope ==
  /\ Runs /\ waiter
  /\ waiter' = FALSE
  /\ UNCHANGED <<kind, waiterVars, started, child, owned, parent, first, awaited,
                 reused, fault>>

(* The parent awaits something else, and is resumed by that.               *)
AwaitOther ==
  /\ Runs
  /\ parent' = "elsewhere"
  /\ UNCHANGED <<kind, waiter, waiterVars, started, child, owned, first, awaited,
                 reused, fault>>

OtherCompletes ==
  /\ fault = "no" /\ parent = "elsewhere"
  /\ parent' = "running"
  /\ UNCHANGED <<kind, waiter, waiterVars, started, child, owned, first, awaited,
                 reused, fault>>

(* The parent finishes, or its Task is destroyed while it is suspended:    *)
(* the frame goes, with the waiter and the tasks it owns.                  *)
FrameGone ==
  /\ fault = "no" /\ parent # "gone"
  /\ parent' = "gone"
  /\ waiter' = FALSE
  /\ \E local \in SUBSET (Pending \ owned) :
       child' = [i \in Children |-> IF i \in local THEN "destroyed" ELSE child[i]]
  /\ UNCHANGED <<kind, waiterVars, started, owned, first, awaited, reused, fault>>
-----------------------------------------------------------------------------
Init ==
  /\ kind \in {"all", "any"}
  /\ waiter = TRUE
  /\ pending = 0 /\ started = 0 /\ completed = 0
  /\ continuation = FALSE
  /\ child = [i \in Children |-> "none"]
  /\ owned = {}
  /\ parent = "running"
  /\ first = 0 /\ awaited = FALSE /\ reused = FALSE
  /\ fault = "no"

Next ==
  \/ AwaitReady \/ Await
  \/ EndScope \/ AwaitOther \/ OtherCompletes \/ FrameGone
  \/ \E i \in Children :
       \/ \E move \in BOOLEAN : Add(i, move) \/ AddReady(i, move)
       \/ ReadClosure(i) \/ CompleteGone(i) \/ Complete(i) \/ DestroyChild(i)

(* Every child completes in the end, unless it is destroyed.               *)
Spec ==
  /\ Init /\ [][Next]_vars
  /\ \A i \in Children : WF_vars(ReadClosure(i) \/ CompleteGone(i) \/ Complete(i))
-----------------------------------------------------------------------------
(* The types: pending_ and started_ stay within the number of children.    *)
TypeOK ==
  /\ kind \in {"all", "any"} /\ waiter \in BOOLEAN
  /\ pending \in 0 .. MaxChildren /\ started \in 0 .. MaxChildren
  /\ completed \in 0 .. started /\ first \in 0 .. started
  /\ continuation \in BOOLEAN
  /\ child \in [Children -> {"none", "pending", "done", "destroyed"}]
  /\ owned \subseteq Children
  /\ parent \in {"running", "waiting", "elsewhere", "gone"}
  /\ awaited \in BOOLEAN /\ reused \in BOOLEAN
  /\ fault \in {"no", "misresumed", "closure", "useAfterFree"}

(* What co_await promises when it returns: every child of a WaitAll has    *)
(* completed, and WaitAny yields the child that completed first.           *)
AwaitKeepsPromise ==
  /\ TypeOK
  /\ awaited /\ fault = "no" =>
       IF kind = "all" THEN \A i \in 1 .. started : child[i] = "done"
       ELSE first # 0 /\ completed = first

(* A completion does not resume the parent where it waits for something    *)
(* else, except that WaitAny does so for every child after the first one,  *)
(* and a waiter that is used again after it has suspended its parent.      *)
NoStaleResume ==
  fault = "misresumed" =>
    \/ reused
    \/ kind = "any" /\ Cardinality({i \in Children : child[i] = "done"}) > 1

(* No wrapper uses a WaitAll that has gone, if the co_await of it has      *)
(* returned: the waiter may then be a temporary of that expression.        *)
AwaitedWaiterIsSafe ==
  kind = "all" /\ awaited => fault # "useAfterFree"

(* The parent does not wait for ever, unless a child was destroyed or it   *)
(* awaits a WaitAny without children.                                      *)
WaitEnds ==
  parent = "waiting"
    ~> \/ parent # "waiting" \/ fault # "no"
       \/ \E i \in Children : child[i] = "destroyed"
       \/ kind = "any" /\ started = 0

(* The wrappers of WaitAll wait { task, anotherTask() } use nothing that   *)
(* is destroyed at the end of the expression (wait.hpp).                   *)
ClosureAlive == fault # "closure"
=============================================================================
