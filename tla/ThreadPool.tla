----------------------------- MODULE ThreadPool -----------------------------
(***************************************************************************)
(* ThreadPool: workers that wait on a condition variable for tasks         *)
(* (src/include/aiopp/threadpool.hpp, src/src/threadpool.cpp).  A step of  *)
(* a worker is one access to running_ or one step of the mutex, the        *)
(* condition variable or the task queue.  The body of a task is opaque.    *)
(***************************************************************************)
EXTENDS Naturals, Sequences, FiniteSets

CONSTANTS
  Workers,   \* threads_
  Free,      \* nobody holds tasksMutex_
  MaxTasks   \* bound: calls of push()

ASSUME WorkerAssumption ==
  /\ Workers # {} /\ Free \notin Workers
  /\ MaxTasks \in Nat

VARIABLES
  running,   \* running_
  tasks,     \* tasks_
  holder,    \* the owner of tasksMutex_
  at,        \* control point of each worker
  held,      \* the task each worker has taken, 0 for none
  ran,       \* history: tasks that have been called
  pushed,    \* number of calls of push(): the n-th one pushes task n
  notifies,  \* calls of push() that have not done notify_one() yet
  dtor       \* progress of ~ThreadPool

vars == <<running, tasks, holder, at, held, ran, pushed, notifies, dtor>>

Tasks == 1 .. MaxTasks
Garbage == MaxTasks + 1   \* what front() of an empty queue yields

Goto(w, point) == at' = [at EXCEPT ![w] = point]
-----------------------------------------------------------------------------
(* push(): the task is added under the lock, notify_one() follows.         *)
Push ==
  /\ dtor = "alive" /\ holder = Free /\ pushed < MaxTasks
  /\ tasks' = Append(tasks, pushed + 1)
  /\ pushed' = pushed + 1
  /\ notifies' = notifies + 1
  /\ UNCHANGED <<running, holder, at, held, ran, dtor>>

Blocked == {w \in Workers : at[w] = "blocked"}

(* Fault: push() does not notify.                                          *)
NotifyForgotten ==
  /\ notifies > 0
  /\ notifies' = notifies - 1
  /\ UNCHANGED <<running, tasks, holder, at, held, ran, pushed, dtor>>

NotifyOne ==
  /\ notifies > 0
  /\ notifies' = notifies - 1
  /\ \/ Blocked = {} /\ UNCHANGED at
     \/ \E w \in Blocked : Goto(w, "relock")
  /\ UNCHANGED <<running, tasks, holder, held, ran, pushed, dtor>>
-----------------------------------------------------------------------------
(* ~ThreadPool, which runs once no call of push() is under way.  The flag  *)
(* is not stored under the mutex.                                          *)
StoreRunning ==
  /\ dtor = "alive" /\ notifies = 0
  /\ running' = FALSE
  /\ dtor' = "stored"
  /\ UNCHANGED <<tasks, holder, at, held, ran, pushed, notifies>>

NotifyAll ==
  /\ dtor = "stored"
  /\ at' = [w \in Workers |-> IF w \in Blocked THEN "relock" ELSE at[w]]
  /\ dtor' = "joining"
  /\ UNCHANGED <<running, tasks, holder, held, ran, pushed, notifies>>

Join ==
  /\ dtor = "joining"
  /\ \A w \in Workers : at[w] = "exited"
  /\ dtor' = "gone"
  /\ UNCHANGED <<running, tasks, holder, at, held, ran, pushed, notifies>>
-----------------------------------------------------------------------------
(* workerFunc: while (running_.load()).                                    *)
Top(w) ==
  /\ at[w] = "top"
  /\ Goto(w, IF running THEN "lock" ELSE "exited")
  /\ UNCHANGED <<running, tasks, holder, held, ran, pushed, notifies, dtor>>

(* std::unique_lock, and the lock taken when wait() returns.  Faults:  *)
(* there is no mutex; the predicate is not evaluated after a wakeup.       *)
LockWithoutMutex(w) ==
  /\ at[w] \in {"lock", "relock"}
  /\ Goto(w, "test")
  /\ UNCHANGED <<running, tasks, holder, held, ran, pushed, notifies, dtor>>

LockSkipsTest(w) ==
  /\ at[w] \in {"lock", "relock"}
  /\ holder = Free
  /\ holder' = w
  /\ Goto(w, IF at[w] = "lock" THEN "test" ELSE "decide")
  /\ UNCHANGED <<running, tasks, held, ran, pushed, notifies, dtor>>

Lock(w) ==
  /\ at[w] \in {"lock", "relock"}
  /\ holder = Free
  /\ holder' = w
  /\ Goto(w, "test")
  /\ UNCHANGED <<running, tasks, held, ran, pushed, notifies, dtor>>

(* The predicate of wait().  The faulty one does not look at running_.     *)
TestIgnoresStop(w) ==
  /\ at[w] = "test"
  /\ Goto(w, IF tasks # <<>> THEN "decide" ELSE "block")
  /\ UNCHANGED <<running, tasks, holder, held, ran, pushed, notifies, dtor>>

Test(w) ==
  /\ at[w] = "test"
  /\ Goto(w, IF tasks # <<>> \/ ~running THEN "decide" ELSE "block")
  /\ UNCHANGED <<running, tasks, holder, held, ran, pushed, notifies, dtor>>

(* The worker gives up the mutex and blocks, in one step.                  *)
Block(w) ==
  /\ at[w] = "block"
  /\ holder' = Free
  /\ Goto(w, "blocked")
  /\ UNCHANGED <<running, tasks, held, ran, pushed, notifies, dtor>>

(* A condition variable may wake up without notification.                  *)
WakeSpuriously(w) ==
  /\ at[w] = "blocked"
  /\ Goto(w, "relock")
  /\ UNCHANGED <<running, tasks, holder, held, ran, pushed, notifies, dtor>>

(* if (running_.load()), else the lock goes out of scope.                  *)
Decide(w) ==
  /\ at[w] = "decide"
  /\ \/ running /\ Goto(w, "front") /\ UNCHANGED holder
     \/ ~running /\ Goto(w, "top") /\ holder' = Free
  /\ UNCHANGED <<running, tasks, held, ran, pushed, notifies, dtor>>

(* tasks_.front(), tasks_.pop() and lock.unlock(), task().                 *)
Front(w) ==
  /\ at[w] = "front"
  /\ held' = [held EXCEPT ![w] = IF tasks = <<>> THEN Garbage ELSE Head(tasks)]
  /\ Goto(w, "pop")
  /\ UNCHANGED <<running, tasks, holder, ran, pushed, notifies, dtor>>

Pop(w) ==
  /\ at[w] = "pop"
  /\ tasks' = SubSeq(tasks, 2, Len(tasks))
  /\ holder' = Free
  /\ Goto(w, "run")
  /\ UNCHANGED <<running, held, ran, pushed, notifies, dtor>>

RunTask(w) ==
  /\ at[w] = "run"
  /\ ran' = ran \cup {held[w]}
  /\ held' = [held EXCEPT ![w] = 0]
  /\ Goto(w, "top")
  /\ UNCHANGED <<running, tasks, holder, pushed, notifies, dtor>>
-----------------------------------------------------------------------------
Init ==
  /\ running = TRUE
  /\ tasks = <<>>
  /\ holder = Free
  /\ at = [w \in Workers |-> "top"]
  /\ held = [w \in Workers |-> 0]
  /\ ran = {}
  /\ pushed = 0 /\ notifies = 0
  /\ dtor = "alive"

workerFunc(w) ==
  \/ Top(w) \/ Lock(w) \/ Test(w) \/ Block(w)
  \/ Decide(w) \/ Front(w) \/ Pop(w) \/ RunTask(w)

Next ==
  \/ Push \/ NotifyOne
  \/ StoreRunning \/ NotifyAll \/ Join
  \/ \E w \in Workers : workerFunc(w) \/ WakeSpuriously(w)

Spec == Init /\ [][Next]_vars

(* Threads that can take a step do so, also when they have to compete for  *)
(* the mutex; tasks come to an end.  Spurious wakeups may never happen.    *)
FairSpec ==
  /\ Spec
  /\ WF_vars(NotifyOne) /\ WF_vars(NotifyAll) /\ WF_vars(Join)
  /\ \A w \in Workers : WF_vars(workerFunc(w)) /\ SF_vars(Lock(w))
-----------------------------------------------------------------------------
Points == {"top", "lock", "test", "block", "blocked", "relock", "decide", "front",
           "pop", "run", "exited"}

(* The types; no worker takes the front of an empty queue, although        *)
(* running_ changes outside of the mutex and condition variables wake up   *)
(* for no reason.                                                          *)
TypeOK ==
  /\ running \in BOOLEAN
  /\ tasks \in Seq(Tasks)
  /\ holder \in Workers \cup {Free}
  /\ at \in [Workers -> Points]
  /\ held \in [Workers -> 0 .. MaxTasks]
  /\ ran \subseteq Tasks
  /\ pushed \in 0 .. MaxTasks /\ notifies \in 0 .. MaxTasks
  /\ dtor \in {"alive", "stored", "joining", "gone"}

(* A task that was pushed is in the queue, or taken by one worker, or has  *)
(* been called: it is never lost (other than in the queue of a destroyed   *)
(* pool), and never called by two workers.                                 *)
TaskRunsOnce ==
  \A t \in 1 .. pushed :
    Cardinality({i \in DOMAIN tasks : tasks[i] = t})
      + Cardinality({w \in Workers : at[w] = "run" /\ held[w] = t})
      + Cardinality({t} \cap ran) = 1

(* ~ThreadPool returns: the predicate of wait() is meant to let every      *)
(* worker see that running_ is false.                                      *)
DestructorReturns == dtor # "alive" ~> dtor = "gone"
=============================================================================
