------------------------------- MODULE Future -------------------------------
(***************************************************************************)
(* Future, Promise, ThreadPool::submit and IoQueue::wait: a function runs  *)
(* on a thread of the pool and its result is awaited, by a coroutine       *)
(* through an eventfd (wait) or by a thread through a condition variable   *)
(* (get) (src/include/aiopp/future.hpp, threadpool.hpp, ioqueue.hpp).      *)
(*                                                                         *)
(* The module extends ThreadPool: task t is the lambda of submit(), which  *)
(* sets the promise of future t.  The sections under the mutex of the      *)
(* shared state are single steps.  Of IoQueue the module uses what it      *)
(* promises: a read that completes resumes the coroutine that awaits it    *)
(* (IoQueue!CompletionIsDelivered).                                        *)
(***************************************************************************)
EXTENDS ThreadPool, EventFd

CONSTANT ValueTasks   \* the tasks whose function returns a value, not void

ASSUME ValueAssumption == ValueTasks \subseteq 1 .. MaxTasks

VARIABLES
  body,      \* progress of the lambda of submit(), and of Promise::set in it
  stored,    \* SharedState::value.has_value(), SharedState<void>::ready
  counter,   \* SharedBase::eventFd
  use,       \* how each future is used: by IoQueue::wait or Future::get
  consumer,  \* control point of its user
  aborted    \* an assertion or std::abort() has ended the process

poolVars == vars
futureVars == <<body, stored, counter, use, consumer, aborted>>
allVars == <<poolVars, futureVars>>

Futures == 1 .. pushed
At(t, point) == ~aborted /\ consumer[t] = point
ConsumerTo(t, point) == consumer' = [consumer EXCEPT ![t] = point]
BodyTo(t, point) == body' = [body EXCEPT ![t] = point]
-----------------------------------------------------------------------------
(* submit(): a promise and its future, and push() of the lambda.           *)
submit == ~aborted /\ Push /\ UNCHANGED futureVars

(* Worker w runs the lambda of future t.                                   *)
Runs(w, t) == ~aborted /\ at[w] = "run" /\ held[w] = t

(* promise.set(func()): the function is called first.  That of a void      *)
(* future is never called.                                                 *)
CallFunc(w, t) ==
  /\ Runs(w, t)
  /\ t \in ValueTasks /\ body[t] = "begin"
  /\ BodyTo(t, "set")
  /\ UNCHANGED <<poolVars, stored, counter, use, consumer, aborted>>

MaySet(t) == body[t] = (IF t \in ValueTasks THEN "set" ELSE "begin")

(* Fault: the eventfd is written before the value is stored.               *)
StoreLast(w, t) ==
  /\ Runs(w, t)
  /\ MaySet(t)
  /\ counter' = [counter EXCEPT ![t] = write(@, 1)]
  /\ BodyTo(t, "notify")
  /\ UNCHANGED <<poolVars, stored, use, consumer, aborted>>

(* Promise::set: the value under the lock, notify_all, the eventfd.        *)
(* Promise<void>::set ends with notify_all.                                *)
Store(w, t) ==
  /\ Runs(w, t)
  /\ MaySet(t) /\ ~stored[t]
  /\ stored' = [stored EXCEPT ![t] = TRUE]
  /\ BodyTo(t, "notify")
  /\ UNCHANGED <<poolVars, counter, use, consumer, aborted>>

Notify(w, t) ==
  /\ Runs(w, t)
  /\ body[t] = "notify"
  /\ BodyTo(t, IF t \in ValueTasks THEN "write" ELSE "end")
  /\ consumer' = [consumer EXCEPT ![t] = IF @ = "blocked" THEN "get" ELSE @]
  /\ UNCHANGED <<poolVars, stored, counter, use, aborted>>

(* Fault: the eventfd is not written.                                      *)
WriteForgotten(w, t) ==
  /\ Runs(w, t)
  /\ body[t] = "write"
  /\ BodyTo(t, "end")
  /\ UNCHANGED <<poolVars, stored, counter, use, consumer, aborted>>

Write(w, t) ==
  /\ Runs(w, t)
  /\ body[t] = "write"
  /\ counter' = [counter EXCEPT ![t] = write(@, 1)]
  /\ BodyTo(t, "end")
  /\ UNCHANGED <<poolVars, stored, use, consumer, aborted>>

(* The task returns to workerFunc.                                         *)
TaskReturns(w) ==
  /\ ~aborted
  /\ at[w] = "run" => body[held[w]] = "end"
  /\ RunTask(w)
  /\ UNCHANGED futureVars
-----------------------------------------------------------------------------
(* Future::ready.                                                          *)
ready(t) == stored[t]

(* A future has one user, since it can be moved but not copied.            *)
Unused(t) == At(t, "none") /\ t \in Futures

(* IoQueue::wait: get() if future.ready(), else co_await a read of the     *)
(* eventfd.                                                                *)
Wait(t) ==
  /\ Unused(t)
  /\ use' = [use EXCEPT ![t] = "wait"]
  /\ ConsumerTo(t, IF ready(t) THEN "get" ELSE "reading")
  /\ UNCHANGED <<poolVars, body, stored, counter, aborted>>

CallGet(t) ==
  /\ Unused(t)
  /\ use' = [use EXCEPT ![t] = "get"]
  /\ ConsumerTo(t, "get")
  /\ UNCHANGED <<poolVars, body, stored, counter, aborted>>

(* The read completes, wait() asserts that it read 1, and get().           *)
Read(t) ==
  /\ At(t, "reading") /\ readable(counter[t])
  /\ counter' = [counter EXCEPT ![t] = afterRead("None", @)]
  /\ ConsumerTo(t, "get")
  /\ aborted' = (buf("None", counter[t]) # 1)
  /\ UNCHANGED <<poolVars, body, stored, use>>

(* The read fails: std::abort().                                           *)
ReadFails(t) ==
  /\ At(t, "reading")
  /\ aborted' = TRUE
  /\ UNCHANGED <<poolVars, body, stored, counter, use, consumer>>

(* Future::get: returns, or blocks the calling thread until notified.      *)
Get(t) ==
  /\ At(t, "get")
  /\ ConsumerTo(t, IF stored[t] THEN "done" ELSE "blocked")
  /\ UNCHANGED <<poolVars, body, stored, counter, use, aborted>>

WakeGet(t) ==
  /\ At(t, "blocked")
  /\ ConsumerTo(t, "get")
  /\ UNCHANGED <<poolVars, body, stored, counter, use, aborted>>
-----------------------------------------------------------------------------
FutureInit ==
  /\ Init
  /\ body = [t \in Tasks |-> "begin"]
  /\ stored = [t \in Tasks |-> FALSE]
  /\ counter = [t \in Tasks |-> Zero]
  /\ use = [t \in Tasks |-> "none"]
  /\ consumer = [t \in Tasks |-> "none"]
  /\ aborted = FALSE

(* The steps of the pool other than push() and the end of a task.          *)
worker(w) ==
  \/ /\ ~aborted
     /\ Top(w) \/ Lock(w) \/ Test(w) \/ Block(w) \/ Decide(w) \/ Front(w) \/ Pop(w)
     /\ UNCHANGED futureVars
  \/ TaskReturns(w)
  \/ \E t \in Tasks :
       CallFunc(w, t) \/ Store(w, t) \/ Notify(w, t) \/ Write(w, t)

pool ==
  /\ ~aborted
  /\ NotifyOne \/ StoreRunning \/ NotifyAll \/ Join
       \/ \E w \in Workers : WakeSpuriously(w)
  /\ UNCHANGED futureVars

user(t) == Read(t) \/ Get(t)

FutureNext ==
  \/ submit
  \/ pool
  \/ \E w \in Workers : worker(w)
  \/ \E t \in Tasks :
       Wait(t) \/ CallGet(t) \/ user(t) \/ ReadFails(t) \/ WakeGet(t)

(* As in ThreadPool; functions return; a thread that uses a future goes on *)
(* and the loop runs.  A read completes once the counter is positive.      *)
FutureSpec ==
  /\ FutureInit /\ [][FutureNext]_allVars
  /\ WF_allVars(~aborted /\ NotifyOne /\ UNCHANGED futureVars)
  /\ WF_allVars(~aborted /\ (NotifyAll \/ Join) /\ UNCHANGED futureVars)
  /\ \A w \in Workers :
       /\ WF_allVars(worker(w))
       /\ SF_allVars(~aborted /\ Lock(w) /\ UNCHANGED futureVars)
  /\ \A t \in Tasks : WF_allVars(user(t))
-----------------------------------------------------------------------------
(* The types, those of the pool included: no worker takes the front of an  *)
(* empty queue, and the eventfd of a future never holds more than 1, as    *)
(* wait() asserts.                                                         *)
FutureTypeOK ==
  /\ TypeOK
  /\ body \in [Tasks -> {"begin", "set", "notify", "write", "end"}]
  /\ stored \in [Tasks -> BOOLEAN]
  /\ counter \in [Tasks -> {0, 1}]
  /\ use \in [Tasks -> {"none", "wait", "get"}]
  /\ consumer \in [Tasks -> {"none", "reading", "get", "blocked", "done"}]
  /\ aborted \in BOOLEAN

(* IoQueue::wait never blocks the thread of the event loop: whenever it    *)
(* calls get(), the value is there, whether it was found ready or the      *)
(* eventfd was read.                                                       *)
LoopNeverBlocks ==
  \A t \in Futures :
    use[t] = "wait" /\ consumer[t] \in {"get", "blocked"} => stored[t]

(* A task that was pushed is called, unless the pool is destroyed: no      *)
(* notification is lost between push() and a worker about to wait.         *)
EveryTaskRuns ==
  \A t \in Tasks : t <= pushed ~> t \in ran \/ ~running \/ aborted

(* Once ~ThreadPool has notified, and unless a worker was just between its *)
(* test of the predicate and the wait, the destructor returns.             *)
StopReachesWorkers ==
  (dtor = "joining" /\ \A w \in Workers : at[w] \notin {"block", "blocked"})
    ~> dtor = "gone" \/ aborted

(* The task is left in the queue of a pool that is being destroyed: the    *)
(* promise will be destroyed without a value.                              *)
Dropped(t) == ~running /\ \E i \in DOMAIN tasks : tasks[i] = t

(* Whoever waits for a future is answered, however the steps of set() and  *)
(* of the test and the read in wait() interleave, unless the pool drops    *)
(* the task.  Left out is wait() for a void future that was not ready:     *)
(* Promise<void>::set does not write the eventfd.                          *)
WaitReturns ==
  \A t \in Tasks :
    consumer[t] # "none" /\ (t \in ValueTasks \/ use[t] = "get")
      ~> consumer[t] = "done" \/ aborted \/ Dropped(t)
=============================================================================
