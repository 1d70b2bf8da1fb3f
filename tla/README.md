# A TLA+ model of aiopp

aiopp is a C++20 library for asynchronous I/O on Linux: an event loop over
io_uring, coroutines on top of it, and helpers (futures, a thread pool, a
channel, containers). This directory holds TLA+ modules translated from its
source, the TLC configurations that check them on small instances, and proofs
that TLAPS checks for every instance. `PROJECT.json` lists every run, its
mutants, the source lines behind every definition, the hazards of the code and
the findings.

## 1. Inventory

| Component | State | Operations | What is hard |
|---|---|---|---|
| `CompleterMap` (completermap) | table of key and pointer, size | insert, get, remove | tombstones, full table, wrap-around of probes |
| `IoQueue`, `OperationHandle`, `OperationAwaiter` (ioqueue) | next operation id; awaiters in coroutine frames | issue, await, timeout, cancel, destroy an awaiter | raw pointers from the map into frames, id reuse, cancel racing completion |
| `IoQueueImpl` (ioqueue_impl_iouring) | ring, map, `lastSqe_` | finalizeSqe, linkTimeout, cancel, run | `lastSqe_` going stale, partial submission, linking |
| `IoURing` (iouring) | the ring and its parameters | prepare*, submitSqes, peekCqe, advanceCq | full submission queue |
| `BasicCoroutine`, `Task` | frame, continuation | start, suspend, finish, destroy | lazy start, ownership |
| `WaitAll`, `WaitAny` (wait) | pending count, result, continuation | add, await, complete | late completions, lifetime of the waiter |
| `MpscQueue` | linked list with a stub node | produce, consume | lock-free interleavings, address reuse |
| `ThreadPool` | flag, task queue, threads | push, submit, workerFunc, destructor | lost wakeup at destruction |
| `Future`, `Promise`, `IoQueue::wait` | value, condition variable, eventfd | set, get, ready, wait | test and read racing set |
| `EventFd`, `Channel` | counter, message queue | read, write, send, receive | tokens and messages out of step |
| `SlotMap`, `VectorMap` | storage, occupied flags, free list | insert, remove, resize | indices lost, unoccupied slots moved |
| `Fd`, `Pipe` | a descriptor | move, reset, release, close | double close, leak |
| proxy example (`examples/proxy-coro.cpp`) | two sockets per client, shared by two coroutines | accept, connect, echo, close | who closes what when, partial sends, waking the other direction |
| `Socket`, `net`, `Function`, `Result`, `log`, `util` | none of interest | system calls, values, text | – |

How they interact. User code runs on one thread, as `main()` before `run()` or
inside a coroutine that `run()` resumed. It issues operations (an entry in the
submission queue with a fresh id) and awaits their handles, which stores a
pointer to the awaiter in `completers_` under that id. `run()` submits the
queue, waits for a completion, removes the completer with its id from the map
and resumes the coroutine it points to; that coroutine can issue, await, cancel
and destroy anything before control returns to the loop. The kernel completes
operations in any order at any time. Threads (`ThreadPool`, senders of a
`Channel`) reach the loop only through an eventfd that the loop reads.

What makes each part correct: the map returns what was inserted and nothing
else; completers and coroutine frames stay in step; a coroutine is resumed
exactly by the completion it waits for, never after it was cancelled; no
completion is lost; a timeout applies to its own operation; queues deliver every
element once and in order; destructors terminate.

## 2. Plan

Order, most important first; the modules marked with a tick exist.

1. ✓ `CompleterMap` with `AbstractMap`, proofs in `CompleterMapProofs`.
2. ✓ `IoQueue`, proofs in `IoQueueProofs` (the map appears as its abstraction).
3. ✓ `MpscQueue` with `FifoQueue`: a lock-free list that implements a FIFO.
4. ✓ `ThreadPool`: workers, condition variable, destructor.
5. ✓ `Future` with `submit` and `IoQueue::wait`: promise set by a pool thread, awaited
   through an `EventFd` or a condition variable. Extends `ThreadPool`.
6. ✓ `Channel` with the semaphore `EventFd`.
7. ✓ `Wait`: `WaitAll`, `WaitAny`, the continuations and lifetimes of frames.
8. ✓ `SlotMap` over `VectorMap`, with `IndexStore`.
9. ✓ `Proxy`: a program over `Fd`, `Task`, `WaitAll` and the operations of the queue.

Every safety property that a run checks, invariants, action properties and
refinements, is also proved, in a module `...Proofs` beside each component
(`FutureProofs` covers `ThreadPool` and `Future`). What is left is liveness, which
stays with TLC, and the parts of section 7.

## 3. Modules

### AbstractMap, CompleterMap

`AbstractMap` is the promise: a partial map from ids to pointers with a size and
a capacity; insert aborts exactly when it is full. `CompleterMap` is the table.
`entries`, `size` are the members of the class, `ret` is the pointer the last
`get` or `remove` returned, `aborted` says that an assertion or `std::abort()`
ended the process. Each loop over `i` in the code becomes the set of iterations
at which it stops (`FreeProbes`, `StopProbes`) and the least one of them
(`First`). `hash` is a constant function, so everything holds for any hash;
`probe` keeps the 64-bit wrap-around of `key + i * h` (`WordSize`). `MayInsert`
is the contract stated in the header: a key that is stored is not inserted
again. IoQueue relies on it, too.

### IoQueue

One module, because the parts share all of their state: ids (`nextOpId`), the
submission queue (`sqe`, `linked`, `phase`), the completion queue (`cq`),
`lastSqe`, `completers`, and the coroutines (`cstate`, `awaits`, `stack`). Entries
are numbered in the order they were prepared, so that the module can talk about
an operation after its slot was reused; a handle is the number of its entry and
its id is `sqe[n].id`. `phase` says where an entry is: queued, with the kernel,
posted to the completion queue, or done. `stack` is the stack of coroutines: the
loop resumes one, which can start others; an action of user code belongs to the
topmost one, or to `main()` while `pc = "main"`. An assertion that fails sets
`aborted`, after which nothing happens.

* User code: `Issue`, `IssueFull`, `Await`, `IssueAndAwait`, `IssueAndAwaitFull`,
  `Timeout`, `TimeoutNotLast`, `TimeoutFull`, `TimePointAborts`, `Cancel`,
  `Start`, `Finish`, `Destroy`. Each is a whole call of the API including the
  coroutine switch it ends in.
* The loop, one action per step of `run()`: `Run`, `Check`, `Submit`, `Continue`,
  `Skip`, `Dispatch`, `Advance`.
* The kernel (external): `Complete`, `Expire`, `TimeoutEnds`, `CancelHits`,
  `CancelEnds`, all through `Post`.

`disabled` and `late` are history variables for the properties: handles given to
`cancel(_, true)`, and handles awaited although no completion can come any more.

Assumptions about the kernel: a partial submission never splits a link and
returns without waiting; the order in which a cancellation and its target post
their completions is arbitrary; the completion queue does not overflow
(`init` insists on NODROP). An interrupted wait returns an error and `run()`
starts over. User code is taken to be arbitrary except that it does not await
a handle that already has a completer (the contract of `insert`). In particular it
may give any handle to `timeout` and `cancel`, also one that `cancel` returned. Such a
handle has the id `OpIdIgnore`, as have all cancellations and linked timeouts:
`linkTimeout` then takes whichever of them is the last entry for it, and a cancellation
of it may hit any of them (`mayLink` and `CancelHits` compare ids, as the code and the
kernel do).

### FifoQueue, MpscQueue

`FifoQueue` is a sequence of values; `consume` takes the head or nothing.
`MpscQueue` is the linked list: `next`, `value` and `allocated` are the heap,
`consumeEnd` and `produceEnd` the members, `pat`/`pnode`/`pprev` the producers in
the middle of `produce`, `cat`/`cnode`/`cprev` the consumer in the middle of
`consume`. Each access to an atomic that another thread writes is a step of its
own; `consumeEnd_`, which only the consumer uses, needs none. `Produce` takes any
free address, so addresses come back as they do from `new`. `order` is a history
variable: the nodes from `consumeEnd` on in the order of the exchanges, from which
the refinement reads the abstract queue (`queueBar`). A value is in the queue once
its producer has exchanged `produceEnd_`, even if it is not linked yet. `raced` says that a
producer made its link while the current call of `consume()` was under way.

### ThreadPool

`running`, `tasks` and `holder` (the mutex) are the members; `at` and `held` are the
workers, `notifies` the calls of `push` between unlock and `notify_one`, `dtor` the
progress of the destructor. The steps of `workerFunc` are the accesses to the flag,
which is not protected by the mutex, and the steps of the lock, the wait and the
queue. `cv.wait(lock, predicate)` is `Test`, `Block` (atomically gives up the mutex)
and `Lock` again; between `Test` and `Block` the worker holds the mutex, which stops
`push` but not the destructor. Spurious wakeups are an action without fairness.
`front()` of an empty queue is undefined and yields `Garbage`, which the type
invariant excludes. No call of `push` overlaps the destructor, as for any C++ object.

### EventFd, Future

`EventFd` has the operators of the kernel counter. `Future` extends `ThreadPool` with
what runs in a task pushed by `submit()`: `CallFunc`, then `Promise::set` as `Store`
(under the mutex of the shared state), `Notify` and `Write` (the eventfd), then
`TaskReturns`. A future of the set `ValueTasks` has a value; for a void one the
function is never called and the eventfd never written, as in the code. The user of
a future is `IoQueue::wait` (`Wait`, then `Read` of the eventfd if the value was not
ready, then `Get`) or a thread in `Future::get` (`CallGet`, `Get`, `WakeGet`).

### Channel

`send()` is two steps, `Push` under the lock and `Write` of a token; `receive()`
suspends in a read of the eventfd (`Receive`), which the kernel completes with a token
(`KernelRead`) or without one (`KernelFails`), and goes on with `Pop` or `ReadFails`.
A receiver may be destroyed at any moment (`Destroy`); its read then ends, with or
without a token, and `run()` finds no completer (`Skip`). `lost` counts the tokens
read for nobody, which is how many messages can be stranded in the queue.

### Wait

One coroutine, the parent, uses one waiter. `kind` selects the class. `Add` and
`AddReady` are `add()` of a task that suspends or that is over at once; `Await` and
`AwaitReady` are `co_await`; `Complete` is the end of a child on the event loop, with
`awaitableCompleted()` and the resumption of the parent. The parent may await something
else, leave the scope of the waiter, finish or be destroyed; children that were added by
reference may be destroyed by their owner, those that were moved live in their wrapper.
Undefined behaviour stops the model and is named in `fault`: `misresumed` (the parent is
resumed at another suspension point or while it runs), `useAfterFree` (the waiter is gone)
and `closure`: the wrapper's `this` is read from a closure that no longer exists, which may
or may not still be intact. The properties say under which use the first two cannot happen.

### IndexStore, SlotMap

`IndexStore` is the promise: a value stays under its index until it is removed.
`SlotMap` has the members of both classes. A slot without a value is `Raw`;
`VectorMap::resize` moves all slots and `rawMoved` records that a raw one was among them.
For a `T` that is not trivial that is undefined behaviour and ends the execution (`defined`);
for a trivial one bytes are copied and it goes on. Whether `T` is trivial (`trivial`) is chosen
at the start.
`VectorMap(n)` leaves `size_` at 0, as the constructor does, so that the first insert
replaces the storage by a block of one slot.

### Proxy

The example program is the composition of the library's parts that is easiest to get
wrong. `table` maps descriptor numbers to files, `fd` holds the two `Fd`s in the frame of
`handleClient`, `co` says for `handleClient` and the two `echo`s where they are and which
operation they await. An operation has the number its `Fd` held when it was issued; the
kernel takes operations in order (`Take`), executes them at any later time, and the
coroutine goes on after that. A number freed by `close` may be reused at once
(`OtherOpens`). The actions of `echo` follow its `co_await`s one by one. `pending` is the
count of the `WaitAll` that `handleClient` awaits: `startAwaitable` for each echo that it
starts, minus one in `awaitableCompleted` when an echo ends (`EchoEnds`), which resumes
`handleClient` at zero. The rest of `WaitAll` is in module `Wait`; that its wrappers read a
closure that is gone (section 5) is taken to do no harm here. After the end of one client the
next one is accepted, so the model has no bound on the number of clients.

Left out: an operation that the submission queue refuses because it is full. Its handle is
invalid, and the `co_await` of it aborts the process (`assert(*this)`, ioqueue.hpp:98), so
what is said of the proxy, `OneEndEndsBoth` included, is about executions in which the queue
(1024 entries by default) never fills up. A failed `accept` is logged and tried again, which changes
nothing in this model.

## 4. Runs

| Run | Bounds | Shows |
|---|---|---|
| map_table | 3 entries, 5 keys (0, 3, 6 and 1, 4 share their first entry), 2 values | types, every live key is found, exact size, refinement of AbstractMap, also when the table is full of live entries and tombstones and insert aborts |
| ioqueue_safety | 2 coroutines, queue and map of 2, 8 ids starting at 5, 6 calls | all safety properties of IoQueue, with ids that wrap around and skip the two magic ones |
| ioqueue_liveness | as above, 5 calls, fairness | completions are delivered; a timeout ends the wait |
| ioqueue_map_full | 3 coroutines, queue and map of 2, 7 calls | the map overflows with three operations under way (finding) |
| mpsc_queue | 2 producers, 3 addresses, 4 values, fairness | the list is a FIFO, no use after free, nothing is missed without reason, every value is consumed |
| pool_futures | 2 workers, 2 tasks, one with a value, fairness | every task is called once at most and not lost, no front of an empty queue, every task is called, the end of the pool reaches workers, `wait()` never blocks the loop, whoever waits for a future is answered |
| pool_destructor | 2 workers, 1 task, fairness | the destructor may hang (finding) |
| channel | 3 messages, 3 receives, fairness | pop() always finds a message, tokens and messages in step, a message does not wait beside a receiver |
| wait | 3 children, both classes, fairness | the promises of co_await, no stale resumption, no use of a waiter that is gone, the wait ends |
| wait_closure | 2 children | a wrapper reads a destroyed closure (finding) |
| slotmap | 6 slots, 2 values | fresh indices, growth moves no raw slot, refinement of IndexStore |
| proxy | 3 descriptor numbers, buffers of up to 2 bytes, fairness | no foreign descriptor, everything forwarded, nothing leaked, one end ends both |

Bounds. Table sizes are small primes instead of 53, 97, ...; three entries
are enough for probe sequences of different steps to cross, for a tombstone
between two live entries, and for a full table; every other size is covered by
the proofs. Two coroutines suffice for one to
cancel, destroy or outrun the other; six calls allow, for instance, start, issue,
await, a second start, cancel and a timeout, with the submission queue of two
entries full on the way; also two cancellations and a timeout for the handle of the first,
which falls on the second. The id space is larger than the number of calls, because reuse of an id
that is still outstanding needs 2^64 operations (`IoQueueProofs!IdsSuffice`); the queue
starts as one that has been used before (`FirstId`), so that the ids wrap around within the run. Coroutines are
interchangeable, so the safety runs of IoQueue use symmetry; runs with liveness
properties do not. Keys so large that a probe sequence wraps around the word are left
to the theorem `LiveKeysAreFound`, which holds for every word size; with them the
refinement does not hold, since such a sequence may miss free entries and insert may
abort before the map is full (it takes an id close to 2^64).

Two producers and three addresses let a producer be held up between exchange and
link while the other goes on, and let an address be freed and handed out again. Four
values empty the list and put the stub back more than once.

Two workers and two tasks, one with a value and one without, let one worker sleep, or be
between its test and its wait, while the other runs a task. Three receives are a
destroyed one that takes a token, a waiting one and a late one. Three children of a
waiter are one that is ready, one that completes and one that completes too late. Six
slots let the storage grow three times and be resized with slots in use, removed and
never used. Three descriptor numbers are the two of the connection and one more.

Deadlock is not checked in the runs of the map, IoQueue, Future, Channel, Wait and
SlotMap: an abort ends the process, the calls are bounded, and a pool ends with its
destructor. It is checked for MpscQueue and Proxy.

Fairness (`IoQueue!Fairness`). Weak fairness of the steps of `run()`: it is a loop
without other blocking points. Strong fairness of submission: an error of
`io_uring_enter` is retried and not permanent. Weak fairness of `Finish`: a
coroutine that runs comes to an end or suspends. Weak fairness of `Expire`: an
armed timer fires. Nothing is assumed of an operation without timeout, and
nothing of user code beyond that. In `MpscQueue!FairSpec` the consumer keeps
calling `consume()` and a producer that has begun `produce()` finishes it. In
`ThreadPool!FairSpec` every thread goes on, tasks end, and a worker that competes for
the mutex gets it in the end (strong fairness of `Lock`). `FutureSpec` adds that a
read of an eventfd whose counter is positive completes and that the loop runs;
`Channel!Spec` and `Proxy!Spec` take the same from IoQueue (`CompletionIsDelivered`), and
in `Proxy` the kernel ends operations on a bad descriptor or on a socket that was shut down,
and `connect`, which has a timeout. Nothing is assumed of the peers: they may stay silent
for ever. In `Wait!Spec` children that are not destroyed complete.

## 5. Findings

* The map can overflow: an entry leaves the submission queue on submission, its
  completer stays until completion, and nothing bounds the operations under way
  (ioqueue_map_full). `MapNeverFull` is about programs that await only operations under
  way (`late` is empty), so that the completers in the trace are those of three operations
  none of which has completed; the third one was submitted to a queue that had room again.
* `~ThreadPool` can hang: it stores `running_` without the mutex, so a worker between
  the predicate and the wait misses `notify_all` (pool_destructor).
* The lambda coroutines of `WaitAll::add` and `WaitAny::add` capture `this` in a closure
  that is gone once `add()` returns; every child that completes later reads it
  (wait_closure). Passing `this` as a parameter of the lambda would copy it into the frame.

What the modules show of the code without a statement in the repository that it
contradicts:

* Wrappers that await the operation they issue (`timeout`, `recvfrom`, `sendto`,
  `connect(IpAddressPort)`, `EventFd::read`) abort when the submission queue is
  full, instead of returning an error (`IoQueue!IssueAndAwaitFull`).
* A timeout for a handle of `cancel()` may go to another entry: the assertion of `linkTimeout`
  compares ids, and cancellations and linked timeouts share `OpIdIgnore`. After `cancel(a)`
  and `cancel(b)`, the timeout for the handle of `cancel(a)` is linked to `cancel(b)`
  (`IoQueue!Timeout`). `TimeoutFollowsItsOperation` therefore claims a timeout's place only if
  it was issued for an operation or follows one: no operation is hit by a timeout that was
  not issued for it. The comment at ioqueue.hpp:191 speaks of "the passed operation".
* `submit()` of a function that returns void never calls it, and `Promise<void>::set` does
  not write the eventfd, so that `wait()` for such a future, unless it is ready, never ends
  (`Future!MaySet`, `Notify`; `WaitReturns` leaves out this case and holds otherwise).
* A message is stranded in a `Channel` for every receiver that is destroyed after its read
  has taken a token (`Channel!Skip`).
* `WaitAny` resumes its coroutine again for every further child, wherever it is by then, and
  a `WaitAll` that is used again after a suspending `co_await` does so as well
  (`Wait!NoStaleResume`). A `WaitAny` without children is never resumed.
* `SlotMap::resize` gives up the indices that were never handed out and moves raw slots.
* A destroyed frame cancels its operation asynchronously, or not at all if the submission
  queue is full; until then the kernel may use the buffer, the `msghdr` or the `Timespec`
  in that frame.
* In the proxy, `serve` keeps a reference to a local variable of the loop in `main` that is
  gone when `run()` is called.

Two observations on comments rather than on what the code does. completermap.hpp says
"A lookup should never miss. We will always hit"; lookups do miss, for operations
nobody awaits and for those whose handler was cancelled, and `run()` skips them
(`Skip`). And mpscqueue.hpp
says of the test `node != produceEnd_.load()` that it could be left out and the queue
"would still work correctly". The mutant `CheckLeftOut` shows that it would not: the
consumer can push `stub_` while `stub_` is the last node, linking it to itself, and
then delete it.

## 6. Proofs

`CompleterMapProofs` proves, for every table size, hash function, word size and
set of keys: the inductive invariant `Inv` (`InvHolds`), and from it that every
live key is found (`LiveKeysAreFound`), that `size` is exact (`SizeIsExact`) and
that the table implements `AbstractMap` (`RefinesAbstractMap`). "Every live key
is found" is not inductive: a removal might break the probe sequence of another
key. `ProbePathsIntact` says why it cannot: an entry before a live one on its
probe sequence is never Empty again, since removal leaves a tombstone; and
`KeysUnique` makes the entry a lookup stops at the right one. The refinement
assumes `ProbesCover`, that probe sequences visit the whole table; that a prime
size without wrap-around implies it is number theory left to TLC, which
evaluates the implication on every run (`MCCompleterMap`).

`IoQueueProofs` proves, for every number of coroutines and calls and every size
of queue, map and id space, three invariants, each on top of the one before.

* `IInv`, with ids reused in any way: types (`TypeCorrect`) and `NoDangling`, that a
  completer in the map always points to a suspended frame that awaits an operation with
  that id, so `complete()` never touches a destroyed or running coroutine. The
  strengthening adds that a suspended coroutine has an operation for its awaiter's
  destructor to cancel (otherwise destroying it could leave a completer), that running
  coroutines are exactly distinct entries of the stack, and that the completion being
  dispatched is still queued.
* `RingInv`, also with ids reused in any way. `LastSqeIsQueued` is not inductive: it
  takes that `run()` submits only with `lastSqe_` reset (`SubmitHasReset`), that nobody
  issues anything between the reset and the submission (`LoopIsAlone`), and that the
  entries in the completion queue are distinct and posted (`CqIsPosted`), so that marking
  the first of them as done touches no queued entry. With `MagicIsNotIssued`, no operation
  has the id `OpIdIgnore`, it also gives `AwaitedIsNotSkipped`: `run()` drops no
  completion that a coroutine awaits.
* `OpInv`, under the hypothesis `IdsSuffice`: the calls are at most `OpIdInvalid`, which is
  2^64 - 2, many. The theorems about it have this hypothesis because they are false
  without it: once an id of operations is used twice, `linkTimeout`, which compares ids, links
  to the wrong operation, and a completion resumes whoever stored a completer under its id. `IdsAreCounted`
  counts the ids in use past the wrap from the last id to 0, which makes the next one fresh
  and the ids of operations unique. From it follow `TimeoutFollowsItsOperation` (through
  `LinksInv`, which adds that both the entry before a timeout and its target exist), `ResumedByOwnOperation`, `NotCalledAfterCancel` (through `DisabledIsRemoved`: a cancelled
  operation has no completer until it is awaited again) and `NoLostCompletion` (through
  `AwaitedCancelIsLate`: only handles of `cancel()` are awaited under `OpIdIgnore`).
  The run ioqueue_safety satisfies `IdsSuffice` with equality.

There is a lemma per action or per kind of action.

`MpscQueueProofs`, for any number of producers, addresses and values. The invariant says
what the half-finished calls have in hand: each producer owns its node
(`NodesAreOwn`), which is outside of the list until the exchange (`NewNodesAreOutside`);
after it the only missing links are those that a producer or the consumer is about to make,
each the one between two neighbours of `order` (`LinksAreMissing`, `ListIsLinked`); the
consumer works on the first node and pushes the stub only while it is outside
(`ConsumerAtFirst`). From it: no use after free (`NodesAreAlive`), the list is the order of
the exchanges (`ListKeepsOrder`), every step maps to a step of `FifoQueue` or to none
(`QueueIsFifo`), and an empty-handed `consume()` had a reason (`NothingIsMissed`, with
`RaceIsSeen`).

`FutureProofs`, for any number of workers and tasks. `PoolInv` is about the pool:
what the predicate of the wait has seen stays true until the worker has taken its task,
although `running_` is written without the mutex, because it never becomes true again
(`FrontExists`); a task is in one place (`QueueIsDistinct`, `RunningIsDistinct`,
`NothingIsLost`). `FutureInv` adds that the steps of `Promise::set` have happened in their
order (`SetInOrder`) and that `IoQueue::wait` gets to `get()` only with a value
(`WaitFindsValue`). Results: `FutureTypeCorrect`, `TasksRunOnce`, `LoopIsNotBlocked`, and
`FutureImplementsPool`, that pool and futures together are a behaviour of `ThreadPool`.

`ChannelProofs`, for any number of messages and receivers: tokens and messages in step
(`TokensAreExact`) and the assertion of `pop()` (`PopFindsMessage`). Each message is
counted against the token in the counter, in a completed read, about to be written, or
lost with a destroyed receiver.

`WaitProofs`, for any number of children and both classes: what `co_await` promises
(`AwaitIsHonest`), no stale resumption (`ResumesAreNotStale`) and no use of a waiter that is
gone (`WaiterMayGo`), from `PendingIsExact`, `CompletedIsFirst` and `ContinuationIsUsed`: a
waiter that has a continuation but does not suspend it is ready, so that no child is left to
resume it.

`SlotMapProofs`, for any values and size: `IndexIsFresh`, `NoRawIsMoved` and the refinement of
`IndexStore`. The free list holds distinct unoccupied indices below `nextIndex`
(`FreeListIsFree`), and unless `resize()` was called every index below `nextIndex` is in
use or in the free list (`NothingIsSkipped`), which is why growth, which happens only with
an empty free list, finds no raw slot. For a `T` that is not trivial the results reach up to
the first raw slot that is moved.

`ProxyProofs`, for any descriptor numbers and any number of bytes. That no operation
reaches a foreign descriptor (`OperationsHitOwnSockets`) rests on ownership: a number of the
connection is held by one `Fd` or by one `close` under way (`HeldOnce`, `HeldIsOpen`,
`OpenIsHeld`), and an operation in the submission queue whose number has been released is
before the `close` of that number (`QueuedIsHeld`). Further: `EchoForwardsAll` (the bytes an
echo owes are those it is about to send), `FrameGoesLast` (through `PendingFits`: while
`handleClient` waits, `pending` is the number of echoes that have not ended, so it reaches
zero with the last of them and with no other), and `SocketsClosedFirst` as an action property.

All these invariants were checked with TLC on small instances before they were proved.

Only model-checked: the liveness properties (`CompletionIsDelivered`, `TimeoutEndsWait`,
`EveryValueConsumed`, `EveryTaskRuns`, `StopReachesWorkers`, `WaitReturns`,
`MessageMeetsReceiver`, `WaitEnds`, `OneEndEndsBoth`), since fairness and ENABLED are out of
the prover's reach; that a prime table size makes probe sequences cover the table; and
the three runs that show a violation.

## 7. Not modelled

Values of results (`IoResult`, error codes), SQPOLL, EBUSY on overflow of the
completion queue, the destructor of an `IoQueue` with operations under way, the
lifetime of buffers the kernel writes to, the arithmetic of `setTimespec`, a task that
is awaited twice, copies and the destructor of `SlotMap`, move assignment of `Fd`, `Pipe`,
and the overload of `Channel::receive` that takes a callback, which calls a function that
`EventFd` does not have. `Socket` (but for `createSocket`), `net`, `Function`, `Result`, `log`
and `util` are system-call wrappers, value types and formatting without a protocol of
their own. The other examples use the same operations as the proxy, with less to go wrong.
