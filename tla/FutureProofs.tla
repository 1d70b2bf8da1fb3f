---------------------------- MODULE FutureProofs ----------------------------
(***************************************************************************)
(* Proofs about ThreadPool and Future for any set of workers and any       *)
(* number of tasks: no worker takes a task from an empty queue, every task *)
(* is in one place, and the event loop never blocks in Future::get.        *)
(***************************************************************************)
EXTENDS Future, TLAPS, FiniteSetTheorems, SequenceTheorems

(* The inductive invariant of the pool.                                    *)
Locked == {"test", "block", "decide", "front", "pop"}

MutexIsHeld == \A w \in Workers : holder = w <=> at[w] \in Locked

(* What the predicate of wait() has found stays true until the worker has  *)
(* taken its task, since running_ never becomes true again.                *)
FrontExists ==
  \A w \in Workers :
    (at[w] = "decide" /\ running) \/ at[w] \in {"front", "pop"} => Len(tasks) > 0

PopsItsFront == \A w \in Workers : at[w] = "pop" => held[w] = tasks[1]

InQueue(t) == \E i \in 1 .. Len(tasks) : tasks[i] = t
RunBy(w, t) == at[w] = "run" /\ held[w] = t

(* A task is in the queue, with a worker, or called, and in one place only.*)
QueueIsDistinct ==
  /\ \A i \in 1 .. Len(tasks) : tasks[i] \in 1 .. pushed /\ tasks[i] \notin ran
  /\ \A i, j \in 1 .. Len(tasks) : tasks[i] = tasks[j] => i = j

RunningIsDistinct ==
  /\ \A w \in Workers : at[w] = "run" =>
       held[w] \in 1 .. pushed /\ ~InQueue(held[w]) /\ held[w] \notin ran
  /\ \A v, w \in Workers :
       at[v] = "run" /\ at[w] = "run" /\ held[v] = held[w] => v = w

NothingIsLost ==
  \A t \in 1 .. pushed : InQueue(t) \/ t \in ran \/ \E w \in Workers : RunBy(w, t)

CountsAreBounded == ran \subseteq 1 .. pushed /\ notifies <= pushed

PoolInv ==
  /\ TypeOK
  /\ MutexIsHeld /\ FrontExists /\ PopsItsFront
  /\ QueueIsDistinct /\ RunningIsDistinct /\ NothingIsLost /\ CountsAreBounded

(* The inductive invariant of the futures.                                 *)
SetInOrder ==
  \A t \in Tasks :
    /\ body[t] \in {"begin", "set"} => ~stored[t] /\ counter[t] = 0
    /\ body[t] \in {"notify", "write"} => stored[t] /\ counter[t] = 0
    /\ body[t] = "end" => stored[t]

WaitFindsValue ==
  \A t \in Tasks :
    use[t] = "wait" /\ consumer[t] \in {"get", "blocked"} => stored[t]

FutureInv == PoolInv /\ FutureTypeOK /\ SetInOrder /\ WaitFindsValue
-----------------------------------------------------------------------------
LEMMA QueueFacts ==
  ASSUME TypeOK
  PROVE  /\ Len(tasks) \in Nat /\ DOMAIN tasks = 1 .. Len(tasks)
         /\ \A i \in 1 .. Len(tasks) : tasks[i] \in Tasks
         /\ tasks = <<>> <=> Len(tasks) = 0
<1>1. tasks \in Seq(Tasks)
  BY DEF TypeOK
<1>2. QED
  BY <1>1, LenProperties, ElementOfSeq, EmptySeq, SMT

LEMMA InitEstablishesPool ==
  ASSUME Init
  PROVE  PoolInv
<1>1. tasks \in Seq(Tasks) /\ Len(tasks) = 0
  BY EmptySeq, Zenon DEF Init
<1>2. 0 \in 0 .. MaxTasks
  BY WorkerAssumption, SMT
<1>3. TypeOK
  BY <1>1, <1>2, Zenon DEF Init, TypeOK, Points
<1>4. MutexIsHeld /\ FrontExists /\ PopsItsFront
  BY WorkerAssumption, SMT DEF Init, MutexIsHeld, FrontExists, PopsItsFront, Locked
<1>5. QueueIsDistinct /\ RunningIsDistinct /\ NothingIsLost /\ CountsAreBounded
  BY <1>1, SMT DEF Init, QueueIsDistinct, RunningIsDistinct, NothingIsLost,
     CountsAreBounded
<1>6. QED
  BY <1>3, <1>4, <1>5 DEF PoolInv

(* A step that leaves the queue and the workers that run a task alone.     *)
LEMMA PlacesKept ==
  ASSUME PoolInv, UNCHANGED <<tasks, ran, pushed>>,
         \A w \in Workers : at'[w] = "run" <=> at[w] = "run",
         \A w \in Workers : at[w] = "run" => held'[w] = held[w]
  PROVE  QueueIsDistinct' /\ RunningIsDistinct' /\ NothingIsLost'
<1>1. QueueIsDistinct'
  BY Zenon DEF PoolInv, QueueIsDistinct
<1>2. \A t : InQueue(t)' <=> InQueue(t)
  BY Zenon DEF InQueue
<1>3. RunningIsDistinct'
  BY <1>2, SMT DEF PoolInv, RunningIsDistinct
<1>4. \A w \in Workers, t \in 1 .. pushed : RunBy(w, t) => RunBy(w, t)'
  BY Zenon DEF RunBy
<1>5. NothingIsLost'
  BY <1>2, <1>4, Zenon DEF PoolInv, NothingIsLost
<1>6. QED
  BY <1>1, <1>3, <1>5

(* A step in which only worker w moves, other than to or from the places   *)
(* where it has a task in hand.                                            *)
LEMMA WalkKeeps ==
  ASSUME PoolInv, NEW w \in Workers, NEW point \in Points, Goto(w, point),
         at[w] \notin {"pop", "run"}, point \notin {"pop", "run"},
         holder' \in Workers \cup {Free},
         holder' = w <=> point \in Locked,
         \A v \in Workers \ {w} : holder' = v <=> holder = v,
         (point = "decide" /\ running) \/ point = "front" => Len(tasks) > 0,
         UNCHANGED <<running, tasks, held, ran, pushed, notifies, dtor>>
  PROVE  PoolInv'
<1>1. /\ TypeOK /\ at \in [Workers -> Points]
      /\ at' = [at EXCEPT ![w] = point]
  BY Zenon DEF PoolInv, TypeOK, Goto
<1>2. \A v \in Workers : at'[v] = IF v = w THEN point ELSE at[v]
  BY <1>1, Zenon
<1>3. at' \in [Workers -> Points]
  BY <1>1, Zenon
<1>4. TypeOK'
  BY <1>1, <1>3, Zenon DEF TypeOK
<1>5. MutexIsHeld'
  BY <1>2, SMT DEF PoolInv, MutexIsHeld
<1>6. FrontExists'
  BY <1>2, SMT DEF PoolInv, FrontExists
<1>7. PopsItsFront'
  BY <1>2, SMT DEF PoolInv, PopsItsFront
<1>8. QueueIsDistinct' /\ RunningIsDistinct' /\ NothingIsLost'
  <2>1. /\ \A v \in Workers : at'[v] = "run" <=> at[v] = "run"
        /\ \A v \in Workers : at[v] = "run" => held'[v] = held[v]
    BY <1>2, SMT
  <2>2. QED
    BY <2>1, PlacesKept, Zenon
<1>9. QED
  BY <1>4, <1>5, <1>6, <1>7, <1>8, Zenon DEF PoolInv, CountsAreBounded

LEMMA WorkerWalks ==
  ASSUME PoolInv, NEW w \in Workers,
         \/ Top(w) \/ Lock(w) \/ Test(w) \/ Block(w) \/ Decide(w) \/ WakeSpuriously(w)
  PROVE  PoolInv'
<1>0. /\ TypeOK /\ MutexIsHeld /\ FrontExists /\ Free \notin Workers
      /\ (tasks = <<>> <=> Len(tasks) = 0) /\ Len(tasks) \in Nat
  BY WorkerAssumption, QueueFacts, Zenon DEF PoolInv
<1> USE DEF Points, Locked
<1>1. CASE Top(w)
  <2> DEFINE p == IF running THEN "lock" ELSE "exited"
  <2>1. p \in Points /\ p \notin {"pop", "run"} \cup Locked /\ p # "decide" /\ p # "front"
    BY SMT
  <2>2. holder # w /\ holder' = holder /\ Goto(w, p) /\ at[w] = "top"
    BY <1>0, <1>1, SMT DEF Top, MutexIsHeld
  <2> HIDE DEF p
  <2>3. QED
    BY <1>0, <1>1, <2>1, <2>2, WalkKeeps, SMT DEF Top, TypeOK
<1>2. CASE Lock(w)
  BY <1>0, <1>2, WalkKeeps, SMT DEF Lock, TypeOK
<1>3. CASE Test(w)
  <2> DEFINE p == IF tasks # <<>> \/ ~running THEN "decide" ELSE "block"
  <2>1. p \in {"decide", "block"} /\ (p = "decide" /\ running => Len(tasks) > 0)
    BY <1>0, SMT
  <2>2. holder = w /\ holder' = holder /\ Goto(w, p) /\ at[w] = "test"
    BY <1>0, <1>3, SMT DEF Test, MutexIsHeld
  <2> HIDE DEF p
  <2>3. QED
    BY <1>0, <1>3, <2>1, <2>2, WalkKeeps, SMT DEF Test, TypeOK
<1>4. CASE Block(w)
  <2>1. holder = w
    BY <1>0, <1>4, SMT DEF Block, MutexIsHeld
  <2>2. QED
    BY <1>0, <1>4, <2>1, WalkKeeps, SMT DEF Block, TypeOK
<1>5. CASE Decide(w)
  <2>1. holder = w
    BY <1>0, <1>5, SMT DEF Decide, MutexIsHeld
  <2>2. running => Len(tasks) > 0
    BY <1>0, <1>5, SMT DEF Decide, FrontExists
  <2>3. QED
    BY <1>0, <1>5, <2>1, <2>2, WalkKeeps, SMT DEF Decide, TypeOK
<1>6. CASE WakeSpuriously(w)
  <2>1. holder # w
    BY <1>0, <1>6, SMT DEF WakeSpuriously, MutexIsHeld
  <2>2. QED
    BY <1>0, <1>6, <2>1, WalkKeeps, SMT DEF WakeSpuriously, TypeOK
<1>7. QED
  BY <1>1, <1>2, <1>3, <1>4, <1>5, <1>6

(* A step in which workers that are blocked are woken up.                  *)
LEMMA WakeKeeps ==
  ASSUME PoolInv, at' \in [Workers -> Points],
         \A w \in Workers : at'[w] = at[w] \/ (at[w] = "blocked" /\ at'[w] = "relock"),
         running' \in BOOLEAN, running' => running,
         notifies' \in 0 .. MaxTasks, notifies' <= notifies,
         dtor' \in {"alive", "stored", "joining", "gone"},
         UNCHANGED <<tasks, holder, held, ran, pushed>>
  PROVE  PoolInv'
<1>1. TypeOK'
  BY Zenon DEF PoolInv, TypeOK
<1>2. MutexIsHeld'
  BY SMT DEF PoolInv, MutexIsHeld, Locked
<1>3. FrontExists'
  BY SMT DEF PoolInv, FrontExists
<1>4. PopsItsFront'
  BY SMT DEF PoolInv, PopsItsFront
<1>5. QueueIsDistinct' /\ RunningIsDistinct' /\ NothingIsLost'
  <2>1. /\ \A v \in Workers : at'[v] = "run" <=> at[v] = "run"
        /\ \A v \in Workers : at[v] = "run" => held'[v] = held[v]
    BY SMT
  <2>2. QED
    BY <2>1, PlacesKept, Zenon
<1>6. CountsAreBounded'
  BY SMT DEF PoolInv, CountsAreBounded, TypeOK
<1>7. QED
  BY <1>1, <1>2, <1>3, <1>4, <1>5, <1>6 DEF PoolInv

LEMMA NotifyingKeeps ==
  ASSUME PoolInv, NotifyOne \/ StoreRunning \/ NotifyAll \/ Join
  PROVE  PoolInv'
<1>0. /\ at \in [Workers -> Points] /\ running \in BOOLEAN
      /\ notifies \in 0 .. MaxTasks /\ dtor \in {"alive", "stored", "joining", "gone"}
      /\ "relock" \in Points
  BY Zenon DEF PoolInv, TypeOK, Points
<1>1. CASE NotifyOne
  <2>1. /\ at' \in [Workers -> Points]
        /\ \A w \in Workers : \/ at'[w] = at[w]
                              \/ at[w] = "blocked" /\ at'[w] = "relock"
    BY <1>0, <1>1, SMT DEF NotifyOne, Goto, Blocked
  <2>2. notifies' \in 0 .. MaxTasks /\ notifies' <= notifies
    <3>1. notifies > 0 /\ notifies' = notifies - 1
      BY <1>1, Zenon DEF NotifyOne
    <3>2. QED
      BY <1>0, <3>1, WorkerAssumption, SMT
  <2>3. QED
    BY <1>0, <1>1, <2>1, <2>2, WakeKeeps, Zenon DEF NotifyOne
<1>2. CASE StoreRunning
  <2>1. notifies' \in 0 .. MaxTasks /\ notifies' <= notifies
    BY <1>0, <1>2, SMT DEF StoreRunning
  <2>2. QED
    BY <1>0, <1>2, <2>1, WakeKeeps, Zenon DEF StoreRunning
<1>3. CASE NotifyAll
  <2>1. /\ at' \in [Workers -> Points]
        /\ \A w \in Workers : \/ at'[w] = at[w]
                              \/ at[w] = "blocked" /\ at'[w] = "relock"
    BY <1>0, <1>3, SMT DEF NotifyAll, Blocked
  <2>2. notifies' \in 0 .. MaxTasks /\ notifies' <= notifies
    BY <1>0, <1>3, SMT DEF NotifyAll
  <2>3. QED
    BY <1>0, <1>3, <2>1, <2>2, WakeKeeps, Zenon DEF NotifyAll
<1>4. CASE Join
  <2>1. notifies' \in 0 .. MaxTasks /\ notifies' <= notifies
    BY <1>0, <1>4, SMT DEF Join
  <2>2. QED
    BY <1>0, <1>4, <2>1, WakeKeeps, Zenon DEF Join
<1>5. QED
  BY <1>1, <1>2, <1>3, <1>4

(* push(): the new task is one that was nowhere before.                    *)
LEMMA PushKeeps ==
  ASSUME PoolInv, Push
  PROVE  PoolInv'
<1>0. /\ TypeOK /\ pushed \in Nat /\ pushed < MaxTasks /\ MaxTasks \in Nat
      /\ pushed' = pushed + 1
      /\ Len(tasks) \in Nat /\ tasks \in Seq(Tasks) /\ pushed + 1 \in Tasks
  BY QueueFacts, WorkerAssumption, SMT DEF PoolInv, TypeOK, Push, Tasks
<1>1. /\ tasks' \in Seq(Tasks) /\ Len(tasks') = Len(tasks) + 1
      /\ \A i \in 1 .. Len(tasks) : tasks'[i] = tasks[i]
      /\ tasks'[Len(tasks) + 1] = pushed + 1
  BY <1>0, AppendProperties, Zenon DEF Push
<1>2. UNCHANGED <<running, holder, at, held, ran, dtor>> /\ notifies' = notifies + 1
  BY Zenon DEF Push
<1>3. TypeOK'
  <2>1. pushed' \in 0 .. MaxTasks /\ notifies' \in 0 .. MaxTasks
    BY <1>0, <1>2, SMT DEF PoolInv, TypeOK, CountsAreBounded
  <2>2. QED
    BY <1>0, <1>1, <1>2, <2>1, Zenon DEF TypeOK
<1>4. MutexIsHeld'
  BY <1>2, Zenon DEF PoolInv, MutexIsHeld
<1>5. FrontExists'
  BY <1>0, <1>1, <1>2, SMT DEF PoolInv, FrontExists
<1>6. PopsItsFront'
  BY <1>0, <1>1, <1>2, SMT DEF PoolInv, PopsItsFront, FrontExists
<1>7. QueueIsDistinct'
  <2>1. /\ \A i \in 1 .. Len(tasks) : tasks[i] \in 1 .. pushed /\ tasks[i] \notin ran
        /\ \A i, j \in 1 .. Len(tasks) : tasks[i] = tasks[j] => i = j
        /\ ran \subseteq 1 .. pushed /\ ran' = ran
    BY <1>2, Zenon DEF PoolInv, QueueIsDistinct, CountsAreBounded
  <2>2. \A i \in 1 .. Len(tasks') : i \in 1 .. Len(tasks) \/ i = Len(tasks) + 1
    BY <1>0, <1>1, SMT
  <2>3. pushed + 1 \notin 1 .. pushed /\ pushed + 1 \in 1 .. pushed + 1
        /\ \A t \in 1 .. pushed : t \in 1 .. pushed + 1
    BY <1>0, SMT
  <2>4. ASSUME NEW i \in 1 .. Len(tasks')
        PROVE  tasks'[i] \in 1 .. pushed' /\ tasks'[i] \notin ran'
    BY <1>0, <1>1, <2>1, <2>2, <2>3, Zenon
  <2>5. ASSUME NEW i \in 1 .. Len(tasks'), NEW j \in 1 .. Len(tasks'),
               tasks'[i] = tasks'[j]
        PROVE  i = j
    BY <1>1, <2>1, <2>2, <2>3, <2>5, Zenon
  <2>6. QED
    BY <2>4, <2>5, Zenon DEF QueueIsDistinct
<1>8. \A t \in 1 .. pushed : InQueue(t)' <=> InQueue(t)
  <2>1. ASSUME NEW t \in 1 .. pushed, InQueue(t) PROVE InQueue(t)'
    BY <1>0, <1>1, <2>1, SMT DEF InQueue
  <2>2. ASSUME NEW t \in 1 .. pushed, InQueue(t)' PROVE InQueue(t)
    BY <1>0, <1>1, <2>2, SMT DEF InQueue
  <2>3. QED
    BY <2>1, <2>2
<1>9. RunningIsDistinct'
  BY <1>0, <1>2, <1>8, SMT DEF PoolInv, RunningIsDistinct
<1>10. NothingIsLost'
  <2>0. Len(tasks) + 1 \in 1 .. Len(tasks')
    BY <1>0, <1>1, SMT
  <2>1. \E i \in 1 .. Len(tasks') : tasks'[i] = pushed'
    BY <1>0, <1>1, <2>0, Zenon
  <2>2. ASSUME NEW t \in 1 .. pushed
        PROVE  (InQueue(t) \/ t \in ran \/ \E w \in Workers : RunBy(w, t))'
    BY <1>2, <1>8, <2>2, Zenon DEF PoolInv, NothingIsLost, RunBy
  <2>3. \A t \in 1 .. pushed' : t \in 1 .. pushed \/ t = pushed'
    BY <1>0, SMT
  <2>4. QED
    BY <2>1, <2>2, <2>3, Zenon DEF NothingIsLost, InQueue
<1>11. CountsAreBounded'
  BY <1>0, <1>2, SMT DEF PoolInv, CountsAreBounded, TypeOK
<1>12. QED
  BY <1>3, <1>4, <1>5, <1>6, <1>7, <1>9, <1>10, <1>11 DEF PoolInv

(* task = tasks_.front(): there is one, and nobody else takes it.          *)
LEMMA FrontKeeps ==
  ASSUME PoolInv, NEW w \in Workers, Front(w)
  PROVE  PoolInv'
<1>0. /\ TypeOK /\ Len(tasks) \in Nat /\ Len(tasks) > 0 /\ holder = w
      /\ tasks # <<>> /\ Head(tasks) = tasks[1] /\ tasks[1] \in Tasks
  <2>1. TypeOK /\ Len(tasks) \in Nat /\ Len(tasks) > 0 /\ tasks # <<>>
    BY QueueFacts, SMT DEF PoolInv, FrontExists, Front
  <2>2. holder = w
    BY SMT DEF PoolInv, MutexIsHeld, Locked, Front
  <2>3. 1 \in 1 .. Len(tasks)
    BY <2>1, SMT
  <2>4. Head(tasks) = tasks[1]
    BY <2>1, SMT DEF TypeOK
  <2>5. QED
    BY <2>1, <2>2, <2>3, <2>4, QueueFacts, Zenon
<1>1. /\ at' = [at EXCEPT ![w] = "pop"] /\ held' = [held EXCEPT ![w] = tasks[1]]
      /\ UNCHANGED <<running, tasks, holder, ran, pushed, notifies, dtor>>
      /\ at[w] = "front"
  BY <1>0, Zenon DEF Front, Goto
<1>2. /\ at' \in [Workers -> Points] /\ held' \in [Workers -> 0 .. MaxTasks]
      /\ \A v \in Workers : at'[v] = IF v = w THEN "pop" ELSE at[v]
      /\ \A v \in Workers : held'[v] = IF v = w THEN tasks[1] ELSE held[v]
  <2>1. tasks[1] \in 0 .. MaxTasks /\ "pop" \in Points
    BY <1>0, SMT DEF Tasks, Points
  <2>2. at \in [Workers -> Points] /\ held \in [Workers -> 0 .. MaxTasks]
    BY <1>0, Zenon DEF TypeOK
  <2>3. QED
    BY <1>1, <2>1, <2>2, Zenon
<1>3. TypeOK'
  BY <1>0, <1>1, <1>2, Zenon DEF TypeOK
<1>4. MutexIsHeld' /\ FrontExists'
  BY <1>0, <1>1, <1>2, SMT DEF PoolInv, MutexIsHeld, FrontExists, Locked
<1>5. PopsItsFront'
  BY <1>1, <1>2, SMT DEF PoolInv, PopsItsFront
<1>6. QueueIsDistinct' /\ RunningIsDistinct' /\ NothingIsLost'
  <2>1. /\ \A v \in Workers : at'[v] = "run" <=> at[v] = "run"
        /\ \A v \in Workers : at[v] = "run" => held'[v] = held[v]
    BY <1>1, <1>2, SMT
  <2>2. QED
    BY <1>1, <2>1, PlacesKept, Zenon
<1>7. QED
  BY <1>1, <1>3, <1>4, <1>5, <1>6, Zenon DEF PoolInv, CountsAreBounded

(* tasks_.pop() and lock.unlock(): the task moves from the queue to the    *)
(* worker.                                                                 *)
LEMMA PopKeeps ==
  ASSUME PoolInv, NEW w \in Workers, Pop(w)
  PROVE  PoolInv'
<1>0. /\ TypeOK /\ Len(tasks) \in Nat /\ Len(tasks) > 0 /\ tasks \in Seq(Tasks)
      /\ holder = w /\ held[w] = tasks[1] /\ at[w] = "pop"
  <2>1. /\ TypeOK /\ at[w] = "pop" /\ MutexIsHeld /\ FrontExists /\ PopsItsFront
        /\ Len(tasks) \in Nat /\ tasks \in Seq(Tasks)
    BY QueueFacts, Zenon DEF PoolInv, TypeOK, Pop
  <2>2. QED
    BY <2>1, SMT DEF MutexIsHeld, FrontExists, PopsItsFront, Locked
<1>1. /\ at' = [at EXCEPT ![w] = "run"] /\ holder' = Free
      /\ tasks' = SubSeq(tasks, 2, Len(tasks))
      /\ UNCHANGED <<running, held, ran, pushed, notifies, dtor>>
  BY Zenon DEF Pop, Goto
<1>2. /\ tasks' \in Seq(Tasks) /\ Len(tasks') = Len(tasks) - 1
      /\ \A i \in 1 .. Len(tasks) - 1 : tasks'[i] = tasks[i + 1]
  <2>1. \A i \in 2 .. Len(tasks) : tasks[i] \in Tasks
    BY <1>0, QueueFacts, SMT
  <2>2. 2 \in Int /\ Len(tasks) \in Int
    BY <1>0, SMT
  <2>3. /\ tasks' \in Seq(Tasks)
        /\ Len(tasks') = IF 2 <= Len(tasks) THEN Len(tasks) - 2 + 1 ELSE 0
        /\ \A i \in 1 .. Len(tasks) - 2 + 1 : tasks'[i] = tasks[2 + i - 1]
    BY <1>0, <1>1, <2>1, SubSeqProperties, SMT
  <2>4. Len(tasks') = Len(tasks) - 1
    <3>1. Len(tasks) - 2 + 1 = Len(tasks) - 1
      BY <1>0, SMT
    <3>2. \A n \in Nat : n > 0 /\ ~(2 <= n) => n - 1 = 0
      BY SMT
    <3>3. QED
      BY <1>0, <2>3, <3>1, <3>2, Zenon
  <2>5. ASSUME NEW i \in 1 .. Len(tasks) - 1
        PROVE  tasks'[i] = tasks[i + 1]
    <3>1. i \in 1 .. Len(tasks) - 2 + 1 /\ 2 + i - 1 = i + 1
      BY <1>0, SMT
    <3>2. QED
      BY <2>3, <3>1, Zenon
  <2>6. QED
    BY <2>3, <2>4, <2>5, Zenon
<1>3. /\ at' \in [Workers -> Points]
      /\ \A v \in Workers : at'[v] = IF v = w THEN "run" ELSE at[v]
  <2>1. at \in [Workers -> Points] /\ "run" \in Points
    BY <1>0, Zenon DEF TypeOK, Points
  <2>2. QED
    BY <1>1, <2>1, Zenon
<1>4. TypeOK'
  BY <1>0, <1>1, <1>2, <1>3, Zenon DEF TypeOK
<1>5. \A v \in Workers \ {w} : at[v] \notin Locked
  BY <1>0, Zenon DEF PoolInv, MutexIsHeld
<1>6. MutexIsHeld'
  BY <1>1, <1>3, <1>5, WorkerAssumption, SMT DEF MutexIsHeld, Locked
<1>7. FrontExists' /\ PopsItsFront'
  BY <1>3, <1>5, SMT DEF FrontExists, PopsItsFront, Locked
<1>8. /\ \A i \in 1 .. Len(tasks) : tasks[i] \in 1 .. pushed /\ tasks[i] \notin ran
      /\ \A i, j \in 1 .. Len(tasks) : tasks[i] = tasks[j] => i = j
  BY Zenon DEF PoolInv, QueueIsDistinct
<1>9. /\ \A i \in 1 .. Len(tasks') : i + 1 \in 1 .. Len(tasks) /\ i + 1 # 1
                                       /\ tasks'[i] = tasks[i + 1]
      /\ \A i, j \in 1 .. Len(tasks') : i + 1 = j + 1 => i = j
      /\ \A i \in 1 .. Len(tasks) : i = 1 \/ \E j \in 1 .. Len(tasks') : i = j + 1
      /\ 1 \in 1 .. Len(tasks)
  <2>1. \A i \in 1 .. Len(tasks) :
          i = 1 \/ (i - 1 \in 1 .. Len(tasks') /\ i = (i - 1) + 1)
    BY <1>0, <1>2, SMT
  <2>2. \A i \in 1 .. Len(tasks) : i = 1 \/ \E j \in 1 .. Len(tasks') : i = j + 1
    BY <2>1, Zenon
  <2>3. /\ \A i \in 1 .. Len(tasks') : i + 1 \in 1 .. Len(tasks) /\ i + 1 # 1
                                       /\ tasks'[i] = tasks[i + 1]
        /\ \A i, j \in 1 .. Len(tasks') : i + 1 = j + 1 => i = j
        /\ 1 \in 1 .. Len(tasks)
    BY <1>0, <1>2, SMT
  <2>4. QED
    BY <2>2, <2>3, Zenon
<1>10. QueueIsDistinct'
  <2>1. \A i \in 1 .. Len(tasks') : tasks'[i] \in 1 .. pushed' /\ tasks'[i] \notin ran'
    BY <1>1, <1>8, <1>9, Zenon
  <2>2. ASSUME NEW i \in 1 .. Len(tasks'), NEW j \in 1 .. Len(tasks'),
               tasks'[i] = tasks'[j]
        PROVE  i = j
    <3>1. /\ i + 1 \in 1 .. Len(tasks) /\ j + 1 \in 1 .. Len(tasks)
          /\ tasks[i + 1] = tasks[j + 1]
      BY <1>9, <2>2, Zenon
    <3>2. i + 1 = j + 1
      BY <1>8, <3>1, Zenon
    <3>3. QED
      BY <3>2, SMT
  <2>3. QED
    BY <2>1, <2>2, Zenon DEF QueueIsDistinct
<1>11. \A t : InQueue(t)' => InQueue(t) /\ t # held[w]
  BY <1>0, <1>8, <1>9, Zenon DEF InQueue
<1>12. ASSUME NEW t, InQueue(t), t # held[w]
       PROVE  InQueue(t)'
  <2>1. PICK i \in 1 .. Len(tasks) : tasks[i] = t
    BY <1>12, Zenon DEF InQueue
  <2>2. PICK j \in 1 .. Len(tasks') : i = j + 1
    BY <1>0, <1>9, <1>12, <2>1, Zenon
  <2>3. QED
    BY <1>9, <2>1, <2>2, Zenon DEF InQueue
<1>13. InQueue(held[w]) /\ held[w] \in 1 .. pushed /\ held[w] \notin ran
  BY <1>0, <1>8, <1>9, Zenon DEF InQueue
<1>14. RunningIsDistinct'
  <2>1. /\ \A v \in Workers : at[v] = "run" =>
             held[v] \in 1 .. pushed /\ ~InQueue(held[v]) /\ held[v] \notin ran
        /\ \A u, v \in Workers :
             at[u] = "run" /\ at[v] = "run" /\ held[u] = held[v] => u = v
    BY Zenon DEF PoolInv, RunningIsDistinct
  <2>2. \A v \in Workers : at'[v] = "run" => v = w \/ at[v] = "run"
    BY <1>3, Zenon
  <2>3. ASSUME NEW v \in Workers, at'[v] = "run"
        PROVE  held'[v] \in 1 .. pushed' /\ ~InQueue(held[v])' /\ held'[v] \notin ran'
    BY <1>1, <1>11, <1>13, <2>1, <2>2, <2>3, Zenon
  <2>4. ASSUME NEW u \in Workers, NEW v \in Workers,
               at'[u] = "run", at'[v] = "run", held'[u] = held'[v]
        PROVE  u = v
    BY <1>1, <1>13, <2>1, <2>2, <2>4, Zenon
  <2>5. QED
    BY <2>3, <2>4, Zenon DEF RunningIsDistinct
<1>15. NothingIsLost'
  <2>1. RunBy(w, held[w])' /\ \A v \in Workers, t \in 1 .. pushed : RunBy(v, t) => RunBy(v, t)'
    BY <1>1, <1>3, Zenon DEF RunBy
  <2>2. QED
    BY <1>1, <1>12, <2>1, Zenon DEF PoolInv, NothingIsLost
<1>16. QED
  BY <1>1, <1>4, <1>6, <1>7, <1>10, <1>14, <1>15, Zenon DEF PoolInv, CountsAreBounded

(* task(): the task has been called, by the one worker that held it.       *)
LEMMA RunTaskKeeps ==
  ASSUME PoolInv, NEW w \in Workers, RunTask(w)
  PROVE  PoolInv'
<1>1. /\ TypeOK /\ at[w] = "run" /\ ran' = ran \cup {held[w]}
      /\ held' = [held EXCEPT ![w] = 0] /\ at' = [at EXCEPT ![w] = "top"]
      /\ UNCHANGED <<running, tasks, holder, pushed, notifies, dtor>>
  BY Zenon DEF PoolInv, RunTask, Goto
<1>2. /\ \A v \in Workers : at[v] = "run" =>
           held[v] \in 1 .. pushed /\ ~InQueue(held[v]) /\ held[v] \notin ran
      /\ \A u, v \in Workers :
           at[u] = "run" /\ at[v] = "run" /\ held[u] = held[v] => u = v
  BY Zenon DEF PoolInv, RunningIsDistinct
<1>3. /\ at' \in [Workers -> Points] /\ held' \in [Workers -> 0 .. MaxTasks]
      /\ \A v \in Workers : at'[v] = IF v = w THEN "top" ELSE at[v]
      /\ \A v \in Workers : v # w => held'[v] = held[v]
  <2>1. 0 \in 0 .. MaxTasks /\ "top" \in Points
    BY WorkerAssumption, SMT DEF Points
  <2>2. at \in [Workers -> Points] /\ held \in [Workers -> 0 .. MaxTasks]
    BY <1>1, Zenon DEF TypeOK
  <2>3. QED
    BY <1>1, <2>1, <2>2, Zenon
<1>4. ran' \subseteq 1 .. pushed /\ ran' \subseteq Tasks
  <2>1. ran \subseteq 1 .. pushed /\ held[w] \in 1 .. pushed
    BY <1>1, <1>2, Zenon DEF PoolInv, CountsAreBounded
  <2>2. \A t \in 1 .. pushed : t \in Tasks
    BY <1>1, WorkerAssumption, SMT DEF TypeOK, Tasks
  <2>3. QED
    BY <1>1, <2>1, <2>2, Zenon
<1>5. TypeOK'
  BY <1>1, <1>3, <1>4, Zenon DEF TypeOK
<1>6. MutexIsHeld' /\ FrontExists'
  BY <1>1, <1>3, SMT DEF PoolInv, MutexIsHeld, FrontExists, Locked
<1>7. PopsItsFront'
  BY <1>1, <1>3, SMT DEF PoolInv, PopsItsFront
<1>8. \A t : InQueue(t)' <=> InQueue(t)
  BY <1>1, Zenon DEF InQueue
<1>9. QueueIsDistinct'
  <2>1. \A i \in 1 .. Len(tasks) : tasks[i] # held[w]
    BY <1>1, <1>2, Zenon DEF InQueue
  <2>2. QED
    BY <1>1, <2>1, Zenon DEF PoolInv, QueueIsDistinct
<1>10. \A v \in Workers : at'[v] = "run" => v # w /\ at[v] = "run" /\ held'[v] = held[v]
  BY <1>3, SMT
<1>11. RunningIsDistinct'
  <2>1. ASSUME NEW v \in Workers, at'[v] = "run"
        PROVE  held'[v] \in 1 .. pushed' /\ ~InQueue(held[v])' /\ held'[v] \notin ran'
    <3>1. v # w /\ at[v] = "run" /\ held'[v] = held[v]
      BY <1>10, <2>1, Zenon
    <3>2. held[v] # held[w]
      BY <1>1, <1>2, <3>1, Zenon
    <3>3. ~InQueue(held[v])
      BY <1>2, <3>1, Zenon DEF InQueue
    <3>4. ~InQueue(held[v])'
      BY <1>1, <3>1, <3>3, Zenon DEF InQueue
    <3>5. held'[v] \in 1 .. pushed'
      BY <1>1, <1>2, <3>1, Zenon
    <3>6. held'[v] \notin ran'
      BY <1>1, <1>2, <3>1, <3>2, SMT
    <3>7. QED
      BY <3>4, <3>5, <3>6
  <2>2. ASSUME NEW u \in Workers, NEW v \in Workers,
               at'[u] = "run", at'[v] = "run", held'[u] = held'[v]
        PROVE  u = v
    BY <1>2, <1>10, <2>2, Zenon
  <2>3. QED
    BY <2>1, <2>2, Zenon DEF RunningIsDistinct
<1>12. NothingIsLost'
  <2>1. \A v \in Workers, t \in 1 .. pushed : RunBy(v, t) => RunBy(v, t)' \/ t = held[w]
    BY <1>1, <1>3, Zenon DEF RunBy
  <2>2. QED
    BY <1>1, <1>8, <2>1, Zenon DEF PoolInv, NothingIsLost
<1>13. QED
  BY <1>1, <1>4, <1>5, <1>6, <1>7, <1>9, <1>11, <1>12, Zenon DEF PoolInv, CountsAreBounded
-----------------------------------------------------------------------------
LEMMA PoolStutterKeeps ==
  ASSUME PoolInv, UNCHANGED poolVars
  PROVE  PoolInv'
<1>1. UNCHANGED <<running, tasks, holder, at, held, ran, pushed, notifies, dtor>>
  BY Zenon DEF poolVars, vars
<1>2. TypeOK'
  BY <1>1, Zenon DEF PoolInv, TypeOK
<1>3. MutexIsHeld' /\ FrontExists' /\ PopsItsFront' /\ CountsAreBounded'
  BY <1>1, Zenon DEF PoolInv, MutexIsHeld, FrontExists, PopsItsFront, CountsAreBounded
<1>4. QueueIsDistinct' /\ RunningIsDistinct' /\ NothingIsLost'
  BY <1>1, PlacesKept, Zenon
<1>5. QED
  BY <1>2, <1>3, <1>4 DEF PoolInv

LEMMA PoolNextKeeps ==
  ASSUME PoolInv, [Next]_poolVars
  PROVE  PoolInv'
<1>1. CASE Push
  BY <1>1, PushKeeps
<1>2. CASE NotifyOne \/ StoreRunning \/ NotifyAll \/ Join
  BY <1>2, NotifyingKeeps
<1>3. ASSUME NEW w \in Workers, workerFunc(w) \/ WakeSpuriously(w)
      PROVE  PoolInv'
  <2>1. CASE \/ Top(w) \/ Lock(w) \/ Test(w) \/ Block(w) \/ Decide(w)
             \/ WakeSpuriously(w)
    BY <2>1, WorkerWalks
  <2>2. CASE Front(w)
    BY <2>2, FrontKeeps
  <2>3. CASE Pop(w)
    BY <2>3, PopKeeps
  <2>4. CASE RunTask(w)
    BY <2>4, RunTaskKeeps
  <2>5. QED
    BY <1>3, <2>1, <2>2, <2>3, <2>4, Zenon DEF workerFunc
<1>4. CASE UNCHANGED poolVars
  BY <1>4, PoolStutterKeeps
<1>5. QED
  BY <1>1, <1>2, <1>3, <1>4, Zenon DEF Next

(* The pool alone: whatever is done with the tasks, its invariant holds.   *)
THEOREM PoolInvHolds == Spec => []PoolInv
<1>1. Init => PoolInv
  BY InitEstablishesPool
<1>2. PoolInv /\ [Next]_vars => PoolInv'
  BY PoolNextKeeps DEF poolVars
<1>3. QED
  BY <1>1, <1>2, PTL DEF Spec

(* A task that was pushed is in one place: in the queue once, with one     *)
(* worker, or called.                                                      *)
LEMMA OnePlace ==
  ASSUME PoolInv
  PROVE  TaskRunsOnce
<1> SUFFICES ASSUME NEW t \in 1 .. pushed
             PROVE  Cardinality({i \in DOMAIN tasks : tasks[i] = t})
                      + Cardinality({w \in Workers : at[w] = "run" /\ held[w] = t})
                      + Cardinality({t} \cap ran) = 1
  BY Zenon DEF TaskRunsOnce
<1> DEFINE Q == {i \in DOMAIN tasks : tasks[i] = t}
           R == {w \in Workers : at[w] = "run" /\ held[w] = t}
           C == {t} \cap ran
<1>1. DOMAIN tasks = 1 .. Len(tasks)
  BY QueueFacts, Zenon DEF PoolInv
<1>2. \/ InQueue(t) /\ R = {} /\ C = {}
      \/ ~InQueue(t) /\ C = {} /\ \E w \in Workers : RunBy(w, t)
      \/ ~InQueue(t) /\ R = {} /\ C = {t}
  <2>1. InQueue(t) \/ t \in ran \/ \E w \in Workers : RunBy(w, t)
    BY Zenon DEF PoolInv, NothingIsLost
  <2>2. InQueue(t) => t \notin ran
    BY Zenon DEF PoolInv, QueueIsDistinct, InQueue
  <2>3. \A w \in Workers : RunBy(w, t) => ~InQueue(t) /\ t \notin ran
    BY Zenon DEF PoolInv, RunningIsDistinct, RunBy
  <2>4. R = {} <=> \A w \in Workers : ~RunBy(w, t)
    BY Zenon DEF RunBy
  <2>5. (t \in ran => C = {t}) /\ (t \notin ran => C = {})
    BY Zenon
  <2> HIDE DEF R, C
  <2>6. QED
    BY <2>1, <2>2, <2>3, <2>4, <2>5, Zenon
<1>3. InQueue(t) => \E i : Q = {i}
  <2>1. SUFFICES ASSUME InQueue(t) PROVE \E i : Q = {i}
    OBVIOUS
  <2>2. PICK i \in 1 .. Len(tasks) : tasks[i] = t
    BY <2>1, Zenon DEF InQueue
  <2>3. \A j \in 1 .. Len(tasks) : tasks[j] = t => j = i
    BY <2>2, Zenon DEF PoolInv, QueueIsDistinct
  <2>4. Q = {i}
    BY <1>1, <2>2, <2>3, Zenon
  <2>5. QED
    BY <2>4, Zenon
<1>4. ~InQueue(t) => Q = {}
  BY <1>1, Zenon DEF InQueue
<1>5. (\E w \in Workers : RunBy(w, t)) => \E w : R = {w}
  <2>1. SUFFICES ASSUME NEW w \in Workers, RunBy(w, t) PROVE R = {w}
    BY Zenon
  <2>2. \A v \in Workers : RunBy(v, t) => v = w
    BY <2>1, Zenon DEF PoolInv, RunningIsDistinct, RunBy
  <2>3. QED
    BY <2>1, <2>2, Zenon DEF RunBy
<1> HIDE DEF Q, R, C
<1>6. \A x : Cardinality({x}) = 1
  BY FS_Singleton, Zenon
<1>7. Cardinality({}) = 0
  BY FS_EmptySet, Zenon
<1>8. \/ Cardinality(Q) = 1 /\ Cardinality(R) = 0 /\ Cardinality(C) = 0
      \/ Cardinality(Q) = 0 /\ Cardinality(R) = 1 /\ Cardinality(C) = 0
      \/ Cardinality(Q) = 0 /\ Cardinality(R) = 0 /\ Cardinality(C) = 1
  BY <1>2, <1>3, <1>4, <1>5, <1>6, <1>7, Zenon
<1>9. Cardinality(Q) + Cardinality(R) + Cardinality(C) = 1
  BY <1>8, SMT
<1>10. QED
  BY <1>9 DEF Q, R, C
-----------------------------------------------------------------------------
(* The futures: every step of theirs is a step of the pool, or leaves the  *)
(* pool alone.                                                             *)
LEMMA FutureStepsThePool ==
  ASSUME [FutureNext]_allVars
  PROVE  [Next]_poolVars
<1>1. CASE submit
  BY <1>1, Zenon DEF submit, Next
<1>2. CASE pool
  BY <1>2, Zenon DEF pool, Next
<1>3. ASSUME NEW w \in Workers, worker(w)
      PROVE  [Next]_poolVars
  <2>1. ASSUME NEW t \in Tasks,
               CallFunc(w, t) \/ Store(w, t) \/ Notify(w, t) \/ Write(w, t)
        PROVE  UNCHANGED poolVars
    BY <2>1, Zenon DEF CallFunc, Store, Notify, Write
  <2>2. ASSUME TaskReturns(w) PROVE workerFunc(w)
    BY <2>2, Zenon DEF TaskReturns, workerFunc
  <2>3. QED
    BY <1>3, <2>1, <2>2, Zenon DEF worker, workerFunc, Next
<1>4. ASSUME NEW t \in Tasks,
             Wait(t) \/ CallGet(t) \/ user(t) \/ ReadFails(t) \/ WakeGet(t)
      PROVE  UNCHANGED poolVars
  BY <1>4, Zenon DEF Wait, CallGet, user, Read, Get, ReadFails, WakeGet
<1>5. CASE UNCHANGED allVars
  BY <1>5, Zenon DEF allVars
<1>6. QED
  BY <1>1, <1>2, <1>3, <1>4, <1>5, Zenon DEF FutureNext
(* What the steps of a promise and of its user do to one future.           *)
FutureRest ==
  /\ body \in [Tasks -> {"begin", "set", "notify", "write", "end"}]
  /\ stored \in [Tasks -> BOOLEAN]
  /\ counter \in [Tasks -> {0, 1}]
  /\ use \in [Tasks -> {"none", "wait", "get"}]
  /\ consumer \in [Tasks -> {"none", "reading", "get", "blocked", "done"}]
  /\ aborted \in BOOLEAN
  /\ SetInOrder /\ WaitFindsValue

LEMMA FutureInvSplits == FutureInv <=> PoolInv /\ FutureRest
  BY Zenon DEF FutureInv, FutureRest, FutureTypeOK, PoolInv

LEMMA FutureInitEstablishes ==
  ASSUME FutureInit
  PROVE  FutureInv
<1>1. PoolInv
  BY InitEstablishesPool DEF FutureInit
<1>2. FutureRest
  <2>1. SetInOrder /\ WaitFindsValue
    BY SMT DEF FutureInit, SetInOrder, WaitFindsValue, Zero
  <2>2. QED
    BY <2>1, Zenon DEF FutureInit, FutureRest, Zero
<1>3. QED
  BY <1>1, <1>2, FutureInvSplits

(* Promise::set: the value is stored before the eventfd is written.        *)
LEMMA PromiseKeeps ==
  ASSUME FutureRest, NEW w \in Workers, NEW t \in Tasks,
         CallFunc(w, t) \/ Store(w, t) \/ Notify(w, t) \/ Write(w, t)
  PROVE  FutureRest'
<1> USE DEF FutureRest, BodyTo
<1>1. CASE CallFunc(w, t)
  <2>1. SetInOrder' /\ WaitFindsValue'
    BY <1>1, SMT DEF CallFunc, SetInOrder, WaitFindsValue
  <2>2. QED
    BY <1>1, <2>1, SMT DEF CallFunc
<1>2. CASE Store(w, t)
  <2>1. SetInOrder' /\ WaitFindsValue'
    BY <1>2, SMT DEF Store, MaySet, SetInOrder, WaitFindsValue
  <2>2. QED
    BY <1>2, <2>1, SMT DEF Store
<1>3. CASE Notify(w, t)
  <2>1. SetInOrder' /\ WaitFindsValue'
    BY <1>3, SMT DEF Notify, SetInOrder, WaitFindsValue
  <2>2. QED
    BY <1>3, <2>1, SMT DEF Notify
<1>4. CASE Write(w, t)
  <2>1. counter[t] = 0
    BY <1>4, SMT DEF Write, SetInOrder
  <2>2. SetInOrder' /\ WaitFindsValue'
    BY <1>4, <2>1, SMT DEF Write, SetInOrder, WaitFindsValue, write
  <2>3. QED
    BY <1>4, <2>1, <2>2, SMT DEF Write, write
<1>5. QED
  BY <1>1, <1>2, <1>3, <1>4

(* The user of a future: what was read from the eventfd was written after  *)
(* the value was stored.                                                   *)
LEMMA UserKeeps ==
  ASSUME FutureRest, NEW t \in Tasks,
         Wait(t) \/ CallGet(t) \/ user(t) \/ ReadFails(t) \/ WakeGet(t)
  PROVE  FutureRest'
<1> USE DEF FutureRest, ConsumerTo, At
<1>1. CASE Wait(t)
  <2>1. SetInOrder' /\ WaitFindsValue'
    BY <1>1, SMT DEF Wait, SetInOrder, WaitFindsValue, ready
  <2>2. QED
    BY <1>1, <2>1, SMT DEF Wait
<1>2. CASE CallGet(t)
  <2>1. SetInOrder' /\ WaitFindsValue'
    BY <1>2, SMT DEF CallGet, SetInOrder, WaitFindsValue
  <2>2. QED
    BY <1>2, <2>1, SMT DEF CallGet
<1>3. CASE Read(t)
  <2>1. counter[t] = 1 /\ body[t] = "end" /\ stored[t]
    BY <1>3, SMT DEF Read, SetInOrder, readable
  <2>2. counter' = [counter EXCEPT ![t] = 0]
    BY <1>3, <2>1, SMT DEF Read, afterRead, buf
  <2>3. SetInOrder' /\ WaitFindsValue'
    BY <1>3, <2>1, <2>2, SMT DEF Read, SetInOrder, WaitFindsValue
  <2>4. QED
    BY <1>3, <2>2, <2>3, SMT DEF Read
<1>4. CASE Get(t)
  <2>1. SetInOrder' /\ WaitFindsValue'
    BY <1>4, SMT DEF Get, SetInOrder, WaitFindsValue
  <2>2. QED
    BY <1>4, <2>1, SMT DEF Get
<1>5. CASE ReadFails(t)
  <2>1. SetInOrder' /\ WaitFindsValue'
    BY <1>5, SMT DEF ReadFails, SetInOrder, WaitFindsValue
  <2>2. QED
    BY <1>5, <2>1, SMT DEF ReadFails
<1>6. CASE WakeGet(t)
  <2>1. SetInOrder' /\ WaitFindsValue'
    BY <1>6, SMT DEF WakeGet, SetInOrder, WaitFindsValue
  <2>2. QED
    BY <1>6, <2>1, SMT DEF WakeGet
<1>7. QED
  BY <1>1, <1>2, <1>3, <1>4, <1>5, <1>6 DEF user

LEMMA FutureNextKeeps ==
  ASSUME FutureInv, [FutureNext]_allVars
  PROVE  FutureInv'
<1>1. PoolInv /\ FutureRest
  BY FutureInvSplits
<1>2. PoolInv'
  BY <1>1, FutureStepsThePool, PoolNextKeeps
<1>3. ASSUME UNCHANGED futureVars
      PROVE  FutureRest'
  <2>1. UNCHANGED <<body, stored, counter, use, consumer, aborted>>
    BY <1>3, Zenon DEF futureVars
  <2>2. QED
    BY <1>1, <2>1, Zenon DEF FutureRest, SetInOrder, WaitFindsValue
<1>4. ASSUME NEW w \in Workers, worker(w)
      PROVE  FutureRest'
  <2>1. \/ UNCHANGED futureVars
        \/ \E t \in Tasks :
             CallFunc(w, t) \/ Store(w, t) \/ Notify(w, t) \/ Write(w, t)
    BY <1>4, Zenon DEF worker, TaskReturns
  <2>2. QED
    BY <1>1, <1>3, <2>1, PromiseKeeps, Zenon
<1>5. ASSUME NEW t \in Tasks,
             Wait(t) \/ CallGet(t) \/ user(t) \/ ReadFails(t) \/ WakeGet(t)
      PROVE  FutureRest'
  BY <1>1, <1>5, UserKeeps, Zenon
<1>6. (submit \/ pool \/ UNCHANGED allVars) => UNCHANGED futureVars
  BY Zenon DEF submit, pool, allVars
<1>7. FutureRest'
  BY <1>3, <1>4, <1>5, <1>6, Zenon DEF FutureNext
<1>8. FutureInv' <=> PoolInv' /\ FutureRest'
  BY Zenon DEF FutureInv, FutureRest, FutureTypeOK, PoolInv
<1>9. QED
  BY <1>2, <1>7, <1>8
-----------------------------------------------------------------------------
(* The invariant of the pool and its futures.                              *)
THEOREM FutureInvHolds == FutureSpec => []FutureInv
<1>1. FutureInit => FutureInv
  BY FutureInitEstablishes
<1>2. FutureInv /\ [FutureNext]_allVars => FutureInv'
  BY FutureNextKeeps
<1>3. QED
  BY <1>1, <1>2, PTL DEF FutureSpec

(* The types: front() is never called on an empty queue, although running_ *)
(* is stored outside of the mutex and wait() wakes up for no reason, and   *)
(* the eventfd of a future never holds more than the 1 that wait() asserts.*)
THEOREM FutureTypeCorrect == FutureSpec => []FutureTypeOK
<1>1. FutureInv => FutureTypeOK
  BY DEF FutureInv
<1>2. QED
  BY <1>1, FutureInvHolds, PTL

(* A task given to submit() is in the queue, with one worker, or called:   *)
(* never lost, never called twice, however many workers the pool has.      *)
THEOREM TasksRunOnce == FutureSpec => []TaskRunsOnce
<1>1. FutureInv => TaskRunsOnce
  BY OnePlace DEF FutureInv
<1>2. QED
  BY <1>1, FutureInvHolds, PTL

(* IoQueue::wait never blocks the thread of the event loop in              *)
(* Future::get: the value is there whenever it is called.                  *)
THEOREM LoopIsNotBlocked == FutureSpec => []LoopNeverBlocks
<1>1. FutureInv => LoopNeverBlocks
  <2>1. FutureInv => 1 .. pushed \subseteq Tasks
    BY WorkerAssumption, SMT DEF FutureInv, FutureTypeOK, TypeOK, Tasks
  <2>2. QED
    BY <2>1, Zenon DEF FutureInv, WaitFindsValue, LoopNeverBlocks, Futures
<1>2. QED
  BY <1>1, FutureInvHolds, PTL

(* The pool under submit() is the pool: a behaviour of the futures is one  *)
(* of ThreadPool, so what holds of any use of it holds here.               *)
THEOREM FutureImplementsPool == FutureSpec => Spec
<1>1. FutureInit => Init
  BY DEF FutureInit
<1>2. [FutureNext]_allVars => [Next]_vars
  BY FutureStepsThePool DEF poolVars
<1>3. QED
  BY <1>1, <1>2, PTL DEF FutureSpec, Spec
=============================================================================
