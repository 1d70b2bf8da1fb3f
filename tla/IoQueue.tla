------------------------------ MODULE IoQueue -------------------------------
(***************************************************************************)
(* IoQueue: one thread runs coroutines that issue, await and cancel        *)
(* operations, and an event loop, IoQueueImpl::run, that submits them to   *)
(* io_uring and resumes the coroutine that waits for each completion       *)
(* (ioqueue.hpp, ioqueue.cpp, ioqueue_impl_iouring.cpp, iouring.cpp).      *)
(*                                                                         *)
(* Submission queue entries are numbered in the order they are prepared;   *)
(* since the submission queue is a FIFO, the number and the phase of each  *)
(* entry say what the queue holds.  An OperationHandle is the number of    *)
(* the entry it was returned for.  CompleterMap appears here as the map it *)
(* implements (module AbstractMap).  A coroutine stands for a chain of     *)
(* Tasks: the frames between the fire-and-forget coroutine at its bottom   *)
(* and the OperationAwaiter at its top live and die together.              *)
(***************************************************************************)
EXTENDS Naturals, Sequences, FiniteSets

CONSTANTS
  Coros,        \* coroutine frames
  NoCoro,       \* the null pointer
  SqEntries,    \* entries of the submission queue
  MapCapacity,  \* capacity of completers_
  IdSpace,      \* 2^64 in the code: number of operation ids
  FirstId,      \* next id of the queue, which may have been used before
  MaxCalls      \* bound: calls of the API and starts of coroutines

Ids == 0 .. IdSpace - 1
OpIdInvalid == IdSpace - 2
OpIdIgnore == IdSpace - 1
Serials == 1 .. MaxCalls

ASSUME CoroAssumption == NoCoro \notin Coros

(* io_uring rounds the capacity of the map up to a power of two.           *)
ASSUME SizeAssumption ==
  /\ SqEntries \in Nat /\ MapCapacity \in Nat /\ MaxCalls \in Nat
  /\ 0 < MapCapacity /\ MapCapacity <= SqEntries
  /\ IdSpace \in Nat /\ IdSpace > 2
  /\ FirstId \in 0 .. OpIdInvalid

VARIABLES
  nextOpId,    \* IoQueue::nextOpId_
  sqe,         \* all entries ever prepared: kind, user_data and target
  linked,      \* entries with the flag IOSQE_IO_LINK
  phase,       \* where each entry is
  cq,          \* completion queue: entries completed and not yet advanced over
  lastSqe,     \* IoQueueImpl::lastSqe_, 0 for nullptr
  completers,  \* IoQueueImpl::completers_: the coroutine of each completer
  cstate,      \* state of each coroutine frame
  awaits,      \* OperationAwaiter::operation of each coroutine, 0 for {}
  stack,       \* coroutines that are running, each started by the one below
  pc,          \* control point of the thread below the coroutines
  calls,       \* number of calls made, at most MaxCalls
  aborted,     \* the assertion that has ended the process
  disabled,    \* history: handles given to cancel(_, true) and not awaited since
  late         \* history: handles whose await can never be answered

ringVars == <<sqe, linked, phase, lastSqe>>
coroVars == <<cstate, awaits, stack>>
histVars == <<disabled, late>>
vars == <<nextOpId, ringVars, cq, completers, coroVars, pc, calls, aborted, histVars>>

Kinds == {"io", "linkTimeout", "cancel"}
Phases == {"free", "queued", "kernel", "posted", "done"}
Aborts == {"no", "awaitInvalid", "mapFull", "notLastSqe", "timePointAhead"}

Queued == {n \in Serials : phase[n] = "queued"}
Handles == {n \in DOMAIN sqe : sqe[n].kind # "linkTimeout"}
Operations == {n \in DOMAIN sqe : sqe[n].kind = "io"}

(* User code runs: main() outside of run(), or a resumed coroutine.        *)
UserRuns == aborted = "no" /\ (pc = "main" \/ stack # <<>>)
CoroRuns == aborted = "no" /\ stack # <<>>
Current == stack[Len(stack)]
Return == stack' = SubSeq(stack, 1, Len(stack) - 1)
Call == calls < MaxCalls /\ calls' = calls + 1
-----------------------------------------------------------------------------
(* Faults of getNextOpId: it forgets nextOpId_++; it does not skip the     *)
(* magic values.                                                           *)
getNextOpIdRepeats == [id |-> nextOpId, next |-> nextOpId]

getNextOpIdIssuesMagic == [id |-> nextOpId, next |-> (nextOpId + 1) % IdSpace]

(* The id that getNextOpId returns, and the one after it.                  *)
getNextOpId ==
  LET opId == IF nextOpId \in {OpIdInvalid, OpIdIgnore} THEN 0 ELSE nextOpId
  IN  [id |-> opId, next |-> opId + 1]

(* io_uring_get_sqe returns an entry unless the submission queue is full.  *)
SqRoom == Cardinality(Queued) < SqEntries

(* IoURing::prepare* followed by finalizeSqe.                              *)
finalizeSqe(kind, id, target) ==
  /\ sqe' = Append(sqe, [kind |-> kind, id |-> id, target |-> target])
  /\ phase' = [phase EXCEPT ![Len(sqe) + 1] = "queued"]
  /\ lastSqe' = Len(sqe) + 1

(* accept, connect, send, recv, read, close, shutdown, poll, recvmsg,      *)
(* sendmsg, timeout: an operation whose handle is returned to the caller.  *)
Issue ==
  /\ UserRuns /\ Call
  /\ SqRoom
  /\ finalizeSqe("io", getNextOpId.id, 0)
  /\ nextOpId' = getNextOpId.next
  /\ UNCHANGED <<linked, cq, completers, coroVars, pc, aborted, histVars>>

(* "io_uring full": the handle is invalid, but the id is used up.          *)
IssueFull ==
  /\ UserRuns /\ Call
  /\ ~SqRoom
  /\ nextOpId' = getNextOpId.next
  /\ UNCHANGED <<ringVars, cq, completers, coroVars, pc, aborted, histVars>>
-----------------------------------------------------------------------------
MapSize == Cardinality({i \in Ids : completers[i] # NoCoro})

(* OperationAwaiter::await_suspend for the operation number n with the     *)
(* given id, then back to whoever started or resumed the coroutine.        *)
Suspend(n, id) ==
  /\ MapSize < MapCapacity
  /\ completers' = [completers EXCEPT ![id] = Current]
  /\ cstate' = [cstate EXCEPT ![Current] = "suspended"]
  /\ awaits' = [awaits EXCEPT ![Current] = n]
  /\ disabled' = disabled \ {n}
  /\ Return
  /\ UNCHANGED aborted

(* assert(size() < capacity()) in CompleterMap::insert.                    *)
InsertAborts ==
  /\ MapSize >= MapCapacity
  /\ aborted' = "mapFull"
  /\ UNCHANGED <<completers, coroVars, disabled>>

(* No completion will be dispatched to the awaiter of handle n if the      *)
(* completion of the operation has been dispatched before, or if the       *)
(* handle is one that cancel returned.                                     *)
lateWith(n) ==
  late \cup {m \in {n} : phase[m] = "done" \/ sqe[m].kind = "cancel"}

(* co_await of a valid handle.  CompleterMap::insert forbids a key that is *)
(* already stored.                                                         *)
Await(n) ==
  /\ CoroRuns
  /\ completers[sqe[n].id] = NoCoro
  /\ Suspend(n, sqe[n].id) \/ InsertAborts
  /\ late' = lateWith(n)
  /\ UNCHANGED <<nextOpId, ringVars, cq, pc, calls>>

(* The wrappers that await the operation they issue: timeout(Duration),    *)
(* timeout(TimePoint), recvfrom, sendto, connect(IpAddressPort),           *)
(* EventFd::read.                                                          *)
IssueAndAwait ==
  /\ CoroRuns /\ Call
  /\ SqRoom
  /\ completers[getNextOpId.id] = NoCoro
  /\ finalizeSqe("io", getNextOpId.id, 0)
  /\ nextOpId' = getNextOpId.next
  /\ Suspend(Len(sqe) + 1, getNextOpId.id) \/ InsertAborts
  /\ UNCHANGED <<linked, cq, pc, late>>

(* They do not check the handle: co_await of an invalid one fails the      *)
(* assertion of OperationHandle::operator co_await.                        *)
IssueAndAwaitFull ==
  /\ CoroRuns /\ Call
  /\ ~SqRoom
  /\ nextOpId' = getNextOpId.next
  /\ aborted' = "awaitInvalid"
  /\ UNCHANGED <<ringVars, cq, completers, coroVars, pc, histVars>>

(* timeout(TimePoint) and timeout(TimePoint, op) with a time point ahead:  *)
(* assert(now >= tp) in setTimespec fails, before an operation is issued.  *)
TimePointAborts ==
  /\ CoroRuns /\ Call
  /\ aborted' = "timePointAhead"
  /\ UNCHANGED <<nextOpId, ringVars, cq, completers, coroVars, pc, histVars>>

(* Faults of linkTimeout: it does not compare lastSqe_ with the operation, *)
(* so that the flag and the timeout go to whatever was issued last; it     *)
(* does not test lastSqe_ for nullptr; it does not set the flag.           *)
mayLinkAny(n) == lastSqe # 0

mayLinkNull(n) == lastSqe # 0 => sqe[lastSqe].id = sqe[n].id

(* assert(lastSqe_ && lastSqe_->user_data == op.id)                        *)
mayLink(n) == lastSqe # 0 /\ sqe[lastSqe].id = sqe[n].id

linkFlagForgotten == linked

linkFlag == linked \cup {lastSqe}

(* timeout(Duration, op) and timeout(TimePoint, op): linkTimeout, and then *)
(* the handle is awaited.  It may be one of cancel(): every cancellation   *)
(* and every timeout has the id OpIdIgnore, so that the assertion holds    *)
(* whichever of them was issued last.                                      *)
Timeout(n) ==
  /\ CoroRuns /\ Call
  /\ mayLink(n)
  /\ SqRoom
  /\ completers[sqe[n].id] = NoCoro
  /\ linked' = linkFlag
  /\ finalizeSqe("linkTimeout", OpIdIgnore, n)
  /\ Suspend(n, sqe[n].id) \/ InsertAborts
  /\ late' = lateWith(n)
  /\ UNCHANGED <<nextOpId, cq, pc>>

(* The operation is not the last one issued: the assertion fails.  There   *)
(* is no room for the timeout: linkTimeout returns an invalid handle, and  *)
(* the await of it aborts.                                                 *)
TimeoutNotLast(n) ==
  /\ CoroRuns /\ Call
  /\ ~mayLink(n)
  /\ aborted' = "notLastSqe"
  /\ UNCHANGED <<nextOpId, ringVars, cq, completers, coroVars, pc, histVars>>

TimeoutFull(n) ==
  /\ CoroRuns /\ Call
  /\ mayLink(n)
  /\ ~SqRoom
  /\ linked' = linkFlag
  /\ aborted' = "awaitInvalid"
  /\ UNCHANGED <<nextOpId, sqe, phase, lastSqe, cq, completers, coroVars, pc,
                 histVars>>
-----------------------------------------------------------------------------
(* prepareAsyncCancel; when the submission queue is full the request is    *)
(* dropped with a warning.                                                 *)
SubmitCancel(id) ==
  /\ IF SqRoom THEN finalizeSqe("cancel", OpIdIgnore, id)
               ELSE UNCHANGED <<sqe, phase, lastSqe>>
  /\ UNCHANGED linked

(* Fault: the completer stays in the map.                                  *)
CancelKeepsCompleter(n, cancelHandler) ==
  /\ UserRuns /\ Call
  /\ disabled' = IF cancelHandler THEN disabled \cup {n} ELSE disabled
  /\ SubmitCancel(sqe[n].id)
  /\ UNCHANGED <<nextOpId, cq, completers, coroVars, pc, aborted, late>>

(* IoQueue::cancel.  The coroutine whose completer is removed stays        *)
(* suspended.                                                              *)
Cancel(n, cancelHandler) ==
  /\ UserRuns /\ Call
  /\ completers' = IF cancelHandler
                   THEN [completers EXCEPT ![sqe[n].id] = NoCoro]
                   ELSE completers
  /\ disabled' = IF cancelHandler THEN disabled \cup {n} ELSE disabled
  /\ SubmitCancel(sqe[n].id)
  /\ UNCHANGED <<nextOpId, cq, coroVars, pc, aborted, late>>

(* A fire-and-forget coroutine is called, or a Task is awaited: it runs    *)
(* until it suspends or finishes.                                          *)
Start(c) ==
  /\ UserRuns /\ Call
  /\ cstate[c] = "none"
  /\ cstate' = [cstate EXCEPT ![c] = "running"]
  /\ awaits' = [awaits EXCEPT ![c] = 0]
  /\ stack' = Append(stack, c)
  /\ UNCHANGED <<nextOpId, ringVars, cq, completers, pc, aborted, histVars>>

Finish ==
  /\ CoroRuns
  /\ cstate' = [cstate EXCEPT ![Current] = "none"]
  /\ Return
  /\ UNCHANGED <<nextOpId, ringVars, cq, completers, awaits, pc, calls, aborted,
                 histVars>>

(* Fault: the awaiter has no destructor.                                   *)
DestroyWithoutCancel(c) ==
  /\ UserRuns /\ Call
  /\ cstate[c] = "suspended"
  /\ cstate' = [cstate EXCEPT ![c] = "none"]
  /\ UNCHANGED <<nextOpId, ringVars, cq, completers, awaits, stack, pc, aborted,
                 histVars>>

(* The Task at the bottom of a suspended coroutine is destroyed, and with  *)
(* it the frame and its OperationAwaiter, which does cancel(true).         *)
Destroy(c) ==
  /\ UserRuns /\ Call
  /\ cstate[c] = "suspended"
  /\ cstate' = [cstate EXCEPT ![c] = "none"]
  /\ completers' = [completers EXCEPT ![sqe[awaits[c]].id] = NoCoro]
  /\ disabled' = disabled \cup {awaits[c]}
  /\ SubmitCancel(sqe[awaits[c]].id)
  /\ UNCHANGED <<nextOpId, cq, awaits, stack, pc, aborted, late>>
-----------------------------------------------------------------------------
(* IoQueueImpl::run.                                                       *)
Loops(at) == aborted = "no" /\ stack = <<>> /\ pc = at

Run ==
  /\ Loops("main")
  /\ pc' = "check"
  /\ UNCHANGED <<nextOpId, ringVars, cq, completers, coroVars, calls, aborted,
                 histVars>>

(* while (completers_.size() > 0), and lastSqe_ = nullptr.  The faulty     *)
(* ones do not reset lastSqe_, or take a map with one completer for empty. *)
CheckWithoutReset ==
  /\ Loops("check")
  /\ pc' = IF MapSize > 0 THEN "submit" ELSE "main"
  /\ UNCHANGED <<nextOpId, ringVars, cq, completers, coroVars, calls, aborted,
                 histVars>>

CheckOffByOne ==
  /\ Loops("check")
  /\ pc' = IF MapSize > 1 THEN "submit" ELSE "main"
  /\ lastSqe' = IF MapSize > 1 THEN 0 ELSE lastSqe
  /\ UNCHANGED <<nextOpId, sqe, linked, phase, cq, completers, coroVars, calls,
                 aborted, histVars>>

Check ==
  /\ Loops("check")
  /\ pc' = IF MapSize > 0 THEN "submit" ELSE "main"
  /\ lastSqe' = IF MapSize > 0 THEN 0 ELSE lastSqe
  /\ UNCHANGED <<nextOpId, sqe, linked, phase, cq, completers, coroVars, calls,
                 aborted, histVars>>

(* submitSqes(1): the kernel takes the whole queue and waits for a         *)
(* completion, or takes a part of it, never splitting a link, and returns  *)
(* at once.                                                                *)
Submit(taken) ==
  /\ Loops("submit")
  /\ taken \subseteq Queued
  /\ \A m \in taken, n \in Queued : n < m => n \in taken
  /\ \A m \in taken : m \in linked => m + 1 \notin Queued \ taken
  /\ taken = {} => Queued = {}
  /\ phase' = [n \in Serials |-> IF n \in taken THEN "kernel" ELSE phase[n]]
  /\ pc' = IF taken = Queued THEN "wait" ELSE "peek"
  /\ UNCHANGED <<nextOpId, sqe, linked, lastSqe, cq, completers, coroVars, calls,
                 aborted, histVars>>

SubmitAny == \E taken \in SUBSET Queued : Submit(taken)

(* An error of io_uring_enter, or nothing to peek: continue.               *)
Continue ==
  /\ \/ Loops("submit")
     \/ Loops("wait") /\ cq = <<>>    \* interrupted by a signal
     \/ Loops("peek") /\ cq = <<>>
  /\ pc' = "check"
  /\ UNCHANGED <<nextOpId, ringVars, cq, completers, coroVars, calls, aborted,
                 histVars>>

Peeks == (Loops("wait") \/ Loops("peek")) /\ cq # <<>>

(* The completion has OpIdIgnore or no completer: advanceCq.  The faulty   *)
(* one takes a completion for one of these without looking it up.          *)
SkipWithoutLookup ==
  /\ Peeks
  /\ phase' = [phase EXCEPT ![Head(cq)] = "done"]
  /\ cq' = Tail(cq)
  /\ pc' = "check"
  /\ UNCHANGED <<nextOpId, sqe, linked, lastSqe, completers, coroVars, calls,
                 aborted, histVars>>

Skip ==
  /\ Peeks
  /\ LET n == Head(cq)
     IN  /\ sqe[n].id = OpIdIgnore \/ completers[sqe[n].id] = NoCoro
         /\ phase' = [phase EXCEPT ![n] = "done"]
  /\ cq' = Tail(cq)
  /\ pc' = "check"
  /\ UNCHANGED <<nextOpId, sqe, linked, lastSqe, completers, coroVars, calls,
                 aborted, histVars>>

(* The completer is removed from the map and complete() resumes its        *)
(* coroutine, whose awaiter forgets the operation.                         *)
Dispatch ==
  /\ Peeks
  /\ LET n == Head(cq)
         c == completers[sqe[n].id]
     IN  /\ sqe[n].id # OpIdIgnore /\ c # NoCoro
         /\ phase' = [phase EXCEPT ![n] = "done"]
         /\ completers' = [completers EXCEPT ![sqe[n].id] = NoCoro]
         /\ cstate' = [cstate EXCEPT ![c] = "running"]
         /\ awaits' = [awaits EXCEPT ![c] = 0]
         /\ stack' = <<c>>
  /\ pc' = "dispatch"
  /\ UNCHANGED <<nextOpId, sqe, linked, lastSqe, cq, calls, aborted, histVars>>

(* The coroutine has suspended or finished: advanceCq.                     *)
Advance ==
  /\ Loops("dispatch")
  /\ cq' = Tail(cq)
  /\ pc' = "check"
  /\ UNCHANGED <<nextOpId, ringVars, completers, coroVars, calls, aborted,
                 histVars>>
-----------------------------------------------------------------------------
(* The kernel posts the completion of entry n.                             *)
Post(n) ==
  /\ aborted = "no"
  /\ phase[n] = "kernel"
  /\ phase' = [phase EXCEPT ![n] = "posted"]
  /\ cq' = Append(cq, n)
  /\ UNCHANGED <<nextOpId, sqe, linked, lastSqe, completers, coroVars, pc, calls,
                 aborted, histVars>>

(* An operation completes by itself.                                       *)
Complete(n) == sqe[n].kind = "io" /\ Post(n)

(* A timeout expires while the entry before it, which carries the link     *)
(* flag, is in progress: that entry completes with ECANCELED.  A timeout   *)
(* that is linked to a timeout does not end it.                            *)
Expire(n) ==
  /\ n + 1 \in DOMAIN sqe
  /\ n \in linked /\ sqe[n].kind # "linkTimeout"
  /\ sqe[n + 1].kind = "linkTimeout" /\ phase[n + 1] = "kernel"
  /\ Post(n)

(* A timeout ends once the operation before it has ended.                  *)
TimeoutEnds(n) ==
  /\ sqe[n].kind = "linkTimeout"
  /\ phase[n - 1] # "kernel"
  /\ Post(n)

(* A cancellation makes its target complete with ECANCELED; it ends, with  *)
(* or without having found the target.                                     *)
CancelHits(m, n) ==
  /\ sqe[m].kind = "cancel" /\ phase[m] = "kernel"
  /\ sqe[m].target = sqe[n].id
  /\ Post(n)

CancelEnds(m) == sqe[m].kind = "cancel" /\ Post(m)
-----------------------------------------------------------------------------
(* A queue without operations; its ids are about to wrap around if FirstId *)
(* is close to OpIdInvalid.                                                *)
Init ==
  /\ nextOpId = FirstId
  /\ sqe = <<>> /\ linked = {} /\ lastSqe = 0
  /\ phase = [n \in Serials |-> "free"]
  /\ cq = <<>>
  /\ completers = [i \in Ids |-> NoCoro]
  /\ cstate = [c \in Coros |-> "none"]
  /\ awaits = [c \in Coros |-> 0]
  /\ stack = <<>>
  /\ pc = "main"
  /\ calls = 0
  /\ aborted = "no"
  /\ disabled = {} /\ late = {}

User ==
  \/ Issue \/ IssueFull
  \/ IssueAndAwait \/ IssueAndAwaitFull \/ TimePointAborts
  \/ Finish
  \/ \E n \in Handles : Await(n) \/ Timeout(n) \/ TimeoutNotLast(n) \/ TimeoutFull(n)
  \/ \E n \in Handles, cancelHandler \in BOOLEAN : Cancel(n, cancelHandler)
  \/ \E c \in Coros : Start(c) \/ Destroy(c)

Loop ==
  Run \/ Check \/ SubmitAny \/ Continue \/ Skip \/ Dispatch \/ Advance

Kernel ==
  \E n \in DOMAIN sqe :
    \/ Complete(n)
    \/ Expire(n)
    \/ TimeoutEnds(n)
    \/ CancelEnds(n)
    \/ \E m \in DOMAIN sqe : CancelHits(m, n)

Next == User \/ Loop \/ Kernel

Spec == Init /\ [][Next]_vars

(* Fairness.  run() is called and its steps are taken; an error of         *)
(* io_uring_enter is transient, so that submission succeeds if it is       *)
(* retried for ever; a coroutine that runs suspends or finishes; an armed  *)
(* timeout expires.  Nothing is assumed of an operation without timeout.   *)
Fairness ==
  /\ WF_vars(Run) /\ WF_vars(Check) /\ WF_vars(Skip) /\ WF_vars(Dispatch)
  /\ WF_vars(Advance)
  /\ WF_vars(Continue /\ pc = "peek")
  /\ SF_vars(SubmitAny)
  /\ WF_vars(Finish)
  /\ \A n \in Serials : WF_vars(Expire(n))

FairSpec == Spec /\ Fairness
-----------------------------------------------------------------------------
Sqe == [kind : Kinds, id : Ids, target : Nat]

TypeOK ==
  /\ nextOpId \in Ids
  /\ sqe \in Seq(Sqe) /\ Len(sqe) <= calls
  /\ linked \subseteq Serials
  /\ phase \in [Serials -> Phases]
  /\ cq \in Seq(DOMAIN sqe)
  /\ lastSqe \in 0 .. Len(sqe)
  /\ completers \in [Ids -> Coros \cup {NoCoro}]
  /\ cstate \in [Coros -> {"none", "running", "suspended"}]
  /\ awaits \in [Coros -> 0 .. Len(sqe)]
  /\ stack \in Seq(Coros)
  /\ pc \in {"main", "check", "submit", "wait", "peek", "dispatch"}
  /\ calls \in 0 .. MaxCalls
  /\ aborted \in Aborts
  /\ disabled \subseteq Serials
  /\ late \subseteq Serials

(* A completer in the map points to the OperationAwaiter of a frame that   *)
(* exists, is suspended, and awaits the operation with that id: complete() *)
(* never writes to or resumes a destroyed or a running coroutine.          *)
NoDanglingCompleter ==
  \A i \in Ids :
    completers[i] # NoCoro =>
      /\ cstate[completers[i]] = "suspended"
      /\ awaits[completers[i]] # 0
      /\ sqe[awaits[completers[i]]].id = i

(* The strengthening that makes NoDanglingCompleter inductive: a suspended *)
(* coroutine has an operation for its destructor to cancel; the running    *)
(* coroutines on the stack are distinct; the completion being dispatched   *)
(* is still in the queue.                                                  *)
SuspendedAwaits == \A c \in Coros : cstate[c] = "suspended" => awaits[c] # 0

StackRuns ==
  /\ \A i \in DOMAIN stack : cstate[stack[i]] = "running"
  /\ \A i, j \in DOMAIN stack : stack[i] = stack[j] => i = j

DispatchHasCqe == pc = "dispatch" => cq # <<>>

CoroInv == NoDanglingCompleter /\ SuspendedAwaits /\ StackRuns
IInv == TypeOK /\ CoroInv /\ DispatchHasCqe

(* A coroutine is resumed by the completion of the very operation that it  *)
(* awaits, not by that of another one with the same id.                    *)
ResumedByOwnOperation ==
  [][\A c \in Coros :
       cstate[c] = "suspended" /\ cstate'[c] = "running" => awaits[c] = Head(cq)]_vars

(* After cancel(operation, true) "the handler will not be called in either *)
(* case" (ioqueue.hpp), whether the completion of the operation was in     *)
(* the submission queue, in the kernel or already in the completion queue. *)
NotCalledAfterCancel ==
  [][\A c \in Coros :
       cstate[c] = "suspended" /\ cstate'[c] = "running" => Head(cq) \notin disabled]_vars

(* run() never waits for an operation that will not complete: the          *)
(* operation of every completer is still under way, unless it was awaited  *)
(* after its completion had been dropped for want of a completer, or the   *)
(* handle is one of cancel().                                              *)
NoLostCompletion ==
  \A i \in Ids :
    completers[i] # NoCoro =>
      LET n == awaits[completers[i]]
      IN  phase[n] \in {"queued", "kernel", "posted"} \/ n \in late

(* lastSqe_ never points to an entry that the kernel has taken, whose slot *)
(* the next operation may overwrite; it is the newest entry.               *)
LastSqeIsQueued ==
  lastSqe # 0 => lastSqe = Len(sqe) /\ phase[lastSqe] = "queued"

(* A timeout issued for an operation directly follows it, linked to it,    *)
(* and one that follows an operation was issued for it: no operation is    *)
(* cancelled by a timeout that was not issued for it, also when timeouts   *)
(* are issued for the handles of cancellations.  And an entry that carries *)
(* the link flag is followed by a timeout, unless the process is aborted:  *)
(* it never drags the next operation into its chain.                       *)
TimeoutFollowsItsOperation ==
  /\ \A n \in DOMAIN sqe :
       sqe[n].kind = "linkTimeout" =>
         /\ n - 1 \in linked
         /\ n - 1 \in Operations \/ sqe[n].target \in Operations =>
              sqe[n].target = n - 1
  /\ aborted = "no" =>
       \A n \in linked : /\ n + 1 \in DOMAIN sqe
                          /\ sqe[n + 1].kind = "linkTimeout"

Awaited(n) == \E i \in Ids : completers[i] # NoCoro /\ awaits[completers[i]] = n

(* run() never drops the completion of an operation that a coroutine       *)
(* awaits: no operation has the id OpIdIgnore, even after the ids have     *)
(* wrapped around.                                                         *)
AwaitedIsNotSkipped ==
  [][\A n \in Operations :
       phase[n] = "posted" /\ phase'[n] = "done" /\ Awaited(n) => stack' # <<>>]_vars

(* A completion that has been posted reaches the coroutine that awaits it. *)
CompletionIsDelivered ==
  \A n \in Serials :
    (n \in Operations /\ phase[n] = "posted" /\ Awaited(n))
      ~> (~Awaited(n) \/ aborted # "no")

HasTimeout(n) ==
  \E m \in DOMAIN sqe : sqe[m].kind = "linkTimeout" /\ sqe[m].target = n

(* An operation with a timeout does not keep its coroutine waiting for     *)
(* ever, unless it is awaited once more after it has completed, or the     *)
(* handle of a cancel() is itself cancelled, which may hit the timeout:    *)
(* they have the same id.                                                  *)
TimeoutEndsWait ==
  \A n \in Serials :
    (HasTimeout(n) /\ Awaited(n))
      ~> \/ ~Awaited(n) \/ aborted # "no"
         \/ n \in late
         \/ \E m \in DOMAIN sqe : sqe[m].kind = "cancel" /\ sqe[m].target = OpIdIgnore

(* completermap.cpp: assert(size() < capacity()) in insert, for a program  *)
(* that awaits only operations that are under way.                         *)
MapNeverFull == late = {} => aborted # "mapFull"
=============================================================================
