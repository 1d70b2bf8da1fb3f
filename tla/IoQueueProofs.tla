--------------------------- MODULE IoQueueProofs ----------------------------
(***************************************************************************)
(* Proofs about IoQueue for every number of coroutines, every size of the  *)
(* queue, the map and the id space and every number of calls: the types    *)
(* hold, no completer ever points to a coroutine frame that is destroyed,  *)
(* running, or awaiting another operation, lastSqe_ is never stale, and no *)
(* awaited completion is dropped.  As long as no id is used twice: every   *)
(* coroutine gets the result of its own operation, none after cancel(),    *)
(* timeouts follow their operations, and no completion is lost.            *)
(***************************************************************************)
EXTENDS IoQueue, TLAPS, SequenceTheorems

(* Every id handed out is an id, and so is the next one.                   *)
LEMMA OpIdType ==
  ASSUME TypeOK
  PROVE  getNextOpId.id \in Ids /\ getNextOpId.next \in Ids
BY SizeAssumption, SMT DEF TypeOK, getNextOpId, Ids, OpIdInvalid, OpIdIgnore

(* What preparing an entry does to the log of entries.                     *)
LEMMA FinalizeFacts ==
  ASSUME TypeOK, calls < MaxCalls,
         NEW k \in Kinds, NEW i \in Ids, NEW t \in Nat, finalizeSqe(k, i, t)
  PROVE  /\ sqe' \in Seq(Sqe) /\ Len(sqe') = Len(sqe) + 1
         /\ \A n \in DOMAIN sqe : n \in DOMAIN sqe' /\ sqe'[n] = sqe[n]
         /\ sqe'[Len(sqe) + 1].id = i
         /\ phase' \in [Serials -> Phases]
         /\ lastSqe' \in 0 .. Len(sqe')
<1> DEFINE e == [kind |-> k, id |-> i, target |-> t]
<1>1. e \in Sqe /\ e.id = i
  BY SMT DEF Sqe
<1>2. sqe \in Seq(Sqe) /\ Len(sqe) \in Nat /\ phase \in [Serials -> Phases]
  BY SMT DEF TypeOK
<1>3. sqe' = Append(sqe, e) /\ lastSqe' = Len(sqe) + 1
  BY Zenon DEF finalizeSqe
<1>4. phase' \in [Serials -> Phases]
  <2>1. "queued" \in Phases
    BY Zenon DEF Phases
  <2>2. QED
    BY <1>2, <2>1, Zenon DEF finalizeSqe
<1> HIDE DEF e
<1>5. QED
  BY <1>1, <1>2, <1>3, <1>4, SMT

(* A cancellation prepares an entry or does nothing.                       *)
LEMMA SubmitCancelFacts ==
  ASSUME TypeOK, calls < MaxCalls, NEW i \in Ids, SubmitCancel(i)
  PROVE  /\ sqe' \in Seq(Sqe) /\ Len(sqe') \in {Len(sqe), Len(sqe) + 1}
         /\ \A n \in DOMAIN sqe : n \in DOMAIN sqe' /\ sqe'[n] = sqe[n]
         /\ phase' \in [Serials -> Phases]
         /\ lastSqe' \in 0 .. Len(sqe')
         /\ linked' = linked
<1>1. OpIdIgnore \in Ids /\ i \in Nat /\ "cancel" \in Kinds
  BY SizeAssumption, SMT DEF OpIdIgnore, Ids, Kinds
<1>2. CASE SqRoom
  <2>1. finalizeSqe("cancel", OpIdIgnore, i)
    BY <1>2, Zenon DEF SubmitCancel
  <2>2. QED
    BY <1>1, <2>1, FinalizeFacts, Zenon DEF SubmitCancel
<1>3. CASE ~SqRoom
  BY <1>3, SMT DEF SubmitCancel, TypeOK
<1>4. QED
  BY <1>2, <1>3, Zenon

(* The coroutine on top of the stack, and the stack below it.              *)
LEMMA PopFacts ==
  ASSUME TypeOK, StackRuns, stack # <<>>, Return
  PROVE  /\ Current \in Coros /\ cstate[Current] = "running"
         /\ stack' \in Seq(Coros)
         /\ DOMAIN stack' \subseteq DOMAIN stack
         /\ \A i \in DOMAIN stack' : stack'[i] = stack[i] /\ stack[i] # Current
<1>1. stack \in Seq(Coros) /\ Len(stack) \in Nat /\ Len(stack) > 0
  BY SMT DEF TypeOK
<1>2. /\ stack' \in Seq(Coros) /\ Len(stack') = Len(stack) - 1
      /\ \A i \in 1 .. Len(stack) - 1 : stack'[i] = stack[i]
  <2> DEFINE k == Len(stack) - 1
  <2>1. k \in Nat /\ 1 \in Int /\ k \in Int /\ stack' = SubSeq(stack, 1, k)
    BY <1>1, SMT DEF Return
  <2>2. \A i \in 1 .. k : stack[i] \in Coros
    BY <1>1, <2>1, SMT
  <2> HIDE DEF k
  <2>3. /\ SubSeq(stack, 1, k) \in Seq(Coros)
        /\ Len(SubSeq(stack, 1, k)) = IF 1 <= k THEN k - 1 + 1 ELSE 0
        /\ \A i \in 1 .. k - 1 + 1 : SubSeq(stack, 1, k)[i] = stack[1 + i - 1]
    BY <2>1, <2>2, SubSeqProperties, SMT
  <2>4. Len(stack') = k /\ \A i \in 1 .. k : stack'[i] = stack[i]
    BY <2>1, <2>3, SMT
  <2>5. QED
    BY <2>1, <2>3, <2>4, Zenon DEF k
<1>3. Current \in Coros /\ cstate[Current] = "running"
  BY <1>1, SMT DEF Current, StackRuns
<1>4. \A i \in 1 .. Len(stack) - 1 : stack[i] # Current
  BY <1>1, SMT DEF Current, StackRuns
<1>5. QED
  BY <1>1, <1>2, <1>3, <1>4, SMT

(* The log of entries grows by one entry or stays.                         *)
LogGrows ==
  /\ sqe' \in Seq(Sqe) /\ Len(sqe') \in {Len(sqe), Len(sqe) + 1}
  /\ \A n \in DOMAIN sqe : n \in DOMAIN sqe' /\ sqe'[n] = sqe[n]

LEMMA GrowTypes ==
  ASSUME TypeOK, LogGrows
  PROVE  /\ cq \in Seq(DOMAIN sqe')
         /\ 0 .. Len(sqe) \subseteq 0 .. Len(sqe')
         /\ awaits \in [Coros -> 0 .. Len(sqe')]
         /\ lastSqe \in 0 .. Len(sqe')
<1>1. DOMAIN sqe \subseteq DOMAIN sqe' /\ cq \in Seq(DOMAIN sqe)
  BY Zenon DEF TypeOK, LogGrows
<1>2. cq \in Seq(DOMAIN sqe')
  BY <1>1, SeqMonotonic, Zenon
<1>3. Len(sqe) \in Nat /\ Len(sqe') \in Nat /\ Len(sqe) <= Len(sqe')
  BY SMT DEF TypeOK, LogGrows
<1>4. 0 .. Len(sqe) \subseteq 0 .. Len(sqe')
  BY <1>3, SMT
<1>5. awaits \in [Coros -> 0 .. Len(sqe)] /\ lastSqe \in 0 .. Len(sqe)
  BY Zenon DEF TypeOK
<1>6. QED
  BY <1>2, <1>4, <1>5, Zenon

(* Steps that touch neither the completers nor the coroutines.             *)
LEMMA CorosUntouched ==
  ASSUME TypeOK, CoroInv, LogGrows, UNCHANGED <<completers, coroVars>>
  PROVE  CoroInv'
<1>1. \A c \in Coros : awaits[c] # 0 => awaits[c] \in DOMAIN sqe
  BY SMT DEF TypeOK
<1>2. UNCHANGED <<completers, cstate, awaits, stack>>
  BY Zenon DEF coroVars
<1>3. NoDanglingCompleter'
  <2> SUFFICES ASSUME NEW i \in Ids, completers[i] # NoCoro
               PROVE  /\ cstate[completers[i]] = "suspended"
                      /\ awaits[completers[i]] # 0
                      /\ sqe'[awaits[completers[i]]].id = i
    BY <1>2, Zenon DEF NoDanglingCompleter
  <2>1. completers[i] \in Coros
    BY Zenon DEF TypeOK
  <2>2. QED
    BY <1>1, <2>1, Zenon DEF CoroInv, NoDanglingCompleter, LogGrows
<1>4. QED
  BY <1>2, <1>3, Zenon DEF CoroInv, SuspendedAwaits, StackRuns

(* Steps that remove a completer: its coroutine stays suspended.           *)
LEMMA CompleterRemoved ==
  ASSUME TypeOK, CoroInv, LogGrows, UNCHANGED coroVars, NEW k \in Ids,
         completers' = [completers EXCEPT ![k] = NoCoro]
  PROVE  CoroInv' /\ completers' \in [Ids -> Coros \cup {NoCoro}]
<1>0. completers \in [Ids -> Coros \cup {NoCoro}]
  BY Zenon DEF TypeOK
<1>1. \A c \in Coros : awaits[c] # 0 => awaits[c] \in DOMAIN sqe
  BY SMT DEF TypeOK
<1>2. UNCHANGED <<cstate, awaits, stack>>
  BY Zenon DEF coroVars
<1>3. completers' \in [Ids -> Coros \cup {NoCoro}]
  BY <1>0, Zenon
<1>4. NoDanglingCompleter'
  <2> SUFFICES ASSUME NEW i \in Ids, completers'[i] # NoCoro
               PROVE  /\ cstate[completers'[i]] = "suspended"
                      /\ awaits[completers'[i]] # 0
                      /\ sqe'[awaits[completers'[i]]].id = i
    BY <1>2, Zenon DEF NoDanglingCompleter
  <2>1. completers'[i] = completers[i] /\ completers[i] \in Coros
    BY <1>0, Zenon
  <2>2. QED
    BY <1>1, <2>1, Zenon DEF CoroInv, NoDanglingCompleter, LogGrows
<1>5. QED
  BY <1>2, <1>3, <1>4, Zenon DEF CoroInv, SuspendedAwaits, StackRuns

(* await_suspend: the current coroutine is suspended with its completer    *)
(* under the id of the entry it awaits.                                    *)
LEMMA SuspendKeeps ==
  ASSUME TypeOK, CoroInv, LogGrows, stack # <<>>,
         NEW n \in DOMAIN sqe', NEW id \in Ids, sqe'[n].id = id, Suspend(n, id)
  PROVE  /\ CoroInv'
         /\ completers' \in [Ids -> Coros \cup {NoCoro}]
         /\ cstate' \in [Coros -> {"none", "running", "suspended"}]
         /\ awaits' \in [Coros -> 0 .. Len(sqe')]
         /\ stack' \in Seq(Coros)
<1> DEFINE c == Current
<1>1. /\ c \in Coros /\ cstate[c] = "running"
      /\ stack' \in Seq(Coros)
      /\ DOMAIN stack' \subseteq DOMAIN stack
      /\ \A i \in DOMAIN stack' : stack'[i] = stack[i] /\ stack[i] # c
  BY PopFacts, Zenon DEF Suspend, CoroInv
<1>2. /\ completers' = [completers EXCEPT ![id] = c]
      /\ cstate' = [cstate EXCEPT ![c] = "suspended"]
      /\ awaits' = [awaits EXCEPT ![c] = n]
  BY Zenon DEF Suspend
<1> HIDE DEF c
<1>3. /\ completers \in [Ids -> Coros \cup {NoCoro}]
      /\ cstate \in [Coros -> {"none", "running", "suspended"}]
      /\ awaits \in [Coros -> 0 .. Len(sqe')]
      /\ stack \in Seq(Coros)
  BY GrowTypes, Zenon DEF TypeOK
<1>n. n \in 0 .. Len(sqe') /\ n # 0
  BY SMT DEF LogGrows
<1>4. /\ completers' \in [Ids -> Coros \cup {NoCoro}]
      /\ cstate' \in [Coros -> {"none", "running", "suspended"}]
      /\ awaits' \in [Coros -> 0 .. Len(sqe')]
  BY <1>1, <1>2, <1>3, <1>n, Zenon
<1>5. NoDanglingCompleter'
  <2> SUFFICES ASSUME NEW i \in Ids, completers'[i] # NoCoro
               PROVE  /\ cstate'[completers'[i]] = "suspended"
                      /\ awaits'[completers'[i]] # 0
                      /\ sqe'[awaits'[completers'[i]]].id = i
    BY Zenon DEF NoDanglingCompleter
  <2>1. CASE i = id
    BY <1>1, <1>2, <1>3, <1>n, <2>1, Zenon
  <2>2. CASE i # id
    <3>1. completers'[i] = completers[i] /\ completers[i] \in Coros
      BY <1>2, <1>3, <2>2, Zenon
    <3>2. /\ cstate[completers[i]] = "suspended"
          /\ awaits[completers[i]] # 0
          /\ sqe[awaits[completers[i]]].id = i
      BY <3>1, Zenon DEF CoroInv, NoDanglingCompleter
    <3>3. completers[i] # c
      BY <1>1, <3>2, SMT
    <3>4. awaits[completers[i]] \in DOMAIN sqe
      BY <3>1, <3>2, SMT DEF TypeOK
    <3>5. QED
      BY <1>1, <1>2, <1>3, <3>1, <3>2, <3>3, <3>4, Zenon DEF LogGrows
  <2>3. QED
    BY <2>1, <2>2, Zenon
<1>6. SuspendedAwaits'
  BY <1>1, <1>2, <1>3, <1>n, Zenon DEF CoroInv, SuspendedAwaits
<1>7. StackRuns'
  <2>1. \A i \in DOMAIN stack : stack[i] \in Coros
    BY <1>3, SMT
  <2>2. QED
    BY <1>1, <1>2, <1>3, <2>1, Zenon DEF CoroInv, StackRuns
<1>8. QED
  BY <1>1, <1>4, <1>5, <1>6, <1>7, Zenon DEF CoroInv
-----------------------------------------------------------------------------
LEMMA EntriesAreSerials ==
  ASSUME TypeOK
  PROVE  /\ DOMAIN sqe \subseteq Serials /\ Len(sqe) \in Nat
         /\ DOMAIN sqe = 1 .. Len(sqe)
         /\ \A n \in DOMAIN sqe : sqe[n] \in Sqe /\ sqe[n].id \in Ids
<1>1. sqe \in Seq(Sqe) /\ Len(sqe) <= calls /\ calls \in 0 .. MaxCalls
  BY Zenon DEF TypeOK
<1>2. DOMAIN sqe \subseteq Serials /\ Len(sqe) \in Nat /\ DOMAIN sqe = 1 .. Len(sqe)
  BY <1>1, SizeAssumption, SMT DEF Serials
<1>3. \A n \in DOMAIN sqe : sqe[n] \in Sqe
  BY <1>1, SMT
<1>4. \A e \in Sqe : e.id \in Ids
  BY SMT DEF Sqe
<1>5. QED
  BY <1>2, <1>3, <1>4, Zenon

LEMMA CallTypes ==
  ASSUME TypeOK, Call
  PROVE  /\ calls < MaxCalls /\ calls' \in 0 .. MaxCalls
         /\ LogGrows => Len(sqe') <= calls'
BY SizeAssumption, SMT DEF TypeOK, Call, LogGrows

LEMMA LogUnchanged ==
  ASSUME TypeOK, sqe' = sqe
  PROVE  LogGrows
BY SMT DEF TypeOK, LogGrows

LEMMA FinalizeGrows ==
  ASSUME TypeOK, calls < MaxCalls,
         NEW k \in Kinds, NEW i \in Ids, NEW t \in Nat, finalizeSqe(k, i, t)
  PROVE  /\ LogGrows
         /\ Len(sqe) + 1 \in DOMAIN sqe' /\ sqe'[Len(sqe) + 1].id = i
         /\ phase' \in [Serials -> Phases] /\ lastSqe' \in 0 .. Len(sqe')
<1>1. LogGrows
  BY FinalizeFacts, Zenon DEF LogGrows
<1>2. Len(sqe) + 1 \in DOMAIN sqe'
  <2>1. sqe' \in Seq(Sqe) /\ Len(sqe') = Len(sqe) + 1 /\ Len(sqe) \in Nat
    BY FinalizeFacts, EntriesAreSerials, Zenon
  <2>2. QED
    BY <2>1, SMT
<1>3. QED
  BY <1>1, <1>2, FinalizeFacts, Zenon

LEMMA IssueKeeps ==
  ASSUME IInv, Issue
  PROVE  IInv'
<1>0. TypeOK /\ CoroInv /\ DispatchHasCqe
  BY Zenon DEF IInv
<1>1. calls < MaxCalls /\ calls' \in 0 .. MaxCalls
  BY <1>0, CallTypes, Zenon DEF Issue
<1>2. /\ LogGrows
      /\ phase' \in [Serials -> Phases] /\ lastSqe' \in 0 .. Len(sqe')
  <2>1. "io" \in Kinds /\ 0 \in Nat
    BY SMT DEF Kinds
  <2>2. finalizeSqe("io", getNextOpId.id, 0)
    BY Zenon DEF Issue
  <2>3. QED
    BY <1>0, <1>1, <2>1, <2>2, OpIdType, FinalizeGrows, Zenon
<1>3. Len(sqe') <= calls'
  BY <1>0, <1>2, CallTypes, Zenon DEF Issue
<1>4. /\ UNCHANGED <<linked, cq, completers, cstate, awaits, stack, pc, aborted, disabled, late>>
      /\ nextOpId' = getNextOpId.next
  BY Zenon DEF Issue, coroVars, histVars
<1>5. TypeOK'
  BY <1>0, <1>1, <1>2, <1>3, <1>4, GrowTypes, OpIdType, Zenon DEF TypeOK, LogGrows
<1>6. CoroInv'
  BY <1>0, <1>2, <1>4, CorosUntouched, Zenon DEF coroVars
<1>7. QED
  BY <1>0, <1>4, <1>5, <1>6, Zenon DEF IInv, DispatchHasCqe

(* Calls that fail and change nothing but a few scalars.                   *)
LEMMA QuietCallKeeps ==
  ASSUME IInv, calls' \in 0 .. MaxCalls, Len(sqe) <= calls', nextOpId' \in Ids,
         linked' \subseteq Serials, aborted' \in Aborts,
         UNCHANGED <<sqe, phase, lastSqe, cq, completers, coroVars, pc, histVars>>
  PROVE  IInv'
<1>0. TypeOK /\ CoroInv /\ DispatchHasCqe
  BY Zenon DEF IInv
<1>1. UNCHANGED <<sqe, phase, lastSqe, cq, completers, cstate, awaits, stack, pc, disabled, late>>
  BY Zenon DEF coroVars, histVars
<1>2. TypeOK'
  BY <1>0, <1>1, Zenon DEF TypeOK
<1>3. CoroInv'
  BY <1>0, <1>1, LogUnchanged, CorosUntouched, Zenon DEF coroVars
<1>4. QED
  BY <1>0, <1>1, <1>2, <1>3, Zenon DEF IInv, DispatchHasCqe

LEMMA LinkFlagType ==
  ASSUME TypeOK, lastSqe # 0
  PROVE  linkFlag \subseteq Serials
BY SizeAssumption, SMT DEF TypeOK, Serials, linkFlag

LEMMA FailingCallsKeep ==
  ASSUME IInv,
         \/ IssueFull \/ IssueAndAwaitFull \/ TimePointAborts
         \/ \E n \in Handles : TimeoutNotLast(n) \/ TimeoutFull(n)
  PROVE  IInv'
<1>0. TypeOK
  BY Zenon DEF IInv
<1>1. calls' \in 0 .. MaxCalls /\ (sqe' = sqe => Len(sqe) <= calls')
  <2>1. Call
    BY Zenon
    DEF IssueFull, IssueAndAwaitFull, TimePointAborts, TimeoutNotLast, TimeoutFull
  <2>2. QED
    BY <1>0, <2>1, CallTypes, LogUnchanged, Zenon
<1>2. CASE IssueFull
  BY <1>0, <1>1, <1>2, OpIdType, QuietCallKeeps, Zenon DEF IssueFull, ringVars, TypeOK
<1>3. CASE IssueAndAwaitFull
  <2>1. "awaitInvalid" \in Aborts
    BY Zenon DEF Aborts
  <2>2. QED
    BY <1>0, <1>1, <1>3, <2>1, OpIdType, QuietCallKeeps, Zenon
    DEF IssueAndAwaitFull, ringVars, TypeOK
<1>4. CASE \E n \in Handles : TimeoutNotLast(n)
  <2>1. "notLastSqe" \in Aborts
    BY Zenon DEF Aborts
  <2>2. QED
    BY <1>0, <1>1, <1>4, <2>1, QuietCallKeeps, Zenon
    DEF TimeoutNotLast, ringVars, TypeOK
<1>5. CASE \E n \in Handles : TimeoutFull(n)
  <2>1. "awaitInvalid" \in Aborts
    BY Zenon DEF Aborts
  <2>2. linked' \subseteq Serials
    BY <1>0, <1>5, LinkFlagType, Zenon DEF TimeoutFull, mayLink
  <2>3. QED
    BY <1>0, <1>1, <1>5, <2>1, <2>2, QuietCallKeeps, Zenon DEF TimeoutFull, TypeOK
<1>6. CASE TimePointAborts
  <2>1. "timePointAhead" \in Aborts
    BY Zenon DEF Aborts
  <2>2. QED
    BY <1>0, <1>1, <1>6, <2>1, QuietCallKeeps, Zenon
    DEF TimePointAborts, ringVars, TypeOK
<1>7. QED
  BY <1>2, <1>3, <1>4, <1>5, <1>6, Zenon

(* The steps that await entry n of the log, which has the id `id'.         *)
LEMMA AwaitingKeeps ==
  ASSUME IInv, LogGrows, stack # <<>>,
         NEW n \in DOMAIN sqe', NEW id \in Ids, sqe'[n].id = id,
         Suspend(n, id) \/ InsertAborts,
         nextOpId' \in Ids, linked' \subseteq Serials,
         phase' \in [Serials -> Phases], lastSqe' \in 0 .. Len(sqe'),
         calls' \in 0 .. MaxCalls, Len(sqe') <= calls', late' \subseteq Serials,
         UNCHANGED <<cq, pc>>
  PROVE  IInv'
<1>0. TypeOK /\ CoroInv /\ DispatchHasCqe
  BY Zenon DEF IInv
<1>1. DispatchHasCqe'
  BY <1>0, Zenon DEF DispatchHasCqe
<1>2. CASE Suspend(n, id)
  <2>1. /\ CoroInv'
        /\ completers' \in [Ids -> Coros \cup {NoCoro}]
        /\ cstate' \in [Coros -> {"none", "running", "suspended"}]
        /\ awaits' \in [Coros -> 0 .. Len(sqe')]
        /\ stack' \in Seq(Coros)
    BY <1>0, <1>2, SuspendKeeps, Zenon
  <2>2. disabled' \subseteq Serials /\ aborted' = aborted
    BY <1>0, <1>2, Zenon DEF Suspend, TypeOK
  <2>3. TypeOK'
    BY <1>0, <2>1, <2>2, GrowTypes, Zenon DEF TypeOK, LogGrows
  <2>4. QED
    BY <1>1, <2>1, <2>3, Zenon DEF IInv
<1>3. CASE InsertAborts
  <2>1. /\ UNCHANGED <<completers, cstate, awaits, stack, disabled>>
        /\ aborted' \in Aborts
    BY <1>3, Zenon DEF InsertAborts, coroVars, Aborts
  <2>2. TypeOK'
    BY <1>0, <2>1, GrowTypes, Zenon DEF TypeOK, LogGrows
  <2>3. CoroInv'
    BY <1>0, <2>1, CorosUntouched, Zenon DEF coroVars
  <2>4. QED
    BY <1>1, <2>2, <2>3, Zenon DEF IInv
<1>4. QED
  BY <1>2, <1>3, Zenon

LEMMA LateType ==
  ASSUME TypeOK, NEW n \in Serials
  PROVE  lateWith(n) \subseteq Serials
BY Zenon DEF TypeOK, lateWith

LEMMA AwaitKeeps ==
  ASSUME IInv, NEW n \in Handles, Await(n)
  PROVE  IInv'
<1>0. TypeOK
  BY Zenon DEF IInv
<1>1. n \in DOMAIN sqe /\ n \in Serials /\ sqe[n].id \in Ids
  BY <1>0, EntriesAreSerials, Zenon DEF Handles
<1>2. /\ UNCHANGED <<nextOpId, sqe, linked, phase, lastSqe, cq, pc, calls>>
      /\ stack # <<>>
      /\ Suspend(n, sqe[n].id) \/ InsertAborts
  BY Zenon DEF Await, ringVars, CoroRuns
<1>3. late' \subseteq Serials
  BY <1>0, <1>1, LateType, Zenon DEF Await
<1>4. LogGrows
  BY <1>0, <1>2, LogUnchanged, Zenon
<1>5. QED
  BY <1>0, <1>1, <1>2, <1>3, <1>4, AwaitingKeeps, Zenon DEF TypeOK

LEMMA IssueAndAwaitKeeps ==
  ASSUME IInv, IssueAndAwait
  PROVE  IInv'
<1>0. TypeOK
  BY Zenon DEF IInv
<1>1. calls < MaxCalls /\ calls' \in 0 .. MaxCalls
  BY <1>0, CallTypes, Zenon DEF IssueAndAwait
<1>2. "io" \in Kinds /\ 0 \in Nat /\ getNextOpId.id \in Ids
  BY <1>0, OpIdType, SMT DEF Kinds
<1>3. finalizeSqe("io", getNextOpId.id, 0)
  BY Zenon DEF IssueAndAwait
<1>4. /\ LogGrows
      /\ Len(sqe) + 1 \in DOMAIN sqe' /\ sqe'[Len(sqe) + 1].id = getNextOpId.id
      /\ phase' \in [Serials -> Phases] /\ lastSqe' \in 0 .. Len(sqe')
  BY <1>0, <1>1, <1>2, <1>3, FinalizeGrows, Zenon
<1>5. Len(sqe') <= calls'
  BY <1>0, <1>4, CallTypes, Zenon DEF IssueAndAwait
<1>6. /\ UNCHANGED <<linked, cq, pc, late>>
      /\ stack # <<>>
      /\ nextOpId' = getNextOpId.next
      /\ Suspend(Len(sqe) + 1, getNextOpId.id) \/ InsertAborts
  BY Zenon DEF IssueAndAwait, CoroRuns
<1>7. linked' \subseteq Serials /\ late' \subseteq Serials /\ nextOpId' \in Ids
  BY <1>0, <1>6, OpIdType, Zenon DEF TypeOK
<1>8. QED
  BY <1>1, <1>2, <1>4, <1>5, <1>6, <1>7, AwaitingKeeps, Zenon

LEMMA TimeoutKeeps ==
  ASSUME IInv, NEW n \in Handles, Timeout(n)
  PROVE  IInv'
<1>0. TypeOK
  BY Zenon DEF IInv
<1>1. calls < MaxCalls /\ calls' \in 0 .. MaxCalls
  BY <1>0, CallTypes, Zenon DEF Timeout
<1>2. n \in DOMAIN sqe /\ n \in Serials /\ sqe[n].id \in Ids
  BY <1>0, EntriesAreSerials, Zenon DEF Handles
<1>3. "linkTimeout" \in Kinds /\ n \in Nat /\ OpIdIgnore \in Ids
  <2>1. n \in Nat
    BY <1>0, <1>2, EntriesAreSerials, SMT
  <2>2. QED
    BY <2>1, SizeAssumption, SMT DEF Kinds, OpIdIgnore, Ids
<1>4. finalizeSqe("linkTimeout", OpIdIgnore, n)
  BY Zenon DEF Timeout
<1>5. /\ LogGrows
      /\ phase' \in [Serials -> Phases] /\ lastSqe' \in 0 .. Len(sqe')
  BY <1>0, <1>1, <1>3, <1>4, FinalizeGrows, Zenon
<1>6. n \in DOMAIN sqe' /\ sqe'[n].id = sqe[n].id
  BY <1>2, <1>5, Zenon DEF LogGrows
<1>7. Len(sqe') <= calls'
  BY <1>0, <1>5, CallTypes, Zenon DEF Timeout
<1>8. linked' \subseteq Serials
  BY <1>0, LinkFlagType, Zenon DEF Timeout, mayLink
<1>9. /\ UNCHANGED <<nextOpId, cq, pc>>
      /\ stack # <<>> /\ late' = lateWith(n)
      /\ Suspend(n, sqe[n].id) \/ InsertAborts
  BY Zenon DEF Timeout, CoroRuns
<1>10. late' \subseteq Serials /\ nextOpId' \in Ids
  BY <1>0, <1>2, <1>9, LateType, Zenon DEF TypeOK
<1>11. QED
  BY <1>1, <1>2, <1>5, <1>6, <1>7, <1>8, <1>9, <1>10, AwaitingKeeps, Zenon

LEMMA CancelKeeps ==
  ASSUME IInv, NEW n \in Handles, NEW h \in BOOLEAN, Cancel(n, h)
  PROVE  IInv'
<1>0. TypeOK /\ CoroInv /\ DispatchHasCqe
  BY Zenon DEF IInv
<1>1. calls < MaxCalls /\ calls' \in 0 .. MaxCalls
  BY <1>0, CallTypes, Zenon DEF Cancel
<1>2. n \in DOMAIN sqe /\ n \in Serials /\ sqe[n].id \in Ids
  BY <1>0, EntriesAreSerials, Zenon DEF Handles
<1>3. SubmitCancel(sqe[n].id)
  BY Zenon DEF Cancel
<1>4. /\ LogGrows /\ linked' = linked
      /\ phase' \in [Serials -> Phases] /\ lastSqe' \in 0 .. Len(sqe')
  BY <1>0, <1>1, <1>2, <1>3, SubmitCancelFacts, Zenon DEF LogGrows
<1>5. Len(sqe') <= calls'
  BY <1>0, <1>4, CallTypes, Zenon DEF Cancel
<1>6. UNCHANGED <<nextOpId, cq, cstate, awaits, stack, pc, aborted, late>>
  BY Zenon DEF Cancel, coroVars
<1>7. disabled' \subseteq Serials
  BY <1>0, <1>2, Zenon DEF Cancel, TypeOK
<1>8. CoroInv' /\ completers' \in [Ids -> Coros \cup {NoCoro}]
  <2>1. CASE completers' = [completers EXCEPT ![sqe[n].id] = NoCoro]
    BY <1>0, <1>2, <1>4, <1>6, <2>1, CompleterRemoved, Zenon DEF coroVars
  <2>2. CASE completers' = completers
    BY <1>0, <1>4, <1>6, <2>2, CorosUntouched, Zenon DEF coroVars, TypeOK
  <2>3. QED
    BY <2>1, <2>2, Zenon DEF Cancel
<1>9. TypeOK'
  BY <1>0, <1>1, <1>4, <1>5, <1>6, <1>7, <1>8, GrowTypes, Zenon DEF TypeOK, LogGrows
<1>10. QED
  BY <1>0, <1>6, <1>8, <1>9, Zenon DEF IInv, DispatchHasCqe

LEMMA StartKeeps ==
  ASSUME IInv, NEW c \in Coros, Start(c)
  PROVE  IInv'
<1>0. TypeOK /\ CoroInv /\ DispatchHasCqe
  BY Zenon DEF IInv
<1>1. /\ UNCHANGED <<nextOpId, sqe, linked, phase, lastSqe, cq, completers, pc, aborted,
                     disabled, late>>
      /\ cstate[c] = "none"
      /\ cstate' = [cstate EXCEPT ![c] = "running"]
      /\ awaits' = [awaits EXCEPT ![c] = 0]
      /\ stack' = Append(stack, c)
  BY Zenon DEF Start, ringVars, histVars
<1>2. calls' \in 0 .. MaxCalls /\ Len(sqe') <= calls'
  BY <1>0, <1>1, CallTypes, LogUnchanged, Zenon DEF Start
<1>3. /\ cstate \in [Coros -> {"none", "running", "suspended"}]
      /\ awaits \in [Coros -> 0 .. Len(sqe)] /\ 0 \in 0 .. Len(sqe)
      /\ completers \in [Ids -> Coros \cup {NoCoro}]
  <2>1. 0 \in 0 .. Len(sqe)
    BY <1>0, EntriesAreSerials, SMT
  <2>2. QED
    BY <1>0, <2>1, Zenon DEF TypeOK
<1>4. /\ stack \in Seq(Coros) /\ Len(stack) \in Nat
      /\ DOMAIN stack = 1 .. Len(stack)
      /\ stack' \in Seq(Coros) /\ DOMAIN stack' = 1 .. Len(stack) + 1
      /\ stack'[Len(stack) + 1] = c
      /\ \A i \in 1 .. Len(stack) : stack'[i] = stack[i] /\ stack[i] \in Coros
  BY <1>0, <1>1, SMT DEF TypeOK
<1>5. TypeOK'
  <2>1. /\ cstate' \in [Coros -> {"none", "running", "suspended"}]
        /\ awaits' \in [Coros -> 0 .. Len(sqe)]
    BY <1>1, <1>3, Zenon
  <2>2. QED
    BY <1>0, <1>1, <1>2, <1>4, <2>1, Zenon DEF TypeOK
<1>6. NoDanglingCompleter'
  <2> SUFFICES ASSUME NEW i \in Ids, completers[i] # NoCoro
               PROVE  /\ cstate'[completers[i]] = "suspended"
                      /\ awaits'[completers[i]] # 0
                      /\ sqe[awaits'[completers[i]]].id = i
    BY <1>1, Zenon DEF NoDanglingCompleter
  <2>1. /\ completers[i] \in Coros /\ cstate[completers[i]] = "suspended"
        /\ awaits[completers[i]] # 0 /\ sqe[awaits[completers[i]]].id = i
    BY <1>0, <1>3, Zenon DEF CoroInv, NoDanglingCompleter
  <2>2. completers[i] # c
    BY <1>1, <2>1, SMT
  <2>3. QED
    BY <1>1, <1>3, <2>1, <2>2, Zenon
<1>7. SuspendedAwaits'
  <2>1. ASSUME NEW d \in Coros, cstate'[d] = "suspended" PROVE awaits'[d] # 0
    <3>1. d # c
      BY <1>1, <1>3, <2>1, SMT
    <3>2. QED
      BY <1>0, <1>1, <1>3, <2>1, <3>1, Zenon DEF CoroInv, SuspendedAwaits
  <2>2. QED
    BY <2>1, Zenon DEF SuspendedAwaits
<1>8. StackRuns'
  <2>1. \A i \in 1 .. Len(stack) : cstate[stack[i]] = "running" /\ stack[i] # c
    <3>1. \A i \in 1 .. Len(stack) : cstate[stack[i]] = "running"
      BY <1>0, <1>4, Zenon DEF CoroInv, StackRuns
    <3>2. QED
      BY <1>1, <3>1, SMT
  <2>2. \A i \in DOMAIN stack' : i \in 1 .. Len(stack) \/ i = Len(stack) + 1
    BY <1>4, SMT
  <2>3. ASSUME NEW i \in DOMAIN stack' PROVE cstate'[stack'[i]] = "running"
    <3>1. CASE i = Len(stack) + 1
      BY <1>1, <1>3, <1>4, <3>1, Zenon
    <3>2. CASE i \in 1 .. Len(stack)
      <4>1. stack'[i] = stack[i] /\ stack[i] \in Coros
        BY <1>4, <3>2, Zenon
      <4>2. stack[i] # c /\ cstate[stack[i]] = "running"
        BY <2>1, <3>2, Zenon
      <4>3. QED
        BY <1>1, <1>3, <4>1, <4>2, Zenon
    <3>3. QED
      BY <2>2, <3>1, <3>2, Zenon
  <2>4. \A i, j \in DOMAIN stack' : stack'[i] = stack'[j] => i = j
    BY <1>0, <1>4, <2>1, <2>2, Zenon DEF CoroInv, StackRuns
  <2>5. QED
    BY <2>3, <2>4, Zenon DEF StackRuns
<1>9. QED
  BY <1>0, <1>1, <1>5, <1>6, <1>7, <1>8, Zenon DEF IInv, CoroInv, DispatchHasCqe

LEMMA FinishKeeps ==
  ASSUME IInv, Finish
  PROVE  IInv'
<1> DEFINE c == Current
<1>0. TypeOK /\ CoroInv /\ DispatchHasCqe
  BY Zenon DEF IInv
<1>1. /\ c \in Coros /\ cstate[c] = "running"
      /\ stack' \in Seq(Coros)
      /\ DOMAIN stack' \subseteq DOMAIN stack
      /\ \A i \in DOMAIN stack' : stack'[i] = stack[i] /\ stack[i] # c
  BY <1>0, PopFacts, Zenon DEF Finish, CoroRuns, CoroInv
<1>2. /\ UNCHANGED <<nextOpId, sqe, linked, phase, lastSqe, cq, completers, awaits, pc,
                     calls, aborted, disabled, late>>
      /\ cstate' = [cstate EXCEPT ![c] = "none"]
  BY Zenon DEF Finish, ringVars, histVars
<1> HIDE DEF c
<1>3. /\ cstate \in [Coros -> {"none", "running", "suspended"}]
      /\ completers \in [Ids -> Coros \cup {NoCoro}]
      /\ \A i \in DOMAIN stack : stack[i] \in Coros
  BY <1>0, SMT DEF TypeOK
<1>4. TypeOK'
  <2>1. cstate' \in [Coros -> {"none", "running", "suspended"}]
    BY <1>2, <1>3, Zenon
  <2>2. QED
    BY <1>0, <1>1, <1>2, <2>1, Zenon DEF TypeOK
<1>5. \A d \in Coros : cstate[d] = "suspended" => d # c /\ cstate'[d] = "suspended"
  <2>1. \A d \in Coros : cstate[d] = "suspended" => d # c
    BY <1>1, SMT
  <2>2. QED
    BY <1>2, <1>3, <2>1, Zenon
<1>6. NoDanglingCompleter'
  BY <1>0, <1>2, <1>3, <1>5, Zenon DEF CoroInv, NoDanglingCompleter
<1>7. SuspendedAwaits'
  <2>1. ASSUME NEW d \in Coros, cstate'[d] = "suspended" PROVE awaits[d] # 0
    <3>1. d # c
      BY <1>1, <1>2, <1>3, <2>1, SMT
    <3>2. QED
      BY <1>0, <1>2, <1>3, <2>1, <3>1, Zenon DEF CoroInv, SuspendedAwaits
  <2>2. QED
    BY <1>2, <2>1, Zenon DEF SuspendedAwaits
<1>8. StackRuns'
  BY <1>0, <1>1, <1>2, <1>3, Zenon DEF CoroInv, StackRuns
<1>9. QED
  BY <1>0, <1>2, <1>4, <1>6, <1>7, <1>8, Zenon DEF IInv, CoroInv, DispatchHasCqe

(* Destroying a frame removes the only completer that can point to it.     *)
LEMMA DestroyKeeps ==
  ASSUME IInv, NEW c \in Coros, Destroy(c)
  PROVE  IInv'
<1> DEFINE k == sqe[awaits[c]].id
<1>0. TypeOK /\ CoroInv /\ DispatchHasCqe
  BY Zenon DEF IInv
<1>1. /\ cstate[c] = "suspended"
      /\ cstate' = [cstate EXCEPT ![c] = "none"]
      /\ completers' = [completers EXCEPT ![k] = NoCoro]
      /\ disabled' = disabled \cup {awaits[c]}
      /\ SubmitCancel(k)
      /\ UNCHANGED <<nextOpId, cq, awaits, stack, pc, aborted, late>>
  BY Zenon DEF Destroy
<1>2. calls < MaxCalls /\ calls' \in 0 .. MaxCalls
  BY <1>0, CallTypes, Zenon DEF Destroy
<1>3. awaits[c] \in DOMAIN sqe /\ awaits[c] \in Serials /\ k \in Ids
  <2>1. awaits[c] # 0 /\ awaits[c] \in 0 .. Len(sqe)
    BY <1>0, <1>1, Zenon DEF CoroInv, SuspendedAwaits, TypeOK
  <2>2. awaits[c] \in DOMAIN sqe
    BY <1>0, <2>1, EntriesAreSerials, SMT
  <2>3. QED
    BY <1>0, <2>2, EntriesAreSerials, Zenon
<1>4. /\ LogGrows /\ linked' = linked
      /\ phase' \in [Serials -> Phases] /\ lastSqe' \in 0 .. Len(sqe')
  BY <1>0, <1>1, <1>2, <1>3, SubmitCancelFacts, Zenon DEF LogGrows
<1>5. Len(sqe') <= calls'
  BY <1>0, <1>4, CallTypes, Zenon DEF Destroy
<1> HIDE DEF k
<1>6. /\ cstate \in [Coros -> {"none", "running", "suspended"}]
      /\ completers \in [Ids -> Coros \cup {NoCoro}]
      /\ \A i \in DOMAIN stack : stack[i] \in Coros
  BY <1>0, SMT DEF TypeOK
<1>7. TypeOK'
  <2>1. /\ cstate' \in [Coros -> {"none", "running", "suspended"}]
        /\ completers' \in [Ids -> Coros \cup {NoCoro}]
    BY <1>1, <1>6, Zenon
  <2>2. disabled' \subseteq Serials
    BY <1>0, <1>1, <1>3, Zenon DEF TypeOK
  <2>3. QED
    BY <1>0, <1>1, <1>2, <1>4, <1>5, <2>1, <2>2, GrowTypes, Zenon DEF TypeOK, LogGrows
<1>8. NoDanglingCompleter'
  <2> SUFFICES ASSUME NEW i \in Ids, completers'[i] # NoCoro
               PROVE  /\ cstate'[completers'[i]] = "suspended"
                      /\ awaits[completers'[i]] # 0
                      /\ sqe'[awaits[completers'[i]]].id = i
    BY <1>1, Zenon DEF NoDanglingCompleter
  <2>1. i # k /\ completers'[i] = completers[i] /\ completers[i] \in Coros
    BY <1>1, <1>6, Zenon
  <2>2. /\ cstate[completers[i]] = "suspended"
        /\ awaits[completers[i]] # 0
        /\ sqe[awaits[completers[i]]].id = i
    BY <1>0, <2>1, Zenon DEF CoroInv, NoDanglingCompleter
  <2>3. completers[i] # c
    BY <2>1, <2>2, Zenon DEF k
  <2>4. awaits[completers[i]] \in DOMAIN sqe
    <3>1. awaits[completers[i]] \in 0 .. Len(sqe)
      BY <1>0, <2>1, Zenon DEF TypeOK
    <3>2. QED
      BY <1>0, <2>2, <3>1, EntriesAreSerials, SMT
  <2>5. QED
    BY <1>1, <1>4, <1>6, <2>1, <2>2, <2>3, <2>4, Zenon DEF LogGrows
<1>9. SuspendedAwaits'
  <2>1. ASSUME NEW d \in Coros, cstate'[d] = "suspended" PROVE awaits[d] # 0
    <3>1. d # c
      BY <1>1, <1>6, <2>1, SMT
    <3>2. QED
      BY <1>0, <1>1, <1>6, <2>1, <3>1, Zenon DEF CoroInv, SuspendedAwaits
  <2>2. QED
    BY <1>1, <2>1, Zenon DEF SuspendedAwaits
<1>10. StackRuns'
  <2>1. \A i \in DOMAIN stack : stack[i] # c
    <3>1. \A i \in DOMAIN stack : cstate[stack[i]] = "running"
      BY <1>0, Zenon DEF CoroInv, StackRuns
    <3>2. QED
      BY <1>1, <3>1, SMT
  <2>2. QED
    BY <1>0, <1>1, <1>6, <2>1, Zenon DEF CoroInv, StackRuns
<1>11. QED
  BY <1>0, <1>1, <1>7, <1>8, <1>9, <1>10, Zenon DEF IInv, CoroInv, DispatchHasCqe
-----------------------------------------------------------------------------
(* Steps of the event loop and of the kernel that leave the completers and *)
(* the coroutines alone.                                                   *)
LEMMA LoopStepKeeps ==
  ASSUME IInv, phase' \in [Serials -> Phases], cq' \in Seq(DOMAIN sqe),
         lastSqe' \in 0 .. Len(sqe),
         pc' \in {"main", "check", "submit", "wait", "peek", "dispatch"},
         pc' = "dispatch" => cq' # <<>>,
         UNCHANGED <<nextOpId, sqe, linked, completers, coroVars, calls, aborted,
                     histVars>>
  PROVE  IInv'
<1>0. TypeOK /\ CoroInv
  BY Zenon DEF IInv
<1>1. UNCHANGED <<nextOpId, sqe, linked, completers, cstate, awaits, stack, calls,
                  aborted, disabled, late>>
  BY Zenon DEF coroVars, histVars
<1>2. TypeOK'
  BY <1>0, <1>1, Zenon DEF TypeOK
<1>3. CoroInv'
  BY <1>0, <1>1, LogUnchanged, CorosUntouched, Zenon DEF coroVars
<1>4. QED
  BY <1>2, <1>3, Zenon DEF IInv, DispatchHasCqe

(* The completion queue without its first entry.                           *)
LEMMA AdvanceType ==
  ASSUME TypeOK, cq # <<>>
  PROVE  Tail(cq) \in Seq(DOMAIN sqe) /\ Head(cq) \in DOMAIN sqe
<1>1. cq \in Seq(DOMAIN sqe)
  BY Zenon DEF TypeOK
<1>2. QED
  BY <1>1, HeadTailProperties, Zenon

LEMMA PhaseChange ==
  ASSUME TypeOK, NEW n \in DOMAIN sqe, NEW p \in Phases,
         phase' = [phase EXCEPT ![n] = p]
  PROVE  phase' \in [Serials -> Phases]
BY EntriesAreSerials, Zenon DEF TypeOK

LEMMA QuietLoopStepsKeep ==
  ASSUME IInv, Run \/ Check \/ SubmitAny \/ Continue \/ Skip \/ Advance
  PROVE  IInv'
<1> DEFINE Points == {"main", "check", "submit", "wait", "peek", "dispatch"}
<1>0. TypeOK /\ DispatchHasCqe
  BY Zenon DEF IInv
<1>1. /\ phase \in [Serials -> Phases] /\ cq \in Seq(DOMAIN sqe)
      /\ lastSqe \in 0 .. Len(sqe) /\ 0 \in 0 .. Len(sqe)
  <2>1. 0 \in 0 .. Len(sqe)
    BY <1>0, EntriesAreSerials, SMT
  <2>2. QED
    BY <1>0, <2>1, Zenon DEF TypeOK
<1>2. /\ "check" \in Points /\ "main" \in Points /\ "submit" \in Points
      /\ "wait" \in Points /\ "peek" \in Points
      /\ "check" # "dispatch" /\ "main" # "dispatch" /\ "submit" # "dispatch"
      /\ "wait" # "dispatch" /\ "peek" # "dispatch"
      /\ "done" \in Phases /\ "kernel" \in Phases
  BY SMT DEF Phases
<1>3. CASE Run \/ Continue
  <2>1. /\ pc' = "check" /\ UNCHANGED <<phase, lastSqe, cq>>
        /\ UNCHANGED <<nextOpId, sqe, linked, completers, coroVars, calls, aborted,
                       histVars>>
    BY <1>3, Zenon DEF Run, Continue, ringVars
  <2>2. QED
    BY <1>1, <1>2, <2>1, LoopStepKeeps, Zenon
<1>4. CASE Check
  <2>1. /\ pc' = "submit" \/ pc' = "main"
        /\ lastSqe' = 0 \/ lastSqe' = lastSqe
        /\ UNCHANGED <<phase, cq>>
        /\ UNCHANGED <<nextOpId, sqe, linked, completers, coroVars, calls, aborted,
                       histVars>>
    BY <1>4, Zenon DEF Check
  <2>2. QED
    BY <1>1, <1>2, <2>1, LoopStepKeeps, Zenon
<1>5. CASE SubmitAny
  <2>1. PICK taken \in SUBSET Queued : Submit(taken)
    BY <1>5, Zenon DEF SubmitAny
  <2>2. /\ pc' = "wait" \/ pc' = "peek"
        /\ phase' = [n \in Serials |-> IF n \in taken THEN "kernel" ELSE phase[n]]
        /\ UNCHANGED <<lastSqe, cq>>
        /\ UNCHANGED <<nextOpId, sqe, linked, completers, coroVars, calls, aborted,
                       histVars>>
    BY <2>1, Zenon DEF Submit
  <2>3. phase' \in [Serials -> Phases]
    BY <1>1, <1>2, <2>2, Zenon
  <2>4. QED
    BY <1>1, <1>2, <2>2, <2>3, LoopStepKeeps, Zenon
<1>6. CASE Skip
  <2>1. /\ pc' = "check" /\ cq # <<>> /\ cq' = Tail(cq)
        /\ phase' = [phase EXCEPT ![Head(cq)] = "done"]
        /\ UNCHANGED lastSqe
        /\ UNCHANGED <<nextOpId, sqe, linked, completers, coroVars, calls, aborted,
                       histVars>>
    BY <1>6, Zenon DEF Skip, Peeks
  <2>2. phase' \in [Serials -> Phases] /\ cq' \in Seq(DOMAIN sqe)
    BY <1>0, <1>2, <2>1, AdvanceType, PhaseChange, Zenon
  <2>3. QED
    BY <1>1, <1>2, <2>1, <2>2, LoopStepKeeps, Zenon
<1>7. CASE Advance
  <2>1. /\ pc = "dispatch" /\ pc' = "check" /\ cq' = Tail(cq)
        /\ UNCHANGED <<phase, lastSqe>>
        /\ UNCHANGED <<nextOpId, sqe, linked, completers, coroVars, calls, aborted,
                       histVars>>
    BY <1>7, Zenon DEF Advance, Loops, ringVars
  <2>2. cq' \in Seq(DOMAIN sqe)
    BY <1>0, <2>1, AdvanceType, Zenon DEF DispatchHasCqe
  <2>3. QED
    BY <1>1, <1>2, <2>1, <2>2, LoopStepKeeps, Zenon
<1>8. QED
  BY <1>3, <1>4, <1>5, <1>6, <1>7, Zenon

(* A completion is dispatched: the coroutine it resumes has no other       *)
(* completer, since it awaits only one operation.                          *)
LEMMA DispatchKeeps ==
  ASSUME IInv, Dispatch
  PROVE  IInv'
<1> DEFINE n == Head(cq)
           k == sqe[n].id
           c == completers[k]
<1>0. TypeOK /\ CoroInv
  BY Zenon DEF IInv
<1>1. /\ cq # <<>> /\ c # NoCoro /\ pc' = "dispatch"
      /\ phase' = [phase EXCEPT ![n] = "done"]
      /\ completers' = [completers EXCEPT ![k] = NoCoro]
      /\ cstate' = [cstate EXCEPT ![c] = "running"]
      /\ awaits' = [awaits EXCEPT ![c] = 0]
      /\ stack' = <<c>>
      /\ UNCHANGED <<nextOpId, sqe, linked, lastSqe, cq, calls, aborted, disabled, late>>
  BY Zenon DEF Dispatch, Peeks, histVars
<1>2. n \in DOMAIN sqe /\ k \in Ids
  BY <1>0, <1>1, AdvanceType, EntriesAreSerials, Zenon
<1>3. phase' \in [Serials -> Phases]
  <2>1. "done" \in Phases
    BY Zenon DEF Phases
  <2>2. QED
    BY <1>0, <1>1, <1>2, <2>1, PhaseChange, Zenon
<1> HIDE DEF n, k
<1>4. /\ cstate \in [Coros -> {"none", "running", "suspended"}]
      /\ completers \in [Ids -> Coros \cup {NoCoro}]
      /\ awaits \in [Coros -> 0 .. Len(sqe)]
  BY <1>0, Zenon DEF TypeOK
<1>5. c \in Coros /\ sqe[awaits[c]].id = k
  BY <1>0, <1>1, <1>2, <1>4, Zenon DEF CoroInv, NoDanglingCompleter
<1> HIDE DEF c
<1>6. stack' \in Seq(Coros) /\ DOMAIN stack' = {1} /\ stack'[1] = c
  <2>1. <<c>> \in Seq(Coros) /\ DOMAIN <<c>> = {1} /\ <<c>>[1] = c
    BY <1>5, SMT
  <2>2. QED
    BY <1>1, <2>1, Zenon
<1>7. TypeOK'
  <2>1. 0 \in 0 .. Len(sqe)
    BY <1>0, EntriesAreSerials, SMT
  <2>2. /\ cstate' \in [Coros -> {"none", "running", "suspended"}]
        /\ completers' \in [Ids -> Coros \cup {NoCoro}]
        /\ awaits' \in [Coros -> 0 .. Len(sqe)]
    BY <1>1, <1>4, <2>1, Zenon
  <2>3. pc' \in {"main", "check", "submit", "wait", "peek", "dispatch"}
    BY <1>1, Zenon
  <2>4. QED
    BY <1>0, <1>1, <1>3, <1>6, <2>2, <2>3, Zenon DEF TypeOK
<1>8. NoDanglingCompleter'
  <2> SUFFICES ASSUME NEW i \in Ids, completers'[i] # NoCoro
               PROVE  /\ cstate'[completers'[i]] = "suspended"
                      /\ awaits'[completers'[i]] # 0
                      /\ sqe'[awaits'[completers'[i]]].id = i
    BY Zenon DEF NoDanglingCompleter
  <2>1. i # k /\ completers'[i] = completers[i] /\ completers[i] \in Coros
    BY <1>1, <1>4, Zenon
  <2>2. /\ cstate[completers[i]] = "suspended"
        /\ awaits[completers[i]] # 0
        /\ sqe[awaits[completers[i]]].id = i
    BY <1>0, <2>1, Zenon DEF CoroInv, NoDanglingCompleter
  <2>3. completers[i] # c
    BY <1>5, <2>1, <2>2, Zenon
  <2>4. QED
    BY <1>1, <1>4, <2>1, <2>2, <2>3, Zenon
<1>9. SuspendedAwaits'
  <2>1. ASSUME NEW d \in Coros, cstate'[d] = "suspended" PROVE awaits'[d] # 0
    <3>1. d # c
      BY <1>1, <1>4, <2>1, SMT
    <3>2. QED
      BY <1>0, <1>1, <1>4, <2>1, <3>1, Zenon DEF CoroInv, SuspendedAwaits
  <2>2. QED
    BY <2>1, Zenon DEF SuspendedAwaits
<1>10. StackRuns'
  <2>1. cstate'[c] = "running"
    BY <1>1, <1>4, <1>5, Zenon
  <2>2. QED
    BY <1>6, <2>1, Zenon DEF StackRuns
<1>11. QED
  BY <1>1, <1>7, <1>8, <1>9, <1>10, Zenon DEF IInv, CoroInv, DispatchHasCqe

(* Every step of the kernel posts one completion.                          *)
LEMMA KernelKeeps ==
  ASSUME IInv, Kernel
  PROVE  IInv'
<1>0. TypeOK /\ DispatchHasCqe
  BY Zenon DEF IInv
<1>1. PICK n \in DOMAIN sqe : Post(n)
  BY Zenon DEF Kernel, Complete, Expire, TimeoutEnds, CancelHits, CancelEnds
<1>2. /\ phase' = [phase EXCEPT ![n] = "posted"]
      /\ cq' = Append(cq, n)
      /\ UNCHANGED <<lastSqe, pc>>
      /\ UNCHANGED <<nextOpId, sqe, linked, completers, coroVars, calls, aborted,
                     histVars>>
  BY <1>1, Zenon DEF Post
<1>3. phase' \in [Serials -> Phases]
  <2>1. "posted" \in Phases
    BY Zenon DEF Phases
  <2>2. QED
    BY <1>0, <1>2, <2>1, PhaseChange, Zenon
<1>4. cq' \in Seq(DOMAIN sqe) /\ cq' # <<>>
  <2>1. cq \in Seq(DOMAIN sqe)
    BY <1>0, Zenon DEF TypeOK
  <2>2. QED
    BY <1>2, <2>1, AppendProperties, Zenon
<1>5. /\ lastSqe' \in 0 .. Len(sqe)
      /\ pc' \in {"main", "check", "submit", "wait", "peek", "dispatch"}
  BY <1>0, <1>2, Zenon DEF TypeOK
<1>6. QED
  BY <1>2, <1>3, <1>4, <1>5, LoopStepKeeps, Zenon
-----------------------------------------------------------------------------
LEMMA InitEstablishes ==
  ASSUME Init
  PROVE  IInv
<1>1. TypeOK
  <2>1. /\ nextOpId \in Ids /\ calls \in 0 .. MaxCalls
    BY SizeAssumption, SMT DEF Init, Ids, OpIdInvalid
  <2>2. /\ sqe \in Seq(Sqe) /\ Len(sqe) = 0 /\ cq \in Seq(DOMAIN sqe)
        /\ stack \in Seq(Coros)
    BY EmptySeq, Zenon DEF Init
  <2>3. Len(sqe) <= calls /\ 0 \in 0 .. Len(sqe)
    BY <2>2, SMT DEF Init
  <2>4. phase \in [Serials -> Phases] /\ aborted \in Aborts
    BY Zenon DEF Init, Phases, Aborts
  <2>5. QED
    BY <2>1, <2>2, <2>3, <2>4, Zenon DEF Init, TypeOK
<1>2. NoDanglingCompleter
  BY Zenon DEF Init, NoDanglingCompleter
<1>3. SuspendedAwaits
  BY SMT DEF Init, SuspendedAwaits
<1>4. StackRuns /\ DispatchHasCqe
  BY SMT DEF Init, StackRuns, DispatchHasCqe
<1>5. QED
  BY <1>1, <1>2, <1>3, <1>4, Zenon DEF IInv, CoroInv

LEMMA NextKeeps ==
  ASSUME IInv, [Next]_vars
  PROVE  IInv'
<1>1. CASE User
  BY <1>1, IssueKeeps, FailingCallsKeep, IssueAndAwaitKeeps, FinishKeeps, AwaitKeeps,
     TimeoutKeeps, CancelKeeps, StartKeeps, DestroyKeeps, Zenon DEF User
<1>2. CASE Loop
  BY <1>2, QuietLoopStepsKeep, DispatchKeeps, Zenon DEF Loop
<1>3. CASE Kernel
  BY <1>3, KernelKeeps, Zenon
<1>4. CASE UNCHANGED vars
  <2>1. TypeOK /\ DispatchHasCqe
    BY Zenon DEF IInv
  <2>2. /\ UNCHANGED <<phase, cq, lastSqe, pc>>
        /\ UNCHANGED <<nextOpId, sqe, linked, completers, coroVars, calls, aborted,
                       histVars>>
    BY <1>4, Zenon DEF vars, ringVars
  <2>3. QED
    BY <2>1, <2>2, LoopStepKeeps, Zenon DEF TypeOK, DispatchHasCqe
<1>5. QED
  BY <1>1, <1>2, <1>3, <1>4, Zenon DEF Next

(* The inductive invariant holds in every state the queue can reach,       *)
(* whatever the order of calls, submissions and completions.               *)
THEOREM IInvHolds == Spec => []IInv
<1>1. Init => IInv
  BY InitEstablishes
<1>2. IInv /\ [Next]_vars => IInv'
  BY NextKeeps
<1>3. QED
  BY <1>1, <1>2, PTL DEF Spec

(* Types: ids stay in their range when getNextOpId wraps around, the       *)
(* completion queue and every awaiter refer to entries that were prepared. *)
THEOREM TypeCorrect == Spec => []TypeOK
<1>1. IInv => TypeOK
  BY DEF IInv
<1>2. QED
  BY <1>1, IInvHolds, PTL

(* complete() never reaches a coroutine that is destroyed, running or      *)
(* awaiting another operation, for any number of coroutines and any reuse  *)
(* of ids: ~OperationAwaiter and OperationHandle::cancel keep completers_  *)
(* in step with the frames.                                                *)
THEOREM NoDangling == Spec => []NoDanglingCompleter
<1>1. IInv => NoDanglingCompleter
  BY DEF IInv, CoroInv
<1>2. QED
  BY <1>1, IInvHolds, PTL
-----------------------------------------------------------------------------
(* The invariant of the rings.  A prepared entry is queued, in the kernel, *)
(* posted or done; the completion queue holds every completion once, and   *)
(* all of them but the one being dispatched are still to be looked at; no  *)
(* coroutine runs while the loop is not in complete(), and lastSqe_ is     *)
(* reset when the queue is submitted.                                      *)
PreparedAreKnown == \A n \in Serials : phase[n] = "free" <=> n \notin DOMAIN sqe

CqIsPosted ==
  /\ \A i, j \in DOMAIN cq : cq[i] = cq[j] => i = j
  /\ \A i \in DOMAIN cq :
       phase[cq[i]] = IF i = 1 /\ pc = "dispatch" THEN "done" ELSE "posted"

LoopIsAlone == pc \notin {"main", "dispatch"} => stack = <<>>

SubmitHasReset == pc = "submit" => lastSqe = 0

MagicIsNotIssued == \A n \in DOMAIN sqe : sqe[n].kind = "io" <=> sqe[n].id # OpIdIgnore

RingInv ==
  /\ PreparedAreKnown /\ CqIsPosted /\ LoopIsAlone /\ SubmitHasReset
  /\ LastSqeIsQueued /\ MagicIsNotIssued

(* The invariant of the operations, as long as the ids have not gone all   *)
(* the way round (2^64 - 2 calls in the code): the ids that were used are  *)
(* those from FirstId to nextOpId_, counted past the wrap; no operation    *)
(* has the id of another; a cancelled operation has no completer until it  *)
(* is awaited again; timeouts refer to entries; a coroutine under          *)
(* OpIdIgnore awaits a cancel().                                           *)
IdsSuffice == MaxCalls <= OpIdInvalid

IdsAreCounted ==
  /\ nextOpId <= OpIdInvalid
  /\ \/ /\ FirstId <= nextOpId /\ nextOpId <= FirstId + calls
        /\ \A n \in Operations : FirstId <= sqe[n].id /\ sqe[n].id < nextOpId
     \/ /\ nextOpId + OpIdInvalid <= FirstId + calls
        /\ \A n \in Operations : sqe[n].id < nextOpId \/ FirstId <= sqe[n].id

IdsAreUnique == \A m, n \in Operations : sqe[m].id = sqe[n].id => m = n

DisabledIsRemoved ==
  /\ disabled \subseteq DOMAIN sqe
  /\ \A n \in disabled \cap Operations : completers[sqe[n].id] = NoCoro

LinksInv ==
  /\ TimeoutFollowsItsOperation
  /\ \A n \in DOMAIN sqe :
       sqe[n].kind = "linkTimeout" => n - 1 \in DOMAIN sqe /\ sqe[n].target \in DOMAIN sqe

AwaitedCancelIsLate ==
  completers[OpIdIgnore] # NoCoro => awaits[completers[OpIdIgnore]] \in late

OpInv ==
  /\ IdsAreCounted /\ IdsAreUnique /\ LinksInv
  /\ DisabledIsRemoved /\ AwaitedCancelIsLate /\ NoLostCompletion

(* Preparing an entry gives it the next number.                            *)
LEMMA EntryFacts ==
  ASSUME TypeOK, calls < MaxCalls, NEW m, m = Len(sqe) + 1,
         NEW k \in Kinds, NEW i \in Ids, NEW t \in Nat, finalizeSqe(k, i, t)
  PROVE  /\ m \in Serials /\ m \notin DOMAIN sqe /\ m # 0
         /\ DOMAIN sqe' = DOMAIN sqe \cup {m} /\ Len(sqe') = m
         /\ \A n \in DOMAIN sqe : sqe'[n] = sqe[n]
         /\ sqe'[m].kind = k /\ sqe'[m].id = i /\ sqe'[m].target = t
         /\ lastSqe' = m
         /\ phase'[m] = "queued"
         /\ \A n \in Serials : n # m => phase'[n] = phase[n]
<1> DEFINE e == [kind |-> k, id |-> i, target |-> t]
<1>1. e \in Sqe /\ e.kind = k /\ e.id = i /\ e.target = t
  BY SMT DEF Sqe
<1>2. /\ sqe \in Seq(Sqe) /\ Len(sqe) \in Nat /\ DOMAIN sqe = 1 .. Len(sqe)
      /\ Len(sqe) <= calls /\ calls \in Nat /\ MaxCalls \in Nat
      /\ phase \in [Serials -> Phases]
  BY SizeAssumption, SMT DEF TypeOK
<1>3. /\ sqe' = Append(sqe, e) /\ lastSqe' = m
      /\ phase' = [phase EXCEPT ![m] = "queued"]
  BY Zenon DEF finalizeSqe
<1> HIDE DEF e
<1>4. m \in Serials /\ m \notin DOMAIN sqe /\ m # 0
  BY <1>2, SMT DEF Serials
<1>5. /\ DOMAIN sqe' = DOMAIN sqe \cup {m} /\ Len(sqe') = m
      /\ \A n \in DOMAIN sqe : sqe'[n] = sqe[n]
      /\ sqe'[m] = e
  BY <1>1, <1>2, <1>3, SMT
<1>6. QED
  BY <1>1, <1>2, <1>3, <1>4, <1>5, Zenon

(* User code runs in main() or inside of complete().                       *)
LEMMA UserPc ==
  ASSUME LoopIsAlone, UserRuns
  PROVE  pc \in {"main", "dispatch"}
BY Zenon DEF LoopIsAlone, UserRuns

(* The entries in the completion queue have been prepared.                 *)
LEMMA CqEntries ==
  ASSUME TypeOK
  PROVE  \A i \in DOMAIN cq : cq[i] \in DOMAIN sqe
BY SMT DEF TypeOK

LEMMA RingEntry ==
  ASSUME IInv, RingInv, UserRuns, calls < MaxCalls,
         NEW k \in Kinds, NEW i \in Ids, NEW t \in Nat, finalizeSqe(k, i, t),
         k = "io" <=> i # OpIdIgnore,
         UNCHANGED <<cq, pc>>
  PROVE  RingInv'
<1> DEFINE m == Len(sqe) + 1
<1>0. TypeOK
  BY Zenon DEF IInv
<1>1. /\ m \in Serials /\ m \notin DOMAIN sqe /\ m # 0
      /\ DOMAIN sqe' = DOMAIN sqe \cup {m} /\ Len(sqe') = m
      /\ \A n \in DOMAIN sqe : sqe'[n] = sqe[n]
      /\ sqe'[m].kind = k /\ sqe'[m].id = i
      /\ lastSqe' = m
      /\ phase'[m] = "queued"
      /\ \A n \in Serials : n # m => phase'[n] = phase[n]
  BY <1>0, EntryFacts, Zenon
<1> HIDE DEF m
<1>2. pc \in {"main", "dispatch"}
  BY UserPc, Zenon DEF RingInv
<1>3. PreparedAreKnown'
  <2>1. "queued" # "free"
    BY SMT
  <2>2. QED
    BY <1>1, <2>1, Zenon DEF RingInv, PreparedAreKnown
<1>4. CqIsPosted'
  <2>1. \A j \in DOMAIN cq : phase'[cq[j]] = phase[cq[j]]
    BY <1>0, <1>1, CqEntries, EntriesAreSerials, Zenon
  <2>2. QED
    BY <2>1, Zenon DEF RingInv, CqIsPosted
<1>5. LoopIsAlone' /\ SubmitHasReset'
  <2>1. pc \in {"main", "dispatch"} => pc # "submit"
    BY SMT
  <2>2. QED
    BY <1>2, <2>1, Zenon DEF LoopIsAlone, SubmitHasReset
<1>6. LastSqeIsQueued'
  BY <1>1, Zenon DEF LastSqeIsQueued
<1>7. MagicIsNotIssued'
  BY <1>1, Zenon DEF RingInv, MagicIsNotIssued
<1>8. QED
  BY <1>3, <1>4, <1>5, <1>6, <1>7, Zenon DEF RingInv

LEMMA RingQuiet ==
  ASSUME RingInv, UserRuns \/ stack' = stack,
         UNCHANGED <<sqe, phase, lastSqe, cq, pc>>
  PROVE  RingInv'
<1>1. LoopIsAlone'
  BY UserPc, Zenon DEF RingInv, LoopIsAlone
<1>2. PreparedAreKnown' /\ SubmitHasReset' /\ LastSqeIsQueued' /\ MagicIsNotIssued'
  BY Zenon DEF RingInv, PreparedAreKnown, SubmitHasReset, LastSqeIsQueued, MagicIsNotIssued
<1>3. CqIsPosted'
  BY Zenon DEF RingInv, CqIsPosted
<1>4. QED
  BY <1>1, <1>2, <1>3, Zenon DEF RingInv

(* getNextOpId steps over the magic ids.                                   *)
LEMMA OpIdIsNotMagic ==
  ASSUME TypeOK
  PROVE  getNextOpId.id # OpIdIgnore /\ getNextOpId.id \in Ids /\ OpIdIgnore \in Ids
BY SizeAssumption, SMT DEF TypeOK, getNextOpId, Ids, OpIdInvalid, OpIdIgnore

LEMMA RingCancel ==
  ASSUME IInv, RingInv, UserRuns, calls < MaxCalls, NEW i \in Ids, SubmitCancel(i),
         UNCHANGED <<cq, pc, stack>>
  PROVE  RingInv'
<1>0. TypeOK
  BY Zenon DEF IInv
<1>1. CASE SqRoom
  <2>1. finalizeSqe("cancel", OpIdIgnore, i)
    BY <1>1, Zenon DEF SubmitCancel
  <2>2. "cancel" \in Kinds /\ i \in Nat /\ "cancel" # "io"
    BY SizeAssumption, SMT DEF Kinds, Ids
  <2>3. QED
    BY <1>0, <2>1, <2>2, OpIdIsNotMagic, RingEntry, Zenon
<1>2. CASE ~SqRoom
  BY <1>2, RingQuiet, Zenon DEF SubmitCancel
<1>3. QED
  BY <1>1, <1>2, Zenon

LEMMA UserKeepsRing ==
  ASSUME IInv, RingInv, User
  PROVE  RingInv'
<1>0. TypeOK /\ CoroInv
  BY Zenon DEF IInv
<1>a. Call => calls < MaxCalls
  BY Zenon DEF Call
<1>b. CoroRuns => UserRuns
  BY Zenon DEF CoroRuns, UserRuns
<1>c. /\ "io" \in Kinds /\ "linkTimeout" \in Kinds /\ "io" # "linkTimeout"
      /\ 0 \in Nat /\ \A n \in Serials : n \in Nat
  BY SMT DEF Kinds, Serials
<1>1. CASE Issue \/ IssueAndAwait
  <2>1. /\ UserRuns /\ Call /\ finalizeSqe("io", getNextOpId.id, 0)
        /\ UNCHANGED <<cq, pc>>
    BY <1>1, <1>b, Zenon DEF Issue, IssueAndAwait
  <2>2. QED
    BY <1>0, <1>a, <1>c, <2>1, OpIdIsNotMagic, RingEntry, Zenon
<1>2. CASE \E n \in Handles : Timeout(n)
  <2>1. PICK n \in Handles : Timeout(n)
    BY <1>2
  <2>2. /\ UserRuns /\ Call /\ finalizeSqe("linkTimeout", OpIdIgnore, n)
        /\ UNCHANGED <<cq, pc>>
    BY <1>b, <2>1, Zenon DEF Timeout
  <2>3. n \in Nat
    BY <1>0, <1>c, EntriesAreSerials, Zenon DEF Handles
  <2>4. QED
    BY <1>0, <1>a, <1>c, <2>2, <2>3, OpIdIsNotMagic, RingEntry, Zenon
<1>3. CASE \E n \in Handles, cancelHandler \in BOOLEAN : Cancel(n, cancelHandler)
  <2>1. PICK n \in Handles, cancelHandler \in BOOLEAN : Cancel(n, cancelHandler)
    BY <1>3
  <2>2. sqe[n].id \in Ids
    BY <1>0, EntriesAreSerials, Zenon DEF Handles
  <2>3. QED
    BY <1>a, <2>1, <2>2, RingCancel, Zenon DEF Cancel, coroVars
<1>4. CASE \E c \in Coros : Destroy(c)
  <2>1. PICK c \in Coros : Destroy(c)
    BY <1>4
  <2>2. sqe[awaits[c]].id \in Ids
    <3>1. awaits[c] \in DOMAIN sqe
      <4>1. awaits[c] \in 0 .. Len(sqe) /\ awaits[c] # 0
        BY <1>0, <2>1, Zenon DEF Destroy, CoroInv, SuspendedAwaits, TypeOK
      <4>2. QED
        BY <1>0, <4>1, EntriesAreSerials, SMT
    <3>2. QED
      BY <1>0, <3>1, EntriesAreSerials, Zenon
  <2>3. QED
    BY <1>a, <2>1, <2>2, RingCancel, Zenon DEF Destroy
<1>5. CASE IssueFull \/ IssueAndAwaitFull \/ TimePointAborts \/ Finish
  <2>1. UserRuns /\ UNCHANGED <<sqe, phase, lastSqe, cq, pc>>
    BY <1>5, <1>b, Zenon DEF IssueFull, IssueAndAwaitFull, TimePointAborts, Finish, ringVars
  <2>2. QED
    BY <2>1, RingQuiet, Zenon
<1>6. CASE \E n \in Handles : TimeoutNotLast(n) \/ TimeoutFull(n)
  <2>1. UserRuns /\ UNCHANGED <<sqe, phase, lastSqe, cq, pc>>
    BY <1>6, <1>b, Zenon DEF TimeoutNotLast, TimeoutFull, ringVars
  <2>2. QED
    BY <2>1, RingQuiet, Zenon
<1>7. CASE (\E n \in Handles : Await(n)) \/ (\E c \in Coros : Start(c))
  <2>1. UserRuns /\ UNCHANGED <<sqe, phase, lastSqe, cq, pc>>
    BY <1>7, <1>b, Zenon DEF Await, Start, ringVars
  <2>2. QED
    BY <2>1, RingQuiet, Zenon
<1>8. QED
  BY <1>1, <1>2, <1>3, <1>4, <1>5, <1>6, <1>7, Zenon DEF User

(* The completion queue after advanceCq and after the kernel has posted.   *)
LEMMA CqTail ==
  ASSUME TypeOK, cq # <<>>
  PROVE  /\ 1 \in DOMAIN cq /\ Head(cq) = cq[1] /\ Head(cq) \in DOMAIN sqe
         /\ \A i \in DOMAIN Tail(cq) :
              i + 1 \in DOMAIN cq /\ i + 1 # 1 /\ Tail(cq)[i] = cq[i + 1]
         /\ \A i, j \in DOMAIN Tail(cq) : i + 1 = j + 1 => i = j
<1>1. cq \in Seq(DOMAIN sqe)
  BY Zenon DEF TypeOK
<1>2. Len(cq) \in Nat /\ Len(cq) > 0 /\ DOMAIN cq = 1 .. Len(cq)
  BY <1>1, SMT
<1>3. /\ Head(cq) = cq[1] /\ DOMAIN Tail(cq) = 1 .. Len(cq) - 1
      /\ \A i \in 1 .. Len(cq) - 1 : Tail(cq)[i] = cq[i + 1]
  BY <1>1, <1>2, SMT
<1>4. \A i \in 1 .. Len(cq) - 1 : i + 1 \in 1 .. Len(cq) /\ i + 1 # 1
  BY <1>2, SMT
<1>5. \A i, j \in 1 .. Len(cq) - 1 : i + 1 = j + 1 => i = j
  BY <1>2, SMT
<1>6. 1 \in DOMAIN cq
  BY <1>2, SMT
<1>7. QED
  BY <1>2, <1>3, <1>4, <1>5, <1>6, AdvanceType, Zenon

LEMMA CqAppend ==
  ASSUME TypeOK, NEW n \in DOMAIN sqe
  PROVE  \E m : /\ m \notin DOMAIN cq /\ DOMAIN Append(cq, n) = DOMAIN cq \cup {m}
                /\ Append(cq, n)[m] = n /\ (m = 1 => cq = <<>>)
                /\ \A i \in DOMAIN cq : Append(cq, n)[i] = cq[i]
<1>1. cq \in Seq(DOMAIN sqe)
  BY Zenon DEF TypeOK
<1>2. Len(cq) \in Nat /\ DOMAIN cq = 1 .. Len(cq) /\ (Len(cq) + 1 = 1 => cq = <<>>)
  BY <1>1, SMT
<1>3. /\ Len(cq) + 1 \notin DOMAIN cq
      /\ DOMAIN Append(cq, n) = DOMAIN cq \cup {Len(cq) + 1}
      /\ Append(cq, n)[Len(cq) + 1] = n
      /\ \A i \in DOMAIN cq : Append(cq, n)[i] = cq[i]
  BY <1>1, <1>2, SMT
<1>4. QED
  BY <1>2, <1>3, Zenon

(* The first entry of the completion queue is done; it was posted.         *)
LEMMA HeadIsDone ==
  ASSUME IInv, RingInv, Peeks, phase' = [phase EXCEPT ![Head(cq)] = "done"],
         UNCHANGED <<sqe, lastSqe>>
  PROVE  /\ pc # "dispatch" /\ stack = <<>>
         /\ phase[Head(cq)] = "posted" /\ phase'[Head(cq)] = "done"
         /\ \A i \in DOMAIN cq : phase[cq[i]] = "posted"
         /\ \A i \in DOMAIN cq : i # 1 => phase'[cq[i]] = "posted"
         /\ PreparedAreKnown' /\ LastSqeIsQueued' /\ MagicIsNotIssued'
<1> DEFINE h == Head(cq)
<1>0. TypeOK
  BY Zenon DEF IInv
<1>1. cq # <<>> /\ pc \in {"wait", "peek"} /\ stack = <<>>
  BY Zenon DEF Peeks, Loops
<1>2. pc # "dispatch"
  BY <1>1, SMT
<1>3. /\ h \in DOMAIN sqe /\ h \in Serials /\ h = cq[1] /\ 1 \in DOMAIN cq
  BY <1>0, <1>1, CqTail, EntriesAreSerials, Zenon
<1> HIDE DEF h
<1>4. \A i \in DOMAIN cq : phase[cq[i]] = "posted"
  BY <1>2, Zenon DEF RingInv, CqIsPosted
<1>5. phase[h] = "posted" /\ phase'[h] = "done"
      /\ \A n \in Serials : n # h => phase'[n] = phase[n]
  BY <1>0, <1>3, <1>4, Zenon DEF TypeOK, h
<1>6. \A i \in DOMAIN cq : i # 1 => phase'[cq[i]] = "posted"
  BY <1>0, <1>3, <1>4, <1>5, CqEntries, EntriesAreSerials, Zenon DEF RingInv, CqIsPosted
<1>7. "done" # "free" /\ "posted" # "free" /\ "posted" # "queued"
  BY SMT
<1>8. PreparedAreKnown'
  BY <1>3, <1>5, <1>7, Zenon DEF RingInv, PreparedAreKnown
<1>9. LastSqeIsQueued'
  <2>1. lastSqe # 0 => lastSqe \in Serials
    BY <1>0, SizeAssumption, SMT DEF TypeOK, Serials
  <2>2. QED
    BY <1>5, <1>7, <2>1, Zenon DEF RingInv, LastSqeIsQueued
<1>10. MagicIsNotIssued'
  BY Zenon DEF RingInv, MagicIsNotIssued
<1>11. QED
  BY <1>1, <1>2, <1>4, <1>5, <1>6, <1>8, <1>9, <1>10, Zenon DEF h

(* advanceCq leaves completions that are still to be looked at.            *)
LEMMA TailIsPosted ==
  ASSUME TypeOK, cq # <<>>, CqIsPosted, cq' = Tail(cq), pc' = "check",
         \A i \in DOMAIN cq : i # 1 => phase'[cq[i]] = "posted"
  PROVE  CqIsPosted'
<1>1. /\ \A i \in DOMAIN cq' :
           i + 1 \in DOMAIN cq /\ i + 1 # 1 /\ cq'[i] = cq[i + 1]
      /\ \A i, j \in DOMAIN cq' : i + 1 = j + 1 => i = j
  BY CqTail, Zenon
<1>2. pc' # "dispatch"
  BY SMT
<1>3. \A i, j \in DOMAIN cq' : cq'[i] = cq'[j] => i = j
  <2>1. ASSUME NEW i \in DOMAIN cq', NEW j \in DOMAIN cq', cq'[i] = cq'[j]
        PROVE  i = j
    <3>1. i + 1 = j + 1
      BY <1>1, <2>1, SMT DEF CqIsPosted
    <3>2. QED
      BY <1>1, <3>1, Zenon
  <2>2. QED
    BY <2>1, Zenon
<1>4. \A i \in DOMAIN cq' : phase'[cq'[i]] = "posted"
  BY <1>1, SMT
<1>5. QED
  BY <1>2, <1>3, <1>4, Zenon DEF CqIsPosted

LEMMA LoopKeepsRing ==
  ASSUME IInv, RingInv, Loop
  PROVE  RingInv'
<1>0. TypeOK /\ DispatchHasCqe
  BY Zenon DEF IInv
<1>s. /\ "check" # "dispatch" /\ "check" # "submit" /\ "main" # "submit"
      /\ "submit" # "dispatch" /\ "main" # "dispatch" /\ "wait" # "dispatch"
      /\ "peek" # "dispatch" /\ "dispatch" # "submit" /\ "peek" # "submit"
      /\ "wait" # "submit"
  BY SMT
<1>1. CASE Run \/ Continue
  <2>1. /\ UNCHANGED <<sqe, phase, lastSqe, cq, stack>> /\ pc' = "check"
        /\ stack = <<>> /\ pc \in {"main", "submit", "wait", "peek"}
    BY <1>1, Zenon DEF Run, Continue, Loops, ringVars, coroVars
  <2>2. pc # "dispatch"
    BY <1>s, <2>1, Zenon
  <2>3. CqIsPosted'
    BY <1>s, <2>1, <2>2, Zenon DEF RingInv, CqIsPosted
  <2>4. QED
    BY <1>s, <2>1, <2>3, Zenon DEF RingInv, PreparedAreKnown, LoopIsAlone,
       SubmitHasReset, LastSqeIsQueued, MagicIsNotIssued
<1>2. CASE Check
  <2>1. /\ UNCHANGED <<sqe, phase, cq, stack>>
        /\ stack = <<>> /\ pc = "check"
        /\ \/ pc' = "submit" /\ lastSqe' = 0
           \/ pc' = "main" /\ lastSqe' = lastSqe
    BY <1>2, Zenon DEF Check, Loops, coroVars
  <2>2. CqIsPosted'
    BY <1>s, <2>1, Zenon DEF RingInv, CqIsPosted
  <2>3. QED
    BY <1>s, <2>1, <2>2, Zenon DEF RingInv, PreparedAreKnown, LoopIsAlone,
       SubmitHasReset, LastSqeIsQueued, MagicIsNotIssued
<1>3. CASE SubmitAny
  <2>1. PICK taken \in SUBSET Queued : Submit(taken)
    BY <1>3, Zenon DEF SubmitAny
  <2>2. /\ UNCHANGED <<sqe, lastSqe, cq, stack>>
        /\ stack = <<>> /\ pc = "submit" /\ pc' \in {"wait", "peek"}
        /\ phase' = [n \in Serials |-> IF n \in taken THEN "kernel" ELSE phase[n]]
    BY <2>1, Zenon DEF Submit, Loops, coroVars
  <2>3. lastSqe = 0 /\ pc' # "dispatch" /\ pc' # "submit"
    BY <1>s, <2>2, Zenon DEF RingInv, SubmitHasReset
  <2>4. /\ "kernel" # "free" /\ "queued" # "free" /\ "posted" # "queued"
    BY SMT
  <2>5. CqIsPosted'
    <3>1. \A i \in DOMAIN cq : cq[i] \in Serials /\ phase[cq[i]] = "posted"
      BY <1>0, <1>s, <2>2, CqEntries, EntriesAreSerials, Zenon DEF RingInv, CqIsPosted
    <3>2. \A i \in DOMAIN cq : phase'[cq[i]] = "posted"
      BY <2>2, <2>4, <3>1, Zenon DEF Queued
    <3>3. QED
      BY <2>2, <2>3, <3>2, Zenon DEF RingInv, CqIsPosted
  <2>6. PreparedAreKnown'
    BY <2>2, <2>4, Zenon DEF RingInv, PreparedAreKnown, Queued
  <2>7. QED
    BY <2>2, <2>3, <2>5, <2>6, Zenon DEF RingInv, LoopIsAlone,
       SubmitHasReset, LastSqeIsQueued, MagicIsNotIssued
<1>4. CASE Skip
  <2>1. /\ Peeks /\ phase' = [phase EXCEPT ![Head(cq)] = "done"]
        /\ UNCHANGED <<sqe, lastSqe, stack>> /\ pc' = "check" /\ cq' = Tail(cq)
    BY <1>4, Zenon DEF Skip, coroVars
  <2>2. /\ stack = <<>>
        /\ \A i \in DOMAIN cq : i # 1 => phase'[cq[i]] = "posted"
        /\ PreparedAreKnown' /\ LastSqeIsQueued' /\ MagicIsNotIssued'
    BY <2>1, HeadIsDone, Zenon
  <2>3. CqIsPosted'
    BY <1>0, <2>1, <2>2, TailIsPosted, Zenon DEF RingInv, Peeks
  <2>4. QED
    BY <1>s, <2>1, <2>2, <2>3, Zenon DEF RingInv, LoopIsAlone, SubmitHasReset
<1>5. CASE Dispatch
  <2>1. /\ Peeks /\ phase' = [phase EXCEPT ![Head(cq)] = "done"]
        /\ UNCHANGED <<sqe, lastSqe, cq>> /\ pc' = "dispatch"
    BY <1>5, Zenon DEF Dispatch
  <2>2. /\ phase'[Head(cq)] = "done"
        /\ \A i \in DOMAIN cq : i # 1 => phase'[cq[i]] = "posted"
        /\ PreparedAreKnown' /\ LastSqeIsQueued' /\ MagicIsNotIssued'
    BY <2>1, HeadIsDone, Zenon
  <2>3. CqIsPosted'
    BY <1>0, <2>1, <2>2, CqTail, Zenon DEF RingInv, CqIsPosted, Peeks
  <2>4. QED
    BY <1>s, <2>1, <2>2, <2>3, Zenon DEF RingInv, LoopIsAlone, SubmitHasReset
<1>6. CASE Advance
  <2>1. /\ UNCHANGED <<sqe, phase, lastSqe, stack>> /\ pc' = "check" /\ cq' = Tail(cq)
        /\ stack = <<>> /\ pc = "dispatch"
    BY <1>6, Zenon DEF Advance, Loops, ringVars, coroVars
  <2>2. CqIsPosted'
    BY <1>0, <2>1, TailIsPosted, Zenon DEF RingInv, CqIsPosted, DispatchHasCqe
  <2>3. QED
    BY <1>s, <2>1, <2>2, Zenon DEF RingInv, PreparedAreKnown, LoopIsAlone,
       SubmitHasReset, LastSqeIsQueued, MagicIsNotIssued
<1>7. QED
  BY <1>1, <1>2, <1>3, <1>4, <1>5, <1>6, Zenon DEF Loop

LEMMA KernelKeepsRing ==
  ASSUME IInv, RingInv, Kernel
  PROVE  RingInv'
<1>0. TypeOK /\ DispatchHasCqe
  BY Zenon DEF IInv
<1>1. PICK n \in DOMAIN sqe : Post(n)
  BY Zenon DEF Kernel, Complete, Expire, TimeoutEnds, CancelHits, CancelEnds
<1>2. /\ phase[n] = "kernel" /\ phase' = [phase EXCEPT ![n] = "posted"]
      /\ cq' = Append(cq, n)
      /\ UNCHANGED <<sqe, lastSqe, stack, pc>>
  BY <1>1, Zenon DEF Post, coroVars
<1>3. n \in Serials
  BY <1>0, EntriesAreSerials, Zenon
<1>4. /\ phase'[n] = "posted" /\ \A m \in Serials : m # n => phase'[m] = phase[m]
  BY <1>0, <1>2, <1>3, Zenon DEF TypeOK
<1>5. /\ "posted" # "free" /\ "kernel" # "free" /\ "kernel" # "queued"
      /\ "posted" # "kernel" /\ "done" # "kernel"
  BY SMT
<1>6. PICK k : /\ k \notin DOMAIN cq /\ DOMAIN cq' = DOMAIN cq \cup {k}
               /\ cq'[k] = n /\ (k = 1 => cq = <<>>)
               /\ \A i \in DOMAIN cq : cq'[i] = cq[i]
  BY <1>0, <1>2, CqAppend, Zenon
<1>7. \A i \in DOMAIN cq : cq[i] # n /\ phase'[cq[i]] = phase[cq[i]]
  <2>1. \A i \in DOMAIN cq : phase[cq[i]] # "kernel"
    BY <1>5, Zenon DEF RingInv, CqIsPosted
  <2>2. QED
    BY <1>0, <1>2, <1>4, <2>1, CqEntries, EntriesAreSerials, Zenon
<1>8. CqIsPosted'
  <2>1. k # 1 \/ pc # "dispatch"
    BY <1>0, <1>6, Zenon DEF DispatchHasCqe
  <2>2. \A i, j \in DOMAIN cq' : cq'[i] = cq'[j] => i = j
    BY <1>6, <1>7, Zenon DEF RingInv, CqIsPosted
  <2>3. \A i \in DOMAIN cq' :
          phase'[cq'[i]] = IF i = 1 /\ pc = "dispatch" THEN "done" ELSE "posted"
    BY <1>4, <1>6, <1>7, <2>1, Zenon DEF RingInv, CqIsPosted
  <2>4. QED
    BY <1>2, <2>2, <2>3, Zenon DEF CqIsPosted
<1>9. PreparedAreKnown'
  BY <1>2, <1>3, <1>4, <1>5, Zenon DEF RingInv, PreparedAreKnown
<1>10. LastSqeIsQueued'
  <2>1. lastSqe # 0 => lastSqe \in Serials
    BY <1>0, SizeAssumption, SMT DEF TypeOK, Serials
  <2>2. QED
    BY <1>2, <1>4, <1>5, <2>1, Zenon DEF RingInv, LastSqeIsQueued
<1>11. QED
  BY <1>2, <1>8, <1>9, <1>10, Zenon DEF RingInv, LoopIsAlone, SubmitHasReset,
     MagicIsNotIssued

LEMMA NextKeepsRing ==
  ASSUME IInv, RingInv, [Next]_vars
  PROVE  RingInv'
<1>1. CASE UNCHANGED vars
  BY <1>1, RingQuiet, Zenon DEF vars, ringVars, coroVars
<1>2. QED
  BY <1>1, UserKeepsRing, LoopKeepsRing, KernelKeepsRing, Zenon DEF Next

LEMMA InitRing ==
  ASSUME Init
  PROVE  RingInv
<1>1. sqe = <<>> /\ DOMAIN <<>> = {} /\ cq = <<>>
  BY SMT DEF Init
<1>2. PreparedAreKnown /\ MagicIsNotIssued /\ CqIsPosted
  BY <1>1, Zenon DEF Init, PreparedAreKnown, MagicIsNotIssued, CqIsPosted
<1>3. LoopIsAlone /\ SubmitHasReset /\ LastSqeIsQueued
  BY SMT DEF Init, LoopIsAlone, SubmitHasReset, LastSqeIsQueued
<1>4. QED
  BY <1>2, <1>3, Zenon DEF RingInv

(* The invariant of the rings holds, whatever the kernel does and however  *)
(* often ids are reused.                                                   *)
THEOREM RingInvHolds == Spec => []RingInv
<1>1. Init => RingInv
  BY InitRing
<1>2. IInv /\ RingInv /\ [Next]_vars => RingInv'
  BY NextKeepsRing
<1>3. QED
  BY <1>1, <1>2, IInvHolds, PTL DEF Spec

(* linkTimeout never writes the flag IOSQE_IO_LINK through a lastSqe_ that *)
(* the kernel has consumed: run() resets it before every submission, and   *)
(* it is the newest entry otherwise.                                       *)
THEOREM LastSqeIsNotStale == Spec => []LastSqeIsQueued
<1>1. RingInv => LastSqeIsQueued
  BY DEF RingInv
<1>2. QED
  BY <1>1, RingInvHolds, PTL

(* Whoever awaits an operation is resumed by its completion: run() drops a *)
(* completion only if it has the id of a cancellation or a timeout, which  *)
(* no operation ever gets, or if nobody awaits it.                         *)
THEOREM AwaitedAreDispatched == Spec => AwaitedIsNotSkipped
<1> DEFINE A == \A n \in Operations :
                  phase[n] = "posted" /\ phase'[n] = "done" /\ Awaited(n)
                    => stack' # <<>>
<1>1. ASSUME IInv, RingInv, [Next]_vars, NEW n \in Operations,
             phase[n] = "posted", phase'[n] = "done", Awaited(n)
      PROVE  stack' # <<>>
  <2>0. TypeOK /\ NoDanglingCompleter /\ n \in DOMAIN sqe /\ n \in Serials
    BY <1>1, EntriesAreSerials, Zenon DEF IInv, CoroInv, Operations
  <2>1. /\ "posted" # "done" /\ "queued" # "done" /\ "kernel" # "done"
        /\ "posted" # "queued"
    BY SMT
  <2>2. phase \in [Serials -> Phases]
    BY <2>0, Zenon DEF TypeOK
  <2>3. CASE Dispatch
    <3>1. \E c : stack' = <<c>>
      BY <2>3, Zenon DEF Dispatch
    <3>2. QED
      BY <3>1, SMT
  <2>4. CASE Skip
    <3>1. /\ phase' = [phase EXCEPT ![Head(cq)] = "done"]
          /\ sqe[Head(cq)].id = OpIdIgnore \/ completers[sqe[Head(cq)].id] = NoCoro
      BY <2>4, Zenon DEF Skip
    <3>2. n = Head(cq)
      BY <1>1, <2>0, <2>1, <2>2, <3>1, Zenon
    <3>3. PICK i \in Ids : completers[i] # NoCoro /\ awaits[completers[i]] = n
      BY <1>1, Zenon DEF Awaited
    <3>4. sqe[n].id = i
      BY <2>0, <3>3, Zenon DEF NoDanglingCompleter
    <3>5. sqe[n].id # OpIdIgnore
      BY <1>1, <2>0, Zenon DEF RingInv, MagicIsNotIssued, Operations
    <3>6. QED
      BY <3>1, <3>2, <3>3, <3>4, <3>5, Zenon
  <2>5. CASE SubmitAny
    <3>1. PICK taken \in SUBSET Queued : Submit(taken)
      BY <2>5, Zenon DEF SubmitAny
    <3>2. phase' = [m \in Serials |-> IF m \in taken THEN "kernel" ELSE phase[m]]
      BY <3>1, Zenon DEF Submit
    <3>3. QED
      BY <1>1, <2>0, <2>1, <3>2, Zenon
  <2>6. CASE Kernel
    <3>1. PICK m \in DOMAIN sqe : Post(m)
      BY <2>6, Zenon DEF Kernel, Complete, Expire, TimeoutEnds, CancelHits, CancelEnds
    <3>2. phase' = [phase EXCEPT ![m] = "posted"]
      BY <3>1, Zenon DEF Post
    <3>3. QED
      BY <1>1, <2>0, <2>1, <2>2, <3>2, Zenon
  <2>7. CASE User
    <3>1. phase' = phase \/ \E m : phase' = [phase EXCEPT ![m] = "queued"]
      BY <2>7, Zenon DEF User, Issue, IssueFull, IssueAndAwait, IssueAndAwaitFull,
         TimePointAborts, Finish, Await, Timeout, TimeoutNotLast, TimeoutFull, Cancel,
         SubmitCancel, Start, Destroy, finalizeSqe, ringVars
    <3>2. QED
      BY <1>1, <2>0, <2>1, <2>2, <3>1, Zenon
  <2>8. CASE Run \/ Check \/ Continue \/ Advance \/ UNCHANGED vars
    <3>1. phase' = phase
      BY <2>8, Zenon DEF Run, Check, Continue, Advance, vars, ringVars
    <3>2. QED
      BY <1>1, <2>1, <3>1, Zenon
  <2>9. QED
    BY <1>1, <2>3, <2>4, <2>5, <2>6, <2>7, <2>8, Zenon DEF Next, Loop
<1>2. IInv /\ RingInv /\ [Next]_vars => [A]_vars
  BY <1>1, Zenon
<1>3. QED
  BY <1>2, IInvHolds, RingInvHolds, PTL DEF Spec, AwaitedIsNotSkipped
-----------------------------------------------------------------------------
(* What follows is about queues whose ids have not gone all the way round. *)

(* getNextOpId on numbers: W is OpIdInvalid, F the first id, N the next    *)
(* one and C the number of calls so far; U are the ids of operations.      *)
LEMMA FreshId ==
  ASSUME NEW W \in Nat, NEW F \in Nat, NEW N \in Nat, NEW C \in Nat,
         NEW U \in SUBSET Nat, NEW i \in Nat,
         W > 0, F <= W, N <= W, C < W,
         i = IF N = W THEN 0 ELSE N,
         \/ F <= N /\ N <= F + C /\ \A x \in U : F <= x /\ x < N
         \/ N + W <= F + C /\ \A x \in U : x < N \/ F <= x
  PROVE  /\ i \notin U /\ i + 1 <= W
         /\ \/ /\ F <= i + 1 /\ i + 1 <= F + (C + 1)
               /\ \A x \in U \cup {i} : F <= x /\ x < i + 1
            \/ /\ (i + 1) + W <= F + (C + 1)
               /\ \A x \in U \cup {i} : x < i + 1 \/ F <= x
<1>1. CASE F <= N /\ N <= F + C /\ \A x \in U : F <= x /\ x < N
  <2>1. CASE N = W
    BY <1>1, <2>1, SMT
  <2>2. CASE N # W
    BY <1>1, <2>2, SMT
  <2>3. QED
    BY <2>1, <2>2, Zenon
<1>2. CASE N + W <= F + C /\ \A x \in U : x < N \/ F <= x
  <2>1. N < F /\ i = N
    BY <1>2, SMT
  <2>2. i \notin U /\ i + 1 <= W /\ (i + 1) + W <= F + (C + 1)
    BY <1>2, <2>1, SMT
  <2>3. \A x \in U \cup {i} : x < i + 1 \/ F <= x
    BY <1>2, <2>1, SMT
  <2>4. QED
    BY <2>2, <2>3, Zenon
<1>3. QED
  BY <1>1, <1>2, Zenon

Used == {sqe[n].id : n \in Operations}

(* The ids that are counted, as a statement about a set of ids.            *)
Counted(U, next, count) ==
  /\ next <= OpIdInvalid
  /\ \/ FirstId <= next /\ next <= FirstId + count /\ \A x \in U : FirstId <= x /\ x < next
     \/ next + OpIdInvalid <= FirstId + count /\ \A x \in U : x < next \/ FirstId <= x

LEMMA CountedMeaning == IdsAreCounted <=> Counted(Used, nextOpId, calls)
BY Zenon DEF IdsAreCounted, Counted, Used

LEMMA CountedMeaningPrime == IdsAreCounted' <=> Counted(Used', nextOpId', calls')
BY Zenon DEF IdsAreCounted, Counted, Used

(* The id that getNextOpId returns is not the id of any operation.         *)
LEMMA IdIsFresh ==
  ASSUME IdsSuffice, TypeOK, IdsAreCounted, Call
  PROVE  /\ getNextOpId.id \notin Used
         /\ Counted(Used, getNextOpId.next, calls')
         /\ Counted(Used \cup {getNextOpId.id}, getNextOpId.next, calls')
<1> DEFINE i == getNextOpId.id
<1>1. Counted(Used, nextOpId, calls)
  BY CountedMeaning, Zenon
<1>2. /\ OpIdInvalid \in Nat /\ FirstId \in Nat /\ nextOpId \in Nat /\ calls \in Nat
      /\ OpIdInvalid > 0 /\ FirstId <= OpIdInvalid /\ calls < OpIdInvalid
      /\ calls' = calls + 1
  BY SizeAssumption, SMT DEF TypeOK, Ids, OpIdInvalid, IdsSuffice, Call
<1>3. Used \in SUBSET Nat
  <2>1. \A n \in Operations : sqe[n].id \in Ids
    BY EntriesAreSerials, Zenon DEF Operations
  <2>2. \A j \in Ids : j \in Nat
    BY SizeAssumption, SMT DEF Ids
  <2>3. QED
    BY <2>1, <2>2, Zenon DEF Used
<1>4. nextOpId <= OpIdInvalid
  BY Zenon DEF IdsAreCounted
<1>5. i = (IF nextOpId = OpIdInvalid THEN 0 ELSE nextOpId) /\ getNextOpId.next = i + 1
  BY <1>2, <1>4, SizeAssumption, SMT DEF getNextOpId, OpIdInvalid, OpIdIgnore
<1>6. i \in Nat
  BY <1>2, <1>5, SMT
<1> HIDE DEF i
<1>7. /\ i \notin Used /\ i + 1 <= OpIdInvalid
      /\ \/ /\ FirstId <= i + 1 /\ i + 1 <= FirstId + (calls + 1)
            /\ \A x \in Used \cup {i} : FirstId <= x /\ x < i + 1
         \/ /\ (i + 1) + OpIdInvalid <= FirstId + (calls + 1)
            /\ \A x \in Used \cup {i} : x < i + 1 \/ FirstId <= x
  <2>1. \/ /\ FirstId <= nextOpId /\ nextOpId <= FirstId + calls
           /\ \A x \in Used : FirstId <= x /\ x < nextOpId
        \/ /\ nextOpId + OpIdInvalid <= FirstId + calls
           /\ \A x \in Used : x < nextOpId \/ FirstId <= x
    BY <1>1, Zenon DEF Counted
  <2>2. i = IF nextOpId = OpIdInvalid THEN 0 ELSE nextOpId
    BY <1>5, Zenon
  <2> HIDE DEF Used, OpIdInvalid
  <2>3. QED
    BY <1>2, <1>3, <1>4, <1>6, <2>1, <2>2, FreshId, SMT
<1>8. Counted(Used \cup {i}, i + 1, calls + 1)
  BY <1>7, Zenon DEF Counted
<1>9. Counted(Used, i + 1, calls + 1)
  BY <1>7, Zenon DEF Counted
<1>10. QED
  BY <1>2, <1>5, <1>7, <1>8, <1>9, Zenon DEF i

(* The invariant about ids in the three kinds of steps: an operation is    *)
(* issued, its id is lost since the queue is full, no id is taken.         *)
IdsInv == IdsAreCounted /\ IdsAreUnique

LEMMA IdsIssue ==
  ASSUME IdsSuffice, TypeOK, IdsInv, Call, finalizeSqe("io", getNextOpId.id, 0),
         nextOpId' = getNextOpId.next
  PROVE  /\ IdsInv'
         /\ \A n \in Operations : sqe[n].id # getNextOpId.id
<1> DEFINE i == getNextOpId.id
           m == Len(sqe) + 1
<1>1. /\ m \notin DOMAIN sqe /\ DOMAIN sqe' = DOMAIN sqe \cup {m}
      /\ \A n \in DOMAIN sqe : sqe'[n] = sqe[n]
      /\ sqe'[m].kind = "io" /\ sqe'[m].id = i
  <2>1. "io" \in Kinds /\ 0 \in Nat /\ calls < MaxCalls
    BY SMT DEF Kinds, Call
  <2>2. QED
    BY <2>1, OpIdType, EntryFacts, Zenon
<1>2. i \notin Used /\ Counted(Used \cup {i}, nextOpId', calls')
  BY IdIsFresh, Zenon DEF IdsInv
<1> HIDE DEF i, m
<1>3. /\ Operations' = Operations \cup {m} /\ m \notin Operations
      /\ \A n \in Operations : sqe'[n] = sqe[n]
  BY <1>1, Zenon DEF Operations
<1>4. Used' = Used \cup {i}
  BY <1>1, <1>3, Zenon DEF Used
<1>5. IdsAreCounted'
  BY <1>2, <1>4, CountedMeaningPrime, Zenon
<1>6. \A n \in Operations : sqe[n].id # i
  BY <1>2, Zenon DEF Used
<1>7. IdsAreUnique'
  <2>1. ASSUME NEW a \in Operations \cup {m}, NEW b \in Operations \cup {m},
               sqe'[a].id = sqe'[b].id
        PROVE  a = b
    <3>1. CASE a \in Operations /\ b \in Operations
      BY <1>3, <2>1, <3>1, Zenon DEF IdsInv, IdsAreUnique
    <3>2. CASE a = m \/ b = m
      BY <1>1, <1>3, <1>6, <2>1, <3>2, Zenon
    <3>3. QED
      BY <3>1, <3>2, Zenon
  <2>2. QED
    BY <1>3, <2>1, Zenon DEF IdsAreUnique
<1>8. QED
  BY <1>5, <1>6, <1>7, Zenon DEF IdsInv, i

LEMMA IdsLost ==
  ASSUME IdsSuffice, TypeOK, IdsInv, Call, sqe' = sqe, nextOpId' = getNextOpId.next
  PROVE  IdsInv'
<1>1. Counted(Used, nextOpId', calls')
  BY IdIsFresh, Zenon DEF IdsInv
<1>2. Used' = Used /\ Operations' = Operations
  BY Zenon DEF Used, Operations
<1>3. QED
  BY <1>1, <1>2, CountedMeaningPrime, Zenon DEF IdsInv, IdsAreUnique

LEMMA IdsKept ==
  ASSUME TypeOK, IdsInv, calls' = calls \/ Call, nextOpId' = nextOpId,
         Operations' = Operations, \A n \in Operations : sqe'[n] = sqe[n]
  PROVE  IdsInv'
<1>1. Used' = Used
  BY Zenon DEF Used
<1>2. /\ OpIdInvalid \in Nat /\ FirstId \in Nat /\ nextOpId \in Nat /\ calls \in Nat
      /\ calls' = calls \/ calls' = calls + 1
  BY SizeAssumption, SMT DEF TypeOK, Ids, OpIdInvalid, Call
<1>3. /\ nextOpId <= FirstId + calls => nextOpId <= FirstId + calls'
      /\ nextOpId + OpIdInvalid <= FirstId + calls
           => nextOpId + OpIdInvalid <= FirstId + calls'
  BY <1>2, SMT
<1>4. Counted(Used, nextOpId, calls')
  BY <1>3, CountedMeaning, Zenon DEF IdsInv, Counted
<1>5. QED
  <2>1. \A a, b \in Operations : sqe'[a].id = sqe'[b].id => a = b
    BY Zenon DEF IdsInv, IdsAreUnique
  <2>2. IdsAreUnique'
    BY <2>1, Zenon DEF IdsAreUnique
  <2>3. QED
    BY <1>1, <1>4, <2>2, CountedMeaningPrime, Zenon DEF IdsInv

(* No entry is ever changed after it has been prepared.                    *)
EntriesKept == \A n \in DOMAIN sqe : n \in DOMAIN sqe' /\ sqe'[n] = sqe[n]

UnderWay == {"queued", "kernel", "posted"}

(* Entries of the kind k are prepared, if any, and no other one moves.     *)
LEMMA KindPrepared ==
  ASSUME TypeOK, Call,
         NEW k \in Kinds, NEW i \in Ids, NEW t \in Nat, finalizeSqe(k, i, t)
  PROVE  /\ EntriesKept
         /\ \A n \in DOMAIN sqe' : n \notin DOMAIN sqe => sqe'[n].kind = k
         /\ \A n \in DOMAIN sqe : phase'[n] = phase[n]
         /\ k # "io" => Operations' = Operations
<1> DEFINE m == Len(sqe) + 1
<1>1. /\ m \notin DOMAIN sqe /\ DOMAIN sqe' = DOMAIN sqe \cup {m}
      /\ \A n \in DOMAIN sqe : sqe'[n] = sqe[n]
      /\ sqe'[m].kind = k
      /\ \A n \in Serials : n # m => phase'[n] = phase[n]
  BY EntryFacts, Zenon DEF Call
<1> HIDE DEF m
<1>2. \A n \in DOMAIN sqe : n \in Serials /\ n # m
  BY <1>1, EntriesAreSerials, Zenon
<1>3. QED
  BY <1>1, <1>2, Zenon DEF EntriesKept, Operations

LEMMA CancelPrepared ==
  ASSUME TypeOK, Call, NEW i \in Ids, SubmitCancel(i)
  PROVE  /\ EntriesKept /\ linked' = linked
         /\ \A n \in DOMAIN sqe' : n \notin DOMAIN sqe => sqe'[n].kind = "cancel"
         /\ \A n \in DOMAIN sqe : phase'[n] = phase[n]
         /\ Operations' = Operations
<1>1. CASE SqRoom
  <2>1. finalizeSqe("cancel", OpIdIgnore, i) /\ linked' = linked
    BY <1>1, Zenon DEF SubmitCancel
  <2>2. "cancel" \in Kinds /\ i \in Nat /\ "cancel" # "io"
    BY SizeAssumption, SMT DEF Kinds, Ids
  <2>3. QED
    BY <2>1, <2>2, OpIdIsNotMagic, KindPrepared, Zenon
<1>2. CASE ~SqRoom
  BY <1>2, Zenon DEF SubmitCancel, EntriesKept, Operations
<1>3. QED
  BY <1>1, <1>2, Zenon

(* The steps that link no timeout.                                         *)
LEMMA LinksKept ==
  ASSUME LinksInv, EntriesKept,
         \A n \in DOMAIN sqe' : n \notin DOMAIN sqe => sqe'[n].kind # "linkTimeout",
         linked \subseteq linked',
         aborted' = "no" => aborted = "no" /\ linked' = linked
  PROVE  LinksInv'
<1>0. \A n \in DOMAIN sqe : n \in Operations' <=> n \in Operations
  BY Zenon DEF EntriesKept, Operations
<1>1. ASSUME NEW n \in DOMAIN sqe', sqe'[n].kind = "linkTimeout"
      PROVE  /\ n - 1 \in linked' /\ n - 1 \in DOMAIN sqe' /\ sqe'[n].target \in DOMAIN sqe'
             /\ n - 1 \in Operations' \/ sqe'[n].target \in Operations' =>
                  sqe'[n].target = n - 1
  <2>1. n \in DOMAIN sqe /\ sqe'[n] = sqe[n] /\ sqe[n].kind = "linkTimeout"
    BY <1>1, Zenon DEF EntriesKept
  <2>2. /\ n - 1 \in linked /\ n - 1 \in DOMAIN sqe /\ sqe[n].target \in DOMAIN sqe
        /\ n - 1 \in Operations \/ sqe[n].target \in Operations => sqe[n].target = n - 1
    BY <2>1, Zenon DEF LinksInv, TimeoutFollowsItsOperation
  <2>3. QED
    BY <1>0, <2>1, <2>2, Zenon DEF EntriesKept
<1>2. ASSUME aborted' = "no", NEW n \in linked'
      PROVE  n + 1 \in DOMAIN sqe' /\ sqe'[n + 1].kind = "linkTimeout"
  BY <1>2, Zenon DEF LinksInv, TimeoutFollowsItsOperation, EntriesKept
<1>3. QED
  BY <1>1, <1>2, Zenon DEF LinksInv, TimeoutFollowsItsOperation

(* linkTimeout links the newest entry, and it accepts an operation only if *)
(* that is the newest entry: no other one has its id.                      *)
LEMMA LinkIsOwn ==
  ASSUME TypeOK, RingInv, IdsAreUnique, NEW n \in Handles, mayLink(n)
  PROVE  /\ lastSqe = Len(sqe) /\ lastSqe \in DOMAIN sqe
         /\ n \in Operations \/ lastSqe \in Operations => lastSqe = n
<1>1. /\ lastSqe # 0 /\ sqe[lastSqe].id = sqe[n].id /\ lastSqe = Len(sqe)
  BY Zenon DEF mayLink, RingInv, LastSqeIsQueued
<1>2. lastSqe \in DOMAIN sqe
  BY <1>1, EntriesAreSerials, SMT DEF TypeOK
<1>3. n \in DOMAIN sqe
  BY Zenon DEF Handles
<1>4. \A j \in DOMAIN sqe : j \in Operations <=> sqe[j].id # OpIdIgnore
  BY Zenon DEF RingInv, MagicIsNotIssued, Operations
<1>5. QED
  BY <1>1, <1>2, <1>3, <1>4, Zenon DEF IdsAreUnique

LEMMA TimeoutLinks ==
  ASSUME TypeOK, RingInv, IdsAreUnique, LinksInv,
         NEW n \in Handles, Timeout(n)
  PROVE  LinksInv'
<1> DEFINE m == Len(sqe) + 1
<1>1. /\ aborted = "no" /\ calls < MaxCalls /\ mayLink(n)
      /\ linked' = linked \cup {lastSqe} /\ finalizeSqe("linkTimeout", OpIdIgnore, n)
  BY Zenon DEF Timeout, CoroRuns, Call, linkFlag
<1>2. /\ lastSqe = Len(sqe) /\ Len(sqe) \in Nat /\ lastSqe \in DOMAIN sqe
      /\ n \in Operations \/ lastSqe \in Operations => lastSqe = n
      /\ n \in DOMAIN sqe
  BY <1>1, LinkIsOwn, EntriesAreSerials, Zenon DEF Handles
<1>3. n \in Nat
  BY <1>2, EntriesAreSerials, SMT
<1>4. /\ m \notin DOMAIN sqe /\ DOMAIN sqe' = DOMAIN sqe \cup {m}
      /\ \A j \in DOMAIN sqe : sqe'[j] = sqe[j]
      /\ sqe'[m].kind = "linkTimeout" /\ sqe'[m].target = n
  <2>1. "linkTimeout" \in Kinds
    BY Zenon DEF Kinds
  <2>2. QED
    BY <1>1, <1>3, <2>1, OpIdIsNotMagic, EntryFacts, Zenon
<1>m. m = lastSqe + 1 /\ m - 1 = lastSqe
  BY <1>2, SMT
<1> HIDE DEF m
<1>o. \A j \in DOMAIN sqe : j \in Operations' <=> j \in Operations
  BY <1>4, Zenon DEF Operations
<1>5. ASSUME NEW j \in DOMAIN sqe', sqe'[j].kind = "linkTimeout"
      PROVE  /\ j - 1 \in linked' /\ j - 1 \in DOMAIN sqe' /\ sqe'[j].target \in DOMAIN sqe'
             /\ j - 1 \in Operations' \/ sqe'[j].target \in Operations' =>
                  sqe'[j].target = j - 1
  <2>1. CASE j = m
    BY <1>1, <1>2, <1>4, <1>m, <1>o, <2>1, Zenon
  <2>2. CASE j \in DOMAIN sqe
    <3>1. sqe'[j] = sqe[j]
      BY <1>4, <2>2, Zenon
    <3>2. /\ j - 1 \in linked /\ j - 1 \in DOMAIN sqe /\ sqe[j].target \in DOMAIN sqe
          /\ j - 1 \in Operations \/ sqe[j].target \in Operations => sqe[j].target = j - 1
      BY <1>5, <2>2, <3>1, Zenon DEF LinksInv, TimeoutFollowsItsOperation
    <3>3. QED
      BY <1>1, <1>4, <1>o, <3>1, <3>2, Zenon
  <2>3. QED
    BY <1>4, <2>1, <2>2, Zenon
<1>6. ASSUME NEW j \in linked'
      PROVE  j + 1 \in DOMAIN sqe' /\ sqe'[j + 1].kind = "linkTimeout"
  <2>1. CASE j = lastSqe
    BY <1>4, <1>m, <2>1, Zenon
  <2>2. CASE j \in linked
    BY <1>1, <1>4, <2>2, Zenon DEF LinksInv, TimeoutFollowsItsOperation
  <2>3. QED
    BY <1>1, <2>1, <2>2, Zenon
<1>7. QED
  BY <1>5, <1>6, Zenon DEF LinksInv, TimeoutFollowsItsOperation

(* Cancelled operations: the steps that add no completer, await_suspend,   *)
(* and cancel(_, true).                                                    *)
LEMMA DisabledKept ==
  ASSUME TypeOK, DisabledIsRemoved, EntriesKept, disabled' = disabled,
         \A i \in Ids : completers[i] = NoCoro => completers'[i] = NoCoro
  PROVE  DisabledIsRemoved'
<1>1. \A n \in DOMAIN sqe : sqe[n].id \in Ids
  BY EntriesAreSerials, Zenon
<1>2. disabled' \subseteq DOMAIN sqe'
  BY Zenon DEF DisabledIsRemoved, EntriesKept
<1>3. ASSUME NEW n \in disabled' \cap Operations'
      PROVE  completers'[sqe'[n].id] = NoCoro
  BY <1>1, Zenon DEF DisabledIsRemoved, EntriesKept, Operations
<1>4. QED
  BY <1>2, <1>3, Zenon DEF DisabledIsRemoved

LEMMA DisabledAwaited ==
  ASSUME TypeOK, DisabledIsRemoved, EntriesKept, NEW n, NEW id \in Ids, NEW c,
         disabled' = disabled \ {n}, completers' = [completers EXCEPT ![id] = c],
         \A j \in Operations : j # n => sqe[j].id # id
  PROVE  DisabledIsRemoved'
<1>1. /\ \A j \in DOMAIN sqe : sqe[j].id \in Ids
      /\ completers \in [Ids -> Coros \cup {NoCoro}]
  BY EntriesAreSerials, Zenon DEF TypeOK
<1>2. disabled' \subseteq DOMAIN sqe'
  BY Zenon DEF DisabledIsRemoved, EntriesKept
<1>3. ASSUME NEW j \in disabled' \cap Operations'
      PROVE  completers'[sqe'[j].id] = NoCoro
  <2>1. j \in disabled /\ j # n /\ j \in DOMAIN sqe /\ sqe'[j] = sqe[j]
    BY <1>3, Zenon DEF DisabledIsRemoved, EntriesKept
  <2>2. j \in Operations
    BY <1>3, <2>1, Zenon DEF Operations
  <2>3. sqe[j].id # id /\ completers[sqe[j].id] = NoCoro /\ sqe[j].id \in Ids
    BY <1>1, <2>1, <2>2, Zenon DEF DisabledIsRemoved
  <2>4. QED
    BY <1>1, <2>1, <2>3, Zenon
<1>4. QED
  BY <1>2, <1>3, Zenon DEF DisabledIsRemoved

LEMMA DisabledCancelled ==
  ASSUME TypeOK, DisabledIsRemoved, EntriesKept, NEW n \in DOMAIN sqe,
         disabled' = disabled \cup {n},
         completers' = [completers EXCEPT ![sqe[n].id] = NoCoro]
  PROVE  DisabledIsRemoved'
<1>1. /\ \A j \in DOMAIN sqe : sqe[j].id \in Ids
      /\ completers \in [Ids -> Coros \cup {NoCoro}]
  BY EntriesAreSerials, Zenon DEF TypeOK
<1>2. disabled' \subseteq DOMAIN sqe'
  BY Zenon DEF DisabledIsRemoved, EntriesKept
<1>3. ASSUME NEW j \in disabled' \cap Operations'
      PROVE  completers'[sqe'[j].id] = NoCoro
  <2>1. j \in DOMAIN sqe /\ sqe'[j] = sqe[j] /\ sqe[j].id \in Ids
    BY <1>1, <1>3, Zenon DEF DisabledIsRemoved, EntriesKept
  <2>2. j \in Operations
    BY <1>3, <2>1, Zenon DEF Operations
  <2>3. j = n \/ completers[sqe[j].id] = NoCoro
    BY <1>3, <2>2, Zenon DEF DisabledIsRemoved
  <2>4. QED
    BY <1>1, <2>1, <2>3, Zenon
<1>4. QED
  BY <1>2, <1>3, Zenon DEF DisabledIsRemoved

(* What a completer says about the coroutine behind it.                    *)
LEMMA AwaitedEntry ==
  ASSUME IInv, NEW i \in Ids, completers[i] # NoCoro
  PROVE  /\ completers[i] \in Coros /\ cstate[completers[i]] = "suspended"
         /\ awaits[completers[i]] \in DOMAIN sqe
         /\ sqe[awaits[completers[i]]].id = i
<1>1. TypeOK /\ NoDanglingCompleter
  BY Zenon DEF IInv, CoroInv
<1>2. /\ completers[i] \in Coros /\ cstate[completers[i]] = "suspended"
      /\ awaits[completers[i]] # 0 /\ sqe[awaits[completers[i]]].id = i
  BY <1>1, Zenon DEF TypeOK, NoDanglingCompleter
<1>3. awaits[completers[i]] \in 0 .. Len(sqe)
  BY <1>1, <1>2, Zenon DEF TypeOK
<1>4. awaits[completers[i]] \in DOMAIN sqe
  BY <1>1, <1>2, <1>3, EntriesAreSerials, SMT
<1>5. QED
  BY <1>2, <1>4, Zenon

(* The operations that completers wait for: the steps that add no          *)
(* completer, and await_suspend.                                           *)
LateInv == AwaitedCancelIsLate /\ NoLostCompletion

LEMMA LateKept ==
  ASSUME TypeOK, LateInv, late \subseteq late',
         \A i \in Ids : completers'[i] # NoCoro =>
           LET n == awaits[completers[i]]
           IN  /\ completers'[i] = completers[i] /\ awaits'[completers[i]] = n
               /\ phase[n] \in UnderWay => phase'[n] \in UnderWay \/ n \in late'
  PROVE  LateInv'
<1>1. OpIdIgnore \in Ids
  BY OpIdIsNotMagic, Zenon
<1>2. AwaitedCancelIsLate'
  <2>1. ASSUME completers'[OpIdIgnore] # NoCoro
        PROVE  awaits'[completers'[OpIdIgnore]] \in late'
    BY <1>1, <2>1, Zenon DEF LateInv, AwaitedCancelIsLate
  <2>2. QED
    BY <2>1, Zenon DEF AwaitedCancelIsLate
<1>3. NoLostCompletion'
  <2>1. ASSUME NEW i \in Ids, completers'[i] # NoCoro
        PROVE  phase'[awaits'[completers'[i]]] \in UnderWay \/ awaits'[completers'[i]] \in late'
    <3>1. /\ completers'[i] = completers[i]
          /\ awaits'[completers[i]] = awaits[completers[i]]
          /\ phase[awaits[completers[i]]] \in UnderWay =>
               \/ phase'[awaits[completers[i]]] \in UnderWay
               \/ awaits[completers[i]] \in late'
      BY <2>1, Zenon
    <3>2. phase[awaits[completers[i]]] \in UnderWay \/ awaits[completers[i]] \in late
      BY <2>1, <3>1, Zenon DEF LateInv, NoLostCompletion, UnderWay
    <3>3. QED
      BY <3>1, <3>2, Zenon
  <2>2. QED
    BY <2>1, Zenon DEF NoLostCompletion, UnderWay
<1>4. QED
  BY <1>2, <1>3, Zenon DEF LateInv

LEMMA LateAwaited ==
  ASSUME IInv, LateInv, late \subseteq late', stack # <<>>,
         NEW n, NEW id \in Ids, Suspend(n, id),
         phase'[n] \in UnderWay \/ n \in late', id = OpIdIgnore => n \in late',
         \A j \in DOMAIN sqe : phase'[j] = phase[j]
  PROVE  LateInv'
<1> DEFINE c == Current
<1>0. TypeOK /\ StackRuns
  BY Zenon DEF IInv, CoroInv
<1>1. c \in Coros /\ cstate[c] = "running"
  BY <1>0, PopFacts, Zenon DEF Suspend
<1>2. /\ completers' = [completers EXCEPT ![id] = c]
      /\ awaits' = [awaits EXCEPT ![c] = n]
  BY Zenon DEF Suspend
<1> HIDE DEF c
<1>3. /\ completers \in [Ids -> Coros \cup {NoCoro}]
      /\ awaits \in [Coros -> 0 .. Len(sqe)]
  BY <1>0, Zenon DEF TypeOK
<1>4. completers'[id] = c /\ awaits'[c] = n
  BY <1>1, <1>2, <1>3, Zenon
<1>5. ASSUME NEW i \in Ids, i # id, completers'[i] # NoCoro
      PROVE  LET m == awaits[completers[i]]
             IN  /\ completers[i] # NoCoro
                 /\ completers'[i] = completers[i] /\ awaits'[completers[i]] = m
                 /\ phase'[m] = phase[m]
  <2>1. completers'[i] = completers[i]
    BY <1>2, <1>3, <1>5, Zenon
  <2>2. /\ completers[i] \in Coros /\ cstate[completers[i]] = "suspended"
        /\ awaits[completers[i]] \in DOMAIN sqe
    BY <1>5, <2>1, AwaitedEntry, Zenon
  <2>3. completers[i] # c
    BY <1>1, <2>2, SMT
  <2>4. QED
    BY <1>2, <1>3, <1>5, <2>1, <2>2, <2>3, Zenon
<1>6. AwaitedCancelIsLate'
  <2>1. OpIdIgnore \in Ids
    BY <1>0, OpIdIsNotMagic, Zenon
  <2>2. ASSUME completers'[OpIdIgnore] # NoCoro
        PROVE  awaits'[completers'[OpIdIgnore]] \in late'
    BY <1>4, <1>5, <2>1, <2>2, Zenon DEF LateInv, AwaitedCancelIsLate
  <2>3. QED
    BY <2>2, Zenon DEF AwaitedCancelIsLate
<1>7. NoLostCompletion'
  <2>1. ASSUME NEW i \in Ids, completers'[i] # NoCoro
        PROVE  phase'[awaits'[completers'[i]]] \in UnderWay \/ awaits'[completers'[i]] \in late'
    <3>1. CASE i = id
      BY <1>4, <3>1, Zenon
    <3>2. CASE i # id
      <4>1. /\ completers[i] # NoCoro /\ completers'[i] = completers[i]
            /\ awaits'[completers[i]] = awaits[completers[i]]
            /\ phase'[awaits[completers[i]]] = phase[awaits[completers[i]]]
        BY <1>5, <2>1, <3>2, Zenon
      <4>2. phase[awaits[completers[i]]] \in UnderWay \/ awaits[completers[i]] \in late
        BY <4>1, Zenon DEF LateInv, NoLostCompletion, UnderWay
      <4>3. QED
        BY <4>1, <4>2, Zenon
    <3>3. QED
      BY <3>1, <3>2, Zenon
  <2>2. QED
    BY <2>1, Zenon DEF NoLostCompletion, UnderWay
<1>8. QED
  BY <1>6, <1>7, Zenon DEF LateInv

(* The steps that touch no completer and no awaiter.                       *)
LEMMA OpStays ==
  ASSUME IInv, OpInv, IdsInv', LinksInv', EntriesKept,
         UNCHANGED <<completers, awaits, disabled>>, late \subseteq late',
         \A n \in DOMAIN sqe : phase[n] \in UnderWay => phase'[n] \in UnderWay
  PROVE  OpInv'
<1>0. TypeOK
  BY Zenon DEF IInv
<1>1. DisabledIsRemoved'
  BY <1>0, DisabledKept, Zenon DEF OpInv
<1>2. LateInv'
  <2>1. \A i \in Ids : completers[i] # NoCoro => awaits[completers[i]] \in DOMAIN sqe
    BY AwaitedEntry, Zenon
  <2>2. QED
    BY <1>0, <2>1, LateKept, Zenon DEF OpInv, LateInv
<1>3. QED
  BY <1>1, <1>2, Zenon DEF OpInv, IdsInv, LateInv

(* await_suspend for an operation that is under way.                       *)
LEMMA OpSuspends ==
  ASSUME IInv, OpInv, IdsInv', LinksInv', EntriesKept,
         stack # <<>>, NEW n, NEW id \in Ids, Suspend(n, id) \/ InsertAborts,
         late \subseteq late',
         \A j \in Operations : j # n => sqe[j].id # id,
         phase'[n] \in UnderWay \/ n \in late', id = OpIdIgnore => n \in late',
         \A j \in DOMAIN sqe : phase'[j] = phase[j]
  PROVE  OpInv'
<1>0. TypeOK
  BY Zenon DEF IInv
<1>1. CASE Suspend(n, id)
  <2>1. DisabledIsRemoved'
    BY <1>0, <1>1, DisabledAwaited, Zenon DEF OpInv, Suspend
  <2>2. LateInv'
    BY <1>1, LateAwaited, Zenon DEF OpInv, LateInv
  <2>3. QED
    BY <2>1, <2>2, Zenon DEF OpInv, IdsInv, LateInv
<1>2. CASE InsertAborts
  BY <1>2, OpStays, Zenon DEF InsertAborts, coroVars
<1>3. QED
  BY <1>1, <1>2, Zenon

(* An operation that has been prepared has not been freed.                 *)
LEMMA PreparedPhase ==
  ASSUME TypeOK, RingInv, NEW n \in DOMAIN sqe
  PROVE  phase[n] \in UnderWay \/ phase[n] = "done"
<1>1. n \in Serials /\ phase[n] \in Phases /\ phase[n] # "free"
  BY EntriesAreSerials, Zenon DEF TypeOK, RingInv, PreparedAreKnown
<1>2. QED
  BY <1>1, SMT DEF Phases, UnderWay

(* What the await of a handle needs to know about it: its operation is     *)
(* under way or the await is late, and no other operation has its id.      *)
LEMMA HandleAwaited ==
  ASSUME TypeOK, RingInv, IdsAreUnique, NEW n \in Handles, late' = lateWith(n),
         \A j \in DOMAIN sqe : phase'[j] = phase[j]
  PROVE  /\ n \in DOMAIN sqe /\ sqe[n].id \in Ids
         /\ late \subseteq late'
         /\ phase'[n] \in UnderWay \/ n \in late'
         /\ sqe[n].id = OpIdIgnore => n \in late'
         /\ \A j \in Operations : j # n => sqe[j].id # sqe[n].id
<1>1. n \in DOMAIN sqe /\ sqe[n].id \in Ids
  BY EntriesAreSerials, Zenon DEF Handles
<1>2. /\ late \subseteq late'
      /\ phase[n] = "done" \/ sqe[n].kind = "cancel" => n \in late'
  BY Zenon DEF lateWith
<1>3. phase'[n] \in UnderWay \/ n \in late'
  BY <1>1, <1>2, PreparedPhase, Zenon
<1>4. sqe[n].id = OpIdIgnore => n \in late'
  <2>1. ASSUME sqe[n].id = OpIdIgnore PROVE sqe[n].kind = "cancel"
    <3>1. sqe[n].kind # "io" /\ sqe[n].kind # "linkTimeout"
      BY <1>1, <2>1, Zenon DEF RingInv, MagicIsNotIssued, Handles
    <3>2. sqe[n].kind \in Kinds
      BY <1>1, EntriesAreSerials, SMT DEF Sqe
    <3>3. QED
      BY <3>1, <3>2, Zenon DEF Kinds
  <2>2. QED
    BY <1>2, <2>1, Zenon
<1>5. \A j \in Operations : j # n => sqe[j].id # sqe[n].id
  <2>1. \A j \in Operations : sqe[j].id # OpIdIgnore
    BY Zenon DEF RingInv, MagicIsNotIssued, Operations
  <2>2. n \in Operations \/ sqe[n].id = OpIdIgnore
    BY <1>1, Zenon DEF RingInv, MagicIsNotIssued, Operations
  <2>3. QED
    BY <2>1, <2>2, Zenon DEF IdsAreUnique
<1>6. QED
  BY <1>1, <1>2, <1>3, <1>4, <1>5, Zenon

LEMMA OpAwait ==
  ASSUME IInv, RingInv, OpInv, NEW n \in Handles, Await(n)
  PROVE  OpInv'
<1>0. TypeOK /\ IdsAreUnique
  BY Zenon DEF IInv, OpInv
<1>1. /\ stack # <<>> /\ aborted = "no"
      /\ Suspend(n, sqe[n].id) \/ InsertAborts
      /\ late' = lateWith(n)
      /\ UNCHANGED <<nextOpId, sqe, linked, phase, calls>>
  BY Zenon DEF Await, CoroRuns, ringVars
<1>2. EntriesKept /\ Operations' = Operations
  BY <1>0, <1>1, Zenon DEF EntriesKept, Operations
<1>3. IdsInv'
  BY <1>0, <1>1, <1>2, IdsKept, Zenon DEF OpInv, IdsInv
<1>4. LinksInv'
  BY <1>1, <1>2, LinksKept, Zenon DEF OpInv
<1>5. \A j \in DOMAIN sqe : phase'[j] = phase[j]
  BY <1>1, Zenon
<1>6. /\ sqe[n].id \in Ids /\ late \subseteq late'
      /\ phase'[n] \in UnderWay \/ n \in late'
      /\ sqe[n].id = OpIdIgnore => n \in late'
      /\ \A j \in Operations : j # n => sqe[j].id # sqe[n].id
  BY <1>0, <1>1, <1>5, HandleAwaited, Zenon
<1>7. QED
  <2>1. PICK k \in Ids : k = sqe[n].id
    BY <1>6, Zenon
  <2>2. /\ Suspend(n, k) \/ InsertAborts
        /\ k = OpIdIgnore => n \in late'
        /\ \A j \in Operations : j # n => sqe[j].id # k
    BY <1>1, <1>6, <2>1, Zenon
  <2>3. QED
    BY <1>1, <1>2, <1>3, <1>4, <1>5, <1>6, <2>2, OpSuspends, Zenon

LEMMA OpIssueAndAwait ==
  ASSUME IdsSuffice, IInv, RingInv, OpInv, IssueAndAwait
  PROVE  OpInv'
<1> DEFINE m == Len(sqe) + 1
           i == getNextOpId.id
<1>0. TypeOK /\ IdsInv
  BY Zenon DEF IInv, OpInv, IdsInv
<1>1. /\ stack # <<>> /\ aborted = "no" /\ Call
      /\ finalizeSqe("io", i, 0) /\ nextOpId' = getNextOpId.next
      /\ Suspend(m, i) \/ InsertAborts
      /\ UNCHANGED <<linked, late>>
  BY Zenon DEF IssueAndAwait, CoroRuns
<1>2. "io" \in Kinds /\ 0 \in Nat /\ "io" # "linkTimeout" /\ "queued" \in UnderWay
  BY SMT DEF Kinds, UnderWay
<1>3. i \in Ids /\ i # OpIdIgnore
  BY <1>0, OpIdIsNotMagic, Zenon
<1>4. IdsInv' /\ \A j \in Operations : sqe[j].id # i
  BY <1>0, <1>1, IdsIssue, Zenon
<1>5. /\ EntriesKept
      /\ \A j \in DOMAIN sqe' : j \notin DOMAIN sqe => sqe'[j].kind = "io"
      /\ \A j \in DOMAIN sqe : phase'[j] = phase[j]
  BY <1>0, <1>1, <1>2, <1>3, KindPrepared, Zenon
<1>6. phase'[m] \in UnderWay
  BY <1>0, <1>1, <1>2, <1>3, EntryFacts, Zenon DEF Call
<1> HIDE DEF m, i
<1>7. LinksInv'
  BY <1>1, <1>2, <1>5, LinksKept, Zenon DEF OpInv
<1>8. late \subseteq late'
  BY <1>1, Zenon
<1>9. QED
  BY <1>1, <1>3, <1>4, <1>5, <1>6, <1>7, <1>8, OpSuspends, Zenon

LEMMA OpTimeout ==
  ASSUME IInv, RingInv, OpInv, NEW n \in Handles, Timeout(n)
  PROVE  OpInv'
<1>0. TypeOK /\ IdsInv /\ IdsAreUnique /\ n \in DOMAIN sqe
  BY Zenon DEF IInv, OpInv, IdsInv, Handles
<1>1. /\ stack # <<>> /\ Call /\ mayLink(n)
      /\ finalizeSqe("linkTimeout", OpIdIgnore, n)
      /\ Suspend(n, sqe[n].id) \/ InsertAborts
      /\ late' = lateWith(n) /\ nextOpId' = nextOpId
  BY Zenon DEF Timeout, CoroRuns
<1>2. /\ "linkTimeout" \in Kinds /\ "linkTimeout" # "io"
      /\ \A j \in Serials : j \in Nat
  BY SMT DEF Kinds, Serials
<1>3. OpIdIgnore \in Ids /\ n \in Nat
  BY <1>0, <1>2, EntriesAreSerials, OpIdIsNotMagic, Zenon
<1>4. /\ EntriesKept /\ Operations' = Operations
      /\ \A j \in DOMAIN sqe : phase'[j] = phase[j]
  BY <1>0, <1>1, <1>2, <1>3, KindPrepared, Zenon
<1>5. IdsInv'
  <2>1. \A j \in Operations : sqe'[j] = sqe[j]
    BY <1>4, Zenon DEF EntriesKept, Operations
  <2>2. QED
    BY <1>0, <1>1, <1>4, <2>1, IdsKept, Zenon
<1>6. LinksInv'
  BY <1>0, TimeoutLinks, Zenon DEF OpInv
<1>7. /\ sqe[n].id \in Ids /\ late \subseteq late'
      /\ phase'[n] \in UnderWay \/ n \in late'
      /\ sqe[n].id = OpIdIgnore => n \in late'
      /\ \A j \in Operations : j # n => sqe[j].id # sqe[n].id
  BY <1>0, <1>1, <1>4, HandleAwaited, Zenon
<1>8. QED
  <2>1. PICK k \in Ids : k = sqe[n].id
    BY <1>7, Zenon
  <2>2. /\ Suspend(n, k) \/ InsertAborts
        /\ k = OpIdIgnore => n \in late'
        /\ \A j \in Operations : j # n => sqe[j].id # k
    BY <1>1, <1>7, <2>1, Zenon
  <2>3. QED
    BY <1>1, <1>4, <1>5, <1>6, <1>7, <2>2, OpSuspends, Zenon

(* The calls that only prepare an operation, lose an id or abort.          *)
LEMMA OpCalls ==
  ASSUME IdsSuffice, IInv, OpInv,
         \/ Issue \/ IssueFull \/ IssueAndAwaitFull \/ TimePointAborts \/ Finish
         \/ \E n \in Handles : TimeoutNotLast(n) \/ TimeoutFull(n)
  PROVE  OpInv'
<1>0. TypeOK /\ IdsInv
  BY Zenon DEF IInv, OpInv, IdsInv
<1>n. /\ "awaitInvalid" # "no" /\ "notLastSqe" # "no" /\ "timePointAhead" # "no"
      /\ "io" \in Kinds /\ 0 \in Nat /\ "io" # "linkTimeout"
  BY SMT DEF Kinds
<1>1. CASE Issue
  <2>1. /\ Call /\ finalizeSqe("io", getNextOpId.id, 0) /\ nextOpId' = getNextOpId.next
        /\ aborted = "no"
        /\ UNCHANGED <<linked, completers, awaits, aborted, disabled, late>>
    BY <1>1, Zenon DEF Issue, UserRuns, coroVars, histVars
  <2>2. IdsInv'
    BY <1>0, <2>1, IdsIssue, Zenon
  <2>3. /\ EntriesKept
        /\ \A j \in DOMAIN sqe' : j \notin DOMAIN sqe => sqe'[j].kind = "io"
        /\ \A j \in DOMAIN sqe : phase'[j] = phase[j]
    BY <1>0, <1>n, <2>1, OpIdType, KindPrepared, Zenon
  <2>4. LinksInv'
    BY <1>n, <2>1, <2>3, LinksKept, Zenon DEF OpInv
  <2>5. QED
    BY <2>1, <2>2, <2>3, <2>4, OpStays, Zenon
<1>2. CASE ~Issue
  <2>1. /\ UNCHANGED <<sqe, phase, completers, awaits, disabled, late>>
        /\ \/ Call /\ nextOpId' = getNextOpId.next
           \/ (calls' = calls \/ Call) /\ nextOpId' = nextOpId
        /\ linked \subseteq linked'
        /\ aborted' = "no" => aborted = "no" /\ linked' = linked
    <3>1. CASE IssueFull \/ IssueAndAwaitFull
      BY <1>n, <3>1, Zenon DEF IssueFull, IssueAndAwaitFull, ringVars, coroVars,
         histVars, UserRuns, CoroRuns
    <3>2. CASE TimePointAborts \/ Finish
      BY <1>n, <3>2, Zenon DEF TimePointAborts, Finish, ringVars, coroVars,
         histVars, CoroRuns
    <3>3. CASE \E n \in Handles : TimeoutNotLast(n) \/ TimeoutFull(n)
      BY <1>n, <3>3, Zenon DEF TimeoutNotLast, TimeoutFull, ringVars, coroVars,
         histVars, CoroRuns, linkFlag
    <3>4. QED
      BY <1>2, <3>1, <3>2, <3>3, Zenon
  <2>2. EntriesKept /\ Operations' = Operations
    BY <2>1, Zenon DEF EntriesKept, Operations
  <2>3. IdsInv'
    BY <1>0, <2>1, <2>2, IdsLost, IdsKept, Zenon
  <2>4. LinksInv'
    BY <2>1, <2>2, LinksKept, Zenon DEF OpInv
  <2>5. QED
    BY <2>1, <2>2, <2>3, <2>4, OpStays, Zenon
<1>3. QED
  BY <1>1, <1>2, Zenon

(* A completer is removed, its operation is cancelled.                     *)
LEMMA OpRemoves ==
  ASSUME IInv, OpInv, NEW n \in DOMAIN sqe, Call, SubmitCancel(sqe[n].id),
         completers' = [completers EXCEPT ![sqe[n].id] = NoCoro],
         disabled' = disabled \cup {n}, aborted = "no",
         UNCHANGED <<nextOpId, awaits, aborted, late>>
  PROVE  OpInv'
<1>0. TypeOK /\ IdsInv /\ sqe[n].id \in Ids
  BY EntriesAreSerials, Zenon DEF IInv, OpInv, IdsInv
<1>1. /\ EntriesKept /\ linked' = linked /\ Operations' = Operations
      /\ \A j \in DOMAIN sqe' : j \notin DOMAIN sqe => sqe'[j].kind = "cancel"
      /\ \A j \in DOMAIN sqe : phase'[j] = phase[j]
  BY <1>0, CancelPrepared, Zenon
<1>2. IdsInv'
  <2>1. \A j \in Operations : sqe'[j] = sqe[j]
    BY <1>1, Zenon DEF EntriesKept, Operations
  <2>2. QED
    BY <1>0, <1>1, <2>1, IdsKept, Zenon
<1>3. LinksInv'
  <2>1. "cancel" # "linkTimeout"
    BY SMT
  <2>2. QED
    BY <1>1, <2>1, LinksKept, Zenon DEF OpInv
<1>4. DisabledIsRemoved'
  BY <1>0, <1>1, DisabledCancelled, Zenon DEF OpInv
<1>5. LateInv'
  <2>1. completers \in [Ids -> Coros \cup {NoCoro}]
    BY <1>0, Zenon DEF TypeOK
  <2>2. ASSUME NEW i \in Ids, completers'[i] # NoCoro
        PROVE  /\ completers'[i] = completers[i] /\ completers[i] # NoCoro
               /\ phase'[awaits[completers[i]]] = phase[awaits[completers[i]]]
    <3>1. completers'[i] = completers[i] /\ completers[i] # NoCoro
      BY <1>0, <2>1, <2>2, Zenon
    <3>2. QED
      BY <1>1, <3>1, AwaitedEntry, Zenon
  <2>3. QED
    BY <1>0, <2>2, LateKept, Zenon DEF OpInv, LateInv
<1>6. QED
  BY <1>2, <1>3, <1>4, <1>5, Zenon DEF OpInv, IdsInv, LateInv

LEMMA OpCancel ==
  ASSUME IInv, OpInv, NEW n \in Handles, NEW h \in BOOLEAN, Cancel(n, h)
  PROVE  OpInv'
<1>0. TypeOK /\ IdsInv /\ n \in DOMAIN sqe /\ sqe[n].id \in Ids
  BY EntriesAreSerials, Zenon DEF IInv, OpInv, IdsInv, Handles
<1>1. /\ Call /\ aborted = "no" /\ SubmitCancel(sqe[n].id)
      /\ completers' = IF h THEN [completers EXCEPT ![sqe[n].id] = NoCoro] ELSE completers
      /\ disabled' = IF h THEN disabled \cup {n} ELSE disabled
      /\ UNCHANGED <<nextOpId, awaits, aborted, late>>
  BY Zenon DEF Cancel, UserRuns, coroVars
<1>2. CASE h
  BY <1>0, <1>1, <1>2, OpRemoves, Zenon
<1>3. CASE ~h
  <2>1. /\ EntriesKept /\ linked' = linked /\ Operations' = Operations
        /\ \A j \in DOMAIN sqe' : j \notin DOMAIN sqe => sqe'[j].kind = "cancel"
        /\ \A j \in DOMAIN sqe : phase'[j] = phase[j]
    BY <1>0, <1>1, CancelPrepared, Zenon
  <2>2. IdsInv'
    <3>1. \A j \in Operations : sqe'[j] = sqe[j]
      BY <2>1, Zenon DEF EntriesKept, Operations
    <3>2. QED
      BY <1>0, <1>1, <2>1, <3>1, IdsKept, Zenon
  <2>3. LinksInv'
    <3>1. "cancel" # "linkTimeout"
      BY SMT
    <3>2. QED
      BY <1>1, <2>1, <3>1, LinksKept, Zenon DEF OpInv
  <2>4. completers' = completers /\ disabled' = disabled /\ late \subseteq late'
    BY <1>1, <1>3, Zenon
  <2>5. QED
    BY <1>1, <2>1, <2>2, <2>3, <2>4, OpStays, Zenon
<1>4. QED
  BY <1>2, <1>3, Zenon

LEMMA OpDestroy ==
  ASSUME IInv, OpInv, NEW c \in Coros, Destroy(c)
  PROVE  OpInv'
<1>0. TypeOK /\ SuspendedAwaits
  BY Zenon DEF IInv, CoroInv
<1>1. /\ Call /\ aborted = "no" /\ SubmitCancel(sqe[awaits[c]].id)
      /\ cstate[c] = "suspended"
      /\ completers' = [completers EXCEPT ![sqe[awaits[c]].id] = NoCoro]
      /\ disabled' = disabled \cup {awaits[c]}
      /\ UNCHANGED <<nextOpId, awaits, aborted, late>>
  BY Zenon DEF Destroy, UserRuns
<1>2. awaits[c] \in DOMAIN sqe
  <2>1. awaits[c] \in 0 .. Len(sqe) /\ awaits[c] # 0
    BY <1>0, <1>1, Zenon DEF TypeOK, SuspendedAwaits
  <2>2. QED
    BY <1>0, <2>1, EntriesAreSerials, SMT
<1>3. QED
  BY <1>1, <1>2, OpRemoves, Zenon

LEMMA OpStart ==
  ASSUME IInv, OpInv, NEW c \in Coros, Start(c)
  PROVE  OpInv'
<1>0. TypeOK /\ IdsInv
  BY Zenon DEF IInv, OpInv, IdsInv
<1>1. /\ Call /\ cstate[c] = "none" /\ awaits' = [awaits EXCEPT ![c] = 0]
      /\ UNCHANGED <<nextOpId, sqe, phase, linked, completers, aborted, disabled, late>>
  BY Zenon DEF Start, ringVars, histVars
<1>2. EntriesKept /\ Operations' = Operations
  BY <1>1, Zenon DEF EntriesKept, Operations
<1>3. IdsInv'
  BY <1>0, <1>1, <1>2, IdsKept, Zenon
<1>4. LinksInv'
  BY <1>1, <1>2, LinksKept, Zenon DEF OpInv
<1>5. DisabledIsRemoved'
  BY <1>0, <1>1, <1>2, DisabledKept, Zenon DEF OpInv
<1>6. LateInv'
  <2>1. ASSUME NEW i \in Ids, completers[i] # NoCoro
        PROVE  awaits'[completers[i]] = awaits[completers[i]]
    <3>1. completers[i] \in Coros /\ cstate[completers[i]] = "suspended"
      BY <2>1, AwaitedEntry, Zenon
    <3>2. completers[i] # c
      BY <1>1, <3>1, SMT
    <3>3. QED
      BY <1>0, <1>1, <3>1, <3>2, Zenon DEF TypeOK
  <2>2. QED
    BY <1>0, <1>1, <2>1, LateKept, Zenon DEF OpInv, LateInv
<1>7. QED
  BY <1>3, <1>4, <1>5, <1>6, Zenon DEF OpInv, IdsInv, LateInv

(* The steps of the loop and of the kernel prepare nothing.                *)
LEMMA LogStays ==
  ASSUME TypeOK, OpInv, UNCHANGED <<nextOpId, sqe, linked, calls, aborted>>
  PROVE  IdsInv' /\ LinksInv' /\ EntriesKept
<1>1. EntriesKept /\ Operations' = Operations
  BY Zenon DEF EntriesKept, Operations
<1>2. IdsInv'
  BY <1>1, IdsKept, Zenon DEF OpInv, IdsInv
<1>3. LinksInv'
  BY <1>1, LinksKept, Zenon DEF OpInv
<1>4. QED
  BY <1>1, <1>2, <1>3, Zenon

LEMMA OpQuietSteps ==
  ASSUME IInv, OpInv,
         Run \/ Check \/ SubmitAny \/ Continue \/ Advance \/ Kernel \/ UNCHANGED vars
  PROVE  OpInv'
<1>0. TypeOK
  BY Zenon DEF IInv
<1>1. /\ UNCHANGED <<nextOpId, sqe, linked, calls, aborted>>
      /\ UNCHANGED <<completers, awaits, disabled, late>>
  <2>1. CASE Run \/ Check \/ Continue \/ Advance \/ UNCHANGED vars
    BY <2>1, Zenon DEF Run, Check, Continue, Advance, vars, ringVars, coroVars, histVars
  <2>2. CASE SubmitAny
    BY <2>2, Zenon DEF SubmitAny, Submit, coroVars, histVars
  <2>3. CASE Kernel
    <3>1. PICK n \in DOMAIN sqe : Post(n)
      BY <2>3, Zenon DEF Kernel, Complete, Expire, TimeoutEnds, CancelHits, CancelEnds
    <3>2. QED
      BY <3>1, Zenon DEF Post, coroVars, histVars
  <2>4. QED
    BY <2>1, <2>2, <2>3, Zenon
<1>2. /\ "kernel" \in UnderWay /\ "posted" \in UnderWay
      /\ DOMAIN sqe \subseteq Serials /\ phase \in [Serials -> Phases]
  BY <1>0, EntriesAreSerials, Zenon DEF UnderWay, TypeOK
<1>3. \A n \in DOMAIN sqe : phase[n] \in UnderWay => phase'[n] \in UnderWay
  <2>1. CASE Run \/ Check \/ Continue \/ Advance \/ UNCHANGED vars
    BY <2>1, Zenon DEF Run, Check, Continue, Advance, vars, ringVars
  <2>2. CASE SubmitAny
    <3>1. PICK taken \in SUBSET Queued : Submit(taken)
      BY <2>2, Zenon DEF SubmitAny
    <3>2. phase' = [n \in Serials |-> IF n \in taken THEN "kernel" ELSE phase[n]]
      BY <3>1, Zenon DEF Submit
    <3>3. QED
      BY <1>2, <3>2, Zenon
  <2>3. CASE Kernel
    <3>1. PICK n \in DOMAIN sqe : Post(n)
      BY <2>3, Zenon DEF Kernel, Complete, Expire, TimeoutEnds, CancelHits, CancelEnds
    <3>2. phase' = [phase EXCEPT ![n] = "posted"]
      BY <3>1, Zenon DEF Post
    <3>3. QED
      BY <1>2, <3>2, Zenon
  <2>4. QED
    BY <2>1, <2>2, <2>3, Zenon
<1>4. QED
  BY <1>0, <1>1, <1>3, LogStays, OpStays, Zenon

LEMMA OpSkip ==
  ASSUME IInv, OpInv, Skip
  PROVE  OpInv'
<1> DEFINE h == Head(cq)
<1>0. TypeOK
  BY Zenon DEF IInv
<1>1. /\ sqe[h].id = OpIdIgnore \/ completers[sqe[h].id] = NoCoro
      /\ phase' = [phase EXCEPT ![h] = "done"]
      /\ UNCHANGED <<nextOpId, sqe, linked, calls, aborted>>
      /\ UNCHANGED <<completers, awaits, disabled, late>>
  BY Zenon DEF Skip, coroVars, histVars
<1> HIDE DEF h
<1>2. IdsInv' /\ LinksInv' /\ EntriesKept
  BY <1>0, <1>1, LogStays, Zenon
<1>3. DisabledIsRemoved'
  BY <1>0, <1>1, <1>2, DisabledKept, Zenon DEF OpInv
<1>4. ASSUME NEW i \in Ids, completers[i] # NoCoro
      PROVE  \/ phase'[awaits[completers[i]]] = phase[awaits[completers[i]]]
             \/ awaits[completers[i]] \in late
  <2>1. awaits[completers[i]] \in DOMAIN sqe /\ sqe[awaits[completers[i]]].id = i
    BY <1>4, AwaitedEntry, Zenon
  <2>2. CASE awaits[completers[i]] = h
    <3>1. i = OpIdIgnore
      BY <1>1, <1>4, <2>1, <2>2, Zenon
    <3>2. QED
      BY <1>4, <3>1, Zenon DEF OpInv, AwaitedCancelIsLate
  <2>3. CASE awaits[completers[i]] # h
    BY <1>0, <1>1, <2>1, <2>3, EntriesAreSerials, Zenon DEF TypeOK
  <2>4. QED
    BY <2>2, <2>3, Zenon
<1>5. LateInv'
  BY <1>0, <1>1, <1>4, LateKept, Zenon DEF OpInv, LateInv
<1>6. QED
  BY <1>2, <1>3, <1>5, Zenon DEF OpInv, IdsInv, LateInv

LEMMA OpDispatch ==
  ASSUME IInv, OpInv, Dispatch
  PROVE  OpInv'
<1> DEFINE h == Head(cq)
           k == sqe[h].id
           c == completers[k]
<1>0. TypeOK
  BY Zenon DEF IInv
<1>1. /\ cq # <<>> /\ c # NoCoro
      /\ phase' = [phase EXCEPT ![h] = "done"]
      /\ completers' = [completers EXCEPT ![k] = NoCoro]
      /\ awaits' = [awaits EXCEPT ![c] = 0]
      /\ UNCHANGED <<nextOpId, sqe, linked, calls, aborted>>
      /\ UNCHANGED <<disabled, late>>
  BY Zenon DEF Dispatch, Peeks, histVars
<1>2. h \in DOMAIN sqe /\ k \in Ids
  BY <1>0, <1>1, AdvanceType, EntriesAreSerials, Zenon
<1>3. c \in Coros /\ sqe[awaits[c]].id = k
  BY <1>1, <1>2, AwaitedEntry, Zenon
<1>4. IdsInv' /\ LinksInv' /\ EntriesKept
  BY <1>0, <1>1, LogStays, Zenon
<1>k. sqe[h].id = k
  OBVIOUS
<1> HIDE DEF h, k, c
<1>5. /\ completers \in [Ids -> Coros \cup {NoCoro}]
      /\ awaits \in [Coros -> 0 .. Len(sqe)]
      /\ phase \in [Serials -> Phases] /\ DOMAIN sqe \subseteq Serials
  BY <1>0, EntriesAreSerials, Zenon DEF TypeOK
<1>6. DisabledIsRemoved'
  <2>1. \A i \in Ids : completers[i] = NoCoro => completers'[i] = NoCoro
    BY <1>1, <1>5, Zenon
  <2>2. QED
    BY <1>0, <1>1, <1>4, <2>1, DisabledKept, Zenon DEF OpInv
<1>7. ASSUME NEW i \in Ids, completers'[i] # NoCoro
      PROVE  /\ completers'[i] = completers[i]
             /\ awaits'[completers[i]] = awaits[completers[i]]
             /\ phase'[awaits[completers[i]]] = phase[awaits[completers[i]]]
  <2>1. i # k /\ completers'[i] = completers[i] /\ completers[i] # NoCoro
    BY <1>1, <1>2, <1>5, <1>7, Zenon
  <2>2. /\ completers[i] \in Coros /\ awaits[completers[i]] \in DOMAIN sqe
        /\ sqe[awaits[completers[i]]].id = i
    BY <2>1, AwaitedEntry, Zenon
  <2>3. completers[i] # c /\ awaits[completers[i]] # h
    BY <1>3, <1>k, <2>1, <2>2, Zenon
  <2>4. QED
    BY <1>1, <1>5, <2>1, <2>2, <2>3, Zenon
<1>8. LateInv'
  BY <1>0, <1>1, <1>7, LateKept, Zenon DEF OpInv, LateInv
<1>9. QED
  BY <1>4, <1>6, <1>8, Zenon DEF OpInv, IdsInv, LateInv

LEMMA NextKeepsOp ==
  ASSUME IdsSuffice, IInv, RingInv, OpInv, [Next]_vars
  PROVE  OpInv'
<1>1. CASE User
  BY <1>1, OpCalls, OpIssueAndAwait, OpAwait, OpTimeout, OpCancel, OpStart, OpDestroy,
     Zenon DEF User
<1>2. CASE Loop
  BY <1>2, OpQuietSteps, OpSkip, OpDispatch, Zenon DEF Loop
<1>3. QED
  BY <1>1, <1>2, OpQuietSteps, Zenon DEF Next

LEMMA InitOp ==
  ASSUME Init
  PROVE  OpInv
<1>1. sqe = <<>> /\ DOMAIN <<>> = {}
  BY SMT DEF Init
<1>2. Operations = {}
  BY <1>1, Zenon DEF Operations
<1>3. IdsAreCounted
  <2>1. nextOpId <= OpIdInvalid /\ FirstId <= nextOpId /\ nextOpId <= FirstId + calls
    BY SizeAssumption, SMT DEF Init, OpIdInvalid
  <2>2. QED
    BY <1>2, <2>1, Zenon DEF IdsAreCounted
<1>4. IdsAreUnique /\ LinksInv /\ DisabledIsRemoved
  BY <1>1, <1>2, Zenon DEF Init, IdsAreUnique, LinksInv, TimeoutFollowsItsOperation,
     DisabledIsRemoved
<1>5. AwaitedCancelIsLate /\ NoLostCompletion
  <2>1. OpIdIgnore \in Ids
    BY SizeAssumption, SMT DEF OpIdIgnore, Ids
  <2>2. QED
    BY <2>1, Zenon DEF Init, AwaitedCancelIsLate, NoLostCompletion
<1>6. QED
  BY <1>3, <1>4, <1>5, Zenon DEF OpInv

(* The invariant of the operations holds in a queue that makes fewer than  *)
(* 2^64 - 2 calls, wherever its ids start and whether they wrap or not.    *)
THEOREM OpInvHolds ==
  ASSUME IdsSuffice
  PROVE  Spec => []OpInv
<1>1. Init => OpInv
  BY InitOp
<1>2. IInv /\ RingInv /\ OpInv /\ [Next]_vars => OpInv'
  BY NextKeepsOp
<1>3. QED
  BY <1>1, <1>2, IInvHolds, RingInvHolds, PTL DEF Spec

(* run() never waits for a completion that has been dropped: what a        *)
(* completer waits for is queued, in the kernel or posted, unless it was   *)
(* awaited when it was over, or is the handle of a cancel().               *)
THEOREM CompletionsAreNotLost ==
  ASSUME IdsSuffice
  PROVE  Spec => []NoLostCompletion
<1>1. OpInv => NoLostCompletion
  BY DEF OpInv
<1>2. QED
  BY <1>1, OpInvHolds, PTL

(* The timeout of an operation is always right behind it, and nothing but  *)
(* that timeout follows it as one: the test of lastSqe_ in linkTimeout is  *)
(* enough for operations, although it compares ids and not entries, and    *)
(* although it accepts the wrong entry for the handle of a cancel().       *)
THEOREM TimeoutsFollowTheirOperations ==
  ASSUME IdsSuffice
  PROVE  Spec => []TimeoutFollowsItsOperation
<1>1. OpInv => TimeoutFollowsItsOperation
  BY DEF OpInv, LinksInv
<1>2. QED
  BY <1>1, OpInvHolds, PTL

(* Only complete() makes a suspended coroutine run, for the first entry of *)
(* the completion queue.                                                   *)
LEMMA OnlyDispatchResumes ==
  ASSUME IInv, [Next]_vars, NEW c \in Coros,
         cstate[c] = "suspended", cstate'[c] = "running"
  PROVE  /\ Dispatch /\ cq # <<>> /\ Head(cq) \in DOMAIN sqe
         /\ sqe[Head(cq)].id \in Ids /\ sqe[Head(cq)].id # OpIdIgnore
         /\ completers[sqe[Head(cq)].id] = c
<1>0. TypeOK /\ StackRuns
  BY Zenon DEF IInv, CoroInv
<1>s. "suspended" # "running" /\ "none" # "running" /\ "none" # "suspended"
  BY SMT
<1>t. cstate \in [Coros -> {"none", "running", "suspended"}]
  BY <1>0, Zenon DEF TypeOK
<1>1. CASE Dispatch
  <2> DEFINE d == completers[sqe[Head(cq)].id]
  <2>1. /\ cq # <<>> /\ sqe[Head(cq)].id # OpIdIgnore /\ d # NoCoro
        /\ cstate' = [cstate EXCEPT ![d] = "running"]
    BY <1>1, Zenon DEF Dispatch, Peeks
  <2>2. Head(cq) \in DOMAIN sqe /\ sqe[Head(cq)].id \in Ids
    BY <1>0, <2>1, AdvanceType, EntriesAreSerials, Zenon
  <2> HIDE DEF d
  <2>3. d = c
    BY <1>s, <1>t, <2>1, Zenon
  <2>4. QED
    BY <1>1, <2>1, <2>2, <2>3, Zenon DEF d
<1>2. CASE \E d \in Coros : Start(d)
  <2>1. PICK d \in Coros : cstate[d] = "none" /\ cstate' = [cstate EXCEPT ![d] = "running"]
    BY <1>2, Zenon DEF Start
  <2>2. QED
    BY <1>s, <1>t, <2>1, Zenon
<1>3. CASE /\ ~Dispatch /\ ~\E d \in Coros : Start(d)
  <2>1. \/ cstate' = cstate
        \/ \E d : cstate' = [cstate EXCEPT ![d] = "none"]
        \/ \E d : cstate' = [cstate EXCEPT ![d] = "suspended"]
    <3>1. CASE Loop \/ Kernel \/ UNCHANGED vars
      BY <1>3, <3>1, Zenon DEF Loop, Run, Check, SubmitAny, Submit, Continue, Skip,
         Advance, Kernel, Complete, Expire, TimeoutEnds, CancelHits, CancelEnds, Post,
         vars, coroVars
    <3>2. CASE Issue \/ IssueFull \/ IssueAndAwaitFull \/ TimePointAborts \/ Finish
      BY <3>2, Zenon DEF Issue, IssueFull, IssueAndAwaitFull, TimePointAborts, Finish,
         coroVars
    <3>3. CASE IssueAndAwait
      BY <3>3, Zenon DEF IssueAndAwait, Suspend, InsertAborts, coroVars
    <3>4. CASE \E n \in Handles : Await(n)
      BY <3>4, Zenon DEF Await, Suspend, InsertAborts, coroVars
    <3>5. CASE \E n \in Handles : Timeout(n) \/ TimeoutNotLast(n) \/ TimeoutFull(n)
      BY <3>5, Zenon DEF Timeout, TimeoutNotLast, TimeoutFull, Suspend, InsertAborts,
         coroVars
    <3>6. CASE \E n \in Handles, h \in BOOLEAN : Cancel(n, h)
      BY <3>6, Zenon DEF Cancel, coroVars
    <3>7. CASE \E d \in Coros : Destroy(d)
      BY <3>7, Zenon DEF Destroy
    <3>8. QED
      BY <1>3, <3>1, <3>2, <3>3, <3>4, <3>5, <3>6, <3>7, Zenon DEF Next, User
  <2>2. QED
    BY <1>s, <1>t, <2>1, Zenon
<1>4. QED
  BY <1>1, <1>2, <1>3, Zenon

(* A coroutine is resumed by the operation that it awaits: complete() gets *)
(* the result of that very operation, not of a later one with its id.      *)
THEOREM ResultIsOwn ==
  ASSUME IdsSuffice
  PROVE  Spec => ResumedByOwnOperation
<1> DEFINE A == \A c \in Coros :
                  cstate[c] = "suspended" /\ cstate'[c] = "running" => awaits[c] = Head(cq)
<1>1. ASSUME IInv, RingInv, OpInv, [Next]_vars, NEW c \in Coros,
             cstate[c] = "suspended", cstate'[c] = "running"
      PROVE  awaits[c] = Head(cq)
  <2>1. /\ Head(cq) \in DOMAIN sqe
        /\ sqe[Head(cq)].id \in Ids /\ sqe[Head(cq)].id # OpIdIgnore
        /\ completers[sqe[Head(cq)].id] = c
    BY <1>1, OnlyDispatchResumes, Zenon
  <2>2. c # NoCoro
    BY CoroAssumption, Zenon
  <2>3. awaits[c] \in DOMAIN sqe /\ sqe[awaits[c]].id = sqe[Head(cq)].id
    BY <1>1, <2>1, <2>2, AwaitedEntry, Zenon
  <2>4. awaits[c] \in Operations /\ Head(cq) \in Operations
    BY <1>1, <2>1, <2>3, Zenon DEF RingInv, MagicIsNotIssued, Operations
  <2>5. QED
    BY <1>1, <2>3, <2>4, Zenon DEF OpInv, IdsAreUnique
<1>2. IInv /\ RingInv /\ OpInv /\ [Next]_vars => [A]_vars
  BY <1>1, Zenon
<1>3. QED
  BY <1>2, IInvHolds, RingInvHolds, OpInvHolds, PTL DEF Spec, ResumedByOwnOperation

(* After cancel(_, true) nobody is resumed for the operation, even if its  *)
(* completion was in the completion queue by then, until it is awaited     *)
(* again.                                                                  *)
THEOREM CancelledIsNotCalled ==
  ASSUME IdsSuffice
  PROVE  Spec => NotCalledAfterCancel
<1> DEFINE A == \A c \in Coros :
                  cstate[c] = "suspended" /\ cstate'[c] = "running" => Head(cq) \notin disabled
<1>1. ASSUME IInv, RingInv, OpInv, [Next]_vars, NEW c \in Coros,
             cstate[c] = "suspended", cstate'[c] = "running"
      PROVE  Head(cq) \notin disabled
  <2>1. /\ Head(cq) \in DOMAIN sqe
        /\ sqe[Head(cq)].id \in Ids /\ sqe[Head(cq)].id # OpIdIgnore
        /\ completers[sqe[Head(cq)].id] = c
    BY <1>1, OnlyDispatchResumes, Zenon
  <2>2. c # NoCoro
    BY CoroAssumption, Zenon
  <2>3. Head(cq) \in Operations
    BY <1>1, <2>1, Zenon DEF RingInv, MagicIsNotIssued, Operations
  <2>4. QED
    BY <1>1, <2>1, <2>2, <2>3, Zenon DEF OpInv, DisabledIsRemoved
<1>2. IInv /\ RingInv /\ OpInv /\ [Next]_vars => [A]_vars
  BY <1>1, Zenon
<1>3. QED
  BY <1>2, IInvHolds, RingInvHolds, OpInvHolds, PTL DEF Spec, NotCalledAfterCancel
=============================================================================
