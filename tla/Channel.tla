------------------------------ MODULE Channel -------------------------------
(***************************************************************************)
(* Channel: threads send messages to coroutines on the event loop, through *)
(* a queue under a mutex and the tokens of an eventfd in semaphore mode    *)
(* (src/include/aiopp/channel.hpp, src/src/eventfd.cpp).  Of IoQueue the   *)
(* module uses what it promises: a completion resumes the coroutine that   *)
(* awaits it, and none whose frame has been destroyed                      *)
(* (IoQueue!CompletionIsDelivered, NoDanglingCompleter).  Completions are  *)
(* dispatched in any order.                                                *)
(***************************************************************************)
EXTENDS EventFd, Sequences, FiniteSets

CONSTANTS
  MaxMessages,   \* bound: calls of send()
  MaxReceives    \* bound: calls of receive()

ASSUME BoundAssumption == MaxMessages \in Nat /\ MaxReceives \in Nat

VARIABLES
  messages,   \* messages_: the n-th call of send() sends message n
  sent,       \* number of calls of send()
  writing,    \* calls of send() between the unlock and the end of write()
  counter,    \* eventFd_
  frame,      \* the coroutine of each call of receive()
  read,       \* the read operation that it has issued
  lost,       \* history: tokens read for receivers that were gone
  aborted     \* what has ended the process

vars == <<messages, sent, writing, counter, frame, read, lost, aborted>>

Receives == 1 .. MaxReceives
Running == aborted = "no"
Waiting == {r \in Receives : frame[r] = "waiting"}
Posted == {r \in Receives : read[r] = "posted"}
-----------------------------------------------------------------------------
(* Fault: send() writes the eventfd first and then pushes the message.     *)
PushLast ==
  /\ Running /\ sent < MaxMessages
  /\ counter' = write(counter, 1)
  /\ sent' = sent + 1
  /\ writing' = writing + 1
  /\ UNCHANGED <<messages, frame, read, lost, aborted>>

(* send(): the message is pushed under the lock, the token is written      *)
(* after it.                                                               *)
Push ==
  /\ Running /\ sent < MaxMessages
  /\ messages' = Append(messages, sent + 1)
  /\ sent' = sent + 1
  /\ writing' = writing + 1
  /\ UNCHANGED <<counter, frame, read, lost, aborted>>

(* Fault: send() writes only if no other token is there.                   *)
WriteUnlessPositive ==
  /\ Running /\ writing > 0
  /\ writing' = writing - 1
  /\ counter' = IF readable(counter) THEN counter ELSE write(counter, 1)
  /\ UNCHANGED <<messages, sent, frame, read, lost, aborted>>

Write ==
  /\ Running /\ writing > 0
  /\ writing' = writing - 1
  /\ counter' = write(counter, 1)
  /\ UNCHANGED <<messages, sent, frame, read, lost, aborted>>
-----------------------------------------------------------------------------
(* receive() is awaited: it suspends in EventFd::read.                     *)
Receive(r) ==
  /\ Running
  /\ frame[r] = "none"
  /\ frame' = [frame EXCEPT ![r] = "waiting"]
  /\ read' = [read EXCEPT ![r] = "kernel"]
  /\ UNCHANGED <<messages, sent, writing, counter, lost, aborted>>

(* The flag that Channel gives to its eventfd; the faulty one lets a read  *)
(* take all tokens.                                                        *)
FlagNone == "None"

Flag == "Semaphore"

(* The kernel completes a read with a token, or without one: an error, or  *)
(* the cancellation that the destroyed awaiter has asked for.              *)
KernelRead(r) ==
  /\ Running
  /\ read[r] = "kernel" /\ readable(counter)
  /\ counter' = afterRead(Flag, counter)
  /\ read' = [read EXCEPT ![r] = "posted"]
  /\ UNCHANGED <<messages, sent, writing, frame, lost, aborted>>

KernelFails(r) ==
  /\ Running
  /\ read[r] = "kernel"
  /\ read' = [read EXCEPT ![r] = "failed"]
  /\ UNCHANGED <<messages, sent, writing, counter, frame, lost, aborted>>

(* The token is dispatched: the coroutine pops a message.                  *)
Pop(r) ==
  /\ Running
  /\ read[r] = "posted" /\ r \in Waiting
  /\ read' = [read EXCEPT ![r] = "done"]
  /\ IF messages = <<>>
     THEN aborted' = "emptyPop" /\ UNCHANGED <<messages, frame>>
     ELSE /\ messages' = Tail(messages)
          /\ frame' = [frame EXCEPT ![r] = "done"]
          /\ UNCHANGED aborted
  /\ UNCHANGED <<sent, writing, counter, lost>>

(* A failed read is dispatched: std::abort().                              *)
ReadFails(r) ==
  /\ Running
  /\ read[r] = "failed" /\ r \in Waiting
  /\ read' = [read EXCEPT ![r] = "done"]
  /\ aborted' = "readFailed"
  /\ UNCHANGED <<messages, sent, writing, counter, frame, lost>>

(* The coroutine is destroyed while it waits: its completer is removed, so *)
(* that nobody sees the completion, and no message is popped for it.       *)
Destroy(r) ==
  /\ Running
  /\ r \in Waiting
  /\ frame' = [frame EXCEPT ![r] = "destroyed"]
  /\ UNCHANGED <<messages, sent, writing, counter, read, lost, aborted>>

Skip(r) ==
  /\ Running
  /\ read[r] \in {"posted", "failed"} /\ frame[r] = "destroyed"
  /\ read' = [read EXCEPT ![r] = "done"]
  /\ lost' = IF r \in Posted THEN lost + 1 ELSE lost
  /\ UNCHANGED <<messages, sent, writing, counter, frame, aborted>>
-----------------------------------------------------------------------------
Init ==
  /\ messages = <<>> /\ sent = 0 /\ writing = 0
  /\ counter = Zero
  /\ frame = [r \in Receives |-> "none"]
  /\ read = [r \in Receives |-> "none"]
  /\ lost = 0
  /\ aborted = "no"

Next ==
  \/ Push \/ Write
  \/ \E r \in Receives :
       \/ Receive(r) \/ Destroy(r)
       \/ KernelRead(r) \/ KernelFails(r)
       \/ Pop(r) \/ ReadFails(r) \/ Skip(r)

(* A send() that has begun ends, the kernel serves reads and the loop runs *)
(* (IoQueue!Fairness).  Nobody has to receive, and a cancellation may be   *)
(* dropped.                                                                *)
Spec ==
  /\ Init /\ [][Next]_vars
  /\ WF_vars(Write)
  /\ \A r \in Receives :
       WF_vars(KernelRead(r)) /\ WF_vars(Pop(r) \/ ReadFails(r) \/ Skip(r))
-----------------------------------------------------------------------------
(* The types; no more messages and tokens than calls of send().            *)
TypeOK ==
  /\ messages \in Seq(1 .. sent)
  /\ sent \in 0 .. MaxMessages /\ writing \in 0 .. sent
  /\ counter \in 0 .. sent
  /\ frame \in [Receives -> {"none", "waiting", "done", "destroyed"}]
  /\ read \in [Receives -> {"none", "kernel", "posted", "failed", "done"}]
  /\ lost \in 0 .. sent
  /\ aborted \in {"no", "emptyPop", "readFailed"}

(* pop() always finds a message: assert(!messages_.empty()) never fails,   *)
(* although the message and its token travel separately and any receiver   *)
(* may take any token.                                                     *)
PopNeverEmpty == aborted # "emptyPop"

(* Every message in the queue has its token: about to be written, in the   *)
(* eventfd, or read and not dispatched.  Those whose token was read for a  *)
(* receiver that was destroyed have none, which is where messages can be   *)
(* stranded, one for each such receiver.                                   *)
TokensMatchMessages ==
  /\ TypeOK
  /\ Running => Len(messages) = writing + counter + Cardinality(Posted) + lost

(* A message does not stay in the queue while a receiver waits, unless a   *)
(* token has gone to a destroyed receiver.                                 *)
MessageMeetsReceiver ==
  \A n \in 1 .. MaxMessages :
    (\E i \in DOMAIN messages : messages[i] = n) /\ Waiting # {}
      ~> \/ \A i \in DOMAIN messages : messages[i] # n
         \/ Waiting = {} \/ lost > 0 \/ ~Running
=============================================================================
