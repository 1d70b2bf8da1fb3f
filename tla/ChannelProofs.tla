--------------------------- MODULE ChannelProofs ----------------------------
(***************************************************************************)
(* Proofs about Channel for any number of messages and receivers: messages *)
(* and tokens stay in step, so that pop() always finds a message.          *)
(***************************************************************************)
EXTENDS Channel, TLAPS, FiniteSetTheorems, SequenceTheorems

(* The inductive invariant.  PopNeverEmpty follows from the match of       *)
(* tokens and messages in the step before; that the counters stay within   *)
(* the number of calls needs a bound on the messages.                      *)
MessagesWereSent == Len(messages) <= sent

(* A receiver has no read in progress before it is called.                 *)
ReadsAreReceivers == \A r \in Receives : frame[r] = "none" => read[r] = "none"

IInv ==
  /\ TokensMatchMessages /\ MessagesWereSent /\ ReadsAreReceivers
  /\ PopNeverEmpty

-----------------------------------------------------------------------------
(* Posted is finite, and a receiver that enters or leaves it counts one.   *)
LEMMA PostedFinite ==
  IsFiniteSet(Posted) /\ Cardinality(Posted) \in Nat
<1>1. IsFiniteSet(Receives)
  BY FS_Interval, BoundAssumption, SMT DEF Receives
<1>2. Posted \in SUBSET Receives
  BY DEF Posted
<1>3. IsFiniteSet(Posted)
  BY <1>1, <1>2, FS_Subset, Zenon
<1>4. QED
  BY <1>3, FS_CardinalityType, Zenon

LEMMA PostedGains ==
  ASSUME TypeOK, NEW r \in Receives, read[r] # "posted",
         read' = [read EXCEPT ![r] = "posted"]
  PROVE  Cardinality(Posted') = Cardinality(Posted) + 1
<1>1. Posted' = Posted \cup {r} /\ r \notin Posted
  BY SMT DEF Posted, TypeOK
<1>2. QED
  BY <1>1, PostedFinite, FS_AddElement, Zenon

LEMMA PostedLoses ==
  ASSUME TypeOK, NEW r \in Receives, NEW v \in {"kernel", "failed", "done"},
         read' = [read EXCEPT ![r] = v]
  PROVE  Cardinality(Posted') = IF r \in Posted THEN Cardinality(Posted) - 1
                                               ELSE Cardinality(Posted)
<1>1. Posted' = Posted \ {r}
  BY SMT DEF Posted, TypeOK
<1>2. QED
  BY <1>1, PostedFinite, FS_RemoveElement, Zenon

-----------------------------------------------------------------------------
LEMMA InitEstablishes ==
  ASSUME Init
  PROVE  IInv
<1>1. Posted = {}
  BY SMT DEF Init, Posted
<1>2. Cardinality(Posted) = 0
  BY <1>1, FS_EmptySet, Zenon
<1>3. messages \in Seq(1 .. sent) /\ Len(messages) = 0
  BY EmptySeq, Zenon DEF Init
<1>4. TypeOK
  BY <1>3, BoundAssumption, SMT DEF Init, TypeOK, Zero
<1>5. QED
  BY <1>2, <1>3, <1>4, SMT DEF Init, IInv, TokensMatchMessages, MessagesWereSent,
     ReadsAreReceivers, PopNeverEmpty, Running, Zero

(* send(): the message comes first, so that nothing ever waits for it.     *)
LEMMA SendKeeps ==
  ASSUME IInv, Push \/ Write
  PROVE  IInv'
<1> USE DEF IInv, TokensMatchMessages, MessagesWereSent, ReadsAreReceivers,
          PopNeverEmpty, Running
<1>0. TypeOK /\ Cardinality(Posted) \in Nat /\ Len(messages) \in Nat
  BY PostedFinite, LenProperties, Zenon DEF TypeOK
<1>1. CASE Push
  <2>1. Posted' = Posted
    BY <1>1, Zenon DEF Push, Posted
  <2>2. messages \in Seq(1 .. sent') /\ sent + 1 \in 1 .. sent'
    <3>1. sent' = sent + 1 /\ 1 .. sent \subseteq 1 .. sent' /\ sent + 1 \in 1 .. sent'
      BY <1>0, <1>1, SMT DEF Push, TypeOK
    <3>2. QED
      BY <1>0, <3>1, SeqMonotonic, Zenon DEF TypeOK
  <2>3. messages' \in Seq(1 .. sent') /\ Len(messages') = Len(messages) + 1
    BY <1>1, <2>2, AppendProperties, Zenon DEF Push
  <2>4. TypeOK'
    <3>1. /\ sent < MaxMessages /\ sent' = sent + 1 /\ writing' = writing + 1
          /\ UNCHANGED <<counter, frame, read, lost, aborted>>
      BY <1>1, Zenon DEF Push
    <3>2. /\ sent' \in 0 .. MaxMessages /\ writing' \in 0 .. sent'
          /\ counter' \in 0 .. sent' /\ lost' \in 0 .. sent'
      <4>1. /\ sent \in 0 .. MaxMessages /\ writing \in 0 .. sent
            /\ counter \in 0 .. sent /\ lost \in 0 .. sent
        BY <1>0, Zenon DEF TypeOK
      <4>2. QED
        BY <3>1, <4>1, BoundAssumption, SMT
    <3>3. QED
      BY <1>0, <2>3, <3>1, <3>2, Zenon DEF TypeOK
  <2>5. QED
    BY <1>0, <1>1, <2>1, <2>3, <2>4, SMT DEF Push, TypeOK
<1>2. CASE Write
  <2>1. Posted' = Posted
    BY <1>2, Zenon DEF Write, Posted
  <2>2. TypeOK'
    BY <1>0, <1>2, SMT DEF Write, TypeOK, write
  <2>3. QED
    BY <1>0, <1>2, <2>1, <2>2, SMT DEF Write, TypeOK, write
<1>3. QED
  BY <1>1, <1>2

(* The kernel and the receivers.                                           *)
LEMMA ReceiverKeeps ==
  ASSUME IInv, NEW r \in Receives,
         \/ Receive(r) \/ Destroy(r)
         \/ KernelRead(r) \/ KernelFails(r)
         \/ Pop(r) \/ ReadFails(r) \/ Skip(r)
  PROVE  IInv'
<1> USE DEF IInv, TokensMatchMessages, MessagesWereSent, ReadsAreReceivers,
          PopNeverEmpty, Running
<1>0. TypeOK /\ Cardinality(Posted) \in Nat /\ Len(messages) \in Nat
  BY PostedFinite, LenProperties, Zenon DEF TypeOK
<1>1. CASE Receive(r)
  <2>a. r \notin Posted /\ read' = [read EXCEPT ![r] = "kernel"]
    BY <1>1, SMT DEF Receive, Posted
  <2>1. Cardinality(Posted') = Cardinality(Posted)
    BY <1>0, <2>a, PostedLoses, Zenon
  <2>2. TypeOK'
    BY <1>0, <1>1, SMT DEF Receive, TypeOK
  <2>3. QED
    BY <1>0, <1>1, <2>1, <2>2, SMT DEF Receive, TypeOK
<1>2. CASE Destroy(r)
  <2>1. Posted' = Posted
    BY <1>2, Zenon DEF Destroy, Posted
  <2>2. TypeOK'
    BY <1>0, <1>2, SMT DEF Destroy, TypeOK
  <2>3. QED
    BY <1>0, <1>2, <2>1, <2>2, SMT DEF Destroy, TypeOK
<1>3. CASE KernelRead(r)
  <2>a. read[r] # "posted" /\ read' = [read EXCEPT ![r] = "posted"]
    BY <1>3, SMT DEF KernelRead
  <2>1. Cardinality(Posted') = Cardinality(Posted) + 1
    BY <1>0, <2>a, PostedGains, Zenon
  <2>2. counter' = counter - 1 /\ counter > 0
    BY <1>3, SMT DEF KernelRead, afterRead, buf, Flag, readable
  <2>3. TypeOK'
    BY <1>0, <1>3, <2>2, SMT DEF KernelRead, TypeOK
  <2>4. UNCHANGED <<messages, sent, writing, frame, lost, aborted>>
    BY <1>3, Zenon DEF KernelRead
  <2>5. ReadsAreReceivers'
    BY <1>0, <1>3, SMT DEF KernelRead, TypeOK
  <2>6. QED
    BY <1>0, <2>1, <2>2, <2>3, <2>4, <2>5, SMT DEF TypeOK
<1>4. CASE KernelFails(r)
  <2>1. r \notin Posted
    BY <1>4, SMT DEF KernelFails, Posted
  <2>2. Cardinality(Posted') = Cardinality(Posted)
    BY <1>0, <1>4, <2>1, PostedLoses, Zenon DEF KernelFails
  <2>3. TypeOK'
    BY <1>0, <1>4, SMT DEF KernelFails, TypeOK
  <2>4. QED
    BY <1>0, <1>4, <2>2, <2>3, SMT DEF KernelFails, TypeOK
<1>5. CASE Pop(r)
  <2>1. r \in Posted
    BY <1>5, Zenon DEF Pop, Posted
  <2>2. Cardinality(Posted') = Cardinality(Posted) - 1
    BY <1>0, <1>5, <2>1, PostedLoses, Zenon DEF Pop
  <2>3. Cardinality(Posted) > 0
    BY <1>0, <2>1, PostedFinite, FS_EmptySet, SMT
  <2>4. messages # <<>>
    BY <1>0, <1>5, <2>3, EmptySeq, SMT DEF Pop, TypeOK
  <2>5. /\ messages' = Tail(messages) /\ frame' = [frame EXCEPT ![r] = "done"]
        /\ read' = [read EXCEPT ![r] = "done"]
        /\ UNCHANGED <<sent, writing, counter, lost, aborted>>
    BY <1>5, <2>4, Zenon DEF Pop
  <2>6. messages' \in Seq(1 .. sent) /\ Len(messages') = Len(messages) - 1
    BY <1>0, <2>4, <2>5, HeadTailProperties, Zenon DEF TypeOK
  <2> HIDE DEF IInv
  <2>7. TypeOK'
    <3>1. /\ frame' \in [Receives -> {"none", "waiting", "done", "destroyed"}]
          /\ read' \in [Receives -> {"none", "kernel", "posted", "failed", "done"}]
      BY <1>0, <2>5, Zenon DEF TypeOK
    <3>2. QED
      BY <1>0, <2>5, <2>6, <3>1, Zenon DEF TypeOK
  <2>8. ReadsAreReceivers'
    BY <1>0, <2>5, Zenon DEF TypeOK, IInv
  <2>9. QED
    BY <1>0, <2>2, <2>5, <2>6, <2>7, <2>8, SMT DEF TypeOK, IInv
<1>6. CASE ReadFails(r)
  <2>1. TypeOK'
    BY <1>0, <1>6, SMT DEF ReadFails, TypeOK
  <2>2. QED
    BY <1>0, <1>6, <2>1, SMT DEF ReadFails, TypeOK
<1>7. CASE Skip(r)
  <2>1. Cardinality(Posted') = IF r \in Posted THEN Cardinality(Posted) - 1
                                               ELSE Cardinality(Posted)
    BY <1>0, <1>7, PostedLoses, Zenon DEF Skip
  <2>2. r \in Posted => Cardinality(Posted) > 0
    BY <1>0, PostedFinite, FS_EmptySet, SMT
  <2>3. TypeOK'
    BY <1>0, <1>7, <2>2, SMT DEF Skip, TypeOK
  <2>4. QED
    BY <1>0, <1>7, <2>1, <2>3, SMT DEF Skip, TypeOK
<1>8. QED
  BY <1>1, <1>2, <1>3, <1>4, <1>5, <1>6, <1>7

(* The inductive invariant holds for any number of messages and receivers, *)
(* however sends, reads, failures and destructions follow each other.      *)
THEOREM IInvHolds == Spec => []IInv
<1>1. Init => IInv
  BY InitEstablishes
<1>2. IInv /\ [Next]_vars => IInv'
  <2>1. ASSUME IInv, Next PROVE IInv'
    BY <2>1, SendKeeps, ReceiverKeeps, Zenon DEF Next
  <2>2. ASSUME IInv, UNCHANGED vars PROVE IInv'
    BY <2>2 DEF vars, IInv, TokensMatchMessages, MessagesWereSent,
       ReadsAreReceivers, PopNeverEmpty, TypeOK, Running, Posted
  <2>3. QED
    BY <2>1, <2>2
<1>3. QED
  BY <1>1, <1>2, PTL DEF Spec

(* Every message has its token, and no counter runs away: a receiver that  *)
(* waits has a message to take for every token, wherever the token is.     *)
THEOREM TokensAreExact == Spec => []TokensMatchMessages
<1>1. IInv => TokensMatchMessages
  BY DEF IInv
<1>2. QED
  BY <1>1, IInvHolds, PTL

(* assert(!messages_.empty()) in Channel::pop never fails.                 *)
THEOREM PopFindsMessage == Spec => []PopNeverEmpty
<1>1. IInv => PopNeverEmpty
  BY DEF IInv
<1>2. QED
  BY <1>1, IInvHolds, PTL
=============================================================================
