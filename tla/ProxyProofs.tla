---------------------------- MODULE ProxyProofs -----------------------------
(***************************************************************************)
(* Proofs about Proxy for any set of descriptor numbers and any number of  *)
(* bytes: no operation hits a descriptor that is not the connection's, the *)
(* echoes forward everything, and the sockets are closed before the frame  *)
(* of handleClient goes.                                                   *)
(***************************************************************************)
EXTENDS Proxy, TLAPS, SequenceTheorems

ClosePoints == {"closeRecv", "closeSend", "closeClient", "closeUpstream"}

(* Coroutine c has released a number and its close is on the way.          *)
Closing(c) == co[c].phase \in {"queued", "kernel"} /\ co[c].at \in ClosePoints

InQueue(c) == \E i \in 1 .. Len(sq) : sq[i] = c

(* The close of number n comes after the operation of c, or is it.         *)
ClosedLater(c, n) ==
  \E i, j \in 1 .. Len(sq) :
    /\ sq[i] = c /\ i <= j
    /\ co[sq[j]].at \in ClosePoints /\ co[sq[j]].num = n

(* The types, but for pending.                                             *)
TypesFit ==
  /\ table \in [Numbers -> Files]
  /\ shut \subseteq Sockets
  /\ fd \in [Sockets -> Numbers \cup {-1}]
  /\ co \in [Coros -> [at : Points, phase : {"none", "queued", "kernel", "posted"},
                       num : Numbers \cup {-1}, file : Files, res : -1 .. MaxBytes]]
  /\ sq \in Seq(Coros)
  /\ left \in [Echoes -> 0 .. MaxBytes]
  /\ owed \in [Echoes -> 0 .. MaxBytes]

(* Where the coroutines are, together.                                     *)
HandlerPoints == {"none", "connect", "closeClient", "closeUpstream", "wait", "done"}
EchoPoints == {"none", "recv", "send", "shutRecv", "closeRecv", "shutSend", "closeSend", "done"}

PointsFit ==
  /\ co["handler"].at \in HandlerPoints
  /\ \A e \in Echoes : co[e].at \in EchoPoints
  /\ \A c \in Coros : co[c].phase = "none" <=> co[c].at \in {"none", "wait", "done"}
  /\ co["handler"].at \notin {"wait", "done"} => \A e \in Echoes : co[e].at = "none"
  /\ co["handler"].at = "wait" =>
       /\ \A e \in Echoes : co[e].at # "none"
       /\ \E e \in Echoes : co[e].at # "done"
  /\ co["handler"].at = "done" => \A e \in Echoes : co[e].at \in {"none", "done"}

QueueIsExact ==
  /\ \A i, j \in 1 .. Len(sq) : sq[i] = sq[j] => i = j
  /\ \A c \in Coros : InQueue(c) <=> co[c].phase = "queued"

(* The Fds that have been released.                                        *)
ReleasedAreEmpty ==
  /\ co["handler"].at \in {"none", "done", "closeUpstream"} => \A s \in Sockets : fd[s] = -1
  /\ co["handler"].at = "closeClient" => fd["client"] = -1
  /\ \A e \in Echoes :
       /\ co[e].at \in {"closeRecv", "shutSend", "closeSend", "done"} => fd[recvSocket(e)] = -1
       /\ co[e].at \in {"closeSend", "done"} => fd[sendSocket(e)] = -1

(* A number of the connection is held by one Fd, or by one close that is   *)
(* on the way, and by nothing else.                                        *)
HeldOnce ==
  /\ fd["client"] = fd["upstream"] => fd["client"] = -1
  /\ \A c \in Coros : Closing(c) /\ co[c].num # -1 =>
       /\ \A s \in Sockets : fd[s] # co[c].num
       /\ \A d \in Coros : Closing(d) /\ co[d].num = co[c].num => d = c

HeldIsOpen ==
  /\ \A s \in Sockets : fd[s] # -1 => table[fd[s]] \in Sockets
  /\ \A c \in Coros : Closing(c) /\ co[c].num # -1 => table[co[c].num] \in Sockets

OpenIsHeld ==
  \A n \in Numbers : table[n] \in Sockets =>
    \/ \E s \in Sockets : fd[s] = n
    \/ \E c \in Coros : Closing(c) /\ co[c].num = n

(* An operation that the kernel has not taken yet is ahead of the close of *)
(* its number.                                                             *)
QueuedIsHeld ==
  \A c \in Coros : co[c].phase = "queued" /\ co[c].num # -1 =>
    \/ \E s \in Sockets : fd[s] = co[c].num
    \/ ClosedLater(c, co[c].num)

(* The bytes that an echo owes are the ones in its buffer.                 *)
OwedFits(e) ==
  /\ co[e].at = "none" => owed[e] = 0
  /\ co[e].at = "recv" /\ co[e].phase # "posted" => owed[e] = 0
  /\ co[e].at = "recv" /\ co[e].phase = "posted" =>
       owed[e] = IF co[e].res > 0 THEN co[e].res ELSE 0
  /\ co[e].at = "send" /\ co[e].phase # "posted" => owed[e] = left[e] /\ left[e] > 0
  /\ co[e].at = "send" /\ co[e].phase = "posted" =>
       /\ co[e].res <= left[e]
       /\ owed[e] = IF co[e].res > 0 THEN left[e] - co[e].res ELSE left[e]

OwedIsLeft == \A e \in Echoes : OwedFits(e)

(* What holds of the connection.                                           *)
ConnInv ==
  /\ TypesFit
  /\ PointsFit /\ QueueIsExact /\ ReleasedAreEmpty
  /\ HeldOnce /\ HeldIsOpen /\ OpenIsHeld /\ QueuedIsHeld /\ OwedIsLeft

(* WaitAll counts the echoes that have not ended.                          *)
Unfinished(e) == IF co[e].at = "done" THEN 0 ELSE 1

PendingFits ==
  pending = IF co["handler"].at = "wait"
            THEN Unfinished("toUpstream") + Unfinished("toClient") ELSE 0

IInv == ConnInv /\ PendingFits

(* What the rest of the invariant says about numbers, in one place.        *)
NumbersFit == QueueIsExact /\ HeldOnce /\ HeldIsOpen /\ OpenIsHeld /\ QueuedIsHeld
-----------------------------------------------------------------------------
CoType ==
  [at : Points, phase : {"none", "queued", "kernel", "posted"},
   num : Numbers \cup {-1}, file : Files, res : -1 .. MaxBytes]

LEMMA NumberFacts ==
  /\ -1 \notin Numbers
  /\ 0 \in -1 .. MaxBytes /\ -1 \in -1 .. MaxBytes /\ 0 \in 0 .. MaxBytes
<1>1. Numbers \subseteq Nat /\ MaxBytes \in Nat
  BY ProxyAssumption
<1>2. -1 \notin Numbers
  BY <1>1, SMT
<1>3. QED
  BY <1>1, <1>2, SMT

LEMMA NamesFacts ==
  /\ \A s \in Sockets : s = "client" \/ s = "upstream"
  /\ "client" \in Sockets /\ "upstream" \in Sockets /\ "client" # "upstream"
  /\ \A e \in Echoes : /\ e \in Coros /\ e # "handler"
                       /\ recvSocket(e) \in Sockets /\ sendSocket(e) \in Sockets
                       /\ recvSocket(e) # sendSocket(e)
                       /\ \A s \in Sockets : s = recvSocket(e) \/ s = sendSocket(e)
  /\ \A c \in Coros : c = "handler" \/ c \in Echoes
  /\ "handler" \in Coros /\ "handler" \notin Echoes
  /\ "toUpstream" \in Echoes /\ "toClient" \in Echoes /\ "toUpstream" # "toClient"
  /\ \A e \in Echoes : e = "toUpstream" \/ e = "toClient"
  BY SMT DEF Sockets, Echoes, Coros, recvSocket, sendSocket

LEMMA QueueFacts ==
  ASSUME TypesFit
  PROVE  /\ Len(sq) \in Nat /\ sq \in Seq(Coros)
         /\ \A i \in 1 .. Len(sq) : sq[i] \in Coros
<1>1. sq \in Seq(Coros)
  BY DEF TypesFit
<1>2. QED
  BY <1>1, LenProperties, ElementOfSeq, SMT

(* Steps that leave the Fds alone, and the closes that are on the way.     *)
LEMMA HoldersKept ==
  ASSUME ConnInv, fd' = fd,
         \A n \in Numbers : table'[n] \in Sockets <=> table[n] \in Sockets,
         \A c \in Coros : Closing(c)' <=> Closing(c),
         \A c \in Coros : Closing(c) => co'[c].num = co[c].num
  PROVE  HeldOnce' /\ HeldIsOpen' /\ OpenIsHeld'
<1>1. /\ TypesFit /\ HeldOnce /\ HeldIsOpen /\ OpenIsHeld
  BY DEF ConnInv
<1>2. \A s \in Sockets : fd[s] \in Numbers \cup {-1}
  BY <1>1, Zenon DEF TypesFit
<1>3. \A c \in Coros : co[c].num \in Numbers \cup {-1}
  BY <1>1, Zenon DEF TypesFit
<1>4. HeldOnce'
  <2>1. SUFFICES ASSUME NEW c \in Coros, Closing(c), co[c].num # -1
                 PROVE  /\ \A s \in Sockets : fd[s] # co[c].num
                        /\ \A d \in Coros : Closing(d) /\ co[d].num = co[c].num => d = c
    BY <1>1, Zenon DEF HeldOnce
  <2>2. QED
    BY <1>1, <2>1, Zenon DEF HeldOnce
<1>5. HeldIsOpen'
  <2>1. \A s \in Sockets : fd'[s] # -1 => table'[fd'[s]] \in Sockets
    BY <1>1, <1>2, Zenon DEF HeldIsOpen
  <2>2. \A c \in Coros : Closing(c)' /\ co'[c].num # -1 => table'[co'[c].num] \in Sockets
    BY <1>1, <1>3, Zenon DEF HeldIsOpen
  <2>3. QED
    BY <2>1, <2>2, Zenon DEF HeldIsOpen
<1>6. OpenIsHeld'
  <2>1. SUFFICES ASSUME NEW n \in Numbers, table'[n] \in Sockets
                 PROVE  \/ \E s \in Sockets : fd[s] = n
                        \/ \E c \in Coros : Closing(c) /\ co[c].num = n
    BY Zenon DEF OpenIsHeld
  <2>2. QED
    BY <1>1, <2>1, Zenon DEF OpenIsHeld
<1>7. QED
  BY <1>4, <1>5, <1>6

(* Steps that leave the buffer of an echo alone.                           *)
OwedSame(e) ==
  /\ left'[e] = left[e] /\ owed'[e] = owed[e]
  /\ co'[e].at = co[e].at /\ co'[e].res = co[e].res
  /\ co'[e].phase = "posted" <=> co[e].phase = "posted"

LEMMA OwedKept ==
  ASSUME NEW e, OwedFits(e), OwedSame(e)
  PROVE  OwedFits(e)'
  BY Zenon DEF OwedFits, OwedSame

(* Steps that touch neither the Fds nor the queue, and no operation that   *)
(* is queued or closing.                                                   *)
LEMMA QuietKeeps ==
  ASSUME ConnInv, UNCHANGED <<fd, sq>>,
         \A n \in Numbers : table'[n] \in Sockets <=> table[n] \in Sockets,
         \A c \in Coros : Closing(c)' <=> Closing(c),
         \A c \in Coros : co'[c].phase = "queued" <=> co[c].phase = "queued",
         \A c \in Coros : co[c].phase = "queued" \/ Closing(c) =>
           co'[c].num = co[c].num /\ co'[c].at = co[c].at
  PROVE  NumbersFit'
<1>1. /\ TypesFit /\ QueueIsExact /\ QueuedIsHeld
  BY DEF ConnInv
<1>2. fd' = fd /\ sq' = sq
  OBVIOUS
<1>3. QueueIsExact'
  <2>1. \A c : InQueue(c)' <=> InQueue(c)
    BY <1>2, Zenon DEF InQueue
  <2>2. QED
    BY <1>1, <1>2, <2>1, Zenon DEF QueueIsExact
<1>4. HeldOnce' /\ HeldIsOpen' /\ OpenIsHeld'
  BY <1>2, HoldersKept, Zenon
<1>9. QueuedIsHeld'
  <2>1. SUFFICES ASSUME NEW c \in Coros, co[c].phase = "queued", co[c].num # -1
                 PROVE  \/ \E s \in Sockets : fd'[s] = co'[c].num
                        \/ ClosedLater(c, co[c].num)'
    BY Zenon DEF QueuedIsHeld
  <2>2. co'[c].num = co[c].num
    BY <2>1
  <2>3. CASE \E s \in Sockets : fd[s] = co[c].num
    BY <1>2, <2>2, <2>3, Zenon
  <2>4. ASSUME NEW k \in 1 .. Len(sq), NEW j \in 1 .. Len(sq),
               sq[k] = c, k <= j, co[sq[j]].at \in ClosePoints, co[sq[j]].num = co[c].num
        PROVE  ClosedLater(c, co[c].num)'
    <3>1. sq[j] \in Coros /\ InQueue(sq[j])
      BY <1>1, QueueFacts, Zenon DEF InQueue
    <3>2. co[sq[j]].phase = "queued"
      BY <3>1, <1>1, Zenon DEF QueueIsExact
    <3>3. co'[sq[j]].at = co[sq[j]].at /\ co'[sq[j]].num = co[sq[j]].num
      BY <3>1, <3>2, Zenon
    <3>4. QED
      BY <1>2, <2>2, <2>4, <3>3, Zenon DEF ClosedLater
  <2>5. QED
    BY <1>1, <2>1, <2>3, <2>4, Zenon DEF QueuedIsHeld, ClosedLater
<1>10. QED
  BY <1>3, <1>4, <1>9, Zenon DEF NumbersFit

(* co_await of an operation on the number of Fd s, which is released if    *)
(* the operation is a close.                                               *)
LEMMA SuspendKeeps ==
  ASSUME ConnInv, NEW c \in Coros, co[c].phase = "posted",
         NEW p, NEW s \in Sockets, Suspend(c, p, fd[s]), table' = table,
         p \in ClosePoints => fd' = release(s),
         p \notin ClosePoints => fd' = fd
  PROVE  NumbersFit'
<1>1. /\ TypesFit /\ QueueIsExact /\ HeldOnce /\ HeldIsOpen /\ OpenIsHeld /\ QueuedIsHeld
  BY DEF ConnInv
<1>2. PICK n : n = fd[s]
  OBVIOUS
<1>3. PICK m \in Nat : m = Len(sq)
  BY <1>1, QueueFacts
<1>4. /\ Len(sq') = m + 1 /\ sq'[m + 1] = c
      /\ \A k \in 1 .. m : sq'[k] = sq[k] /\ sq[k] \in Coros
  <2>1. sq \in Seq(Coros) /\ sq' = Append(sq, c)
    BY <1>1, QueueFacts DEF Suspend
  <2>2. QED
    BY <2>1, <1>3, SMT
<1>5. /\ m + 1 \in 1 .. m + 1 /\ m + 1 \notin 1 .. m
      /\ \A k \in 1 .. m : k \in 1 .. m + 1 /\ k <= m + 1
      /\ \A k \in 1 .. m + 1 : k \in 1 .. m \/ k = m + 1
      /\ m + 1 <= m + 1
  BY SMT
<1>6. /\ co'[c].at = p /\ co'[c].phase = "queued" /\ co'[c].num = n
      /\ \A d \in Coros : d # c => co'[d] = co[d]
  <2>1. co' = [co EXCEPT ![c] = Awaits(p, n)] /\ DOMAIN co = Coros
    BY <1>1, <1>2, Zenon DEF Suspend, TypesFit
  <2>2. co'[c] = Awaits(p, n) /\ \A d \in Coros : d # c => co'[d] = co[d]
    BY <2>1, Zenon
  <2>3. QED
    BY <2>2, SMT DEF Awaits
<1>7. ~Closing(c) /\ ~InQueue(c)
  BY <1>1, Zenon DEF Closing, QueueIsExact
<1>8. /\ \A d \in Coros : d # c => (Closing(d)' <=> Closing(d))
      /\ Closing(c)' <=> p \in ClosePoints
  BY <1>6, Zenon DEF Closing
<1>9. /\ fd'[s] = n \/ fd'[s] = -1
      /\ p \in ClosePoints => fd'[s] = -1
      /\ p \notin ClosePoints => fd'[s] = n
      /\ \A t \in Sockets : t # s => fd'[t] = fd[t]
  <2>1. DOMAIN fd = Sockets
    BY <1>1, Zenon DEF TypesFit
  <2>2. p \in ClosePoints => fd'[s] = -1 /\ \A t \in Sockets : t # s => fd'[t] = fd[t]
    BY <2>1, Zenon DEF release
  <2>3. QED
    BY <1>2, <2>2, Zenon
<1>10. QueueIsExact'
  <2>1. \A k \in 1 .. m : sq[k] # c
    BY <1>3, <1>7, Zenon DEF InQueue
  <2>2. ASSUME NEW k \in 1 .. m + 1, NEW j \in 1 .. m + 1, sq'[k] = sq'[j]
        PROVE  k = j
    <3>1. CASE k \in 1 .. m /\ j \in 1 .. m
      BY <1>1, <1>3, <1>4, <2>2, <3>1, Zenon DEF QueueIsExact
    <3>2. CASE k = m + 1 \/ j = m + 1
      BY <1>4, <1>5, <2>1, <2>2, <3>2, Zenon
    <3>3. QED
      BY <1>5, <3>1, <3>2, Zenon
  <2>3. \A d \in Coros : InQueue(d)' <=> InQueue(d) \/ d = c
    BY <1>3, <1>4, <1>5, Zenon DEF InQueue
  <2>4. QED
    <3>1. \A d \in Coros : InQueue(d)' <=> co'[d].phase = "queued"
      BY <1>1, <1>6, <2>3, Zenon DEF QueueIsExact
    <3>2. QED
      BY <1>4, <2>2, <3>1, Zenon DEF QueueIsExact
<1>11. HeldOnce'
  <2>1. fd'["client"] = fd'["upstream"] => fd'["client"] = -1
    BY <1>1, <1>2, <1>9, NamesFacts, Zenon DEF HeldOnce
  <2>2. ASSUME NEW d \in Coros, Closing(d)', co'[d].num # -1
        PROVE  /\ \A t \in Sockets : fd'[t] # co'[d].num
               /\ \A e \in Coros : Closing(e)' /\ co'[e].num = co'[d].num => e = d
    <3>1. CASE d = c
      <4>1. \A t \in Sockets : t # s => fd[t] # n
        BY <1>1, <1>2, <1>6, <2>2, <3>1, NamesFacts, Zenon DEF HeldOnce
      <4>2. \A e \in Coros : Closing(e) => co[e].num # n
        BY <1>1, <1>2, <1>6, <2>2, <3>1, Zenon DEF HeldOnce
      <4>3. QED
        BY <1>6, <1>8, <1>9, <2>2, <3>1, <4>1, <4>2, Zenon
    <3>2. CASE d # c
      <4>1. Closing(d) /\ co'[d].num = co[d].num
        BY <1>6, <1>8, <2>2, <3>2, Zenon
      <4>2. /\ \A t \in Sockets : fd[t] # co[d].num
            /\ \A e \in Coros : Closing(e) /\ co[e].num = co[d].num => e = d
        BY <1>1, <2>2, <4>1, Zenon DEF HeldOnce
      <4>3. QED
        BY <1>2, <1>6, <1>8, <1>9, <2>2, <3>2, <4>1, <4>2, Zenon
    <3>3. QED
      BY <3>1, <3>2, Zenon
  <2>3. QED
    BY <2>1, <2>2, Zenon DEF HeldOnce
<1>12. HeldIsOpen'
  BY <1>1, <1>2, <1>6, <1>8, <1>9, Zenon DEF HeldIsOpen
<1>13. OpenIsHeld'
  <2>1. SUFFICES ASSUME NEW x \in Numbers, table[x] \in Sockets
                 PROVE  \/ \E t \in Sockets : fd'[t] = x
                        \/ \E d \in Coros : Closing(d)' /\ co'[d].num = x
    BY Zenon DEF OpenIsHeld
  <2>2. CASE x = n
    BY <1>6, <1>8, <1>9, <2>2, Zenon
  <2>3. CASE x # n /\ \E t \in Sockets : fd[t] = x
    BY <1>2, <1>9, <2>3, Zenon
  <2>4. CASE \E d \in Coros : Closing(d) /\ co[d].num = x
    BY <1>6, <1>7, <1>8, <2>4, Zenon
  <2>5. QED
    BY <1>1, <2>1, <2>2, <2>3, <2>4, Zenon DEF OpenIsHeld
<1>14. QueuedIsHeld'
  <2>1. SUFFICES ASSUME NEW d \in Coros, co'[d].phase = "queued", co'[d].num # -1
                 PROVE  \/ \E t \in Sockets : fd'[t] = co'[d].num
                        \/ ClosedLater(d, co[d].num)'
    BY Zenon DEF QueuedIsHeld
  <2>2. PICK k \in 1 .. m + 1 : sq'[k] = d
    <3>1. InQueue(d)'
      BY <1>10, <2>1, Zenon DEF QueueIsExact
    <3>2. QED
      BY <1>4, <3>1, Zenon DEF InQueue
  <2>3. k <= m + 1
    BY <1>5, <2>2, Zenon
  <2>4. ASSUME co'[d].num = n, p \in ClosePoints PROVE ClosedLater(d, co[d].num)'
    BY <1>4, <1>5, <1>6, <2>2, <2>3, <2>4, Zenon DEF ClosedLater
  <2>5. ASSUME d # c, NEW i \in 1 .. m, NEW j \in 1 .. m,
               sq[i] = d, i <= j, co[sq[j]].at \in ClosePoints, co[sq[j]].num = co[d].num
        PROVE  ClosedLater(d, co[d].num)'
    <3>1. sq[j] # c
      BY <1>3, <1>7, Zenon DEF InQueue
    <3>2. co'[sq[j]] = co[sq[j]] /\ co'[d] = co[d]
      BY <1>4, <1>6, <2>5, <3>1, Zenon
    <3>3. i \in 1 .. m + 1 /\ j \in 1 .. m + 1 /\ sq'[i] = d /\ sq'[j] = sq[j]
      BY <1>4, <1>5, <2>5, Zenon
    <3>4. co'[sq'[j]].at \in ClosePoints /\ co'[sq'[j]].num = co'[d].num
      BY <2>5, <3>2, <3>3, Zenon
    <3>5. QED
      BY <1>4, <2>5, <3>3, <3>4, Zenon DEF ClosedLater
  <2>6. CASE d = c
    BY <1>6, <1>9, <2>4, <2>6, Zenon
  <2>7. CASE d # c
    <3>1. co'[d] = co[d]
      BY <1>6, <2>7, Zenon
    <3>2. \/ \E t \in Sockets : fd[t] = co[d].num
          \/ ClosedLater(d, co[d].num)
      BY <1>1, <2>1, <3>1, Zenon DEF QueuedIsHeld
    <3>3. ASSUME NEW t \in Sockets, fd[t] = co[d].num
          PROVE  \/ \E u \in Sockets : fd'[u] = co'[d].num
                 \/ ClosedLater(d, co[d].num)'
      BY <1>2, <1>9, <2>4, <3>1, <3>3, Zenon
    <3>4. ASSUME ClosedLater(d, co[d].num) PROVE ClosedLater(d, co[d].num)'
      BY <1>3, <2>5, <2>7, <3>4, Zenon DEF ClosedLater
    <3>5. QED
      BY <3>2, <3>3, <3>4, Zenon
  <2>8. QED
    BY <2>6, <2>7, Zenon
<1>15. QED
  BY <1>10, <1>11, <1>12, <1>13, <1>14, Zenon DEF NumbersFit

(* The kernel takes the first operation of the queue.                      *)
LEMMA TakeKeeps ==
  ASSUME ConnInv, Take
  PROVE  ConnInv' /\ \A d \in Coros : co'[d].at = co[d].at
<1>1. /\ TypesFit /\ QueueIsExact /\ HeldOnce /\ HeldIsOpen /\ OpenIsHeld /\ QueuedIsHeld
  BY DEF ConnInv
<1>2. PICK c : c = Head(sq)
  OBVIOUS
<1>3. PICK m \in Nat : m = Len(sq)
  BY <1>1, QueueFacts
<1>4. /\ m >= 1 /\ c = sq[1] /\ c \in Coros /\ Len(sq') = m - 1 /\ sq' \in Seq(Coros)
      /\ \A k \in 1 .. m - 1 : sq'[k] = sq[k + 1]
  <2>1. sq \in Seq(Coros) /\ sq # <<>> /\ sq' = Tail(sq)
    BY <1>1, QueueFacts DEF Take
  <2>2. QED
    BY <2>1, <1>2, <1>3, SMT
<1>5. /\ 1 \in 1 .. m
      /\ \A k \in 1 .. m - 1 : k + 1 \in 1 .. m /\ k + 1 # 1
      /\ \A k, j \in 1 .. m - 1 : k + 1 = j + 1 => k = j
      /\ \A k \in 1 .. m : k # 1 => \E j \in 1 .. m - 1 : k = j + 1
  <2>1. \A k \in 1 .. m : k # 1 => k - 1 \in 1 .. m - 1 /\ k = (k - 1) + 1
    BY <1>4, SMT
  <2>2. \A k \in 1 .. m : k # 1 => \E j \in 1 .. m - 1 : k = j + 1
    BY <2>1, Zenon
  <2>3. QED
    BY <1>4, <2>2, SMT
<1>6. UNCHANGED <<table, shut, fd, left, owed>>
  BY DEF Take
<1>7. co \in [Coros -> CoType] /\ co[c] \in CoType
  BY <1>1, <1>4, Zenon DEF TypesFit, CoType
<1>8. FileOf(co[c].num) \in Files
  <2>1. table \in [Numbers -> Files] /\ "none" \in Files
    BY <1>1, Zenon DEF TypesFit, Files
  <2>2. QED
    BY <2>1, Zenon DEF FileOf
<1>9. co' = [co EXCEPT ![c].phase = "kernel", ![c].file = FileOf(co[c].num)]
  BY <1>2, Zenon DEF Take
<1>10. /\ co' \in [Coros -> CoType]
       /\ co'[c].phase = "kernel" /\ co'[c].at = co[c].at /\ co'[c].num = co[c].num
       /\ co'[c].res = co[c].res
       /\ \A d \in Coros : d # c => co'[d] = co[d]
  <2>1. PICK f : f = FileOf(co[c].num)
    OBVIOUS
  <2>2. co'[c] = [co[c] EXCEPT !.phase = "kernel", !.file = f]
    BY <1>4, <1>7, <1>9, <2>1, Zenon
  <2>3. \A d \in Coros : d # c => co'[d] = co[d]
    BY <1>7, <1>9, SMT
  <2>4. /\ co'[c].phase = "kernel" /\ co'[c].at = co[c].at /\ co'[c].num = co[c].num
        /\ co'[c].res = co[c].res
    BY <1>7, <2>2, SMT DEF CoType
  <2>5. co'[c] \in CoType
    BY <1>7, <1>8, <2>1, <2>2, Zenon DEF CoType
  <2>6. DOMAIN co' = Coros /\ co' = [d \in DOMAIN co' |-> co'[d]]
    BY <1>7, <1>9, Zenon
  <2>7. QED
    BY <1>7, <2>3, <2>4, <2>5, <2>6, Zenon
<1>11. InQueue(c) /\ co[c].phase = "queued"
  BY <1>1, <1>3, <1>4, <1>5, Zenon DEF InQueue, QueueIsExact
<1>12. \A d \in Coros : /\ co'[d].at = co[d].at /\ co'[d].num = co[d].num
                        /\ co'[d].res = co[d].res
                        /\ co'[d].phase = "posted" <=> co[d].phase = "posted"
                        /\ co'[d].phase = "none" <=> co[d].phase = "none"
  BY <1>10, <1>11, Zenon
<1>13. \A d \in Coros : Closing(d)' <=> Closing(d)
  BY <1>10, <1>11, <1>12, Zenon DEF Closing
<1>14. QueueIsExact'
  <2>1. ASSUME NEW k \in 1 .. m - 1, NEW j \in 1 .. m - 1, sq'[k] = sq'[j]
        PROVE  k = j
    <3>1. k + 1 \in 1 .. m /\ j + 1 \in 1 .. m /\ sq[k + 1] = sq[j + 1]
      BY <1>4, <1>5, <2>1, Zenon
    <3>2. k + 1 = j + 1
      BY <1>1, <1>3, <3>1, Zenon DEF QueueIsExact
    <3>3. QED
      BY <1>5, <3>2, Zenon
  <2>2. ASSUME NEW d \in Coros, InQueue(d)' PROVE InQueue(d) /\ d # c
    <3>1. PICK k \in 1 .. m - 1 : sq'[k] = d
      BY <1>4, <2>2, Zenon DEF InQueue
    <3>2. k + 1 \in 1 .. m /\ sq[k + 1] = d /\ k + 1 # 1
      BY <1>4, <1>5, <3>1, Zenon
    <3>3. sq[k + 1] # sq[1]
      BY <1>1, <1>3, <1>5, <3>2, Zenon DEF QueueIsExact
    <3>4. QED
      BY <1>3, <1>4, <3>2, <3>3, Zenon DEF InQueue
  <2>3. ASSUME NEW d \in Coros, InQueue(d), d # c PROVE InQueue(d)'
    <3>1. PICK k \in 1 .. m : sq[k] = d
      BY <1>3, <2>3, Zenon DEF InQueue
    <3>2. k # 1
      BY <1>4, <2>3, <3>1, Zenon
    <3>3. PICK j \in 1 .. m - 1 : k = j + 1
      BY <1>5, <3>1, <3>2, Zenon
    <3>4. QED
      BY <1>4, <3>1, <3>3, Zenon DEF InQueue
  <2>4. \A d \in Coros : InQueue(d)' <=> co'[d].phase = "queued"
    BY <1>1, <1>10, <2>2, <2>3, Zenon DEF QueueIsExact
  <2>5. QED
    BY <1>4, <2>1, <2>4, Zenon DEF QueueIsExact
<1>15. HeldOnce' /\ HeldIsOpen' /\ OpenIsHeld'
  BY <1>6, <1>12, <1>13, HoldersKept, Zenon
<1>18. QueuedIsHeld'
  <2>1. SUFFICES ASSUME NEW d \in Coros, co'[d].phase = "queued", co'[d].num # -1
                 PROVE  \/ \E t \in Sockets : fd'[t] = co'[d].num
                        \/ ClosedLater(d, co[d].num)'
    BY Zenon DEF QueuedIsHeld
  <2>2. d # c /\ co[d].phase = "queued" /\ co'[d].num = co[d].num
    BY <1>10, <2>1, Zenon
  <2>3. ASSUME NEW i \in 1 .. m, NEW j \in 1 .. m,
               sq[i] = d, i <= j, co[sq[j]].at \in ClosePoints, co[sq[j]].num = co[d].num
        PROVE  ClosedLater(d, co[d].num)'
    <3>1. i # 1
      BY <1>4, <2>2, <2>3, Zenon
    <3>2. i - 1 \in 1 .. m - 1 /\ j - 1 \in 1 .. m - 1 /\ i - 1 <= j - 1
          /\ (i - 1) + 1 = i /\ (j - 1) + 1 = j
      BY <2>3, <3>1, SMT
    <3>3. sq'[i - 1] = d /\ sq'[j - 1] = sq[j]
      BY <1>4, <2>3, <3>2, Zenon
    <3>4. sq[j] \in Coros
      BY <1>1, <1>3, QueueFacts, Zenon
    <3>5. co'[sq'[j - 1]].at \in ClosePoints /\ co'[sq'[j - 1]].num = co'[d].num
      BY <1>12, <2>2, <2>3, <3>3, <3>4, Zenon
    <3>6. QED
      BY <1>4, <3>2, <3>3, <3>5, Zenon DEF ClosedLater
  <2>4. ASSUME ClosedLater(d, co[d].num) PROVE ClosedLater(d, co[d].num)'
    BY <1>3, <2>3, <2>4, Zenon DEF ClosedLater
  <2>5. QED
    BY <1>1, <1>6, <2>1, <2>2, <2>4, Zenon DEF QueuedIsHeld
<1>19. TypesFit'
  BY <1>1, <1>4, <1>6, <1>10, Zenon DEF TypesFit, CoType
<1>20. PointsFit'
  BY <1>12, NamesFacts, Zenon DEF ConnInv, PointsFit
<1>21. ReleasedAreEmpty'
  BY <1>6, <1>12, NamesFacts, Zenon DEF ConnInv, ReleasedAreEmpty
<1>22. OwedIsLeft'
  <2>1. OwedIsLeft /\ \A e \in Echoes : e \in Coros
    BY NamesFacts, Zenon DEF ConnInv
  <2>2. QED
    BY <1>6, <1>12, <2>1, OwedKept, Zenon DEF OwedIsLeft, OwedSame
<1>23. QED
  BY <1>12, <1>14, <1>15, <1>18, <1>19, <1>20, <1>21, <1>22, Zenon DEF ConnInv

LEMMA SuspendFacts ==
  ASSUME TypesFit, NEW c \in Coros, NEW p \in Points, NEW n \in Numbers \cup {-1},
         Suspend(c, p, n)
  PROVE  /\ co' \in [Coros -> CoType] /\ sq' \in Seq(Coros)
         /\ co'[c].at = p /\ co'[c].phase = "queued" /\ co'[c].num = n
         /\ \A d \in Coros : d # c => co'[d] = co[d]
<1>1. co \in [Coros -> CoType] /\ sq \in Seq(Coros)
  BY Zenon DEF TypesFit, CoType
<1>2. co' = [co EXCEPT ![c] = Awaits(p, n)] /\ sq' = Append(sq, c)
  BY Zenon DEF Suspend
<1>3. Awaits(p, n) \in CoType
  BY NumberFacts, Zenon DEF Awaits, CoType, Files
<1>4. co'[c] = Awaits(p, n) /\ \A d \in Coros : d # c => co'[d] = co[d]
  BY <1>1, <1>2, Zenon
<1>5. co' \in [Coros -> CoType]
  BY <1>1, <1>2, <1>3, Zenon
<1>6. co'[c].at = p /\ co'[c].phase = "queued" /\ co'[c].num = n
  BY <1>4, SMT DEF Awaits
<1>7. sq' \in Seq(Coros)
  BY <1>1, <1>2, SMT
<1>8. QED
  BY <1>4, <1>5, <1>6, <1>7, Zenon

LEMMA PostFacts ==
  ASSUME TypesFit, NEW c \in Coros, NEW res \in -1 .. MaxBytes, Post(c, res)
  PROVE  /\ co' \in [Coros -> CoType]
         /\ co'[c].phase = "posted" /\ co'[c].res = res
         /\ co'[c].at = co[c].at /\ co'[c].num = co[c].num
         /\ \A d \in Coros : d # c => co'[d] = co[d]
<1>1. co \in [Coros -> CoType] /\ co[c] \in CoType
  BY Zenon DEF TypesFit, CoType
<1>2. co' = [co EXCEPT ![c].phase = "posted", ![c].res = res]
  BY Zenon DEF Post
<1>3. co'[c] = [co[c] EXCEPT !.phase = "posted", !.res = res]
  BY <1>1, <1>2, Zenon
<1>4. co'[c] \in CoType
  BY <1>1, <1>3, Zenon DEF CoType
<1>5. \A d \in Coros : d # c => co'[d] = co[d]
  BY <1>1, <1>2, SMT
<1>6. /\ co'[c].phase = "posted" /\ co'[c].res = res
      /\ co'[c].at = co[c].at /\ co'[c].num = co[c].num
  BY <1>1, <1>3, SMT DEF CoType
<1>7. DOMAIN co' = Coros /\ co' = [d \in DOMAIN co' |-> co'[d]]
  BY <1>1, <1>2, Zenon
<1>8. QED
  BY <1>1, <1>4, <1>5, <1>6, <1>7, Zenon

(* A completion is posted: the coroutines are where they were.             *)
LEMMA PostKeepsPoints ==
  ASSUME ConnInv, NEW c \in Coros, NEW res \in -1 .. MaxBytes, Post(c, res),
         co[c].phase = "kernel", fd' = fd
  PROVE  PointsFit' /\ ReleasedAreEmpty'
<1>1. /\ co'[c].phase = "posted" /\ co'[c].at = co[c].at
      /\ \A d \in Coros : d # c => co'[d] = co[d]
  BY PostFacts, Zenon DEF ConnInv
<1>2. \A d \in Coros : /\ co'[d].at = co[d].at
                       /\ co'[d].phase = "none" <=> co[d].phase = "none"
  BY <1>1, Zenon
<1>3. PointsFit'
  BY <1>2, NamesFacts, Zenon DEF ConnInv, PointsFit
<1>4. ReleasedAreEmpty'
  BY <1>2, NamesFacts, Zenon DEF ConnInv, ReleasedAreEmpty
<1>5. QED
  BY <1>3, <1>4

(* The end of an operation that is not a close.                            *)
LEMMA PostKeepsNumbers ==
  ASSUME ConnInv, NEW c \in Coros, NEW res \in -1 .. MaxBytes, Post(c, res),
         co[c].phase = "kernel", co[c].at \notin ClosePoints,
         UNCHANGED <<table, fd, sq>>
  PROVE  NumbersFit'
<1>1. /\ co'[c].phase = "posted" /\ co'[c].at = co[c].at /\ co'[c].num = co[c].num
      /\ \A d \in Coros : d # c => co'[d] = co[d]
  BY PostFacts, Zenon DEF ConnInv
<1>2. \A d \in Coros : /\ Closing(d)' <=> Closing(d)
                       /\ co'[d].phase = "queued" <=> co[d].phase = "queued"
                       /\ co'[d].num = co[d].num /\ co'[d].at = co[d].at
  BY <1>1, Zenon DEF Closing
<1>3. table' = table /\ fd' = fd /\ sq' = sq
  OBVIOUS
<1>4. QED
  BY <1>2, <1>3, QuietKeeps, Zenon

LEMMA ConnectsKeeps ==
  ASSUME ConnInv, NEW res \in {-1, 0}, Connects(res)
  PROVE  ConnInv'
<1>1. /\ Post("handler", res) /\ co["handler"].phase = "kernel"
      /\ co["handler"].at = "connect"
      /\ UNCHANGED <<table, shut, fd, sq, left, owed>>
  BY Zenon DEF Connects, Does
<1>2. res \in -1 .. MaxBytes /\ "handler" \in Coros
  BY NumberFacts, NamesFacts, Zenon
<1>3. /\ co' \in [Coros -> CoType]
      /\ \A d \in Coros : d # "handler" => co'[d] = co[d]
  BY <1>1, <1>2, PostFacts, Zenon DEF ConnInv
<1>4. PointsFit' /\ ReleasedAreEmpty'
  BY <1>1, <1>2, PostKeepsPoints, Zenon
<1>5. NumbersFit'
  <2>1. "connect" \notin ClosePoints
    BY SMT DEF ClosePoints
  <2>2. QED
    BY <1>1, <1>2, <2>1, PostKeepsNumbers, Zenon
<1>6. TypesFit'
  BY <1>1, <1>3, Zenon DEF ConnInv, TypesFit, CoType
<1>7. OwedIsLeft'
  BY <1>1, <1>3, NamesFacts, OwedKept, Zenon DEF ConnInv, OwedIsLeft, OwedSame
<1>8. QED
  BY <1>4, <1>5, <1>6, <1>7, Zenon DEF ConnInv, NumbersFit

LEMMA ShutsKeeps ==
  ASSUME ConnInv, NEW e \in Echoes, Shuts(e)
  PROVE  ConnInv'
<1>1. /\ Post(e, 0) /\ co[e].phase = "kernel" /\ co[e].at \in {"shutRecv", "shutSend"}
      /\ UNCHANGED <<table, fd, sq, left, owed>>
      /\ shut' = shut \cup ({co[e].file} \cap Sockets)
  BY Zenon DEF Shuts, Does
<1>2. 0 \in -1 .. MaxBytes /\ e \in Coros
  BY NumberFacts, NamesFacts, Zenon
<1>3. /\ co' \in [Coros -> CoType] /\ co'[e].at = co[e].at
      /\ \A d \in Coros : d # e => co'[d] = co[d]
  BY <1>1, <1>2, PostFacts, Zenon DEF ConnInv
<1>4. PointsFit' /\ ReleasedAreEmpty'
  BY <1>1, <1>2, PostKeepsPoints, Zenon
<1>5. NumbersFit'
  <2>1. co[e].at \notin ClosePoints
    BY <1>1, SMT DEF ClosePoints
  <2>2. QED
    BY <1>1, <1>2, <2>1, PostKeepsNumbers, Zenon
<1>6. TypesFit'
  BY <1>1, <1>3, Zenon DEF ConnInv, TypesFit, CoType
<1>7. OwedIsLeft'
  <2>1. OwedFits(e)'
    BY <1>1, <1>3, Zenon DEF OwedFits
  <2>2. QED
    BY <1>1, <1>3, <2>1, NamesFacts, OwedKept, Zenon DEF ConnInv, OwedIsLeft, OwedSame
<1>8. QED
  BY <1>4, <1>5, <1>6, <1>7, Zenon DEF ConnInv, NumbersFit

(* recv takes a buffer only when nothing is owed.                          *)
LEMMA ReceivesKeeps ==
  ASSUME ConnInv, NEW e \in Echoes, NEW res \in -1 .. MaxBytes, Receives(e, res)
  PROVE  ConnInv'
<1>1. /\ Post(e, res) /\ co[e].phase = "kernel" /\ co[e].at = "recv"
      /\ UNCHANGED <<table, shut, fd, sq, left>>
      /\ owed' = IF res > 0 THEN [owed EXCEPT ![e] = @ + res] ELSE owed
  BY Zenon DEF Receives, Does
<1>2. /\ e \in Coros /\ MaxBytes \in Nat /\ owed \in [Echoes -> 0 .. MaxBytes]
      /\ TypesFit /\ OwedIsLeft
  BY NamesFacts, ProxyAssumption, Zenon DEF ConnInv, TypesFit
<1>3. /\ co' \in [Coros -> CoType]
      /\ co'[e].at = "recv" /\ co'[e].phase = "posted" /\ co'[e].res = res
      /\ \A d \in Coros : d # e => co'[d] = co[d]
  BY <1>1, <1>2, PostFacts, Zenon
<1>4. PointsFit' /\ ReleasedAreEmpty'
  BY <1>1, <1>2, PostKeepsPoints, Zenon
<1>5. NumbersFit'
  <2>1. "recv" \notin ClosePoints
    BY SMT DEF ClosePoints
  <2>2. QED
    BY <1>1, <1>2, <2>1, PostKeepsNumbers, Zenon
<1>6. owed[e] = 0
  BY <1>1, <1>2, Zenon DEF OwedIsLeft, OwedFits
<1>7. /\ owed' \in [Echoes -> 0 .. MaxBytes]
      /\ owed'[e] = IF res > 0 THEN res ELSE 0
      /\ \A f \in Echoes : f # e => owed'[f] = owed[f]
  <2>1. CASE res > 0
    BY <1>1, <1>2, <1>6, <2>1, SMT
  <2>2. CASE ~(res > 0)
    BY <1>1, <1>2, <1>6, <2>2, Zenon
  <2>3. QED
    BY <2>1, <2>2
<1>8. TypesFit'
  BY <1>1, <1>2, <1>3, <1>7, Zenon DEF TypesFit, CoType
<1>9. OwedIsLeft'
  <2>1. OwedFits(e)'
    BY <1>3, <1>7, Zenon DEF OwedFits
  <2>2. QED
    BY <1>1, <1>2, <1>3, <1>7, <2>1, NamesFacts, OwedKept, Zenon DEF OwedIsLeft, OwedSame
<1>10. QED
  BY <1>4, <1>5, <1>8, <1>9, Zenon DEF ConnInv, NumbersFit

(* send takes at most what is left of the buffer.                          *)
LEMMA SendsKeeps ==
  ASSUME ConnInv, NEW e \in Echoes, NEW res \in -1 .. MaxBytes, Sends(e, res)
  PROVE  ConnInv'
<1>1. /\ Post(e, res) /\ co[e].phase = "kernel" /\ co[e].at = "send"
      /\ res <= left[e]
      /\ UNCHANGED <<table, shut, fd, sq, left>>
      /\ owed' = IF res > 0 THEN [owed EXCEPT ![e] = @ - res] ELSE owed
  BY Zenon DEF Sends, Does
<1>2. /\ e \in Coros /\ MaxBytes \in Nat
      /\ owed \in [Echoes -> 0 .. MaxBytes] /\ left \in [Echoes -> 0 .. MaxBytes]
      /\ TypesFit /\ OwedIsLeft
  BY NamesFacts, ProxyAssumption, Zenon DEF ConnInv, TypesFit
<1>3. /\ co' \in [Coros -> CoType]
      /\ co'[e].at = "send" /\ co'[e].phase = "posted" /\ co'[e].res = res
      /\ \A d \in Coros : d # e => co'[d] = co[d]
  BY <1>1, <1>2, PostFacts, Zenon
<1>4. PointsFit' /\ ReleasedAreEmpty'
  BY <1>1, <1>2, PostKeepsPoints, Zenon
<1>5. NumbersFit'
  <2>1. "send" \notin ClosePoints
    BY SMT DEF ClosePoints
  <2>2. QED
    BY <1>1, <1>2, <2>1, PostKeepsNumbers, Zenon
<1>6. owed[e] = left[e]
  BY <1>1, <1>2, Zenon DEF OwedIsLeft, OwedFits
<1>7. /\ owed' \in [Echoes -> 0 .. MaxBytes]
      /\ owed'[e] = IF res > 0 THEN left[e] - res ELSE left[e]
      /\ \A f \in Echoes : f # e => owed'[f] = owed[f]
  <2>1. CASE res > 0
    <3>1. owed' = [owed EXCEPT ![e] = left[e] - res]
      BY <1>1, <1>6, <2>1, Zenon
    <3>2. left[e] - res \in 0 .. MaxBytes
      BY <1>1, <1>2, <2>1, SMT
    <3>3. QED
      BY <1>2, <2>1, <3>1, <3>2, Zenon
  <2>2. CASE ~(res > 0)
    BY <1>1, <1>2, <1>6, <2>2, Zenon
  <2>3. QED
    BY <2>1, <2>2
<1>8. TypesFit'
  BY <1>1, <1>2, <1>3, <1>7, Zenon DEF TypesFit, CoType
<1>9. OwedIsLeft'
  <2>1. OwedFits(e)'
    BY <1>1, <1>3, <1>7, Zenon DEF OwedFits
  <2>2. QED
    BY <1>1, <1>2, <1>3, <1>7, <2>1, NamesFacts, OwedKept, Zenon DEF OwedIsLeft, OwedSame
<1>10. QED
  BY <1>4, <1>5, <1>8, <1>9, Zenon DEF ConnInv, NumbersFit

(* close frees a number that nothing else holds.                           *)
LEMMA ClosesKeeps ==
  ASSUME ConnInv, NEW c \in Coros, Closes(c)
  PROVE  ConnInv'
<1>1. /\ Post(c, 0) /\ co[c].phase = "kernel" /\ co[c].at \in ClosePoints
      /\ UNCHANGED <<shut, fd, sq, left, owed>>
      /\ table' = [n \in Numbers |-> IF n = co[c].num THEN "none" ELSE table[n]]
  BY Zenon DEF Closes, Does, ClosePoints
<1>2. /\ TypesFit /\ QueueIsExact /\ HeldOnce /\ HeldIsOpen /\ OpenIsHeld /\ QueuedIsHeld
      /\ OwedIsLeft
  BY DEF ConnInv
<1>3. 0 \in -1 .. MaxBytes
  BY NumberFacts, Zenon
<1>4. /\ co' \in [Coros -> CoType]
      /\ co'[c].phase = "posted" /\ co'[c].at = co[c].at /\ co'[c].num = co[c].num
      /\ \A d \in Coros : d # c => co'[d] = co[d]
  BY <1>1, <1>2, <1>3, PostFacts, Zenon
<1>5. PointsFit' /\ ReleasedAreEmpty'
  BY <1>1, <1>3, PostKeepsPoints, Zenon
<1>6. PICK n : n = co[c].num
  OBVIOUS
<1>7. /\ table' \in [Numbers -> Files]
      /\ \A x \in Numbers : x # n => table'[x] = table[x]
      /\ n \in Numbers => table'[n] = "none"
  BY <1>1, <1>2, <1>6, Zenon DEF TypesFit, Files
<1>8. "none" \notin Sockets
  BY SMT DEF Sockets
<1>9. /\ Closing(c) /\ ~Closing(c)'
      /\ \A d \in Coros : d # c => (Closing(d)' <=> Closing(d))
  BY <1>1, <1>4, Zenon DEF Closing
<1>10. n # -1 => /\ \A s \in Sockets : fd[s] # n
                 /\ \A d \in Coros : Closing(d) /\ co[d].num = n => d = c
  BY <1>2, <1>6, <1>9, Zenon DEF HeldOnce
<1>11. /\ \A s \in Sockets : fd[s] \in Numbers \cup {-1}
       /\ \A d \in Coros : co[d].num \in Numbers \cup {-1}
  BY <1>2, Zenon DEF TypesFit
<1>12. QueueIsExact'
  <2>1. \A d : InQueue(d)' <=> InQueue(d)
    BY <1>1, Zenon DEF InQueue
  <2>2. \A d \in Coros : co'[d].phase = "queued" <=> co[d].phase = "queued"
    BY <1>1, <1>4, Zenon
  <2>3. QED
    BY <1>1, <1>2, <2>1, <2>2, Zenon DEF QueueIsExact
<1>13. HeldOnce'
  <2>1. ASSUME NEW d \in Coros, Closing(d)', co'[d].num # -1
        PROVE  /\ \A s \in Sockets : fd[s] # co'[d].num
               /\ \A f \in Coros : Closing(f)' /\ co'[f].num = co'[d].num => f = d
    <3>1. Closing(d) /\ co'[d] = co[d]
      BY <1>4, <1>9, <2>1, Zenon
    <3>2. /\ \A s \in Sockets : fd[s] # co[d].num
          /\ \A f \in Coros : Closing(f) /\ co[f].num = co[d].num => f = d
      BY <1>2, <2>1, <3>1, Zenon DEF HeldOnce
    <3>3. QED
      BY <1>4, <1>9, <3>1, <3>2, Zenon
  <2>2. fd' = fd
    BY <1>1
  <2>3. QED
    BY <1>2, <2>1, <2>2, Zenon DEF HeldOnce
<1>14. HeldIsOpen'
  <2>1. \A s \in Sockets : fd'[s] # -1 => table'[fd'[s]] \in Sockets
    BY <1>1, <1>2, <1>7, <1>10, <1>11, Zenon DEF HeldIsOpen
  <2>2. ASSUME NEW d \in Coros, Closing(d)', co'[d].num # -1
        PROVE  table'[co'[d].num] \in Sockets
    <3>1. d # c /\ Closing(d) /\ co'[d] = co[d]
      BY <1>4, <1>9, <2>2, Zenon
    <3>2. co[d].num # n
      BY <1>10, <2>2, <3>1, Zenon
    <3>3. QED
      BY <1>2, <1>7, <1>11, <2>2, <3>1, <3>2, Zenon DEF HeldIsOpen
  <2>3. QED
    BY <2>1, <2>2, Zenon DEF HeldIsOpen
<1>15. OpenIsHeld'
  <2>1. SUFFICES ASSUME NEW x \in Numbers, table'[x] \in Sockets
                 PROVE  \/ \E s \in Sockets : fd[s] = x
                        \/ \E d \in Coros : Closing(d)' /\ co'[d].num = x
    BY <1>1, Zenon DEF OpenIsHeld
  <2>2. x # n /\ table[x] \in Sockets
    BY <1>7, <1>8, <2>1, Zenon
  <2>3. \/ \E s \in Sockets : fd[s] = x
        \/ \E d \in Coros : Closing(d) /\ co[d].num = x
    BY <1>2, <2>2, Zenon DEF OpenIsHeld
  <2>4. QED
    BY <1>4, <1>6, <1>9, <2>2, <2>3, Zenon
<1>16. QueuedIsHeld'
  <2>1. SUFFICES ASSUME NEW d \in Coros, co'[d].phase = "queued", co'[d].num # -1
                 PROVE  \/ \E t \in Sockets : fd'[t] = co'[d].num
                        \/ ClosedLater(d, co[d].num)'
    BY Zenon DEF QueuedIsHeld
  <2>2. d # c /\ co'[d] = co[d] /\ sq' = sq
    BY <1>1, <1>4, <2>1, Zenon
  <2>3. ASSUME ClosedLater(d, co[d].num) PROVE ClosedLater(d, co[d].num)'
    <3>1. PICK i, j \in 1 .. Len(sq) :
            /\ sq[i] = d /\ i <= j
            /\ co[sq[j]].at \in ClosePoints /\ co[sq[j]].num = co[d].num
      BY <2>3, Zenon DEF ClosedLater
    <3>2. sq[j] \in Coros /\ InQueue(sq[j])
      BY <1>2, QueueFacts, <3>1, Zenon DEF InQueue
    <3>3. co[sq[j]].phase = "queued"
      BY <1>2, <3>2, Zenon DEF QueueIsExact
    <3>4. sq[j] # c
      BY <1>1, <3>3, Zenon
    <3>5. co'[sq[j]] = co[sq[j]]
      BY <1>4, <3>2, <3>4, Zenon
    <3>6. QED
      BY <2>2, <3>1, <3>5, Zenon DEF ClosedLater
  <2>4. QED
    BY <1>1, <1>2, <2>1, <2>2, <2>3, Zenon DEF QueuedIsHeld
<1>17. TypesFit'
  BY <1>1, <1>2, <1>4, <1>7, Zenon DEF TypesFit, CoType
<1>18. OwedIsLeft'
  <2>1. SUFFICES ASSUME NEW e \in Echoes PROVE OwedFits(e)'
    BY Zenon DEF OwedIsLeft
  <2>2. OwedFits(e) /\ e \in Coros
    BY <1>2, NamesFacts, Zenon DEF OwedIsLeft
  <2>3. CASE e = c
    <3>1. co'[e].at \notin {"none", "recv", "send"}
      BY <1>1, <1>4, <2>3, SMT DEF ClosePoints
    <3>2. QED
      BY <3>1, Zenon DEF OwedFits
  <2>4. CASE e # c
    BY <1>1, <1>4, <2>2, <2>4, OwedKept, Zenon DEF OwedSame
  <2>5. QED
    BY <2>3, <2>4
<1>19. QED
  BY <1>5, <1>12, <1>13, <1>14, <1>15, <1>16, <1>17, <1>18, Zenon DEF ConnInv

(* Other connections touch no number of this one.                          *)
LEMMA OthersKeep ==
  ASSUME ConnInv, NEW n \in Numbers, OtherOpens(n) \/ OtherCloses(n)
  PROVE  ConnInv'
<1>1. /\ UNCHANGED <<shut, fd, co, sq, left, owed>>
      /\ \/ table[n] = "none" /\ table' = [table EXCEPT ![n] = "other"]
         \/ table[n] = "other" /\ table' = [table EXCEPT ![n] = "none"]
  BY Zenon DEF OtherOpens, OtherCloses, Free
<1>2. table \in [Numbers -> Files] /\ TypesFit /\ OwedIsLeft /\ PointsFit /\ ReleasedAreEmpty
  BY Zenon DEF ConnInv, TypesFit
<1>3. "none" \notin Sockets /\ "other" \notin Sockets
  BY SMT DEF Sockets
<1>4. table' \in [Numbers -> Files]
  BY <1>1, <1>2, Zenon DEF Files
<1>5. \A x \in Numbers : table'[x] \in Sockets <=> table[x] \in Sockets
  BY <1>1, <1>2, <1>3, Zenon
<1>6. \A c \in Coros : Closing(c)' <=> Closing(c)
  BY <1>1, Zenon DEF Closing
<1>7. NumbersFit'
  BY <1>1, <1>5, <1>6, QuietKeeps, Zenon
<1>8. TypesFit'
  BY <1>1, <1>2, <1>4, Zenon DEF TypesFit
<1>9. OwedIsLeft'
  BY <1>1, <1>2, OwedKept, Zenon DEF OwedIsLeft, OwedSame
<1>10. PointsFit' /\ ReleasedAreEmpty'
  BY <1>1, <1>2, Zenon DEF PointsFit, ReleasedAreEmpty
<1>11. QED
  BY <1>7, <1>8, <1>9, <1>10, Zenon DEF ConnInv, NumbersFit

(* An echo goes on with its next operation, on the number of Fd s.         *)
LEMMA EchoSuspends ==
  ASSUME ConnInv, NEW e \in Echoes, co[e].phase = "posted",
         NEW p \in EchoPoints \ {"none", "done"}, NEW s \in Sockets,
         Suspend(e, p, fd[s]), UNCHANGED <<table, shut, owed>>,
         p \in ClosePoints => fd' = release(s),
         p \notin ClosePoints => fd' = fd,
         p \in {"closeRecv", "shutSend", "closeSend"} => fd'[recvSocket(e)] = -1,
         p = "closeSend" => fd'[sendSocket(e)] = -1,
         left' \in [Echoes -> 0 .. MaxBytes],
         \A f \in Echoes : f # e => left'[f] = left[f],
         OwedFits(e)'
  PROVE  ConnInv'
<1>1. TypesFit /\ PointsFit /\ ReleasedAreEmpty /\ OwedIsLeft
  BY DEF ConnInv
<1>2. e \in Coros /\ e # "handler" /\ "handler" \in Coros
  BY NamesFacts, Zenon
<1>3. p \in Points /\ p \notin {"none", "wait", "done"}
  BY SMT DEF EchoPoints, Points
<1>4. fd \in [Sockets -> Numbers \cup {-1}] /\ fd[s] \in Numbers \cup {-1}
  BY <1>1, Zenon DEF TypesFit
<1>5. /\ co' \in [Coros -> CoType] /\ sq' \in Seq(Coros)
      /\ co'[e].at = p /\ co'[e].phase = "queued"
      /\ \A d \in Coros : d # e => co'[d] = co[d]
  BY <1>1, <1>2, <1>3, <1>4, SuspendFacts, Zenon
<1>6. NumbersFit'
  BY <1>2, SuspendKeeps, Zenon
<1>7. co["handler"].at = "wait" /\ co'["handler"] = co["handler"]
  <2>1. co[e].at \notin {"none", "wait", "done"}
    BY <1>1, <1>2, Zenon DEF PointsFit
  <2>2. QED
    BY <1>1, <1>2, <1>5, <2>1, Zenon DEF PointsFit
<1>8. PointsFit'
  <2>1. co'["handler"].at \in HandlerPoints
    BY <1>1, <1>7, Zenon DEF PointsFit
  <2>2. \A f \in Echoes : co'[f].at \in EchoPoints /\ co'[f].at # "none"
    BY <1>1, <1>3, <1>5, <1>7, NamesFacts, Zenon DEF PointsFit
  <2>3. \A c \in Coros : co'[c].phase = "none" <=> co'[c].at \in {"none", "wait", "done"}
    BY <1>1, <1>3, <1>5, Zenon DEF PointsFit
  <2>4. co'[e].at # "done"
    BY <1>3, <1>5, Zenon
  <2>5. co'["handler"].at = "wait"
    BY <1>7
  <2>6. QED
    BY <2>1, <2>2, <2>3, <2>4, <2>5, SMT DEF PointsFit
<1>9. \A t \in Sockets : fd[t] = -1 => fd'[t] = -1
  BY <1>4, Zenon DEF release
<1>10. ReleasedAreEmpty'
  <2>1. ASSUME NEW f \in Echoes
        PROVE  /\ co'[f].at \in {"closeRecv", "shutSend", "closeSend", "done"}
                    => fd'[recvSocket(f)] = -1
               /\ co'[f].at \in {"closeSend", "done"} => fd'[sendSocket(f)] = -1
    <3>1. f \in Coros /\ recvSocket(f) \in Sockets /\ sendSocket(f) \in Sockets
      BY NamesFacts, Zenon
    <3>2. CASE f = e
      BY <1>3, <1>5, <3>2, Zenon
    <3>3. CASE f # e
      BY <1>1, <1>5, <1>9, <3>1, <3>3, Zenon DEF ReleasedAreEmpty
    <3>4. QED
      BY <3>2, <3>3
  <2>2. co'["handler"].at \notin {"none", "done", "closeUpstream", "closeClient"}
    BY <1>7, SMT
  <2>3. QED
    BY <2>1, <2>2, Zenon DEF ReleasedAreEmpty
<1>11. fd' \in [Sockets -> Numbers \cup {-1}]
  BY <1>4, Zenon DEF release
<1>12. TypesFit'
  BY <1>1, <1>5, <1>11, Zenon DEF TypesFit, CoType
<1>13. OwedIsLeft'
  BY <1>1, <1>5, NamesFacts, OwedKept, Zenon DEF OwedIsLeft, OwedSame
<1>14. QED
  BY <1>6, <1>8, <1>10, <1>12, <1>13, Zenon DEF ConnInv, NumbersFit

LEMMA ReceivedKeeps ==
  ASSUME ConnInv, NEW e \in Echoes, Received(e)
  PROVE  ConnInv'
<1>1. /\ co[e].phase = "posted" /\ co[e].at = "recv" /\ co[e].res > 0
      /\ left' = [left EXCEPT ![e] = co[e].res]
      /\ Suspend(e, "send", fd[sendSocket(e)])
      /\ UNCHANGED <<table, shut, fd, owed>>
  BY Zenon DEF Received, Resumed
<1>2. /\ TypesFit /\ OwedFits(e) /\ e \in Coros /\ sendSocket(e) \in Sockets
  BY NamesFacts, Zenon DEF ConnInv, OwedIsLeft
<1>3. /\ co[e].res \in -1 .. MaxBytes /\ left \in [Echoes -> 0 .. MaxBytes]
      /\ fd[sendSocket(e)] \in Numbers \cup {-1} /\ MaxBytes \in Nat
  BY <1>2, ProxyAssumption, Zenon DEF TypesFit
<1>4. co[e].res \in 0 .. MaxBytes
  BY <1>1, <1>3, SMT
<1>5. /\ left' \in [Echoes -> 0 .. MaxBytes] /\ left'[e] = co[e].res
      /\ \A f \in Echoes : f # e => left'[f] = left[f]
  BY <1>1, <1>3, <1>4, Zenon
<1>6. /\ "send" \in Points /\ "send" \in EchoPoints \ {"none", "done"}
      /\ "send" \notin ClosePoints \cup {"closeRecv", "shutSend", "closeSend"}
  BY SMT DEF Points, EchoPoints, ClosePoints
<1>7. co'[e].at = "send" /\ co'[e].phase = "queued"
  BY <1>1, <1>2, <1>3, <1>6, SuspendFacts, Zenon
<1>8. owed'[e] = co[e].res
  BY <1>1, <1>2, Zenon DEF OwedFits
<1>9. OwedFits(e)'
  BY <1>1, <1>5, <1>7, <1>8, Zenon DEF OwedFits
<1>10. QED
  BY <1>1, <1>2, <1>5, <1>6, <1>9, EchoSuspends, Zenon

(* sendAll goes on until the buffer is empty.                              *)
LEMMA SentKeeps ==
  ASSUME ConnInv, NEW e \in Echoes, Sent(e)
  PROVE  ConnInv'
<1>1. /\ co[e].phase = "posted" /\ co[e].at = "send" /\ co[e].res > 0
      /\ left' = [left EXCEPT ![e] = @ - co[e].res]
      /\ \/ left'[e] > 0 /\ Suspend(e, "send", fd[sendSocket(e)])
         \/ ~(left'[e] > 0) /\ Suspend(e, "recv", fd[recvSocket(e)])
      /\ UNCHANGED <<table, shut, fd, owed>>
  BY Zenon DEF Sent, Resumed, sendsMore
<1>2. /\ TypesFit /\ OwedFits(e) /\ e \in Coros
      /\ sendSocket(e) \in Sockets /\ recvSocket(e) \in Sockets
  BY NamesFacts, Zenon DEF ConnInv, OwedIsLeft
<1>3. /\ co[e].res \in -1 .. MaxBytes /\ left \in [Echoes -> 0 .. MaxBytes]
      /\ fd[sendSocket(e)] \in Numbers \cup {-1} /\ fd[recvSocket(e)] \in Numbers \cup {-1}
      /\ MaxBytes \in Nat /\ left[e] \in 0 .. MaxBytes
  BY <1>2, ProxyAssumption, Zenon DEF TypesFit
<1>4. co[e].res <= left[e] /\ owed[e] = left[e] - co[e].res
  BY <1>1, <1>2, Zenon DEF OwedFits
<1>5. left[e] - co[e].res \in 0 .. MaxBytes
  BY <1>1, <1>3, <1>4, SMT
<1>6. /\ left' \in [Echoes -> 0 .. MaxBytes] /\ left'[e] = left[e] - co[e].res
      /\ \A f \in Echoes : f # e => left'[f] = left[f]
  BY <1>1, <1>3, <1>5, Zenon
<1>7. /\ {"send", "recv"} \subseteq Points
      /\ {"send", "recv"} \subseteq EchoPoints \ {"none", "done"}
      /\ \A p \in {"send", "recv"} :
           p \notin ClosePoints \cup {"closeRecv", "shutSend", "closeSend"}
  BY SMT DEF Points, EchoPoints, ClosePoints
<1>8. owed'[e] = left'[e]
  BY <1>1, <1>4, <1>6, Zenon
<1>9. CASE left'[e] > 0 /\ Suspend(e, "send", fd[sendSocket(e)])
  <2>1. co'[e].at = "send" /\ co'[e].phase = "queued"
    BY <1>2, <1>3, <1>7, <1>9, SuspendFacts, Zenon
  <2>2. OwedFits(e)'
    BY <1>8, <1>9, <2>1, Zenon DEF OwedFits
  <2>3. QED
    BY <1>1, <1>2, <1>6, <1>7, <1>9, <2>2, EchoSuspends, Zenon
<1>10. CASE ~(left'[e] > 0) /\ Suspend(e, "recv", fd[recvSocket(e)])
  <2>1. co'[e].at = "recv" /\ co'[e].phase = "queued"
    BY <1>2, <1>3, <1>7, <1>10, SuspendFacts, Zenon
  <2>2. left'[e] = 0
    BY <1>3, <1>5, <1>6, <1>10, SMT
  <2>3. OwedFits(e)'
    BY <1>8, <2>1, <2>2, Zenon DEF OwedFits
  <2>4. QED
    BY <1>1, <1>2, <1>6, <1>7, <1>10, <2>3, EchoSuspends, Zenon
<1>11. QED
  BY <1>1, <1>9, <1>10

(* The rest of the operations of an echo concern no buffer.                *)
LEMMA EchoSuspendsAtEnd ==
  ASSUME ConnInv, NEW e \in Echoes, co[e].phase = "posted",
         NEW p \in {"shutRecv", "closeRecv", "shutSend", "closeSend"}, NEW s \in Sockets,
         Suspend(e, p, fd[s]), UNCHANGED <<table, shut, left, owed>>,
         p \in ClosePoints => fd' = release(s),
         p \notin ClosePoints => fd' = fd,
         p \in {"closeRecv", "shutSend", "closeSend"} => fd'[recvSocket(e)] = -1,
         p = "closeSend" => fd'[sendSocket(e)] = -1
  PROVE  ConnInv'
<1>1. TypesFit /\ e \in Coros /\ left \in [Echoes -> 0 .. MaxBytes]
      /\ fd[s] \in Numbers \cup {-1}
  BY NamesFacts, Zenon DEF ConnInv, TypesFit
<1>2. /\ p \in Points /\ p \in EchoPoints \ {"none", "done"}
      /\ p \notin {"none", "recv", "send"}
  BY SMT DEF Points, EchoPoints
<1>3. co'[e].at = p
  BY <1>1, <1>2, SuspendFacts, Zenon
<1>4. OwedFits(e)'
  BY <1>2, <1>3, Zenon DEF OwedFits
<1>5. left' = left /\ owed' = owed
  OBVIOUS
<1>6. QED
  BY <1>1, <1>2, <1>4, <1>5, EchoSuspends, Zenon

(* The loop of an echo ends; then both sockets are shut down and closed.   *)
LEMMA EndingKeeps ==
  ASSUME ConnInv, NEW e \in Echoes,
         LoopEnds(e) \/ CloseRecv(e) \/ ShutSend(e) \/ CloseSend(e)
  PROVE  ConnInv'
<1>1. /\ ReleasedAreEmpty /\ DOMAIN fd = Sockets
      /\ sendSocket(e) \in Sockets /\ recvSocket(e) \in Sockets
      /\ sendSocket(e) # recvSocket(e)
  BY NamesFacts, Zenon DEF ConnInv, TypesFit
<1>2. /\ "shutRecv" \notin ClosePoints /\ "shutSend" \notin ClosePoints
      /\ "closeRecv" \in ClosePoints /\ "closeSend" \in ClosePoints
  BY SMT DEF ClosePoints
<1>3. CASE LoopEnds(e)
  BY <1>1, <1>2, <1>3, EchoSuspendsAtEnd, Zenon DEF LoopEnds, Resumed
<1>4. CASE CloseRecv(e)
  <2>1. fd' = release(recvSocket(e)) /\ co[e].phase = "posted"
    BY <1>4, Zenon DEF CloseRecv, Resumed
  <2>2. fd'[recvSocket(e)] = -1
    BY <1>1, <2>1, Zenon DEF release
  <2>3. QED
    BY <1>1, <1>2, <1>4, <2>1, <2>2, EchoSuspendsAtEnd, Zenon DEF CloseRecv
<1>5. CASE ShutSend(e)
  <2>1. fd' = fd /\ co[e].phase = "posted" /\ co[e].at = "closeRecv"
    BY <1>5, Zenon DEF ShutSend, Resumed
  <2>2. fd'[recvSocket(e)] = -1
    BY <1>1, <2>1, Zenon DEF ReleasedAreEmpty
  <2>3. QED
    BY <1>1, <1>2, <1>5, <2>1, <2>2, EchoSuspendsAtEnd, Zenon DEF ShutSend
<1>6. CASE CloseSend(e)
  <2>1. fd' = release(sendSocket(e)) /\ co[e].phase = "posted" /\ co[e].at = "shutSend"
    BY <1>6, Zenon DEF CloseSend, Resumed
  <2>2. fd[recvSocket(e)] = -1
    BY <1>1, <2>1, Zenon DEF ReleasedAreEmpty
  <2>3. fd'[sendSocket(e)] = -1 /\ fd'[recvSocket(e)] = -1
    BY <1>1, <2>1, <2>2, Zenon DEF release
  <2>4. QED
    BY <1>1, <1>2, <1>6, <2>1, <2>3, EchoSuspendsAtEnd, Zenon DEF CloseSend
<1>7. QED
  BY <1>3, <1>4, <1>5, <1>6

(* handleClient closes both sockets when connect has failed.               *)
LEMMA HandlerSuspends ==
  ASSUME ConnInv, co["handler"].phase = "posted", NEW p \in {"closeClient", "closeUpstream"},
         NEW s \in Sockets, Suspend("handler", p, fd[s]), fd' = release(s),
         UNCHANGED <<table, shut, left, owed>>,
         fd'["client"] = -1, p = "closeUpstream" => fd'["upstream"] = -1
  PROVE  ConnInv'
<1>1. TypesFit /\ PointsFit /\ ReleasedAreEmpty /\ OwedIsLeft /\ "handler" \in Coros
  BY NamesFacts, Zenon DEF ConnInv
<1>2. p \in Points /\ p \in ClosePoints /\ p \in HandlerPoints /\ p \notin {"none", "wait", "done"}
  BY SMT DEF Points, ClosePoints, HandlerPoints
<1>3. fd \in [Sockets -> Numbers \cup {-1}] /\ fd[s] \in Numbers \cup {-1}
  BY <1>1, Zenon DEF TypesFit
<1>4. /\ co' \in [Coros -> CoType] /\ sq' \in Seq(Coros)
      /\ co'["handler"].at = p /\ co'["handler"].phase = "queued"
      /\ \A d \in Coros : d # "handler" => co'[d] = co[d]
  BY <1>1, <1>2, <1>3, SuspendFacts, Zenon
<1>5. NumbersFit'
  BY <1>1, <1>2, SuspendKeeps, Zenon
<1>6. \A e \in Echoes : co'[e] = co[e] /\ co[e].at = "none"
  <2>1. co["handler"].at \notin {"none", "wait", "done"}
    BY <1>1, Zenon DEF PointsFit
  <2>2. QED
    BY <1>1, <1>4, <2>1, NamesFacts, Zenon DEF PointsFit
<1>7. PointsFit'
  <2>1. \A e \in Echoes : co'[e].at \in EchoPoints /\ co'[e].at = "none"
    BY <1>6, SMT DEF EchoPoints
  <2>2. \A c \in Coros : co'[c].phase = "none" <=> co'[c].at \in {"none", "wait", "done"}
    BY <1>1, <1>2, <1>4, Zenon DEF PointsFit
  <2>3. QED
    BY <1>2, <1>4, <2>1, <2>2, Zenon DEF PointsFit
<1>8. ReleasedAreEmpty'
  <2>1. \A e \in Echoes : co'[e].at \notin {"closeRecv", "shutSend", "closeSend", "done"}
    BY <1>6, SMT
  <2>2. p = "closeUpstream" => \A t \in Sockets : fd'[t] = -1
    BY NamesFacts, Zenon
  <2>3. QED
    BY <1>2, <1>4, <2>1, <2>2, Zenon DEF ReleasedAreEmpty
<1>9. fd' \in [Sockets -> Numbers \cup {-1}]
  BY <1>3, Zenon DEF release
<1>10. TypesFit'
  BY <1>1, <1>4, <1>9, Zenon DEF TypesFit, CoType
<1>11. OwedIsLeft'
  BY <1>1, <1>6, OwedKept, Zenon DEF OwedIsLeft, OwedSame
<1>12. QED
  BY <1>5, <1>7, <1>8, <1>10, <1>11, Zenon DEF ConnInv, NumbersFit

LEMMA HandlerCloses ==
  ASSUME ConnInv, ConnectFails \/ CloseUpstream
  PROVE  ConnInv'
<1>1. /\ DOMAIN fd = Sockets /\ "client" \in Sockets /\ "upstream" \in Sockets
      /\ "client" # "upstream" /\ ReleasedAreEmpty
  BY NamesFacts, Zenon DEF ConnInv, TypesFit
<1>2. CASE ConnectFails
  <2>1. fd' = release("client") /\ co["handler"].phase = "posted"
    BY <1>2, Zenon DEF ConnectFails, Resumed
  <2>2. fd'["client"] = -1
    BY <1>1, <2>1, Zenon DEF release
  <2>3. QED
    BY <1>1, <1>2, <2>1, <2>2, HandlerSuspends, Zenon DEF ConnectFails
<1>3. CASE CloseUpstream
  <2>1. /\ fd' = release("upstream") /\ co["handler"].phase = "posted"
        /\ co["handler"].at = "closeClient"
    BY <1>3, Zenon DEF CloseUpstream, Resumed
  <2>2. fd["client"] = -1
    BY <1>1, <2>1, Zenon DEF ReleasedAreEmpty
  <2>3. fd'["client"] = -1 /\ fd'["upstream"] = -1
    BY <1>1, <2>1, <2>2, Zenon DEF release
  <2>4. QED
    BY <1>1, <1>3, <2>1, <2>3, HandlerSuspends, Zenon DEF CloseUpstream
<1>4. QED
  BY <1>2, <1>3

(* With empty Fds the destructors do nothing.                              *)
LEMMA DestructorsIdle ==
  ASSUME TypesFit, \A s \in Sockets : fd[s] = -1, destructors
  PROVE  table' = table /\ fd' = fd
<1>1. table \in [Numbers -> Files] /\ fd \in [Sockets -> Numbers \cup {-1}]
  BY Zenon DEF TypesFit
<1>2. \A n \in Numbers : ~\E s \in Sockets : fd[s] = n
  BY NumberFacts, Zenon
<1>3. table' = [n \in Numbers |-> table[n]]
  BY <1>2, Zenon DEF destructors
<1>4. fd' = [s \in Sockets |-> fd[s]]
  BY Zenon DEF destructors
<1>5. QED
  BY <1>1, <1>3, <1>4, Zenon

LEMMA RestsFacts ==
  ASSUME NEW p \in Points
  PROVE  /\ Rests(p) \in CoType
         /\ Rests(p).at = p /\ Rests(p).phase = "none" /\ Rests(p).num = -1
         /\ Rests(p).res = 0
<1>1. Rests(p) \in CoType
  BY NumberFacts, Zenon DEF Rests, CoType, Files
<1>2. QED
  BY <1>1, SMT DEF Rests

(* Coroutines that had nothing on the way come to their end.               *)
LEMMA EndKeepsNumbers ==
  ASSUME ConnInv, UNCHANGED <<table, fd, sq>>,
         \A c \in Coros : co'[c] = co[c] \/
           /\ co[c].phase \notin {"queued", "kernel"}
           /\ co'[c].phase \notin {"queued", "kernel"}
  PROVE  NumbersFit'
<1>1. \A c \in Coros : /\ Closing(c)' <=> Closing(c)
                       /\ co'[c].phase = "queued" <=> co[c].phase = "queued"
                       /\ co[c].phase = "queued" \/ Closing(c) => co'[c] = co[c]
  BY Zenon DEF Closing
<1>2. table' = table /\ fd' = fd /\ sq' = sq
  OBVIOUS
<1>3. QED
  BY <1>1, <1>2, QuietKeeps, Zenon

LEMMA ReturnKeeps ==
  ASSUME ConnInv, Return
  PROVE  /\ ConnInv'
         /\ \A s \in Sockets : fd[s] = -1
         /\ \A c \in Coros : ~Closing(c)
<1>1. TypesFit /\ PointsFit /\ ReleasedAreEmpty /\ OwedIsLeft /\ "handler" \in Coros
  BY NamesFacts, Zenon DEF ConnInv
<1>2. /\ co["handler"].phase = "posted" /\ co["handler"].at = "closeUpstream"
      /\ co' = [co EXCEPT !["handler"] = Rests("done")] /\ destructors
      /\ UNCHANGED <<shut, sq, left, owed>>
  BY Zenon DEF Return, Resumed
<1>3. \A s \in Sockets : fd[s] = -1
  BY <1>1, <1>2, Zenon DEF ReleasedAreEmpty
<1>4. table' = table /\ fd' = fd
  BY <1>1, <1>2, <1>3, DestructorsIdle, Zenon
<1>5. /\ "done" \in Points /\ "done" \in HandlerPoints
      /\ "closeUpstream" \notin {"none", "wait", "done"} /\ "none" \in EchoPoints
  BY SMT DEF Points, HandlerPoints, EchoPoints
<1>6. /\ co \in [Coros -> CoType] /\ co' \in [Coros -> CoType]
      /\ co'["handler"] = Rests("done")
      /\ \A d \in Coros : d # "handler" => co'[d] = co[d]
  <2>1. co \in [Coros -> CoType]
    BY <1>1, Zenon DEF TypesFit, CoType
  <2>2. QED
    BY <1>1, <1>2, <1>5, <2>1, RestsFacts, Zenon
<1>7. co'["handler"].at = "done" /\ co'["handler"].phase = "none"
  BY <1>5, <1>6, RestsFacts, Zenon
<1>8. \A e \in Echoes : co'[e] = co[e] /\ co[e].at = "none"
  BY <1>1, <1>2, <1>5, <1>6, NamesFacts, Zenon DEF PointsFit
<1>9. PointsFit'
  <2>1. \A e \in Echoes : co'[e].at \in EchoPoints /\ co'[e].at = "none"
    BY <1>5, <1>8, Zenon
  <2>2. \A c \in Coros : co'[c].phase = "none" <=> co'[c].at \in {"none", "wait", "done"}
    BY <1>1, <1>6, <1>7, Zenon DEF PointsFit
  <2>3. QED
    BY <1>5, <1>7, <2>1, <2>2, Zenon DEF PointsFit
<1>10. ReleasedAreEmpty'
  <2>1. \A e \in Echoes : co'[e].at \notin {"closeRecv", "shutSend", "closeSend", "done"}
    BY <1>8, SMT
  <2>2. QED
    BY <1>3, <1>4, <2>1, NamesFacts, Zenon DEF ReleasedAreEmpty
<1>11. NumbersFit'
  <2>1. co["handler"].phase \notin {"queued", "kernel"}
        /\ co'["handler"].phase \notin {"queued", "kernel"}
    BY <1>2, <1>7, SMT
  <2>2. QED
    BY <1>2, <1>4, <1>6, <2>1, EndKeepsNumbers, Zenon
<1>12. TypesFit'
  BY <1>1, <1>2, <1>4, <1>6, Zenon DEF TypesFit, CoType
<1>13. OwedIsLeft'
  BY <1>1, <1>2, <1>8, OwedKept, Zenon DEF OwedIsLeft, OwedSame
<1>14. \A c \in Coros : ~Closing(c)
  <2>1. "posted" \notin {"queued", "kernel"} /\ "none" \notin ClosePoints
    BY SMT DEF ClosePoints
  <2>2. QED
    BY <1>2, <1>8, <2>1, NamesFacts, Zenon DEF Closing
<1>15. QED
  BY <1>3, <1>9, <1>10, <1>11, <1>12, <1>13, <1>14, Zenon DEF ConnInv, NumbersFit

(* The count reaches zero with the last echo.                              *)
LEMMA CountOfLast ==
  ASSUME IInv, NEW e \in Echoes, co[e].at = "closeSend"
  PROVE  /\ co["handler"].at = "wait"
         /\ pending \in Nat
         /\ pending - 1 = 0 <=> \A f \in Echoes \ {e} : co[f].at = "done"
<1>1. co["handler"].at = "wait"
  <2>1. "closeSend" \notin {"none", "done"}
    BY SMT
  <2>2. QED
    BY <2>1, Zenon DEF IInv, ConnInv, PointsFit
<1>2. pending = Unfinished("toUpstream") + Unfinished("toClient")
  BY <1>1, Zenon DEF IInv, PendingFits
<1>3. QED
  BY <1>1, <1>2, SMT DEF Unfinished, Echoes

(* The last echo ends handleClient; its Fds are empty by then.             *)
LEMMA EchoEndsKeeps ==
  ASSUME IInv, NEW e \in Echoes, EchoEnds(e)
  PROVE  /\ ConnInv'
         /\ co'["handler"].at = "done" =>
              /\ \A s \in Sockets : fd[s] = -1
              /\ \A c \in Coros : ~Closing(c)
<1>1. /\ TypesFit /\ PointsFit /\ ReleasedAreEmpty /\ OwedIsLeft /\ "handler" \in Coros
      /\ e \in Coros /\ e # "handler"
  BY NamesFacts, Zenon DEF IInv, ConnInv
<1>2. /\ co[e].phase = "posted" /\ co[e].at = "closeSend"
      /\ \/ /\ \A f \in Echoes \ {e} : co[f].at = "done"
            /\ co' = [co EXCEPT ![e] = Rests("done"), !["handler"] = Rests("done")]
            /\ destructors
         \/ /\ ~\A f \in Echoes \ {e} : co[f].at = "done"
            /\ co' = [co EXCEPT ![e] = Rests("done")]
            /\ UNCHANGED <<table, fd>>
      /\ UNCHANGED <<shut, sq, left, owed>>
  BY CountOfLast, Zenon DEF EchoEnds, Resumed
<1>3. \A s \in Sockets : fd[s] = -1
  <2>1. fd[recvSocket(e)] = -1 /\ fd[sendSocket(e)] = -1
    BY <1>1, <1>2, Zenon DEF ReleasedAreEmpty
  <2>2. QED
    BY <2>1, NamesFacts, Zenon
<1>4. table' = table /\ fd' = fd
  BY <1>1, <1>2, <1>3, DestructorsIdle, Zenon
<1>5. /\ "done" \in Points /\ "done" \in HandlerPoints /\ "done" \in EchoPoints
      /\ "closeSend" \notin {"none", "wait", "done"} /\ "wait" \in HandlerPoints
      /\ "done" # "none"
  BY SMT DEF Points, HandlerPoints, EchoPoints
<1>6. PICK r : r = Rests("done")
  OBVIOUS
<1>7. r \in CoType /\ r.at = "done" /\ r.phase = "none"
  BY <1>5, <1>6, RestsFacts, Zenon
<1>8. co["handler"].at = "wait" /\ co["handler"].phase = "none"
  BY <1>1, <1>2, CountOfLast, Zenon DEF PointsFit
<1>9. /\ co' \in [Coros -> CoType] /\ co'[e] = r
      /\ \A f \in Echoes : f # e => co'[f] = co[f]
      /\ co'["handler"] = r \/ co'["handler"] = co["handler"]
      /\ co'["handler"] = r => \A f \in Echoes : f # e => co[f].at = "done"
      /\ co'["handler"] = co["handler"] => \E f \in Echoes : f # e /\ co[f].at # "done"
  <2>1. co \in [Coros -> CoType]
    BY <1>1, Zenon DEF TypesFit, CoType
  <2>2. co["handler"] # r
    BY <1>7, <1>8, SMT
  <2>3. CASE /\ \A f \in Echoes \ {e} : co[f].at = "done"
             /\ co' = [co EXCEPT ![e] = r, !["handler"] = r]
    <3>1. /\ co' \in [Coros -> CoType] /\ co'[e] = r /\ co'["handler"] = r
          /\ \A d \in Coros : d # e /\ d # "handler" => co'[d] = co[d]
      BY <1>1, <1>7, <2>1, <2>3, Zenon
    <3>2. QED
      BY <2>2, <2>3, <3>1, NamesFacts, Zenon
  <2>4. CASE /\ ~\A f \in Echoes \ {e} : co[f].at = "done"
             /\ co' = [co EXCEPT ![e] = r]
    <3>1. /\ co' \in [Coros -> CoType] /\ co'[e] = r
          /\ \A d \in Coros : d # e => co'[d] = co[d]
      BY <1>1, <1>7, <2>1, <2>4, Zenon
    <3>2. QED
      BY <1>1, <2>2, <2>4, <3>1, NamesFacts, Zenon
  <2>5. QED
    BY <1>2, <1>6, <2>3, <2>4, Zenon
<1>10. /\ \A f \in Echoes : co'[f].at \in EchoPoints /\ co'[f].at # "none"
       /\ \A c \in Coros : co'[c].phase = "none" <=> co'[c].at \in {"none", "wait", "done"}
  <2>1. \A f \in Echoes : co[f].at \in EchoPoints /\ co[f].at # "none"
    BY <1>1, <1>8, Zenon DEF PointsFit
  <2>2. \A f \in Echoes : co'[f].at \in EchoPoints /\ co'[f].at # "none"
    BY <1>5, <1>7, <1>9, <2>1, Zenon
  <2>3. \A c \in Coros : co'[c] = co[c] \/ co'[c] = r
    BY <1>9, NamesFacts, Zenon
  <2>4. \A c \in Coros : co'[c].phase = "none" <=> co'[c].at \in {"none", "wait", "done"}
    BY <1>1, <1>7, <2>3, Zenon DEF PointsFit
  <2>5. QED
    BY <2>2, <2>4
<1>11. PointsFit'
  <2>1. CASE co'["handler"] = r
    <3>1. /\ co'["handler"].at = "done"
          /\ \A f \in Echoes : co'[f].at = "done"
      BY <1>7, <1>9, <2>1, Zenon
    <3>2. QED
      BY <1>5, <1>10, <3>1, SMT DEF PointsFit
  <2>2. CASE co'["handler"] = co["handler"]
    <3>1. /\ co'["handler"].at = "wait"
          /\ \E f \in Echoes : co'[f].at # "done"
      BY <1>8, <1>9, <2>2, Zenon
    <3>2. QED
      BY <1>5, <1>10, <3>1, SMT DEF PointsFit
  <2>3. QED
    BY <1>9, <2>1, <2>2
<1>12. ReleasedAreEmpty'
  BY <1>3, <1>4, NamesFacts, Zenon DEF ReleasedAreEmpty
<1>13. \A c \in Coros : co'[c] = co[c] \/
           /\ co[c].phase \notin {"queued", "kernel"}
           /\ co'[c].phase \notin {"queued", "kernel"}
  <2>1. "posted" \notin {"queued", "kernel"} /\ "none" \notin {"queued", "kernel"}
    BY SMT
  <2>2. QED
    BY <1>2, <1>7, <1>8, <1>9, <2>1, NamesFacts, Zenon
<1>14. NumbersFit'
  BY <1>2, <1>4, <1>13, EndKeepsNumbers, Zenon DEF IInv
<1>15. TypesFit'
  BY <1>1, <1>2, <1>4, <1>9, Zenon DEF TypesFit, CoType
<1>16. OwedIsLeft'
  <2>1. OwedFits(e)'
    <3>1. co'[e].at = "done"
      BY <1>7, <1>9, Zenon
    <3>2. QED
      BY <3>1, SMT DEF OwedFits
  <2>2. QED
    BY <1>1, <1>2, <1>9, <2>1, OwedKept, Zenon DEF OwedIsLeft, OwedSame
<1>17. co'["handler"].at = "done" => \A c \in Coros : ~Closing(c)
  <2>1. SUFFICES ASSUME co'["handler"].at = "done", NEW c \in Coros PROVE ~Closing(c)
    OBVIOUS
  <2>2. co'["handler"] # co["handler"]
    BY <1>8, <2>1, SMT
  <2>3. \A f \in Echoes : f # e => co[f].at = "done"
    BY <1>9, <2>2, Zenon
  <2>4. /\ "posted" \notin {"queued", "kernel"} /\ "none" \notin {"queued", "kernel"}
        /\ "done" \notin ClosePoints
    BY SMT DEF ClosePoints
  <2>5. QED
    BY <1>2, <1>8, <2>3, <2>4, NamesFacts, Zenon DEF Closing
<1>18. QED
  BY <1>3, <1>11, <1>12, <1>14, <1>15, <1>16, <1>17, Zenon DEF ConnInv, NumbersFit

(* If nothing is on the way, the connection has no open socket but those   *)
(* of its Fds, and the queue is empty.                                     *)
LEMMA NothingOnTheWay ==
  ASSUME ConnInv, \A c \in Coros : co[c].phase \notin {"queued", "kernel"}
  PROVE  /\ sq = <<>>
         /\ \A n \in Numbers : table[n] \in Sockets => \E s \in Sockets : fd[s] = n
<1>1. TypesFit /\ QueueIsExact /\ OpenIsHeld
  BY DEF ConnInv
<1>2. sq \in Seq(Coros) /\ Len(sq) \in Nat /\ \A i \in 1 .. Len(sq) : sq[i] \in Coros
  BY <1>1, QueueFacts
<1>3. \A i \in 1 .. Len(sq) : FALSE
  <2>1. \A i \in 1 .. Len(sq) : sq[i] \in Coros /\ InQueue(sq[i])
    BY <1>2, Zenon DEF InQueue
  <2>2. QED
    BY <1>1, <2>1, Zenon DEF QueueIsExact
<1>4. sq = <<>>
  <2>1. Len(sq) = 0
    BY <1>2, <1>3, SMT
  <2>2. QED
    BY <1>2, <2>1, SMT
<1>5. QED
  BY <1>1, <1>4, Zenon DEF OpenIsHeld, Closing

LEMMA AwaitsFacts ==
  ASSUME NEW p \in Points, NEW n \in Numbers \cup {-1}
  PROVE  /\ Awaits(p, n) \in CoType
         /\ Awaits(p, n).at = p /\ Awaits(p, n).phase = "queued" /\ Awaits(p, n).num = n
<1>1. Awaits(p, n) \in CoType
  BY NumberFacts, Zenon DEF Awaits, CoType, Files
<1>2. QED
  BY <1>1, SMT DEF Awaits

(* Both echoes start, on the numbers of the two Fds.                       *)
LEMMA ConnectedKeeps ==
  ASSUME ConnInv, Connected
  PROVE  ConnInv'
<1>1. TypesFit /\ PointsFit /\ ReleasedAreEmpty /\ OwedIsLeft /\ HeldOnce /\ HeldIsOpen
  BY DEF ConnInv
<1>2. /\ co["handler"].phase = "posted" /\ co["handler"].at = "connect"
      /\ co' = [c \in Coros |-> IF c = "handler" THEN Rests("wait")
                                ELSE Awaits("recv", fd[recvSocket(c)])]
      /\ sq' = sq \o <<"toUpstream", "toClient">>
      /\ UNCHANGED <<table, shut, fd, left, owed>>
  BY Zenon DEF Connected, Resumed
<1>3. \A e \in Echoes : co[e].at = "none" /\ co[e].phase = "none"
  <2>1. "connect" \notin {"wait", "done"}
    BY SMT
  <2>2. QED
    BY <1>1, <1>2, <2>1, NamesFacts, Zenon DEF PointsFit
<1>4. \A c \in Coros : co[c].phase \notin {"queued", "kernel"}
  <2>1. "posted" \notin {"queued", "kernel"} /\ "none" \notin {"queued", "kernel"}
    BY SMT
  <2>2. QED
    BY <1>2, <1>3, <2>1, NamesFacts, Zenon
<1>5. /\ sq = <<>>
      /\ \A n \in Numbers : table[n] \in Sockets => \E s \in Sockets : fd[s] = n
  BY <1>4, NothingOnTheWay
<1>6. /\ sq' \in Seq(Coros) /\ Len(sq') = 2 /\ sq'[1] = "toUpstream" /\ sq'[2] = "toClient"
  BY <1>2, <1>5, SMT DEF Coros, Echoes
<1>7. \A e \in Echoes : fd[recvSocket(e)] \in Numbers \cup {-1}
  BY <1>1, NamesFacts, Zenon DEF TypesFit
<1>8. /\ "recv" \in Points /\ "wait" \in Points /\ "recv" \notin ClosePoints
      /\ "wait" \notin ClosePoints /\ "wait" \in HandlerPoints /\ "recv" \in EchoPoints
  BY SMT DEF Points, ClosePoints, HandlerPoints, EchoPoints
<1>9. /\ co' \in [Coros -> CoType]
      /\ co'["handler"].at = "wait" /\ co'["handler"].phase = "none"
      /\ \A e \in Echoes : /\ co'[e].at = "recv" /\ co'[e].phase = "queued"
                           /\ co'[e].num = fd[recvSocket(e)]
  <2>1. co'["handler"] = Rests("wait")
    BY <1>2, NamesFacts, Zenon
  <2>2. \A e \in Echoes : co'[e] = Awaits("recv", fd[recvSocket(e)])
    BY <1>2, NamesFacts, Zenon
  <2>3. Rests("wait") \in CoType /\ Rests("wait").at = "wait" /\ Rests("wait").phase = "none"
    BY <1>8, RestsFacts, Zenon
  <2>4. \A e \in Echoes : /\ co'[e] \in CoType /\ co'[e].at = "recv"
                          /\ co'[e].phase = "queued" /\ co'[e].num = fd[recvSocket(e)]
    <3>1. ASSUME NEW n \in Numbers \cup {-1}
          PROVE  /\ Awaits("recv", n) \in CoType /\ Awaits("recv", n).at = "recv"
                 /\ Awaits("recv", n).phase = "queued" /\ Awaits("recv", n).num = n
      BY <1>8, AwaitsFacts
    <3>2. SUFFICES ASSUME NEW e \in Echoes
                   PROVE  /\ co'[e] \in CoType /\ co'[e].at = "recv"
                          /\ co'[e].phase = "queued" /\ co'[e].num = fd[recvSocket(e)]
      OBVIOUS
    <3>3. PICK n \in Numbers \cup {-1} : n = fd[recvSocket(e)]
      BY <1>7, Zenon
    <3>4. co'[e] = Awaits("recv", n)
      BY <2>2, <3>3, Zenon
    <3>5. QED
      BY <3>1, <3>3, <3>4, Zenon
  <2>5. \A c \in Coros : co'[c] \in CoType
    BY <2>1, <2>3, <2>4, NamesFacts, Zenon
  <2>6. co' \in [Coros -> CoType]
    BY <1>2, <2>5, Zenon
  <2>7. QED
    BY <2>1, <2>3, <2>4, <2>6, Zenon
<1>10. \A c \in Coros : ~Closing(c)'
  BY <1>8, <1>9, NamesFacts, Zenon DEF Closing
<1>11. QueueIsExact'
  <2>1. 1 .. 2 = {1, 2}
    BY SMT
  <2>2. \A i, j \in 1 .. Len(sq') : sq'[i] = sq'[j] => i = j
    BY <1>6, <2>1, SMT
  <2>3. \A c \in Coros : InQueue(c)' <=> c \in Echoes
    BY <1>6, <2>1, NamesFacts, Zenon DEF InQueue
  <2>4. \A c \in Coros : c \in Echoes <=> co'[c].phase = "queued"
    BY <1>9, NamesFacts, SMT
  <2>5. QED
    BY <2>2, <2>3, <2>4, Zenon DEF QueueIsExact
<1>12. HeldOnce' /\ HeldIsOpen' /\ OpenIsHeld'
  BY <1>1, <1>2, <1>5, <1>10, Zenon DEF HeldOnce, HeldIsOpen, OpenIsHeld
<1>13. QueuedIsHeld'
  <2>1. ASSUME NEW c \in Coros, co'[c].phase = "queued"
        PROVE  \E s \in Sockets : fd'[s] = co'[c].num
    <3>1. c \in Echoes
      BY <1>9, <2>1, NamesFacts, SMT
    <3>2. QED
      BY <1>2, <1>9, <3>1, NamesFacts, Zenon
  <2>2. QED
    BY <2>1, Zenon DEF QueuedIsHeld
<1>14. PointsFit'
  <2>1. \A c \in Coros : co'[c].phase = "none" <=> co'[c].at \in {"none", "wait", "done"}
    BY <1>9, NamesFacts, SMT
  <2>2. \A e \in Echoes : co'[e].at \in EchoPoints /\ co'[e].at # "none" /\ co'[e].at # "done"
    BY <1>8, <1>9, SMT
  <2>3. \E e \in Echoes : co'[e].at # "done"
    BY <2>2, NamesFacts, Zenon
  <2>4. QED
    BY <1>8, <1>9, <2>1, <2>2, <2>3, SMT DEF PointsFit
<1>15. ReleasedAreEmpty'
  BY <1>9, SMT DEF ReleasedAreEmpty
<1>16. TypesFit'
  BY <1>1, <1>2, <1>6, <1>9, Zenon DEF TypesFit, CoType
<1>17. OwedIsLeft'
  <2>1. SUFFICES ASSUME NEW e \in Echoes PROVE OwedFits(e)'
    BY Zenon DEF OwedIsLeft
  <2>2. owed'[e] = 0
    BY <1>1, <1>2, <1>3, Zenon DEF OwedIsLeft, OwedFits
  <2>3. QED
    BY <1>9, <2>2, SMT DEF OwedFits
<1>18. QED
  BY <1>11, <1>12, <1>13, <1>14, <1>15, <1>16, <1>17, Zenon DEF ConnInv

(* A client is accepted: its two numbers are fresh, and the last client    *)
(* has left no socket open.                                                *)
LEMMA AcceptKeeps ==
  ASSUME ConnInv, NEW n \in Numbers, NEW u \in Numbers \cup {-1}, Accept(n, u)
  PROVE  ConnInv'
<1>1. TypesFit /\ PointsFit /\ ReleasedAreEmpty
  BY DEF ConnInv
<1>2. /\ co["handler"].at \in {"none", "done"}
      /\ table[n] = "none" /\ (u = -1 \/ (u # n /\ u \in Numbers /\ table[u] = "none"))
      /\ table' = [m \in Numbers |-> IF m = n THEN "client" ELSE
                                      IF m = u THEN "upstream" ELSE table[m]]
      /\ fd' = [client |-> n, upstream |-> u]
      /\ shut' = {}
      /\ left' = [e \in Echoes |-> 0] /\ owed' = [e \in Echoes |-> 0]
      /\ co' = [c \in Coros |-> IF c = "handler" THEN Awaits("connect", u) ELSE Rests("none")]
      /\ sq' = <<"handler">>
  BY Zenon DEF Accept, Free, createSocket, Starts
<1>3. \A c \in Coros : co[c].phase = "none"
  <2>1. \A e \in Echoes : co[e].at \in {"none", "done"}
    BY <1>1, <1>2, Zenon DEF PointsFit
  <2>2. QED
    BY <1>1, <1>2, <2>1, NamesFacts, Zenon DEF PointsFit
<1>4. \A m \in Numbers : table[m] \notin Sockets
  <2>1. \A c \in Coros : co[c].phase \notin {"queued", "kernel"}
    BY <1>3, SMT
  <2>2. \A s \in Sockets : fd[s] = -1
    BY <1>1, <1>2, Zenon DEF ReleasedAreEmpty
  <2>3. QED
    BY <2>1, <2>2, NothingOnTheWay, NumberFacts, Zenon
<1>5. /\ fd'["client"] = n /\ fd'["upstream"] = u
      /\ fd' \in [Sockets -> Numbers \cup {-1}]
  BY <1>2, SMT DEF Sockets
<1>6. /\ table' \in [Numbers -> Files] /\ table'[n] = "client"
      /\ u # -1 => table'[u] = "upstream"
      /\ \A m \in Numbers : m # n /\ m # u => table'[m] = table[m]
  <2>1. table \in [Numbers -> Files] /\ "client" \in Files /\ "upstream" \in Files
    BY <1>1, NamesFacts, Zenon DEF TypesFit, Files
  <2>2. QED
    BY <1>2, <2>1, Zenon
<1>7. sq' \in Seq(Coros) /\ Len(sq') = 1 /\ sq'[1] = "handler"
  BY <1>2, SMT DEF Coros
<1>8. /\ "connect" \in Points /\ "none" \in Points /\ "connect" \notin ClosePoints
      /\ "none" \notin ClosePoints /\ "connect" \in HandlerPoints /\ "none" \in EchoPoints
  BY SMT DEF Points, ClosePoints, HandlerPoints, EchoPoints
<1>9. /\ co' \in [Coros -> CoType]
      /\ co'["handler"].at = "connect" /\ co'["handler"].phase = "queued"
      /\ co'["handler"].num = u
      /\ \A e \in Echoes : co'[e].at = "none" /\ co'[e].phase = "none"
  <2>1. co'["handler"] = Awaits("connect", u)
    BY <1>2, NamesFacts, Zenon
  <2>2. \A e \in Echoes : co'[e] = Rests("none")
    BY <1>2, NamesFacts, Zenon
  <2>3. Rests("none") \in CoType /\ Rests("none").at = "none" /\ Rests("none").phase = "none"
    BY <1>8, RestsFacts, Zenon
  <2>4. /\ Awaits("connect", u) \in CoType /\ Awaits("connect", u).at = "connect"
        /\ Awaits("connect", u).phase = "queued" /\ Awaits("connect", u).num = u
    BY <1>8, AwaitsFacts
  <2>5. \A c \in Coros : co'[c] \in CoType
    BY <2>1, <2>2, <2>3, <2>4, NamesFacts, Zenon
  <2>6. co' \in [Coros -> CoType]
    BY <1>2, <2>5, Zenon
  <2>7. QED
    BY <2>1, <2>2, <2>3, <2>4, <2>6, Zenon
<1>10. \A c \in Coros : ~Closing(c)'
  BY <1>8, <1>9, NamesFacts, Zenon DEF Closing
<1>11. QueueIsExact'
  <2>1. 1 .. 1 = {1}
    BY SMT
  <2>2. \A i, j \in 1 .. Len(sq') : sq'[i] = sq'[j] => i = j
    BY <1>7, <2>1, SMT
  <2>3. \A c \in Coros : InQueue(c)' <=> c = "handler"
    BY <1>7, <2>1, Zenon DEF InQueue
  <2>4. \A c \in Coros : c = "handler" <=> co'[c].phase = "queued"
    BY <1>9, NamesFacts, SMT
  <2>5. QED
    BY <2>2, <2>3, <2>4, Zenon DEF QueueIsExact
<1>12. HeldOnce'
  BY <1>2, <1>5, <1>10, NumberFacts, Zenon DEF HeldOnce
<1>13. HeldIsOpen'
  <2>1. \A s \in Sockets : fd'[s] = n \/ fd'[s] = u
    BY <1>5, NamesFacts, Zenon
  <2>2. table'[n] \in Sockets /\ (u # -1 => table'[u] \in Sockets)
    BY <1>6, NamesFacts, Zenon
  <2>3. QED
    BY <1>10, <2>1, <2>2, Zenon DEF HeldIsOpen
<1>14. OpenIsHeld'
  BY <1>4, <1>5, <1>6, NamesFacts, Zenon DEF OpenIsHeld
<1>15. QueuedIsHeld'
  <2>1. ASSUME NEW c \in Coros, co'[c].phase = "queued"
        PROVE  \E s \in Sockets : fd'[s] = co'[c].num
    <3>1. c = "handler"
      BY <1>9, <2>1, NamesFacts, SMT
    <3>2. QED
      BY <1>5, <1>9, <3>1, NamesFacts, Zenon
  <2>2. QED
    BY <2>1, Zenon DEF QueuedIsHeld
<1>16. PointsFit'
  <2>1. \A c \in Coros : co'[c].phase = "none" <=> co'[c].at \in {"none", "wait", "done"}
    BY <1>9, NamesFacts, SMT
  <2>2. \A e \in Echoes : co'[e].at \in EchoPoints
    BY <1>8, <1>9, Zenon
  <2>3. QED
    BY <1>8, <1>9, <2>1, <2>2, SMT DEF PointsFit
<1>17. ReleasedAreEmpty'
  BY <1>9, SMT DEF ReleasedAreEmpty
<1>18. TypesFit'
  <2>1. left' \in [Echoes -> 0 .. MaxBytes] /\ owed' \in [Echoes -> 0 .. MaxBytes]
    BY <1>2, NumberFacts, Zenon
  <2>2. shut' \subseteq Sockets
    BY <1>2, Zenon
  <2>3. QED
    BY <1>5, <1>6, <1>7, <1>9, <2>1, <2>2, Zenon DEF TypesFit, CoType
<1>19. OwedIsLeft'
  <2>1. SUFFICES ASSUME NEW e \in Echoes PROVE OwedFits(e)'
    BY Zenon DEF OwedIsLeft
  <2>2. owed'[e] = 0
    BY <1>2, Zenon
  <2>3. QED
    BY <1>9, <2>2, SMT DEF OwedFits
<1>20. QED
  BY <1>11, <1>12, <1>13, <1>14, <1>15, <1>16, <1>17, <1>18, <1>19, Zenon DEF ConnInv

LEMMA InitEstablishes ==
  ASSUME Init
  PROVE  IInv
<1>1. /\ table = [n \in Numbers |-> "none"] /\ shut = {} /\ fd = [s \in Sockets |-> -1]
      /\ co = [c \in Coros |-> Rests("none")] /\ sq = <<>>
      /\ left = [e \in Echoes |-> 0] /\ owed = [e \in Echoes |-> 0]
      /\ pending = 0
  BY Zenon DEF Init
<1>2. "none" \in Points /\ "none" \in HandlerPoints /\ "none" \in EchoPoints
      /\ "none" \notin Sockets /\ "none" \in Files
  BY SMT DEF Points, HandlerPoints, EchoPoints, Sockets, Files
<1>3. /\ co \in [Coros -> CoType]
      /\ \A c \in Coros : co[c].at = "none" /\ co[c].phase = "none"
  BY <1>1, <1>2, RestsFacts, Zenon
<1>4. sq \in Seq(Coros) /\ \A i \in 1 .. Len(sq) : FALSE
  BY <1>1, SMT
<1>5. \A c \in Coros : ~Closing(c) /\ ~InQueue(c) /\ co[c].phase # "queued"
  <2>1. "none" \notin {"queued", "kernel"} /\ "none" # "queued"
    BY SMT
  <2>2. QED
    BY <1>3, <1>4, <2>1, Zenon DEF Closing, InQueue
<1>6. TypesFit
  BY <1>1, <1>2, <1>3, <1>4, NumberFacts, Zenon DEF TypesFit, CoType
<1>7. \A e \in Echoes : co[e].at = "none" /\ owed[e] = 0
  BY <1>1, <1>3, NamesFacts, Zenon
<1>8. PointsFit
  <2>1. co["handler"].at = "none"
    BY <1>3, NamesFacts, Zenon
  <2>2. QED
    BY <1>2, <1>3, <1>7, <2>1, SMT DEF PointsFit
<1>9. QueueIsExact
  BY <1>4, <1>5, Zenon DEF QueueIsExact
<1>10. \A s \in Sockets : fd[s] = -1
  BY <1>1, Zenon
<1>11. ReleasedAreEmpty
  BY <1>10, NamesFacts, Zenon DEF ReleasedAreEmpty
<1>12. HeldOnce /\ HeldIsOpen /\ OpenIsHeld
  BY <1>1, <1>2, <1>5, <1>10, NamesFacts, Zenon DEF HeldOnce, HeldIsOpen, OpenIsHeld
<1>13. QueuedIsHeld
  BY <1>5, Zenon DEF QueuedIsHeld
<1>14. OwedIsLeft
  BY <1>7, SMT DEF OwedIsLeft, OwedFits
<1>15. PendingFits
  <2>1. co["handler"].at = "none" /\ "none" # "wait"
    BY <1>3, NamesFacts, Zenon
  <2>2. QED
    BY <1>1, <2>1, Zenon DEF PendingFits
<1>16. QED
  BY <1>6, <1>8, <1>9, <1>11, <1>12, <1>13, <1>14, <1>15, Zenon DEF IInv, ConnInv

LEMMA NextKeepsConn ==
  ASSUME IInv, [Next]_vars
  PROVE  ConnInv'
<1>0. ConnInv
  BY DEF IInv
<1>1. CASE \E n \in Numbers, u \in Numbers \cup {-1} : Accept(n, u)
  BY <1>0, <1>1, AcceptKeeps, Zenon
<1>2. CASE handleClient
  BY <1>0, <1>2, HandlerCloses, ReturnKeeps, ConnectedKeeps, Zenon DEF handleClient
<1>3. CASE \E e \in Echoes : echo(e)
  BY <1>0, <1>3, ReceivedKeeps, SentKeeps, EndingKeeps, EchoEndsKeeps, Zenon DEF echo
<1>4. CASE \E e \in Echoes : PeerActs(e)
  BY <1>0, <1>4, ReceivesKeeps, SendsKeeps, Zenon DEF PeerActs
<1>5. CASE Take
  BY <1>0, <1>5, TakeKeeps
<1>6. CASE \E c \in Coros : KernelEnds(c)
  BY <1>0, <1>6, ClosesKeeps, ConnectsKeeps, ShutsKeeps, ReceivesKeeps, SendsKeeps, Zenon
     DEF KernelEnds
<1>7. CASE \E n \in Numbers : OtherOpens(n) \/ OtherCloses(n)
  BY <1>0, <1>7, OthersKeep, Zenon
<1>8. CASE UNCHANGED vars
  <2>1. /\ table' = table /\ shut' = shut /\ fd' = fd /\ co' = co /\ sq' = sq
        /\ left' = left /\ owed' = owed
    BY <1>8, Zenon DEF vars
  <2>2. \A c \in Coros : Closing(c)' <=> Closing(c)
    BY <2>1, Zenon DEF Closing
  <2>3. NumbersFit'
    BY <2>1, <2>2, <1>0, QuietKeeps, Zenon
  <2>4. TypesFit' /\ PointsFit' /\ ReleasedAreEmpty'
    BY <1>0, <2>1, Zenon DEF ConnInv, TypesFit, PointsFit, ReleasedAreEmpty
  <2>5. OwedIsLeft'
    BY <1>0, <2>1, OwedKept, Zenon DEF ConnInv, OwedIsLeft, OwedSame
  <2>6. QED
    BY <2>3, <2>4, <2>5, Zenon DEF ConnInv, NumbersFit
<1>9. QED
  BY <1>1, <1>2, <1>3, <1>4, <1>5, <1>6, <1>7, <1>8, Zenon DEF Next

(* Steps with which no echo ends and handleClient neither begins nor stops *)
(* to wait leave the count alone.                                          *)
Steady ==
  /\ co'["handler"].at = "wait" <=> co["handler"].at = "wait"
  /\ \A e \in Echoes : co'[e].at = "done" <=> co[e].at = "done"
  /\ pending' = pending

LEMMA SteadyKeepsCount ==
  ASSUME PendingFits, Steady
  PROVE  PendingFits'
<1>1. Unfinished("toUpstream")' = Unfinished("toUpstream")
  BY NamesFacts, Zenon DEF Steady, Unfinished
<1>2. Unfinished("toClient")' = Unfinished("toClient")
  BY NamesFacts, Zenon DEF Steady, Unfinished
<1>3. QED
  BY <1>1, <1>2, Zenon DEF PendingFits, Steady

LEMMA SuspendIsSteady ==
  ASSUME ConnInv, NEW c \in Coros, NEW p, NEW n, Suspend(c, p, n), pending' = pending,
         co[c].phase = "posted", p # "wait", p # "done"
  PROVE  Steady
<1>1. /\ co' = [co EXCEPT ![c] = Awaits(p, n)] /\ DOMAIN co = Coros
      /\ PointsFit
  BY Zenon DEF ConnInv, TypesFit, Suspend
<1>2. co'[c] = Awaits(p, n) /\ \A d \in Coros : d # c => co'[d] = co[d]
  BY <1>1, Zenon
<1>3. co'[c].at = p
  BY <1>2, SMT DEF Awaits
<1>4. co[c].at # "wait" /\ co[c].at # "done"
  BY <1>1, SMT DEF PointsFit
<1>5. QED
  BY <1>2, <1>3, <1>4, NamesFacts, Zenon DEF Steady

LEMMA HandlerKeepsCount ==
  ASSUME IInv, handleClient
  PROVE  PendingFits'
<1>1. /\ ConnInv /\ TypesFit /\ PendingFits /\ "handler" \in Coros
      /\ DOMAIN co = Coros
  BY NamesFacts, Zenon DEF IInv, ConnInv, TypesFit
<1>2. ASSUME ConnectFails \/ CloseUpstream PROVE Steady
  BY <1>1, <1>2, SuspendIsSteady, Zenon DEF ConnectFails, CloseUpstream, Resumed
<1>3. ASSUME Return PROVE Steady
  <2>1. /\ co["handler"].at = "closeUpstream" /\ pending' = pending
        /\ co' = [co EXCEPT !["handler"] = Rests("done")]
    BY <1>3, Zenon DEF Return, Resumed
  <2>2. co'["handler"] = Rests("done") /\ \A e \in Echoes : co'[e] = co[e]
    BY <1>1, <2>1, NamesFacts, Zenon
  <2>3. co'["handler"].at = "done"
    BY <2>2, SMT DEF Rests
  <2>4. QED
    BY <2>1, <2>2, <2>3, Zenon DEF Steady
<1>4. ASSUME Connected PROVE PendingFits'
  <2>1. /\ co'["handler"] = Rests("wait")
        /\ \A e \in Echoes : co'[e] = Awaits("recv", fd[recvSocket(e)])
    BY <1>4, NamesFacts, Zenon DEF Connected
  <2>2. co'["handler"].at = "wait" /\ \A e \in Echoes : co'[e].at = "recv"
    <3>1. Rests("wait").at = "wait" /\ \A n : Awaits("recv", n).at = "recv"
      BY SMT DEF Rests, Awaits
    <3>2. QED
      BY <2>1, <3>1, Zenon
  <2>3. Unfinished("toUpstream")' = 1 /\ Unfinished("toClient")' = 1
    BY <2>2, NamesFacts, Zenon DEF Unfinished
  <2>4. pending' = 2
    BY <1>4, SMT DEF Connected, startAwaitable
  <2>5. QED
    BY <2>2, <2>3, <2>4, SMT DEF PendingFits
<1>5. QED
  BY <1>1, <1>2, <1>3, <1>4, SteadyKeepsCount, Zenon DEF handleClient

(* An echo ends: the count goes down by one, and to zero with the last.    *)
LEMMA EchoEndsCounts ==
  ASSUME IInv, NEW e \in Echoes, EchoEnds(e)
  PROVE  PendingFits'
<1>1. /\ co[e].at = "closeSend" /\ pending' = pending - 1
      /\ \/ /\ pending' = 0
            /\ co' = [co EXCEPT ![e] = Rests("done"), !["handler"] = Rests("done")]
         \/ co' = [co EXCEPT ![e] = Rests("done")]
  BY Zenon DEF EchoEnds, Resumed
<1>2. /\ co["handler"].at = "wait"
      /\ pending = Unfinished("toUpstream") + Unfinished("toClient")
  BY <1>1, CountOfLast, Zenon DEF IInv, PendingFits
<1>3. DOMAIN co = Coros /\ e \in Coros /\ e # "handler" /\ "handler" \in Coros
  BY NamesFacts, Zenon DEF IInv, ConnInv, TypesFit
<1>4. /\ co'[e] = Rests("done")
      /\ \A f \in Echoes : f # e => co'[f] = co[f]
      /\ \/ pending' = 0 /\ co'["handler"] = Rests("done")
         \/ co'["handler"] = co["handler"]
  BY <1>1, <1>3, NamesFacts, Zenon
<1>5. Rests("done").at = "done"
  BY SMT DEF Rests
<1>6. /\ co'[e].at = "done"
      /\ \/ pending' = 0 /\ co'["handler"].at = "done"
         \/ co'["handler"].at = "wait"
  BY <1>2, <1>4, <1>5, Zenon
<1>7. /\ Unfinished(e) = 1 /\ Unfinished(e)' = 0
      /\ \A f \in Echoes : f # e => Unfinished(f)' = Unfinished(f)
      /\ \A f \in Echoes : Unfinished(f) \in {0, 1}
  BY <1>1, <1>4, <1>6, SMT DEF Unfinished
<1>8. pending' = Unfinished("toUpstream")' + Unfinished("toClient")'
  <2>1. CASE e = "toUpstream"
    BY <1>1, <1>2, <1>7, <2>1, NamesFacts, SMT
  <2>2. CASE e = "toClient"
    BY <1>1, <1>2, <1>7, <2>2, NamesFacts, SMT
  <2>3. QED
    BY <2>1, <2>2, NamesFacts, Zenon
<1>9. QED
  BY <1>6, <1>8, SMT DEF PendingFits

LEMMA EchoKeepsCount ==
  ASSUME IInv, NEW e \in Echoes, echo(e)
  PROVE  PendingFits'
<1>1. ConnInv /\ PendingFits /\ e \in Coros
  BY NamesFacts, Zenon DEF IInv
<1>2. ASSUME Received(e) \/ Sent(e) \/ LoopEnds(e) PROVE Steady
  BY <1>1, <1>2, SuspendIsSteady, Zenon DEF Received, Sent, LoopEnds, Resumed
<1>3. ASSUME CloseRecv(e) \/ ShutSend(e) \/ CloseSend(e) PROVE Steady
  BY <1>1, <1>3, SuspendIsSteady, Zenon DEF CloseRecv, ShutSend, CloseSend, Resumed
<1>4. QED
  BY <1>1, <1>2, <1>3, EchoEndsCounts, SteadyKeepsCount, Zenon DEF echo

LEMMA NextKeepsCount ==
  ASSUME IInv, [Next]_vars
  PROVE  PendingFits'
<1>1. ConnInv /\ PendingFits /\ TypesFit
  BY DEF IInv, ConnInv
<1>2. ASSUME NEW n, NEW u, Accept(n, u) PROVE PendingFits'
  <2>1. co'["handler"] = Awaits("connect", u) /\ pending' = 0
    BY <1>2, NamesFacts, Zenon DEF Accept, Starts
  <2>2. co'["handler"].at = "connect" /\ "connect" # "wait"
    BY <2>1, SMT DEF Awaits
  <2>3. QED
    BY <2>1, <2>2, Zenon DEF PendingFits
<1>3. ASSUME NEW c \in Coros, NEW res \in -1 .. MaxBytes, Post(c, res), pending' = pending
      PROVE  Steady
  BY <1>1, <1>3, PostFacts, NamesFacts, Zenon DEF Steady
<1>4. ASSUME Take PROVE Steady
  <2>1. pending' = pending
    BY <1>4 DEF Take
  <2>2. QED
    BY <1>1, <1>4, <2>1, TakeKeeps, NamesFacts, Zenon DEF Steady
<1>5. ASSUME NEW e \in Echoes, PeerActs(e) PROVE Steady
  BY <1>3, <1>5, NamesFacts, Zenon DEF PeerActs, Receives, Sends
<1>6. ASSUME NEW c \in Coros, KernelEnds(c) PROVE Steady
  BY <1>3, <1>6, NumberFacts, Zenon DEF KernelEnds, Closes, Connects, Shuts, Receives, Sends
<1>7. ASSUME NEW n, OtherOpens(n) \/ OtherCloses(n) PROVE Steady
  BY <1>7, Zenon DEF OtherOpens, OtherCloses, Steady
<1>8. ASSUME UNCHANGED vars PROVE Steady
  BY <1>8, Zenon DEF vars, Steady
<1>9. QED
  BY <1>1, <1>2, <1>4, <1>5, <1>6, <1>7, <1>8, HandlerKeepsCount, EchoKeepsCount,
     SteadyKeepsCount, Zenon DEF Next

(* The inductive invariant holds for any descriptor numbers and any number *)
(* of bytes.                                                               *)
THEOREM IInvHolds == Spec => []IInv
<1>1. Init => IInv
  BY InitEstablishes
<1>2. IInv /\ [Next]_vars => IInv'
  BY NextKeepsConn, NextKeepsCount DEF IInv
<1>3. QED
  BY <1>1, <1>2, PTL DEF Spec

(* No operation that the kernel is about to take, and no close, has a      *)
(* number that is no longer the connection's: the one that closes an Fd    *)
(* releases it first, so that nothing is issued behind the close.          *)
THEOREM OperationsHitOwnSockets == Spec => []DescriptorsAreOwn
<1>1. IInv => DescriptorsAreOwn
  <2>1. SUFFICES ASSUME IInv, NEW c \in Coros,
                        \/ co[c].phase = "queued"
                        \/ Does(c, ClosePoints),
                        co[c].num # -1
                 PROVE  table[co[c].num] \in Sockets
    <3>1. IInv => TypeOK
      <4>1. IInv => pending \in 0 .. 2
        BY SMT DEF IInv, PendingFits, Unfinished
      <4>2. QED
        BY <4>1, Zenon DEF IInv, ConnInv, TypesFit, TypeOK
    <3>2. QED
      BY <3>1, Zenon DEF DescriptorsAreOwn, ClosePoints
  <2>2. TypesFit /\ HeldIsOpen /\ QueuedIsHeld /\ QueueIsExact
    BY <2>1 DEF IInv, ConnInv
  <2>3. CASE Does(c, ClosePoints)
    <3>1. Closing(c)
      BY <2>3, Zenon DEF Does, Closing
    <3>2. QED
      BY <2>1, <2>2, <3>1, Zenon DEF HeldIsOpen
  <2>4. CASE co[c].phase = "queued"
    <3>1. CASE \E s \in Sockets : fd[s] = co[c].num
      BY <2>1, <2>2, <3>1, Zenon DEF HeldIsOpen
    <3>2. CASE ClosedLater(c, co[c].num)
      <4>1. PICK j \in 1 .. Len(sq) : co[sq[j]].at \in ClosePoints /\ co[sq[j]].num = co[c].num
        BY <3>2, Zenon DEF ClosedLater
      <4>2. sq[j] \in Coros /\ InQueue(sq[j])
        BY <2>2, <4>1, QueueFacts, Zenon DEF InQueue
      <4>3. co[sq[j]].phase = "queued"
        BY <2>2, <4>2, Zenon DEF QueueIsExact
      <4>4. Closing(sq[j])
        BY <4>1, <4>3, Zenon DEF Closing
      <4>5. QED
        BY <2>1, <2>2, <4>1, <4>2, <4>4, Zenon DEF HeldIsOpen
    <3>3. QED
      BY <2>1, <2>2, <2>4, <3>1, <3>2, Zenon DEF QueuedIsHeld
  <2>5. QED
    BY <2>1, <2>3, <2>4
<1>2. QED
  BY <1>1, IInvHolds, PTL

(* An echo calls recv again only when sendAll has sent everything.         *)
THEOREM EchoForwardsAll == Spec => []EverythingForwarded
<1>1. IInv => EverythingForwarded
  BY Zenon DEF IInv, ConnInv, OwedIsLeft, OwedFits, EverythingForwarded
<1>2. QED
  BY <1>1, IInvHolds, PTL

(* The frame of handleClient, with the Fds that the echoes refer to, goes  *)
(* with the last echo, not before it and not later: the count of WaitAll   *)
(* is the number of echoes that have not ended (PendingFits).              *)
THEOREM FrameGoesLast == Spec => []FrameOutlivesEchoes
<1>1. IInv => FrameOutlivesEchoes
  BY Zenon DEF IInv, ConnInv, PointsFit, FrameOutlivesEchoes
<1>2. QED
  BY <1>1, IInvHolds, PTL

(* With empty Fds and no close on the way, no socket is open.              *)
LEMMA EverythingClosed ==
  ASSUME ConnInv, \A s \in Sockets : fd[s] = -1, \A c \in Coros : ~Closing(c)
  PROVE  \A n \in Numbers : table[n] \notin Sockets
<1>1. OpenIsHeld
  BY DEF ConnInv
<1>2. QED
  BY <1>1, NumberFacts, Zenon DEF OpenIsHeld

(* The steps that end handleClient are Return and the end of the last      *)
(* echo.                                                                   *)
LEMMA EndOfHandler ==
  ASSUME ConnInv, [Next]_vars, co'["handler"].at = "done", co["handler"].at # "done"
  PROVE  Return \/ \E e \in Echoes : EchoEnds(e)
<1>1. TypesFit /\ "handler" \in Coros /\ DOMAIN co = Coros
  BY NamesFacts, Zenon DEF ConnInv, TypesFit
<1>2. ASSUME NEW c \in Coros, NEW p \in Points \ {"done"}, NEW n, Suspend(c, p, n) PROVE FALSE
  <2>1. co' = [co EXCEPT ![c] = Awaits(p, n)]
    BY <1>2, Zenon DEF Suspend
  <2>2. co'["handler"].at = co["handler"].at \/ co'["handler"] = Awaits(p, n)
    BY <1>1, <2>1, Zenon
  <2>3. Awaits(p, n).at = p
    BY SMT DEF Awaits
  <2>4. QED
    BY <1>2, <2>2, <2>3, Zenon
<1>3. ASSUME NEW c \in Coros, NEW res \in -1 .. MaxBytes, Post(c, res) PROVE FALSE
  BY <1>1, <1>3, PostFacts, Zenon
<1>4. /\ {"closeClient", "closeUpstream", "send", "recv", "shutRecv", "closeRecv",
           "shutSend", "closeSend"} \subseteq Points \ {"done"}
      /\ "wait" # "done" /\ "connect" # "done" /\ "connect" \in Points
  BY SMT DEF Points
<1>5. ASSUME NEW n, NEW u, Accept(n, u) PROVE FALSE
  <2>1. co'["handler"] = Awaits("connect", u)
    BY <1>1, <1>5, Zenon DEF Accept, Starts
  <2>2. Awaits("connect", u).at = "connect"
    BY SMT DEF Awaits
  <2>3. QED
    BY <1>4, <2>1, <2>2, Zenon
<1>6. ASSUME handleClient PROVE Return
  <2>1. ASSUME Connected PROVE FALSE
    <3>1. co'["handler"] = Rests("wait")
      BY <1>1, <2>1, Zenon DEF Connected
    <3>2. Rests("wait").at = "wait"
      BY SMT DEF Rests
    <3>3. QED
      BY <1>4, <3>1, <3>2, Zenon
  <2>2. QED
    BY <1>1, <1>2, <1>4, <1>6, <2>1, Zenon DEF handleClient, ConnectFails, CloseUpstream
<1>7. ASSUME NEW e \in Echoes, echo(e) PROVE EchoEnds(e)
  <2>1. e \in Coros
    BY NamesFacts, Zenon
  <2>2. QED
    BY <1>2, <1>4, <1>7, <2>1, Zenon DEF echo, Received, Sent, LoopEnds, CloseRecv,
                                         ShutSend, CloseSend
<1>8. \A e \in Echoes : ~PeerActs(e)
  BY <1>3, NamesFacts, Zenon DEF PeerActs, Receives, Sends
<1>9. ~Take
  BY <1>1, TakeKeeps, Zenon
<1>10. \A c \in Coros : ~KernelEnds(c)
  BY <1>3, NumberFacts, Zenon DEF KernelEnds, Closes, Connects, Shuts, Receives, Sends
<1>11. \A n : ~OtherOpens(n) /\ ~OtherCloses(n)
  BY Zenon DEF OtherOpens, OtherCloses
<1>12. ~UNCHANGED vars
  BY Zenon DEF vars
<1>13. QED
  BY <1>5, <1>6, <1>7, <1>8, <1>9, <1>10, <1>11, <1>12, Zenon DEF Next

(* Whenever the frame of handleClient goes, both Fds are empty, so that no *)
(* destructor closes synchronously, and both sockets have been closed.     *)
THEOREM SocketsClosedFirst == Spec => ClosedBeforeEnd
<1>1. IInv /\ [Next]_vars =>
        (co'["handler"].at = "done" /\ co["handler"].at # "done" =>
           /\ \A s \in Sockets : fd[s] = -1
           /\ \A n \in Numbers : table[n] \notin Sockets)
  <2>1. SUFFICES ASSUME IInv, [Next]_vars, co'["handler"].at = "done",
                        co["handler"].at # "done"
                 PROVE  /\ \A s \in Sockets : fd[s] = -1
                        /\ \A c \in Coros : ~Closing(c)
    BY EverythingClosed, Zenon DEF IInv
  <2>2. Return \/ \E e \in Echoes : EchoEnds(e)
    BY <2>1, EndOfHandler DEF IInv
  <2>3. QED
    BY <2>1, <2>2, ReturnKeeps, EchoEndsKeeps, Zenon DEF IInv
<1>2. QED
  BY <1>1, IInvHolds, PTL DEF Spec, ClosedBeforeEnd
=============================================================================
