------------------------------- MODULE Proxy --------------------------------
(***************************************************************************)
(* The TCP proxy (src/examples/proxy-coro.cpp) over Fd, Task, WaitAll and  *)
(* the operations of IoQueue: for every client a coroutine connects to the *)
(* upstream and runs two echoes, one for each direction, which share the   *)
(* Fds of both sockets (src/src/fd.cpp).                                   *)
(*                                                                         *)
(* An operation has the descriptor number that its Fd held when it was     *)
(* issued.  The kernel takes operations in the order they were issued and  *)
(* looks the number up then; close() frees the number, which other         *)
(* connections of the process reuse.  A coroutine goes on some time after  *)
(* its operation has ended.  One client is followed at a time; the others  *)
(* are the "other" files of the table.                                     *)
(*                                                                         *)
(* Of WaitAll (src/include/aiopp/wait.hpp) the count that decides who      *)
(* resumes handleClient is part of this model; module Wait has the whole   *)
(* of it.  The stack slot of the lambda's closure that wait.hpp:45 reads   *)
(* (Wait!ClosureAlive) is taken to still hold its value.  An operation     *)
(* that a full submission queue refuses aborts the program                 *)
(* (ioqueue.hpp:98); only executions without that are followed.            *)
(***************************************************************************)
EXTENDS Integers, Sequences

CONSTANTS
  Numbers,    \* descriptor numbers
  MaxBytes    \* bound: bytes that one recv() yields

ASSUME ProxyAssumption == Numbers \subseteq Nat /\ MaxBytes \in Nat \ {0}

VARIABLES
  table,   \* the file of each descriptor number
  shut,    \* sockets that have been shut down
  fd,      \* Fd::fd_ of clientSocket and upstreamSocket
  co,      \* each coroutine: where it is, and the operation it awaits
  sq,      \* coroutines whose operation is queued, in order
  left,    \* buffer.size() - offset in sendAll, for each echo
  owed,    \* history: bytes that each echo has received and not sent
  pending  \* WaitAll::pending_ of the WaitAll that handleClient awaits

vars == <<table, shut, fd, co, sq, left, owed, pending>>

Sockets == {"client", "upstream"}
Echoes == {"toUpstream", "toClient"}
recvSocket(e) == IF e = "toUpstream" THEN "client" ELSE "upstream"
sendSocket(e) == IF e = "toUpstream" THEN "upstream" ELSE "client"
Coros == {"handler"} \cup Echoes

Free == {n \in Numbers : table[n] = "none"}
FileOf(n) == IF n \in Numbers THEN table[n] ELSE "none"

(* A coroutine that awaits an operation on number n; one that awaits none. *)
(* The result -1 is an error, 0 the end of a connection.                   *)
Awaits(point, n) ==
  [at |-> point, phase |-> "queued", num |-> n, file |-> "none", res |-> 0]

Rests(point) ==
  [at |-> point, phase |-> "none", num |-> -1, file |-> "none", res |-> 0]

(* co_await of an operation on the number that an Fd converts to.          *)
Suspend(c, point, n) ==
  /\ co' = [co EXCEPT ![c] = Awaits(point, n)]
  /\ sq' = Append(sq, c)

Resumed(c, point) == co[c].phase = "posted" /\ co[c].at = point

(* Fd::release; the faulty one keeps the number.                           *)
releaseKeeps(s) == fd

release(s) == [fd EXCEPT ![s] = -1]

(* ~Fd of both sockets, when the frame of handleClient goes.               *)
destructors ==
  /\ table' = [n \in Numbers |->
                 IF \E s \in Sockets : fd[s] = n THEN "none" ELSE table[n]]
  /\ fd' = [s \in Sockets |-> -1]
-----------------------------------------------------------------------------
(* createSocket: the Fd of a new socket, or -1.                            *)
createSocket(n) == (Free \ {n}) \cup {-1}

(* handleClient starts: it connects socket u, with a timeout.              *)
Starts(u) ==
  /\ co' = [c \in Coros |->
              IF c = "handler" THEN Awaits("connect", u) ELSE Rests("none")]
  /\ sq' = <<"handler">>

(* serve() has accepted a client: handleClient is called.  A failed accept *)
(* is logged and tried again, which changes nothing here.                  *)
Accept(n, u) ==
  /\ co["handler"].at \in {"none", "done"}
  /\ n \in Free /\ u \in createSocket(n)
  /\ table' = [m \in Numbers |-> IF m = n THEN "client" ELSE
                                  IF m = u THEN "upstream" ELSE table[m]]
  /\ fd' = [client |-> n, upstream |-> u]
  /\ shut' = {}
  /\ left' = [e \in Echoes |-> 0] /\ owed' = [e \in Echoes |-> 0]
  /\ pending' = 0
  /\ Starts(u)

(* connect failed or timed out: both sockets are closed.                   *)
ConnectFails ==
  /\ Resumed("handler", "connect") /\ co["handler"].res < 0
  /\ Suspend("handler", "closeClient", fd["client"])
  /\ fd' = release("client")
  /\ UNCHANGED <<table, shut, left, owed, pending>>

(* Fault: the second close is forgotten.                                   *)
CloseUpstreamForgotten ==
  /\ Resumed("handler", "closeClient")
  /\ co' = [co EXCEPT !["handler"] = Rests("done")]
  /\ destructors
  /\ UNCHANGED <<shut, sq, left, owed, pending>>

CloseUpstream ==
  /\ Resumed("handler", "closeClient")
  /\ Suspend("handler", "closeUpstream", fd["upstream"])
  /\ fd' = release("upstream")
  /\ UNCHANGED <<table, shut, left, owed, pending>>

Return ==
  /\ Resumed("handler", "closeUpstream")
  /\ co' = [co EXCEPT !["handler"] = Rests("done")]
  /\ destructors
  /\ UNCHANGED <<shut, sq, left, owed, pending>>

(* WaitAll::startAwaitable; the faulty one counts no second awaitable.     *)
startAwaitableOnce(count) == 1

startAwaitable(count) == count + 1

(* Connected: a WaitAll starts both echoes, each up to its first recv, and *)
(* is awaited: it is not ready, as both are pending.                       *)
Connected ==
  /\ Resumed("handler", "connect") /\ co["handler"].res >= 0
  /\ co' = [c \in Coros |->
              IF c = "handler" THEN Rests("wait")
              ELSE Awaits("recv", fd[recvSocket(c)])]
  /\ sq' = sq \o <<"toUpstream", "toClient">>
  /\ pending' = startAwaitable(startAwaitable(0))
  /\ UNCHANGED <<table, shut, fd, left, owed>>
-----------------------------------------------------------------------------
(* echo: recv has yielded data, which sendAll sends.                       *)
Received(e) ==
  /\ Resumed(e, "recv") /\ co[e].res > 0
  /\ left' = [left EXCEPT ![e] = co[e].res]
  /\ Suspend(e, "send", fd[sendSocket(e)])
  /\ UNCHANGED <<table, shut, fd, owed, pending>>

(* while (offset < buffer.size()); the faulty sendAll sends once.          *)
sendsOnce(e) == FALSE

sendsMore(e) == left'[e] > 0

Sent(e) ==
  /\ Resumed(e, "send") /\ co[e].res > 0
  /\ left' = [left EXCEPT ![e] = @ - co[e].res]
  /\ IF sendsMore(e) THEN Suspend(e, "send", fd[sendSocket(e)])
                     ELSE Suspend(e, "recv", fd[recvSocket(e)])
  /\ UNCHANGED <<table, shut, fd, owed, pending>>

(* The connection was closed, or recv or send failed: the loop ends.       *)
LoopEnds(e) ==
  /\ \/ Resumed(e, "recv") /\ co[e].res <= 0
     \/ Resumed(e, "send") /\ co[e].res < 0
  /\ Suspend(e, "shutRecv", fd[recvSocket(e)])
  /\ UNCHANGED <<table, shut, fd, left, owed, pending>>

CloseRecv(e) ==
  /\ Resumed(e, "shutRecv")
  /\ Suspend(e, "closeRecv", fd[recvSocket(e)])
  /\ fd' = release(recvSocket(e))
  /\ UNCHANGED <<table, shut, left, owed, pending>>

(* Fault: the second socket is closed without shutdown.                    *)
ShutForgotten(e) ==
  /\ Resumed(e, "closeRecv")
  /\ Suspend(e, "closeSend", fd[sendSocket(e)])
  /\ fd' = release(sendSocket(e))
  /\ UNCHANGED <<table, shut, left, owed, pending>>

ShutSend(e) ==
  /\ Resumed(e, "closeRecv")
  /\ Suspend(e, "shutSend", fd[sendSocket(e)])
  /\ UNCHANGED <<table, shut, fd, left, owed, pending>>

CloseSend(e) ==
  /\ Resumed(e, "shutSend")
  /\ Suspend(e, "closeSend", fd[sendSocket(e)])
  /\ fd' = release(sendSocket(e))
  /\ UNCHANGED <<table, shut, left, owed, pending>>

(* WaitAll::awaitableCompleted: handleClient is resumed, and ends, when no *)
(* echo is pending any more.                                               *)
EchoEnds(e) ==
  /\ Resumed(e, "closeSend")
  /\ pending' = pending - 1
  /\ IF pending' = 0
     THEN /\ co' = [co EXCEPT ![e] = Rests("done"), !["handler"] = Rests("done")]
          /\ destructors
     ELSE /\ co' = [co EXCEPT ![e] = Rests("done")]
          /\ UNCHANGED <<table, fd>>
  /\ UNCHANGED <<shut, sq, left, owed>>
-----------------------------------------------------------------------------
(* The kernel takes the next operation and looks up its descriptor.        *)
Take ==
  /\ sq # <<>>
  /\ LET c == Head(sq)
     IN  co' = [co EXCEPT ![c].phase = "kernel", ![c].file = FileOf(co[c].num)]
  /\ sq' = Tail(sq)
  /\ UNCHANGED <<table, shut, fd, left, owed, pending>>

Does(c, points) == co[c].phase = "kernel" /\ co[c].at \in points

Post(c, res) == co' = [co EXCEPT ![c].phase = "posted", ![c].res = res]

(* connect, recv and send: on a socket, or EBADF.  A socket that was shut  *)
(* down still yields what it has buffered.                                 *)
Connects(res) ==
  /\ Does("handler", {"connect"})
  /\ co["handler"].file = "none" => res < 0
  /\ Post("handler", res)
  /\ UNCHANGED <<table, shut, fd, sq, left, owed, pending>>

Receives(e, res) ==
  /\ Does(e, {"recv"})
  /\ co[e].file = "none" => res < 0
  /\ Post(e, res)
  /\ owed' = IF res > 0 THEN [owed EXCEPT ![e] = @ + res] ELSE owed
  /\ UNCHANGED <<table, shut, fd, sq, left, pending>>

Sends(e, res) ==
  /\ Does(e, {"send"})
  /\ res # 0 /\ res <= left[e]
  /\ co[e].file \in shut \cup {"none"} => res < 0
  /\ Post(e, res)
  /\ owed' = IF res > 0 THEN [owed EXCEPT ![e] = @ - res] ELSE owed
  /\ UNCHANGED <<table, shut, fd, sq, left, pending>>

Shuts(e) ==
  /\ Does(e, {"shutRecv", "shutSend"})
  /\ shut' = shut \cup ({co[e].file} \cap Sockets)
  /\ Post(e, 0)
  /\ UNCHANGED <<table, fd, sq, left, owed, pending>>

Closes(c) ==
  /\ Does(c, {"closeRecv", "closeSend", "closeClient", "closeUpstream"})
  /\ table' = [n \in Numbers |-> IF n = co[c].num THEN "none" ELSE table[n]]
  /\ Post(c, 0)
  /\ UNCHANGED <<shut, fd, sq, left, owed, pending>>

(* Other connections of the process open and close descriptors.            *)
OtherOpens(n) ==
  /\ n \in Free
  /\ table' = [table EXCEPT ![n] = "other"]
  /\ UNCHANGED <<shut, fd, co, sq, left, owed, pending>>

OtherCloses(n) ==
  /\ table[n] = "other"
  /\ table' = [table EXCEPT ![n] = "none"]
  /\ UNCHANGED <<shut, fd, co, sq, left, owed, pending>>
-----------------------------------------------------------------------------
Init ==
  /\ table = [n \in Numbers |-> "none"]
  /\ shut = {}
  /\ fd = [s \in Sockets |-> -1]
  /\ co = [c \in Coros |-> Rests("none")]
  /\ sq = <<>>
  /\ left = [e \in Echoes |-> 0] /\ owed = [e \in Echoes |-> 0]
  /\ pending = 0

handleClient == ConnectFails \/ CloseUpstream \/ Return \/ Connected

echo(e) ==
  \/ Received(e) \/ Sent(e) \/ LoopEnds(e)
  \/ CloseRecv(e) \/ ShutSend(e) \/ CloseSend(e) \/ EchoEnds(e)

(* What the kernel ends by itself: connect has a timeout, and operations   *)
(* on a bad descriptor or a socket that has been shut down do not block.   *)
(* The rest is up to the peers.                                            *)
KernelEnds(c) ==
  \/ Closes(c)
  \/ c = "handler" /\ \E res \in {-1, 0} : Connects(res)
  \/ /\ c \in Echoes
     /\ \/ Shuts(c)
        \/ /\ co[c].file \in shut \cup {"none"}
           /\ \E res \in -1 .. MaxBytes : Receives(c, res) \/ Sends(c, res)

PeerActs(e) ==
  /\ co[e].file \notin shut \cup {"none"}
  /\ \E res \in -1 .. MaxBytes : Receives(e, res) \/ Sends(e, res)

Next ==
  \/ \E n \in Numbers, u \in Numbers \cup {-1} : Accept(n, u)
  \/ handleClient
  \/ \E e \in Echoes : echo(e) \/ PeerActs(e)
  \/ Take
  \/ \E c \in Coros : KernelEnds(c)
  \/ \E n \in Numbers : OtherOpens(n) \/ OtherCloses(n)

(* The loop dispatches completions (IoQueue!CompletionIsDelivered) and the *)
(* kernel ends what it must end.  Peers need not send, read or close.      *)
Spec ==
  /\ Init /\ [][Next]_vars
  /\ WF_vars(handleClient) /\ \A e \in Echoes : WF_vars(echo(e))
  /\ WF_vars(Take) /\ \A c \in Coros : WF_vars(KernelEnds(c))
-----------------------------------------------------------------------------
Points == {"none", "connect", "wait", "recv", "send", "shutRecv", "closeRecv",
           "shutSend", "closeSend", "closeClient", "closeUpstream", "done"}
Files == {"none", "other"} \cup Sockets

(* The types; an echo never has more than one buffer in flight.            *)
TypeOK ==
  /\ table \in [Numbers -> Files]
  /\ shut \subseteq Sockets
  /\ fd \in [Sockets -> Numbers \cup {-1}]
  /\ co \in [Coros -> [at : Points, phase : {"none", "queued", "kernel", "posted"},
                       num : Numbers \cup {-1}, file : Files, res : -1 .. MaxBytes]]
  /\ sq \in Seq(Coros)
  /\ left \in [Echoes -> 0 .. MaxBytes]
  /\ owed \in [Echoes -> 0 .. MaxBytes]
  /\ pending \in 0 .. 2

(* No operation, and no close, hits a descriptor that is not (or no        *)
(* longer) one of the connection, although both echoes shut down and close *)
(* the same two Fds and the numbers are reused at once.                    *)
DescriptorsAreOwn ==
  /\ TypeOK
  /\ \A c \in Coros :
       co[c].phase = "queued" \/ Does(c, {"closeRecv", "closeSend", "closeClient",
                                         "closeUpstream"})
         => co[c].num = -1 \/ table[co[c].num] \in Sockets

(* An echo does not receive again before every byte was sent, also when    *)
(* send takes only a part of the buffer.                                   *)
EverythingForwarded ==
  \A e \in Echoes : co[e].at = "recv" /\ co[e].phase # "posted" => owed[e] = 0

(* handleClient "must outlive both echos, because they reference the       *)
(* sockets", and it does not stay behind either: in whatever order they    *)
(* end, the count of WaitAll reaches zero with the last echo.              *)
FrameOutlivesEchoes ==
  /\ co["handler"].at = "done" => \A e \in Echoes : co[e].at \in {"none", "done"}
  /\ co["handler"].at = "wait" => \E e \in Echoes : co[e].at # "done"

(* When the frame of handleClient goes, the Fds are empty, so that no      *)
(* destructor closes synchronously and holds up the event loop, and        *)
(* neither socket is left open.                                            *)
ClosedBeforeEnd ==
  [][co'["handler"].at = "done" /\ co["handler"].at # "done" =>
       /\ \A s \in Sockets : fd[s] = -1
       /\ \A n \in Numbers : table[n] \notin Sockets]_vars

(* The shutdown "wakes up the other echo": as soon as one direction ends,  *)
(* the connection comes to its end, also if the peers stay silent.         *)
OneEndEndsBoth ==
  \A e \in Echoes : co[e].at = "shutRecv" ~> co["handler"].at = "done"
=============================================================================
