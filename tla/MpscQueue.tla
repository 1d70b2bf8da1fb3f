----------------------------- MODULE MpscQueue ------------------------------
(***************************************************************************)
(* MpscQueue: Vyukov's queue for several producers and one consumer        *)
(* (src/include/aiopp/mpscqueue.hpp).  One action per access to an atomic  *)
(* that another thread may write; what a thread does next to it, with      *)
(* memory only it can reach, belongs to the same action.  All atomics are  *)
(* sequentially consistent.  Nodes are addresses, which are used again     *)
(* after delete.                                                           *)
(***************************************************************************)
EXTENDS Naturals, Sequences, FiniteSets

CONSTANTS
  Producers,  \* threads that call produce()
  Nodes,      \* addresses that new can return
  Stub,       \* the address of stub_
  Null,       \* the null pointer
  MaxValues   \* bound: number of calls of produce()

Values == 1 .. MaxValues
Nothing == 0

ASSUME NodeAssumption ==
  /\ Stub \notin Nodes /\ Null \notin Nodes /\ Stub # Null
  /\ MaxValues \in Nat

VARIABLES
  next,        \* Node::next
  value,       \* Node::value
  allocated,   \* nodes that are allocated
  consumeEnd,  \* consumeEnd_
  produceEnd,  \* produceEnd_
  produced,    \* number of values produced: the n-th call produces n
  pat,         \* control point of each producer
  pnode,       \* node of each producer
  pprev,       \* prev of each producer
  cat,         \* control point of the consumer
  cnode,       \* node of the consumer
  cprev,       \* prev of the consumer, when it produces stub_
  out,         \* what consume() returned last
  order,       \* history: nodes from consumeEnd_ on, in the order of exchanges
  raced        \* history: consume() runs and a producer has linked a node in the meantime

heapVars == <<next, value, allocated>>
prodVars == <<produced, pat, pnode, pprev>>
consVars == <<cat, cnode, cprev, out>>
vars == <<heapVars, consumeEnd, produceEnd, prodVars, consVars, order, raced>>

Pointers == Nodes \cup {Stub, Null}
-----------------------------------------------------------------------------
(* produce(T&&): a new node ...                                            *)
Produce(p) ==
  /\ pat[p] = "idle" /\ produced < MaxValues
  /\ produced' = produced + 1
  /\ \E n \in Nodes \ allocated :
       /\ allocated' = allocated \cup {n}
       /\ value' = [value EXCEPT ![n] = produced + 1]
       /\ next' = [next EXCEPT ![n] = Null]
       /\ pnode' = [pnode EXCEPT ![p] = n]
  /\ pat' = [pat EXCEPT ![p] = "exchange"]
  /\ UNCHANGED <<consumeEnd, produceEnd, pprev, consVars, order, raced>>

(* ... becomes produceEnd_ ...                                             *)
Exchange(p) ==
  /\ pat[p] = "exchange"
  /\ pprev' = [pprev EXCEPT ![p] = produceEnd]
  /\ produceEnd' = pnode[p]
  /\ order' = Append(order, pnode[p])
  /\ pat' = [pat EXCEPT ![p] = "link"]
  /\ UNCHANGED <<heapVars, consumeEnd, produced, pnode, consVars, raced>>

(* ... and is linked to the one before it.                                 *)
Link(p) ==
  /\ pat[p] = "link"
  /\ next' = [next EXCEPT ![pprev[p]] = pnode[p]]
  /\ pat' = [pat EXCEPT ![p] = "idle"]
  /\ raced' = (cat # "idle")
  /\ UNCHANGED <<value, allocated, consumeEnd, produceEnd, produced, pnode, pprev,
                 consVars, order>>
-----------------------------------------------------------------------------
(* consumeEnd_.store(next) and unpackNode(node).                           *)
Take(node) ==
  /\ consumeEnd' = next[node]
  /\ out' = value[node]
  /\ allocated' = allocated \ {node}
  /\ order' = Tail(order)
  /\ cat' = "idle" /\ raced' = FALSE
  /\ UNCHANGED <<next, value, produceEnd, prodVars, cnode, cprev>>

(* return std::nullopt.                                                    *)
ReturnNothing ==
  /\ out' = Nothing
  /\ cat' = "idle" /\ raced' = FALSE
  /\ UNCHANGED <<heapVars, consumeEnd, produceEnd, prodVars, cnode, cprev, order>>

Goto(at) ==
  /\ cat' = at
  /\ UNCHANGED <<heapVars, consumeEnd, produceEnd, prodVars, cprev, out, order, raced>>

(* The first two loads of consume(), and what follows from them.           *)
ConsumeEmpty ==
  /\ cat = "idle"
  /\ consumeEnd = Stub /\ next[Stub] = Null
  /\ ReturnNothing

ConsumeStub ==
  /\ cat = "idle"
  /\ consumeEnd = Stub /\ next[Stub] # Null
  /\ consumeEnd' = next[Stub]
  /\ cnode' = next[Stub]
  /\ order' = Tail(order)
  /\ cat' = "reread"
  /\ UNCHANGED <<heapVars, produceEnd, prodVars, cprev, out, raced>>

ConsumeNode ==
  /\ cat = "idle"
  /\ consumeEnd # Stub /\ next[consumeEnd] # Null
  /\ Take(consumeEnd)

ConsumeLast ==
  /\ cat = "idle"
  /\ consumeEnd # Stub /\ next[consumeEnd] = Null
  /\ cnode' = consumeEnd
  /\ Goto("check")

(* next = node->next, after the stub.                                      *)
Reread ==
  /\ cat = "reread"
  /\ \/ next[cnode] # Null /\ Take(cnode)
     \/ next[cnode] = Null /\ Goto("check") /\ UNCHANGED cnode

(* if (node != produceEnd_.load()).  The faulty ones leave the check out,  *)
(* or always return.                                                       *)
CheckLeftOut ==
  /\ cat = "check"
  /\ UNCHANGED cnode
  /\ Goto("reset")

CheckAlwaysReturns ==
  /\ cat = "check"
  /\ ReturnNothing

CheckLast ==
  /\ cat = "check"
  /\ \/ cnode # produceEnd /\ ReturnNothing
     \/ cnode = produceEnd /\ Goto("reset") /\ UNCHANGED cnode

(* stub_.next.store(nullptr); the faulty one forgets it.                   *)
ResetForgotten ==
  /\ cat = "reset"
  /\ UNCHANGED cnode
  /\ Goto("exchange")

ResetStub ==
  /\ cat = "reset"
  /\ next' = [next EXCEPT ![Stub] = Null]
  /\ cat' = "exchange"
  /\ UNCHANGED <<value, allocated, consumeEnd, produceEnd, prodVars, cnode, cprev,
                 out, order, raced>>

(* produce(&stub_).                                                        *)
ExchangeStub ==
  /\ cat = "exchange"
  /\ cprev' = produceEnd
  /\ produceEnd' = Stub
  /\ order' = Append(order, Stub)
  /\ cat' = "link"
  /\ UNCHANGED <<heapVars, consumeEnd, prodVars, cnode, out, raced>>

LinkStub ==
  /\ cat = "link"
  /\ next' = [next EXCEPT ![cprev] = Stub]
  /\ cat' = "again"
  /\ UNCHANGED <<value, allocated, consumeEnd, produceEnd, prodVars, cnode, cprev,
                 out, order, raced>>

(* next = node->next.load(), and the last return.                          *)
Again ==
  /\ cat = "again"
  /\ \/ next[cnode] # Null /\ Take(cnode)
     \/ next[cnode] = Null /\ ReturnNothing
-----------------------------------------------------------------------------
Init ==
  /\ next = [n \in Nodes \cup {Stub} |-> Null]
  /\ value = [n \in Nodes \cup {Stub} |-> Nothing]
  /\ allocated = {}
  /\ consumeEnd = Stub /\ produceEnd = Stub
  /\ produced = 0
  /\ pat = [p \in Producers |-> "idle"]
  /\ pnode = [p \in Producers |-> Null]
  /\ pprev = [p \in Producers |-> Null]
  /\ cat = "idle" /\ cnode = Null /\ cprev = Null
  /\ out = Nothing
  /\ order = <<Stub>>
  /\ raced = FALSE

Consumer ==
  \/ ConsumeEmpty \/ ConsumeStub \/ ConsumeNode \/ ConsumeLast \/ Reread
  \/ CheckLast \/ ResetStub \/ ExchangeStub \/ LinkStub \/ Again

Next == Consumer \/ \E p \in Producers : Produce(p) \/ Exchange(p) \/ Link(p)

Spec == Init /\ [][Next]_vars

(* The consumer calls consume() again and again; producers finish a call.  *)
FairSpec ==
  /\ Spec
  /\ WF_vars(Consumer)
  /\ \A p \in Producers : WF_vars(Exchange(p)) /\ WF_vars(Link(p))
-----------------------------------------------------------------------------
TypeOK ==
  /\ next \in [Nodes \cup {Stub} -> Pointers]
  /\ value \in [Nodes \cup {Stub} -> 0 .. MaxValues]
  /\ allocated \subseteq Nodes
  /\ consumeEnd \in Nodes \cup {Stub} /\ produceEnd \in Nodes \cup {Stub}
  /\ produced \in 0 .. MaxValues
  /\ pat \in [Producers -> {"idle", "exchange", "link"}]
  /\ pnode \in [Producers -> Pointers] /\ pprev \in [Producers -> Pointers]
  /\ cat \in {"idle", "reread", "check", "reset", "exchange", "link", "again"}
  /\ cnode \in Pointers /\ cprev \in Pointers
  /\ out \in 0 .. MaxValues
  /\ order \in Seq(Nodes \cup {Stub})
  /\ raced \in BOOLEAN

(* A thread never reads or writes a node that has been deleted: the node a *)
(* producer is about to link from is still in the list, however long the   *)
(* producer was held up, and so is the node the consumer works on.         *)
NoUseAfterFree ==
  /\ consumeEnd \in allocated \cup {Stub}
  /\ produceEnd \in allocated \cup {Stub}
  /\ \A p \in Producers : pat[p] = "link" => pprev[p] \in allocated \cup {Stub}
  /\ cat # "idle" => cnode \in allocated
  /\ cat = "link" => cprev \in allocated \cup {Stub}

(* m is linked behind n, or will be by the thread that put it there.       *)
Linking(n, m) ==
  \/ next[n] = m
  \/ /\ next[n] = Null
     /\ \/ \E p \in Producers : pat[p] = "link" /\ pprev[p] = n /\ pnode[p] = m
        \/ cat = "link" /\ cprev = n /\ m = Stub

(* The list is the sequence of exchanges: from consumeEnd_ to produceEnd_  *)
(* every node is linked to its successor, or the thread that exchanged the *)
(* successor is about to link it; nothing is linked behind the last one.   *)
ListIsOrder ==
  /\ TypeOK
  /\ order # <<>>
  /\ order[1] = consumeEnd /\ order[Len(order)] = produceEnd
  /\ \A i \in 1 .. Len(order) - 1 : Linking(order[i], order[i + 1])
  /\ next[produceEnd] = Null
-----------------------------------------------------------------------------
StubAt(i) == i \in DOMAIN order /\ order[i] = Stub

(* The values in the list, the stub left out.                              *)
queueBar ==
  LET real == IF \E i \in DOMAIN order : StubAt(i) THEN Len(order) - 1 ELSE Len(order)
  IN  [i \in 1 .. real |->
         value[order[IF \E j \in 1 .. i : StubAt(j) THEN i + 1 ELSE i]]]

Fifo == INSTANCE FifoQueue WITH queue <- queueBar

(* MpscQueue implements a FIFO queue: each value is consumed once, in the  *)
(* order in which the producers exchanged produceEnd_.                     *)
ImplementsFifo == Fifo!Spec

(* consume() returns nothing only if nothing was there or a producer was   *)
(* at work in the meantime: a value that was produced completely before    *)
(* the call is not missed.                                                 *)
NothingOnlyIfBusy ==
  [][cat' = "idle" /\ out' = Nothing /\ (cat # "idle" \/ ConsumeEmpty)
       => queueBar = <<>> \/ raced \/ \E p \in Producers : pat[p] = "link"]_vars

(* Every value that was produced is consumed.                              *)
EveryValueConsumed ==
  \A v \in Values :
    (\E i \in DOMAIN queueBar : queueBar[i] = v)
      ~> (\A i \in DOMAIN queueBar : queueBar[i] # v)
=============================================================================
