-------------------------- MODULE MpscQueueProofs ---------------------------
(***************************************************************************)
(* Proofs about MpscQueue for any number of producers, nodes and values:   *)
(* no thread touches a node that was deleted, the list is the order of the *)
(* exchanges, and the queue is a FIFO queue.                               *)
(***************************************************************************)
EXTENDS MpscQueue, TLAPS, SequenceTheorems

InList(n) == \E i \in 1 .. Len(order) : order[i] = n
Follows(n, m) == \E i \in 1 .. Len(order) - 1 : order[i] = n /\ order[i + 1] = m

(* The nodes of the list: each is there once, alive, and has a value.      *)
ListIsDistinct ==
  \A i, j \in 1 .. Len(order) : order[i] = order[j] => i = j

ListIsLive ==
  \A n \in Nodes : InList(n) => n \in allocated /\ value[n] \in Values

ListHasEnds ==
  Len(order) >= 1 /\ order[1] = consumeEnd /\ order[Len(order)] = produceEnd

ListIsLinked ==
  /\ \A i \in 1 .. Len(order) - 1 : Linking(order[i], order[i + 1])
  /\ next[produceEnd] = Null

(* A producer owns its node; the link it is about to make is the one that  *)
(* is missing.                                                             *)
NodesAreOwn ==
  /\ \A p \in Producers : pat[p] # "idle" => pnode[p] \in allocated
  /\ \A p, q \in Producers :
       pat[p] # "idle" /\ pat[q] # "idle" /\ pnode[p] = pnode[q] => p = q

NewNodesAreOutside ==
  \A p \in Producers : pat[p] = "exchange" =>
    ~InList(pnode[p]) /\ next[pnode[p]] = Null /\ value[pnode[p]] \in Values

LinksAreMissing ==
  /\ \A p \in Producers : pat[p] = "link" =>
       next[pprev[p]] = Null /\ Follows(pprev[p], pnode[p])
  /\ cat = "link" => next[cprev] = Null /\ Follows(cprev, Stub)

(* The consumer works on the first node, and puts the stub into the list   *)
(* only when it is not in it.                                              *)
ConsumerAtFirst ==
  /\ cat # "idle" => cnode = consumeEnd /\ cnode # Stub
  /\ cat \in {"reset", "exchange"} => ~InList(Stub)
  /\ cat = "exchange" => next[Stub] = Null
  /\ cat = "again" => InList(Stub)

(* If the node that had no successor now has one, a producer was at work.  *)
RaceIsSeen ==
  cat \in {"check", "reset", "exchange"} /\ next[cnode] # Null => raced

IInv ==
  /\ TypeOK
  /\ ListIsDistinct /\ ListIsLive /\ ListHasEnds /\ ListIsLinked
  /\ NodesAreOwn /\ NewNodesAreOutside /\ LinksAreMissing
  /\ ConsumerAtFirst /\ RaceIsSeen
-----------------------------------------------------------------------------
LEMMA OrderFacts ==
  ASSUME TypeOK
  PROVE  /\ Len(order) \in Nat /\ DOMAIN order = 1 .. Len(order)
         /\ order \in Seq(Nodes \cup {Stub})
         /\ \A i \in 1 .. Len(order) : order[i] \in Nodes \cup {Stub}
<1>1. order \in Seq(Nodes \cup {Stub})
  BY DEF TypeOK
<1>2. QED
  BY <1>1, LenProperties, ElementOfSeq, SMT

LEMMA InitEstablishes ==
  ASSUME Init
  PROVE  IInv
<1>1. order \in Seq(Nodes \cup {Stub}) /\ Len(order) = 1 /\ order[1] = Stub
  BY SMT DEF Init
<1>2. 0 \in 0 .. MaxValues
  BY NodeAssumption, SMT
<1>3. TypeOK
  BY <1>1, <1>2, Zenon DEF Init, TypeOK, Pointers, Nothing
<1>4. ListIsDistinct /\ ListIsLive /\ ListHasEnds
  BY <1>1, NodeAssumption, SMT DEF Init, ListIsDistinct, ListIsLive, ListHasEnds, InList
<1>5. ListIsLinked
  BY <1>1, SMT DEF Init, ListIsLinked
<1>6. NodesAreOwn /\ NewNodesAreOutside /\ LinksAreMissing
  BY SMT DEF Init, NodesAreOwn, NewNodesAreOutside, LinksAreMissing
<1>7. ConsumerAtFirst /\ RaceIsSeen
  BY SMT DEF Init, ConsumerAtFirst, RaceIsSeen
<1>8. QED
  BY <1>3, <1>4, <1>5, <1>6, <1>7 DEF IInv

(* The first node leaves a list in which it has a successor.               *)
LEMMA FirstTaken ==
  ASSUME IInv, next[consumeEnd] # Null, consumeEnd' = next[consumeEnd],
         order' = Tail(order), cat # "link", cat' # "link",
         UNCHANGED <<next, produceEnd, pat, pnode, pprev>>
  PROVE  /\ order' \in Seq(Nodes \cup {Stub})
         /\ ListIsDistinct' /\ ListHasEnds' /\ ListIsLinked'
         /\ \A n, m : n # consumeEnd /\ Follows(n, m) => Follows(n, m)'
         /\ \A n : InList(n)' <=> InList(n) /\ n # consumeEnd
<1>1. /\ TypeOK /\ ListIsDistinct /\ ListHasEnds /\ ListIsLinked
      /\ Len(order) \in Nat /\ order \in Seq(Nodes \cup {Stub})
  BY OrderFacts, Zenon DEF IInv
<1>2. Len(order) >= 2
  <2>1. order[1] # order[Len(order)] /\ Len(order) >= 1
    BY <1>1, Zenon DEF ListHasEnds, ListIsLinked
  <2>2. QED
    BY <1>1, <2>1, SMT
<1>3. /\ order' \in Seq(Nodes \cup {Stub}) /\ Len(order') = Len(order) - 1
      /\ \A i \in 1 .. Len(order) - 1 : order'[i] = order[i + 1]
  <2>1. order # <<>>
    BY <1>1, <1>2, EmptySeq, SMT
  <2>2. QED
    BY <1>1, <1>2, <2>1, HeadTailProperties, SMT
<1>4. /\ \A i \in 1 .. Len(order') : i + 1 \in 1 .. Len(order) /\ i + 1 # 1
                                       /\ order'[i] = order[i + 1]
      /\ \A i \in 1 .. Len(order) : i = 1 \/ \E j \in 1 .. Len(order') : i = j + 1
      /\ 1 \in 1 .. Len(order)
  <2>1. \A i \in 1 .. Len(order) :
          i = 1 \/ (i - 1 \in 1 .. Len(order') /\ i = (i - 1) + 1)
    BY <1>1, <1>3, SMT
  <2>2. QED
    BY <1>1, <1>2, <1>3, <2>1, SMT
<1>5. ListIsDistinct'
  <2>1. SUFFICES ASSUME NEW i \in 1 .. Len(order'), NEW j \in 1 .. Len(order'),
                        order'[i] = order'[j]
                 PROVE  i = j
    BY Zenon DEF ListIsDistinct
  <2>2. /\ i + 1 \in 1 .. Len(order) /\ j + 1 \in 1 .. Len(order)
        /\ order[i + 1] = order[j + 1]
    BY <1>4, <2>1, Zenon
  <2>3. i + 1 = j + 1
    BY <1>1, <2>2, Zenon DEF ListIsDistinct
  <2>4. QED
    BY <2>3, SMT
<1>6. next[order[1]] = order[2] /\ order[1] = consumeEnd
  <2>1. 1 \in 1 .. Len(order) - 1 /\ 1 + 1 = 2
    BY <1>1, <1>2, SMT
  <2>2. Linking(order[1], order[2])
    BY <1>1, <2>1, Zenon DEF ListIsLinked
  <2>3. QED
    BY <1>1, <2>2, Zenon DEF Linking, ListHasEnds
<1>7. ListHasEnds'
  <2>1. /\ Len(order') >= 1 /\ 1 \in 1 .. Len(order) - 1 /\ 1 + 1 = 2
        /\ Len(order') \in 1 .. Len(order) - 1 /\ Len(order') + 1 = Len(order)
    BY <1>1, <1>2, <1>3, SMT
  <2>2. QED
    BY <1>1, <1>3, <1>6, <2>1, Zenon DEF ListHasEnds
<1>8. ListIsLinked'
  <2>1. \A n, m : Linking(n, m)' <=> Linking(n, m)
    BY Zenon DEF Linking
  <2>2. ASSUME NEW i \in 1 .. Len(order') - 1
        PROVE  Linking(order[i], order[i + 1])'
    <3>1. /\ i + 1 \in 1 .. Len(order) - 1 /\ i \in 1 .. Len(order) - 1
      BY <1>1, <1>3, SMT
    <3>2. Linking(order[i + 1], order[(i + 1) + 1])
      BY <1>1, <3>1, Zenon DEF ListIsLinked
    <3>3. order'[i] = order[i + 1] /\ order'[i + 1] = order[(i + 1) + 1]
      BY <1>3, <3>1, Zenon
    <3>4. QED
      BY <3>2, <3>3, Zenon DEF Linking
  <2>3. QED
    BY <1>1, <2>2, Zenon DEF ListIsLinked
<1>9. ASSUME NEW n, NEW m, n # consumeEnd, Follows(n, m)
      PROVE  Follows(n, m)'
  <2>1. PICK i \in 1 .. Len(order) - 1 : order[i] = n /\ order[i + 1] = m
    BY <1>9, Zenon DEF Follows
  <2>2. i # 1
    BY <1>6, <1>9, <2>1, Zenon
  <2>3. /\ i - 1 \in 1 .. Len(order') - 1 /\ i - 1 \in 1 .. Len(order) - 1
        /\ (i - 1) + 1 = i
    BY <1>1, <1>3, <2>2, SMT
  <2>4. order'[i - 1] = n /\ order'[(i - 1) + 1] = m
    BY <1>3, <2>1, <2>3, Zenon
  <2>5. QED
    BY <2>3, <2>4, Zenon DEF Follows
<1>10. ASSUME NEW n
       PROVE  InList(n)' <=> InList(n) /\ n # consumeEnd
  <2>1. ASSUME InList(n)'
        PROVE  InList(n) /\ n # consumeEnd
    <3>1. PICK i \in 1 .. Len(order') : order'[i] = n
      BY <2>1, Zenon DEF InList
    <3>2. i + 1 \in 1 .. Len(order) /\ i + 1 # 1 /\ order[i + 1] = n
      BY <1>4, <3>1, Zenon
    <3>3. n # order[1]
      BY <1>1, <1>4, <3>2, Zenon DEF ListIsDistinct
    <3>4. QED
      BY <1>6, <3>2, <3>3, Zenon DEF InList
  <2>2. ASSUME InList(n), n # consumeEnd
        PROVE  InList(n)'
    <3>1. PICK i \in 1 .. Len(order) : order[i] = n
      BY <2>2, Zenon DEF InList
    <3>2. PICK j \in 1 .. Len(order') : i = j + 1
      BY <1>4, <1>6, <2>2, <3>1, Zenon
    <3>3. QED
      BY <1>4, <3>1, <3>2, Zenon DEF InList
  <2>3. QED
    BY <2>1, <2>2, Zenon
<1>11. QED
  BY <1>3, <1>5, <1>7, <1>8, <1>9, <1>10, Zenon

(* A node that was outside becomes the last one of the list.               *)
LEMMA LastAdded ==
  ASSUME IInv, NEW x \in Nodes \cup {Stub}, NEW last,
         ~InList(x), next[x] = Null, produceEnd = last, produceEnd' = x,
         order' = Append(order, x), UNCHANGED <<next, consumeEnd>>,
         \A n, m : Linking(n, m) => Linking(n, m)',
         Linking(last, x)'
  PROVE  /\ order' \in Seq(Nodes \cup {Stub})
         /\ ListIsDistinct' /\ ListHasEnds' /\ ListIsLinked'
         /\ \A n, m : Follows(n, m) => Follows(n, m)'
         /\ Follows(last, x)'
         /\ \A n : InList(n)' <=> InList(n) \/ n = x
<1>1. /\ TypeOK /\ ListIsDistinct /\ ListHasEnds /\ ListIsLinked
      /\ Len(order) \in Nat /\ order \in Seq(Nodes \cup {Stub})
  BY OrderFacts, Zenon DEF IInv
<1>2. /\ order' \in Seq(Nodes \cup {Stub}) /\ Len(order') = Len(order) + 1
      /\ \A i \in 1 .. Len(order) : order'[i] = order[i]
      /\ order'[Len(order) + 1] = x
  BY <1>1, AppendProperties, SMT
<1>3. /\ \A i \in 1 .. Len(order) : i \in 1 .. Len(order')
      /\ \A i \in 1 .. Len(order') : i \in 1 .. Len(order) \/ i = Len(order) + 1
      /\ Len(order) + 1 \in 1 .. Len(order')
      /\ Len(order) >= 1 /\ Len(order) \in 1 .. Len(order) /\ 1 \in 1 .. Len(order)
      /\ Len(order) \in 1 .. Len(order') - 1 /\ Len(order') >= 1
  BY <1>1, <1>2, SMT DEF ListHasEnds
<1>4. \A i \in 1 .. Len(order) : order[i] # x
  BY Zenon DEF InList
<1>5. ListIsDistinct'
  <2>1. SUFFICES ASSUME NEW i \in 1 .. Len(order'), NEW j \in 1 .. Len(order'),
                        order'[i] = order'[j]
                 PROVE  i = j
    BY Zenon DEF ListIsDistinct
  <2>2. CASE i \in 1 .. Len(order) /\ j \in 1 .. Len(order)
    BY <1>1, <1>2, <2>1, <2>2, Zenon DEF ListIsDistinct
  <2>3. i = Len(order) + 1 <=> order'[i] = x
    BY <1>2, <1>3, <1>4, Zenon
  <2>4. j = Len(order) + 1 <=> order'[j] = x
    BY <1>2, <1>3, <1>4, Zenon
  <2>5. QED
    BY <1>3, <2>1, <2>2, <2>3, <2>4, Zenon
<1>6. ListHasEnds'
  BY <1>1, <1>2, <1>3, Zenon DEF ListHasEnds
<1>7. order[Len(order)] = last
  BY <1>1, Zenon DEF ListHasEnds
<1>8. ListIsLinked'
  <2>1. ASSUME NEW i \in 1 .. Len(order') - 1
        PROVE  Linking(order[i], order[i + 1])'
    <3>1. CASE i = Len(order)
      <4>1. order'[i] = last /\ order'[i + 1] = x
        BY <1>2, <1>3, <1>7, <3>1, Zenon
      <4>2. QED
        BY <4>1, Zenon DEF Linking
    <3>2. CASE i # Len(order)
      <4>1. /\ i \in 1 .. Len(order) - 1 /\ i \in 1 .. Len(order)
            /\ i + 1 \in 1 .. Len(order)
        BY <1>1, <1>2, <3>2, SMT
      <4>2. Linking(order[i], order[i + 1])
        BY <1>1, <4>1, Zenon DEF ListIsLinked
      <4>3. PICK n, m : n = order[i] /\ m = order[i + 1]
        BY Zenon
      <4>4. Linking(n, m)'
        BY <4>2, <4>3, Zenon
      <4>5. order'[i] = n /\ order'[i + 1] = m
        BY <1>2, <4>1, <4>3, Zenon
      <4>6. QED
        BY <4>4, <4>5, Zenon DEF Linking
    <3>3. QED
      BY <3>1, <3>2
  <2>2. QED
    BY <2>1, Zenon DEF ListIsLinked
<1>9. ASSUME NEW n, NEW m, Follows(n, m)
      PROVE  Follows(n, m)'
  <2>1. PICK i \in 1 .. Len(order) - 1 : order[i] = n /\ order[i + 1] = m
    BY <1>9, Zenon DEF Follows
  <2>2. /\ i \in 1 .. Len(order) /\ i + 1 \in 1 .. Len(order)
        /\ i \in 1 .. Len(order') - 1
    BY <1>1, <1>2, SMT
  <2>3. QED
    BY <1>2, <2>1, <2>2, Zenon DEF Follows
<1>10. Follows(last, x)'
  <2>1. order'[Len(order)] = last /\ order'[Len(order) + 1] = x
    BY <1>2, <1>3, <1>7, Zenon
  <2>2. QED
    BY <1>3, <2>1, Zenon DEF Follows
<1>11. \A n : InList(n)' <=> InList(n) \/ n = x
  BY <1>2, <1>3, Zenon DEF InList
<1>12. QED
  BY <1>2, <1>5, <1>6, <1>8, <1>9, <1>10, <1>11, Zenon
(* A step that leaves the list alone.                                      *)
LEMMA ListKept ==
  ASSUME IInv, UNCHANGED <<order, consumeEnd, produceEnd>>,
         \A n : InList(n) => next'[n] = next[n],
         \A p \in Producers : pat[p] = "link" =>
           pat'[p] = "link" /\ pprev'[p] = pprev[p] /\ pnode'[p] = pnode[p],
         cat = "link" => cat' = "link" /\ cprev' = cprev
  PROVE  /\ ListIsDistinct' /\ ListHasEnds' /\ ListIsLinked'
         /\ \A n, m : Follows(n, m)' <=> Follows(n, m)
         /\ \A n : InList(n)' <=> InList(n)
<1>1. /\ TypeOK /\ ListIsDistinct /\ ListHasEnds /\ ListIsLinked /\ Len(order) \in Nat
  BY OrderFacts, Zenon DEF IInv
<1>2. ListIsDistinct' /\ ListHasEnds'
  BY <1>1, Zenon DEF ListIsDistinct, ListHasEnds
<1>3. /\ \A n, m : Follows(n, m)' <=> Follows(n, m)
      /\ \A n : InList(n)' <=> InList(n)
  BY Zenon DEF Follows, InList
<1>4. ASSUME NEW n, NEW m, InList(n), Linking(n, m)
      PROVE  Linking(n, m)'
  BY <1>4, SMT DEF Linking
<1>5. ListIsLinked'
  <2>1. ASSUME NEW i \in 1 .. Len(order') - 1
        PROVE  Linking(order[i], order[i + 1])'
    <3>1. PICK n, m : n = order[i] /\ m = order[i + 1]
      BY Zenon
    <3>2. i \in 1 .. Len(order) /\ i \in 1 .. Len(order) - 1
      BY <1>1, SMT
    <3>3. InList(n) /\ Linking(n, m)
      BY <1>1, <3>1, <3>2, Zenon DEF InList, ListIsLinked
    <3>4. Linking(n, m)' /\ order'[i] = n /\ order'[i + 1] = m
      BY <1>4, <3>1, <3>3, Zenon
    <3>5. QED
      BY <3>4, Zenon DEF Linking
  <2>2. next'[produceEnd'] = Null
    <3>1. Len(order) \in 1 .. Len(order)
      BY <1>1, SMT DEF ListHasEnds
    <3>2. InList(produceEnd)
      BY <1>1, <3>1, Zenon DEF ListHasEnds, InList
    <3>3. QED
      BY <1>1, <3>2, Zenon DEF ListIsLinked
  <2>3. QED
    BY <2>1, <2>2, Zenon DEF ListIsLinked
<1>6. QED
  BY <1>2, <1>3, <1>5, Zenon

(* A step that makes a link that was missing.                              *)
LEMMA LinkMade ==
  ASSUME IInv, NEW n \in Nodes \cup {Stub}, NEW m, Follows(n, m), next[n] = Null,
         next' = [next EXCEPT ![n] = m], UNCHANGED <<order, consumeEnd, produceEnd>>,
         \A p \in Producers : pat[p] = "link" /\ pprev[p] # n =>
           pat'[p] = "link" /\ pprev'[p] = pprev[p] /\ pnode'[p] = pnode[p],
         cat = "link" /\ cprev # n => cat' = "link" /\ cprev' = cprev
  PROVE  /\ ListIsDistinct' /\ ListHasEnds' /\ ListIsLinked'
         /\ \A k, l : Follows(k, l)' <=> Follows(k, l)
         /\ \A k : InList(k)' <=> InList(k)
         /\ \A k, l : Follows(k, l) /\ (k = n \/ l = m) => k = n /\ l = m
         /\ \A k \in Nodes \cup {Stub} : next'[k] = IF k = n THEN m ELSE next[k]
<1>1. /\ TypeOK /\ ListIsDistinct /\ ListHasEnds /\ ListIsLinked /\ Len(order) \in Nat
  BY OrderFacts, Zenon DEF IInv
<1>2. ListIsDistinct' /\ ListHasEnds'
  BY <1>1, Zenon DEF ListIsDistinct, ListHasEnds
<1>3. /\ \A k, l : Follows(k, l)' <=> Follows(k, l)
      /\ \A k : InList(k)' <=> InList(k)
  BY Zenon DEF Follows, InList
<1>4. \A k \in Nodes \cup {Stub} : next'[k] = IF k = n THEN m ELSE next[k]
  BY <1>1, SMT DEF TypeOK
<1>5. ASSUME NEW k, NEW l, Follows(k, l), k = n \/ l = m
      PROVE  k = n /\ l = m
  <2>1. PICK i \in 1 .. Len(order) - 1 : order[i] = n /\ order[i + 1] = m
    BY Zenon DEF Follows
  <2>2. PICK j \in 1 .. Len(order) - 1 : order[j] = k /\ order[j + 1] = l
    BY <1>5, Zenon DEF Follows
  <2>3. /\ i \in 1 .. Len(order) /\ i + 1 \in 1 .. Len(order)
        /\ j \in 1 .. Len(order) /\ j + 1 \in 1 .. Len(order)
    BY <1>1, SMT
  <2>4. i = j \/ i + 1 = j + 1
    BY <1>1, <1>5, <2>1, <2>2, <2>3, Zenon DEF ListIsDistinct
  <2>5. i = j
    BY <2>4, SMT
  <2>6. QED
    BY <2>1, <2>2, <2>5, Zenon
<1>6. ASSUME NEW k \in Nodes \cup {Stub}, NEW l, Follows(k, l), Linking(k, l)
      PROVE  Linking(k, l)'
  <2>1. CASE k = n
    <3>1. l = m
      BY <1>5, <1>6, <2>1, SMT
    <3>2. next'[k] = m
      BY <1>4, <2>1, Zenon
    <3>3. QED
      BY <3>1, <3>2, Zenon DEF Linking
  <2>2. CASE k # n
    <3>1. next'[k] = next[k]
      BY <1>4, <2>2, Zenon
    <3>2. QED
      BY <1>6, <2>2, <3>1, Zenon DEF Linking
  <2>3. QED
    BY <2>1, <2>2
<1>7. ListIsLinked'
  <2>1. ASSUME NEW i \in 1 .. Len(order') - 1
        PROVE  Linking(order[i], order[i + 1])'
    <3>1. i \in 1 .. Len(order) /\ i \in 1 .. Len(order) - 1
      BY <1>1, SMT
    <3>2. PICK k, l : k = order[i] /\ l = order[i + 1] /\ k \in Nodes \cup {Stub}
      BY <1>1, <3>1, OrderFacts, Zenon
    <3>3. Follows(k, l) /\ Linking(k, l)
      BY <1>1, <3>1, <3>2, Zenon DEF Follows, ListIsLinked
    <3>4. Linking(k, l)' /\ order'[i] = k /\ order'[i + 1] = l
      BY <1>6, <3>2, <3>3, Zenon
    <3>5. QED
      BY <3>4, Zenon DEF Linking
  <2>2. next'[produceEnd'] = Null
    <3>1. PICK i \in 1 .. Len(order) - 1 : order[i] = n /\ order[i + 1] = m
      BY Zenon DEF Follows
    <3>2. i \in 1 .. Len(order) /\ Len(order) \in 1 .. Len(order) /\ i # Len(order)
      BY <1>1, SMT
    <3>3. n # produceEnd
      BY <1>1, <3>1, <3>2, Zenon DEF ListIsDistinct, ListHasEnds
    <3>4. produceEnd \in Nodes \cup {Stub}
      BY <1>1, Zenon DEF TypeOK
    <3>5. QED
      BY <1>1, <1>4, <3>3, <3>4, Zenon DEF ListIsLinked
  <2>3. QED
    BY <2>1, <2>2, Zenon DEF ListIsLinked
<1>8. QED
  BY <1>2, <1>3, <1>4, <1>5, <1>7, Zenon
(* The nodes of the list are cells of the heap; so are the ones that links *)
(* are about to be made from.                                              *)
LEMMA CellFacts ==
  ASSUME IInv
  PROVE  /\ \A n : InList(n) => n \in allocated \cup {Stub} /\ n \in Nodes \cup {Stub}
         /\ \A n, m : Follows(n, m) => InList(n) /\ InList(m)
         /\ InList(consumeEnd) /\ InList(produceEnd)
         /\ allocated \subseteq Nodes
<1>1. /\ TypeOK /\ ListIsLive /\ ListHasEnds /\ Len(order) \in Nat
  BY OrderFacts, Zenon DEF IInv
<1>2. \A n : InList(n) => n \in allocated \cup {Stub} /\ n \in Nodes \cup {Stub}
  BY <1>1, OrderFacts, Zenon DEF InList, ListIsLive
<1>3. \A i \in 1 .. Len(order) - 1 : i \in 1 .. Len(order) /\ i + 1 \in 1 .. Len(order)
  BY <1>1, SMT
<1>4. \A n, m : Follows(n, m) => InList(n) /\ InList(m)
  BY <1>3, Zenon DEF Follows, InList
<1>5. 1 \in 1 .. Len(order) /\ Len(order) \in 1 .. Len(order)
  BY <1>1, SMT DEF ListHasEnds
<1>6. InList(consumeEnd) /\ InList(produceEnd)
  BY <1>1, <1>5, Zenon DEF ListHasEnds, InList
<1>7. QED
  BY <1>1, <1>2, <1>4, <1>6, Zenon DEF TypeOK

(* produce(), first part: the new node is nowhere yet.                     *)
LEMMA ProduceKeeps ==
  ASSUME IInv, NEW p \in Producers, Produce(p)
  PROVE  IInv'
<1>1. /\ TypeOK /\ NodesAreOwn /\ NewNodesAreOutside /\ LinksAreMissing
      /\ ListIsLive /\ ConsumerAtFirst /\ RaceIsSeen
  BY Zenon DEF IInv
<1>2. PICK n \in Nodes \ allocated :
        /\ allocated' = allocated \cup {n}
        /\ value' = [value EXCEPT ![n] = produced + 1]
        /\ next' = [next EXCEPT ![n] = Null]
        /\ pnode' = [pnode EXCEPT ![p] = n]
  BY Zenon DEF Produce
<1>3. /\ pat[p] = "idle" /\ produced < MaxValues /\ produced' = produced + 1
      /\ pat' = [pat EXCEPT ![p] = "exchange"]
      /\ UNCHANGED <<consumeEnd, produceEnd, pprev, cat, cnode, cprev, out, order, raced>>
  BY Zenon DEF Produce, consVars
<1>4. produced + 1 \in 0 .. MaxValues /\ produced + 1 \in Values
  BY <1>1, <1>3, NodeAssumption, SMT DEF TypeOK, Values
<1>5. /\ next' \in [Nodes \cup {Stub} -> Pointers]
      /\ value' \in [Nodes \cup {Stub} -> 0 .. MaxValues]
      /\ pnode' \in [Producers -> Pointers]
      /\ pat' \in [Producers -> {"idle", "exchange", "link"}]
      /\ \A k \in Nodes \cup {Stub} : next'[k] = IF k = n THEN Null ELSE next[k]
      /\ \A k \in Nodes \cup {Stub} : value'[k] = IF k = n THEN produced + 1 ELSE value[k]
      /\ \A q \in Producers : pnode'[q] = IF q = p THEN n ELSE pnode[q]
      /\ \A q \in Producers : pat'[q] = IF q = p THEN "exchange" ELSE pat[q]
  BY <1>1, <1>2, <1>3, <1>4, SMT DEF TypeOK, Pointers
<1>6. TypeOK'
  <2>1. allocated' \subseteq Nodes
    BY <1>1, <1>2, Zenon DEF TypeOK
  <2>2. QED
    BY <1>1, <1>3, <1>4, <1>5, <2>1, Zenon DEF TypeOK
<1>7. ~InList(n) /\ n # Stub
  BY <1>2, CellFacts, NodeAssumption, Zenon
<1>8. /\ ListIsDistinct' /\ ListHasEnds' /\ ListIsLinked'
      /\ \A k, l : Follows(k, l)' <=> Follows(k, l)
      /\ \A k : InList(k)' <=> InList(k)
  <2>1. \A k : InList(k) => next'[k] = next[k]
    BY <1>5, <1>7, CellFacts, Zenon
  <2>2. \A q \in Producers : pat[q] = "link" =>
           pat'[q] = "link" /\ pprev'[q] = pprev[q] /\ pnode'[q] = pnode[q]
    BY <1>3, <1>5, SMT
  <2>3. UNCHANGED <<order, consumeEnd, produceEnd>> /\ (cat = "link" => cat' = "link" /\ cprev' = cprev)
    BY <1>3, Zenon
  <2>4. QED
    BY <2>1, <2>2, <2>3, ListKept, Zenon
<1>9. ListIsLive'
  <2>1. ASSUME NEW k \in Nodes, InList(k)'
        PROVE  k \in allocated' /\ value'[k] \in Values
    <3>1. InList(k) /\ k # n
      BY <1>7, <1>8, <2>1, Zenon
    <3>2. QED
      BY <1>1, <1>2, <1>5, <3>1, Zenon DEF ListIsLive
  <2>2. QED
    BY <2>1, Zenon DEF ListIsLive
<1>10. NodesAreOwn'
  <2>1. \A q \in Producers : pat[q] # "idle" => pnode[q] # n
    BY <1>1, <1>2, Zenon DEF NodesAreOwn
  <2>2. QED
    BY <1>1, <1>2, <1>5, <2>1, SMT DEF NodesAreOwn
<1>11. NewNodesAreOutside'
  <2>1. ASSUME NEW q \in Producers, pat'[q] = "exchange"
        PROVE  /\ ~InList(pnode[q])' /\ next'[pnode'[q]] = Null
               /\ value'[pnode'[q]] \in Values
    <3>1. PICK m : m = pnode'[q]
      BY Zenon
    <3>2. CASE q = p
      <4>1. m = n
        BY <1>5, <3>1, <3>2, Zenon
      <4>2. ~InList(m)'
        BY <1>7, <1>8, <4>1, Zenon
      <4>3. QED
        BY <1>4, <1>5, <3>1, <4>1, <4>2, Zenon DEF InList
    <3>3. CASE q # p
      <4>1. m = pnode[q] /\ pat[q] = "exchange"
        BY <1>5, <2>1, <3>1, <3>3, Zenon
      <4>2. /\ m \in allocated /\ m # n /\ m \in Nodes \cup {Stub}
        BY <1>1, <1>2, <4>1, CellFacts, Zenon DEF NodesAreOwn
      <4>3. ~InList(m) /\ next[m] = Null /\ value[m] \in Values
        BY <1>1, <4>1, Zenon DEF NewNodesAreOutside
      <4>4. ~InList(m)' /\ next'[m] = Null /\ value'[m] \in Values
        BY <1>5, <1>8, <4>2, <4>3, Zenon
      <4>5. QED
        BY <3>1, <4>4, Zenon DEF InList
    <3>4. QED
      BY <3>2, <3>3
  <2>2. QED
    BY <2>1, Zenon DEF NewNodesAreOutside
<1>12. LinksAreMissing'
  <2>1. \A k, l : Follows(k, l) => k # n /\ k \in Nodes \cup {Stub}
    BY <1>7, CellFacts, Zenon
  <2>2. ASSUME NEW q \in Producers, pat'[q] = "link"
        PROVE  next'[pprev'[q]] = Null /\ Follows(pprev[q], pnode[q])'
    <3>1. pat[q] = "link" /\ pprev'[q] = pprev[q] /\ pnode'[q] = pnode[q]
      BY <1>3, <1>5, <2>2, SMT
    <3>2. next[pprev[q]] = Null /\ Follows(pprev[q], pnode[q])
      BY <1>1, <3>1, Zenon DEF LinksAreMissing
    <3>3. QED
      BY <1>3, <1>5, <2>1, <3>1, <3>2, Zenon DEF Follows
  <2>3. ASSUME cat' = "link"
        PROVE  next'[cprev'] = Null /\ Follows(cprev, Stub)'
    <3>1. next[cprev] = Null /\ Follows(cprev, Stub)
      BY <1>1, <1>3, <2>3, Zenon DEF LinksAreMissing
    <3>2. QED
      BY <1>3, <1>5, <2>1, <3>1, Zenon DEF Follows
  <2>4. QED
    BY <2>2, <2>3, Zenon DEF LinksAreMissing
<1>13. ConsumerAtFirst' /\ RaceIsSeen'
  <2>1. next'[Stub] = next[Stub] /\ next'[consumeEnd] = next[consumeEnd]
    BY <1>5, <1>7, CellFacts, Zenon
  <2>2. ConsumerAtFirst'
    BY <1>1, <1>3, <1>8, <2>1, Zenon DEF ConsumerAtFirst
  <2>3. RaceIsSeen'
    <3>1. cat # "idle" => cnode = consumeEnd
      BY <1>1, Zenon DEF ConsumerAtFirst
    <3>2. QED
      BY <1>1, <1>3, <2>1, <3>1, SMT DEF RaceIsSeen
  <2>4. QED
    BY <2>2, <2>3
<1>14. QED
  BY <1>6, <1>8, <1>9, <1>10, <1>11, <1>12, <1>13 DEF IInv
(* produce(), second part: the node is now the last one, and the producer  *)
(* alone can link it.                                                      *)
LEMMA ExchangeKeeps ==
  ASSUME IInv, NEW p \in Producers, Exchange(p)
  PROVE  IInv'
<1>1. /\ TypeOK /\ NodesAreOwn /\ NewNodesAreOutside /\ LinksAreMissing
      /\ ListIsLive /\ ListIsLinked /\ ConsumerAtFirst /\ RaceIsSeen
  BY Zenon DEF IInv
<1>2. PICK x, last : x = pnode[p] /\ last = produceEnd
  BY Zenon
<1>3. /\ pat[p] = "exchange" /\ pprev' = [pprev EXCEPT ![p] = last]
      /\ produceEnd' = x /\ order' = Append(order, x)
      /\ pat' = [pat EXCEPT ![p] = "link"]
      /\ UNCHANGED <<next, value, allocated, consumeEnd, produced, pnode, cat, cnode,
                     cprev, out, raced>>
  BY <1>2, Zenon DEF Exchange, heapVars, consVars
<1>4. /\ x \in allocated /\ x \in Nodes /\ x # Stub /\ ~InList(x) /\ next[x] = Null
      /\ value[x] \in Values /\ x \in Nodes \cup {Stub}
  <2>1. pat[p] # "idle"
    BY <1>3, SMT
  <2>2. QED
    BY <1>1, <1>2, <1>3, <2>1, CellFacts, NodeAssumption, Zenon
       DEF NodesAreOwn, NewNodesAreOutside
<1>5. last \in Nodes \cup {Stub} /\ last \in Pointers /\ next[last] = Null
  BY <1>1, <1>2, Zenon DEF TypeOK, Pointers, ListIsLinked
<1>6. /\ pprev' \in [Producers -> Pointers]
      /\ pat' \in [Producers -> {"idle", "exchange", "link"}]
      /\ \A q \in Producers : pprev'[q] = IF q = p THEN last ELSE pprev[q]
      /\ \A q \in Producers : pat'[q] = IF q = p THEN "link" ELSE pat[q]
  BY <1>1, <1>3, <1>5, SMT DEF TypeOK
<1>7. /\ order' \in Seq(Nodes \cup {Stub})
      /\ ListIsDistinct' /\ ListHasEnds' /\ ListIsLinked'
      /\ \A n, m : Follows(n, m) => Follows(n, m)'
      /\ Follows(last, x)'
      /\ \A n : InList(n)' <=> InList(n) \/ n = x
  <2>1. ASSUME NEW n, NEW m, Linking(n, m)
        PROVE  Linking(n, m)'
    <3>1. \A q \in Producers : pat[q] = "link" => pat'[q] = "link" /\ pprev'[q] = pprev[q]
      BY <1>3, <1>6, SMT
    <3>2. QED
      BY <1>3, <2>1, <3>1, Zenon DEF Linking
  <2>2. Linking(last, x)'
    BY <1>2, <1>3, <1>5, <1>6, Zenon DEF Linking
  <2>3. UNCHANGED <<next, consumeEnd>> /\ produceEnd' = x /\ order' = Append(order, x)
    BY <1>3, Zenon
  <2> HIDE DEF IInv
  <2>4. QED
    BY <1>2, <1>4, <2>1, <2>2, <2>3, LastAdded, Zenon
<1>8. TypeOK'
  BY <1>1, <1>3, <1>4, <1>6, <1>7, Zenon DEF TypeOK
<1>9. ListIsLive'
  BY <1>1, <1>3, <1>4, <1>7, Zenon DEF ListIsLive
<1>10. \A q \in Producers : pat'[q] # "idle" <=> pat[q] # "idle"
  BY <1>3, <1>6, SMT
<1>11. NodesAreOwn'
  BY <1>1, <1>3, <1>10, Zenon DEF NodesAreOwn
<1>12. NewNodesAreOutside'
  <2>1. ASSUME NEW q \in Producers, pat'[q] = "exchange"
        PROVE  /\ ~InList(pnode[q])' /\ next'[pnode'[q]] = Null
               /\ value'[pnode'[q]] \in Values
    <3>1. PICK m : m = pnode[q]
      BY Zenon
    <3>2. pat[q] = "exchange" /\ q # p
      BY <1>3, <1>6, <2>1, SMT
    <3>3. pat[q] # "idle" /\ pat[p] # "idle"
      BY <1>3, <3>2, SMT
    <3>4. m # x
      BY <1>1, <1>2, <3>1, <3>2, <3>3, Zenon DEF NodesAreOwn
    <3>5. ~InList(m) /\ next[m] = Null /\ value[m] \in Values
      BY <1>1, <3>1, <3>2, Zenon DEF NewNodesAreOutside
    <3>6. ~InList(m)' /\ next'[m] = Null /\ value'[m] \in Values /\ pnode'[q] = m
      BY <1>3, <1>7, <3>1, <3>4, <3>5, Zenon
    <3>7. QED
      BY <3>6, Zenon DEF InList
  <2>2. QED
    BY <2>1, Zenon DEF NewNodesAreOutside
<1>13. LinksAreMissing'
  <2>1. ASSUME NEW q \in Producers, pat'[q] = "link"
        PROVE  next'[pprev'[q]] = Null /\ Follows(pprev[q], pnode[q])'
    <3>1. CASE q = p
      <4>1. pprev'[q] = last /\ pnode'[q] = x
        BY <1>2, <1>3, <1>6, <3>1, Zenon
      <4>2. next'[last] = Null /\ Follows(last, x)'
        BY <1>3, <1>5, <1>7, Zenon
      <4>3. QED
        BY <4>1, <4>2, Zenon DEF Follows
    <3>2. CASE q # p
      <4>1. PICK n, m : n = pprev[q] /\ m = pnode[q]
        BY Zenon
      <4>2. pat[q] = "link" /\ pprev'[q] = n /\ pnode'[q] = m
        BY <1>3, <1>6, <2>1, <3>2, <4>1, Zenon
      <4>3. next[n] = Null /\ Follows(n, m)
        BY <1>1, <4>1, <4>2, Zenon DEF LinksAreMissing
      <4>4. Follows(n, m)'
        BY <1>7, <4>3, Zenon
      <4>5. QED
        BY <1>3, <4>2, <4>3, <4>4, Zenon DEF Follows
    <3>3. QED
      BY <3>1, <3>2
  <2>2. ASSUME cat' = "link"
        PROVE  next'[cprev'] = Null /\ Follows(cprev, Stub)'
    <3>1. PICK n : n = cprev
      BY Zenon
    <3>2. next[n] = Null /\ Follows(n, Stub) /\ cprev' = n
      BY <1>1, <1>3, <2>2, <3>1, Zenon DEF LinksAreMissing
    <3>3. Follows(n, Stub)'
      BY <1>7, <3>2, Zenon
    <3>4. QED
      BY <1>3, <3>2, <3>3, Zenon DEF Follows
  <2>3. QED
    BY <2>1, <2>2, Zenon DEF LinksAreMissing
<1>14. ConsumerAtFirst' /\ RaceIsSeen'
  BY <1>1, <1>3, <1>4, <1>7, Zenon DEF ConsumerAtFirst, RaceIsSeen
<1>15. QED
  BY <1>7, <1>8, <1>9, <1>11, <1>12, <1>13, <1>14 DEF IInv

(* produce(), last part: the missing link.                                 *)
LEMMA LinkKeeps ==
  ASSUME IInv, NEW p \in Producers, Link(p)
  PROVE  IInv'
<1>1. /\ TypeOK /\ NodesAreOwn /\ NewNodesAreOutside /\ LinksAreMissing
      /\ ListIsLive /\ ListIsLinked /\ ConsumerAtFirst /\ RaceIsSeen
  BY Zenon DEF IInv
<1>2. PICK n, m : n = pprev[p] /\ m = pnode[p]
  BY Zenon
<1>3. /\ pat[p] = "link" /\ next' = [next EXCEPT ![n] = m] /\ raced' = (cat # "idle")
      /\ pat' = [pat EXCEPT ![p] = "idle"]
      /\ UNCHANGED <<value, allocated, consumeEnd, produceEnd, produced, pnode, pprev,
                     cat, cnode, cprev, out, order>>
  BY <1>2, Zenon DEF Link, consVars
<1>4. /\ Follows(n, m) /\ next[n] = Null /\ n \in Nodes \cup {Stub}
      /\ InList(m) /\ m \in Nodes /\ m # Stub /\ pat[p] # "idle"
  <2>1. pat[p] # "idle"
    BY <1>3, SMT
  <2>2. QED
    BY <1>1, <1>2, <1>3, <2>1, CellFacts, NodeAssumption, Zenon
       DEF LinksAreMissing, NodesAreOwn
<1>5. /\ pat' \in [Producers -> {"idle", "exchange", "link"}]
      /\ \A q \in Producers : pat'[q] = IF q = p THEN "idle" ELSE pat[q]
  BY <1>1, <1>3, SMT DEF TypeOK
<1>6. /\ ListIsDistinct' /\ ListHasEnds' /\ ListIsLinked'
      /\ \A k, l : Follows(k, l)' <=> Follows(k, l)
      /\ \A k : InList(k)' <=> InList(k)
      /\ \A k, l : Follows(k, l) /\ (k = n \/ l = m) => k = n /\ l = m
      /\ \A k \in Nodes \cup {Stub} : next'[k] = IF k = n THEN m ELSE next[k]
  <2>1. \A q \in Producers : pat[q] = "link" /\ pprev[q] # n =>
           pat'[q] = "link" /\ pprev'[q] = pprev[q] /\ pnode'[q] = pnode[q]
    BY <1>2, <1>3, <1>5, Zenon
  <2>2. /\ cat = "link" /\ cprev # n => cat' = "link" /\ cprev' = cprev
        /\ UNCHANGED <<order, consumeEnd, produceEnd>> /\ next' = [next EXCEPT ![n] = m]
    BY <1>3, Zenon
  <2> HIDE DEF IInv
  <2>3. QED
    BY <1>4, <2>1, <2>2, LinkMade, Zenon
<1>7. TypeOK'
  <2>1. next' \in [Nodes \cup {Stub} -> Pointers]
    BY <1>1, <1>3, <1>4, SMT DEF TypeOK, Pointers
  <2>2. QED
    BY <1>1, <1>3, <1>5, <2>1, Zenon DEF TypeOK
<1>8. ListIsLive'
  BY <1>1, <1>3, <1>6, Zenon DEF ListIsLive
<1>9. \A q \in Producers : pat'[q] # "idle" => q # p /\ pat'[q] = pat[q] /\ pat[q] # "idle"
  BY <1>5, Zenon
<1>10. NodesAreOwn'
  BY <1>1, <1>3, <1>9, Zenon DEF NodesAreOwn
<1>11. NewNodesAreOutside'
  <2>1. ASSUME NEW q \in Producers, pat'[q] = "exchange"
        PROVE  /\ ~InList(pnode[q])' /\ next'[pnode'[q]] = Null
               /\ value'[pnode'[q]] \in Values
    <3>1. PICK k : k = pnode[q]
      BY Zenon
    <3>2. pat[q] = "exchange" /\ pat[q] # "idle"
      BY <1>5, <2>1, SMT
    <3>3. ~InList(k) /\ next[k] = Null /\ value[k] \in Values /\ k \in Nodes \cup {Stub}
      BY <1>1, <3>1, <3>2, CellFacts, Zenon DEF NewNodesAreOutside, NodesAreOwn
    <3>4. k # n
      BY <1>4, <3>3, CellFacts, Zenon
    <3>5. ~InList(k)' /\ next'[k] = Null /\ value'[k] \in Values /\ pnode'[q] = k
      BY <1>3, <1>6, <3>1, <3>3, <3>4, Zenon
    <3>6. QED
      BY <3>5, Zenon DEF InList
  <2>2. QED
    BY <2>1, Zenon DEF NewNodesAreOutside
<1>12. LinksAreMissing'
  <2>1. ASSUME NEW q \in Producers, pat'[q] = "link"
        PROVE  next'[pprev'[q]] = Null /\ Follows(pprev[q], pnode[q])'
    <3>1. PICK k, l : k = pprev[q] /\ l = pnode[q]
      BY Zenon
    <3>2. pat[q] = "link" /\ q # p /\ pat[q] # "idle"
      BY <1>5, <2>1, SMT
    <3>3. next[k] = Null /\ Follows(k, l) /\ l # m
      BY <1>1, <1>2, <1>4, <3>1, <3>2, Zenon DEF LinksAreMissing, NodesAreOwn
    <3>4. k # n /\ k \in Nodes \cup {Stub}
      <4>1. k # n
        BY <1>6, <3>3, SMT
      <4>2. QED
        BY <3>3, <4>1, CellFacts, Zenon
    <3>5. next'[k] = Null /\ Follows(k, l)' /\ pprev'[q] = k /\ pnode'[q] = l
      BY <1>3, <1>6, <3>1, <3>3, <3>4, Zenon
    <3>6. QED
      BY <3>5, Zenon DEF Follows
  <2>2. ASSUME cat' = "link"
        PROVE  next'[cprev'] = Null /\ Follows(cprev, Stub)'
    <3>1. PICK k : k = cprev
      BY Zenon
    <3>2. next[k] = Null /\ Follows(k, Stub) /\ cprev' = k
      BY <1>1, <1>3, <2>2, <3>1, Zenon DEF LinksAreMissing
    <3>3. k # n /\ k \in Nodes \cup {Stub}
      BY <1>4, <1>6, <3>2, CellFacts, Zenon
    <3>4. Follows(k, Stub)' /\ next'[k] = Null
      BY <1>6, <3>2, <3>3, Zenon
    <3>5. QED
      BY <3>2, <3>4, Zenon DEF Follows
  <2>3. QED
    BY <2>1, <2>2, Zenon DEF LinksAreMissing
<1>13. ConsumerAtFirst' /\ RaceIsSeen'
  <2>1. cat = "exchange" => next'[Stub] = next[Stub]
    <3>1. cat = "exchange" => n # Stub
      BY <1>1, <1>4, CellFacts, Zenon DEF ConsumerAtFirst
    <3>2. QED
      BY <1>6, <3>1, Zenon
  <2>2. QED
    <3>1. cat \in {"check", "reset", "exchange"} => cat # "idle"
      BY SMT
    <3>2. QED
      BY <1>1, <1>3, <1>6, <2>1, <3>1, Zenon DEF ConsumerAtFirst, RaceIsSeen
<1>14. QED
  BY <1>6, <1>7, <1>8, <1>10, <1>11, <1>12, <1>13 DEF IInv
(* Steps of consume() that only move the consumer.                         *)
LEMMA MoveKeeps ==
  ASSUME IInv,
         UNCHANGED <<next, value, allocated, consumeEnd, produceEnd, produced, pat,
                     pnode, pprev, cprev, order>>,
         cat # "link", cat' \in {"idle", "check", "reset"},
         cnode' \in Pointers, out' \in 0 .. MaxValues, raced' \in BOOLEAN,
         cat' # "idle" => cnode' = consumeEnd /\ consumeEnd # Stub,
         cat' = "reset" => ~InList(Stub),
         cat' # "idle" /\ next[consumeEnd] # Null => raced'
  PROVE  IInv'
<1>1. /\ TypeOK /\ NodesAreOwn /\ NewNodesAreOutside /\ LinksAreMissing /\ ListIsLive
  BY Zenon DEF IInv
<1>2. /\ ListIsDistinct' /\ ListHasEnds' /\ ListIsLinked'
      /\ \A n, m : Follows(n, m)' <=> Follows(n, m)
      /\ \A n : InList(n)' <=> InList(n)
  <2>1. /\ UNCHANGED <<order, consumeEnd, produceEnd>>
        /\ \A n : InList(n) => next'[n] = next[n]
        /\ \A p \in Producers : pat[p] = "link" =>
             pat'[p] = "link" /\ pprev'[p] = pprev[p] /\ pnode'[p] = pnode[p]
        /\ cat = "link" => cat' = "link" /\ cprev' = cprev
    BY Zenon
  <2>2. QED
    BY <2>1, ListKept, Zenon
<1>3. /\ cat' \in {"idle", "reread", "check", "reset", "exchange", "link", "again"}
      /\ cat' # "link" /\ cat' # "exchange" /\ cat' # "again"
  BY SMT
<1>4. TypeOK'
  BY <1>1, <1>3, Zenon DEF TypeOK
<1>5. ListIsLive'
  BY <1>1, <1>2, Zenon DEF ListIsLive
<1>6. NodesAreOwn'
  BY <1>1, Zenon DEF NodesAreOwn
<1>7. NewNodesAreOutside'
  BY <1>1, Zenon DEF NewNodesAreOutside, InList
<1>8. LinksAreMissing'
  BY <1>1, <1>3, Zenon DEF LinksAreMissing, Follows
<1>9. ConsumerAtFirst'
  BY <1>2, <1>3, SMT DEF ConsumerAtFirst
<1>10. RaceIsSeen'
  BY <1>3, SMT DEF RaceIsSeen
<1>11. QED
  BY <1>2, <1>4, <1>5, <1>6, <1>7, <1>8, <1>9, <1>10 DEF IInv

(* Steps of consume() that take the first node off the list: no producer   *)
(* holds it, since all links before the second node have been made.        *)
LEMMA RemoveKeeps ==
  ASSUME IInv, next[consumeEnd] # Null, consumeEnd' = next[consumeEnd],
         order' = Tail(order), allocated' = allocated \ {consumeEnd},
         UNCHANGED <<next, value, produceEnd, produced, pat, pnode, pprev, cprev>>,
         cat # "link", cat' \in {"idle", "reread"},
         cnode' \in Pointers, out' \in 0 .. MaxValues, raced' \in BOOLEAN,
         cat' = "reread" => cnode' = consumeEnd' /\ consumeEnd = Stub
  PROVE  IInv'
<1>1. /\ TypeOK /\ NodesAreOwn /\ NewNodesAreOutside /\ LinksAreMissing /\ ListIsLive
  BY Zenon DEF IInv
<1>2. /\ cat' \in {"idle", "reread", "check", "reset", "exchange", "link", "again"}
      /\ cat' \notin {"link", "exchange", "again", "reset", "check"}
      /\ cat' # "link"
  BY SMT
<1>3. /\ order' \in Seq(Nodes \cup {Stub})
      /\ ListIsDistinct' /\ ListHasEnds' /\ ListIsLinked'
      /\ \A n, m : n # consumeEnd /\ Follows(n, m) => Follows(n, m)'
      /\ \A n : InList(n)' <=> InList(n) /\ n # consumeEnd
  <2>1. UNCHANGED <<next, produceEnd, pat, pnode, pprev>>
    BY Zenon
  <2>2. QED
    BY <1>2, <2>1, FirstTaken, Zenon
<1>4. Len(order') \in Nat
  BY <1>3, LenProperties, Zenon
<1>5. \A n, m : Follows(n, m)' => InList(m)'
  <2>1. \A i \in 1 .. Len(order') - 1 : i + 1 \in 1 .. Len(order')
    BY <1>4, SMT
  <2>2. QED
    BY <2>1, Zenon DEF Follows, InList
<1>6. consumeEnd' # consumeEnd /\ consumeEnd' \in Nodes \cup {Stub}
  <2>1. PICK n : n = consumeEnd'
    BY Zenon
  <2>2. 1 \in 1 .. Len(order') /\ order'[1] = n
    BY <1>3, <1>4, <2>1, SMT DEF ListHasEnds
  <2>3. InList(n)'
    BY <2>2, Zenon DEF InList
  <2>4. QED
    BY <1>3, <2>1, <2>3, CellFacts, Zenon
<1>7. TypeOK'
  <2>1. allocated' \subseteq Nodes
    BY <1>1, Zenon DEF TypeOK
  <2>2. QED
    BY <1>1, <1>2, <1>3, <1>6, <2>1, Zenon DEF TypeOK
<1>8. ListIsLive'
  BY <1>1, <1>3, Zenon DEF ListIsLive
<1>9. ASSUME NEW p \in Producers, pat[p] = "link"
      PROVE  /\ next[pprev[p]] = Null /\ Follows(pprev[p], pnode[p])'
             /\ pnode[p] # consumeEnd
  <2>1. PICK n, m : n = pprev[p] /\ m = pnode[p]
    BY Zenon
  <2>2. next[n] = Null /\ Follows(n, m)
    BY <1>1, <1>9, <2>1, Zenon DEF LinksAreMissing
  <2>3. n # consumeEnd
    BY <2>2, Zenon
  <2>4. Follows(n, m)'
    BY <1>3, <2>2, <2>3, Zenon
  <2>5. m # consumeEnd
    BY <1>3, <1>5, <2>4, Zenon
  <2>6. pprev'[p] = n /\ pnode'[p] = m
    BY <2>1, Zenon
  <2>7. QED
    BY <2>1, <2>2, <2>4, <2>5, <2>6, Zenon DEF Follows
<1>10. NodesAreOwn'
  <2>1. ASSUME NEW p \in Producers, pat[p] # "idle"
        PROVE  pnode[p] \in allocated'
    <3>1. pat[p] = "exchange" \/ pat[p] = "link"
      BY <1>1, <2>1, SMT DEF TypeOK
    <3>2. pnode[p] # consumeEnd
      BY <1>1, <1>9, <3>1, CellFacts, Zenon DEF NewNodesAreOutside
    <3>3. QED
      BY <1>1, <2>1, <3>2, Zenon DEF NodesAreOwn
  <2>2. QED
    BY <1>1, <2>1, Zenon DEF NodesAreOwn
<1>11. NewNodesAreOutside'
  <2>1. ASSUME NEW p \in Producers, pat'[p] = "exchange"
        PROVE  /\ ~InList(pnode[p])' /\ next'[pnode'[p]] = Null
               /\ value'[pnode'[p]] \in Values
    <3>1. PICK m : m = pnode[p] /\ pnode'[p] = m
      BY Zenon
    <3>2. ~InList(m) /\ next[m] = Null /\ value[m] \in Values
      BY <1>1, <2>1, <3>1, Zenon DEF NewNodesAreOutside
    <3>3. ~InList(m)' /\ next'[m] = Null /\ value'[m] \in Values
      BY <1>3, <3>2, Zenon
    <3>4. QED
      BY <3>1, <3>3, Zenon DEF InList
  <2>2. QED
    BY <2>1, Zenon DEF NewNodesAreOutside
<1>12. LinksAreMissing'
  <2>1. \A p \in Producers : pat'[p] = "link" =>
          next'[pprev'[p]] = Null /\ Follows(pprev[p], pnode[p])'
    BY <1>9, Zenon
  <2>2. QED
    BY <1>2, <2>1, Zenon DEF LinksAreMissing
<1>13. ConsumerAtFirst' /\ RaceIsSeen'
  <2>1. cat' # "idle" => cnode' = consumeEnd' /\ cnode' # Stub
    BY <1>6, SMT
  <2>2. QED
    BY <1>2, <2>1, SMT DEF ConsumerAtFirst, RaceIsSeen
<1>14. QED
  BY <1>3, <1>7, <1>8, <1>10, <1>11, <1>12, <1>13 DEF IInv

(* stub_.next.store(nullptr), outside of the list.                         *)
LEMMA ResetKeeps ==
  ASSUME IInv, ResetStub
  PROVE  IInv'
<1>1. /\ TypeOK /\ NodesAreOwn /\ NewNodesAreOutside /\ LinksAreMissing /\ ListIsLive
      /\ ConsumerAtFirst /\ RaceIsSeen
  BY Zenon DEF IInv
<1>2. /\ cat = "reset" /\ next' = [next EXCEPT ![Stub] = Null] /\ cat' = "exchange"
      /\ UNCHANGED <<value, allocated, consumeEnd, produceEnd, produced, pat, pnode, pprev,
                     cnode, cprev, out, order, raced>>
  BY Zenon DEF ResetStub, prodVars
<1>3. /\ next' \in [Nodes \cup {Stub} -> Pointers]
      /\ \A k \in Nodes \cup {Stub} : next'[k] = IF k = Stub THEN Null ELSE next[k]
      /\ cat # "link" /\ cat' # "link" /\ cat # "idle"
      /\ cat' \in {"idle", "reread", "check", "reset", "exchange", "link", "again"}
  BY <1>1, <1>2, SMT DEF TypeOK, Pointers
<1>4. ~InList(Stub) /\ cnode = consumeEnd /\ cnode # Stub
  BY <1>1, <1>2, <1>3, Zenon DEF ConsumerAtFirst
<1>5. \A n : InList(n) => next'[n] = next[n]
  BY <1>3, <1>4, CellFacts, Zenon
<1>6. /\ ListIsDistinct' /\ ListHasEnds' /\ ListIsLinked'
      /\ \A n, m : Follows(n, m)' <=> Follows(n, m)
      /\ \A n : InList(n)' <=> InList(n)
  <2>1. /\ UNCHANGED <<order, consumeEnd, produceEnd>>
        /\ \A p \in Producers : pat[p] = "link" =>
             pat'[p] = "link" /\ pprev'[p] = pprev[p] /\ pnode'[p] = pnode[p]
        /\ cat = "link" => cat' = "link" /\ cprev' = cprev
    BY <1>2, <1>3, Zenon
  <2>2. QED
    BY <1>5, <2>1, ListKept, Zenon
<1>7. TypeOK'
  BY <1>1, <1>2, <1>3, Zenon DEF TypeOK
<1>8. ListIsLive'
  BY <1>1, <1>2, <1>6, Zenon DEF ListIsLive
<1>9. NodesAreOwn'
  BY <1>1, <1>2, Zenon DEF NodesAreOwn
<1>10. NewNodesAreOutside'
  <2>1. \A p \in Producers : pat[p] = "exchange" => pnode[p] \in Nodes \cup {Stub}
    <3>1. \A p \in Producers : pat[p] = "exchange" => pat[p] # "idle"
      BY SMT
    <3>2. QED
      BY <1>1, <3>1, CellFacts, Zenon DEF NodesAreOwn
  <2>2. \A p \in Producers : pat[p] = "exchange" => next'[pnode[p]] = Null
    BY <1>1, <1>3, <2>1, Zenon DEF NewNodesAreOutside
  <2>3. QED
    BY <1>1, <1>2, <2>2, Zenon DEF NewNodesAreOutside, InList
<1>11. LinksAreMissing'
  <2>1. \A p \in Producers : pat[p] = "link" =>
          next'[pprev[p]] = Null /\ Follows(pprev[p], pnode[p])
    BY <1>1, <1>5, CellFacts, Zenon DEF LinksAreMissing
  <2>2. QED
    BY <1>2, <1>3, <2>1, Zenon DEF LinksAreMissing, Follows
<1>12. ConsumerAtFirst'
  <2>1. next'[Stub] = Null /\ cat' # "again" /\ cnode' = consumeEnd' /\ cnode' # Stub /\ ~InList(Stub)'
    BY <1>2, <1>3, <1>4, <1>6, SMT
  <2>2. QED
    BY <2>1, Zenon DEF ConsumerAtFirst
<1>13. RaceIsSeen'
  <2>1. next'[cnode] = next[cnode]
    BY <1>4, <1>5, CellFacts, Zenon
  <2>2. QED
    BY <1>1, <1>2, <2>1, SMT DEF RaceIsSeen
<1>14. QED
  BY <1>6, <1>7, <1>8, <1>9, <1>10, <1>11, <1>12, <1>13 DEF IInv
(* produce(&stub_): the stub goes through the same two steps as a node.    *)
LEMMA ExchangeStubKeeps ==
  ASSUME IInv, ExchangeStub
  PROVE  IInv'
<1>1. /\ TypeOK /\ NodesAreOwn /\ NewNodesAreOutside /\ LinksAreMissing /\ ListIsLive
      /\ ListIsLinked /\ ConsumerAtFirst /\ RaceIsSeen
  BY Zenon DEF IInv
<1>2. PICK last : last = produceEnd
  BY Zenon
<1>3. /\ cat = "exchange" /\ cprev' = last /\ produceEnd' = Stub
      /\ order' = Append(order, Stub) /\ cat' = "link"
      /\ UNCHANGED <<next, value, allocated, consumeEnd, produced, pat, pnode, pprev,
                     cnode, out, raced>>
  BY <1>2, Zenon DEF ExchangeStub, heapVars, prodVars
<1>4. /\ cat # "link" /\ cat # "idle" /\ cat' # "again" /\ cat' # "exchange"
      /\ cat' \notin {"check", "reset", "exchange"}
      /\ cat' \in {"idle", "reread", "check", "reset", "exchange", "link", "again"}
  BY <1>3, SMT
<1>5. ~InList(Stub) /\ next[Stub] = Null /\ cnode = consumeEnd /\ cnode # Stub
  BY <1>1, <1>3, <1>4, Zenon DEF ConsumerAtFirst
<1>6. last \in Pointers /\ next[last] = Null /\ Stub \in Nodes \cup {Stub}
  BY <1>1, <1>2, Zenon DEF TypeOK, Pointers, ListIsLinked
<1>7. /\ order' \in Seq(Nodes \cup {Stub})
      /\ ListIsDistinct' /\ ListHasEnds' /\ ListIsLinked'
      /\ \A n, m : Follows(n, m) => Follows(n, m)'
      /\ Follows(last, Stub)'
      /\ \A n : InList(n)' <=> InList(n) \/ n = Stub
  <2>1. \A n, m : Linking(n, m) => Linking(n, m)'
    BY <1>3, <1>4, Zenon DEF Linking
  <2>2. Linking(last, Stub)'
    BY <1>3, <1>6, Zenon DEF Linking
  <2>3. /\ UNCHANGED <<next, consumeEnd>> /\ produceEnd' = Stub
        /\ order' = Append(order, Stub)
    BY <1>3, Zenon
  <2> HIDE DEF IInv
  <2>4. QED
    BY <1>2, <1>5, <1>6, <2>1, <2>2, <2>3, LastAdded, Zenon
<1>8. TypeOK'
  <2>1. Stub \in Nodes \cup {Stub}
    BY Zenon
  <2>2. QED
    BY <1>1, <1>3, <1>4, <1>6, <1>7, <2>1, Zenon DEF TypeOK
<1>9. ListIsLive'
  BY <1>1, <1>3, <1>7, NodeAssumption, Zenon DEF ListIsLive
<1>10. NodesAreOwn'
  BY <1>1, <1>3, Zenon DEF NodesAreOwn
<1>11. NewNodesAreOutside'
  <2>1. ASSUME NEW p \in Producers, pat'[p] = "exchange"
        PROVE  /\ ~InList(pnode[p])' /\ next'[pnode'[p]] = Null
               /\ value'[pnode'[p]] \in Values
    <3>1. PICK m : m = pnode[p] /\ pnode'[p] = m
      BY <1>3, Zenon
    <3>2. pat[p] = "exchange" /\ pat[p] # "idle"
      BY <1>3, <2>1, SMT
    <3>3. ~InList(m) /\ next[m] = Null /\ value[m] \in Values /\ m # Stub
      BY <1>1, <3>1, <3>2, CellFacts, NodeAssumption, Zenon
         DEF NewNodesAreOutside, NodesAreOwn
    <3>4. ~InList(m)' /\ next'[m] = Null /\ value'[m] \in Values
      BY <1>3, <1>7, <3>3, Zenon
    <3>5. QED
      BY <3>1, <3>4, Zenon DEF InList
  <2>2. QED
    BY <2>1, Zenon DEF NewNodesAreOutside
<1>12. LinksAreMissing'
  <2>1. ASSUME NEW p \in Producers, pat'[p] = "link"
        PROVE  next'[pprev'[p]] = Null /\ Follows(pprev[p], pnode[p])'
    <3>1. PICK n, m : n = pprev[p] /\ m = pnode[p] /\ pprev'[p] = n /\ pnode'[p] = m
      BY <1>3, Zenon
    <3>2. next[n] = Null /\ Follows(n, m)
      BY <1>1, <1>3, <2>1, <3>1, Zenon DEF LinksAreMissing
    <3>3. next'[n] = Null /\ Follows(n, m)'
      BY <1>3, <1>7, <3>2, Zenon
    <3>4. QED
      BY <3>1, <3>3, Zenon DEF Follows
  <2>2. next'[cprev'] = Null /\ Follows(cprev, Stub)'
    <3>1. Follows(last, Stub)' /\ next'[last] = Null /\ cprev' = last
      BY <1>3, <1>6, <1>7, Zenon
    <3>2. QED
      BY <3>1, Zenon DEF Follows
  <2>3. QED
    BY <2>1, <2>2, Zenon DEF LinksAreMissing
<1>13. ConsumerAtFirst' /\ RaceIsSeen'
  <2>1. cnode' = consumeEnd' /\ cnode' # Stub /\ cat' \notin {"reset", "exchange"}
    BY <1>3, <1>5, SMT
  <2>2. QED
    BY <1>4, <2>1, Zenon DEF ConsumerAtFirst, RaceIsSeen
<1>14. QED
  BY <1>7, <1>8, <1>9, <1>10, <1>11, <1>12, <1>13 DEF IInv

LEMMA LinkStubKeeps ==
  ASSUME IInv, LinkStub
  PROVE  IInv'
<1>1. /\ TypeOK /\ NodesAreOwn /\ NewNodesAreOutside /\ LinksAreMissing /\ ListIsLive
      /\ ListIsLinked /\ ConsumerAtFirst /\ RaceIsSeen
  BY Zenon DEF IInv
<1>2. PICK n : n = cprev
  BY Zenon
<1>3. /\ cat = "link" /\ next' = [next EXCEPT ![n] = Stub] /\ cat' = "again"
      /\ UNCHANGED <<value, allocated, consumeEnd, produceEnd, produced, pat, pnode, pprev,
                     cnode, cprev, out, order, raced>>
  BY <1>2, Zenon DEF LinkStub, prodVars
<1>4. /\ cat' # "link" /\ cat # "idle" /\ cat' # "exchange"
      /\ cat' \notin {"check", "reset", "exchange"} /\ cat' \notin {"reset", "exchange"}
      /\ cat' \in {"idle", "reread", "check", "reset", "exchange", "link", "again"}
  BY <1>3, SMT
<1>5. /\ Follows(n, Stub) /\ next[n] = Null /\ n \in Nodes \cup {Stub} /\ InList(Stub)
      /\ cnode = consumeEnd /\ cnode # Stub
  BY <1>1, <1>2, <1>3, <1>4, CellFacts, Zenon DEF LinksAreMissing, ConsumerAtFirst
<1>6. /\ ListIsDistinct' /\ ListHasEnds' /\ ListIsLinked'
      /\ \A k, l : Follows(k, l)' <=> Follows(k, l)
      /\ \A k : InList(k)' <=> InList(k)
      /\ \A k, l : Follows(k, l) /\ (k = n \/ l = Stub) => k = n /\ l = Stub
      /\ \A k \in Nodes \cup {Stub} : next'[k] = IF k = n THEN Stub ELSE next[k]
  <2>1. \A q \in Producers : pat[q] = "link" /\ pprev[q] # n =>
           pat'[q] = "link" /\ pprev'[q] = pprev[q] /\ pnode'[q] = pnode[q]
    BY <1>3, Zenon
  <2>2. /\ cat = "link" /\ cprev # n => cat' = "link" /\ cprev' = cprev
        /\ UNCHANGED <<order, consumeEnd, produceEnd>> /\ next' = [next EXCEPT ![n] = Stub]
    BY <1>2, <1>3, Zenon
  <2> HIDE DEF IInv
  <2>3. QED
    BY <1>5, <2>1, <2>2, LinkMade, Zenon
<1>7. TypeOK'
  <2>1. next' \in [Nodes \cup {Stub} -> Pointers]
    BY <1>1, <1>3, <1>5, SMT DEF TypeOK, Pointers
  <2>2. QED
    BY <1>1, <1>3, <1>4, <2>1, Zenon DEF TypeOK
<1>8. ListIsLive'
  BY <1>1, <1>3, <1>6, Zenon DEF ListIsLive
<1>9. NodesAreOwn'
  BY <1>1, <1>3, Zenon DEF NodesAreOwn
<1>10. NewNodesAreOutside'
  <2>1. ASSUME NEW q \in Producers, pat'[q] = "exchange"
        PROVE  /\ ~InList(pnode[q])' /\ next'[pnode'[q]] = Null
               /\ value'[pnode'[q]] \in Values
    <3>1. PICK k : k = pnode[q] /\ pnode'[q] = k
      BY <1>3, Zenon
    <3>2. pat[q] = "exchange" /\ pat[q] # "idle"
      BY <1>3, <2>1, SMT
    <3>3. ~InList(k) /\ next[k] = Null /\ value[k] \in Values /\ k \in Nodes \cup {Stub}
      BY <1>1, <3>1, <3>2, CellFacts, Zenon DEF NewNodesAreOutside, NodesAreOwn
    <3>4. k # n
      BY <1>5, <3>3, CellFacts, Zenon
    <3>5. ~InList(k)' /\ next'[k] = Null /\ value'[k] \in Values
      BY <1>3, <1>6, <3>3, <3>4, Zenon
    <3>6. QED
      BY <3>1, <3>5, Zenon DEF InList
  <2>2. QED
    BY <2>1, Zenon DEF NewNodesAreOutside
<1>11. LinksAreMissing'
  <2>1. ASSUME NEW q \in Producers, pat'[q] = "link"
        PROVE  next'[pprev'[q]] = Null /\ Follows(pprev[q], pnode[q])'
    <3>1. PICK k, l : k = pprev[q] /\ l = pnode[q] /\ pprev'[q] = k /\ pnode'[q] = l
      BY <1>3, Zenon
    <3>2. pat[q] = "link" /\ pat[q] # "idle"
      BY <1>3, <2>1, SMT
    <3>3. next[k] = Null /\ Follows(k, l) /\ l # Stub
      BY <1>1, <3>1, <3>2, CellFacts, NodeAssumption, Zenon DEF LinksAreMissing, NodesAreOwn
    <3>4. k # n
      BY <1>6, <3>3, SMT
    <3>5. k \in Nodes \cup {Stub}
      BY <3>3, CellFacts, Zenon
    <3>6. next'[k] = Null /\ Follows(k, l)'
      BY <1>6, <3>3, <3>4, <3>5, Zenon
    <3>7. QED
      BY <3>1, <3>6, Zenon DEF Follows
  <2>2. QED
    BY <1>4, <2>1, Zenon DEF LinksAreMissing
<1>12. ConsumerAtFirst' /\ RaceIsSeen'
  <2>1. cnode' = consumeEnd' /\ cnode' # Stub /\ InList(Stub)'
    BY <1>3, <1>5, <1>6, Zenon
  <2>2. QED
    BY <1>4, <2>1, Zenon DEF ConsumerAtFirst, RaceIsSeen
<1>13. QED
  BY <1>6, <1>7, <1>8, <1>9, <1>10, <1>11, <1>12 DEF IInv

(* The node that consume() works on, and what it does with it.             *)
LEMMA TakeKeeps ==
  ASSUME IInv, Take(consumeEnd), consumeEnd # Stub, next[consumeEnd] # Null,
         cat # "link", raced' \in BOOLEAN
  PROVE  IInv'
<1>1. TypeOK
  BY DEF IInv
<1>2. /\ consumeEnd' = next[consumeEnd] /\ out' = value[consumeEnd]
      /\ allocated' = allocated \ {consumeEnd} /\ order' = Tail(order) /\ cat' = "idle"
      /\ UNCHANGED <<next, value, produceEnd, produced, pat, pnode, pprev, cnode, cprev>>
  BY Zenon DEF Take, prodVars
<1>3. out' \in 0 .. MaxValues /\ cnode' \in Pointers
  BY <1>1, <1>2, Zenon DEF TypeOK
<1>4. cat' \in {"idle", "reread"} /\ cat' # "reread"
  BY <1>2, SMT
<1> HIDE DEF IInv
<1>5. QED
  BY <1>2, <1>3, <1>4, RemoveKeeps, Zenon

LEMMA ReturnNothingKeeps ==
  ASSUME IInv, ReturnNothing, cat # "link", raced' \in BOOLEAN
  PROVE  IInv'
<1>1. TypeOK
  BY DEF IInv
<1>2. /\ out' = 0 /\ cat' = "idle"
      /\ UNCHANGED <<next, value, allocated, consumeEnd, produceEnd, produced, pat,
                     pnode, pprev, cnode, cprev, order>>
  BY Zenon DEF ReturnNothing, heapVars, prodVars, Nothing
<1>3. 0 \in 0 .. MaxValues
  BY NodeAssumption, SMT
<1>4. out' \in 0 .. MaxValues /\ cnode' \in Pointers
  BY <1>1, <1>2, <1>3, Zenon DEF TypeOK
<1>5. cat' \in {"idle", "check", "reset"} /\ cat' # "reset"
  BY <1>2, SMT
<1> HIDE DEF IInv
<1>6. QED
  BY <1>2, <1>4, <1>5, MoveKeeps, Zenon

LEMMA GotoKeeps ==
  ASSUME IInv, NEW at \in {"check", "reset"}, Goto(at), cat # "link",
         cnode' = consumeEnd, consumeEnd # Stub, raced' \in BOOLEAN,
         at = "reset" => ~InList(Stub), next[consumeEnd] # Null => raced'
  PROVE  IInv'
<1>1. TypeOK
  BY DEF IInv
<1>2. /\ cat' = at
      /\ UNCHANGED <<next, value, allocated, consumeEnd, produceEnd, produced, pat,
                     pnode, pprev, cprev, out, order>>
  BY Zenon DEF Goto, heapVars, prodVars
<1>3. out' \in 0 .. MaxValues /\ cnode' \in Pointers
  BY <1>1, <1>2, Zenon DEF TypeOK, Pointers
<1>4. cat' \in {"idle", "check", "reset"}
  BY <1>2, SMT
<1> HIDE DEF IInv
<1>5. QED
  BY <1>2, <1>3, <1>4, MoveKeeps, Zenon

LEMMA ConsumerKeeps ==
  ASSUME IInv, Consumer
  PROVE  IInv'
<1>1. /\ TypeOK /\ ConsumerAtFirst /\ RaceIsSeen /\ ListHasEnds /\ ListIsDistinct
      /\ Len(order) \in Nat /\ raced \in BOOLEAN
  BY OrderFacts, Zenon DEF IInv, TypeOK
<1> HIDE DEF IInv
<1>2. CASE ConsumeEmpty
  <2>1. cat = "idle" /\ raced' \in BOOLEAN /\ ReturnNothing
    BY <1>2, Zenon DEF ConsumeEmpty, ReturnNothing
  <2>2. QED
    BY <2>1, ReturnNothingKeeps, Zenon
<1>3. CASE ConsumeStub
  <2>1. /\ cat = "idle" /\ consumeEnd = Stub /\ next[Stub] # Null
        /\ consumeEnd' = next[Stub] /\ cnode' = next[Stub] /\ order' = Tail(order)
        /\ cat' = "reread" /\ raced' = raced
        /\ UNCHANGED <<next, value, allocated, produceEnd, produced, pat, pnode, pprev,
                       cprev, out>>
    BY <1>3, Zenon DEF ConsumeStub, heapVars, prodVars
  <2>2. cat # "link" /\ cat' \in {"idle", "reread"} /\ raced' \in BOOLEAN
    BY <1>1, <2>1, Zenon
  <2>3. allocated' = allocated \ {consumeEnd}
    BY <1>1, <2>1, NodeAssumption, SMT DEF TypeOK
  <2>4. out' \in 0 .. MaxValues /\ cnode' \in Pointers
    BY <1>1, <2>1, Zenon DEF TypeOK
  <2>5. /\ next[consumeEnd] # Null /\ consumeEnd' = next[consumeEnd]
        /\ cat' = "reread" => cnode' = consumeEnd' /\ consumeEnd = Stub
        /\ UNCHANGED <<next, value, produceEnd, produced, pat, pnode, pprev, cprev>>
    BY <2>1, Zenon
  <2>6. QED
    BY <2>1, <2>2, <2>3, <2>4, <2>5, RemoveKeeps, Zenon
<1>4. CASE ConsumeNode
  <2>1. cat # "link" /\ raced' \in BOOLEAN
    BY <1>4, Zenon DEF ConsumeNode, Take
  <2>2. QED
    BY <1>4, <2>1, TakeKeeps, Zenon DEF ConsumeNode
<1>5. CASE ConsumeLast
  <2>1. /\ cat # "link" /\ raced' \in BOOLEAN
        /\ "check" \in {"check", "reset"} /\ "check" # "reset"
    BY <1>1, <1>5, Zenon DEF ConsumeLast, Goto
  <2>2. QED
    BY <1>5, <2>1, GotoKeeps, Zenon DEF ConsumeLast
<1>6. ASSUME cat # "idle"
      PROVE  cnode = consumeEnd /\ consumeEnd # Stub
  BY <1>1, <1>6, Zenon DEF ConsumerAtFirst
<1>7. CASE Reread
  <2>1. cat # "link" /\ cat # "idle" /\ "check" \in {"check", "reset"} /\ "check" # "reset"
    BY <1>7, SMT DEF Reread
  <2>2. cnode = consumeEnd /\ consumeEnd # Stub /\ raced' \in BOOLEAN
    BY <1>1, <1>6, <1>7, <2>1, Zenon DEF Reread, Take, Goto
  <2>3. CASE next[cnode] # Null /\ Take(cnode)
    BY <2>1, <2>2, <2>3, TakeKeeps, Zenon
  <2>4. CASE next[cnode] = Null /\ Goto("check") /\ UNCHANGED cnode
    BY <2>1, <2>2, <2>4, GotoKeeps, Zenon
  <2>5. QED
    BY <1>7, <2>3, <2>4, Zenon DEF Reread
<1>8. CASE CheckLast
  <2>1. /\ cat # "link" /\ cat # "idle" /\ cat \in {"check", "reset", "exchange"}
        /\ "reset" \in {"check", "reset"}
    BY <1>8, SMT DEF CheckLast
  <2>2. cnode = consumeEnd /\ consumeEnd # Stub /\ raced' \in BOOLEAN
    BY <1>1, <1>6, <1>8, <2>1, Zenon DEF CheckLast, ReturnNothing, Goto
  <2>3. CASE cnode # produceEnd /\ ReturnNothing
    BY <2>1, <2>2, <2>3, ReturnNothingKeeps, Zenon
  <2>4. CASE cnode = produceEnd /\ Goto("reset") /\ UNCHANGED cnode
    <3>1. Len(order) = 1
      <4>1. 1 \in 1 .. Len(order) /\ Len(order) \in 1 .. Len(order)
        BY <1>1, SMT DEF ListHasEnds
      <4>2. order[1] = order[Len(order)]
        BY <1>1, <2>2, <2>4, Zenon DEF ListHasEnds
      <4>3. QED
        BY <1>1, <4>1, <4>2, Zenon DEF ListIsDistinct
    <3>2. ~InList(Stub)
      BY <1>1, <2>2, <3>1, SMT DEF InList, ListHasEnds
    <3>3. next[consumeEnd] # Null => raced'
      BY <1>1, <2>1, <2>2, <2>4, Zenon DEF RaceIsSeen, Goto
    <3>4. QED
      BY <2>1, <2>2, <2>4, <3>2, <3>3, GotoKeeps, Zenon
  <2>5. QED
    BY <1>8, <2>3, <2>4, Zenon DEF CheckLast
<1>9. CASE Again
  <2>1. cat # "link" /\ cat # "idle"
    BY <1>9, SMT DEF Again
  <2>2. cnode = consumeEnd /\ consumeEnd # Stub /\ raced' \in BOOLEAN
    BY <1>1, <1>6, <1>9, <2>1, Zenon DEF Again, Take, ReturnNothing
  <2>3. CASE next[cnode] # Null /\ Take(cnode)
    BY <2>1, <2>2, <2>3, TakeKeeps, Zenon
  <2>4. CASE next[cnode] = Null /\ ReturnNothing
    BY <2>1, <2>2, <2>4, ReturnNothingKeeps, Zenon
  <2>5. QED
    BY <1>9, <2>3, <2>4, Zenon DEF Again
<1>10. CASE ResetStub
  BY <1>10, ResetKeeps
<1>11. CASE ExchangeStub
  BY <1>11, ExchangeStubKeeps
<1>12. CASE LinkStub
  BY <1>12, LinkStubKeeps
<1>13. QED
  BY <1>2, <1>3, <1>4, <1>5, <1>7, <1>8, <1>9, <1>10, <1>11, <1>12 DEF Consumer
LEMMA NextKeeps ==
  ASSUME IInv, [Next]_vars
  PROVE  IInv'
<1>1. CASE Consumer
  BY <1>1, ConsumerKeeps
<1>2. ASSUME NEW p \in Producers, Produce(p) \/ Exchange(p) \/ Link(p)
      PROVE  IInv'
  BY <1>2, ProduceKeeps, ExchangeKeeps, LinkKeeps
<1>3. CASE UNCHANGED vars
  <2>1. UNCHANGED <<next, value, allocated, consumeEnd, produceEnd, produced, pat, pnode,
                    pprev, cat, cnode, cprev, out, order, raced>>
    BY <1>3, Zenon DEF vars, heapVars, prodVars, consVars
  <2>2. TypeOK' /\ ListIsDistinct' /\ ListIsLive' /\ ListHasEnds' /\ NodesAreOwn'
    BY <2>1, Zenon
       DEF IInv, TypeOK, ListIsDistinct, ListIsLive, InList, ListHasEnds, NodesAreOwn
  <2>3. ListIsLinked' /\ LinksAreMissing'
    BY <2>1, Zenon DEF IInv, ListIsLinked, Linking, LinksAreMissing, Follows
  <2>4. NewNodesAreOutside' /\ ConsumerAtFirst' /\ RaceIsSeen'
    BY <2>1, Zenon DEF IInv, NewNodesAreOutside, ConsumerAtFirst, RaceIsSeen, InList
  <2>5. QED
    BY <2>2, <2>3, <2>4 DEF IInv
<1>4. QED
  BY <1>1, <1>2, <1>3, Zenon DEF Next

(* The invariant of the queue, for every interleaving of produce() and     *)
(* consume().                                                              *)
THEOREM IInvHolds == Spec => []IInv
<1>1. Init => IInv
  BY InitEstablishes
<1>2. IInv /\ [Next]_vars => IInv'
  BY NextKeeps
<1>3. QED
  BY <1>1, <1>2, PTL DEF Spec

(* Neither a producer that was held up between its exchange and its link   *)
(* nor the consumer touches a node that consume() has deleted.             *)
THEOREM NodesAreAlive == Spec => []NoUseAfterFree
<1>1. IInv => NoUseAfterFree
  <2>1. SUFFICES ASSUME IInv PROVE NoUseAfterFree
    OBVIOUS
  <2>2. LinksAreMissing /\ ConsumerAtFirst
    BY <2>1 DEF IInv
  <2>3. \A n : InList(n) => n \in allocated \cup {Stub}
    BY <2>1, CellFacts, Zenon
  <2>4. \A p \in Producers : pat[p] = "link" => pprev[p] \in allocated \cup {Stub}
    BY <2>1, <2>2, <2>3, CellFacts, Zenon DEF LinksAreMissing
  <2>5. cat = "link" => cprev \in allocated \cup {Stub}
    BY <2>1, <2>2, <2>3, CellFacts, Zenon DEF LinksAreMissing
  <2>6. consumeEnd \in allocated \cup {Stub} /\ produceEnd \in allocated \cup {Stub}
    BY <2>1, <2>3, CellFacts, Zenon
  <2>7. cat # "idle" => cnode \in allocated
    BY <2>2, <2>6, Zenon DEF ConsumerAtFirst
  <2>8. QED
    BY <2>4, <2>5, <2>6, <2>7, Zenon DEF NoUseAfterFree
<1>2. QED
  BY <1>1, IInvHolds, PTL

(* The list from consumeEnd_ to produceEnd_ is the order of the exchanges, *)
(* but for links that some thread is about to make.                        *)
THEOREM ListKeepsOrder == Spec => []ListIsOrder
<1>1. IInv => ListIsOrder
  <2>1. SUFFICES ASSUME IInv PROVE ListIsOrder
    OBVIOUS
  <2>2. TypeOK /\ ListHasEnds /\ ListIsLinked
    BY <2>1 DEF IInv
  <2>3. order # <<>>
    BY <2>2, SMT DEF ListHasEnds
  <2>4. QED
    BY <2>2, <2>3, Zenon DEF ListIsOrder, ListHasEnds, ListIsLinked
<1>2. QED
  BY <1>1, IInvHolds, PTL
-----------------------------------------------------------------------------
(* The refinement.  The values that a list o stands for when the nodes     *)
(* have the values v: queueBar as an operator of the list.                 *)
Size(o) == IF \E i \in DOMAIN o : i \in DOMAIN o /\ o[i] = Stub THEN Len(o) - 1 ELSE Len(o)
Place(o, i) == IF \E j \in 1 .. i : j \in DOMAIN o /\ o[j] = Stub THEN i + 1 ELSE i
Bar(o, v) == [i \in 1 .. Size(o) |-> v[o[Place(o, i)]]]

IsList(o) ==
  /\ o \in Seq(Nodes \cup {Stub})
  /\ \A i, j \in 1 .. Len(o) : o[i] = o[j] => i = j

IsHeap(v) == v \in [Nodes \cup {Stub} -> 0 .. MaxValues]

(* Facts about sequences, with the length as a parameter of its own.       *)
LEMMA FunctionIsSeq ==
  ASSUME NEW S, NEW n \in Nat, NEW f \in [1 .. n -> S]
  PROVE  f \in Seq(S) /\ Len(f) = n
<1>1. f \in Seq(S)
  BY SeqDef, Zenon
<1>2. Len(f) \in Nat /\ 1 .. Len(f) = 1 .. n
  BY <1>1, LenProperties, Zenon
<1>3. QED
  BY <1>1, <1>2, SMT

LEMMA SameSeq ==
  ASSUME NEW S, NEW n, NEW s \in Seq(S), NEW t \in Seq(S), Len(s) = n, Len(t) = n,
         \A i \in 1 .. n : s[i] = t[i]
  PROVE  s = t
<1>1. Len(s) = Len(t) /\ \A i \in 1 .. Len(s) : s[i] = t[i]
  OBVIOUS
<1>2. QED
  BY <1>1, SeqEqual, Zenon

LEMMA Appended ==
  ASSUME NEW S, NEW n \in Nat, NEW s \in Seq(S), NEW x \in S, Len(s) = n
  PROVE  /\ Append(s, x) \in Seq(S) /\ Len(Append(s, x)) = n + 1
         /\ \A i \in 1 .. n : Append(s, x)[i] = s[i]
         /\ Append(s, x)[n + 1] = x
BY AppendProperties, SMT

LEMMA Tailed ==
  ASSUME NEW S, NEW n \in Nat, NEW s \in Seq(S), Len(s) = n + 1
  PROVE  /\ s # <<>> /\ Head(s) = s[1]
         /\ Tail(s) \in Seq(S) /\ Len(Tail(s)) = n
         /\ \A i \in 1 .. n : Tail(s)[i] = s[i + 1]
<1>1. s # <<>>
  BY EmptySeq, SMT
<1>2. Head(s) = s[1]
  BY <1>1, SMT
<1>3. /\ Tail(s) \in Seq(S) /\ Len(Tail(s)) = n
  BY <1>1, HeadTailProperties, SMT
<1>4. \A i \in 1 .. Len(Tail(s)) : Tail(s)[i] = s[i + 1]
  BY <1>1, HeadTailProperties, Zenon
<1>5. \A i \in 1 .. n : Tail(s)[i] = s[i + 1]
  BY <1>3, <1>4
<1>6. QED
  BY <1>1, <1>2, <1>3, <1>5

(* A list without the stub stands for the values of its nodes.             *)
LEMMA BarOfPlain ==
  ASSUME NEW o, NEW v, NEW n \in Nat, IsList(o), IsHeap(v), Len(o) = n,
         \A i \in 1 .. n : o[i] # Stub
  PROVE  /\ Bar(o, v) \in Seq(0 .. MaxValues) /\ Len(Bar(o, v)) = n
         /\ \A i \in 1 .. n : Bar(o, v)[i] = v[o[i]]
<1>1. /\ DOMAIN o = 1 .. n
      /\ \A i \in 1 .. n : o[i] \in Nodes \cup {Stub}
  BY LenProperties, ElementOfSeq, SMT DEF IsList
<1>2. Size(o) = n
  BY <1>1, Zenon DEF Size
<1>3. \A i \in 1 .. n : Place(o, i) = i
  BY <1>1, Zenon DEF Place
<1>4. \A i \in 1 .. n : Bar(o, v)[i] = v[o[i]]
  BY <1>2, <1>3, Zenon DEF Bar
<1>5. Bar(o, v) \in [1 .. n -> 0 .. MaxValues]
  <2>1. \A i \in 1 .. n : v[o[i]] \in 0 .. MaxValues
    BY <1>1, Zenon DEF IsHeap
  <2>2. Bar(o, v) = [i \in 1 .. n |-> v[o[Place(o, i)]]]
    BY <1>2, Zenon DEF Bar
  <2>3. QED
    BY <1>3, <2>1, <2>2, Zenon
<1>6. Bar(o, v) \in Seq(0 .. MaxValues) /\ Len(Bar(o, v)) = n
  BY <1>5, FunctionIsSeq, Zenon
<1>7. QED
  BY <1>4, <1>6

(* One with the stub at place k leaves it out.                             *)
LEMMA BarOfStub ==
  ASSUME NEW o, NEW v, NEW n \in Nat, IsList(o), IsHeap(v), Len(o) = n + 1,
         NEW k \in 1 .. n + 1, o[k] = Stub
  PROVE  /\ Bar(o, v) \in Seq(0 .. MaxValues) /\ Len(Bar(o, v)) = n
         /\ \A i \in 1 .. n : Bar(o, v)[i] = IF i < k THEN v[o[i]] ELSE v[o[i + 1]]
<1>1. /\ DOMAIN o = 1 .. n + 1
      /\ \A i \in 1 .. n + 1 : o[i] \in Nodes \cup {Stub}
  BY LenProperties, ElementOfSeq, SMT DEF IsList
<1>2. Size(o) = n
  <2>1. Size(o) = Len(o) - 1
    BY <1>1, Zenon DEF Size
  <2>2. (n + 1) - 1 = n
    BY SMT
  <2>3. QED
    BY <2>1, <2>2, Zenon
<1>3. ASSUME NEW i \in 1 .. n
      PROVE  Place(o, i) = IF i < k THEN i ELSE i + 1
  <2>1. CASE i < k
    <3>1. \A j \in 1 .. i : j \in 1 .. n + 1 /\ j # k
      BY <2>1, SMT
    <3>2. \A j \in 1 .. i : o[j] # Stub
      BY <3>1, Zenon DEF IsList
    <3>3. QED
      BY <2>1, <3>2, Zenon DEF Place
  <2>2. CASE ~(i < k)
    <3>1. k \in 1 .. i
      BY <2>2, SMT
    <3>2. QED
      BY <1>1, <2>2, <3>1, Zenon DEF Place
  <2>3. QED
    BY <2>1, <2>2
<1>4. ASSUME NEW i \in 1 .. n
      PROVE  /\ v[o[Place(o, i)]] = IF i < k THEN v[o[i]] ELSE v[o[i + 1]]
             /\ v[o[Place(o, i)]] \in 0 .. MaxValues
  <2>1. i \in 1 .. n + 1 /\ i + 1 \in 1 .. n + 1
    BY SMT
  <2>2. v[o[i]] \in 0 .. MaxValues /\ v[o[i + 1]] \in 0 .. MaxValues
    BY <1>1, <2>1, Zenon DEF IsHeap
  <2>3. QED
    BY <1>3, <2>2, Zenon
<1>5. Bar(o, v) = [i \in 1 .. n |-> v[o[Place(o, i)]]]
  BY <1>2, Zenon DEF Bar
<1>6. Bar(o, v) \in [1 .. n -> 0 .. MaxValues]
  BY <1>4, <1>5, Zenon
<1>7. \A i \in 1 .. n : Bar(o, v)[i] = IF i < k THEN v[o[i]] ELSE v[o[i + 1]]
  BY <1>4, <1>5, Zenon
<1>8. Bar(o, v) \in Seq(0 .. MaxValues) /\ Len(Bar(o, v)) = n
  BY <1>6, FunctionIsSeq, Zenon
<1>9. QED
  BY <1>7, <1>8

(* A list is of one of the two kinds.                                      *)
LEMMA ListKinds ==
  ASSUME NEW o, IsList(o)
  PROVE  \/ \E n \in Nat : Len(o) = n /\ \A i \in 1 .. n : o[i] # Stub
         \/ \E n \in Nat : Len(o) = n + 1 /\ \E k \in 1 .. n + 1 : o[k] = Stub
<1>1. Len(o) \in Nat
  BY LenProperties, Zenon DEF IsList
<1>2. ASSUME NEW k \in 1 .. Len(o), o[k] = Stub
      PROVE  \E n \in Nat : Len(o) = n + 1 /\ \E j \in 1 .. n + 1 : o[j] = Stub
  <2>1. Len(o) - 1 \in Nat /\ Len(o) = (Len(o) - 1) + 1 /\ k \in 1 .. (Len(o) - 1) + 1
    BY <1>1, SMT
  <2>2. QED
    BY <1>2, <2>1, Zenon
<1>3. QED
  BY <1>1, <1>2, Zenon

(* The values of a list depend on its nodes only.                          *)
LEMMA BarOfValues ==
  ASSUME NEW o, NEW v, NEW w, IsList(o), IsHeap(v), IsHeap(w),
         \A i \in 1 .. Len(o) : o[i] # Stub => v[o[i]] = w[o[i]]
  PROVE  Bar(o, v) = Bar(o, w)
<1>1. ASSUME NEW n \in Nat, Len(o) = n, \A i \in 1 .. n : o[i] # Stub
      PROVE  Bar(o, v) = Bar(o, w)
  <2>1. /\ Bar(o, v) \in Seq(0 .. MaxValues) /\ Len(Bar(o, v)) = n
        /\ \A i \in 1 .. n : Bar(o, v)[i] = v[o[i]]
    BY <1>1, BarOfPlain, SMT
  <2>2. /\ Bar(o, w) \in Seq(0 .. MaxValues) /\ Len(Bar(o, w)) = n
        /\ \A i \in 1 .. n : Bar(o, w)[i] = w[o[i]]
    BY <1>1, BarOfPlain, SMT
  <2>3. \A i \in 1 .. n : Bar(o, v)[i] = Bar(o, w)[i]
    BY <1>1, <2>1, <2>2, Zenon
  <2>4. QED
    BY <2>1, <2>2, <2>3, SameSeq, SMT
<1>2. ASSUME NEW n \in Nat, Len(o) = n + 1, NEW k \in 1 .. n + 1, o[k] = Stub
      PROVE  Bar(o, v) = Bar(o, w)
  <2>1. /\ Bar(o, v) \in Seq(0 .. MaxValues) /\ Len(Bar(o, v)) = n
        /\ \A i \in 1 .. n : Bar(o, v)[i] = IF i < k THEN v[o[i]] ELSE v[o[i + 1]]
    BY <1>2, BarOfStub, Zenon
  <2>2. /\ Bar(o, w) \in Seq(0 .. MaxValues) /\ Len(Bar(o, w)) = n
        /\ \A i \in 1 .. n : Bar(o, w)[i] = IF i < k THEN w[o[i]] ELSE w[o[i + 1]]
    BY <1>2, BarOfStub, Zenon
  <2>3. ASSUME NEW i \in 1 .. n
        PROVE  Bar(o, v)[i] = Bar(o, w)[i]
    <3>1. CASE i < k
      <4>1. i \in 1 .. n + 1 /\ i # k
        BY <3>1, SMT
      <4>2. o[i] # Stub
        BY <1>2, <4>1, Zenon DEF IsList
      <4>3. QED
        BY <1>2, <2>1, <2>2, <3>1, <4>1, <4>2, Zenon
    <3>2. CASE ~(i < k)
      <4>1. i + 1 \in 1 .. n + 1 /\ i + 1 # k
        BY <3>2, SMT
      <4>2. o[i + 1] # Stub
        BY <1>2, <4>1, Zenon DEF IsList
      <4>3. QED
        BY <1>2, <2>1, <2>2, <3>2, <4>1, <4>2, Zenon
    <3>3. QED
      BY <3>1, <3>2
  <2>4. QED
    BY <2>1, <2>2, <2>3, SameSeq, SMT
<1>3. QED
  BY <1>1, <1>2, ListKinds, Zenon

LEMMA AppendFacts ==
  ASSUME NEW o, NEW n \in Nat, NEW x \in Nodes \cup {Stub}, IsList(o), Len(o) = n,
         \A i \in 1 .. n : o[i] # x
  PROVE  /\ IsList(Append(o, x)) /\ Len(Append(o, x)) = n + 1
         /\ \A i \in 1 .. n : Append(o, x)[i] = o[i]
         /\ Append(o, x)[n + 1] = x
<1> DEFINE a == Append(o, x)
<1>1. /\ a \in Seq(Nodes \cup {Stub}) /\ Len(a) = n + 1
      /\ \A i \in 1 .. n : a[i] = o[i]
      /\ a[n + 1] = x
  BY Appended, SMT DEF IsList
<1> HIDE DEF a
<1>2. \A i \in 1 .. n + 1 : i \in 1 .. n \/ i = n + 1
  BY SMT
<1>3. ASSUME NEW i \in 1 .. n + 1, NEW j \in 1 .. n + 1, a[i] = a[j]
      PROVE  i = j
  <2>1. i = n + 1 <=> a[i] = x
    BY <1>1, <1>2, Zenon
  <2>2. j = n + 1 <=> a[j] = x
    BY <1>1, <1>2, Zenon
  <2>3. CASE i \in 1 .. n /\ j \in 1 .. n
    BY <1>1, <1>3, <2>3, Zenon DEF IsList
  <2>4. QED
    BY <1>2, <1>3, <2>1, <2>2, <2>3, Zenon
<1>4. IsList(a)
  BY <1>1, <1>3, Zenon DEF IsList
<1>5. QED
  BY <1>1, <1>4 DEF a

(* A node at the end of the list is a value at the end of the queue.       *)
LEMMA BarOfNode ==
  ASSUME NEW o, NEW v, NEW x \in Nodes, IsList(o), IsHeap(v),
         \A i \in 1 .. Len(o) : o[i] # x
  PROVE  Bar(Append(o, x), v) = Append(Bar(o, v), v[x])
<1> DEFINE a == Append(o, x)
           b == Append(Bar(o, v), v[x])
<1>1. x # Stub /\ v[x] \in 0 .. MaxValues /\ x \in Nodes \cup {Stub}
  BY NodeAssumption, Zenon DEF IsHeap
<1>2. ASSUME NEW n \in Nat, Len(o) = n, \A i \in 1 .. n : o[i] # Stub
      PROVE  Bar(a, v) = b
  <2>1. /\ IsList(a) /\ Len(a) = n + 1
        /\ \A i \in 1 .. n : a[i] = o[i]
        /\ a[n + 1] = x
    BY <1>1, <1>2, AppendFacts, SMT
  <2>2. /\ Bar(o, v) \in Seq(0 .. MaxValues) /\ Len(Bar(o, v)) = n
        /\ \A i \in 1 .. n : Bar(o, v)[i] = v[o[i]]
    BY <1>2, BarOfPlain, Zenon
  <2>3. /\ b \in Seq(0 .. MaxValues) /\ Len(b) = n + 1
        /\ \A i \in 1 .. n : b[i] = Bar(o, v)[i]
        /\ b[n + 1] = v[x]
    BY <1>1, <2>2, Appended, SMT
  <2> HIDE DEF a, b
  <2>4. n + 1 \in Nat /\ \A i \in 1 .. n + 1 : i \in 1 .. n \/ i = n + 1
    BY SMT
  <2>5. \A i \in 1 .. n + 1 : a[i] # Stub
    BY <1>1, <1>2, <2>1, <2>4, Zenon
  <2>6. /\ Bar(a, v) \in Seq(0 .. MaxValues) /\ Len(Bar(a, v)) = n + 1
        /\ \A i \in 1 .. n + 1 : Bar(a, v)[i] = v[a[i]]
    BY <2>1, <2>4, <2>5, BarOfPlain, SMT
  <2>7. ASSUME NEW i \in 1 .. n + 1
        PROVE  Bar(a, v)[i] = b[i]
    <3>1. CASE i \in 1 .. n
      BY <2>1, <2>2, <2>3, <2>6, <3>1, SMT
    <3>2. CASE i = n + 1
      BY <2>1, <2>3, <2>6, <3>2, Zenon
    <3>3. QED
      BY <2>4, <3>1, <3>2, Zenon
  <2>8. QED
    BY <2>3, <2>6, <2>7, SameSeq, SMT
<1>3. ASSUME NEW n \in Nat, Len(o) = n + 1, NEW k \in 1 .. n + 1, o[k] = Stub
      PROVE  Bar(a, v) = b
  <2>0. /\ n + 1 \in Nat /\ k \in 1 .. (n + 1) + 1
        /\ \A i \in 1 .. n + 1 : \/ i \in 1 .. n /\ i + 1 \in 1 .. n + 1
                                 \/ i = n + 1 /\ ~(i < k)
    BY SMT
  <2>1. /\ IsList(a) /\ Len(a) = (n + 1) + 1
        /\ \A i \in 1 .. n + 1 : a[i] = o[i]
        /\ a[(n + 1) + 1] = x
    BY <1>1, <1>3, <2>0, AppendFacts, SMT
  <2>2. /\ Bar(o, v) \in Seq(0 .. MaxValues) /\ Len(Bar(o, v)) = n
        /\ \A i \in 1 .. n : Bar(o, v)[i] = IF i < k THEN v[o[i]] ELSE v[o[i + 1]]
    BY <1>3, BarOfStub, Zenon
  <2>3. /\ b \in Seq(0 .. MaxValues) /\ Len(b) = n + 1
        /\ \A i \in 1 .. n : b[i] = Bar(o, v)[i]
        /\ b[n + 1] = v[x]
    BY <1>1, <2>2, Appended, SMT
  <2> HIDE DEF a, b
  <2>4. n + 1 \in Nat /\ IsList(a) /\ Len(a) = (n + 1) + 1 /\ a[k] = Stub
        /\ k \in 1 .. (n + 1) + 1
    BY <1>3, <2>0, <2>1, Zenon
  <2>5. /\ Bar(a, v) \in Seq(0 .. MaxValues) /\ Len(Bar(a, v)) = n + 1
        /\ \A i \in 1 .. n + 1 : Bar(a, v)[i] = IF i < k THEN v[a[i]] ELSE v[a[i + 1]]
    BY <2>4, BarOfStub, Zenon
  <2>6. ASSUME NEW i \in 1 .. n + 1
        PROVE  Bar(a, v)[i] = b[i]
    <3>1. CASE i \in 1 .. n /\ i + 1 \in 1 .. n + 1
      <4>1. a[i] = o[i] /\ a[i + 1] = o[i + 1]
        BY <2>1, <3>1, Zenon
      <4>2. QED
        BY <2>2, <2>3, <2>5, <3>1, <4>1, Zenon
    <3>2. CASE i = n + 1 /\ ~(i < k)
      BY <2>1, <2>3, <2>5, <3>2, Zenon
    <3>3. QED
      BY <2>0, <3>1, <3>2, Zenon
  <2>7. QED
    BY <2>3, <2>5, <2>6, SameSeq, SMT
<1>4. QED
  BY <1>2, <1>3, ListKinds, Zenon

(* The stub at the end of the list, or taken from its front, is no value.  *)
LEMMA BarOfLastStub ==
  ASSUME NEW o, NEW v, IsList(o), IsHeap(v), \A i \in 1 .. Len(o) : o[i] # Stub
  PROVE  Bar(Append(o, Stub), v) = Bar(o, v)
<1> DEFINE a == Append(o, Stub)
<1>1. PICK n \in Nat : n = Len(o)
  BY LenProperties, Zenon DEF IsList
<1>2. Len(o) = n /\ (\A i \in 1 .. n : o[i] # Stub) /\ Stub \in Nodes \cup {Stub}
  BY <1>1, Zenon
<1>3. /\ IsList(a) /\ Len(a) = n + 1
      /\ \A i \in 1 .. n : a[i] = o[i]
      /\ a[n + 1] = Stub
  BY <1>2, AppendFacts, SMT
<1> HIDE DEF a
<1>4. n + 1 \in 1 .. n + 1 /\ \A i \in 1 .. n : i < n + 1
  BY SMT
<1>5. /\ Bar(o, v) \in Seq(0 .. MaxValues) /\ Len(Bar(o, v)) = n
      /\ \A i \in 1 .. n : Bar(o, v)[i] = v[o[i]]
  BY <1>2, BarOfPlain, Zenon
<1>6. /\ Bar(a, v) \in Seq(0 .. MaxValues) /\ Len(Bar(a, v)) = n
      /\ \A i \in 1 .. n : Bar(a, v)[i] = IF i < n + 1 THEN v[a[i]] ELSE v[a[i + 1]]
  <2>1. IsList(a) /\ Len(a) = n + 1 /\ n + 1 \in 1 .. n + 1 /\ a[n + 1] = Stub
    BY <1>3, <1>4, Zenon
  <2>2. QED
    BY <2>1, BarOfStub, Zenon
<1>7. \A i \in 1 .. n : Bar(a, v)[i] = Bar(o, v)[i]
  BY <1>3, <1>4, <1>5, <1>6, Zenon
<1>8. Bar(a, v) = Bar(o, v)
  BY <1>5, <1>6, <1>7, SameSeq, SMT
<1>9. QED
  BY <1>8 DEF a

LEMMA TailFacts ==
  ASSUME NEW o, NEW n \in Nat, IsList(o), Len(o) = n + 1
  PROVE  /\ IsList(Tail(o)) /\ Len(Tail(o)) = n
         /\ \A i \in 1 .. n : Tail(o)[i] = o[i + 1]
<1> DEFINE a == Tail(o)
<1>1. /\ a \in Seq(Nodes \cup {Stub}) /\ Len(a) = n
      /\ \A i \in 1 .. n : a[i] = o[i + 1]
  BY Tailed, SMT DEF IsList
<1> HIDE DEF a
<1>2. ASSUME NEW i \in 1 .. n, NEW j \in 1 .. n, a[i] = a[j]
      PROVE  i = j
  <2>1. i + 1 \in 1 .. n + 1 /\ j + 1 \in 1 .. n + 1
    BY SMT
  <2>2. i + 1 = j + 1
    BY <1>1, <1>2, <2>1, Zenon DEF IsList
  <2>3. QED
    BY <2>2, SMT
<1>3. IsList(a)
  BY <1>1, <1>2, Zenon DEF IsList
<1>4. QED
  BY <1>1, <1>3 DEF a

LEMMA BarOfFirstStub ==
  ASSUME NEW o, NEW v, NEW n \in Nat, IsList(o), IsHeap(v), Len(o) = n + 1, o[1] = Stub
  PROVE  Bar(Tail(o), v) = Bar(o, v)
<1> DEFINE a == Tail(o)
<1>1. /\ IsList(a) /\ Len(a) = n
      /\ \A i \in 1 .. n : a[i] = o[i + 1]
  BY TailFacts, Zenon
<1> HIDE DEF a
<1>2. /\ 1 \in 1 .. n + 1
      /\ \A i \in 1 .. n : i + 1 \in 1 .. n + 1 /\ i + 1 # 1 /\ ~(i < 1)
  BY SMT
<1>3. \A i \in 1 .. n : a[i] # Stub
  BY <1>1, <1>2, Zenon DEF IsList
<1>4. /\ Bar(a, v) \in Seq(0 .. MaxValues) /\ Len(Bar(a, v)) = n
      /\ \A i \in 1 .. n : Bar(a, v)[i] = v[a[i]]
  BY <1>1, <1>3, BarOfPlain, SMT
<1>5. /\ Bar(o, v) \in Seq(0 .. MaxValues) /\ Len(Bar(o, v)) = n
      /\ \A i \in 1 .. n : Bar(o, v)[i] = IF i < 1 THEN v[o[i]] ELSE v[o[i + 1]]
  BY <1>2, BarOfStub, Zenon
<1>6. \A i \in 1 .. n : Bar(a, v)[i] = Bar(o, v)[i]
  BY <1>1, <1>2, <1>4, <1>5, Zenon
<1>7. Bar(a, v) = Bar(o, v)
  BY <1>4, <1>5, <1>6, SameSeq, SMT
<1>8. QED
  BY <1>7 DEF a

(* A node taken from the front of the list is the first value.             *)
LEMMA BarOfFirstNode ==
  ASSUME NEW o, NEW v, NEW n \in Nat, IsList(o), IsHeap(v), Len(o) = n + 1, o[1] # Stub
  PROVE  /\ Bar(o, v) # <<>> /\ Head(Bar(o, v)) = v[o[1]]
         /\ Bar(Tail(o), v) = Tail(Bar(o, v))
<1> DEFINE a == Tail(o)
           q == Bar(o, v)
<1>1. /\ IsList(a) /\ Len(a) = n
      /\ \A i \in 1 .. n : a[i] = o[i + 1]
  BY TailFacts, Zenon
<1> HIDE DEF a
<1>2. ASSUME NEW m \in Nat, q \in Seq(0 .. MaxValues), Len(q) = m + 1,
             q[1] = v[o[1]], Bar(a, v) \in Seq(0 .. MaxValues), Len(Bar(a, v)) = m,
             \A i \in 1 .. m : Bar(a, v)[i] = q[i + 1]
      PROVE  q # <<>> /\ Head(q) = v[o[1]] /\ Bar(a, v) = Tail(q)
  <2> HIDE DEF q
  <2>1. /\ q # <<>> /\ Head(q) = q[1]
        /\ Tail(q) \in Seq(0 .. MaxValues) /\ Len(Tail(q)) = m
        /\ \A i \in 1 .. m : Tail(q)[i] = q[i + 1]
    BY <1>2, Tailed, SMT
  <2>2. \A i \in 1 .. m : Bar(a, v)[i] = Tail(q)[i]
    BY <1>2, <2>1, Zenon
  <2>3. Bar(a, v) = Tail(q)
    BY <1>2, <2>1, <2>2, SameSeq, SMT
  <2>4. QED
    BY <1>2, <2>1, <2>3, Zenon
<1>3. CASE \A i \in 1 .. n + 1 : o[i] # Stub
  <2>1. /\ n + 1 \in Nat /\ 1 \in 1 .. n + 1
        /\ \A i \in 1 .. n : i + 1 \in 1 .. n + 1
    BY SMT
  <2>2. \A i \in 1 .. n : a[i] # Stub
    BY <1>1, <1>3, <2>1, Zenon
  <2>3. /\ q \in Seq(0 .. MaxValues) /\ Len(q) = n + 1
        /\ \A i \in 1 .. n + 1 : q[i] = v[o[i]]
    BY <1>3, <2>1, BarOfPlain, Zenon
  <2>4. /\ Bar(a, v) \in Seq(0 .. MaxValues) /\ Len(Bar(a, v)) = n
        /\ \A i \in 1 .. n : Bar(a, v)[i] = v[a[i]]
    BY <1>1, <2>2, BarOfPlain, SMT
  <2> HIDE DEF q
  <2>5. q[1] = v[o[1]] /\ \A i \in 1 .. n : Bar(a, v)[i] = q[i + 1]
    BY <1>1, <2>1, <2>3, <2>4, SMT
  <2>6. q # <<>> /\ Head(q) = v[o[1]] /\ Bar(a, v) = Tail(q)
    BY <1>2, <2>3, <2>4, <2>5, Zenon
  <2>7. QED
    BY <2>6 DEF a, q
<1>4. ASSUME NEW k \in 1 .. n + 1, o[k] = Stub
      PROVE  q # <<>> /\ Head(q) = v[o[1]] /\ Bar(a, v) = Tail(q)
  <2>1. /\ q \in Seq(0 .. MaxValues) /\ Len(q) = n
        /\ \A i \in 1 .. n : q[i] = IF i < k THEN v[o[i]] ELSE v[o[i + 1]]
    BY <1>4, BarOfStub, Zenon
  <2>2. k # 1
    BY <1>4, Zenon
  <2>3. PICK m \in Nat : n = m + 1
    <3>1. n - 1 \in Nat /\ n = (n - 1) + 1
      BY <2>2, SMT
    <3>2. QED
      BY <3>1, Zenon
  <2>4. PICK l \in 1 .. m + 1 : k = l + 1
    <3>1. k - 1 \in 1 .. m + 1 /\ k = (k - 1) + 1
      BY <2>2, <2>3, SMT
    <3>2. QED
      BY <3>1, Zenon
  <2>5. /\ l \in 1 .. n /\ 1 \in 1 .. n /\ 1 < k /\ Len(a) = m + 1
        /\ \A i \in 1 .. m : i \in 1 .. n /\ i + 1 \in 1 .. n /\ (i < l <=> i + 1 < k)
    BY <1>1, <2>3, <2>4, SMT
  <2>6. IsList(a) /\ Len(a) = m + 1 /\ a[l] = Stub
    BY <1>1, <1>4, <2>4, <2>5, Zenon
  <2>7. /\ Bar(a, v) \in Seq(0 .. MaxValues) /\ Len(Bar(a, v)) = m
        /\ \A i \in 1 .. m : Bar(a, v)[i] = IF i < l THEN v[a[i]] ELSE v[a[i + 1]]
    BY <2>6, BarOfStub, Zenon
  <2> HIDE DEF q
  <2>8. ASSUME NEW i \in 1 .. m
        PROVE  Bar(a, v)[i] = q[i + 1]
    <3>1. a[i] = o[i + 1] /\ a[i + 1] = o[(i + 1) + 1]
      BY <1>1, <2>5, Zenon
    <3>2. /\ Bar(a, v)[i] = IF i < l THEN v[o[i + 1]] ELSE v[o[(i + 1) + 1]]
          /\ i + 1 \in 1 .. n /\ (i < l <=> i + 1 < k)
      BY <2>5, <2>7, <3>1, Zenon
    <3>3. q[i + 1] = IF i + 1 < k THEN v[o[i + 1]] ELSE v[o[(i + 1) + 1]]
      BY <2>1, <3>2, Zenon
    <3>4. QED
      BY <3>2, <3>3, Zenon
  <2>9. q[1] = v[o[1]] /\ Len(q) = m + 1
    BY <2>1, <2>3, <2>5, Zenon
  <2>10. QED
    BY <1>2, <2>1, <2>7, <2>8, <2>9, Zenon
<1>5. QED
  BY <1>3, <1>4, Zenon DEF a, q
(* The list and the heap of the queue are of this form, before and after a *)
(* step.                                                                   *)
LEMMA BarFacts ==
  ASSUME IInv
  PROVE  IsList(order) /\ IsHeap(value) /\ queueBar = Bar(order, value)
<1>1. IsList(order) /\ IsHeap(value)
  BY Zenon DEF IInv, TypeOK, ListIsDistinct, IsList, IsHeap
<1>2. queueBar = Bar(order, value)
  BY Zenon DEF queueBar, StubAt, Bar, Size, Place
<1>3. QED
  BY <1>1, <1>2

LEMMA NextBarFacts ==
  ASSUME IInv'
  PROVE  IsList(order') /\ IsHeap(value') /\ queueBar' = Bar(order', value')
<1>1. IsList(order') /\ IsHeap(value')
  BY Zenon DEF IInv, TypeOK, ListIsDistinct, IsList, IsHeap
<1>2. queueBar' = Bar(order', value')
  BY Zenon DEF queueBar, StubAt, Bar, Size, Place
<1>3. QED
  BY <1>1, <1>2

(* Taking the first node consumes the first value.                         *)
LEMMA TakeConsumes ==
  ASSUME IInv, IInv', consumeEnd # Stub, order' = Tail(order),
         out' = value[consumeEnd], value' = value
  PROVE  Fifo!Consume
<1>1. Len(order) \in Nat /\ Len(order) >= 1 /\ order[1] = consumeEnd
  BY OrderFacts, Zenon DEF IInv, ListHasEnds
<1>2. PICK n \in Nat : Len(order) = n + 1
  <2>1. Len(order) - 1 \in Nat /\ Len(order) = (Len(order) - 1) + 1
    BY <1>1, SMT
  <2>2. QED
    BY <2>1, Zenon
<1>3. /\ Bar(order, value) # <<>> /\ Head(Bar(order, value)) = value[order[1]]
      /\ Bar(Tail(order), value) = Tail(Bar(order, value))
  <2>1. IsList(order) /\ IsHeap(value) /\ order[1] # Stub
    BY <1>1, BarFacts, Zenon
  <2>2. QED
    BY <1>2, <2>1, BarOfFirstNode, Zenon
<1>4. queueBar = Bar(order, value) /\ queueBar' = Bar(order', value')
  BY BarFacts, NextBarFacts, Zenon
<1>5. /\ queueBar # <<>> /\ out' = Head(queueBar) /\ queueBar' = Tail(queueBar)
  BY <1>1, <1>3, <1>4, Zenon
<1>6. QED
  BY <1>5, Zenon DEF Fifo!Consume

(* Every step of the queue is one of the FIFO queue.                       *)
LEMMA StepIsFifo ==
  ASSUME IInv, IInv', [Next]_vars
  PROVE  [Fifo!Next]_(Fifo!vars)
<1>1. ASSUME order' = order, value' = value
      PROVE  queueBar' = queueBar
  BY <1>1, BarFacts, NextBarFacts, Zenon
<1>2. ASSUME NEW p \in Producers, Produce(p)
      PROVE  queueBar' = queueBar /\ out' = out
  <2>1. PICK n \in Nodes \ allocated : value' = [value EXCEPT ![n] = produced + 1]
    BY <1>2, Zenon DEF Produce
  <2>2. order' = order /\ out' = out
    BY <1>2, Zenon DEF Produce, consVars
  <2>3. ASSUME NEW i \in 1 .. Len(order), order[i] # Stub
        PROVE  value[order[i]] = value'[order[i]]
    <3>1. InList(order[i])
      BY Zenon DEF InList
    <3>2. order[i] \in allocated
      BY <2>3, <3>1, CellFacts, Zenon
    <3>3. order[i] # n
      BY <2>1, <3>2, Zenon
    <3>4. value \in [Nodes \cup {Stub} -> 0 .. MaxValues] /\ order[i] \in Nodes \cup {Stub}
      BY <3>1, CellFacts, BarFacts, Zenon DEF IsHeap
    <3>5. QED
      BY <2>1, <3>3, <3>4, SMT
  <2>4. IsList(order) /\ IsHeap(value) /\ IsHeap(value')
    BY BarFacts, NextBarFacts, Zenon
  <2>5. Bar(order, value) = Bar(order, value')
    BY <2>3, <2>4, BarOfValues, Zenon
  <2>6. QED
    BY <2>2, <2>5, BarFacts, NextBarFacts, Zenon
<1>3. ASSUME NEW p \in Producers, Exchange(p)
      PROVE  \E v \in Values : Fifo!Produce(v)
  <2>1. /\ pat[p] = "exchange" /\ order' = Append(order, pnode[p]) /\ value' = value
        /\ out' = out
    BY <1>3, Zenon DEF Exchange, heapVars, consVars
  <2>2. pat[p] # "idle"
    BY <2>1, SMT
  <2>3. pnode[p] \in Nodes /\ ~InList(pnode[p]) /\ value[pnode[p]] \in Values
    BY <2>1, <2>2, CellFacts, Zenon DEF IInv, NodesAreOwn, NewNodesAreOutside
  <2>4. \A i \in 1 .. Len(order) : order[i] # pnode[p]
    BY <2>3, Zenon DEF InList
  <2>5. IsList(order) /\ IsHeap(value)
    BY BarFacts, Zenon
  <2>6. Bar(Append(order, pnode[p]), value) = Append(Bar(order, value), value[pnode[p]])
    BY <2>3, <2>4, <2>5, BarOfNode, Zenon
  <2>7. queueBar' = Append(queueBar, value[pnode[p]])
    BY <2>1, <2>6, BarFacts, NextBarFacts, Zenon
  <2>8. QED
    BY <2>1, <2>3, <2>7, Zenon DEF Fifo!Produce
<1>4. ASSUME NEW p \in Producers, Link(p)
      PROVE  queueBar' = queueBar /\ out' = out
  <2>1. order' = order /\ value' = value /\ out' = out
    BY <1>4, Zenon DEF Link, consVars
  <2>2. QED
    BY <1>1, <2>1, Zenon
<1>5. ASSUME ReturnNothing
      PROVE  Fifo!ConsumeNothing
  <2>1. order' = order /\ value' = value /\ out' = Nothing
    BY <1>5, Zenon DEF ReturnNothing, heapVars
  <2>2. QED
    BY <1>1, <2>1, Zenon DEF Fifo!ConsumeNothing
<1>6. ASSUME NEW at, Goto(at)
      PROVE  queueBar' = queueBar /\ out' = out
  <2>1. order' = order /\ value' = value /\ out' = out
    BY <1>6, Zenon DEF Goto, heapVars
  <2>2. QED
    BY <1>1, <2>1, Zenon
<1>7. ASSUME Take(consumeEnd), consumeEnd # Stub
      PROVE  Fifo!Consume
  <2>1. order' = Tail(order) /\ out' = value[consumeEnd] /\ value' = value
    BY <1>7, Zenon DEF Take
  <2>2. QED
    BY <1>7, <2>1, TakeConsumes, Zenon
<1>8. ASSUME ConsumeStub
      PROVE  queueBar' = queueBar /\ out' = out
  <2>1. consumeEnd = Stub /\ order' = Tail(order) /\ value' = value /\ out' = out
    BY <1>8, Zenon DEF ConsumeStub, heapVars
  <2>2. Len(order) \in Nat /\ Len(order) >= 1 /\ order[1] = consumeEnd
    BY OrderFacts, Zenon DEF IInv, ListHasEnds
  <2>3. PICK n \in Nat : Len(order) = n + 1
    <3>1. Len(order) - 1 \in Nat /\ Len(order) = (Len(order) - 1) + 1
      BY <2>2, SMT
    <3>2. QED
      BY <3>1, Zenon
  <2>4. IsList(order) /\ IsHeap(value) /\ order[1] = Stub
    BY <2>1, <2>2, BarFacts, Zenon
  <2>5. Bar(Tail(order), value) = Bar(order, value)
    BY <2>3, <2>4, BarOfFirstStub, Zenon
  <2>6. QED
    BY <2>1, <2>5, BarFacts, NextBarFacts, Zenon
<1>9. ASSUME ExchangeStub
      PROVE  queueBar' = queueBar /\ out' = out
  <2>1. cat = "exchange" /\ order' = Append(order, Stub) /\ value' = value /\ out' = out
    BY <1>9, Zenon DEF ExchangeStub, heapVars
  <2>2. cat \in {"reset", "exchange"}
    BY <2>1, Zenon
  <2>3. \A i \in 1 .. Len(order) : order[i] # Stub
    BY <2>2, Zenon DEF IInv, ConsumerAtFirst, InList
  <2>4. IsList(order) /\ IsHeap(value)
    BY BarFacts, Zenon
  <2>5. Bar(Append(order, Stub), value) = Bar(order, value)
    BY <2>3, <2>4, BarOfLastStub, Zenon
  <2>6. QED
    BY <2>1, <2>5, BarFacts, NextBarFacts, Zenon
<1>10. ASSUME ResetStub \/ LinkStub \/ UNCHANGED vars
       PROVE  queueBar' = queueBar /\ out' = out
  <2>1. order' = order /\ value' = value /\ out' = out
    BY <1>10, Zenon DEF ResetStub, LinkStub, vars, heapVars, consVars
  <2>2. QED
    BY <1>1, <2>1, Zenon
<1>11. ASSUME cat # "idle"
       PROVE  cnode = consumeEnd /\ consumeEnd # Stub
  BY <1>11, Zenon DEF IInv, ConsumerAtFirst
<1>12. ASSUME ConsumeEmpty \/ ConsumeNode \/ ConsumeLast
       PROVE  \/ Fifo!Consume \/ Fifo!ConsumeNothing
              \/ queueBar' = queueBar /\ out' = out
  BY <1>5, <1>6, <1>7, <1>12, Zenon DEF ConsumeEmpty, ConsumeNode, ConsumeLast
<1>13. ASSUME Reread \/ CheckLast \/ Again
       PROVE  \/ Fifo!Consume \/ Fifo!ConsumeNothing
              \/ queueBar' = queueBar /\ out' = out
  <2>1. cat # "idle"
    BY <1>13, SMT DEF Reread, CheckLast, Again
  <2>2. cnode = consumeEnd /\ consumeEnd # Stub
    BY <1>11, <2>1
  <2>3. \/ Take(cnode) \/ ReturnNothing \/ \E at : Goto(at)
    BY <1>13, Zenon DEF Reread, CheckLast, Again
  <2>4. QED
    BY <1>5, <1>6, <1>7, <2>2, <2>3, Zenon
<1>14. \/ Fifo!Next
       \/ queueBar' = queueBar /\ out' = out
  BY <1>2, <1>3, <1>4, <1>8, <1>9, <1>10, <1>12, <1>13, Zenon
     DEF Next, Consumer, Fifo!Next
<1>15. QED
  BY <1>14, Zenon DEF Fifo!vars

(* MpscQueue implements the FIFO queue: each value comes out once, in the  *)
(* order of the exchanges, whatever the threads do in between.             *)
THEOREM QueueIsFifo == Spec => ImplementsFifo
<1>1. Init => Fifo!Init
  <2>1. SUFFICES ASSUME Init PROVE queueBar = <<>> /\ out = Nothing
    BY DEF Fifo!Init
  <2>2. PICK n \in Nat : n = 0
    BY SMT
  <2>3. order = <<Stub>> /\ out = Nothing
    BY <2>1 DEF Init
  <2>4. IInv
    BY <2>1, InitEstablishes
  <2>5. IsList(order) /\ IsHeap(value) /\ queueBar = Bar(order, value)
    BY <2>4, BarFacts
  <2>6. Len(order) = n + 1 /\ order[1] = Stub /\ 1 \in 1 .. n + 1
    BY <2>2, <2>3, SMT
  <2>7. Bar(order, value) \in Seq(0 .. MaxValues) /\ Len(Bar(order, value)) = n
    BY <2>5, <2>6, BarOfStub, Zenon
  <2>8. queueBar = <<>>
    BY <2>2, <2>5, <2>7, EmptySeq, SMT
  <2>9. QED
    BY <2>3, <2>8
<1>2. IInv /\ IInv' /\ [Next]_vars => [Fifo!Next]_(Fifo!vars)
  BY StepIsFifo
<1>3. QED
  BY <1>1, <1>2, IInvHolds, PTL DEF Spec, ImplementsFifo, Fifo!Spec
-----------------------------------------------------------------------------
(* A list that stands for no value has nothing behind its first node.      *)
LEMMA EmptyIfAlone ==
  ASSUME IInv, Len(order) = 1, order[1] = Stub
  PROVE  queueBar = <<>>
<1>1. PICK n \in Nat : n = 0
  BY SMT
<1>2. Len(order) = n + 1 /\ 1 \in 1 .. n + 1
  BY <1>1, SMT
<1>3. IsList(order) /\ IsHeap(value) /\ queueBar = Bar(order, value)
  BY BarFacts
<1>4. Bar(order, value) \in Seq(0 .. MaxValues) /\ Len(Bar(order, value)) = n
  BY <1>2, <1>3, BarOfStub, Zenon
<1>5. QED
  BY <1>1, <1>3, <1>4, EmptySeq, SMT

(* If the first node has no successor yet, somebody is about to link one.  *)
LEMMA SomebodyLinks ==
  ASSUME IInv, Len(order) # 1, next[consumeEnd] = Null, cat # "link"
  PROVE  \E p \in Producers : pat[p] = "link"
<1>1. /\ TypeOK /\ ListHasEnds /\ ListIsLinked /\ Len(order) \in Nat
      /\ \A i \in 1 .. Len(order) : order[i] \in Nodes \cup {Stub}
  BY OrderFacts, Zenon DEF IInv
<1>2. 1 \in 1 .. Len(order) - 1 /\ 1 + 1 \in 1 .. Len(order)
  <2>1. Len(order) >= 1
    BY <1>1, Zenon DEF ListHasEnds
  <2>2. \A n \in Nat : n >= 1 /\ n # 1 => 1 \in 1 .. n - 1 /\ 1 + 1 \in 1 .. n
    BY SMT
  <2>3. QED
    BY <1>1, <2>1, <2>2, Zenon
<1>3. Linking(consumeEnd, order[1 + 1]) /\ order[1 + 1] # Null
  BY <1>1, <1>2, NodeAssumption, Zenon DEF ListHasEnds, ListIsLinked
<1>4. QED
  BY <1>3, Zenon DEF Linking

(* consume() misses no value that was there, completely produced, when it  *)
(* was called.                                                             *)
THEOREM NothingIsMissed == Spec => NothingOnlyIfBusy
<1>1. ASSUME IInv, [Next]_vars, cat' = "idle", out' = Nothing,
             cat # "idle" \/ ConsumeEmpty
      PROVE  queueBar = <<>> \/ raced \/ \E p \in Producers : pat[p] = "link"
  <2>1. /\ ListHasEnds /\ ListIsLive /\ ConsumerAtFirst /\ RaceIsSeen /\ Len(order) \in Nat
    BY <1>1, OrderFacts, Zenon DEF IInv
  <2>2. CASE ConsumeEmpty
    <3>1. consumeEnd = Stub /\ next[consumeEnd] = Null /\ cat # "link"
      BY <2>2, Zenon DEF ConsumeEmpty
    <3>2. CASE Len(order) = 1
      <4>1. order[1] = Stub
        BY <2>1, <3>1, Zenon DEF ListHasEnds
      <4>2. QED
        BY <1>1, <3>2, <4>1, EmptyIfAlone, Zenon
    <3>3. CASE Len(order) # 1
      BY <1>1, <3>1, <3>3, SomebodyLinks, Zenon
    <3>4. QED
      BY <3>2, <3>3
  <2>3. CASE cat # "idle"
    <3>1. cnode = consumeEnd /\ consumeEnd # Stub
      BY <2>1, <2>3, Zenon DEF ConsumerAtFirst
    <3>2. ~Take(cnode)
      <4>1. consumeEnd \in Nodes /\ InList(consumeEnd)
        BY <1>1, <3>1, CellFacts, Zenon
      <4>2. value[consumeEnd] \in Values
        BY <2>1, <4>1, Zenon DEF ListIsLive
      <4>3. value[consumeEnd] # Nothing
        BY <4>2, NodeAssumption, SMT DEF Values, Nothing
      <4>4. QED
        BY <1>1, <3>1, <4>3, Zenon DEF Take
    <3>3. CASE CheckLast
      <4>1. cat = "check" /\ cnode # produceEnd
        <5>1. ~Goto("reset")
          BY <1>1, Zenon DEF Goto
        <5>2. QED
          BY <3>3, <5>1, Zenon DEF CheckLast
      <4>2. Len(order) # 1
        BY <2>1, <3>1, <4>1, Zenon DEF ListHasEnds
      <4>3. cat # "link" /\ cat \in {"check", "reset", "exchange"}
        BY <4>1, SMT
      <4>4. next[consumeEnd] # Null => raced
        BY <2>1, <3>1, <4>3, Zenon DEF RaceIsSeen
      <4>5. QED
        BY <1>1, <4>2, <4>3, <4>4, SomebodyLinks, Zenon
    <3>4. CASE Again
      <4>1. cat = "again" /\ next[consumeEnd] = Null /\ cat # "link"
        BY <3>1, <3>2, <3>4, Zenon DEF Again
      <4>2. InList(Stub)
        BY <2>1, <4>1, Zenon DEF ConsumerAtFirst
      <4>3. PICK i \in 1 .. Len(order) : order[i] = Stub
        BY <4>2, Zenon DEF InList
      <4>4. i # 1
        BY <2>1, <3>1, <4>3, Zenon DEF ListHasEnds
      <4>5. Len(order) # 1
        <5>1. \A j \in 1 .. 1 : j = 1
          BY SMT
        <5>2. QED
          BY <4>3, <4>4, <5>1, Zenon
      <4>6. QED
        BY <1>1, <4>1, <4>5, SomebodyLinks, Zenon
    <3>5. ~Reread
      <4>1. ~Goto("check")
        BY <1>1, Zenon DEF Goto
      <4>2. QED
        BY <3>2, <4>1, Zenon DEF Reread
    <3>6. ~(ConsumeEmpty \/ ConsumeStub \/ ConsumeNode \/ ConsumeLast)
      BY <2>3, Zenon DEF ConsumeEmpty, ConsumeStub, ConsumeNode, ConsumeLast
    <3>7. ~(ResetStub \/ ExchangeStub \/ LinkStub)
      BY <1>1, Zenon DEF ResetStub, ExchangeStub, LinkStub
    <3>8. ~(UNCHANGED vars \/ \E p \in Producers : Produce(p) \/ Exchange(p) \/ Link(p))
      BY <1>1, <2>3, Zenon DEF vars, consVars, Produce, Exchange, Link
    <3>9. QED
      BY <1>1, <3>3, <3>4, <3>5, <3>6, <3>7, <3>8, Zenon DEF Next, Consumer
  <2>4. QED
    BY <1>1, <2>2, <2>3
<1>2. IInv /\ [Next]_vars
        => [cat' = "idle" /\ out' = Nothing /\ (cat # "idle" \/ ConsumeEmpty)
              => queueBar = <<>> \/ raced \/ \E p \in Producers : pat[p] = "link"]_vars
  BY <1>1
<1>3. QED
  BY <1>2, IInvHolds, PTL DEF Spec, NothingOnlyIfBusy
=============================================================================
