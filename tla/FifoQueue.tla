----------------------------- MODULE FifoQueue ------------------------------
(***************************************************************************)
(* What MpscQueue promises: values come out once each, in the order in     *)
(* which they went in.  consume() may also return nothing.                 *)
(***************************************************************************)
EXTENDS Sequences

CONSTANTS Values, Nothing

VARIABLES
  queue,  \* values produced and not yet consumed
  out     \* what the last call of consume() returned

vars == <<queue, out>>

Init == queue = <<>> /\ out = Nothing

Produce(v) == queue' = Append(queue, v) /\ UNCHANGED out

Consume == queue # <<>> /\ out' = Head(queue) /\ queue' = Tail(queue)

ConsumeNothing == out' = Nothing /\ UNCHANGED queue

Next == (\E v \in Values : Produce(v)) \/ Consume \/ ConsumeNothing

Spec == Init /\ [][Next]_vars
=============================================================================
