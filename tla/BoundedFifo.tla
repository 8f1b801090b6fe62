---------------------------- MODULE BoundedFifo ----------------------------
(***************************************************************************)
(* What a bounded queue promises to its two callers: values leave in the   *)
(* order in which they entered, whole, once, and there are never more than *)
(* Bound of them inside.  core/lockfree_queue.h promises this of           *)
(* LockFreeQueue; module LockFreeQueue is shown to implement it.           *)
(***************************************************************************)
EXTENDS Naturals, Sequences

CONSTANTS Value,     \* what may be put into the queue
          Nothing,   \* the contents of `out' before the first Dequeue
          Bound      \* how many values fit

VARIABLES queue,     \* the values inside, oldest first
          out        \* the value the last Dequeue handed out

fifoVars == <<queue, out>>

FifoInit == queue = << >> /\ out = Nothing

Enqueue == /\ Len(queue) < Bound
           /\ \E v \in Value : queue' = Append(queue, v)
           /\ out' = out

Dequeue == /\ queue # << >>
           /\ out' = Head(queue)
           /\ queue' = Tail(queue)

FifoNext == Enqueue \/ Dequeue

FifoSpec == FifoInit /\ [][FifoNext]_fifoVars
=============================================================================
