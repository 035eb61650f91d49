----------------------------- MODULE RingQueue ------------------------------
(***************************************************************************)
(* The ring buffer on its own, driven by any sequence of legal calls: the  *)
(* specification shown to implement BoundedFifo.                           *)
(***************************************************************************)
EXTENDS DiameterQueueInput

VARIABLE popped   \* the struct the last pop_from_queue returned

vars == <<queue, popped>>

Init == InitQueue /\ popped = NoData

Push(d, count) == CheckAndPush(d, count) /\ UNCHANGED popped

Pop == /\ popped' \in Data \cup {NoData}
       /\ PopFromQueue(popped')

Next == Pop \/ \E d \in Data, count \in {0, 1} : Push(d, count)

Spec == Init /\ [][Next]_vars

-----------------------------------------------------------------------------
\* Types of the ring and of the value pop_from_queue returned last.
TypeOK == QueueType /\ popped \in Data \cup {NoData}

\* first, last and n always describe the same stretch of slots, across every
\* wrap-around of either index, and each slot of it holds a pushed value.
RingConsistent == QueueInv

Fifo == INSTANCE BoundedFifo
          WITH Capacity <- MAX_SIZE_QUEUE, Values <- Data, NoValue <- NoData,
               items <- Contents, taken <- popped

\* The three indices implement a first-in first-out buffer: pushes are taken
\* out in order, once each, and a push on a full ring changes nothing.
ImplementsFifo == Fifo!Spec
=============================================================================
