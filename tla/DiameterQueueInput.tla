------------------------- MODULE DiameterQueueInput -------------------------
(***************************************************************************)
(* The bounded ring buffer of Server/diameter_queue_input.c: one action    *)
(* formula per function.  The functions themselves take no lock; their     *)
(* callers in NIOQueueServer.c hold queue_mutex around every call, so one  *)
(* call is one step.                                                       *)
(***************************************************************************)
EXTENDS Integers, Sequences

CONSTANTS
  MAX_SIZE_QUEUE,  \* number of slots of the ring
  Data,            \* the struct d_queue_data values that are ever pushed
  NoData           \* a slot, or a returned struct, that holds no pushed value

ASSUME QueueAssumption ==
  /\ MAX_SIZE_QUEUE \in Nat \ {0}
  /\ NoData \notin Data

VARIABLE queue     \* the global struct d_queue

Slots == 0 .. MAX_SIZE_QUEUE - 1

QueueType ==
  queue \in [data  : [Slots -> Data \cup {NoData}],
             n     : 0 .. MAX_SIZE_QUEUE,
             first : Slots,
             last  : Slots \cup {-1}]

\* The array is a global: its slots are zero until the first push reaches them.
InitQueue ==
  queue = [data  |-> [i \in Slots |-> NoData],
           n     |-> 0,
           first |-> 0,
           last  |-> -1]

IsDempty == queue.n = 0

IsFull == queue.n = MAX_SIZE_QUEUE

\* Mutant of PushInQueue: it does not ask whether the ring is full.
PushWhenFull(d) ==
  LET slot == (queue.last + 1) % MAX_SIZE_QUEUE
  IN  queue' = [queue EXCEPT !.data[slot] = d, !.n = @ + 1, !.last = slot]

\* push_in_queue: its 0/1 result is ignored by check_and_push, the only caller.
PushInQueue(d) ==
  \/ IsFull /\ UNCHANGED queue
  \/ /\ ~IsFull
     /\ LET slot == (queue.last + 1) % MAX_SIZE_QUEUE
        IN  queue' = [data  |-> [queue.data EXCEPT ![slot] = d],
                      n     |-> queue.n + 1,
                      first |-> queue.first,
                      last  |-> slot]

\* check_and_push: a message whose length field is 0 is not pushed at all.
CheckAndPush(d, count) ==
  \/ count = 0 /\ UNCHANGED queue
  \/ count # 0 /\ PushInQueue(d)

\* Mutant of Front: the newest entry, as the header's comment has it.
NewestEntry == queue.data[queue.last]

\* The oldest entry, and its removal.
Front == queue.data[queue.first]

\* Mutant of DropFront: first stays where it is.
DropWithoutAdvance == queue' = [queue EXCEPT !.n = @ - 1]

DropFront ==
  queue' = [data  |-> queue.data,
            n     |-> queue.n - 1,
            first |-> (queue.first + 1) % MAX_SIZE_QUEUE,
            last  |-> queue.last]

\* pop_from_queue returns x.  On an empty queue the function returns its local
\* struct uninitialised, so x may be any value at all.
PopFromQueue(x) ==
  \/ IsDempty /\ UNCHANGED queue
  \/ ~IsDempty /\ x = Front /\ DropFront

-----------------------------------------------------------------------------
\* The entries between first and last, oldest first.
Contents ==
  [i \in 1 .. queue.n |->
     queue.data[(queue.first + i - 1) % MAX_SIZE_QUEUE]]

\* What keeps first, last and n consistent with one another, and every live
\* slot filled.
QueueInv ==
  /\ (queue.last + 1) % MAX_SIZE_QUEUE = (queue.first + queue.n) % MAX_SIZE_QUEUE
  /\ \A i \in 1 .. queue.n : Contents[i] \in Data
=============================================================================
