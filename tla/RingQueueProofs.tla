-------------------------- MODULE RingQueueProofs ---------------------------
(***************************************************************************)
(* For every size of the ring and every set of values, first, last and n   *)
(* stay consistent and the ring implements BoundedFifo.                    *)
(***************************************************************************)
EXTENDS RingQueue, SequenceTheorems, TLAPS

-----------------------------------------------------------------------------
(* What a push and a pop do to the ring's content, and to first, last and n *)

\* Slot arithmetic: an index reached from first by at most one lap is either
\* first + k or, past the end of the array, first + k - MAX_SIZE_QUEUE.
LEMMA SlotWrap ==
  ASSUME NEW f \in Slots, NEW k \in 0 .. MAX_SIZE_QUEUE
  PROVE  /\ (f + k) % MAX_SIZE_QUEUE \in Slots
         /\ (f + k) % MAX_SIZE_QUEUE =
              IF f + k < MAX_SIZE_QUEUE THEN f + k ELSE f + k - MAX_SIZE_QUEUE
  BY QueueAssumption DEF Slots

\* Stepping one slot on, before or after a distance k, reaches the same slot.
LEMMA SlotSucc ==
  ASSUME NEW f \in Slots, NEW k \in 0 .. MAX_SIZE_QUEUE - 1
  PROVE  /\ (((f + k) % MAX_SIZE_QUEUE) + 1) % MAX_SIZE_QUEUE = (f + k + 1) % MAX_SIZE_QUEUE
         /\ (((f + 1) % MAX_SIZE_QUEUE) + k) % MAX_SIZE_QUEUE = (f + k + 1) % MAX_SIZE_QUEUE
  BY QueueAssumption DEF Slots

\* Two entries of the ring that are less than a lap apart sit in two slots.
LEMMA SlotsDiffer ==
  ASSUME NEW f \in Slots, NEW i \in 1 .. MAX_SIZE_QUEUE,
         NEW j \in 1 .. MAX_SIZE_QUEUE, i # j
  PROVE  (f + i - 1) % MAX_SIZE_QUEUE # (f + j - 1) % MAX_SIZE_QUEUE
<1>1. (f + (i - 1)) % MAX_SIZE_QUEUE =
        IF f + (i - 1) < MAX_SIZE_QUEUE THEN f + (i - 1) ELSE f + (i - 1) - MAX_SIZE_QUEUE
  BY SlotWrap, QueueAssumption
<1>2. (f + (j - 1)) % MAX_SIZE_QUEUE =
        IF f + (j - 1) < MAX_SIZE_QUEUE THEN f + (j - 1) ELSE f + (j - 1) - MAX_SIZE_QUEUE
  BY SlotWrap, QueueAssumption
<1>3. QED
  BY <1>1, <1>2, QueueAssumption DEF Slots

\* The abstract content is a sequence of pushed values as long as n says.
LEMMA ContentsSeq ==
  ASSUME QueueType, QueueInv
  PROVE  Contents \in Seq(Data) /\ Len(Contents) = queue.n
<1>1. queue.n \in Nat
  BY QueueAssumption DEF QueueType
<1>2. Contents \in [1 .. queue.n -> Data]
  BY <1>1 DEF Contents, QueueInv
<1>3. QED
  BY <1>1, <1>2

\* A push on a ring that is not full appends to the content; on a full one it
\* changes nothing.
LEMMA PushAppends ==
  ASSUME QueueType, QueueInv, NEW d \in Data, PushInQueue(d)
  PROVE  /\ QueueType' /\ QueueInv'
         /\ Contents' = IF queue.n < MAX_SIZE_QUEUE
                          THEN Append(Contents, d) ELSE Contents
<1>1. CASE IsFull
  BY <1>1, QueueAssumption
     DEF PushInQueue, IsFull, QueueType, QueueInv, Contents
<1>2. CASE ~IsFull
  <2> DEFINE slot == (queue.last + 1) % MAX_SIZE_QUEUE
  <2>1. /\ queue.n \in 0 .. MAX_SIZE_QUEUE - 1
        /\ queue.first \in Slots
        /\ queue.last \in Slots \cup {-1}
        /\ queue.data \in [Slots -> Data \cup {NoData}]
    BY <1>2, QueueAssumption DEF IsFull, QueueType
  <2>2. queue' = [data  |-> [queue.data EXCEPT ![slot] = d],
                  n     |-> queue.n + 1,
                  first |-> queue.first,
                  last  |-> slot]
    BY <1>2 DEF PushInQueue
  <2>3. slot = (queue.first + queue.n) % MAX_SIZE_QUEUE /\ slot \in Slots
    <3>1. queue.n \in 0 .. MAX_SIZE_QUEUE
      BY <2>1, QueueAssumption
    <3>2. (queue.first + queue.n) % MAX_SIZE_QUEUE \in Slots
      BY <2>1, <3>1, SlotWrap
    <3>3. QED
      BY <3>2 DEF QueueInv
  <2> HIDE DEF slot
  <2>4. QueueType'
    BY <2>1, <2>2, <2>3, QueueAssumption DEF QueueType, Slots
  <2>5. (queue'.last + 1) % MAX_SIZE_QUEUE
          = (queue'.first + queue'.n) % MAX_SIZE_QUEUE
    <3>1. (((queue.first + queue.n) % MAX_SIZE_QUEUE) + 1) % MAX_SIZE_QUEUE
            = (queue.first + queue.n + 1) % MAX_SIZE_QUEUE
      BY <2>1, SlotSucc
    <3>2. queue.first + (queue.n + 1) = queue.first + queue.n + 1
      BY <2>1 DEF Slots
    <3>3. /\ queue'.last = slot
          /\ queue'.first + queue'.n = queue.first + (queue.n + 1)
      BY <2>2
    <3>4. QED
      BY <2>3, <3>1, <3>2, <3>3
  <2>6. ASSUME NEW i \in 1 .. queue.n + 1
        PROVE  queue'.data[(queue'.first + i - 1) % MAX_SIZE_QUEUE]
                 = IF i = queue.n + 1 THEN d
                   ELSE queue.data[(queue.first + i - 1) % MAX_SIZE_QUEUE]
    <3>1. CASE i = queue.n + 1
      BY <3>1, <2>1, <2>2, <2>3
    <3>2. CASE i # queue.n + 1
      <4>0. i \in 1 .. MAX_SIZE_QUEUE /\ queue.n + 1 \in 1 .. MAX_SIZE_QUEUE
        BY <2>1, QueueAssumption
      <4>1. (queue.first + i - 1) % MAX_SIZE_QUEUE
              # (queue.first + (queue.n + 1) - 1) % MAX_SIZE_QUEUE
        BY <3>2, <2>1, <4>0, SlotsDiffer
      <4>2. (queue.first + (queue.n + 1) - 1) % MAX_SIZE_QUEUE = slot
        BY <2>1, <2>3, QueueAssumption DEF Slots
      <4>3. QED
        BY <4>1, <4>2, <3>2, <2>1, <2>2, <2>3
    <3>3. QED
      BY <3>1, <3>2
  <2>7. \A i \in 1 .. queue.n + 1 :
          Contents'[i] = IF i = queue.n + 1 THEN d ELSE Contents[i]
    <3>1. TAKE i \in 1 .. queue.n + 1
    <3>2. Contents'[i] = queue'.data[(queue'.first + i - 1) % MAX_SIZE_QUEUE]
      BY <2>2 DEF Contents
    <3>3. i # queue.n + 1 =>
            Contents[i] = queue.data[(queue.first + i - 1) % MAX_SIZE_QUEUE]
      BY <2>1 DEF Contents
    <3>4. QED
      BY <2>6, <3>2, <3>3
  <2>8. QueueInv'
    BY <2>1, <2>2, <2>5, <2>7 DEF QueueInv
  <2>9. Contents' = Append(Contents, d)
    <3>1. Contents \in Seq(Data) /\ Len(Contents) = queue.n
      BY ContentsSeq
    <3>2. Contents' = [i \in 1 .. queue.n + 1 |-> Contents'[i]]
      BY <2>2 DEF Contents
    <3>3. /\ Append(Contents, d) \in Seq(Data)
          /\ Len(Append(Contents, d)) = queue.n + 1
          /\ \A i \in 1 .. queue.n + 1 :
               Append(Contents, d)[i] = IF i = queue.n + 1 THEN d ELSE Contents[i]
      BY <2>1, <3>1, AppendProperties
    <3>4. Contents' \in Seq(Data) /\ Len(Contents') = queue.n + 1
      <4>1. Contents' \in [1 .. queue.n + 1 -> Data]
        BY <2>2, <2>8, <3>2 DEF QueueInv
      <4>2. QED
        BY <2>1, <3>2, <4>1
    <3>5. QED
      BY <2>7, <3>3, <3>4, SeqEqual
  <2>10. queue.n < MAX_SIZE_QUEUE
    BY <2>1, QueueAssumption
  <2>11. QED
    BY <2>4, <2>8, <2>9, <2>10
<1>3. QED
  BY <1>1, <1>2

\* On a ring that is not empty the front is the head of the content, and
\* dropping it leaves the tail.
LEMMA PopTakesHead ==
  ASSUME QueueType, QueueInv, ~IsDempty, DropFront
  PROVE  /\ QueueType' /\ QueueInv'
         /\ Contents # <<>> /\ Front = Head(Contents) /\ Front \in Data
         /\ Contents' = Tail(Contents)
<1>1. /\ queue.n \in 1 .. MAX_SIZE_QUEUE
      /\ queue.first \in Slots
      /\ queue.last \in Slots \cup {-1}
      /\ queue.data \in [Slots -> Data \cup {NoData}]
  BY QueueAssumption DEF IsDempty, QueueType
<1> DEFINE next == (queue.first + 1) % MAX_SIZE_QUEUE
<1>2. queue' = [data |-> queue.data, n |-> queue.n - 1,
                first |-> next, last |-> queue.last]
  BY DEF DropFront
<1>3. /\ next \in Slots
      /\ next = IF queue.first + 1 < MAX_SIZE_QUEUE
                  THEN queue.first + 1 ELSE queue.first + 1 - MAX_SIZE_QUEUE
  BY <1>1, SlotWrap, QueueAssumption
<1>4. /\ queue'.n = queue.n - 1 /\ queue'.first = next
      /\ queue'.last = queue.last /\ queue'.data = queue.data
  BY <1>2
<1>5. QueueType'
  BY <1>1, <1>2, <1>3, QueueAssumption DEF QueueType, Slots
<1> HIDE DEF next
<1>6. ASSUME NEW k \in 0 .. queue.n - 1
      PROVE  (next + k) % MAX_SIZE_QUEUE = (queue.first + (k + 1)) % MAX_SIZE_QUEUE
  <2>1. (((queue.first + 1) % MAX_SIZE_QUEUE) + k) % MAX_SIZE_QUEUE
          = (queue.first + k + 1) % MAX_SIZE_QUEUE
    <3>1. k \in 0 .. MAX_SIZE_QUEUE - 1
      BY <1>1, QueueAssumption
    <3>2. QED
      BY <1>1, <3>1, SlotSucc
  <2>2. queue.first + (k + 1) = queue.first + k + 1
    BY <1>1 DEF Slots
  <2>3. QED
    BY <2>1, <2>2 DEF next
<1>7. \A i \in 1 .. queue.n - 1 : Contents'[i] = Contents[i + 1]
  <2>1. TAKE i \in 1 .. queue.n - 1
  <2>2. Contents'[i] = queue.data[(next + i - 1) % MAX_SIZE_QUEUE]
    BY <1>4 DEF Contents
  <2>3. Contents[i + 1] = queue.data[(queue.first + (i + 1) - 1) % MAX_SIZE_QUEUE]
    BY <1>1 DEF Contents
  <2>4. (next + (i - 1)) % MAX_SIZE_QUEUE = (queue.first + ((i - 1) + 1)) % MAX_SIZE_QUEUE
    BY <1>1, <1>6
  <2>5. next + (i - 1) = next + i - 1 /\ queue.first + ((i - 1) + 1) = queue.first + (i + 1) - 1
    BY <1>1, <1>3 DEF Slots
  <2>6. QED
    BY <2>2, <2>3, <2>4, <2>5
<1>8. QueueInv'
  <2>1. (queue'.last + 1) % MAX_SIZE_QUEUE = (queue'.first + queue'.n) % MAX_SIZE_QUEUE
    <3>1. (next + (queue.n - 1)) % MAX_SIZE_QUEUE
            = (queue.first + ((queue.n - 1) + 1)) % MAX_SIZE_QUEUE
      BY <1>1, <1>6
    <3>2. (queue.n - 1) + 1 = queue.n
      BY <1>1
    <3>3. QED
      BY <3>1, <3>2, <1>4 DEF QueueInv
  <2>2. \A i \in 1 .. queue.n - 1 : Contents[i + 1] \in Data
    BY <1>1 DEF QueueInv
  <2>3. QED
    BY <2>1, <2>2, <1>4, <1>7 DEF QueueInv
<1>9. Contents \in Seq(Data) /\ Len(Contents) = queue.n
  BY ContentsSeq
<1>10. Contents # <<>>
  BY <1>1, <1>9
<1>11. Front = Head(Contents) /\ Front \in Data
  <2>1. Contents[1] = queue.data[(queue.first + 1 - 1) % MAX_SIZE_QUEUE]
    BY <1>1 DEF Contents
  <2>2. (queue.first + 1 - 1) % MAX_SIZE_QUEUE = queue.first
    BY <1>1, QueueAssumption DEF Slots
  <2>3. QED
    BY <1>1, <1>9, <1>10, <2>1, <2>2 DEF Front, QueueInv
<1>12. Contents' = Tail(Contents)
  <2>1. Contents' \in Seq(Data) /\ Len(Contents') = queue.n - 1
    <3>1. \A i \in 1 .. queue.n - 1 : Contents'[i] \in Data
      BY <1>4, <1>8 DEF QueueInv
    <3>2. Contents' \in [1 .. queue.n - 1 -> Data]
      BY <1>4, <3>1 DEF Contents
    <3>3. QED
      BY <1>1, <3>2
  <2>2. /\ Tail(Contents) \in Seq(Data)
        /\ Len(Tail(Contents)) = queue.n - 1
        /\ \A i \in 1 .. queue.n - 1 : Tail(Contents)[i] = Contents[i + 1]
    BY <1>9, <1>10, HeadTailProperties
  <2>3. QED
    BY <2>1, <2>2, <1>7, SeqEqual
<1>13. QED
  BY <1>5, <1>8, <1>10, <1>11, <1>12
-----------------------------------------------------------------------------
(* The ring as a buffer *)

\* The inductive invariant: the types and the index equation of the ring.
RingInv == TypeOK /\ RingConsistent

\* The ring starts empty with last one slot behind first.
LEMMA RingInitInv == Init => RingInv /\ Fifo!Init
<1> SUFFICES ASSUME Init PROVE RingInv /\ Fifo!Init
  OBVIOUS
<1>1. queue = [data  |-> [i \in Slots |-> NoData], n |-> 0, first |-> 0, last |-> -1]
      /\ popped = NoData
  BY DEF Init, InitQueue
<1>2. TypeOK
  BY <1>1, QueueAssumption DEF TypeOK, QueueType, Slots
<1>3. (-1 + 1) % MAX_SIZE_QUEUE = (0 + 0) % MAX_SIZE_QUEUE
  OBVIOUS
<1>4. RingConsistent
  BY <1>1, <1>3 DEF RingConsistent, QueueInv
<1>5. Contents = <<>>
  BY <1>1 DEF Contents
<1>6. QED
  BY <1>1, <1>2, <1>4, <1>5 DEF RingInv, Fifo!Init

\* A push keeps the invariant and is a Put of the abstract buffer, or a stutter
\* when the count is zero.
LEMMA PushStep ==
  ASSUME RingInv, NEW d \in Data, NEW count \in {0, 1}, Push(d, count)
  PROVE  RingInv' /\ [Fifo!Next]_<<Contents, popped>>
<1>1. CASE count = 0
  BY <1>1 DEF Push, CheckAndPush, RingInv, TypeOK, QueueType, RingConsistent,
              QueueInv, Contents
<1>2. CASE count # 0
  <2>1. PushInQueue(d) /\ UNCHANGED popped
    BY <1>2 DEF Push, CheckAndPush
  <2>2. /\ QueueType' /\ QueueInv'
        /\ Contents' = IF queue.n < MAX_SIZE_QUEUE
                         THEN Append(Contents, d) ELSE Contents
    BY <2>1, PushAppends DEF RingInv, TypeOK, RingConsistent
  <2>3. Len(Contents) = queue.n
    BY ContentsSeq DEF RingInv, TypeOK, RingConsistent
  <2>4. Fifo!Put(d)
    BY <2>1, <2>2, <2>3 DEF Fifo!Put
  <2>5. QED
    BY <2>1, <2>2, <2>4 DEF Fifo!Next, RingInv, TypeOK, RingConsistent
<1>3. QED
  BY <1>1, <1>2

\* A pop keeps the invariant and is a Take, or a TakeEmpty on an empty ring.
LEMMA PopStep ==
  ASSUME RingInv, Pop
  PROVE  RingInv' /\ [Fifo!Next]_<<Contents, popped>>
<1>1. popped' \in Data \cup {NoData} /\ PopFromQueue(popped')
  BY DEF Pop
<1>2. CASE IsDempty
  <2>1. UNCHANGED queue
    BY <1>1, <1>2 DEF PopFromQueue
  <2>2. Contents = <<>> /\ Contents' = Contents
    BY <1>2, <2>1 DEF IsDempty, Contents
  <2>3. Fifo!TakeEmpty
    BY <1>1, <2>2 DEF Fifo!TakeEmpty
  <2>4. QED
    BY <1>1, <2>1, <2>3
       DEF Fifo!Next, RingInv, TypeOK, QueueType, RingConsistent, QueueInv, Contents
<1>3. CASE ~IsDempty
  <2>1. popped' = Front /\ DropFront
    BY <1>1, <1>3 DEF PopFromQueue
  <2>2. /\ QueueType' /\ QueueInv'
        /\ Contents # <<>> /\ Front = Head(Contents)
        /\ Contents' = Tail(Contents)
    BY <1>3, <2>1, PopTakesHead DEF RingInv, TypeOK, RingConsistent
  <2>3. Fifo!Take
    BY <2>1, <2>2 DEF Fifo!Take
  <2>4. QED
    BY <1>1, <2>2, <2>3 DEF Fifo!Next, RingInv, TypeOK, RingConsistent
<1>4. QED
  BY <1>2, <1>3

\* Every step of the ring keeps the invariant and is a step of the buffer.
LEMMA RingStep == RingInv /\ [Next]_vars => RingInv' /\ [Fifo!Next]_<<Contents, popped>>
<1> SUFFICES ASSUME RingInv, [Next]_vars
             PROVE  RingInv' /\ [Fifo!Next]_<<Contents, popped>>
  OBVIOUS
<1>1. CASE Pop
  BY <1>1, PopStep
<1>2. CASE \E d \in Data, count \in {0, 1} : Push(d, count)
  BY <1>2, PushStep
<1>3. CASE UNCHANGED vars
  BY <1>3 DEF vars, RingInv, TypeOK, QueueType, RingConsistent, QueueInv, Contents
<1>4. QED
  BY <1>1, <1>2, <1>3 DEF Next

\* Every reachable state of the ring has the types of TypeOK
\* (diameter_queue_input.h:16).
THEOREM RingTypeCorrect == Spec => []TypeOK
<1>1. RingInv => TypeOK
  BY DEF RingInv
<1>2. QED
  BY <1>1, RingInitInv, RingStep, PTL DEF Spec

\* Across every wrap-around first, last and n describe the same stretch of
\* filled slots (push_in_queue, pop_from_queue).
THEOREM RingConsistency == Spec => []RingConsistent
<1>1. RingInv => RingConsistent
  BY DEF RingInv
<1>2. QED
  BY <1>1, RingInitInv, RingStep, PTL DEF Spec

\* The ring of diameter_queue_input.c implements the bounded first-in first-out
\* buffer its callers rely on.
THEOREM RingImplementsFifo == Spec => ImplementsFifo
<1>1. QED
  BY RingInitInv, RingStep, PTL DEF Spec, ImplementsFifo, Fifo!Spec
=============================================================================
