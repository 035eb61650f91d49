------------------------ MODULE QueueHandshakeProofs ------------------------
(***************************************************************************)
(* The safety of the hand-over between listener and queue thread, for      *)
(* every queue size, waiting time and set of messages.                     *)
(***************************************************************************)
EXTENDS QueueHandshake, SequenceTheorems, TLAPS

\* The ring inside, whose push and pop keep its content as RingQueueProofs shows.
Ring == INSTANCE RingQueueProofs WITH popped <- data

\* Its content is a sequence of messages as long as n says.
LEMMA ContentsSeq ==
  ASSUME QueueType, QueueInv
  PROVE  Contents \in Seq(Data) /\ Len(Contents) = queue.n
<1>1. Ring!QueueType /\ Ring!QueueInv
  BY Zenon DEF QueueType, QueueInv, Slots, Contents,
               Ring!QueueType, Ring!QueueInv, Ring!Slots, Ring!Contents
<1>2. Ring!Contents \in Seq(Data) /\ Len(Ring!Contents) = queue.n
  BY <1>1, Ring!ContentsSeq, QueueAssumption
<1>3. QED
  BY <1>2, Zenon DEF Contents, Ring!Contents

\* A push on a ring that is not full appends to the content; on a full one it
\* changes nothing.
LEMMA PushAppends ==
  ASSUME QueueType, QueueInv, NEW d \in Data, PushInQueue(d)
  PROVE  /\ QueueType' /\ QueueInv'
         /\ Contents' = IF queue.n < MAX_SIZE_QUEUE
                          THEN Append(Contents, d) ELSE Contents
<1>1. Ring!QueueType /\ Ring!QueueInv /\ Ring!PushInQueue(d)
  BY Zenon DEF QueueType, QueueInv, PushInQueue, IsFull, Slots, Contents, Ring!QueueType,
               Ring!QueueInv, Ring!PushInQueue, Ring!IsFull, Ring!Slots, Ring!Contents
<1>2. /\ Ring!QueueType' /\ Ring!QueueInv'
      /\ Ring!Contents' = IF queue.n < MAX_SIZE_QUEUE
                            THEN Append(Ring!Contents, d) ELSE Ring!Contents
  BY <1>1, Ring!PushAppends, QueueAssumption
<1>3. QED
  BY <1>2, Zenon DEF QueueType, QueueInv, Slots, Contents,
                     Ring!QueueType, Ring!QueueInv, Ring!Slots, Ring!Contents

\* On a ring that is not empty the front is the head of the content, and
\* dropping it leaves the tail.
LEMMA PopTakesHead ==
  ASSUME QueueType, QueueInv, ~IsDempty, DropFront
  PROVE  /\ QueueType' /\ QueueInv'
         /\ Contents # <<>> /\ Front = Head(Contents) /\ Front \in Data
         /\ Contents' = Tail(Contents)
<1>1. Ring!QueueType /\ Ring!QueueInv /\ ~Ring!IsDempty /\ Ring!DropFront
  BY Zenon DEF QueueType, QueueInv, IsDempty, DropFront, Slots, Contents, Ring!QueueType,
               Ring!QueueInv, Ring!IsDempty, Ring!DropFront, Ring!Slots, Ring!Contents
<1>2. /\ Ring!QueueType' /\ Ring!QueueInv'
      /\ Ring!Contents # <<>> /\ Ring!Front = Head(Ring!Contents) /\ Ring!Front \in Data
      /\ Ring!Contents' = Tail(Ring!Contents)
  BY <1>1, Ring!PopTakesHead, QueueAssumption
<1>3. QED
  BY <1>2, Zenon DEF QueueType, QueueInv, Front, Slots, Contents,
                     Ring!QueueType, Ring!QueueInv, Ring!Front, Ring!Slots, Ring!Contents

\* A thread that is not suspended leaves the flag down, and one that was woken to
\* go on was woken by a resume that is over.
ResumeInv ==
  /\ (worker = "woken" /\ queue_suspended = 0) => is_on_reading = 1 /\ listener # "resume"

\* What the queue thread holds between taking a struct out and answering it is a
\* message, and so is everything answered.
HandInv ==
  /\ worker = "respond" => data \in Data
  /\ served \in Seq(Data)

\* The inductive invariant.  PopFindsData needs nothing else; ServedInOrder needs
\* it and the ring's invariant; FlagsTellTheTruth needs ResumeInv.
HandshakeInv ==
  /\ TypeOK /\ QueueInv /\ HandInv /\ ResumeInv
  /\ PopFindsData /\ ServedInOrder /\ FlagsTellTheTruth

\* Steps that leave the ring alone leave its content and its invariant alone.
LEMMA RingUnchanged ==
  ASSUME UNCHANGED queue
  PROVE  /\ Contents' = Contents
         /\ IsDempty' <=> IsDempty
         /\ QueueInv => QueueInv'
         /\ QueueType => QueueType'
  BY DEF Contents, IsDempty, QueueInv, QueueType

\* Moving the head of the last sequence into an empty hand keeps the whole.
LEMMA TakeToHand ==
  ASSUME NEW S, NEW s \in Seq(S), NEW u \in Seq(S), u # <<>>
  PROVE  s \o <<>> \o u = s \o <<Head(u)>> \o Tail(u)
<1>1. Head(u) \in S /\ Tail(u) \in Seq(S) /\ <<Head(u)>> \in Seq(S)
  BY HeadTailProperties
<1>2. u = <<Head(u)>> \o Tail(u)
  <2>1. <<Head(u)>> \o Tail(u) \in Seq(S) /\ Len(<<Head(u)>> \o Tail(u)) = Len(u)
    BY <1>1, ConcatProperties, HeadTailProperties, LenProperties
  <2>2. \A i \in 1 .. Len(u) : (<<Head(u)>> \o Tail(u))[i] = u[i]
    BY <1>1, ConcatProperties, HeadTailProperties, LenProperties
  <2>3. QED
    BY <2>1, <2>2, SeqEqual
<1>3. s \o <<>> = s
  BY ConcatEmptySeq
<1>4. (s \o <<Head(u)>>) \o Tail(u) = s \o (<<Head(u)>> \o Tail(u))
  BY <1>1, ConcatAssociative
<1>5. QED
  BY <1>2, <1>3, <1>4

\* The server starts with an empty queue and everybody awake.
LEMMA HandshakeInit == Init => HandshakeInv
<1> SUFFICES ASSUME Init PROVE HandshakeInv
  OBVIOUS
<1> USE DEF Init, InitClock, InitChecking, InitQueue
<1>1. QueueType /\ IsDempty /\ Contents = <<>>
  BY QueueAssumption DEF QueueType, Slots, IsDempty, Contents
<1>2. QueueInv
  <2>1. (-1 + 1) % MAX_SIZE_QUEUE = (0 + 0) % MAX_SIZE_QUEUE
    OBVIOUS
  <2>2. QED
    BY <2>1 DEF QueueInv
<1>3. <<>> \in Seq(Data) /\ <<>> \in Seq(Data \cup {NoData})
  OBVIOUS
<1>4. TypeOK
  BY <1>1, <1>3, TimeAssumption
     DEF TypeOK, CheckingType, ClockType, Seconds, FirstSecond, WorkerPc
<1>5. <<>> \o <<>> \o <<>> = <<>>
  BY <1>3, ConcatEmptySeq
<1>6. ServedInOrder
  BY <1>1, <1>5 DEF ServedInOrder, InHand
<1>7. QED
  BY <1>1, <1>2, <1>3, <1>4, <1>6
     DEF HandshakeInv, HandInv, ResumeInv, PopFindsData, FlagsTellTheTruth, OnSuspendPath

\* The steps of the queue thread that move no message.
ControlStep ==
  \/ CheckQueue \/ StartFree \/ CheckElapsed \/ MarkNotReading
  \/ SuspendQueueThread \/ SpuriousWakeup \/ RecheckSuspended

\* They keep the invariant: only CheckQueue leads to a pop, and only from a queue
\* that is not empty; only a resumed thread returns from the wait.
LEMMA ControlKeeps ==
  ASSUME HandshakeInv, ControlStep, UNCHANGED <<now, listenerVars>>
  PROVE  HandshakeInv'
<1> USE DEF HandshakeInv, ControlStep, CheckQueue, StartFree, CheckElapsed, MarkNotReading,
            SuspendQueueThread, SpuriousWakeup, RecheckSuspended, flagVars, listenerVars
<1>1. UNCHANGED <<queue, data, pushed, served, now, listener, request>>
  OBVIOUS
<1>2. /\ Contents' = Contents /\ (IsDempty' <=> IsDempty)
      /\ QueueInv' /\ QueueType'
  BY <1>1, RingUnchanged DEF TypeOK, CheckingType
<1>3. TypeOK'
  <2>1. time_start_free' \in {1000 * s : s \in Seconds} \cup {-1}
    BY DEF TypeOK, CheckingType, ClockType, GetCurrTime
  <2>2. worker' \in WorkerPc /\ is_on_reading' \in {0, 1} /\ queue_suspended' \in {0, 1}
    BY DEF TypeOK, CheckingType, WorkerPc
  <2>3. QED
    BY <1>1, <1>2, <2>1, <2>2 DEF TypeOK, CheckingType, ClockType
<1>4. worker # "respond" /\ worker' # "respond"
  BY DEF WorkerPc
<1>5. HandInv' /\ ServedInOrder'
  BY <1>1, <1>2, <1>4 DEF HandInv, ServedInOrder, InHand
<1>6. PopFindsData'
  BY <1>2 DEF PopFindsData
<1>7. ResumeInv' /\ FlagsTellTheTruth'
  BY DEF ResumeInv, FlagsTellTheTruth, OnSuspendPath, TypeOK, CheckingType
<1>8. QED
  BY <1>2, <1>3, <1>5, <1>6, <1>7

\* Taking a struct out moves the head of the queue into the thread's hand.
LEMMA PopKeeps ==
  ASSUME HandshakeInv, PopData, UNCHANGED <<now, listenerVars>>
  PROVE  HandshakeInv'
<1> USE DEF HandshakeInv, PopData, flagVars, listenerVars
<1>1. ~IsDempty /\ data' = Front /\ DropFront
  BY DEF PopFindsData, PopFromQueue
<1>2. /\ QueueType' /\ QueueInv'
      /\ Contents # <<>> /\ Front = Head(Contents) /\ Front \in Data
      /\ Contents' = Tail(Contents)
  BY <1>1, PopTakesHead DEF TypeOK, CheckingType
<1>3. Contents \in Seq(Data)
  BY ContentsSeq DEF TypeOK, CheckingType
<1>4. TypeOK'
  BY <1>2 DEF TypeOK, CheckingType, ClockType, WorkerPc
<1>5. HandInv'
  BY <1>1, <1>2 DEF HandInv
<1>6. ServedInOrder'
  <2>1. pushed = served \o <<>> \o Contents
    BY DEF ServedInOrder, InHand
  <2>2. served \o <<>> \o Contents = served \o <<Head(Contents)>> \o Tail(Contents)
    BY <1>2, <1>3, TakeToHand DEF HandInv
  <2>3. InHand' = <<Head(Contents)>>
    BY <1>1, <1>2 DEF InHand
  <2>4. QED
    BY <1>2, <2>1, <2>2, <2>3 DEF ServedInOrder
<1>7. PopFindsData' /\ ResumeInv' /\ FlagsTellTheTruth'
  BY DEF PopFindsData, ResumeInv, FlagsTellTheTruth, OnSuspendPath
<1>8. QED
  BY <1>2, <1>4, <1>5, <1>6, <1>7

\* Answering moves the struct in hand to the answered ones.
LEMMA RespondKeeps ==
  ASSUME HandshakeInv, Respond, UNCHANGED <<now, listenerVars>>
  PROVE  HandshakeInv'
<1> USE DEF HandshakeInv, Respond, flagVars, listenerVars
<1>1. /\ Contents' = Contents
      /\ QueueInv' /\ QueueType'
  BY RingUnchanged DEF TypeOK, CheckingType
<1>2. data \in Data /\ served \in Seq(Data)
  BY DEF HandInv
<1>3. served' = served \o <<data>> /\ served' \in Seq(Data)
  BY <1>2, AppendIsConcat, AppendProperties
<1>4. TypeOK'
  <2>1. served' \in Seq(Data \cup {NoData})
    BY <1>3, SeqMonotonic
  <2>2. QED
    BY <1>1, <2>1 DEF TypeOK, CheckingType, ClockType, WorkerPc
<1>5. ServedInOrder'
  <2>1. InHand = <<data>> /\ InHand' = <<>>
    BY DEF InHand
  <2>2. served' \o <<>> = served'
    BY <1>3, ConcatEmptySeq
  <2>3. QED
    BY <1>1, <1>3, <2>1, <2>2 DEF ServedInOrder
<1>6. HandInv' /\ PopFindsData' /\ ResumeInv' /\ FlagsTellTheTruth'
  BY <1>3 DEF HandInv, PopFindsData, ResumeInv, FlagsTellTheTruth, OnSuspendPath
<1>7. QED
  BY <1>1, <1>4, <1>5, <1>6

\* Pushing appends to the queued messages and to the history alike.
LEMMA PushKeeps == HandshakeInv /\ Push => HandshakeInv'
<1> SUFFICES ASSUME HandshakeInv, Push PROVE HandshakeInv'
  OBVIOUS
<1> USE DEF HandshakeInv, Push, PushMessage, flagVars
<1>1. request \in Data
  BY DEF TypeOK
<1>2. PushInQueue(request)
  BY DEF CheckAndPush, MESSAGE_HEADER_LEN
<1>3. /\ QueueType' /\ QueueInv'
      /\ Contents' = IF queue.n < MAX_SIZE_QUEUE
                       THEN Append(Contents, request) ELSE Contents
  BY <1>1, <1>2, PushAppends DEF TypeOK, CheckingType
<1>4. queue.n < MAX_SIZE_QUEUE <=> ~IsFull
  BY QueueAssumption DEF TypeOK, CheckingType, QueueType, IsFull
<1>5. Contents \in Seq(Data) /\ InHand \in Seq(Data) /\ served \in Seq(Data)
  BY ContentsSeq DEF TypeOK, CheckingType, HandInv, InHand
<1>6. pushed' = served \o InHand \o Contents'
  <2>1. CASE IsFull
    BY <2>1, <1>3, <1>4 DEF ServedInOrder
  <2>2. CASE ~IsFull
    <3>1. pushed' = Append(pushed, request) /\ Contents' = Append(Contents, request)
      BY <2>2, <1>3, <1>4
    <3>2. pushed = (served \o InHand) \o Contents /\ pushed \in Seq(Data)
      BY DEF ServedInOrder, TypeOK, CheckingType
    <3>3. pushed' = pushed \o <<request>> /\ Contents' = Contents \o <<request>>
      BY <1>1, <1>5, <3>1, <3>2, AppendIsConcat
    <3>4. served \o InHand \in Seq(Data) /\ <<request>> \in Seq(Data)
      BY <1>1, <1>5, ConcatProperties
    <3>5. ((served \o InHand) \o Contents) \o <<request>>
            = (served \o InHand) \o (Contents \o <<request>>)
      BY <1>5, <3>4, ConcatAssociative
    <3>6. QED
      BY <3>2, <3>3, <3>5
  <2>3. QED
    BY <2>1, <2>2
<1>7. ServedInOrder'
  BY <1>6 DEF ServedInOrder, InHand
<1>8. TypeOK'
  <2>1. pushed' \in Seq(Data)
    BY <1>1, AppendProperties DEF TypeOK, CheckingType
  <2>2. QED
    BY <1>3, <2>1 DEF TypeOK, CheckingType, ClockType
<1>9. PopFindsData'
  <2>1. CASE IsFull
    BY <2>1, <1>2 DEF PopFindsData, PushInQueue, IsDempty, IsFull
  <2>2. CASE ~IsFull
    BY <2>2, <1>2, QueueAssumption
       DEF PushInQueue, PopFindsData, IsDempty, TypeOK, CheckingType, QueueType
  <2>3. QED
    BY <2>1, <2>2
<1>10. HandInv' /\ ResumeInv' /\ FlagsTellTheTruth'
  BY DEF HandInv, ResumeInv, FlagsTellTheTruth, OnSuspendPath
<1>11. QED
  BY <1>3, <1>7, <1>8, <1>9, <1>10

\* The listener's other steps, the clock and the arrivals move no message.
CallStep ==
  \/ \E d \in Data : Arrive(d)
  \/ \E mustResume \in BOOLEAN : Status(mustResume)
  \/ Resume
  \/ Second

\* They keep the invariant: the flag is down only while the thread is on its way
\* to sleep or sleeps, so whoever resumes it finds it there.
LEMMA CallKeeps == HandshakeInv /\ CallStep => HandshakeInv'
<1> SUFFICES ASSUME HandshakeInv, CallStep PROVE HandshakeInv'
  OBVIOUS
<1> USE DEF HandshakeInv, CallStep, Arrive, Status, MarkReading, Resume,
            ResumeQueueThread, Second, checkingVars, flagVars, listenerVars
<1>1. UNCHANGED <<queue, data, pushed, served, time_start_free>>
  OBVIOUS
<1>2. /\ Contents' = Contents /\ (IsDempty' <=> IsDempty)
      /\ QueueInv' /\ QueueType'
  BY <1>1, RingUnchanged DEF TypeOK, CheckingType
<1>3. TypeOK'
  <2>1. now' \in Seconds
    BY TimeAssumption DEF Tick, TypeOK, ClockType, Seconds, FirstSecond
  <2>2. worker' \in WorkerPc /\ is_on_reading' \in {0, 1} /\ queue_suspended' \in {0, 1}
    BY DEF TypeOK, CheckingType, WorkerPc
  <2>3. /\ listener' \in {"idle", "push", "status", "resume"}
        /\ request' \in Data \cup {NoData}
        /\ listener' = "push" => request' \in Data
    BY DEF TypeOK
  <2>4. QED
    BY <1>1, <1>2, <2>1, <2>2, <2>3 DEF TypeOK, CheckingType, ClockType
<1>4. InHand' = InHand /\ HandInv' /\ PopFindsData'
  BY <1>1, <1>2 DEF InHand, HandInv, PopFindsData
<1>5. ServedInOrder'
  BY <1>1, <1>2, <1>4 DEF ServedInOrder
<1>6. ResumeInv' /\ FlagsTellTheTruth'
  BY DEF ResumeInv, FlagsTellTheTruth, OnSuspendPath, TypeOK, CheckingType
<1>7. QED
  BY <1>2, <1>3, <1>4, <1>5, <1>6

\* Every step keeps the invariant.
LEMMA HandshakeStep == HandshakeInv /\ [Next]_vars => HandshakeInv'
<1> SUFFICES ASSUME HandshakeInv, [Next]_vars PROVE HandshakeInv'
  OBVIOUS
<1>1. CASE UNCHANGED vars
  <2>1. /\ UNCHANGED <<queue, worker, data, is_on_reading, queue_suspended, time_start_free,
                       pushed, served, now, listener, request>>
    BY <1>1 DEF vars, checkingVars, flagVars, listenerVars
  <2>2. /\ Contents' = Contents /\ (IsDempty' <=> IsDempty)
        /\ QueueInv' /\ QueueType'
    BY <2>1, RingUnchanged DEF HandshakeInv, TypeOK, CheckingType
  <2>3. QED
    BY <2>1, <2>2 DEF HandshakeInv, TypeOK, CheckingType, ClockType, HandInv, ResumeInv,
                      PopFindsData, ServedInOrder, InHand, FlagsTellTheTruth, OnSuspendPath
<1>2. CASE Next
  BY <1>2, ControlKeeps, PopKeeps, RespondKeeps, PushKeeps, CallKeeps
     DEF Next, ListenerStep, WorkerStep, WorkerInternal, Spurious, ControlStep, CallStep
<1>3. QED
  BY <1>1, <1>2

\* Every reachable state has the types of TypeOK.
THEOREM HandshakeTypeCorrect == Spec => []TypeOK
<1>1. HandshakeInv => TypeOK
  BY DEF HandshakeInv
<1>2. QED
  BY <1>1, HandshakeInit, HandshakeStep, PTL DEF Spec

\* checking_queue_in pops a queue that is not empty, although it releases
\* queue_mutex between the test and the pop.
THEOREM PopAlwaysFindsData == Spec => []PopFindsData
<1>1. HandshakeInv => PopFindsData
  BY DEF HandshakeInv
<1>2. QED
  BY <1>1, HandshakeInit, HandshakeStep, PTL DEF Spec

\* Every message the queue took in is answered once and in order, is in the queue
\* thread's hands, or is still queued.
THEOREM AlwaysServedInOrder == Spec => []ServedInOrder
<1>1. HandshakeInv => ServedInOrder
  BY DEF HandshakeInv
<1>2. QED
  BY <1>1, HandshakeInit, HandshakeStep, PTL DEF Spec

\* is_on_reading, queue_suspended and the two threads never disagree: no thread
\* sleeps on a cleared queue_suspended, is_on_reading is 0 only for a thread that has
\* stopped and that the next message calls, and a resume is for such a thread only.
THEOREM FlagsAlwaysTrue == Spec => []FlagsTellTheTruth
<1>1. HandshakeInv => FlagsTellTheTruth
  BY DEF HandshakeInv
<1>2. QED
  BY <1>1, HandshakeInit, HandshakeStep, PTL DEF Spec

\* A step that leaves a thread asleep and out of reach, and did not find it so, is
\* the thread's own suspendQueueThread, after the resume meant for it.
LEMMA StrandStep ==
  HandshakeInv /\ [Next]_vars =>
    [Stranded' => Stranded \/ (worker = "suspend" /\ is_on_reading = 1)]_vars
<1> SUFFICES ASSUME HandshakeInv, Next, Stranded'
             PROVE  Stranded \/ (worker = "suspend" /\ is_on_reading = 1)
  OBVIOUS
<1> USE DEF Stranded, Asleep
<1>1. /\ is_on_reading \in {0, 1} /\ queue_suspended \in {0, 1} /\ worker \in WorkerPc
      /\ is_on_reading = 0 => OnSuspendPath /\ listener # "resume"
      /\ worker = "waiting" => queue_suspended = 1
  BY DEF HandshakeInv, TypeOK, CheckingType, FlagsTellTheTruth
<1>2. CASE (\E d \in Data : Arrive(d)) \/ Push \/ Second
  BY <1>1, <1>2 DEF Arrive, Push, PushMessage, Second, checkingVars, flagVars, listenerVars
<1>3. ASSUME NEW b \in BOOLEAN, Status(b)
      PROVE  Stranded
  BY <1>1, <1>3 DEF Status, MarkReading
<1>4. CASE Resume
  BY <1>1, <1>4 DEF Resume, ResumeQueueThread
<1>5. CASE WorkerStep
  BY <1>1, <1>5 DEF WorkerStep, WorkerInternal, Respond, CheckQueue, PopData, StartFree,
                    CheckElapsed, MarkNotReading, SuspendQueueThread, RecheckSuspended,
                    flagVars, listenerVars
<1>6. CASE Spurious
  BY <1>1, <1>6 DEF Spurious, SpuriousWakeup, flagVars, listenerVars
<1>7. QED
  BY <1>2, <1>3, <1>4, <1>5, <1>6 DEF Next, ListenerStep

\* Only a resume that overtakes suspendQueueThread (NIOQueueServer.c:361-396) leaves
\* the thread asleep with nobody to call it.
THEOREM OnlyLostResumeStrands == Spec => OnlyEarlyResumeStrands
  BY HandshakeInit, HandshakeStep, StrandStep, PTL DEF Spec, OnlyEarlyResumeStrands
=============================================================================
