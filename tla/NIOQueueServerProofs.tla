------------------------- MODULE NIOQueueServerProofs -------------------------
(***************************************************************************)
(* The server between its clients, for every number of connections,        *)
(* requests and descriptors, and every size of the queue.                  *)
(***************************************************************************)
EXTENDS NIOQueueServer, SequenceTheorems, FiniteSetTheorems, WellFoundedInduction, TLAPS

-----------------------------------------------------------------------------
(* The inductive invariant *)

\* The types, without those of the queue thread.
ServerType ==
  /\ ClockType /\ LimiterType /\ SocketType
  /\ listener \in {"wait", "event", "accept"} \cup Serving
  /\ events \subseteq [fd : Fds \cup {SFD}, err : BOOLEAN]
  /\ cur \in Fds \cup {SFD}
  /\ rev \in Requests \cup {NoRev}
  /\ broken \subseteq Requests /\ dropped \subseteq Requests
  /\ answers \in [Requests -> Seq(Answer)]
  /\ pushed \in Seq(Data)

\* A batch has one event per descriptor, each of them open, and none for the
\* descriptor being served: closing that one leaves no stale event behind.
BatchInv ==
  /\ listener = "wait" => events = {}
  /\ \A e \in events : e.fd = SFD => ~e.err
  /\ \A e \in events : e.fd \in Fds => fds[e.fd] # NoConn
  /\ \A e1, e2 \in events : e1.fd = e2.fd => e1 = e2
  /\ listener \in Serving =>
       cur \in Fds /\ fds[cur] # NoConn /\ \A e \in events : e.fd # cur

\* The listener holds the request it began to read last.
Holding == listener \in {"body", "inline", "limit", "count", "open", "push", "refuse"}

\* Connections are read in order, up to what was sent.
ReadInv ==
  /\ \A c \in Conns : taken[c] <= sent[c] /\ sent[c] <= Len(Script[c])
  /\ Holding => rev \in Requests /\ rev.conn = fds[cur] /\ rev.num = taken[rev.conn]

\* So are their messages pushed, each with the descriptor of its connection.
PushedInv ==
  /\ \A i \in DOMAIN pushed : pushed[i].rev.num <= taken[pushed[i].rev.conn]
  /\ \A i, j \in DOMAIN pushed :
       (i < j /\ pushed[i].rev.conn = pushed[j].rev.conn)
         => pushed[i].rev.num < pushed[j].rev.num
  /\ Holding => \A i \in DOMAIN pushed :
       pushed[i].rev.conn = rev.conn => pushed[i].rev.num < rev.num
  /\ \A i \in DOMAIN pushed :
       \/ fds[pushed[i].efd] = pushed[i].rev.conn
       \/ pushed[i].rev.conn \in closed

\* The limiter has counted no more than what was read.
TakenRequests == {r \in Requests : r.num <= taken[r.conn]}
ToCount == listener \in {"body", "inline", "limit", "count"}
CountedInv ==
  num_msg_in_sec + (IF ToCount THEN 1 ELSE 0) <= Cardinality(TakenRequests)

HS == INSTANCE QueueHandshakeProofs
  WITH listener  <- IF listener \in {"push", "status", "resume"} THEN listener ELSE "idle",
       request   <- IF listener = "push" THEN [rev |-> rev, efd |-> cur] ELSE NoData,
       MaxPushed <- Cardinality(Requests) + 1

IInv ==
  /\ HS!HandshakeInv /\ ServerType
  /\ BatchInv /\ NoLostEdge
  /\ ReadInv /\ PushedInv /\ CountedInv
  /\ AnswerReachesSender /\ RequestAccounted

-----------------------------------------------------------------------------
(* The ring's content, as for the queue thread alone *)

\* The ring inside, whose push and pop keep its content as RingQueueProofs shows.
Ring == INSTANCE RingQueueProofs WITH popped <- data

\* Its content is a sequence of messages as long as n says.
LEMMA ContentsSeq ==
  ASSUME QueueType, QueueInv
  PROVE  Contents \in Seq(Data) /\ Len(Contents) = queue.n
<1>1. Ring!QueueType /\ Ring!QueueInv
  BY Zenon DEF QueueType, QueueInv, Slots, Contents,
               Ring!QueueType, Ring!QueueInv, Ring!Slots, Ring!Contents
<1>2. Ring!Contents \in Seq(Data) /\ Len(Ring!Contents) = queue.n
  BY <1>1, Ring!ContentsSeq, QueueAssumption
<1>3. QED
  BY <1>2, Zenon DEF Contents, Ring!Contents

\* A push on a ring that is not full appends to the content; on a full one it
\* changes nothing.
LEMMA PushAppends ==
  ASSUME QueueType, QueueInv, NEW d \in Data, PushInQueue(d)
  PROVE  /\ QueueType' /\ QueueInv'
         /\ Contents' = IF queue.n < MAX_SIZE_QUEUE
                          THEN Append(Contents, d) ELSE Contents
<1>1. Ring!QueueType /\ Ring!QueueInv /\ Ring!PushInQueue(d)
  BY Zenon DEF QueueType, QueueInv, PushInQueue, IsFull, Slots, Contents, Ring!QueueType,
               Ring!QueueInv, Ring!PushInQueue, Ring!IsFull, Ring!Slots, Ring!Contents
<1>2. /\ Ring!QueueType' /\ Ring!QueueInv'
      /\ Ring!Contents' = IF queue.n < MAX_SIZE_QUEUE
                            THEN Append(Ring!Contents, d) ELSE Ring!Contents
  BY <1>1, Ring!PushAppends, QueueAssumption
<1>3. QED
  BY <1>2, Zenon DEF QueueType, QueueInv, Slots, Contents,
                     Ring!QueueType, Ring!QueueInv, Ring!Slots, Ring!Contents

\* On a ring that is not empty the front is the head of the content, and
\* dropping it leaves the tail.
LEMMA PopTakesHead ==
  ASSUME QueueType, QueueInv, ~IsDempty, DropFront
  PROVE  /\ QueueType' /\ QueueInv'
         /\ Contents # <<>> /\ Front = Head(Contents) /\ Front \in Data
         /\ Contents' = Tail(Contents)
<1>1. Ring!QueueType /\ Ring!QueueInv /\ ~Ring!IsDempty /\ Ring!DropFront
  BY Zenon DEF QueueType, QueueInv, IsDempty, DropFront, Slots, Contents, Ring!QueueType,
               Ring!QueueInv, Ring!IsDempty, Ring!DropFront, Ring!Slots, Ring!Contents
<1>2. /\ Ring!QueueType' /\ Ring!QueueInv'
      /\ Ring!Contents # <<>> /\ Ring!Front = Head(Ring!Contents) /\ Ring!Front \in Data
      /\ Ring!Contents' = Tail(Ring!Contents)
  BY <1>1, Ring!PopTakesHead, QueueAssumption
<1>3. QED
  BY <1>2, Zenon DEF QueueType, QueueInv, Front, Slots, Contents,
                     Ring!QueueType, Ring!QueueInv, Ring!Front, Ring!Slots, Ring!Contents

-----------------------------------------------------------------------------
(* What the invariant offers the steps *)

\* What the queue thread's invariant says, in the names of this module.
LEMMA FromHandshake ==
  HS!HandshakeInv =>
    /\ CheckingType /\ QueueInv
    /\ worker = "respond" => data \in Data
    /\ served \in Seq(Data)
    /\ worker = "pop" => ~IsDempty
    /\ pushed = served \o InHand \o Contents
<1> SUFFICES ASSUME HS!HandshakeInv
             PROVE  /\ CheckingType /\ QueueInv
                    /\ worker = "respond" => data \in Data
                    /\ served \in Seq(Data)
                    /\ worker = "pop" => ~IsDempty
                    /\ pushed = served \o InHand \o Contents
  OBVIOUS
<1>1. HS!Contents = Contents /\ HS!InHand = InHand
  BY DEF HS!Contents, Contents, HS!InHand, InHand
<1>2. CheckingType
  BY DEF HS!HandshakeInv, HS!TypeOK, HS!CheckingType, CheckingType, HS!QueueType,
         QueueType, HS!Slots, Slots, HS!WorkerPc, WorkerPc, HS!Seconds, Seconds,
         HS!FirstSecond, FirstSecond
<1>3. QueueInv
  BY <1>1 DEF HS!HandshakeInv, HS!QueueInv, QueueInv
<1>4. (worker = "respond" => data \in Data) /\ served \in Seq(Data)
  BY DEF HS!HandshakeInv, HS!HandInv
<1>5. worker = "pop" => ~IsDempty
  BY DEF HS!HandshakeInv, HS!PopFindsData, HS!IsDempty, IsDempty
<1>6. pushed = served \o InHand \o Contents
  BY <1>1 DEF HS!HandshakeInv, HS!ServedInOrder
<1>7. QED
  BY <1>2, <1>3, <1>4, <1>5, <1>6

\* The lowest free descriptor is one of the free ones.
LEMMA LowestFree == FreeFds # {} => Min(FreeFds) \in FreeFds
<1> SUFFICES ASSUME FreeFds # {} PROVE Min(FreeFds) \in FreeFds
  OBVIOUS
<1> DEFINE Below == {ss \in Nat \X Nat : ss[1] < ss[2]}
<1>1. FreeFds \subseteq Nat
  BY SocketAssumption DEF FreeFds, Fds
<1>2. IsWellFoundedOn(Below, Nat)
  BY NatLessThanWellFounded DEF OpToRel
<1>3. PICK x \in FreeFds : \A y \in FreeFds : ~ (<<y, x>> \in Below)
  BY <1>1, <1>2, WFMin
<1>4. \A y \in FreeFds : x <= y
  <2>1. TAKE y \in FreeFds
  <2>2. x \in Nat /\ y \in Nat /\ ~ (y < x)
    BY <1>1, <1>3
  <2>3. QED
    BY <2>2
<1>5. QED
  BY <1>4 DEF Min

\* A request is a connection and the number of one of its messages.
LEMMA RequestParts ==
  ASSUME NEW r
  PROVE  r \in Requests <=> \E c \in Conns : \E i \in 1 .. Len(Script[c]) :
                              r = [conn |-> c, num |-> i]
<1>1. \A c \in Conns : DOMAIN Script[c] = 1 .. Len(Script[c])
  BY SocketAssumption
<1>2. QED
  BY <1>1 DEF Requests

\* The scripts are finite, and so are their requests.
LEMMA RequestsFinite == IsFiniteSet(Requests)
<1> DEFINE Of(c) == {[conn |-> c, num |-> i] : i \in DOMAIN Script[c]}
<1>1. \A c \in Conns : IsFiniteSet(Of(c))
  <2>1. TAKE c \in Conns
  <2> DEFINE request == [i \in 1 .. Len(Script[c]) |-> [conn |-> c, num |-> i]]
  <2>2. DOMAIN Script[c] = 1 .. Len(Script[c]) /\ Len(Script[c]) \in Nat
    BY SocketAssumption
  <2>3. IsFiniteSet(1 .. Len(Script[c]))
    BY <2>2, FS_Interval
  <2>4. request \in Surjection(1 .. Len(Script[c]), Of(c))
    BY <2>2 DEF Surjection
  <2>5. QED
    BY <2>3, <2>4, FS_Surjection
<1>2. IsFiniteSet({Of(c) : c \in Conns})
  <2> DEFINE of == [c \in Conns |-> Of(c)]
  <2>1. of \in Surjection(Conns, {Of(c) : c \in Conns})
    BY DEF Surjection
  <2>2. QED
    BY <2>1, SocketAssumption, FS_Surjection
<1>3. QED
  BY <1>1, <1>2, FS_UNION DEF Requests

-----------------------------------------------------------------------------
(* The queue thread *)

\* Between two messages the queue took in there is never more than there are
\* requests: each request is pushed at most once.
LEMMA PushedBound ==
  ASSUME ServerType, PushedInv
  PROVE  Len(pushed) <= Cardinality(Requests)
<1> DEFINE of == [i \in 1 .. Len(pushed) |-> pushed[i].rev]
<1>1. /\ Len(pushed) \in Nat /\ DOMAIN pushed = 1 .. Len(pushed)
      /\ \A i \in 1 .. Len(pushed) : pushed[i] \in Data
  BY DEF ServerType
<1>2. \A i \in 1 .. Len(pushed) : pushed[i].rev \in Requests
  BY <1>1, ServerAssumption
<1>3. \A i \in 1 .. Len(pushed) : pushed[i].rev.num \in Nat
  <2>1. TAKE i \in 1 .. Len(pushed)
  <2>2. PICK c \in Conns : \E k \in 1 .. Len(Script[c]) : pushed[i].rev = [conn |-> c, num |-> k]
    BY <1>2, RequestParts
  <2>3. QED
    BY <2>2
<1>4. \A i, j \in 1 .. Len(pushed) : pushed[i].rev = pushed[j].rev => i = j
  BY <1>1, <1>3 DEF PushedInv
<1>5. of \in Injection(1 .. Len(pushed), Requests)
  BY <1>2, <1>4 DEF Injection, IsInjective
<1>6. Cardinality(1 .. Len(pushed)) <= Cardinality(Requests)
  BY <1>5, RequestsFinite, FS_Injection
<1>7. Cardinality(1 .. Len(pushed)) = Len(pushed)
  BY <1>1, FS_Interval
<1>8. QED
  BY <1>6, <1>7

\* The listener's steps outside the hand-over are nothing to the queue thread.
Elsewhere ==
  \/ EventLoopStep \/ ReadStep
  \/ AnswerInline \/ Limit \/ Close \/ Refuse \/ Admit(FALSE)
  \/ Client

\* They are stuttering steps of QueueHandshake.
LEMMA ElsewhereStutters ==
  Elsewhere => UNCHANGED HS!vars
<1> SUFFICES ASSUME Elsewhere PROVE UNCHANGED HS!vars
  OBVIOUS
<1>1. /\ UNCHANGED <<now, checkingVars>>
      /\ \/ UNCHANGED <<listener, rev, cur>>
         \/ /\ listener \notin {"push", "status", "resume"}
            /\ listener' \notin {"push", "status", "resume"}
  <2>1. CASE EventLoopStep
    BY <2>1 DEF EventLoopStep, WaitEvents, EventsDone, ErrorEvent, ServeEvent, Accept,
                AcceptEnds, listenerVars
  <2>2. CASE ReadStep
    BY <2>2 DEF ReadStep, ReadHeader, ReadDone, ReadError, ReadBody, BodyError
  <2>3. CASE AnswerInline \/ Limit \/ Close \/ Refuse
    BY <2>3 DEF AnswerInline, Limit, Close, Refuse
  <2>4. CASE Admit(FALSE)
    BY <2>4 DEF Admit
  <2>5. CASE Client
    BY <2>5 DEF Client, listenerVars
  <2>6. QED
    BY <2>1, <2>2, <2>3, <2>4, <2>5 DEF Elsewhere
<1>2. QED
  BY <1>1 DEF HS!vars, HS!checkingVars, HS!flagVars, HS!listenerVars, checkingVars, flagVars

\* An admitted message arrives; the three critical sections and the queue thread's
\* own steps are the same in both modules.
LEMMA MapsToHandshake ==
  ASSUME ServerType, BatchInv, ReadInv, PushedInv, [Next]_vars
  PROVE  [HS!Next]_HS!vars
<1>1. CASE UNCHANGED vars
  BY <1>1 DEF vars, checkingVars, flagVars, listenerVars,
              HS!vars, HS!checkingVars, HS!flagVars, HS!listenerVars
<1>2. CASE Elsewhere
  BY <1>2, ElsewhereStutters
<1>3. CASE Admit(TRUE)
  <2>1. /\ listener \in {"count", "open"} /\ listener' = "push"
        /\ UNCHANGED <<events, cur, rev, now, checkingVars>>
    BY <1>3 DEF Admit
  <2>2. [rev |-> rev, efd |-> cur] \in Data
    <3>1. rev \in Requests /\ cur \in Fds
      BY <2>1 DEF ReadInv, Holding, BatchInv, Serving
    <3>2. QED
      BY <3>1, ServerAssumption
  <2>3. Len(pushed) < Cardinality(Requests) + 1
    <3>1. Len(pushed) \in Nat /\ Cardinality(Requests) \in Nat
      BY RequestsFinite, FS_CardinalityType DEF ServerType
    <3>2. QED
      BY <3>1, PushedBound
  <2>4. HS!Arrive([rev |-> rev, efd |-> cur])
    BY <2>1, <2>3 DEF HS!Arrive, HS!checkingVars, HS!flagVars, checkingVars, flagVars
  <2>5. QED
    BY <2>2, <2>4 DEF HS!Next
<1>4. CASE Push
  <2>1. HS!PushMessage([rev |-> rev, efd |-> cur])
    BY <1>4 DEF Push, PushMessage, HS!PushMessage, CheckAndPush, HS!CheckAndPush, PushInQueue,
                HS!PushInQueue, IsFull, HS!IsFull, flagVars, HS!flagVars,
                MESSAGE_HEADER_LEN, HS!MESSAGE_HEADER_LEN
  <2>2. HS!Push
    BY <1>4, <2>1 DEF Push, HS!Push
  <2>3. QED
    BY <2>2 DEF HS!Next, HS!ListenerStep
<1>5. ASSUME NEW b \in BOOLEAN, Status(b)
      PROVE  HS!Next
  <2>1. HS!Status(b)
    BY <1>5 DEF Status, HS!Status, MarkReading, HS!MarkReading
  <2>2. QED
    BY <2>1 DEF HS!Next, HS!ListenerStep
<1>6. CASE Resume
  <2>1. HS!Resume
    BY <1>6 DEF Resume, HS!Resume, ResumeQueueThread, HS!ResumeQueueThread
  <2>2. QED
    BY <2>1 DEF HS!Next, HS!ListenerStep
<1>7. CASE WorkerStep
  <2>1. UNCHANGED <<now, HS!listenerVars>>
    BY <1>7 DEF WorkerStep, listenerVars, HS!listenerVars
  <2>2. CASE WorkerRespond
    <3>1. HS!Respond
      BY <2>2 DEF WorkerRespond, Respond, HS!Respond, flagVars, HS!flagVars
    <3>2. QED
      BY <2>1, <3>1 DEF HS!Next, HS!WorkerStep
  <2>3. CASE SpuriousWakeup
    <3>1. HS!SpuriousWakeup
      BY <2>3 DEF SpuriousWakeup, HS!SpuriousWakeup, flagVars, HS!flagVars
    <3>2. QED
      BY <2>1, <3>1 DEF HS!Next, HS!Spurious
  <2>4. CASE WorkerInternal
    <3>1. HS!WorkerInternal
      BY <2>4
         DEF WorkerInternal, CheckQueue, PopData, PopFromQueue, StartFree, CheckElapsed,
             MarkNotReading, SuspendQueueThread, RecheckSuspended, IsDempty, Front, DropFront,
             GetCurrTime, flagVars,
             HS!WorkerInternal, HS!CheckQueue, HS!PopData, HS!PopFromQueue, HS!StartFree,
             HS!CheckElapsed, HS!MarkNotReading, HS!SuspendQueueThread, HS!RecheckSuspended,
             HS!IsDempty, HS!Front, HS!DropFront, HS!GetCurrTime, HS!flagVars
    <3>2. QED
      BY <2>1, <3>1 DEF HS!Next, HS!WorkerStep
  <2>5. QED
    BY <1>7, <2>2, <2>3, <2>4 DEF WorkerStep
<1>8. CASE Second
  <2>1. HS!Second
    BY <1>8 DEF Second, Tick, checkingVars, flagVars, listenerVars,
                HS!Second, HS!Tick, HS!checkingVars, HS!flagVars, HS!listenerVars
  <2>2. QED
    BY <2>1 DEF HS!Next
<1>9. QED
  <2>1. (\E b \in BOOLEAN : Admit(b)) => Admit(TRUE) \/ Admit(FALSE)
    OBVIOUS
  <2>2. CASE Next
    BY <1>2, <1>3, <1>4, <1>5, <1>6, <1>7, <1>8, <2>1, <2>2
       DEF Next, ListenerStep, RequestStep, Elsewhere
  <2>3. QED
    BY <1>1, <2>2

\* So they keep the invariant of QueueHandshakeProofs.
LEMMA HandshakeKept ==
  HS!HandshakeInv /\ [HS!Next]_HS!vars => HS!HandshakeInv'
  BY HS!HandshakeStep, QueueAssumption, TimeAssumption, WaitAssumption
     DEF FirstSecond, HS!FirstSecond

-----------------------------------------------------------------------------
(* Types *)

\* Only the limiter's own operators write its variables, and only the clock's the
\* clock.
LEMMA LimiterTyped ==
  ASSUME ServerType, [Next]_vars
  PROVE  ClockType' /\ LimiterType'
<1>1. now \in Seconds /\ GetCurrTime \in {1000 * s : s \in 0 .. MaxTime}
  <2>1. now \in Seconds
    BY DEF ServerType, ClockType
  <2>2. now \in 0 .. MaxTime
    BY <2>1, TimeAssumption DEF Seconds, FirstSecond
  <2>3. QED
    BY <2>1, <2>2 DEF GetCurrTime
<1>2. CASE UNCHANGED <<now, limiterVars>>
  BY <1>2 DEF ServerType, ClockType, LimiterType, limiterVars
<1>3. CASE Limit
  <2>1. UNCHANGED now /\ StartCount
    BY <1>3 DEF Limit
  <2>2. QED
    BY <1>1, <2>1 DEF ServerType, ClockType, LimiterType, StartCount
<1>4. ASSUME NEW ret \in BOOLEAN, Admit(ret)
      PROVE  ClockType' /\ LimiterType'
  <2>1. UNCHANGED now /\ (CountInWindow(ret) \/ OpenWindow(ret))
    BY <1>4 DEF Admit
  <2>2. admitted' \in [Seconds -> Nat]
    <3>1. PICK one \in {0, 1} : admitted' = [admitted EXCEPT ![now] = @ + one]
      BY <2>1 DEF CountInWindow, OpenWindow, Result
    <3>2. QED
      BY <1>1, <3>1 DEF ServerType, LimiterType
  <2>3. /\ num_msg_in_sec' \in Nat /\ accept_msg' \in Nat /\ TPS' \in Nat /\ acceptTPS' \in Nat
        /\ time_start_count' \in {1000 * s : s \in 0 .. MaxTime}
    BY <1>1, <2>1 DEF CountInWindow, OpenWindow, ServerType, LimiterType
  <2>4. QED
    BY <2>1, <2>2, <2>3 DEF ServerType, ClockType, LimiterType
<1>5. CASE Close
  BY <1>5 DEF Close, CloseWindow, ServerType, ClockType, LimiterType
<1>6. CASE Second
  <2>1. now' \in Seconds /\ UNCHANGED limiterVars
    BY <1>6, TimeAssumption DEF Second, Tick, ServerType, ClockType, Seconds, FirstSecond
  <2>2. QED
    BY <2>1 DEF ServerType, ClockType, LimiterType, limiterVars
<1>7. CASE EventLoopStep \/ ReadStep
  BY <1>2, <1>7 DEF EventLoopStep, WaitEvents, EventsDone, ErrorEvent, ServeEvent, Accept,
                    AcceptEnds, ReadStep, ReadHeader, ReadDone, ReadError, ReadBody, BodyError
<1>8. CASE AnswerInline \/ Push \/ Resume \/ Refuse \/ \E b \in BOOLEAN : Status(b)
  BY <1>2, <1>8 DEF AnswerInline, Push, Resume, Refuse, Status
<1>9. CASE WorkerStep \/ Client \/ UNCHANGED vars
  BY <1>2, <1>9 DEF WorkerStep, Client, vars
<1>10. QED
  BY <1>3, <1>4, <1>5, <1>6, <1>7, <1>8, <1>9 DEF Next, ListenerStep, RequestStep

\* The connections and their descriptors.
LEMMA SocketsTyped ==
  ASSUME ServerType, BatchInv, [Next]_vars
  PROVE  SocketType'
<1> USE DEF socketVars, clientVars
<1>1. SocketType
  BY DEF ServerType
<1>2. CASE UNCHANGED socketVars
  BY <1>1, <1>2 DEF SocketType
<1>3. CASE Client
  <2>1. PICK c \in Conns :
          \/ Connect(c) \/ SendBody(c)
          \/ \E whole \in BOOLEAN : Send(c, whole)
          \/ \E how \in {"fin", "rst"} : Leave(c, how)
    BY <1>3 DEF Client, ClientStep
  <2>2. FdsOf(c) \subseteq Fds
    BY DEF FdsOf
  <2>3. CASE Connect(c)
    BY <1>1, <2>3, AppendProperties DEF Connect, SocketType
  <2>4. CASE SendBody(c)
    BY <1>1, <2>2, <2>4 DEF SendBody, Edge, SocketType
  <2>5. ASSUME NEW whole \in BOOLEAN, Send(c, whole)
        PROVE  SocketType'
    <3>1. (~whole) \in BOOLEAN
      OBVIOUS
    <3>2. half' \in [Conns -> BOOLEAN]
      BY <1>1, <2>5, <3>1 DEF Send, SocketType
    <3>3. sent' \in [Conns -> Nat]
      BY <1>1, <2>5 DEF Send, SocketType
    <3>4. QED
      BY <1>1, <2>2, <2>5, <3>2, <3>3 DEF Send, Edge, SocketType
  <2>6. ASSUME NEW how \in {"fin", "rst"}, Leave(c, how)
        PROVE  SocketType'
    BY <1>1, <2>2, <2>6 DEF Leave, Edge, SocketType
  <2>7. QED
    BY <2>1, <2>3, <2>4, <2>5, <2>6
<1>4. CASE WaitEvents
  BY <1>1, <1>4 DEF WaitEvents, EpollWait, SocketType
<1>5. ASSUME NEW f \in Fds, CloseFd(f), fds[f] # NoConn
      PROVE  SocketType'
  BY <1>1, <1>5 DEF CloseFd, SocketType
<1>6. ASSUME NEW e \in events, ErrorEvent(e)
      PROVE  SocketType'
  <2>1. e.fd \in Fds /\ fds[e.fd] # NoConn /\ CloseFd(e.fd)
    BY <1>6 DEF ErrorEvent, BatchInv, ServerType
  <2>2. QED
    BY <1>5, <2>1
<1>7. CASE ReadError \/ BodyError
  <2>1. cur \in Fds /\ fds[cur] # NoConn /\ CloseFd(cur)
    BY <1>7 DEF ReadError, BodyError, BatchInv, Serving
  <2>2. QED
    BY <1>5, <2>1
<1>8. CASE Accept
  <2>1. FreeFds # {} /\ backlog # <<>> /\ AcceptOne
    BY <1>8 DEF Accept, AcceptOne, NothingToAccept
  <2>2. Min(FreeFds) \in Fds
    BY <2>1, LowestFree DEF FreeFds
  <2>3. Head(backlog) \in Conns /\ Tail(backlog) \in Seq(Conns)
    BY <1>1, <2>1, HeadTailProperties DEF SocketType
  <2>4. fds' \in [Fds -> Conns \cup {NoConn}]
    BY <1>1, <2>1, <2>2, <2>3 DEF AcceptOne, SocketType
  <2>5. ready' \subseteq Fds \cup {SFD} /\ backlog' \in Seq(Conns)
    BY <1>1, <2>1, <2>2, <2>3 DEF AcceptOne, SocketType
  <2>6. QED
    BY <1>1, <2>1, <2>4, <2>5 DEF AcceptOne, SocketType
<1>9. CASE ReadHeader
  <2>1. taken' \in [Conns -> Nat]
    <3>1. fds[cur] \in Conns
      BY <1>1, <1>9 DEF ReadHeader, BatchInv, Serving, SocketType
    <3>2. QED
      BY <1>1, <1>9, <3>1 DEF ReadHeader, TakeHeader, SocketType
  <2>2. QED
    BY <1>1, <1>9, <2>1 DEF ReadHeader, TakeHeader, SocketType
<1>10. ASSUME NEW f, NEW r, NEW code, WriteAnswer(f, r, code)
       PROVE  SocketType'
  BY <1>1, <1>10 DEF WriteAnswer, Write, SocketType
<1>11. CASE EventLoopStep
  <2>1. (EventsDone \/ AcceptEnds \/ \E e \in events : ServeEvent(e)) => UNCHANGED socketVars
    BY DEF EventsDone, AcceptEnds, ServeEvent
  <2>2. QED
    BY <1>2, <1>4, <1>6, <1>8, <1>11, <2>1 DEF EventLoopStep
<1>12. CASE ReadStep
  <2>1. (ReadDone \/ ReadBody) => UNCHANGED socketVars
    BY DEF ReadDone, ReadBody
  <2>2. QED
    BY <1>2, <1>7, <1>9, <1>12, <2>1 DEF ReadStep
<1>13. CASE RequestStep
  <2>1. AnswerInline \/ Refuse => WriteAnswer(cur, rev, 2001) \/ WriteAnswer(cur, rev, 3001)
    BY DEF AnswerInline, Refuse
  <2>2. (Limit \/ Close \/ Push \/ Resume \/ \E b \in BOOLEAN : Admit(b) \/ Status(b))
          => UNCHANGED socketVars
    BY DEF Limit, Close, Push, Resume, Admit, Status
  <2>3. QED
    BY <1>2, <1>10, <1>13, <2>1, <2>2 DEF RequestStep
<1>14. CASE WorkerStep \/ Second \/ UNCHANGED vars
  <2>1. WorkerRespond => WriteAnswer(data.efd, data.rev, 2001)
    BY DEF WorkerRespond
  <2>2. WorkerRespond \/ UNCHANGED socketVars
    BY <1>14 DEF WorkerStep, Second, vars
  <2>3. QED
    BY <1>2, <1>10, <2>1, <2>2
<1>15. QED
  BY <1>3, <1>11, <1>12, <1>13, <1>14 DEF Next, ListenerStep

\* The listener's own variables.
LEMMA ListenerTyped ==
  ASSUME ServerType, BatchInv, ReadInv, [Next]_vars
  PROVE  /\ listener' \in {"wait", "event", "accept"} \cup Serving
         /\ events' \subseteq [fd : Fds \cup {SFD}, err : BOOLEAN]
         /\ cur' \in Fds \cup {SFD}
         /\ rev' \in Requests \cup {NoRev}
<1> DEFINE Typed == /\ listener \in {"wait", "event", "accept"} \cup Serving
                    /\ events \subseteq [fd : Fds \cup {SFD}, err : BOOLEAN]
                    /\ cur \in Fds \cup {SFD}
                    /\ rev \in Requests \cup {NoRev}
<1>1. Typed
  BY DEF ServerType
<1>2. CASE UNCHANGED <<events, cur, rev>>
           /\ (listener' = listener \/ listener' \in {"wait", "event", "accept"} \cup Serving)
  BY <1>1, <1>2
<1>3. CASE WaitEvents
  <2>1. \A f \in ready : (f # SFD /\ peer[fds[f]] = "rst") \in BOOLEAN
    OBVIOUS
  <2>2. ready \subseteq Fds \cup {SFD}
    BY DEF ServerType, SocketType
  <2>3. PICK S \in SUBSET ready :
          events' = {[fd |-> f, err |-> f # SFD /\ peer[fds[f]] = "rst"] : f \in S}
    BY <1>3 DEF WaitEvents, EpollWait
  <2>4. \A f \in S : [fd |-> f, err |-> f # SFD /\ peer[fds[f]] = "rst"]
                       \in [fd : Fds \cup {SFD}, err : BOOLEAN]
    BY <2>1, <2>2
  <2>5. events' \subseteq [fd : Fds \cup {SFD}, err : BOOLEAN]
    BY <2>3, <2>4
  <2>6. QED
    BY <1>1, <1>3, <2>5 DEF WaitEvents
<1>4. ASSUME NEW e \in events, ErrorEvent(e) \/ ServeEvent(e)
      PROVE  Typed'
  <2>1. /\ e.fd \in Fds \cup {SFD} /\ events' \subseteq events
        /\ cur' \in {cur, e.fd} /\ rev' = rev
        /\ listener' \in {listener, "accept", "read"}
    BY <1>1, <1>4 DEF ErrorEvent, ServeEvent
  <2>2. QED
    BY <1>1, <2>1 DEF Serving
<1>5. CASE EventsDone \/ Accept \/ AcceptEnds
  BY <1>2, <1>5 DEF EventsDone, Accept, AcceptEnds, listenerVars
<1>6. CASE ReadHeader
  <2>1. /\ fds[cur] \in Conns /\ HeaderThere(fds[cur])
        /\ rev' = [conn |-> fds[cur], num |-> taken'[fds[cur]]]
        /\ taken' = [taken EXCEPT ![fds[cur]] = @ + 1]
    BY <1>6 DEF ReadHeader, TakeHeader, BatchInv, Serving, ServerType, SocketType
  <2>2. taken'[fds[cur]] \in 1 .. Len(Script[fds[cur]])
    BY <2>1, SocketAssumption DEF HeaderThere, ReadInv, ServerType, SocketType
  <2>3. rev' \in Requests
    BY <2>1, <2>2, RequestParts
  <2>4. QED
    BY <1>1, <1>6, <2>3 DEF ReadHeader, Serving
<1>7. CASE ReadDone \/ ReadError \/ ReadBody \/ BodyError
  BY <1>2, <1>7 DEF ReadDone, ReadError, ReadBody, BodyError, Serving
<1>8. CASE RequestStep
  BY <1>2, <1>8 DEF RequestStep, AnswerInline, Limit, Close, Push, Resume, Refuse, Admit, Status,
                    Serving
<1>9. CASE WorkerStep \/ Client \/ Second \/ UNCHANGED vars
  BY <1>2, <1>9 DEF WorkerStep, Client, Second, vars, listenerVars
<1>10. QED
  BY <1>3, <1>4, <1>5, <1>6, <1>7, <1>8, <1>9
     DEF Next, ListenerStep, EventLoopStep, ReadStep

\* A write appends one answer to one request.
LEMMA AnswerAppended ==
  ASSUME ServerType, NEW f, NEW r \in Requests, NEW code \in Codes, WriteAnswer(f, r, code)
  PROVE  \E to \in Conns \cup {NoConn} :
           /\ Write(f, to)
           /\ answers' = [answers EXCEPT ![r] = Append(@, [code |-> code, to |-> to])]
           /\ answers' \in [Requests -> Seq(Answer)]
<1>1. PICK to \in Conns \cup {NoConn} :
        /\ Write(f, to)
        /\ answers' = [answers EXCEPT ![r] = Append(@, [code |-> code, to |-> to])]
  BY Zenon DEF WriteAnswer
<1> DEFINE answer == [code |-> code, to |-> to]
<1>2. answer \in Answer
  BY DEF Answer
<1>3. answers \in [Requests -> Seq(Answer)]
  BY DEF ServerType
<1>4. answers' = [answers EXCEPT ![r] = Append(@, answer)]
  BY <1>1
<1> HIDE DEF answer
<1>5. Append(answers[r], answer) \in Seq(Answer)
  BY <1>2, <1>3, AppendProperties
<1>6. answers' \in [Requests -> Seq(Answer)]
  BY <1>3, <1>4, <1>5
<1>7. QED
  BY <1>1, <1>6, Zenon

\* What is kept of the requests.
LEMMA HistoryTyped ==
  ASSUME ServerType, ReadInv, worker = "respond" => data \in Data, [Next]_vars
  PROVE  /\ broken' \subseteq Requests /\ dropped' \subseteq Requests
         /\ answers' \in [Requests -> Seq(Answer)]
<1> DEFINE Typed ==
      /\ broken \subseteq Requests /\ dropped \subseteq Requests
      /\ answers \in [Requests -> Seq(Answer)]
<1>1. Typed
  BY DEF ServerType
<1>2. CASE UNCHANGED historyVars
  BY <1>1, <1>2 DEF historyVars
<1>3. CASE BodyError \/ Push
  <2>1. rev \in Requests /\ UNCHANGED answers
    BY <1>3 DEF BodyError, Push, ReadInv, Holding
  <2>2. broken' \subseteq Requests /\ dropped' \subseteq Requests
    BY <1>1, <1>3, <2>1 DEF BodyError, Push
  <2>3. QED
    BY <1>1, <2>1, <2>2
<1>4. CASE AnswerInline \/ Refuse
  <2>1. /\ rev \in Requests /\ UNCHANGED <<broken, dropped>>
        /\ \E code \in Codes : WriteAnswer(cur, rev, code)
    BY <1>4 DEF AnswerInline, Refuse, ReadInv, Holding, Codes
  <2>2. PICK code \in Codes : WriteAnswer(cur, rev, code)
    BY <2>1
  <2>3. answers' \in [Requests -> Seq(Answer)]
    BY <2>1, <2>2, AnswerAppended
  <2>4. QED
    BY <1>1, <2>1, <2>3
<1>5. CASE WorkerRespond
  <2>1. data.rev \in Requests
    BY <1>5, ServerAssumption DEF WorkerRespond, Respond
  <2>2. PICK code \in Codes : WriteAnswer(data.efd, data.rev, code)
    BY <1>5 DEF WorkerRespond, Codes
  <2>3. answers' \in [Requests -> Seq(Answer)]
    BY <2>1, <2>2, AnswerAppended
  <2>4. UNCHANGED <<broken, dropped>>
    BY <1>5 DEF WorkerRespond
  <2>5. QED
    BY <1>1, <2>3, <2>4
<1>6. CASE EventLoopStep \/ ReadHeader \/ ReadDone \/ ReadError \/ ReadBody
  BY <1>2, <1>6 DEF EventLoopStep, WaitEvents, EventsDone, ErrorEvent, ServeEvent, Accept,
                    AcceptEnds, ReadHeader, ReadDone, ReadError, ReadBody
<1>7. CASE Limit \/ Close \/ Resume \/ \E b \in BOOLEAN : Admit(b) \/ Status(b)
  BY <1>2, <1>7 DEF Limit, Close, Resume, Admit, Status
<1>8. CASE Client \/ Second \/ UNCHANGED vars
  BY <1>2, <1>8 DEF Client, Second, vars
<1>9. QED
  BY <1>2, <1>3, <1>4, <1>5, <1>6, <1>7, <1>8
     DEF Next, ListenerStep, ReadStep, RequestStep, WorkerStep

-----------------------------------------------------------------------------
(* Events and edges *)

\* Steps that leave descriptors, edges and the batch alone, and the listener where
\* it serves or where it was.
Inside ==
  /\ UNCHANGED <<events, cur, fds, closed, ready, backlog, peer, sent>>
  /\ listener' = listener \/ (listener \in Serving /\ listener' \in Serving)

\* The steps on one request, the queue thread and the clock are of that kind.
LEMMA InsideSteps ==
  ReadHeader \/ ReadBody \/ RequestStep \/ WorkerStep \/ Second \/ UNCHANGED vars => Inside
<1>1. ReadHeader => Inside
  BY DEF ReadHeader, TakeHeader, clientVars, Inside, Serving
<1>2. ReadBody => Inside
  BY DEF ReadBody, socketVars, clientVars, Inside, Serving
<1>3. ASSUME NEW f, NEW r, NEW code, WriteAnswer(f, r, code)
      PROVE  UNCHANGED <<fds, closed, ready, backlog, peer, sent, taken>>
  BY <1>3 DEF WriteAnswer, Write, clientVars
<1>4. ASSUME RequestStep
      PROVE  Inside
  <2>1. CASE AnswerInline \/ Refuse
    BY <1>3, <2>1 DEF AnswerInline, Refuse, Inside, Serving
  <2>2. CASE Limit \/ Close \/ Push \/ Resume \/ \E b \in BOOLEAN : Admit(b) \/ Status(b)
    BY <2>2 DEF Limit, Close, Push, Resume, Admit, Status, socketVars, clientVars, Inside, Serving
  <2>3. QED
    BY <1>4, <2>1, <2>2 DEF RequestStep
<1>5. WorkerStep => Inside
  <2>1. WorkerStep => UNCHANGED listenerVars /\ (WorkerRespond \/ UNCHANGED socketVars)
    BY DEF WorkerStep
  <2>2. QED
    BY <1>3, <2>1 DEF WorkerRespond, listenerVars, socketVars, clientVars, Inside
<1>6. Second \/ UNCHANGED vars => Inside
  BY DEF Second, vars, listenerVars, socketVars, clientVars, Inside
<1>7. QED
  BY <1>1, <1>2, <1>4, <1>5, <1>6

\* What the clients do to the sockets.
LEMMA ClientFrame ==
  Client => UNCHANGED <<taken, fds, closed, alive, events, cur, rev, listener,
                        checkingVars, limiterVars, historyVars, now>>
  BY DEF Client, ClientStep, Connect, Send, SendBody, Leave, listenerVars

\* A batch comes with one event for each of its descriptors; the listener takes an
\* event out before it serves it or closes its descriptor.
LEMMA BatchKept ==
  ASSUME ServerType, BatchInv, [Next]_vars
  PROVE  BatchInv'
<1>1. CASE Inside
  BY <1>1 DEF Inside, BatchInv, Serving
<1>2. CASE Client
  BY <1>2, ClientFrame DEF BatchInv
<1>3. CASE WaitEvents
  <2>1. PICK S \in SUBSET {f \in ready : HasEvent(f)} :
          events' = {[fd |-> f, err |-> f # SFD /\ peer[fds[f]] = "rst"] : f \in S}
    BY <1>3 DEF WaitEvents, EpollWait
  <2>2. listener' = "event" /\ UNCHANGED fds
    BY <1>3 DEF WaitEvents, EpollWait
  <2>3. \A e \in events' : e.fd \in S /\ e = [fd |-> e.fd, err |-> e.fd # SFD /\ peer[fds[e.fd]] = "rst"]
    BY <2>1
  <2>4. \A e \in events' : /\ e.fd = SFD => ~e.err
                           /\ e.fd \in Fds => fds'[e.fd] # NoConn
    <3>1. TAKE e \in events'
    <3>2. HasEvent(e.fd) /\ (e.fd = SFD => e = [fd |-> e.fd, err |-> FALSE])
      BY <2>1, <2>3
    <3>3. e.fd = SFD => ~e.err
      BY <3>2
    <3>4. e.fd \in Fds => e.fd # SFD
      BY SocketAssumption DEF Fds, SFD
    <3>5. QED
      BY <2>2, <3>2, <3>3, <3>4 DEF HasEvent
  <2>5. \A e1, e2 \in events' : e1.fd = e2.fd => e1 = e2
    BY <2>3
  <2>6. QED
    BY <2>2, <2>4, <2>5 DEF BatchInv, Serving
<1>4. CASE EventsDone \/ AcceptEnds \/ ReadDone
  BY <1>4 DEF EventsDone, AcceptEnds, ReadDone, socketVars, BatchInv, Serving
<1>5. ASSUME NEW e \in events, ErrorEvent(e)
      PROVE  BatchInv'
  <2>1. /\ events' = events \ {e} /\ fds' = [fds EXCEPT ![e.fd] = NoConn]
        /\ listener = "event" /\ listener' = listener
    BY <1>5 DEF ErrorEvent, CloseFd
  <2>2. \A d \in events' : d \in events /\ d.fd # e.fd
    BY <2>1 DEF BatchInv
  <2>3. \A d \in events' : d.fd \in Fds => fds'[d.fd] = fds[d.fd]
    BY <2>1, <2>2 DEF ServerType, SocketType
  <2>4. QED
    BY <2>1, <2>2, <2>3 DEF BatchInv, Serving
<1>6. ASSUME NEW e \in events, ServeEvent(e)
      PROVE  BatchInv'
  <2>1. /\ events' = events \ {e} /\ fds' = fds /\ cur' = e.fd
        /\ listener' \in {"accept", "read"} /\ (listener' = "read" => e.fd # SFD)
    BY <1>6 DEF ServeEvent, socketVars
  <2>2. \A d \in events' : d \in events /\ d.fd # e.fd
    BY <2>1 DEF BatchInv
  <2>3. e.fd \in Fds \cup {SFD}
    BY DEF ServerType
  <2>4. QED
    BY <2>1, <2>2, <2>3 DEF BatchInv, Serving
<1>7. CASE Accept
  <2>1. Min(FreeFds) \in Fds /\ Head(backlog) \in Conns
    BY <1>7, LowestFree, HeadTailProperties
       DEF Accept, AcceptOne, NothingToAccept, FreeFds, ServerType, SocketType
  <2>2. /\ listener = "accept" /\ UNCHANGED <<listener, events, cur>>
        /\ fds' = [fds EXCEPT ![Min(FreeFds)] = Head(backlog)]
    BY <1>7 DEF Accept, AcceptOne, listenerVars
  <2>3. \A f \in Fds : fds[f] # NoConn => fds'[f] # NoConn
    BY <2>1, <2>2, SocketAssumption DEF ServerType, SocketType
  <2>4. QED
    BY <2>2, <2>3 DEF BatchInv, Serving
<1>8. CASE ReadError \/ BodyError
  <2>1. /\ UNCHANGED <<events, cur>> /\ fds' = [fds EXCEPT ![cur] = NoConn]
        /\ listener \in Serving /\ listener' = "event"
    BY <1>8 DEF ReadError, BodyError, CloseFd, Serving
  <2>2. \A d \in events : d.fd \in Fds => fds'[d.fd] = fds[d.fd]
    BY <2>1 DEF BatchInv, ServerType, SocketType
  <2>3. QED
    BY <2>1, <2>2 DEF BatchInv, Serving
<1>9. QED
  BY <1>1, <1>2, <1>3, <1>4, <1>5, <1>6, <1>7, <1>8, InsideSteps
     DEF Next, ListenerStep, EventLoopStep, ReadStep

\* Only reading a header takes anything out of a receive buffer.
LEMMA TakenFrame ==
  [Next]_vars => ReadHeader \/ UNCHANGED taken
<1>1. ASSUME NEW f, NEW r, NEW code, WriteAnswer(f, r, code)
      PROVE  UNCHANGED taken
  BY <1>1 DEF WriteAnswer, Write
<1>2. AnswerInline \/ Refuse \/ WorkerRespond => UNCHANGED taken
  BY <1>1 DEF AnswerInline, Refuse, WorkerRespond
<1>3. EventLoopStep => UNCHANGED taken
  BY DEF EventLoopStep, WaitEvents, EpollWait, EventsDone, ErrorEvent, ServeEvent, CloseFd, Accept,
         AcceptOne, AcceptEnds, socketVars
<1>4. ReadDone \/ ReadError \/ ReadBody \/ BodyError => UNCHANGED taken
  BY DEF ReadDone, ReadError, ReadBody, BodyError, CloseFd, socketVars
<1>5. Limit \/ Close \/ Push \/ Resume \/ (\E b \in BOOLEAN : Admit(b) \/ Status(b))
        => UNCHANGED taken
  BY DEF Limit, Close, Push, Resume, Admit, Status, socketVars
<1>6. WorkerStep \/ Client \/ Second \/ UNCHANGED vars => UNCHANGED taken
  BY <1>2, ClientFrame DEF WorkerStep, Second, vars, socketVars
<1>7. QED
  BY <1>2, <1>3, <1>4, <1>5, <1>6 DEF Next, ListenerStep, ReadStep, RequestStep

\* Reading one header adds one to what was taken of the connection being read.
LEMMA ReadHeaderTakes ==
  ASSUME ServerType, BatchInv, ReadInv, ReadHeader
  PROVE  /\ fds[cur] \in Conns
         /\ rev' = [conn |-> fds[cur], num |-> taken[fds[cur]] + 1] /\ rev' \in Requests
         /\ taken[fds[cur]] \in Nat /\ taken[fds[cur]] + 1 <= sent[fds[cur]]
         /\ taken' \in [Conns -> Nat]
         /\ \A c \in Conns : taken'[c] = IF c = fds[cur] THEN taken[c] + 1 ELSE taken[c]
<1>1. fds[cur] \in Conns /\ taken \in [Conns -> Nat] /\ sent \in [Conns -> Nat]
  BY DEF ReadHeader, BatchInv, Serving, ServerType, SocketType
<1>2. /\ HeaderThere(fds[cur])
      /\ rev' = [conn |-> fds[cur], num |-> taken'[fds[cur]]]
      /\ taken' = [taken EXCEPT ![fds[cur]] = @ + 1]
  BY DEF ReadHeader, TakeHeader
<1>3. /\ taken' \in [Conns -> Nat]
      /\ \A c \in Conns : taken'[c] = IF c = fds[cur] THEN taken[c] + 1 ELSE taken[c]
  BY <1>1, <1>2
<1>4. taken[fds[cur]] \in Nat /\ taken[fds[cur]] + 1 <= sent[fds[cur]]
  BY <1>1, <1>2 DEF HeaderThere
<1>5. rev' = [conn |-> fds[cur], num |-> taken[fds[cur]] + 1]
  BY <1>1, <1>2, <1>3
<1>6. rev' \in Requests
  <2>1. Len(Script[fds[cur]]) \in Nat /\ sent[fds[cur]] <= Len(Script[fds[cur]])
    BY <1>1, SocketAssumption DEF ReadInv
  <2>2. taken[fds[cur]] + 1 \in 1 .. Len(Script[fds[cur]])
    BY <1>1, <1>4, <2>1
  <2>3. QED
    BY <1>1, <1>5, <2>2, RequestParts
<1>7. QED
  BY <1>1, <1>3, <1>4, <1>5, <1>6

\* An edge is made where something to report appears, and is lost only to the
\* batch, to the descriptor being read, or with the descriptor.
LEMMA EdgesKept ==
  ASSUME ServerType, BatchInv, ReadInv, NoLostEdge, [Next]_vars
  PROVE  NoLostEdge'
<1> SUFFICES ASSUME NEW f \in Fds, HasEvent(f)'
             PROVE  \/ f \in ready'
                    \/ \E e \in events' : e.fd = f
                    \/ cur' = f /\ listener' \in Serving
  BY DEF NoLostEdge
<1>1. /\ f # SFD /\ fds'[f] # NoConn
      /\ taken'[fds'[f]] < sent'[fds'[f]] \/ peer'[fds'[f]] # "open"
  BY SocketAssumption DEF HasEvent, HeaderThere, Fds, SFD
<1>2. HasEvent(f) => \/ f \in ready
                     \/ \E e \in events : e.fd = f
                     \/ cur = f /\ listener \in Serving
  BY DEF NoLostEdge
<1>3. fds[f] # NoConn /\ (taken[fds[f]] < sent[fds[f]] \/ peer[fds[f]] # "open") => HasEvent(f)
  BY <1>1 DEF HasEvent, HeaderThere
<1>4. CASE Inside
  <2>1. UNCHANGED <<events, cur, fds, ready, peer, sent>>
    BY <1>4 DEF Inside
  <2>2. HasEvent(f)
    <3>1. CASE UNCHANGED taken
      BY <1>1, <1>3, <2>1, <3>1
    <3>2. CASE ReadHeader
      <4>1. fds[f] \in Conns
        BY <1>1, <2>1 DEF ServerType, SocketType
      <4>2. taken[fds[f]] <= taken'[fds[f]] /\ taken[fds[f]] \in Nat /\ taken'[fds[f]] \in Nat
        <5>1. \A c \in Conns : taken[c] \in Nat
          BY DEF ServerType, SocketType
        <5>2. \A c \in Conns : taken'[c] = IF c = fds[cur] THEN taken[c] + 1 ELSE taken[c]
          BY <3>2, ReadHeaderTakes
        <5>3. QED
          BY <4>1, <5>1, <5>2
      <4>3. sent[fds[f]] \in Nat
        BY <4>1 DEF ServerType, SocketType
      <4>4. QED
        BY <1>1, <1>3, <2>1, <4>2, <4>3
    <3>3. QED
      BY <3>1, <3>2, TakenFrame
  <2>3. QED
    BY <1>2, <1>4, <2>1, <2>2 DEF Inside
<1>5. CASE Client
  <2>1. UNCHANGED <<taken, fds, events, cur, listener>>
    BY <1>5, ClientFrame
  <2>2. PICK c \in Conns :
          \/ Connect(c) \/ SendBody(c)
          \/ \E whole \in BOOLEAN : Send(c, whole)
          \/ \E how \in {"fin", "rst"} : Leave(c, how)
    BY <1>5 DEF Client, ClientStep
  <2>3. CASE Connect(c)
    <3>1. ready \subseteq ready' /\ UNCHANGED sent
      BY <2>3 DEF Connect
    <3>2. peer'[fds[f]] # "open" => peer[fds[f]] # "open"
      BY <2>3 DEF Connect, ServerType, SocketType
    <3>3. peer[fds[f]] = "none" \/ peer'[fds[f]] = peer[fds[f]]
      BY <2>3 DEF Connect, ServerType, SocketType
    <3>4. HasEvent(f)
      BY <1>1, <1>3, <2>1, <3>1, <3>3
    <3>5. QED
      BY <1>2, <2>1, <3>1, <3>4
  <2>4. CASE ~Connect(c)
    <3>1. /\ ready' = ready \cup FdsOf(c)
          /\ \A d \in Conns : d # c => peer'[d] = peer[d] /\ sent'[d] = sent[d]
      BY <2>2, <2>4 DEF Send, SendBody, Leave, Edge, ServerType, SocketType
    <3>2. CASE fds[f] = c
      BY <3>1, <3>2 DEF FdsOf
    <3>3. CASE fds[f] # c
      <4>1. fds[f] \in Conns
        BY <1>1, <2>1 DEF ServerType, SocketType
      <4>2. HasEvent(f)
        BY <1>1, <1>3, <2>1, <3>1, <3>3, <4>1
      <4>3. QED
        BY <1>2, <2>1, <3>1, <4>2
    <3>4. QED
      BY <3>2, <3>3
  <2>5. QED
    BY <2>3, <2>4
<1>6. CASE WaitEvents
  <2>1. PICK S \in SUBSET ready :
          /\ events' = {[fd |-> g, err |-> g # SFD /\ peer[fds[g]] = "rst"] : g \in S}
          /\ ready' = ready \ S
    BY <1>6 DEF WaitEvents, EpollWait
  <2>2. UNCHANGED <<taken, sent, peer, fds, cur>> /\ listener = "wait"
    BY <1>6 DEF WaitEvents, EpollWait, clientVars
  <2>3. HasEvent(f)
    BY <1>1, <1>3, <2>2
  <2>4. f \in ready
    BY <1>2, <2>2, <2>3 DEF BatchInv, Serving
  <2>5. f \in S => \E e \in events' : e.fd = f
    <3> DEFINE event == [fd |-> f, err |-> f # SFD /\ peer[fds[f]] = "rst"]
    <3>1. f \in S => event \in events'
      BY <2>1
    <3>2. event.fd = f
      OBVIOUS
    <3>3. QED
      BY <3>1, <3>2
  <2>6. QED
    BY <2>1, <2>4, <2>5
<1>7. CASE EventsDone \/ AcceptEnds
  <2>1. UNCHANGED <<taken, sent, peer, fds, cur, ready, events>> /\ listener \notin Serving
    BY <1>7 DEF EventsDone, AcceptEnds, socketVars, clientVars, Serving
  <2>2. QED
    BY <1>1, <1>2, <1>3, <2>1
<1>8. ASSUME NEW e \in events, ServeEvent(e)
      PROVE  \/ f \in ready'
             \/ \E d \in events' : d.fd = f
             \/ cur' = f /\ listener' \in Serving
  <2>1. /\ UNCHANGED <<taken, sent, peer, fds, ready>> /\ listener \notin Serving
        /\ events' = events \ {e} /\ cur' = e.fd
        /\ e.fd # SFD => listener' = "read"
    BY <1>8 DEF ServeEvent, socketVars, clientVars, Serving
  <2>2. HasEvent(f)
    BY <1>1, <1>3, <2>1
  <2>3. QED
    BY <1>1, <1>2, <2>1, <2>2 DEF Serving
<1>9. ASSUME NEW g \in Fds, CloseFd(g), UNCHANGED cur,
             \A e \in events : e.fd # g => e \in events',
             cur = g \/ listener \notin Serving
      PROVE  f \in ready' \/ \E e \in events' : e.fd = f
  <2>1. /\ UNCHANGED <<taken, sent, peer>> /\ ready' = ready \ {g}
        /\ fds' = [fds EXCEPT ![g] = NoConn]
    BY <1>9 DEF CloseFd, clientVars
  <2>2. f # g /\ fds'[f] = fds[f]
    BY <1>1, <2>1 DEF ServerType, SocketType
  <2>3. HasEvent(f)
    BY <1>1, <1>3, <2>1, <2>2
  <2>4. QED
    BY <1>2, <1>9, <2>1, <2>2, <2>3
<1>10. ASSUME NEW e \in events, ErrorEvent(e)
       PROVE  f \in ready' \/ \E d \in events' : d.fd = f
  <2>1. /\ e.fd \in Fds /\ CloseFd(e.fd) /\ UNCHANGED cur
        /\ events' = events \ {e} /\ listener \notin Serving
    BY <1>10 DEF ErrorEvent, BatchInv, ServerType, Serving
  <2>2. QED
    BY <1>9, <2>1
<1>11. CASE ReadError \/ BodyError
  <2>1. cur \in Fds /\ CloseFd(cur) /\ UNCHANGED <<cur, events>>
    BY <1>11 DEF ReadError, BodyError, BatchInv, Serving
  <2>2. QED
    BY <1>9, <2>1
<1>12. CASE ReadDone
  <2>1. /\ UNCHANGED <<taken, sent, peer, fds, cur, ready, events>>
        /\ ~HeaderThere(fds[cur]) /\ peer[fds[cur]] = "open"
    BY <1>12 DEF ReadDone, socketVars, clientVars
  <2>2. HasEvent(f) /\ f # cur
    BY <1>1, <1>3, <2>1 DEF HeaderThere
  <2>3. QED
    BY <1>2, <2>1, <2>2
<1>13. CASE Accept
  <2>1. /\ Min(FreeFds) \in FreeFds /\ listener \notin Serving
        /\ UNCHANGED <<taken, sent, peer, cur, events>>
        /\ fds' = [fds EXCEPT ![Min(FreeFds)] = Head(backlog)]
        /\ ready' = IF HeaderThere(Head(backlog)) \/ peer[Head(backlog)] # "open"
                      THEN ready \cup {Min(FreeFds)} ELSE ready
    BY <1>13, LowestFree
       DEF Accept, AcceptOne, NothingToAccept, listenerVars, clientVars, Serving
  <2>2. CASE f = Min(FreeFds)
    <3>1. fds'[f] = Head(backlog)
      BY <2>1, <2>2 DEF ServerType, SocketType
    <3>2. QED
      BY <1>1, <2>1, <2>2, <3>1 DEF HeaderThere
  <2>3. CASE f # Min(FreeFds)
    <3>1. fds'[f] = fds[f]
      BY <2>1, <2>3 DEF ServerType, SocketType
    <3>2. HasEvent(f)
      BY <1>1, <1>3, <2>1, <3>1
    <3>3. QED
      BY <1>2, <2>1, <3>2
  <2>4. QED
    BY <2>2, <2>3
<1>14. QED
  BY <1>4, <1>5, <1>6, <1>7, <1>8, <1>10, <1>11, <1>12, <1>13, InsideSteps
     DEF Next, ListenerStep, EventLoopStep, ReadStep

-----------------------------------------------------------------------------
(* The order of what is read and pushed *)

\* The listener gets hold of a request by reading its header, and keeps it as it is
\* until it is through with it.
LEMMA HoldingFrame ==
  [Next]_vars => \/ ReadHeader \/ ~Holding'
                 \/ Holding /\ UNCHANGED <<rev, cur, fds>>
<1>1. EventLoopStep => ~Holding'
  BY DEF EventLoopStep, WaitEvents, EventsDone, ErrorEvent, ServeEvent, Accept, AcceptEnds,
         listenerVars, Holding
<1>2. ReadDone \/ ReadError \/ BodyError => ~Holding'
  BY DEF ReadDone, ReadError, BodyError, Holding
<1>3. ReadBody => Holding /\ UNCHANGED <<rev, cur, fds>>
  BY DEF ReadBody, socketVars, Holding
<1>4. AnswerInline \/ Push \/ Resume \/ Refuse => ~Holding'
  BY DEF AnswerInline, Push, Resume, Refuse, Holding
<1>5. (\E b \in BOOLEAN : Status(b)) => ~Holding'
  BY DEF Status, Holding
<1>6. Limit \/ Close \/ (\E b \in BOOLEAN : Admit(b)) => Holding /\ UNCHANGED <<rev, cur, fds>>
  BY DEF Limit, Close, Admit, socketVars, Holding
<1>7. WorkerStep \/ Client \/ Second \/ UNCHANGED vars
        => UNCHANGED <<rev, cur, fds, listener>>
  <2>1. WorkerStep => Inside /\ UNCHANGED listenerVars
    BY InsideSteps DEF WorkerStep
  <2>2. QED
    BY <2>1, ClientFrame DEF Second, vars, listenerVars, socketVars, Inside
<1>8. UNCHANGED listener => (Holding' <=> Holding)
  BY DEF Holding
<1>9. QED
  BY <1>1, <1>2, <1>3, <1>4, <1>5, <1>6, <1>7, <1>8
     DEF Next, ListenerStep, ReadStep, RequestStep

\* Connections are read in order.
LEMMA ReadKept ==
  ASSUME ServerType, BatchInv, ReadInv, [Next]_vars
  PROVE  ReadInv'
<1>1. /\ taken \in [Conns -> Nat] /\ sent \in [Conns -> Nat]
      /\ \A c \in Conns : Len(Script[c]) \in Nat
  BY SocketAssumption DEF ServerType, SocketType
<1>2. \A c \in Conns : taken[c] <= sent[c] /\ sent[c] <= Len(Script[c])
  BY DEF ReadInv
<1>3. CASE ReadHeader
  <2>1. \A c \in Conns : taken'[c] <= sent[c]
    <3>1. TAKE c \in Conns
    <3>2. taken'[c] = IF c = fds[cur] THEN taken[c] + 1 ELSE taken[c]
      BY <1>3, ReadHeaderTakes
    <3>3. taken[fds[cur]] + 1 <= sent[fds[cur]]
      BY <1>3, ReadHeaderTakes
    <3>4. QED
      BY <1>2, <3>2, <3>3
  <2>2. UNCHANGED <<sent, fds, cur>>
    BY <1>3 DEF ReadHeader, TakeHeader, clientVars
  <2>3. rev' \in Requests /\ rev'.conn = fds'[cur'] /\ rev'.num = taken'[rev'.conn]
    BY <1>3, <2>2, ReadHeaderTakes
  <2>4. QED
    BY <1>2, <2>1, <2>2, <2>3 DEF ReadInv
<1>4. CASE ~ReadHeader
  <2>1. UNCHANGED taken
    BY <1>4, TakenFrame
  <2>2. \A c \in Conns : sent[c] <= sent'[c] /\ sent'[c] <= Len(Script[c])
    <3>1. CASE UNCHANGED sent
      BY <1>1, <1>2, <3>1
    <3>2. ASSUME NEW c \in Conns, NEW whole \in BOOLEAN, Send(c, whole)
          PROVE  \A d \in Conns : sent[d] <= sent'[d] /\ sent'[d] <= Len(Script[d])
      <4>1. sent' = [sent EXCEPT ![c] = @ + 1] /\ sent[c] < Len(Script[c])
        BY <3>2 DEF Send
      <4>2. QED
        BY <1>1, <1>2, <4>1
    <3>3. Client => \/ UNCHANGED sent
                    \/ \E c \in Conns, whole \in BOOLEAN : Send(c, whole)
      BY DEF Client, ClientStep, Connect, SendBody, Leave
    <3>4. Client \/ UNCHANGED sent
      <4>1. Inside => UNCHANGED sent
        BY DEF Inside
      <4>2. EventLoopStep => UNCHANGED sent
        BY DEF EventLoopStep, WaitEvents, EpollWait, EventsDone, ErrorEvent, ServeEvent, CloseFd,
               Accept, AcceptOne, AcceptEnds, socketVars, clientVars
      <4>3. ReadDone \/ ReadError \/ BodyError => UNCHANGED sent
        BY DEF ReadDone, ReadError, BodyError, CloseFd, socketVars, clientVars
      <4>4. QED
        BY <4>1, <4>2, <4>3, InsideSteps DEF Next, ListenerStep, ReadStep
    <3>5. QED
      BY <3>1, <3>2, <3>3, <3>4
  <2>3. \A c \in Conns : taken'[c] <= sent'[c] /\ sent'[c] <= Len(Script[c])
    <3>1. TAKE c \in Conns
    <3>2. taken[c] <= sent[c] /\ sent[c] <= sent'[c] /\ sent'[c] <= Len(Script[c])
      BY <1>2, <2>2
    <3>3. taken[c] \in Nat /\ sent[c] \in Nat /\ sent'[c] \in Nat
      BY <1>1, SocketsTyped DEF SocketType
    <3>4. QED
      BY <2>1, <3>2, <3>3
  <2>4. Holding' => rev' \in Requests /\ rev'.conn = fds'[cur'] /\ rev'.num = taken'[rev'.conn]
    BY <1>4, <2>1, HoldingFrame DEF ReadInv
  <2>5. QED
    BY <2>3, <2>4 DEF ReadInv
<1>5. QED
  BY <1>3, <1>4

\* Only the listener's push adds to what the queue took in.
LEMMA PushedFrame ==
  [Next]_vars => Push \/ UNCHANGED pushed
<1>1. UNCHANGED checkingVars => UNCHANGED pushed
  BY DEF checkingVars
<1>2. EventLoopStep \/ ReadStep => UNCHANGED checkingVars
  BY DEF EventLoopStep, WaitEvents, EventsDone, ErrorEvent, ServeEvent, Accept, AcceptEnds,
         ReadStep, ReadHeader, ReadDone, ReadError, ReadBody, BodyError
<1>3. AnswerInline \/ Limit \/ Close \/ Refuse \/ (\E b \in BOOLEAN : Admit(b))
        => UNCHANGED checkingVars
  BY DEF AnswerInline, Limit, Close, Refuse, Admit
<1>4. Resume \/ (\E b \in BOOLEAN : Status(b)) => UNCHANGED pushed
  BY DEF Resume, ResumeQueueThread, Status, MarkReading
<1>5. WorkerStep => UNCHANGED pushed
  BY DEF WorkerStep, WorkerRespond, Respond, WorkerInternal, SpuriousWakeup, CheckQueue, PopData,
         StartFree, CheckElapsed, MarkNotReading, SuspendQueueThread, RecheckSuspended
<1>6. Client \/ Second \/ UNCHANGED vars => UNCHANGED checkingVars
  BY DEF Client, Second, vars
<1>7. QED
  BY <1>1, <1>2, <1>3, <1>4, <1>5, <1>6 DEF Next, ListenerStep, RequestStep

\* A descriptor refers to the same connection until that one is closed.
LEMMA DescriptorFrame ==
  ASSUME ServerType, BatchInv, [Next]_vars
  PROVE  /\ closed \subseteq closed'
         /\ \A f \in Fds : fds[f] = NoConn \/ fds'[f] = fds[f] \/ fds[f] \in closed'
<1>1. fds \in [Fds -> Conns \cup {NoConn}]
  BY DEF ServerType, SocketType
<1>2. CASE UNCHANGED <<fds, closed>>
  BY <1>2
<1>3. ASSUME NEW g, CloseFd(g)
      PROVE  /\ closed \subseteq closed'
             /\ \A f \in Fds : fds[f] = NoConn \/ fds'[f] = fds[f] \/ fds[f] \in closed'
  BY <1>1, <1>3 DEF CloseFd
<1>4. CASE EventLoopStep
  <2>1. WaitEvents \/ EventsDone \/ AcceptEnds \/ (\E e \in events : ServeEvent(e))
          => UNCHANGED <<fds, closed>>
    BY DEF WaitEvents, EpollWait, EventsDone, AcceptEnds, ServeEvent, socketVars
  <2>2. \A e \in events : ErrorEvent(e) => CloseFd(e.fd)
    BY DEF ErrorEvent
  <2>3. CASE Accept
    <3>1. /\ Min(FreeFds) \in FreeFds /\ UNCHANGED closed
          /\ fds' = [fds EXCEPT ![Min(FreeFds)] = Head(backlog)]
      BY <2>3, LowestFree DEF Accept, AcceptOne, NothingToAccept
    <3>2. QED
      BY <1>1, <3>1 DEF FreeFds
  <2>4. QED
    BY <1>2, <1>3, <1>4, <2>1, <2>2, <2>3 DEF EventLoopStep
<1>5. ReadError \/ BodyError => CloseFd(cur)
  BY DEF ReadError, BodyError
<1>6. ReadDone \/ Client => UNCHANGED <<fds, closed>>
  BY ClientFrame DEF ReadDone, socketVars
<1>7. Inside => UNCHANGED <<fds, closed>>
  BY DEF Inside
<1>8. QED
  BY <1>2, <1>3, <1>4, <1>5, <1>6, <1>7, InsideSteps DEF Next, ListenerStep, ReadStep

\* Messages are pushed in the order their connection sent them, each with a
\* descriptor that refers to that connection as long as it is open.
LEMMA PushedKept ==
  ASSUME ServerType, BatchInv, ReadInv, PushedInv, [Next]_vars
  PROVE  PushedInv'
<1>1. /\ pushed \in Seq(Data) /\ taken \in [Conns -> Nat]
      /\ \A i \in DOMAIN pushed : pushed[i] \in Data
  BY DEF ServerType, SocketType
<1>2. \A d \in Data : /\ d.rev \in Requests /\ d.efd \in Fds
                      /\ d.rev.conn \in Conns /\ d.rev.num \in Nat
  <2>1. TAKE d \in Data
  <2>2. d.rev \in Requests /\ d.efd \in Fds
    BY ServerAssumption
  <2>3. PICK c \in Conns : \E k \in 1 .. Len(Script[c]) : d.rev = [conn |-> c, num |-> k]
    BY <2>2, RequestParts
  <2>4. QED
    BY <2>2, <2>3
<1>3. \A d \in Data : fds[d.efd] = d.rev.conn \/ d.rev.conn \in closed
                        => fds'[d.efd] = d.rev.conn \/ d.rev.conn \in closed'
  BY <1>2, DescriptorFrame, SocketAssumption
<1>4. CASE Push /\ ~IsFull
  <2>1. /\ pushed' = Append(pushed, [rev |-> rev, efd |-> cur])
        /\ UNCHANGED <<taken, fds, closed>> /\ Holding /\ ~Holding'
    BY <1>4 DEF Push, PushMessage, socketVars, Holding
  <2>2. PICK d \in Data : d = [rev |-> rev, efd |-> cur]
    <3>1. rev \in Requests /\ cur \in Fds
      BY <1>4, <2>1 DEF Push, ReadInv, BatchInv, Serving
    <3>2. QED
      BY <3>1, ServerAssumption
  <2>3. /\ d.rev = rev /\ d.rev.num = taken[d.rev.conn]
        /\ fds[d.efd] = d.rev.conn
    BY <2>1, <2>2 DEF ReadInv
  <2>4. /\ DOMAIN pushed' = 1 .. Len(pushed) + 1 /\ DOMAIN pushed = 1 .. Len(pushed)
        /\ Len(pushed) \in Nat
        /\ \A i \in 1 .. Len(pushed) : pushed'[i] = pushed[i]
        /\ pushed'[Len(pushed) + 1] = d
    BY <1>1, <2>1, <2>2, AppendProperties
  <2>5. \A i \in DOMAIN pushed : pushed[i].rev.conn = d.rev.conn => pushed[i].rev.num < d.rev.num
    BY <2>1, <2>3 DEF PushedInv
  <2>6. \A i \in DOMAIN pushed' :
          /\ pushed'[i].rev.num <= taken[pushed'[i].rev.conn]
          /\ fds[pushed'[i].efd] = pushed'[i].rev.conn \/ pushed'[i].rev.conn \in closed
    BY <1>1, <1>2, <2>3, <2>4 DEF PushedInv
  <2>7. \A i, j \in DOMAIN pushed' :
          (i < j /\ pushed'[i].rev.conn = pushed'[j].rev.conn)
            => pushed'[i].rev.num < pushed'[j].rev.num
    BY <2>4, <2>5 DEF PushedInv
  <2>8. QED
    BY <2>1, <2>6, <2>7 DEF PushedInv
<1>5. CASE UNCHANGED pushed
  <2>1. \A i \in DOMAIN pushed : /\ pushed[i] \in Data
                                 /\ pushed[i].rev.num \in Nat
                                 /\ pushed[i].rev.num <= taken[pushed[i].rev.conn]
                                 /\ taken[pushed[i].rev.conn] \in Nat
                                 /\ pushed[i].rev.conn \in Conns
    BY <1>1, <1>2 DEF PushedInv
  <2>2. \A i \in DOMAIN pushed :
          fds'[pushed[i].efd] = pushed[i].rev.conn \/ pushed[i].rev.conn \in closed'
    BY <1>3, <2>1 DEF PushedInv
  <2>3. \A i, j \in DOMAIN pushed :
          (i < j /\ pushed[i].rev.conn = pushed[j].rev.conn)
            => pushed[i].rev.num < pushed[j].rev.num
    BY DEF PushedInv
  <2>4. CASE ReadHeader
    <3>1. \A i \in DOMAIN pushed : pushed[i].rev.num <= taken'[pushed[i].rev.conn]
      <4>1. TAKE i \in DOMAIN pushed
      <4>2. taken'[pushed[i].rev.conn] \in {taken[pushed[i].rev.conn],
                                            taken[pushed[i].rev.conn] + 1}
        BY <2>1, <2>4, ReadHeaderTakes
      <4>3. QED
        BY <2>1, <4>2
    <3>2. \A i \in DOMAIN pushed :
            pushed[i].rev.conn = rev'.conn => pushed[i].rev.num < rev'.num
      <4>1. rev' = [conn |-> fds[cur], num |-> taken[fds[cur]] + 1]
        BY <2>4, ReadHeaderTakes
      <4>2. QED
        BY <2>1, <4>1
    <3>3. QED
      BY <1>5, <2>2, <2>3, <3>1, <3>2 DEF PushedInv
  <2>5. CASE ~ReadHeader
    <3>1. UNCHANGED taken /\ (Holding' => Holding /\ UNCHANGED rev)
      BY <2>5, TakenFrame, HoldingFrame
    <3>2. Holding' => \A i \in DOMAIN pushed :
            pushed[i].rev.conn = rev'.conn => pushed[i].rev.num < rev'.num
      BY <3>1 DEF PushedInv
    <3>3. QED
      BY <1>5, <2>1, <2>2, <2>3, <3>1, <3>2 DEF PushedInv
  <2>6. QED
    BY <2>4, <2>5
<1>6. Push /\ IsFull => UNCHANGED pushed
  BY DEF Push, PushMessage
<1>7. QED
  BY <1>4, <1>5, <1>6, PushedFrame

-----------------------------------------------------------------------------
(* What the limiter counts *)

\* A header that is read is one more request taken.
LEMMA OneMoreTaken ==
  ASSUME ServerType, BatchInv, ReadInv, ReadHeader
  PROVE  Cardinality(TakenRequests') = Cardinality(TakenRequests) + 1
<1>1. /\ rev' \in Requests /\ rev' = [conn |-> fds[cur], num |-> taken[fds[cur]] + 1]
      /\ taken[fds[cur]] \in Nat
      /\ \A c \in Conns : taken'[c] = IF c = fds[cur] THEN taken[c] + 1 ELSE taken[c]
  BY ReadHeaderTakes
<1>2. rev' \notin TakenRequests
  BY <1>1 DEF TakenRequests
<1>3. TakenRequests' = TakenRequests \cup {rev'}
  <2>1. ASSUME NEW r \in Requests
        PROVE  r.num <= taken'[r.conn] <=> r.num <= taken[r.conn] \/ r = rev'
    <3>1. PICK c \in Conns : \E i \in 1 .. Len(Script[c]) : r = [conn |-> c, num |-> i]
      BY RequestParts
    <3>2. r.conn = c /\ r.num \in Nat /\ taken[c] \in Nat /\ r = [conn |-> c, num |-> r.num]
      BY <3>1 DEF ServerType, SocketType
    <3>3. CASE c = fds[cur]
      <4>1. r = rev' <=> r.num = taken[c] + 1
        BY <1>1, <3>2, <3>3
      <4>2. taken'[c] = taken[c] + 1
        BY <1>1, <3>3
      <4>3. QED
        BY <3>2, <4>1, <4>2
    <3>4. CASE c # fds[cur]
      <4>1. taken'[c] = taken[c] /\ r # rev'
        BY <1>1, <3>2, <3>4
      <4>2. QED
        BY <3>2, <4>1
    <3>5. QED
      BY <3>3, <3>4
  <2>2. QED
    BY <1>1, <2>1 DEF TakenRequests
<1>4. IsFiniteSet(TakenRequests)
  BY RequestsFinite, FS_Subset DEF TakenRequests
<1>5. PICK new : new = rev'
  OBVIOUS
<1>6. Cardinality(TakenRequests \cup {new}) = Cardinality(TakenRequests) + 1
  BY <1>2, <1>4, <1>5, FS_AddElement
<1>7. QED
  BY <1>3, <1>5, <1>6

\* A message is counted once, after its header was read.
LEMMA CountedFrame ==
  [Next]_vars => \/ ReadHeader /\ UNCHANGED num_msg_in_sec
                 \/ Limit \/ Close \/ \E b \in BOOLEAN : Admit(b)
                 \/ UNCHANGED num_msg_in_sec /\ (ToCount' => ToCount)
<1>1. UNCHANGED limiterVars => UNCHANGED num_msg_in_sec
  BY DEF limiterVars
<1>2. EventLoopStep => UNCHANGED num_msg_in_sec /\ ~ToCount'
  BY DEF EventLoopStep, WaitEvents, EventsDone, ErrorEvent, ServeEvent, Accept, AcceptEnds,
         listenerVars, limiterVars, ToCount
<1>3. ReadHeader => UNCHANGED num_msg_in_sec
  BY <1>1 DEF ReadHeader
<1>4. ReadBody => UNCHANGED num_msg_in_sec /\ ToCount
  BY <1>1 DEF ReadBody, ToCount
<1>5. ReadDone \/ ReadError \/ BodyError => UNCHANGED num_msg_in_sec /\ ~ToCount'
  BY <1>1 DEF ReadDone, ReadError, BodyError, ToCount
<1>6. AnswerInline \/ Push \/ Resume \/ Refuse => UNCHANGED num_msg_in_sec /\ ~ToCount'
  BY <1>1 DEF AnswerInline, Push, Resume, Refuse, ToCount
<1>7. (\E b \in BOOLEAN : Status(b)) => UNCHANGED num_msg_in_sec /\ ~ToCount'
  BY <1>1 DEF Status, ToCount
<1>8. WorkerStep \/ Client \/ Second \/ UNCHANGED vars
        => UNCHANGED num_msg_in_sec /\ (ToCount' => ToCount)
  BY ClientFrame DEF WorkerStep, Second, vars, listenerVars, limiterVars, ToCount
<1>9. QED
  BY <1>2, <1>3, <1>4, <1>5, <1>6, <1>7, <1>8 DEF Next, ListenerStep, ReadStep, RequestStep

\* A window never counts more messages than were read.
LEMMA CountedKept ==
  ASSUME ServerType, BatchInv, ReadInv, CountedInv, [Next]_vars
  PROVE  CountedInv'
<1>1. num_msg_in_sec \in Nat /\ Cardinality(TakenRequests) \in Nat
  BY RequestsFinite, FS_Subset, FS_CardinalityType DEF TakenRequests, ServerType, LimiterType
<1>2. CASE ReadHeader /\ UNCHANGED num_msg_in_sec
  BY <1>1, <1>2, OneMoreTaken DEF CountedInv
<1>3. CASE UNCHANGED taken
  <2>1. TakenRequests' = TakenRequests
    BY <1>3 DEF TakenRequests
  <2>2. CASE Limit
    BY <1>1, <2>1, <2>2 DEF Limit, StartCount, CountedInv, ToCount
  <2>3. CASE Close
    BY <1>1, <2>1, <2>3 DEF Close, CloseWindow, CountedInv, ToCount
  <2>4. ASSUME NEW b \in BOOLEAN, Admit(b)
        PROVE  CountedInv'
    <3>1. ~ToCount' /\ (\/ listener = "count" /\ num_msg_in_sec' = num_msg_in_sec + 1
                        \/ UNCHANGED num_msg_in_sec)
      BY <2>4 DEF Admit, CountInWindow, OpenWindow, ToCount
    <3>2. QED
      BY <1>1, <2>1, <3>1 DEF CountedInv, ToCount
  <2>5. CASE UNCHANGED num_msg_in_sec /\ (ToCount' => ToCount)
    BY <1>1, <2>1, <2>5 DEF CountedInv
  <2>6. CASE ReadHeader /\ UNCHANGED num_msg_in_sec
    BY <1>2, <2>6
  <2>7. QED
    BY <2>2, <2>3, <2>4, <2>5, <2>6, CountedFrame
<1>4. CASE ReadHeader
  <2>1. UNCHANGED num_msg_in_sec
    BY <1>4 DEF ReadHeader, limiterVars
  <2>2. QED
    BY <1>2, <1>4, <2>1
<1>5. QED
  BY <1>3, <1>4, TakenFrame

-----------------------------------------------------------------------------
(* Answers *)

\* What the queue thread has in hand is the message after those it served.
LEMMA InHandIsNext ==
  ASSUME HS!HandshakeInv, worker = "respond"
  PROVE  /\ Len(served) + 1 \in DOMAIN pushed
         /\ pushed[Len(served) + 1] = data
         /\ data \in Data
<1>1. /\ served \in Seq(Data) /\ data \in Data /\ Contents \in Seq(Data)
      /\ pushed = served \o <<data>> \o Contents
  BY FromHandshake, ContentsSeq DEF CheckingType, InHand
<1>2. /\ <<data>> \in Seq(Data) /\ Len(<<data>>) = 1 /\ <<data>>[1] = data
  BY <1>1
<1>3. /\ served \o <<data>> \in Seq(Data)
      /\ Len(served \o <<data>>) = Len(served) + 1
      /\ (served \o <<data>>)[Len(served) + 1] = data
  <2>1. Append(served, data) = served \o <<data>>
    BY <1>1, AppendIsConcat
  <2>2. QED
    BY <1>1, <2>1, AppendProperties
<1> DEFINE front == served \o <<data>>
<1> HIDE DEF front
<1>4. front \in Seq(Data) /\ Len(front) = Len(served) + 1 /\ front[Len(served) + 1] = data
  BY <1>3 DEF front
<1>5. /\ DOMAIN (front \o Contents) = 1 .. Len(front) + Len(Contents)
      /\ \A i \in 1 .. Len(front) : (front \o Contents)[i] = front[i]
  <2>1. Contents \in Seq(Data) /\ front \in Seq(Data)
    BY <1>1, <1>4
  <2>2. /\ front \o Contents \in Seq(Data)
        /\ Len(front \o Contents) = Len(front) + Len(Contents)
        /\ \A i \in 1 .. Len(front) + Len(Contents) : (front \o Contents)[i] =
             IF i <= Len(front) THEN front[i] ELSE Contents[i - Len(front)]
    BY <2>1, ConcatProperties
  <2>3. Len(front) \in Nat /\ Len(Contents) \in Nat
    BY <2>1
  <2>4. DOMAIN (front \o Contents) = 1 .. Len(front) + Len(Contents)
    BY <2>2
  <2>5. QED
    BY <2>2, <2>3, <2>4
<1>6. Len(served) \in Nat /\ Len(Contents) \in Nat
  BY <1>1
<1>7. pushed = front \o Contents
  BY <1>1 DEF front
<1>8. Len(served) + 1 \in 1 .. Len(front) /\ Len(served) + 1 \in 1 .. Len(front) + Len(Contents)
  BY <1>4, <1>6
<1>9. QED
  BY <1>1, <1>4, <1>5, <1>7, <1>8

\* The steps that answer a request.
Answering == AnswerInline \/ Refuse \/ (WorkerRespond /\ UNCHANGED listenerVars)

\* They write to the descriptor of the request's connection, or to one that lost it.
LEMMA AnsweringWrites ==
  ASSUME HS!HandshakeInv, ServerType, BatchInv, ReadInv, PushedInv, Answering
  PROVE  \E f \in Fds, r \in Requests, code \in Codes :
           /\ WriteAnswer(f, r, code)
           /\ fds[f] = r.conn \/ r.conn \in closed
           /\ r = IF WorkerRespond THEN data.rev ELSE rev
<1>1. 2001 \in Codes /\ 3001 \in Codes
  BY DEF Codes
<1>2. CASE WorkerRespond
  <2>1. worker = "respond" /\ WriteAnswer(data.efd, data.rev, 2001)
    BY <1>2 DEF WorkerRespond, Respond
  <2>2. PICK i \in DOMAIN pushed : pushed[i] = data /\ data \in Data
    BY <2>1, InHandIsNext
  <2>3. data.rev \in Requests /\ data.efd \in Fds
    BY <2>2, ServerAssumption
  <2>4. fds[data.efd] = data.rev.conn \/ data.rev.conn \in closed
    BY <2>2 DEF PushedInv
  <2>5. QED
    BY <1>1, <1>2, <2>1, <2>3, <2>4
<1>3. CASE (AnswerInline \/ Refuse) /\ ~WorkerRespond
  <2>1. /\ rev \in Requests /\ cur \in Fds /\ fds[cur] = rev.conn
    BY <1>3 DEF AnswerInline, Refuse, ReadInv, Holding, BatchInv, Serving
  <2>2. PICK code \in Codes : WriteAnswer(cur, rev, code)
    BY <1>1, <1>3 DEF AnswerInline, Refuse
  <2>3. QED
    BY <1>3, <2>1, <2>2
<1>4. QED
  BY <1>2, <1>3 DEF Answering

\* Nothing else touches the answers.
LEMMA AnswersFrame ==
  [Next]_vars => Answering \/ UNCHANGED answers
<1>1. UNCHANGED historyVars => UNCHANGED answers
  BY DEF historyVars
<1>2. EventLoopStep => UNCHANGED historyVars
  BY DEF EventLoopStep, WaitEvents, EventsDone, ErrorEvent, ServeEvent, Accept, AcceptEnds
<1>3. ReadStep => UNCHANGED answers
  BY <1>1 DEF ReadStep, ReadHeader, ReadDone, ReadError, ReadBody, BodyError
<1>4. Limit \/ Close \/ Push \/ Resume => UNCHANGED answers
  BY <1>1 DEF Limit, Close, Push, Resume
<1>5. (\E b \in BOOLEAN : Admit(b) \/ Status(b)) => UNCHANGED answers
  BY <1>1 DEF Admit, Status
<1>6. WorkerStep => Answering \/ UNCHANGED answers
  BY <1>1 DEF WorkerStep, Answering
<1>7. Client \/ Second \/ UNCHANGED vars => UNCHANGED answers
  BY <1>1, ClientFrame DEF Second, vars
<1>8. QED
  BY <1>1, <1>2, <1>3, <1>4, <1>5, <1>6, <1>7 DEF Next, ListenerStep, RequestStep, Answering

\* A connection that was reset stays so.
LEMMA ResetStays ==
  ASSUME ServerType, [Next]_vars, NEW c \in Conns, peer[c] = "rst"
  PROVE  peer'[c] = "rst"
<1>1. Client => peer'[c] = "rst"
  <2>1. ASSUME Client PROVE peer'[c] = "rst"
    <3>1. PICK d \in Conns :
            \/ Connect(d) \/ SendBody(d)
            \/ \E whole \in BOOLEAN : Send(d, whole)
            \/ \E how \in {"fin", "rst"} : Leave(d, how)
      BY <2>1 DEF Client, ClientStep
    <3>2. QED
      BY <3>1 DEF Connect, Send, SendBody, Leave, ServerType, SocketType
  <2>2. QED
    BY <2>1
<1>2. Inside => UNCHANGED peer
  BY DEF Inside
<1>3. EventLoopStep => UNCHANGED peer
  BY DEF EventLoopStep, WaitEvents, EpollWait, EventsDone, ErrorEvent, ServeEvent, CloseFd,
         Accept, AcceptOne, AcceptEnds, socketVars, clientVars
<1>4. ReadDone \/ ReadError \/ BodyError => UNCHANGED peer
  BY DEF ReadDone, ReadError, BodyError, CloseFd, socketVars, clientVars
<1>5. QED
  BY <1>1, <1>2, <1>3, <1>4, InsideSteps DEF Next, ListenerStep, ReadStep

\* An answer is written to the request's connection, or into one that was reset, or
\* after that connection was closed; and what was closed or reset stays so.
LEMMA SendersKept ==
  ASSUME HS!HandshakeInv, ServerType, BatchInv, ReadInv, PushedInv, AnswerReachesSender,
         [Next]_vars
  PROVE  AnswerReachesSender'
<1>1. closed \subseteq closed'
  BY DescriptorFrame
<1>2. \A r \in Requests : r.conn \in Conns
  BY RequestParts
<1>3. answers \in [Requests -> Seq(Answer)]
  BY DEF ServerType
<1>4. \A r \in Requests : \A i \in DOMAIN answers[r] :
        \/ answers[r][i].to = r.conn
        \/ r.conn \in closed'
        \/ peer'[r.conn] = "rst" /\ answers[r][i].to = NoConn
  BY <1>1, <1>2, ResetStays DEF AnswerReachesSender
<1>5. CASE UNCHANGED answers
  BY <1>4, <1>5 DEF AnswerReachesSender
<1>6. CASE Answering
  <2>1. PICK f \in Fds, q \in Requests, code \in Codes :
          WriteAnswer(f, q, code) /\ (fds[f] = q.conn \/ q.conn \in closed)
    BY <1>6, AnsweringWrites
  <2>2. PICK to \in Conns \cup {NoConn} :
          /\ Write(f, to)
          /\ answers' = [answers EXCEPT ![q] = Append(@, [code |-> code, to |-> to])]
          /\ answers' \in [Requests -> Seq(Answer)]
    BY <2>1, AnswerAppended
  <2>3. \/ to = q.conn \/ q.conn \in closed'
        \/ peer'[q.conn] = "rst" /\ to = NoConn
    BY <1>1, <1>2, <2>1, <2>2, SocketAssumption DEF Write, clientVars
  <2>4. [code |-> code, to |-> to] \in Answer
    BY DEF Answer
  <2> DEFINE answer == [code |-> code, to |-> to]
  <2>5. answer.to = to /\ answer \in Answer
    BY <2>4
  <2>6. answers' = [answers EXCEPT ![q] = Append(@, answer)]
    BY <2>2
  <2> HIDE DEF answer
  <2>7. answers'[q] = Append(answers[q], answer) /\ answers[q] \in Seq(Answer)
    BY <1>3, <2>6
  <2>8. /\ DOMAIN answers'[q] = 1 .. Len(answers[q]) + 1
        /\ DOMAIN answers[q] = 1 .. Len(answers[q])
        /\ Len(answers[q]) \in Nat
        /\ \A i \in 1 .. Len(answers[q]) : answers'[q][i] = answers[q][i]
        /\ answers'[q][Len(answers[q]) + 1] = answer
    BY <2>5, <2>7, AppendProperties
  <2>9. \A i \in DOMAIN answers'[q] :
          \/ answers'[q][i].to = q.conn
          \/ q.conn \in closed'
          \/ peer'[q.conn] = "rst" /\ answers'[q][i].to = NoConn
    <3>1. TAKE i \in DOMAIN answers'[q]
    <3>2. CASE i \in 1 .. Len(answers[q])
      BY <1>4, <2>8, <3>2
    <3>3. CASE i = Len(answers[q]) + 1
      BY <2>3, <2>5, <2>8, <3>3
    <3>4. QED
      BY <2>8, <3>2, <3>3
  <2>10. \A r \in Requests : r # q => answers'[r] = answers[r]
    BY <1>3, <2>6
  <2>11. QED
    BY <1>4, <2>9, <2>10 DEF AnswerReachesSender
<1>7. QED
  BY <1>5, <1>6, AnswersFrame

-----------------------------------------------------------------------------
(* Every request is in one place *)

\* The places a request can be in, and how often it is there.
One(b)        == IF b THEN 1 ELSE 0
Unread(r)     == One(r.num > taken[r.conn])
InListener(r) == One(Held(r))
Places(r)     == {i \in 1 .. queue.n : Contents[i].rev = r}
InQueue(r)    == Cardinality(Places(r))
InWorker(r)   == One(worker = "respond" /\ data.rev = r)
Answered(r)   == Len(answers[r])
Broken(r)     == One(r \in broken)
Dropped(r)    == One(r \in dropped)

\* Together they are its copies.
LEMMA CopiesSum ==
  \A r : Copies(r) = Unread(r) + InListener(r) + InQueue(r) + InWorker(r) + Answered(r)
                     + Broken(r) + Dropped(r)
  BY DEF Copies, Unread, InListener, InQueue, Places, InWorker, Answered, Broken, Dropped, One

\* Each is a number.
LEMMA PlacesType ==
  ServerType /\ QueueType =>
    \A r \in Requests :
      /\ IsFiniteSet(Places(r))
      /\ Unread(r) \in Nat /\ InListener(r) \in Nat /\ InQueue(r) \in Nat
      /\ InWorker(r) \in Nat /\ Answered(r) \in Nat
      /\ Broken(r) \in Nat /\ Dropped(r) \in Nat
<1> SUFFICES ASSUME ServerType, QueueType, NEW r \in Requests
             PROVE  /\ IsFiniteSet(Places(r))
                    /\ Unread(r) \in Nat /\ InListener(r) \in Nat /\ InQueue(r) \in Nat
                    /\ InWorker(r) \in Nat
                    /\ Answered(r) \in Nat /\ Broken(r) \in Nat /\ Dropped(r) \in Nat
  OBVIOUS
<1>1. \A b : One(b) \in Nat
  BY DEF One
<1>2. Answered(r) \in Nat
  BY DEF Answered, ServerType
<1>3. IsFiniteSet(1 .. queue.n)
  <2>1. queue.n \in Int
    BY QueueAssumption DEF QueueType
  <2>2. QED
    BY <2>1, FS_Interval
<1>4. IsFiniteSet(Places(r))
  BY <1>3, FS_Subset DEF Places
<1>5. InQueue(r) \in Nat
  BY <1>4, FS_CardinalityType DEF InQueue
<1>6. QED
  BY <1>1, <1>2, <1>4, <1>5 DEF Unread, InListener, InWorker, Broken, Dropped

\* Where the copies of a request were, each was either unchanged or moved on.
LEMMA StillOnce ==
  ASSUME RequestAccounted,
         \A r \in Requests :
           Unread(r)' + InListener(r)' + InQueue(r)' + InWorker(r)' + Answered(r)'
             + Broken(r)' + Dropped(r)'
           = Unread(r) + InListener(r) + InQueue(r) + InWorker(r) + Answered(r)
             + Broken(r) + Dropped(r)
  PROVE  RequestAccounted'
<1>1. (\A r : Copies(r) = Unread(r) + InListener(r) + InQueue(r) + InWorker(r) + Answered(r)
                          + Broken(r) + Dropped(r))'
  BY CopiesSum, PTL
<1>2. QED
  BY <1>1, CopiesSum DEF RequestAccounted

\* What leaves the state of a place alone leaves alone how often requests are there.
LEMMA Unmoved ==
  /\ UNCHANGED taken => \A r : Unread(r)' = Unread(r)
  /\ UNCHANGED <<listener, rev>> => \A r : InListener(r)' = InListener(r)
  /\ UNCHANGED queue => \A r : InQueue(r)' = InQueue(r)
  /\ UNCHANGED <<worker, data>> => \A r : InWorker(r)' = InWorker(r)
  /\ UNCHANGED answers => \A r : Answered(r)' = Answered(r)
  /\ UNCHANGED broken => \A r : Broken(r)' = Broken(r)
  /\ UNCHANGED dropped => \A r : Dropped(r)' = Dropped(r)
  BY DEF Unread, InListener, Held, InQueue, Places, Contents, InWorker, Answered, Broken, Dropped

\* The steps of the queue thread that move no message.
ControlStep ==
  \/ CheckQueue \/ StartFree \/ CheckElapsed \/ MarkNotReading
  \/ SuspendQueueThread \/ SpuriousWakeup \/ RecheckSuspended

\* Steps that move no request.
Quiet ==
  \/ EventLoopStep \/ ReadDone \/ ReadError \/ ReadBody
  \/ Limit \/ Close \/ Resume \/ (\E b \in BOOLEAN : Admit(b) \/ Status(b))
  \/ (ControlStep /\ UNCHANGED <<socketVars, historyVars, listenerVars>>)
  \/ Client \/ Second \/ UNCHANGED vars

\* None of them moves one.
LEMMA QuietMovesNone ==
  Quiet =>
    /\ UNCHANGED <<taken, queue, data, answers, broken, dropped>>
    /\ worker' = "respond" <=> worker = "respond"
    /\ \A r : Held(r)' <=> Held(r)
<1> DEFINE Still == /\ UNCHANGED <<taken, queue, data, answers, broken, dropped>>
                    /\ worker' = "respond" <=> worker = "respond"
                    /\ \A r : Held(r)' <=> Held(r)
<1>1. /\ UNCHANGED checkingVars => UNCHANGED <<queue, data, worker>>
      /\ UNCHANGED historyVars => UNCHANGED <<answers, broken, dropped>>
      /\ UNCHANGED socketVars => UNCHANGED taken
      /\ UNCHANGED listenerVars => UNCHANGED <<listener, rev>>
      /\ UNCHANGED <<listener, rev>> => \A r : Held(r)' <=> Held(r)
      /\ (~Holding /\ ~Holding') => \A r : Held(r)' <=> Held(r)
      /\ (Holding /\ Holding' /\ UNCHANGED rev) => \A r : Held(r)' <=> Held(r)
  BY DEF checkingVars, historyVars, socketVars, listenerVars, Held, Holding
<1>2. EventLoopStep => Still
  <2>1. EventLoopStep => UNCHANGED <<taken, checkingVars, historyVars>>
    BY DEF EventLoopStep, WaitEvents, EpollWait, EventsDone, ErrorEvent, ServeEvent, CloseFd,
           Accept, AcceptOne, AcceptEnds, socketVars
  <2>2. EventLoopStep => ~Holding /\ ~Holding'
    BY DEF EventLoopStep, WaitEvents, EventsDone, ErrorEvent, ServeEvent, Accept, AcceptEnds,
           listenerVars, Holding
  <2>3. QED
    BY <1>1, <2>1, <2>2
<1>3. ReadDone \/ ReadError => Still
  <2>1. ReadDone \/ ReadError => UNCHANGED <<taken, checkingVars, historyVars>>
    BY DEF ReadDone, ReadError, CloseFd, socketVars
  <2>2. ReadDone \/ ReadError => ~Holding /\ ~Holding'
    BY DEF ReadDone, ReadError, Holding
  <2>3. QED
    BY <1>1, <2>1, <2>2
<1>4. ReadBody \/ Limit \/ Close => Still
  <2>1. ReadBody \/ Limit \/ Close => UNCHANGED <<rev, socketVars, checkingVars, historyVars>>
    BY DEF ReadBody, Limit, Close
  <2>2. ReadBody \/ Limit \/ Close => Holding /\ Holding'
    BY DEF ReadBody, Limit, Close, Holding
  <2>3. QED
    BY <1>1, <2>1, <2>2
<1>5. ASSUME NEW b \in BOOLEAN, Admit(b)
      PROVE  Still
  <2>1. UNCHANGED <<rev, socketVars, checkingVars, historyVars>> /\ Holding /\ Holding'
    BY <1>5 DEF Admit, Holding
  <2>2. QED
    BY <1>1, <2>1
<1>6. ASSUME NEW b \in BOOLEAN, Status(b)
      PROVE  Still
  <2>1. /\ UNCHANGED <<rev, socketVars, queue, data, worker, historyVars>>
        /\ ~Holding /\ ~Holding'
    BY <1>6 DEF Status, MarkReading, Holding
  <2>2. QED
    BY <1>1, <2>1
<1>7. Resume => Still
  <2>1. Resume => /\ UNCHANGED <<rev, socketVars, queue, data, historyVars>>
                  /\ worker' = "respond" <=> worker = "respond"
                  /\ ~Holding /\ ~Holding'
    BY DEF Resume, ResumeQueueThread, Holding
  <2>2. QED
    BY <1>1, <2>1
<1>8. ControlStep /\ UNCHANGED <<socketVars, historyVars, listenerVars>> => Still
  <2>1. ControlStep => UNCHANGED <<queue, data>> /\ worker # "respond" /\ worker' # "respond"
    BY DEF ControlStep, CheckQueue, StartFree, CheckElapsed, MarkNotReading, SuspendQueueThread,
           SpuriousWakeup, RecheckSuspended
  <2>2. QED
    BY <1>1, <2>1
<1>9. Client => Still
  BY <1>1, ClientFrame
<1>10. Second \/ UNCHANGED vars => Still
  BY <1>1 DEF Second, vars
<1>11. QED
  BY <1>2, <1>3, <1>4, <1>5, <1>6, <1>7, <1>8, <1>9, <1>10 DEF Quiet

\* The others are these.
LEMMA MovingSteps ==
  [Next]_vars => \/ Quiet \/ ReadHeader \/ BodyError \/ Push \/ Answering
                 \/ /\ PopData
                    /\ UNCHANGED <<socketVars, historyVars, listenerVars>>
<1>1. WorkerInternal \/ SpuriousWakeup => ControlStep \/ PopData
  BY DEF WorkerInternal, ControlStep
<1>2. WorkerStep => \/ Answering
                    \/ /\ ControlStep \/ PopData
                       /\ UNCHANGED <<socketVars, historyVars, listenerVars>>
  BY <1>1 DEF WorkerStep, Answering
<1>3. ListenerStep => Quiet \/ ReadHeader \/ BodyError \/ Push \/ Answering
  BY DEF ListenerStep, ReadStep, RequestStep, Quiet, Answering
<1>4. QED
  BY <1>2, <1>3 DEF Next, Quiet

\* A push puts one request more in the queue.
LEMMA QueuedByPush ==
  ASSUME QueueType, QueueInv, NEW d \in Data, PushInQueue(d), ~IsFull, NEW r
  PROVE  InQueue(r)' = InQueue(r) + One(d.rev = r)
<1>1. /\ queue.n \in Nat /\ queue.n < MAX_SIZE_QUEUE
      /\ Contents \in Seq(Data) /\ Len(Contents) = queue.n
  BY ContentsSeq, QueueAssumption DEF QueueType, IsFull
<1>2. Contents' = Append(Contents, d) /\ queue'.n = queue.n + 1
  BY <1>1, PushAppends DEF PushInQueue
<1>3. /\ \A i \in 1 .. queue.n : Contents'[i] = Contents[i]
      /\ Contents'[queue.n + 1] = d
  BY <1>1, <1>2, AppendProperties
<1>4. IsFiniteSet(Places(r)) /\ InQueue(r) \in Nat
  <2>1. IsFiniteSet(1 .. queue.n)
    BY <1>1, FS_Interval
  <2>2. IsFiniteSet(Places(r))
    BY <2>1, FS_Subset DEF Places
  <2>3. QED
    BY <2>2, FS_CardinalityType DEF InQueue
<1>5. CASE d.rev = r
  <2>1. Places(r)' = Places(r) \cup {queue.n + 1}
    BY <1>1, <1>2, <1>3, <1>5 DEF Places
  <2>2. queue.n + 1 \notin Places(r)
    BY <1>1 DEF Places
  <2>3. Cardinality(Places(r) \cup {queue.n + 1}) = Cardinality(Places(r)) + 1
    BY <1>4, <2>2, FS_AddElement
  <2>4. QED
    BY <1>5, <2>1, <2>3 DEF InQueue, One
<1>6. CASE d.rev # r
  <2>1. Places(r)' = Places(r)
    BY <1>1, <1>2, <1>3, <1>6 DEF Places
  <2>2. QED
    BY <1>4, <1>6, <2>1 DEF InQueue, One
<1>7. QED
  BY <1>5, <1>6

\* A pop takes the front request out of it.
LEMMA UnqueuedByPop ==
  ASSUME QueueType, QueueInv, ~IsDempty, DropFront, NEW r
  PROVE  InQueue(r) = InQueue(r)' + One(Front.rev = r)
<1>1. /\ queue.n \in Nat /\ queue.n > 0
      /\ Contents \in Seq(Data) /\ Len(Contents) = queue.n
  BY ContentsSeq, QueueAssumption DEF QueueType, IsDempty
<1>2. /\ Contents' = Tail(Contents) /\ queue'.n = queue.n - 1
      /\ Contents[1] = Front
  BY <1>1, PopTakesHead DEF DropFront
<1>3. \A i \in 1 .. queue.n - 1 : Contents'[i] = Contents[i + 1]
  BY <1>1, <1>2, HeadTailProperties
<1> DEFINE rest == Places(r) \ {1}
<1>4. IsFiniteSet(Places(r)) /\ Cardinality(Places(r)) \in Nat
  <2>1. IsFiniteSet(1 .. queue.n)
    BY <1>1, FS_Interval
  <2>2. IsFiniteSet(Places(r))
    BY <2>1, FS_Subset DEF Places
  <2>3. QED
    BY <2>2, FS_CardinalityType
<1>5. PICK left : left = Places(r)'
  OBVIOUS
<1>6. left = {i \in 1 .. queue.n - 1 : Contents[i + 1].rev = r}
  BY <1>2, <1>3, <1>5 DEF Places
<1>7. Cardinality(left) = Cardinality(rest)
  <2> DEFINE next == [i \in left |-> i + 1]
  <2>1. next \in [left -> rest]
    BY <1>1, <1>6 DEF Places
  <2>2. \A i, j \in left : next[i] = next[j] => i = j
    BY <1>1, <1>6
  <2>3. \A k \in rest : \E i \in left : next[i] = k
    <3>1. TAKE k \in rest
    <3>2. k \in 2 .. queue.n /\ Contents[k].rev = r
      BY <1>1 DEF Places
    <3>3. k - 1 \in left /\ next[k - 1] = k
      BY <1>1, <1>6, <3>2
    <3>4. QED
      BY <3>3
  <2>4. next \in Bijection(left, rest)
    BY <2>1, <2>2, <2>3 DEF Bijection, Injection, Surjection, IsInjective
  <2>5. IsFiniteSet(left)
    <3>1. IsFiniteSet(1 .. queue.n - 1)
      BY <1>1, FS_Interval
    <3>2. QED
      BY <1>6, <3>1, FS_Subset
  <2>6. QED
    BY <2>4, <2>5, FS_Bijection DEF ExistsBijection
<1>8. Cardinality(rest) = Cardinality(Places(r)) - One(1 \in Places(r))
  BY <1>4, FS_RemoveElement DEF One
<1>9. 1 \in Places(r) <=> Front.rev = r
  BY <1>1, <1>2 DEF Places
<1>10. One(1 \in Places(r)) = One(Front.rev = r) /\ One(Front.rev = r) \in Nat
  BY <1>9 DEF One
<1>11. QED
  BY <1>4, <1>5, <1>7, <1>8, <1>10 DEF InQueue

\* What the listener holds when it holds something, and when not, before a step
\* and after it.
LEMMA HeldOnce ==
  /\ Holding => \A r : InListener(r) = One(rev = r)
  /\ ~Holding => \A r : InListener(r) = 0
  /\ Holding' => \A r : InListener(r)' = One(rev' = r)
  /\ ~Holding' => \A r : InListener(r)' = 0
  BY DEF InListener, Held, Holding, One

\* A request the listener holds is not among the lost ones.
LEMMA HeldNotLost ==
  ASSUME ServerType, QueueType, RequestAccounted, Holding, rev \in Requests
  PROVE  rev \notin broken /\ rev \notin dropped
<1>1. Copies(rev) = 1 /\ InListener(rev) = 1
  BY HeldOnce DEF RequestAccounted, One
<1>2. Broken(rev) = 0 /\ Dropped(rev) = 0
  BY <1>1, CopiesSum, PlacesType
<1>3. QED
  BY <1>2 DEF Broken, Dropped, One

\* An answer is one more answer to its request, and to no other.
LEMMA AnsweredOnce ==
  ASSUME ServerType, NEW f, NEW q \in Requests, NEW code \in Codes, WriteAnswer(f, q, code),
         NEW r \in Requests
  PROVE  Answered(r)' = Answered(r) + One(q = r)
<1>1. PICK to \in Conns \cup {NoConn} :
        /\ Write(f, to)
        /\ answers' = [answers EXCEPT ![q] = Append(@, [code |-> code, to |-> to])]
        /\ answers' \in [Requests -> Seq(Answer)]
  BY AnswerAppended
<1> DEFINE answer == [code |-> code, to |-> to]
<1>2. answer \in Answer
  BY DEF Answer
<1>3. answers \in [Requests -> Seq(Answer)] /\ answers' = [answers EXCEPT ![q] = Append(@, answer)]
  BY <1>1 DEF ServerType
<1> HIDE DEF answer
<1>4. CASE q = r
  <2>1. answers'[r] = Append(answers[r], answer) /\ answers[r] \in Seq(Answer)
    BY <1>3, <1>4
  <2>2. Len(answers'[r]) = Len(answers[r]) + 1
    BY <1>2, <2>1, AppendProperties
  <2>3. QED
    BY <1>4, <2>2 DEF Answered, One
<1>5. CASE q # r
  <2>1. answers'[r] = answers[r] /\ Len(answers[r]) \in Nat
    BY <1>3, <1>5
  <2>2. QED
    BY <1>5, <2>1 DEF Answered, One
<1>6. QED
  BY <1>4, <1>5

\* Answering takes a request out of one thread's hands.
LEMMA AnsweringMoves ==
  ASSUME HS!HandshakeInv, ServerType, BatchInv, ReadInv, PushedInv, Answering, NEW r \in Requests
  PROVE  /\ UNCHANGED <<taken, queue, broken, dropped>>
         /\ InListener(r)' + InWorker(r)' + Answered(r)'
              = InListener(r) + InWorker(r) + Answered(r)
<1>1. PICK f \in Fds, q \in Requests, code \in Codes :
        WriteAnswer(f, q, code) /\ q = IF WorkerRespond THEN data.rev ELSE rev
  BY AnsweringWrites
<1>2. Answered(r)' = Answered(r) + One(q = r)
  BY <1>1, AnsweredOnce
<1>3. UNCHANGED taken
  BY <1>1 DEF WriteAnswer, Write
<1>4. Answered(r) \in Nat /\ One(q = r) \in Nat /\ InListener(r) \in Nat /\ InWorker(r) \in Nat
  BY FromHandshake, PlacesType DEF CheckingType, One
<1>5. CASE WorkerRespond /\ UNCHANGED listenerVars
  <2>1. UNCHANGED <<queue, broken, dropped, listener, rev>> /\ q = data.rev
    BY <1>1, <1>5 DEF WorkerRespond, Respond, listenerVars
  <2>2. worker = "respond" /\ worker' = "check"
    BY <1>5 DEF WorkerRespond, Respond
  <2>3. InWorker(r) = One(q = r) /\ InWorker(r)' = 0
    BY <2>1, <2>2 DEF InWorker, One
  <2>4. InListener(r)' = InListener(r)
    BY <2>1, Unmoved
  <2>5. QED
    BY <1>2, <1>3, <1>4, <2>1, <2>3, <2>4
<1>6. CASE AnswerInline \/ Refuse
  <2>1. /\ UNCHANGED <<queue, worker, data, broken, dropped>>
        /\ Holding /\ ~Holding'
    BY <1>6 DEF AnswerInline, Refuse, checkingVars, Holding
  <2>2. ~WorkerRespond
    BY <2>1 DEF WorkerRespond, Respond
  <2>3. q = rev
    BY <1>1, <2>2
  <2>4. InListener(r) = One(q = r)
    BY <2>1, <2>3, HeldOnce
  <2>5. InListener(r)' = 0
    BY <2>1, HeldOnce
  <2>6. InWorker(r)' = InWorker(r)
    BY <2>1, Unmoved
  <2>7. QED
    BY <1>2, <1>3, <1>4, <2>1, <2>4, <2>5, <2>6
<1>7. QED
  BY <1>5, <1>6 DEF Answering

\* The other steps that move a request, and where to.
LEMMA RequestMoves ==
  ASSUME HS!HandshakeInv, ServerType, BatchInv, ReadInv, RequestAccounted, NEW r \in Requests
  PROVE  /\ ReadHeader =>
              /\ UNCHANGED <<queue, worker, data, answers, broken, dropped>>
              /\ Unread(r)' + InListener(r)' = Unread(r) + InListener(r)
         /\ BodyError =>
              /\ UNCHANGED <<taken, queue, worker, data, answers, dropped>>
              /\ InListener(r)' + Broken(r)' = InListener(r) + Broken(r)
         /\ Push =>
              /\ UNCHANGED <<taken, worker, data, answers, broken>>
              /\ InListener(r)' + InQueue(r)' + Dropped(r)' = InListener(r) + InQueue(r) + Dropped(r)
         /\ PopData /\ UNCHANGED <<socketVars, historyVars, listenerVars>> =>
              /\ UNCHANGED <<taken, listener, rev, answers, broken, dropped>>
              /\ InQueue(r)' + InWorker(r)' = InQueue(r) + InWorker(r)
<1>1. /\ QueueType /\ QueueInv
      /\ worker = "pop" => ~IsDempty
  BY FromHandshake DEF CheckingType
<1>2. /\ Unread(r) \in Nat /\ InListener(r) \in Nat /\ InQueue(r) \in Nat /\ InWorker(r) \in Nat
      /\ Broken(r) \in Nat /\ Dropped(r) \in Nat
  BY <1>1, PlacesType
<1>3. \A b : One(b) \in Nat
  BY DEF One
<1>4. ASSUME ReadHeader
      PROVE  /\ UNCHANGED <<queue, worker, data, answers, broken, dropped>>
             /\ Unread(r)' + InListener(r)' = Unread(r) + InListener(r)
  <2>1. /\ UNCHANGED <<queue, worker, data, answers, broken, dropped>>
        /\ ~Holding /\ Holding'
    BY <1>4 DEF ReadHeader, checkingVars, historyVars, Holding
  <2>2. InListener(r) = 0 /\ InListener(r)' = One(rev' = r)
    BY <2>1, HeldOnce
  <2>3. Unread(r) = Unread(r)' + One(rev' = r)
    <3>1. PICK c \in Conns : \E i \in 1 .. Len(Script[c]) : r = [conn |-> c, num |-> i]
      BY RequestParts
    <3>2. /\ r.conn = c /\ r.num \in Nat /\ taken[c] \in Nat
          /\ r = [conn |-> c, num |-> r.num]
      BY <3>1 DEF ServerType, SocketType
    <3>3. /\ rev' = [conn |-> fds[cur], num |-> taken[fds[cur]] + 1]
          /\ taken'[c] = IF c = fds[cur] THEN taken[c] + 1 ELSE taken[c]
      BY <1>4, ReadHeaderTakes
    <3>4. rev' = r <=> c = fds[cur] /\ r.num = taken[c] + 1
      BY <3>2, <3>3
    <3>5. /\ Unread(r) = One(r.num > taken[c])
          /\ Unread(r)' = One(r.num > taken'[c])
      BY <3>2 DEF Unread
    <3>6. CASE c = fds[cur]
      BY <3>2, <3>3, <3>4, <3>5, <3>6 DEF One
    <3>7. CASE c # fds[cur]
      BY <3>2, <3>3, <3>4, <3>5, <3>7 DEF One
    <3>8. QED
      BY <3>6, <3>7
  <2>4. Unread(r)' \in Nat
    BY <1>3 DEF Unread, One
  <2>5. QED
    BY <1>2, <1>3, <2>1, <2>2, <2>3, <2>4
<1>5. ASSUME BodyError
      PROVE  /\ UNCHANGED <<taken, queue, worker, data, answers, dropped>>
             /\ InListener(r)' + Broken(r)' = InListener(r) + Broken(r)
  <2>1. /\ UNCHANGED <<taken, queue, worker, data, answers, dropped>>
        /\ Holding /\ ~Holding' /\ broken' = broken \cup {rev}
    BY <1>5 DEF BodyError, CloseFd, checkingVars, Holding
  <2>2. InListener(r) = One(rev = r) /\ InListener(r)' = 0
    BY <2>1, HeldOnce
  <2>3. rev \in Requests /\ rev \notin broken
    BY <1>1, <2>1, HeldNotLost DEF ReadInv
  <2>4. Broken(r)' = Broken(r) + One(rev = r)
    BY <2>1, <2>3 DEF Broken, One
  <2>5. QED
    BY <1>2, <1>3, <2>1, <2>2, <2>4
<1>6. ASSUME Push
      PROVE  /\ UNCHANGED <<taken, worker, data, answers, broken>>
             /\ InListener(r)' + InQueue(r)' + Dropped(r)' = InListener(r) + InQueue(r) + Dropped(r)
  <2>1. /\ UNCHANGED <<taken, worker, data, answers, broken>>
        /\ Holding /\ ~Holding'
        /\ PushInQueue([rev |-> rev, efd |-> cur])
    BY <1>6 DEF Push, PushMessage, CheckAndPush, MESSAGE_HEADER_LEN, socketVars, Holding
  <2>2. InListener(r) = One(rev = r) /\ InListener(r)' = 0
    BY <2>1, HeldOnce
  <2>3. rev \in Requests /\ cur \in Fds /\ rev \notin dropped
    BY <1>1, <1>6, <2>1, HeldNotLost DEF Push, ReadInv, BatchInv, Serving
  <2>4. CASE IsFull
    <3>1. UNCHANGED queue /\ dropped' = dropped \cup {rev}
      BY <1>6, <2>1, <2>4 DEF PushInQueue, Push
    <3>2. Dropped(r)' = Dropped(r) + One(rev = r) /\ InQueue(r)' = InQueue(r)
      BY <2>3, <3>1, Unmoved DEF Dropped, One
    <3>3. QED
      BY <1>2, <1>3, <2>1, <2>2, <3>2
  <2>5. CASE ~IsFull
    <3>1. PICK d \in Data : d = [rev |-> rev, efd |-> cur]
      BY <2>3, ServerAssumption
    <3>2. PushInQueue(d) /\ d.rev = rev
      BY <2>1, <3>1
    <3>3. InQueue(r)' = InQueue(r) + One(rev = r)
      BY <1>1, <2>5, <3>2, QueuedByPush
    <3>4. UNCHANGED dropped
      BY <1>6, <2>5 DEF Push
    <3>5. Dropped(r)' = Dropped(r)
      BY <3>4, Unmoved
    <3>6. QED
      BY <1>2, <1>3, <2>1, <2>2, <3>3, <3>5
  <2>6. QED
    BY <2>4, <2>5
<1>7. ASSUME PopData, UNCHANGED <<socketVars, historyVars, listenerVars>>
      PROVE  /\ UNCHANGED <<taken, listener, rev, answers, broken, dropped>>
             /\ InQueue(r)' + InWorker(r)' = InQueue(r) + InWorker(r)
  <2>1. UNCHANGED <<taken, listener, rev, answers, broken, dropped>>
    BY <1>7 DEF socketVars, historyVars, listenerVars
  <2>2. /\ worker = "pop" /\ worker' = "respond"
        /\ ~IsDempty /\ data' = Front /\ DropFront
    BY <1>1, <1>7 DEF PopData, PopFromQueue
  <2>3. InWorker(r) = 0 /\ InWorker(r)' = One(Front.rev = r)
    BY <2>2 DEF InWorker, One
  <2>4. InQueue(r) = InQueue(r)' + One(Front.rev = r)
    BY <1>1, <2>2, UnqueuedByPop
  <2>5. InQueue(r)' \in Nat
    <3>1. QueueType'
      BY <1>1, <2>2, PopTakesHead
    <3>2. IsFiniteSet(1 .. queue'.n)
      <4>1. queue'.n \in Int
        BY <3>1, QueueAssumption DEF QueueType
      <4>2. QED
        BY <4>1, FS_Interval
    <3>3. PICK left : left = Places(r)'
      OBVIOUS
    <3>4. IsFiniteSet(left)
      BY <3>2, <3>3, FS_Subset DEF Places
    <3>5. QED
      BY <3>3, <3>4, FS_CardinalityType DEF InQueue
  <2>6. QED
    BY <1>2, <1>3, <2>1, <2>3, <2>4, <2>5
<1>8. QED
  BY <1>4, <1>5, <1>6, <1>7

\* Every request stays in one place.
LEMMA RequestsKept ==
  ASSUME HS!HandshakeInv, ServerType, ServerType', BatchInv, ReadInv, PushedInv, RequestAccounted,
         QueueType', [Next]_vars
  PROVE  RequestAccounted'
<1>1. QueueType
  BY FromHandshake DEF CheckingType
<1>2. \A r \in Requests :
        /\ Unread(r) \in Nat /\ InListener(r) \in Nat /\ InQueue(r) \in Nat
        /\ InWorker(r) \in Nat /\ Answered(r) \in Nat /\ Broken(r) \in Nat /\ Dropped(r) \in Nat
  BY <1>1, PlacesType
<1>3. (ServerType /\ QueueType =>
         \A r \in Requests :
           /\ IsFiniteSet(Places(r))
           /\ Unread(r) \in Nat /\ InListener(r) \in Nat /\ InQueue(r) \in Nat
           /\ InWorker(r) \in Nat /\ Answered(r) \in Nat
           /\ Broken(r) \in Nat /\ Dropped(r) \in Nat)'
  BY PlacesType, PTL
<1>4. \A r \in Requests :
        /\ Unread(r)' \in Nat /\ InListener(r)' \in Nat /\ InQueue(r)' \in Nat
        /\ InWorker(r)' \in Nat /\ Answered(r)' \in Nat /\ Broken(r)' \in Nat
        /\ Dropped(r)' \in Nat
  BY <1>3
<1> SUFFICES ASSUME NEW r \in Requests
             PROVE  Unread(r)' + InListener(r)' + InQueue(r)' + InWorker(r)' + Answered(r)'
                      + Broken(r)' + Dropped(r)'
                    = Unread(r) + InListener(r) + InQueue(r) + InWorker(r) + Answered(r)
                      + Broken(r) + Dropped(r)
  BY StillOnce
<1>5. CASE Quiet
  <2>1. /\ UNCHANGED <<taken, queue, data, answers, broken, dropped>>
        /\ worker' = "respond" <=> worker = "respond"
        /\ Held(r)' <=> Held(r)
    BY <1>5, QuietMovesNone
  <2>2. InListener(r)' = InListener(r) /\ InWorker(r)' = InWorker(r)
    BY <2>1 DEF InListener, InWorker, One
  <2>3. QED
    BY <2>1, <2>2, Unmoved
<1>6. CASE ReadHeader
  BY <1>2, <1>4, <1>6, RequestMoves, Unmoved
<1>7. CASE BodyError
  BY <1>2, <1>4, <1>7, RequestMoves, Unmoved
<1>8. CASE Push
  BY <1>2, <1>4, <1>8, RequestMoves, Unmoved
<1>9. CASE Answering
  BY <1>2, <1>4, <1>9, AnsweringMoves, Unmoved
<1>10. CASE PopData /\ UNCHANGED <<socketVars, historyVars, listenerVars>>
  BY <1>2, <1>4, <1>10, RequestMoves, Unmoved
<1>11. QED
  BY <1>5, <1>6, <1>7, <1>8, <1>9, <1>10, MovingSteps

-----------------------------------------------------------------------------
(* The invariant *)

\* The server starts with nothing connected, read, queued or answered.
LEMMA ServerInit == Init => IInv
<1> SUFFICES ASSUME Init PROVE IInv
  OBVIOUS
<1> USE DEF Init, InitSockets
<1>1. HS!HandshakeInv
  <2>1. HS!Init
    BY DEF InitClock, InitChecking, InitQueue, Slots, FirstSecond,
           HS!Init, HS!InitClock, HS!InitChecking, HS!InitQueue, HS!Slots, HS!FirstSecond
  <2>2. QED
    BY <2>1, HS!HandshakeInit, QueueAssumption, TimeAssumption, WaitAssumption
       DEF FirstSecond, HS!FirstSecond
<1>2. ServerType
  <2>1. ClockType /\ LimiterType
    BY TimeAssumption DEF InitClock, InitLimiter, ClockType, LimiterType, Seconds, FirstSecond
  <2>2. <<>> \in Seq(Conns) /\ <<>> \in Seq(Data) /\ <<>> \in Seq(Answer)
    OBVIOUS
  <2>3. SocketType
    BY <2>2 DEF SocketType
  <2>4. pushed \in Seq(Data)
    BY <2>2 DEF InitChecking
  <2>5. answers \in [Requests -> Seq(Answer)]
    BY <2>2
  <2>6. QED
    BY <2>1, <2>3, <2>4, <2>5 DEF ServerType
<1>3. BatchInv /\ NoLostEdge
  <2>1. \A f \in Fds : f # SFD /\ fds[f] = NoConn
    BY SocketAssumption DEF Fds, SFD
  <2>2. QED
    BY <2>1 DEF BatchInv, NoLostEdge, HasEvent, Serving
<1>4. ReadInv /\ PushedInv
  <2>1. pushed = <<>> /\ DOMAIN pushed = {}
    BY DEF InitChecking
  <2>2. \A c \in Conns : Len(Script[c]) \in Nat
    BY SocketAssumption
  <2>3. QED
    BY <2>1, <2>2 DEF ReadInv, PushedInv, Holding
<1>5. CountedInv
  <2>1. Cardinality(TakenRequests) \in Nat
    BY RequestsFinite, FS_Subset, FS_CardinalityType DEF TakenRequests
  <2>2. QED
    BY <2>1 DEF CountedInv, InitLimiter, ToCount
<1>6. AnswerReachesSender
  BY DEF AnswerReachesSender
<1>7. RequestAccounted
  <2>1. ASSUME NEW r \in Requests
        PROVE  Copies(r) = 1
    <3>1. PICK c \in Conns : \E i \in 1 .. Len(Script[c]) : r = [conn |-> c, num |-> i]
      BY RequestParts
    <3>2. taken[r.conn] = 0 /\ r.num > 0 /\ r # NoRev
      BY <3>1, ServerAssumption
    <3>3. Unread(r) = 1 /\ InListener(r) = 0
      BY <3>2 DEF Unread, InListener, Held, One
    <3>4. InWorker(r) = 0 /\ Broken(r) = 0 /\ Dropped(r) = 0
      BY DEF InWorker, Broken, Dropped, One, InitChecking
    <3>5. Answered(r) = 0
      BY DEF Answered
    <3>6. InQueue(r) = 0
      <4>1. queue.n = 0
        BY DEF InitChecking, InitQueue
      <4>2. Places(r) = {}
        BY <4>1 DEF Places
      <4>3. QED
        BY <4>2, FS_EmptySet DEF InQueue
    <3>7. QED
      BY <3>3, <3>4, <3>5, <3>6, CopiesSum
  <2>2. QED
    BY <2>1 DEF RequestAccounted
<1>8. QED
  BY <1>1, <1>2, <1>3, <1>4, <1>5, <1>6, <1>7 DEF IInv

\* Every step keeps the invariant.
LEMMA ServerStep == IInv /\ [Next]_vars => IInv'
<1> SUFFICES ASSUME IInv, [Next]_vars PROVE IInv'
  OBVIOUS
<1>1. /\ HS!HandshakeInv /\ ServerType /\ BatchInv /\ NoLostEdge /\ ReadInv /\ PushedInv
      /\ CountedInv /\ AnswerReachesSender /\ RequestAccounted
  BY DEF IInv
<1>2. HS!HandshakeInv'
  BY <1>1, MapsToHandshake, HandshakeKept
<1>3. (HS!HandshakeInv =>
         /\ CheckingType /\ QueueInv
         /\ worker = "respond" => data \in Data
         /\ served \in Seq(Data)
         /\ worker = "pop" => ~IsDempty
         /\ pushed = served \o InHand \o Contents)'
  BY FromHandshake, PTL
<1>4. QueueType' /\ pushed' \in Seq(Data)
  BY <1>2, <1>3 DEF CheckingType
<1>5. ServerType'
  <2>1. worker = "respond" => data \in Data
    BY <1>1, FromHandshake
  <2>2. ClockType' /\ LimiterType' /\ SocketType'
    BY <1>1, LimiterTyped, SocketsTyped
  <2>3. /\ listener' \in {"wait", "event", "accept"} \cup Serving
        /\ events' \subseteq [fd : Fds \cup {SFD}, err : BOOLEAN]
        /\ cur' \in Fds \cup {SFD}
        /\ rev' \in Requests \cup {NoRev}
    BY <1>1, ListenerTyped
  <2>4. /\ broken' \subseteq Requests /\ dropped' \subseteq Requests
        /\ answers' \in [Requests -> Seq(Answer)]
    BY <1>1, <2>1, HistoryTyped
  <2>5. QED
    BY <1>4, <2>2, <2>3, <2>4 DEF ServerType
<1>6. BatchInv' /\ NoLostEdge'
  BY <1>1, BatchKept, EdgesKept
<1>7. ReadInv' /\ PushedInv' /\ CountedInv'
  BY <1>1, ReadKept, PushedKept, CountedKept
<1>8. AnswerReachesSender'
  BY <1>1, SendersKept
<1>9. RequestAccounted'
  BY <1>1, <1>4, <1>5, RequestsKept
<1>10. QED
  BY <1>2, <1>5, <1>6, <1>7, <1>8, <1>9 DEF IInv

-----------------------------------------------------------------------------
(* What follows from it *)

\* Every reachable state of the server has the types of TypeOK.
THEOREM ServerTypeCorrect == Spec => []TypeOK
<1>1. IInv => TypeOK
  <2>1. IInv => ServerType /\ CheckingType
    BY FromHandshake DEF IInv
  <2>2. QED
    BY <2>1 DEF ServerType, TypeOK
<1>2. QED
  BY <1>1, ServerInit, ServerStep, PTL DEF Spec

\* A request the server began to read is in one place at any time, and is lost only
\* to a full queue or to a body that was not there; none is answered twice.
THEOREM RequestsAccounted == Spec => []RequestAccounted
<1>1. IInv => RequestAccounted
  BY DEF IInv
<1>2. QED
  BY <1>1, ServerInit, ServerStep, PTL DEF Spec

\* An answer goes to the connection its request came in on, or that connection was
\* closed by the server or reset by its client: the descriptor queued with a request
\* is never silently another connection's while its own is open.
THEOREM AnswersReachSenders == Spec => []AnswerReachesSender
<1>1. IInv => AnswerReachesSender
  BY DEF IInv
<1>2. QED
  BY <1>1, ServerInit, ServerStep, PTL DEF Spec

\* The queue thread answers each connection's requests in the order they were sent.
THEOREM AnswersInOrder == Spec => []QueuedAnswersInOrder
<1>1. IInv => QueuedAnswersInOrder
  <2>1. ASSUME IInv PROVE QueuedAnswersInOrder
    <3>1. /\ served \in Seq(Data) /\ InHand \in Seq(Data) /\ Contents \in Seq(Data)
          /\ pushed = served \o InHand \o Contents
      BY <2>1, FromHandshake, ContentsSeq DEF IInv, CheckingType, InHand
    <3>2. /\ served \o InHand \in Seq(Data)
          /\ Len(served \o InHand) = Len(served) + Len(InHand)
          /\ \A i \in 1 .. Len(served) : (served \o InHand)[i] = served[i]
      <4>1. Len(served) \in Nat /\ Len(InHand) \in Nat
        BY <3>1
      <4>2. QED
        BY <3>1, <4>1, ConcatProperties
    <3> DEFINE front == served \o InHand
    <3> HIDE DEF front
    <3>3. /\ front \in Seq(Data) /\ Len(front) = Len(served) + Len(InHand)
          /\ \A i \in 1 .. Len(served) : front[i] = served[i]
          /\ pushed = front \o Contents
      BY <3>1, <3>2 DEF front
    <3>4. /\ front \o Contents \in Seq(Data)
          /\ Len(front \o Contents) = Len(front) + Len(Contents)
          /\ \A i \in 1 .. Len(front) + Len(Contents) :
               (front \o Contents)[i] =
                 IF i <= Len(front) THEN front[i] ELSE Contents[i - Len(front)]
      <4>1. front \in Seq(Data) /\ Contents \in Seq(Data)
        BY <3>1, <3>3
      <4>2. QED
        BY <4>1, ConcatProperties
    <3>5. Len(served) \in Nat /\ Len(InHand) \in Nat /\ Len(Contents) \in Nat /\ Len(front) \in Nat
      BY <3>1, <3>3
    <3>6. /\ DOMAIN served = 1 .. Len(served)
          /\ DOMAIN pushed = 1 .. Len(front) + Len(Contents)
      BY <3>1, <3>3, <3>4
    <3>7. \A i \in DOMAIN served : i \in DOMAIN pushed /\ pushed[i] = served[i]
      BY <3>3, <3>4, <3>5, <3>6
    <3>8. PushedInv
      BY <2>1 DEF IInv
    <3>9. QED
      BY <3>7, <3>8 DEF PushedInv, QueuedAnswersInOrder
  <2>2. QED
    BY <2>1
<1>2. QED
  BY <1>1, ServerInit, ServerStep, PTL DEF Spec

\* No edge is lost: a connection with something to report has an edge pending, an
\* event in the batch, or the listener reading from it.
THEOREM EdgesNeverLost == Spec => []NoLostEdge
<1>1. IInv => NoLostEdge
  BY DEF IInv
<1>2. QED
  BY <1>1, ServerInit, ServerStep, PTL DEF Spec

\* Inside the server, the queue thread and the listener's three critical sections
\* behave as QueueHandshake says.
THEOREM HandshakeImplemented == Spec => ImplementsHandshake
<1>1. Init => Handshake!Init
  BY DEF Init, InitClock, InitChecking, InitQueue, Slots, FirstSecond, Handshake!Init,
         Handshake!InitClock, Handshake!InitChecking, Handshake!InitQueue, Handshake!Slots,
         Handshake!FirstSecond
<1>2. IInv /\ [Next]_vars => [Handshake!Next]_Handshake!vars
  <2>1. IInv /\ [Next]_vars => [HS!Next]_HS!vars
    BY MapsToHandshake DEF IInv
  <2>2. UNCHANGED HS!vars => UNCHANGED Handshake!vars
    BY DEF HS!vars, Handshake!vars, HS!checkingVars, Handshake!checkingVars, HS!flagVars,
           Handshake!flagVars, HS!listenerVars, Handshake!listenerVars
  <2>3. HS!Next => Handshake!Next
    <3>1. \A d \in Data : HS!Arrive(d) => Handshake!Arrive(d)
      BY DEF HS!Arrive, Handshake!Arrive, HS!checkingVars, Handshake!checkingVars,
             HS!flagVars, Handshake!flagVars
    <3>2. HS!Push => Handshake!Push
      BY DEF HS!Push, Handshake!Push, HS!PushMessage, Handshake!PushMessage, HS!CheckAndPush,
             Handshake!CheckAndPush, HS!PushInQueue, Handshake!PushInQueue, HS!IsFull,
             Handshake!IsFull, HS!flagVars, Handshake!flagVars, HS!MESSAGE_HEADER_LEN,
             Handshake!MESSAGE_HEADER_LEN
    <3>3. \A b \in BOOLEAN : HS!Status(b) => Handshake!Status(b)
      BY DEF HS!Status, Handshake!Status, HS!MarkReading, Handshake!MarkReading
    <3>4. HS!Resume => Handshake!Resume
      BY DEF HS!Resume, Handshake!Resume, HS!ResumeQueueThread, Handshake!ResumeQueueThread
    <3>5. HS!WorkerStep => Handshake!WorkerStep
      BY DEF HS!WorkerStep, HS!WorkerInternal, HS!Respond, HS!CheckQueue, HS!PopData,
             HS!StartFree, HS!CheckElapsed, HS!MarkNotReading, HS!SuspendQueueThread,
             HS!RecheckSuspended, HS!listenerVars, HS!flagVars, HS!IsDempty, HS!PopFromQueue,
             HS!Front, HS!DropFront, HS!GetCurrTime,
             Handshake!WorkerStep, Handshake!WorkerInternal, Handshake!Respond,
             Handshake!CheckQueue, Handshake!PopData, Handshake!StartFree,
             Handshake!CheckElapsed, Handshake!MarkNotReading, Handshake!SuspendQueueThread,
             Handshake!RecheckSuspended, Handshake!listenerVars, Handshake!flagVars,
             Handshake!IsDempty, Handshake!PopFromQueue, Handshake!Front, Handshake!DropFront,
             Handshake!GetCurrTime
    <3>6. HS!Spurious => Handshake!Spurious
      BY DEF HS!Spurious, Handshake!Spurious, HS!SpuriousWakeup, Handshake!SpuriousWakeup,
             HS!flagVars, Handshake!flagVars, HS!listenerVars, Handshake!listenerVars
    <3>7. HS!Second => Handshake!Second
      BY DEF HS!Second, Handshake!Second, HS!Tick, Handshake!Tick, HS!checkingVars,
             Handshake!checkingVars, HS!flagVars, Handshake!flagVars, HS!listenerVars,
             Handshake!listenerVars
    <3>8. QED
      BY <3>1, <3>2, <3>3, <3>4, <3>5, <3>6, <3>7
         DEF HS!Next, Handshake!Next, HS!ListenerStep, Handshake!ListenerStep
  <2>4. QED
    BY <2>1, <2>2, <2>3
<1>3. QED
  BY <1>1, <1>2, ServerInit, ServerStep, PTL DEF Spec, ImplementsHandshake, Handshake!Spec

MI == INSTANCE MonitoringIncomeProofs
  WITH caller        <- IF listener \in {"count", "open"} THEN listener ELSE "idle",
       monitor       <- "check",
       monitor_now   <- 0,
       monitor_count <- -1,
       MaxBurst      <- Cardinality(Requests) + 1

\* Steps that are nothing to the limiter.
Unlimited ==
  /\ UNCHANGED <<now, limiterVars>>
  /\ \/ UNCHANGED listener
     \/ listener \notin {"count", "open"} /\ listener' \notin {"count", "open"}

\* Only incoming_msg and the clock are.
LEMMA LimiterSteps ==
  [Next]_vars => Unlimited \/ Limit \/ Close \/ Second \/ \E b \in BOOLEAN : Admit(b)
<1>1. EventLoopStep => Unlimited
  BY DEF EventLoopStep, WaitEvents, EventsDone, ErrorEvent, ServeEvent, Accept, AcceptEnds,
         listenerVars, Unlimited
<1>2. ReadStep => Unlimited
  BY DEF ReadStep, ReadHeader, ReadDone, ReadError, ReadBody, BodyError, Unlimited
<1>3. AnswerInline \/ Refuse => Unlimited
  BY DEF AnswerInline, Refuse, Unlimited
<1>4. Push \/ Resume => Unlimited
  BY DEF Push, Resume, Unlimited
<1>5. (\E b \in BOOLEAN : Status(b)) => Unlimited
  BY DEF Status, Unlimited
<1>6. WorkerStep \/ Client \/ UNCHANGED vars => Unlimited
  BY DEF WorkerStep, Client, vars, listenerVars, Unlimited
<1>7. QED
  BY <1>1, <1>2, <1>3, <1>4, <1>5, <1>6 DEF Next, ListenerStep, RequestStep

\* The listener's calls of incoming_msg are those of MonitoringIncome.
LEMMA MapsToIncome ==
  IInv /\ [Next]_vars => [MI!Next]_MI!vars
<1> SUFFICES ASSUME IInv, [Next]_vars PROVE [MI!Next]_MI!vars
  OBVIOUS
<1> USE DEF MI!vars, MI!callerVars, MI!monitorVars, MI!limiterVars, limiterVars
<1>1. CASE Unlimited
  BY <1>1 DEF Unlimited
<1>2. CASE Limit
  <2>1. num_msg_in_sec < Cardinality(Requests) + 1
    <3>1. num_msg_in_sec + 1 <= Cardinality(TakenRequests)
      BY <1>2 DEF Limit, IInv, CountedInv, ToCount
    <3>2. Cardinality(TakenRequests) <= Cardinality(Requests)
      BY RequestsFinite, FS_Subset DEF TakenRequests
    <3>3. /\ num_msg_in_sec \in Nat /\ Cardinality(Requests) \in Nat
          /\ Cardinality(TakenRequests) \in Nat
      BY RequestsFinite, FS_Subset, FS_CardinalityType
         DEF TakenRequests, IInv, ServerType, LimiterType
    <3>4. QED
      BY <3>1, <3>2, <3>3
  <2>2. MI!StartCount
    BY <1>2 DEF Limit, StartCount, MI!StartCount, GetCurrTime, MI!GetCurrTime
  <2>3. MI!Enter
    BY <1>2, <2>1, <2>2 DEF Limit, MI!Enter
  <2>4. QED
    BY <2>3 DEF MI!Next
<1>3. ASSUME NEW b \in BOOLEAN, Admit(b)
      PROVE  MI!Next
  <2>1. CASE listener = "count" /\ CountInWindow(b)
    <3>1. MI!CountInWindow(b)
      BY <2>1 DEF CountInWindow, MI!CountInWindow, Result, MI!Result, InWindow, MI!InWindow,
                  GetCurrTime, MI!GetCurrTime
    <3>2. MI!Count(b)
      BY <1>3, <2>1, <3>1 DEF Admit, MI!Count
    <3>3. QED
      BY <3>2 DEF MI!Next
  <2>2. CASE listener = "open" /\ OpenWindow(b)
    <3>1. MI!OpenWindow(b)
      BY <2>2 DEF OpenWindow, MI!OpenWindow, Result, MI!Result, GetCurrTime, MI!GetCurrTime
    <3>2. MI!Open(b)
      BY <1>3, <2>2, <3>1 DEF Admit, MI!Open
    <3>3. QED
      BY <3>2 DEF MI!Next
  <2>3. QED
    BY <1>3, <2>1, <2>2 DEF Admit
<1>4. CASE Close
  <2>1. MI!CloseWindow
    BY <1>4 DEF Close, CloseWindow, MI!CloseWindow, InWindow, MI!InWindow, GetCurrTime,
                MI!GetCurrTime
  <2>2. MI!Close
    BY <1>4, <2>1 DEF Close, MI!Close
  <2>3. QED
    BY <2>2 DEF MI!Next
<1>5. CASE Second
  <2>1. MI!Second
    BY <1>5 DEF Second, Tick, MI!Second, MI!Tick, listenerVars
  <2>2. QED
    BY <2>1 DEF MI!Next
<1>6. QED
  BY <1>1, <1>2, <1>3, <1>4, <1>5, LimiterSteps

\* Inside the server, the limiter behaves as MonitoringIncome says.
THEOREM IncomeImplemented == Spec => ImplementsIncome
<1>1. Init => Income!Init
  BY DEF Init, InitClock, InitLimiter, Seconds, FirstSecond, Income!Init, Income!InitClock,
         Income!InitLimiter, Income!Seconds, Income!FirstSecond
<1>2. UNCHANGED MI!vars => UNCHANGED Income!vars
  BY DEF MI!vars, MI!callerVars, MI!monitorVars, MI!limiterVars,
         Income!vars, Income!callerVars, Income!monitorVars, Income!limiterVars
<1>3. MI!Next => Income!Next
  <2> USE DEF MI!callerVars, MI!monitorVars, MI!limiterVars, MI!GetCurrTime, MI!InWindow, MI!Result,
              Income!callerVars, Income!monitorVars, Income!limiterVars, Income!GetCurrTime,
              Income!InWindow, Income!Result
  <2>1. MI!Enter => Income!Enter
    BY DEF MI!Enter, MI!StartCount, Income!Enter, Income!StartCount
  <2>2. \A b \in BOOLEAN : MI!Count(b) => Income!Count(b)
    BY DEF MI!Count, MI!CountInWindow, Income!Count, Income!CountInWindow
  <2>3. \A b \in BOOLEAN : MI!Open(b) => Income!Open(b)
    BY DEF MI!Open, MI!OpenWindow, Income!Open, Income!OpenWindow
  <2>4. MI!Close => Income!Close
    BY DEF MI!Close, MI!CloseWindow, Income!Close, Income!CloseWindow
  <2>5. MI!ReadClock => Income!ReadClock
    BY DEF MI!ReadClock, Income!ReadClock
  <2>6. MI!ReadCount => Income!ReadCount
    BY DEF MI!ReadCount, Income!ReadCount
  <2>7. MI!Decide => Income!Decide
    BY DEF MI!Decide, MI!Stale, Income!Decide, Income!Stale
  <2>8. MI!Reset => Income!Reset
    BY DEF MI!Reset, Income!Reset
  <2>9. MI!Second => Income!Second
    BY DEF MI!Second, MI!Tick, Income!Second, Income!Tick
  <2>10. QED
    BY <2>1, <2>2, <2>3, <2>4, <2>5, <2>6, <2>7, <2>8, <2>9 DEF MI!Next, Income!Next
<1>4. IInv /\ [Next]_vars => [Income!Next]_Income!vars
  BY <1>2, <1>3, MapsToIncome
<1>5. QED
  BY <1>1, <1>4, ServerInit, ServerStep, PTL DEF Spec, ImplementsIncome, Income!Spec

\* So, inside the server too, no second of the clock admits more than MAX_TPS of the
\* clients' requests, and the two published rates are always those of one window.
THEOREM ServerAdmissionBounded == Spec => [](Income!AdmissionBound /\ Income!RatesAgree)
<1>1. Init => MI!Init
  BY DEF Init, InitClock, InitLimiter, Seconds, FirstSecond, MI!Init, MI!InitClock,
         MI!InitLimiter, MI!Seconds, MI!FirstSecond
<1>2. Init => MI!LimiterInv
  BY <1>1, MI!LimiterInit, TimeAssumption, RateAssumption DEF FirstSecond, MI!FirstSecond
<1>3. MI!LimiterInv /\ [MI!Next]_MI!vars => MI!LimiterInv'
  BY MI!LimiterStep, TimeAssumption, RateAssumption DEF FirstSecond, MI!FirstSecond
<1>4. IInv /\ [Next]_vars => (MI!LimiterInv => MI!LimiterInv')
  BY <1>3, MapsToIncome
<1>5. MI!LimiterInv => Income!AdmissionBound /\ Income!RatesAgree
  BY DEF MI!LimiterInv, MI!HistoryInv, MI!RatesAgree, MI!Seconds, MI!FirstSecond,
         Income!AdmissionBound, Income!RatesAgree, Income!Seconds, Income!FirstSecond
<1>6. QED
  BY <1>2, <1>4, <1>5, ServerInit, ServerStep, PTL DEF Spec

\* And inside the server the queue thread never pops from an empty queue, the flags
\* say what the two threads are about, and only a resume that overtakes the thread on
\* its way to sleep strands it there.
THEOREM ServerHandshakeSafe ==
  Spec => /\ [](Handshake!PopFindsData /\ Handshake!FlagsTellTheTruth)
          /\ Handshake!OnlyEarlyResumeStrands
<1>1. IInv => HS!HandshakeInv
  BY DEF IInv
<1>2. HS!HandshakeInv => Handshake!PopFindsData /\ Handshake!FlagsTellTheTruth
  BY DEF HS!HandshakeInv, HS!PopFindsData, HS!FlagsTellTheTruth, HS!OnSuspendPath, HS!IsDempty,
         Handshake!PopFindsData, Handshake!FlagsTellTheTruth, Handshake!OnSuspendPath,
         Handshake!IsDempty
<1>3. IInv /\ [Next]_vars =>
        [Handshake!Stranded' =>
           Handshake!Stranded \/ (worker = "suspend" /\ is_on_reading = 1)]_Handshake!vars
  <2>1. IInv /\ [Next]_vars => HS!HandshakeInv /\ [HS!Next]_HS!vars
    BY MapsToHandshake DEF IInv
  <2>2. HS!HandshakeInv /\ [HS!Next]_HS!vars =>
          [HS!Stranded' => HS!Stranded \/ (worker = "suspend" /\ is_on_reading = 1)]_HS!vars
    BY HS!StrandStep, QueueAssumption, TimeAssumption, WaitAssumption
       DEF FirstSecond, HS!FirstSecond
  <2>3. (HS!Stranded <=> Handshake!Stranded) /\ (HS!Stranded <=> Handshake!Stranded)'
    BY DEF HS!Stranded, HS!Asleep, Handshake!Stranded, Handshake!Asleep
  <2>4. UNCHANGED HS!vars => UNCHANGED Handshake!vars
    BY DEF HS!vars, Handshake!vars, HS!checkingVars, Handshake!checkingVars, HS!flagVars,
           Handshake!flagVars, HS!listenerVars, Handshake!listenerVars
  <2>5. QED
    BY <2>1, <2>2, <2>3, <2>4
<1>4. QED
  BY <1>1, <1>2, <1>3, ServerInit, ServerStep, PTL
     DEF Spec, Handshake!OnlyEarlyResumeStrands
=============================================================================
