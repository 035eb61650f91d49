--------------------------- MODULE NIOQueueServer ---------------------------
(***************************************************************************)
(* The server of NIOQueueServer.c between its clients: the listener thread *)
(* with its epoll loop, the limiter and the queue thread, over the sockets *)
(* they share.  The monitor thread is left to MonitoringIncome: it writes  *)
(* two variables that nobody here reads.                                   *)
(***************************************************************************)
EXTENDS CheckingQueueIn, ServerThreadhold, Sockets

CONSTANTS
  NoRev,       \* no message has been read yet
  MAX_EVENTS   \* events one epoll_wait returns

ASSUME ServerAssumption ==
  /\ MAX_EVENTS \in Nat \ {0}
  /\ NoRev \notin Requests
  /\ Data = [rev : Requests, efd : Fds]

VARIABLES
  listener,  \* where the listener thread is
  events,    \* what is left of the batch the last epoll_wait returned
  cur,       \* the descriptor it is serving, events[i].data.fd
  rev,       \* the message it read last
  broken,    \* history: requests whose header was read without their body
  dropped,   \* history: requests a full queue refused
  answers    \* history: per request, the code and the receiver of its answers

listenerVars == <<listener, events, cur, rev>>
historyVars  == <<broken, dropped, answers>>
vars == <<now, checkingVars, limiterVars, socketVars, listenerVars, historyVars>>

\* Where the listener serves the requests of descriptor cur.
Serving == {"read", "body", "inline", "limit", "count", "open", "push", "status",
            "resume", "refuse"}

Init ==
  /\ InitClock /\ InitChecking /\ InitLimiter /\ InitSockets
  /\ listener = "wait"
  /\ events = {}
  /\ cur = SFD
  /\ rev = NoRev
  /\ broken = {}
  /\ dropped = {}
  /\ answers = [r \in Requests |-> <<>>]

\* What is kept of an answer: its result code and the connection it reached.
Codes  == {2001, 3001}
Answer == [code : Codes, to : Conns \cup {NoConn}]

WriteAnswer(f, r, code) ==
  \E to \in Conns \cup {NoConn} :
    /\ Write(f, to)
    /\ answers' = [answers EXCEPT ![r] = Append(@, [code |-> code, to |-> to])]

-----------------------------------------------------------------------------
(* The listener thread: the event loop *)

WaitEvents ==
  /\ listener = "wait"
  /\ EpollWait(MAX_EVENTS, events')
  /\ listener' = "event"
  /\ UNCHANGED <<cur, rev, historyVars, now, checkingVars, limiterVars>>

EventsDone ==
  /\ listener = "event" /\ events = {}
  /\ listener' = "wait"
  /\ UNCHANGED <<events, cur, rev, historyVars, now, checkingVars, limiterVars, socketVars>>

ErrorEvent(e) ==
  /\ listener = "event" /\ e.err
  /\ events' = events \ {e}
  /\ CloseFd(e.fd)
  /\ UNCHANGED <<listener, cur, rev, historyVars, now, checkingVars, limiterVars>>

ServeEvent(e) ==
  /\ listener = "event" /\ ~e.err
  /\ events' = events \ {e}
  /\ listener' = IF e.fd = SFD THEN "accept" ELSE "read"
  /\ cur' = e.fd
  /\ UNCHANGED <<rev, historyVars, now, checkingVars, limiterVars, socketVars>>

Accept ==
  /\ listener = "accept"
  /\ AcceptOne
  /\ UNCHANGED <<listenerVars, historyVars, now, checkingVars, limiterVars>>

\* Out of connections or out of descriptors, the loop is left either way.
AcceptEnds ==
  /\ listener = "accept" /\ NothingToAccept
  /\ listener' = "event"
  /\ UNCHANGED <<events, cur, rev, historyVars, now, checkingVars, limiterVars, socketVars>>

-----------------------------------------------------------------------------
(* The listener thread: process_read, over and over until it fails *)

ReadHeader ==
  /\ listener = "read"
  /\ TakeHeader(fds[cur])
  /\ rev' = [conn |-> fds[cur], num |-> taken'[fds[cur]]]
  /\ listener' = "body"
  /\ UNCHANGED <<events, cur, historyVars, now, checkingVars, limiterVars>>

\* READ_DONE: the buffer is empty.
ReadDone ==
  /\ listener = "read"
  /\ ~HeaderThere(fds[cur]) /\ peer[fds[cur]] = "open"
  /\ listener' = "event"
  /\ UNCHANGED <<events, cur, rev, historyVars, now, checkingVars, limiterVars, socketVars>>

\* Mutant of ReadError: the descriptor of a client that has left stays open.
ReadErrorWithoutClose ==
  /\ listener = "read"
  /\ ~HeaderThere(fds[cur]) /\ peer[fds[cur]] # "open"
  /\ listener' = "event"
  /\ UNCHANGED <<events, cur, rev, historyVars, now, checkingVars, limiterVars, socketVars>>

\* READ_ERROR: the client has left, and the descriptor is closed.
ReadError ==
  /\ listener = "read"
  /\ ~HeaderThere(fds[cur]) /\ peer[fds[cur]] # "open"
  /\ CloseFd(cur)
  /\ listener' = "event"
  /\ UNCHANGED <<events, cur, rev, historyVars, now, checkingVars, limiterVars>>

\* Only credit control goes through limiter and queue.
ReadBody ==
  /\ listener = "body"
  /\ BodyThere(fds[cur])
  /\ listener' = IF Command(rev) \in {"DWR", "CER"} THEN "inline" ELSE "limit"
  /\ UNCHANGED <<events, cur, rev, historyVars, now, checkingVars, limiterVars, socketVars>>

\* A body that is not there yet, or never will be, is a READ_ERROR too.
BodyError ==
  /\ listener = "body"
  /\ ~BodyThere(fds[cur])
  /\ CloseFd(cur)
  /\ broken' = broken \cup {rev}
  /\ listener' = "event"
  /\ UNCHANGED <<events, cur, rev, dropped, answers, now, checkingVars, limiterVars>>

-----------------------------------------------------------------------------
(* The listener thread: one request *)

AnswerInline ==
  /\ listener = "inline"
  /\ WriteAnswer(cur, rev, 2001)
  /\ listener' = "read"
  /\ UNCHANGED <<events, cur, rev, broken, dropped, now, checkingVars, limiterVars>>

Limit ==
  /\ listener = "limit"
  /\ StartCount
  /\ listener' = "count"
  /\ UNCHANGED <<events, cur, rev, historyVars, now, checkingVars, socketVars>>

\* The end of incoming_msg, its result and the branch on it.
Admit(ret) ==
  /\ \/ listener = "count" /\ CountInWindow(ret)
     \/ listener = "open" /\ OpenWindow(ret)
  /\ listener' = IF ret THEN "push" ELSE "refuse"
  /\ UNCHANGED <<events, cur, rev, historyVars, now, checkingVars, socketVars>>

\* Mutant of Close: the message that closes a window passes unlimited, and the
\* next window is not opened.
CloseAndAdmit ==
  /\ listener = "count"
  /\ CloseWindow
  /\ listener' = "push"
  /\ UNCHANGED <<events, cur, rev, historyVars, now, checkingVars, socketVars>>

Close ==
  /\ listener = "count"
  /\ CloseWindow
  /\ listener' = "open"
  /\ UNCHANGED <<events, cur, rev, historyVars, now, checkingVars, socketVars>>

\* Mutant of Push: the queue thread's flag is not looked at.
PushOnly ==
  /\ listener = "push"
  /\ PushMessage([rev |-> rev, efd |-> cur])
  /\ dropped' = IF IsFull THEN dropped \cup {rev} ELSE dropped
  /\ listener' = "read"
  /\ UNCHANGED <<events, cur, rev, broken, answers, now, limiterVars, socketVars>>

Push ==
  /\ listener = "push"
  /\ PushMessage([rev |-> rev, efd |-> cur])
  /\ dropped' = IF IsFull THEN dropped \cup {rev} ELSE dropped
  /\ listener' = "status"
  /\ UNCHANGED <<events, cur, rev, broken, answers, now, limiterVars, socketVars>>

\* Mutant of Status: one message is read per event.
StatusThenNextEvent(mustResume) ==
  /\ listener = "status"
  /\ MarkReading(mustResume)
  /\ listener' = IF mustResume THEN "resume" ELSE "event"
  /\ UNCHANGED <<events, cur, rev, historyVars, now, limiterVars, socketVars>>

Status(mustResume) ==
  /\ listener = "status"
  /\ MarkReading(mustResume)
  /\ listener' = IF mustResume THEN "resume" ELSE "read"
  /\ UNCHANGED <<events, cur, rev, historyVars, now, limiterVars, socketVars>>

Resume ==
  /\ listener = "resume"
  /\ ResumeQueueThread
  /\ listener' = "read"
  /\ UNCHANGED <<events, cur, rev, historyVars, now, limiterVars, socketVars>>

\* Mutant of Refuse: the branch that refuses falls through to the one that queues.
RefuseAndPush ==
  /\ listener = "refuse"
  /\ WriteAnswer(cur, rev, 3001)
  /\ listener' = "push"
  /\ UNCHANGED <<events, cur, rev, broken, dropped, now, checkingVars, limiterVars>>

\* process_gen_response_error: too many messages in this second.
Refuse ==
  /\ listener = "refuse"
  /\ WriteAnswer(cur, rev, 3001)
  /\ listener' = "read"
  /\ UNCHANGED <<events, cur, rev, broken, dropped, now, checkingVars, limiterVars>>

-----------------------------------------------------------------------------
EventLoopStep ==
  \/ WaitEvents \/ EventsDone
  \/ \E e \in events : ErrorEvent(e) \/ ServeEvent(e)
  \/ Accept \/ AcceptEnds

ReadStep == ReadHeader \/ ReadDone \/ ReadError \/ ReadBody \/ BodyError

RequestStep ==
  \/ AnswerInline \/ Limit \/ Close \/ Push \/ Resume \/ Refuse
  \/ \E b \in BOOLEAN : Admit(b) \/ Status(b)

ListenerStep == alive /\ (EventLoopStep \/ ReadStep \/ RequestStep)

\* Mutant of WorkerRespond: it answers to the descriptor the listener is serving.
RespondToCurrent ==
  /\ Respond
  /\ WriteAnswer(IF cur = SFD THEN data.efd ELSE cur, data.rev, 2001)
  /\ UNCHANGED <<broken, dropped>>

\* The queue thread answers to the descriptor the request came in on.
WorkerRespond ==
  /\ Respond
  /\ WriteAnswer(data.efd, data.rev, 2001)
  /\ UNCHANGED <<broken, dropped>>

WorkerStep ==
  /\ alive
  /\ \/ WorkerRespond
     \/ (WorkerInternal \/ SpuriousWakeup) /\ UNCHANGED <<socketVars, historyVars>>
  /\ UNCHANGED <<now, limiterVars, listenerVars>>

Client ==
  /\ alive
  /\ ClientStep
  /\ UNCHANGED <<now, checkingVars, limiterVars, listenerVars, historyVars>>

Second ==
  /\ alive
  /\ Tick
  /\ UNCHANGED <<checkingVars, limiterVars, socketVars, listenerVars, historyVars>>

Next == ListenerStep \/ WorkerStep \/ Client \/ Second

Spec == Init /\ [][Next]_vars

\* The listener is scheduled whenever it is not blocked in epoll_wait.
FairSpec == Spec /\ WF_vars(ListenerStep)

-----------------------------------------------------------------------------
\* Types of every part of the server.
TypeOK ==
  /\ ClockType /\ CheckingType /\ LimiterType /\ SocketType
  /\ listener \in {"wait", "event", "accept"} \cup Serving
  /\ events \subseteq [fd : Fds \cup {SFD}, err : BOOLEAN]
  /\ cur \in Fds \cup {SFD}
  /\ rev \in Requests \cup {NoRev}
  /\ broken \subseteq Requests /\ dropped \subseteq Requests
  /\ answers \in [Requests -> Seq(Answer)]

\* What the listener still holds of a request it has begun to read.
Held(r) ==
  rev = r /\ listener \in {"body", "inline", "limit", "count", "open", "push", "refuse"}

\* How often a request occurs among those not yet read, held by the listener,
\* queued, in the queue thread's hands, answered, and given up.
Copies(r) ==
  LET one(b) == IF b THEN 1 ELSE 0
  IN  one(r.num > taken[r.conn]) + one(Held(r))
      + Cardinality({i \in 1 .. queue.n : Contents[i].rev = r})
      + one(worker = "respond" /\ data.rev = r) + Len(answers[r])
      + one(r \in broken) + one(r \in dropped)

\* No request is lost but to a full queue or a missing body, and none is answered
\* twice, whatever the two threads, the clients and the kernel do in between.
RequestAccounted == \A r \in Requests : Copies(r) = 1

\* An answer goes to the connection its request came in on.  It is lost, or goes
\* to another connection that got the descriptor since, only once the server has
\* closed that connection or the client has reset it.
AnswerReachesSender ==
  \A r \in Requests : \A i \in DOMAIN answers[r] :
    \/ answers[r][i].to = r.conn
    \/ r.conn \in closed
    \/ peer[r.conn] = "rst" /\ answers[r][i].to = NoConn

\* What the queue thread answers, it answers in the order the connection asked,
\* across reads, wrapped indices, wake-ups and reused descriptors.
QueuedAnswersInOrder ==
  \A i, j \in DOMAIN served :
    (i < j /\ served[i].rev.conn = served[j].rev.conn)
      => served[i].rev.num < served[j].rev.num

\* An edge-triggered descriptor reports data once.  As long as a connection has
\* something to report, an edge is pending in epoll or in the batch at hand, or
\* the listener is reading that very descriptor and will read on until it fails.
NoLostEdge ==
  \A f \in Fds : HasEvent(f) =>
    \/ f \in ready
    \/ \E e \in events : e.fd = f
    \/ cur = f /\ listener \in Serving

\* A connection that has something to report is served or closed in the end.
EventsHandled ==
  \A f \in Fds : HasEvent(f) ~> (~HasEvent(f) \/ ~alive)

\* NIOQueueServer.c:252, "while for all incoming connect": no connection should
\* wait in the backlog for ever while a descriptor stays free.
BacklogAccepted ==
  \A c \in Conns : []<>(c \notin Range(backlog) \/ FreeFds = {} \/ ~alive)

Handshake == INSTANCE QueueHandshake
  WITH listener  <- IF listener \in {"push", "status", "resume"} THEN listener ELSE "idle",
       request   <- IF listener = "push" THEN [rev |-> rev, efd |-> cur] ELSE NoData,
       MaxPushed <- Cardinality(Requests) + 1

\* Inside the server, the queue thread and what the listener does to it behave as
\* QueueHandshake says.
ImplementsHandshake == Handshake!Spec

Income == INSTANCE MonitoringIncome
  WITH caller        <- IF listener \in {"count", "open"} THEN listener ELSE "idle",
       monitor       <- "check",
       monitor_now   <- 0,
       monitor_count <- -1,
       MaxBurst      <- Cardinality(Requests) + 1

\* Inside the server, the limiter behaves as MonitoringIncome says.
ImplementsIncome == Income!Spec
=============================================================================
