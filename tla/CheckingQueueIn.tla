-------------------------- MODULE CheckingQueueIn ---------------------------
(***************************************************************************)
(* The queue thread of NIOQueueServer.c, checking_queue_in, and the calls  *)
(* through which the listener thread reaches it.  A stretch of code under  *)
(* queue_mutex, status_read_mutex or suspend_mutex is one step: these      *)
(* variables are read and written nowhere else, and no two of the mutexes  *)
(* are ever held together.                                                 *)
(***************************************************************************)
EXTENDS DiameterQueueInput, Utility

CONSTANT TIME_QUEUE_WAIT  \* milliseconds of idleness before the thread parks

ASSUME WaitAssumption == TIME_QUEUE_WAIT \in Nat

VARIABLES
  worker,           \* where the queue thread is
  data,             \* its local struct: what pop_from_queue returned last
  is_on_reading,    \* 0: the thread is about to park, or has parked
  queue_suspended,  \* 1: a parked thread must go on waiting
  time_start_free,  \* when the queue was first seen empty, -1: not yet
  pushed,           \* history: the structs the queue took in
  served            \* history: the structs answered from the queue

flagVars == <<is_on_reading, queue_suspended>>
checkingVars == <<queue, worker, data, flagVars, time_start_free, pushed, served>>

WorkerPc ==
  {"check", "empty", "elapsed", "mark", "suspend", "waiting", "woken", "pop", "respond"}

CheckingType ==
  /\ QueueType
  /\ worker \in WorkerPc
  /\ data \in Data \cup {NoData}
  /\ is_on_reading \in {0, 1}
  /\ queue_suspended \in {0, 1}
  /\ time_start_free \in {1000 * s : s \in Seconds} \cup {-1}
  /\ pushed \in Seq(Data)
  /\ served \in Seq(Data \cup {NoData})

InitChecking ==
  /\ InitQueue
  /\ worker = "check"
  /\ data = NoData
  /\ is_on_reading = 1
  /\ queue_suspended = 0
  /\ time_start_free = -1
  /\ pushed = <<>>
  /\ served = <<>>

-----------------------------------------------------------------------------
\* Mutant of CheckQueue: it pops without asking.
PopUnchecked ==
  /\ worker = "check"
  /\ worker' = "pop"
  /\ UNCHANGED <<queue, data, flagVars, time_start_free, pushed, served>>

\* Mutant of CheckQueue: off by one, a single entry counts as none.
CheckOffByOne ==
  /\ worker = "check"
  /\ worker' = IF queue.n <= 1 THEN "empty" ELSE "pop"
  /\ UNCHANGED <<queue, data, flagVars, time_start_free, pushed, served>>

\* One critical section asks whether the queue is empty...
CheckQueue ==
  /\ worker = "check"
  /\ worker' = IF IsDempty THEN "empty" ELSE "pop"
  /\ UNCHANGED <<queue, data, flagVars, time_start_free, pushed, served>>

\* ... and another one, later, takes the oldest entry out.
PopData ==
  /\ worker = "pop"
  /\ data' \in Data \cup {NoData}
  /\ PopFromQueue(data')
  /\ worker' = "respond"
  /\ UNCHANGED <<flagVars, time_start_free, pushed, served>>

\* The answer is written to data.efd and both messages are freed.
Respond ==
  /\ worker = "respond"
  /\ served' = Append(served, data)
  /\ worker' = "check"
  /\ UNCHANGED <<queue, data, flagVars, time_start_free, pushed>>

\* The idle period starts the first time the queue is found empty.  Serving a
\* message does not end it.
StartFree ==
  /\ worker = "empty"
  /\ time_start_free' = IF time_start_free < 0 THEN GetCurrTime ELSE time_start_free
  /\ worker' = "elapsed"
  /\ UNCHANGED <<queue, data, flagVars, pushed, served>>

CheckElapsed ==
  /\ worker = "elapsed"
  /\ worker' = IF GetCurrTime - time_start_free > TIME_QUEUE_WAIT
                 THEN "mark" ELSE "check"
  /\ UNCHANGED <<queue, data, flagVars, time_start_free, pushed, served>>

\* The thread announces that it stops reading; the queue is not looked at again.
MarkNotReading ==
  /\ worker = "mark"
  /\ is_on_reading' = 0
  /\ time_start_free' = -1
  /\ worker' = "suspend"
  /\ UNCHANGED <<queue, data, queue_suspended, pushed, served>>

\* suspendQueueThread up to the wait, which releases suspend_mutex.
SuspendQueueThread ==
  /\ worker = "suspend"
  /\ queue_suspended' = 1
  /\ worker' = "waiting"
  /\ UNCHANGED <<queue, data, is_on_reading, time_start_free, pushed, served>>

\* A condition variable may wake a thread that nobody signalled.
SpuriousWakeup ==
  /\ worker = "waiting"
  /\ worker' = "woken"
  /\ UNCHANGED <<queue, data, flagVars, time_start_free, pushed, served>>

\* Mutant of RecheckSuspended: an if around the wait in place of the while.
ReturnOnAnyWakeup ==
  /\ worker = "woken"
  /\ worker' = "check"
  /\ UNCHANGED <<queue, data, flagVars, time_start_free, pushed, served>>

\* Awake and holding suspend_mutex again, the thread waits on or returns.
RecheckSuspended ==
  /\ worker = "woken"
  /\ worker' = IF queue_suspended = 1 THEN "waiting" ELSE "check"
  /\ UNCHANGED <<queue, data, flagVars, time_start_free, pushed, served>>

\* What the queue thread does by itself, its answer apart.
WorkerInternal ==
  \/ CheckQueue \/ PopData
  \/ StartFree \/ CheckElapsed \/ MarkNotReading
  \/ SuspendQueueThread \/ RecheckSuspended

-----------------------------------------------------------------------------
\* The length field of a message that was read is at least the header's.
MESSAGE_HEADER_LEN == 20

\* The listener, under queue_mutex.  check_and_push has no result to look at,
\* so a message refused by a full queue is gone.
PushMessage(d) ==
  /\ CheckAndPush(d, MESSAGE_HEADER_LEN)
  /\ pushed' = IF IsFull THEN pushed ELSE Append(pushed, d)
  /\ UNCHANGED <<worker, data, flagVars, time_start_free, served>>

\* The listener, under status_read_mutex: the one to find the flag down raises
\* it, and must resume the queue thread.
MarkReading(mustResume) ==
  /\ mustResume <=> is_on_reading = 0
  /\ is_on_reading' = 1
  /\ UNCHANGED <<queue, worker, data, queue_suspended, time_start_free, pushed, served>>

\* Mutant of ResumeQueueThread: the flag is cleared and nobody is signalled.
ResumeWithoutSignal ==
  /\ queue_suspended' = 0
  /\ UNCHANGED <<queue, worker, data, is_on_reading, time_start_free, pushed, served>>

\* resumeQueueThread: the signal reaches the thread only if it waits already.
ResumeQueueThread ==
  /\ queue_suspended' = 0
  /\ worker' = IF worker = "waiting" THEN "woken" ELSE worker
  /\ UNCHANGED <<queue, data, is_on_reading, time_start_free, pushed, served>>

-----------------------------------------------------------------------------
\* The struct in the queue thread's hands: taken out, not yet answered.
InHand == IF worker = "respond" THEN <<data>> ELSE <<>>

\* Whether the thread has stopped looking at the queue.
OnSuspendPath == worker \in {"suspend", "waiting", "woken"}
=============================================================================
