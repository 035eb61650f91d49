--------------------------- MODULE QueueHandshake ---------------------------
(***************************************************************************)
(* The queue thread with everything it depends on: the clock, and a        *)
(* listener thread reduced to what it does once a message is admitted      *)
(* (NIOQueueServer.c:314-326).                                             *)
(***************************************************************************)
EXTENDS CheckingQueueIn

CONSTANT MaxPushed  \* bound: messages the queue takes in

VARIABLES
  listener,   \* "idle", or which of the three critical sections comes next
  request     \* the admitted message the listener has yet to push

listenerVars == <<listener, request>>
vars == <<now, checkingVars, listenerVars>>

Init ==
  /\ InitClock
  /\ InitChecking
  /\ listener = "idle"
  /\ request = NoData

\* incoming_msg admitted a message.
Arrive(d) ==
  /\ listener = "idle" /\ Len(pushed) < MaxPushed
  /\ listener' = "push"
  /\ request' = d
  /\ UNCHANGED <<now, checkingVars>>

Push ==
  /\ listener = "push"
  /\ PushMessage(request)
  /\ listener' = "status"
  /\ request' = NoData
  /\ UNCHANGED now

Status(mustResume) ==
  /\ listener = "status"
  /\ MarkReading(mustResume)
  /\ listener' = IF mustResume THEN "resume" ELSE "idle"
  /\ UNCHANGED <<now, request>>

Resume ==
  /\ listener = "resume"
  /\ ResumeQueueThread
  /\ listener' = "idle"
  /\ UNCHANGED <<now, request>>

ListenerStep == Push \/ (\E mustResume \in BOOLEAN : Status(mustResume)) \/ Resume
WorkerStep   == (WorkerInternal \/ Respond) /\ UNCHANGED <<now, listenerVars>>
Spurious     == SpuriousWakeup /\ UNCHANGED <<now, listenerVars>>
Second       == Tick /\ UNCHANGED <<checkingVars, listenerVars>>

Next ==
  \/ \E d \in Data : Arrive(d)
  \/ ListenerStep
  \/ WorkerStep
  \/ Spurious
  \/ Second

Spec == Init /\ [][Next]_vars

\* Both threads are runnable whenever they have a step, and no mutex is held for
\* ever, so the scheduler takes them on; time passes.  Nothing makes messages
\* arrive, nor the condition variable wake up by itself.
Fairness == WF_vars(ListenerStep) /\ WF_vars(WorkerStep) /\ WF_vars(Second)

FairSpec == Spec /\ Fairness

-----------------------------------------------------------------------------
\* Types of the queue thread's state and of the listener's.
TypeOK ==
  /\ ClockType
  /\ CheckingType
  /\ listener \in {"idle", "push", "status", "resume"}
  /\ request \in Data \cup {NoData}
  /\ listener = "push" => request \in Data

\* The queue that was found non-empty under one lock is still non-empty when it
\* is popped under the next: pop_from_queue never returns its uninitialised
\* struct (NIOQueueServer.c:354, 371).
PopFindsData == worker = "pop" => ~IsDempty

\* Each message the queue took in is answered once, in the order it was pushed:
\* the answered ones, the one in hand and the queued ones make up the pushed ones.
ServedInOrder == pushed = served \o InHand \o Contents

\* The flags describe the two threads.  A thread that sleeps has queue_suspended
\* up, or the wait would let it go.  While is_on_reading is 0 the queue thread has
\* stopped looking at the queue and nobody is calling it back yet, so the next
\* message does; and a resume under way is for a thread that has stopped, never for
\* one that reads.
FlagsTellTheTruth ==
  /\ worker = "waiting" => queue_suspended = 1
  /\ is_on_reading = 0 => OnSuspendPath /\ listener # "resume"
  /\ listener = "resume" => OnSuspendPath

\* A thread that sleeps, or was woken only to sleep on ...
Asleep == worker = "waiting" \/ (worker = "woken" /\ queue_suspended = 1)

\* ... and whom no message will call any more: the flag says to all that come that
\* it reads, and nobody is on the way to resume it.
Stranded == Asleep /\ is_on_reading = 1 /\ listener # "resume"

\* There is one way only to strand the thread: a message was told to resume it after
\* is_on_reading = 0, and the thread sets queue_suspended, and begins to wait, when
\* that resume is over.  Nothing that befalls a thread already asleep strands it:
\* neither a message, nor a resume, nor a wakeup nobody asked for.
OnlyEarlyResumeStrands ==
  [][Stranded' => Stranded \/ (worker = "suspend" /\ is_on_reading = 1)]_vars

\* A message that finds the thread parked and announced so gets it back to the
\* queue, which it then empties.
ParkedThreadServes ==
  (worker = "waiting" /\ is_on_reading = 0 /\ listener = "status") ~> IsDempty

\* A thread that is looking at a queue with messages in it empties the queue
\* before it can park.
BusyThreadDrains ==
  (worker \in {"check", "pop", "respond"} /\ ~IsDempty) ~> IsDempty

\* NIOQueueServer.c:352, "search in queue if have any data": a message whose
\* listener finds the thread still reading should be found by it.
ReadingThreadServes ==
  (listener = "status" /\ is_on_reading = 1 /\ ~IsDempty) ~> IsDempty

\* The same comment, of a message whose listener does call resumeQueueThread.
ResumedThreadServes == (listener = "resume" /\ ~IsDempty) ~> IsDempty
=============================================================================
