-------------------------- MODULE MonitoringIncome --------------------------
(***************************************************************************)
(* The limiter between its two users: the listener thread, which calls     *)
(* incoming_msg under monitor_mutex, and the monitor thread of             *)
(* NIOQueueServer.c, which reads time_start_count without the mutex and    *)
(* then takes it to clear the published rates.                             *)
(***************************************************************************)
EXTENDS ServerThreadhold

CONSTANT MaxBurst  \* bound: messages that arrive in one window

VARIABLES
  caller,       \* where the listener is in incoming_msg
  monitor,      \* where the monitor thread is
  monitor_now,  \* the monitor's reading of the clock, 0: not read yet
  monitor_count \* its unlocked reading of time_start_count, -1: not read yet

callerVars  == <<caller, limiterVars>>
monitorVars == <<monitor, monitor_now, monitor_count>>
vars == <<now, callerVars, monitorVars>>

Init ==
  /\ InitClock
  /\ InitLimiter
  /\ caller = "idle"
  /\ monitor = "check"
  /\ monitor_now = 0
  /\ monitor_count = -1

-----------------------------------------------------------------------------
\* The listener locks monitor_mutex: it has a message that needs admission.
\* MaxBurst bounds what arrives while one window is open.
Enter ==
  /\ caller = "idle"
  /\ InWindow => num_msg_in_sec < MaxBurst
  /\ StartCount
  /\ caller' = "count"
  /\ UNCHANGED <<now, monitorVars>>

\* Inside the window the call returns and the mutex is released.
Count(ret) ==
  /\ caller = "count"
  /\ CountInWindow(ret)
  /\ caller' = "idle"
  /\ UNCHANGED <<now, monitorVars>>

Close ==
  /\ caller = "count"
  /\ CloseWindow
  /\ caller' = "open"
  /\ UNCHANGED <<now, monitorVars>>

Open(ret) ==
  /\ caller = "open"
  /\ OpenWindow(ret)
  /\ caller' = "idle"
  /\ UNCHANGED <<now, monitorVars>>

-----------------------------------------------------------------------------
\* The two operands of the monitor's test, read in either order.
ReadClock ==
  /\ monitor = "check" /\ monitor_now = 0
  /\ monitor_now' = GetCurrTime
  /\ UNCHANGED <<now, callerVars, monitor, monitor_count>>

ReadCount ==
  /\ monitor = "check" /\ monitor_count = -1
  /\ monitor_count' = time_start_count
  /\ UNCHANGED <<now, callerVars, monitor, monitor_now>>

Stale == monitor_now - monitor_count > 1000

\* The test itself; a stale window is cleared once the mutex is free.
Decide ==
  /\ monitor = "check" /\ monitor_now # 0 /\ monitor_count # -1
  /\ monitor' = IF Stale THEN "lock" ELSE "check"
  /\ monitor_now' = 0
  /\ monitor_count' = -1
  /\ UNCHANGED <<now, callerVars>>

\* Both rates are cleared under the mutex; the sleep that follows takes
\* any amount of time here.
Reset ==
  /\ monitor = "lock"
  /\ caller = "idle"
  /\ acceptTPS' = 0
  /\ TPS' = 0
  /\ monitor' = "check"
  /\ UNCHANGED <<now, caller, num_msg_in_sec, time_start_count, accept_msg,
                 admitted, monitor_now, monitor_count>>

Second == Tick /\ UNCHANGED <<callerVars, monitorVars>>

Next ==
  \/ Enter
  \/ \E ret \in BOOLEAN : Count(ret) \/ Open(ret)
  \/ Close
  \/ ReadClock \/ ReadCount \/ Decide \/ Reset
  \/ Second

Spec == Init /\ [][Next]_vars

-----------------------------------------------------------------------------
\* Types of the limiter, of its two users and of the history.
TypeOK ==
  /\ ClockType
  /\ LimiterType
  /\ caller \in {"idle", "count", "open"}
  /\ monitor \in {"check", "lock"}
  /\ monitor_now \in {1000 * s : s \in 0 .. MaxTime}
  /\ monitor_count \in {1000 * s : s \in 0 .. MaxTime} \cup {-1}

\* No second of the clock admits more than MAX_TPS messages, wherever a second
\* passes between the clock readings of incoming_msg.
AdmissionBound == \A s \in Seconds : admitted[s] <= MAX_TPS

\* incoming_msg never refuses a message in a second that has not yet admitted
\* MAX_TPS of them.
RefusedOnlyAtLimit ==
  [][(Count(FALSE) \/ Open(FALSE)) => admitted[now] = MAX_TPS]_vars

\* The two published rates always belong to the same closed window, although
\* the monitor clears them from another thread.
RatesAgree ==
  acceptTPS = IF TPS <= MAX_TPS THEN TPS ELSE MAX_TPS

\* server_threadhold.h:12 calls TPS "message per sec": a rate that was counted
\* should be cleared only when more than a second has passed since the window in
\* force opened.
ClearedOnlyWhenStale ==
  [][(Reset /\ TPS > 0) => GetCurrTime - time_start_count > 1000]_vars
=============================================================================
