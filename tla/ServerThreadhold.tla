-------------------------- MODULE ServerThreadhold --------------------------
(***************************************************************************)
(* The rate limiter of Server/server_threadhold.c.  incoming_msg reads the *)
(* clock up to three times; each operator below is the stretch of the      *)
(* function around one of those reads, so that a second can pass between   *)
(* two of them.  The caller holds monitor_mutex from the first to the last.*)
(***************************************************************************)
EXTENDS Utility

CONSTANT MAX_TPS   \* messages admitted in one window

ASSUME RateAssumption == MAX_TPS \in Nat \ {0}

VARIABLES
  num_msg_in_sec,    \* messages seen in the current window
  time_start_count,  \* get_curr_time() when the window was opened, 0: never
  accept_msg,        \* messages admitted in the current window
  TPS,               \* num_msg_in_sec of the last closed window
  acceptTPS,         \* accept_msg of the last closed window
  admitted           \* history: how many messages each second admitted

limiterVars == <<num_msg_in_sec, time_start_count, accept_msg, TPS, acceptTPS, admitted>>

LimiterType ==
  /\ num_msg_in_sec \in Nat
  /\ time_start_count \in {1000 * s : s \in 0 .. MaxTime}
  /\ accept_msg \in Nat
  /\ TPS \in Nat
  /\ acceptTPS \in Nat
  /\ admitted \in [Seconds -> Nat]

InitLimiter ==
  /\ num_msg_in_sec = 0
  /\ time_start_count = 0
  /\ accept_msg = 0
  /\ TPS = 0
  /\ acceptTPS = 0
  /\ admitted = [s \in Seconds |-> 0]

\* The first message ever opens the first window.
StartCount ==
  /\ IF time_start_count = 0
       THEN /\ time_start_count' = GetCurrTime
            /\ num_msg_in_sec' = 0
            /\ accept_msg' = 0
       ELSE UNCHANGED <<time_start_count, num_msg_in_sec, accept_msg>>
  /\ UNCHANGED <<TPS, acceptTPS, admitted>>

InWindow == GetCurrTime - time_start_count < 1000

Result(ret) == admitted' = [admitted EXCEPT ![now] = @ + (IF ret THEN 1 ELSE 0)]

\* Mutant of CountInWindow: the limit is compared after the message is counted in.
CountOneTooMany(ret) ==
  /\ InWindow
  /\ num_msg_in_sec' = num_msg_in_sec + 1
  /\ ret <=> num_msg_in_sec <= MAX_TPS
  /\ accept_msg' = IF ret THEN accept_msg + 1 ELSE accept_msg
  /\ Result(ret)
  /\ UNCHANGED <<time_start_count, TPS, acceptTPS>>

\* A message inside the window is counted, and admitted up to MAX_TPS.
CountInWindow(ret) ==
  /\ InWindow
  /\ num_msg_in_sec' = num_msg_in_sec + 1
  /\ ret <=> num_msg_in_sec < MAX_TPS
  /\ accept_msg' = IF ret THEN accept_msg + 1 ELSE accept_msg
  /\ Result(ret)
  /\ UNCHANGED <<time_start_count, TPS, acceptTPS>>

\* Mutant of CloseWindow: the counters restart before the rates are published.
PublishAfterRestart ==
  /\ ~InWindow
  /\ num_msg_in_sec' = 1
  /\ accept_msg' = 1
  /\ TPS' = num_msg_in_sec'
  /\ acceptTPS' = accept_msg
  /\ UNCHANGED <<time_start_count, admitted>>

\* Mutant of CloseWindow: the message is added to the count of the old window.
CloseWithoutRestart ==
  /\ ~InWindow
  /\ TPS' = num_msg_in_sec
  /\ acceptTPS' = accept_msg
  /\ num_msg_in_sec' = num_msg_in_sec + 1
  /\ accept_msg' = 1
  /\ UNCHANGED <<time_start_count, admitted>>

\* A message past the window: publish the rates and count it as the first of
\* the next window.
CloseWindow ==
  /\ ~InWindow
  /\ TPS' = num_msg_in_sec
  /\ acceptTPS' = accept_msg
  /\ num_msg_in_sec' = 1
  /\ accept_msg' = 1
  /\ UNCHANGED <<time_start_count, admitted>>

\* Mutant of OpenWindow: the start is kept in seconds.
OpenWindowInSeconds(ret) ==
  /\ time_start_count' = now
  /\ ret <=> num_msg_in_sec <= MAX_TPS
  /\ Result(ret)
  /\ UNCHANGED <<num_msg_in_sec, accept_msg, TPS, acceptTPS>>

\* The next window starts at a later reading of the clock than the one that
\* closed the last.
OpenWindow(ret) ==
  /\ time_start_count' = GetCurrTime
  /\ ret <=> num_msg_in_sec <= MAX_TPS
  /\ Result(ret)
  /\ UNCHANGED <<num_msg_in_sec, accept_msg, TPS, acceptTPS>>
=============================================================================
