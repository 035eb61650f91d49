------------------------------ MODULE Utility -------------------------------
(***************************************************************************)
(* Server/utility.c: the wall clock every thread of the server reads.      *)
(***************************************************************************)
EXTENDS Integers

\* Where behaviours start: a clock reading this far from the epoch, second 0, is
\* more than a second away from a time_start_count that was never set.
FirstSecond == 2

CONSTANT MaxTime   \* bound: the last second a behaviour reaches

ASSUME TimeAssumption == MaxTime \in Nat /\ MaxTime >= FirstSecond

VARIABLE now       \* tv_sec, as gettimeofday would report it

Seconds == FirstSecond .. MaxTime

ClockType == now \in Seconds

InitClock == now = FirstSecond

\* A second passes.  The clock is assumed never to be set back.
Tick == now < MaxTime /\ now' = now + 1

\* get_curr_time drops tv_usec: milliseconds that only move by whole seconds.
GetCurrTime == 1000 * now
=============================================================================
