----------------------- MODULE MonitoringIncomeProofs -----------------------
(***************************************************************************)
(* For every limit, every length of a behaviour and every burst, no second *)
(* of the clock admits more than MAX_TPS messages, none is refused below   *)
(* the limit, and the published rates belong together.                     *)
(***************************************************************************)
EXTENDS MonitoringIncome, TLAPS

Multiples == {1000 * s : s \in 0 .. MaxTime}

\* The window never opens in the future; it is open only once it was started.
WindowInv ==
  /\ time_start_count <= 1000 * now
  /\ caller # "idle" => time_start_count # 0
  /\ caller = "open" => time_start_count < 1000 * now

\* What the counters say of the window in force, and of one being reopened.
CountInv ==
  /\ accept_msg = IF num_msg_in_sec <= MAX_TPS THEN num_msg_in_sec ELSE MAX_TPS
  /\ caller = "open" => num_msg_in_sec = 1

\* What the history says: the window's second has admitted accept_msg messages,
\* the seconds after it none.
HistoryInv ==
  \A s \in Seconds :
    /\ admitted[s] <= MAX_TPS
    /\ 1000 * s > time_start_count => admitted[s] = 0
    /\ (caller # "open" /\ 1000 * s = time_start_count) => admitted[s] = accept_msg

\* The inductive invariant: AdmissionBound alone is not inductive, it needs to
\* know that the counters describe the second the clock is in.
LimiterInv == TypeOK /\ WindowInv /\ CountInv /\ HistoryInv /\ RatesAgree

\* A reading of the clock is a multiple of 1000 within the behaviour.
LEMMA ReadingType == ClockType => GetCurrTime \in Multiples
  BY TimeAssumption DEF ClockType, Seconds, FirstSecond, GetCurrTime, Multiples

\* The clock moves by whole seconds, so a window less than a second old was
\* opened in this very second, and an older one in an earlier second.
LEMMA WindowIsNow ==
  ASSUME ClockType, time_start_count \in Multiples, time_start_count <= 1000 * now
  PROVE  /\ InWindow => time_start_count = 1000 * now
         /\ ~InWindow => time_start_count < 1000 * now
<1>1. PICK k \in 0 .. MaxTime : time_start_count = 1000 * k
  BY DEF Multiples
<1>2. now \in Nat /\ k \in Nat
  BY TimeAssumption DEF ClockType, Seconds, FirstSecond
<1>3. QED
  BY <1>1, <1>2 DEF InWindow, GetCurrTime

\* The limiter starts with no window and nothing admitted.
LEMMA LimiterInit == Init => LimiterInv
<1> SUFFICES ASSUME Init PROVE LimiterInv
  OBVIOUS
<1> USE DEF Init, InitClock, InitLimiter, Seconds, FirstSecond
<1>1. TypeOK
  <2>1. 0 \in Multiples
    BY TimeAssumption DEF Multiples, FirstSecond
  <2>2. QED
    BY <2>1, TimeAssumption DEF TypeOK, ClockType, LimiterType, Multiples
<1>2. WindowInv /\ CountInv /\ HistoryInv /\ RatesAgree
  BY RateAssumption DEF WindowInv, CountInv, HistoryInv, RatesAgree
<1>3. QED
  BY <1>1, <1>2 DEF LimiterInv

\* Entering incoming_msg opens a window if there never was one.
LEMMA EnterStep == LimiterInv /\ Enter => LimiterInv'
<1> SUFFICES ASSUME LimiterInv, Enter PROVE LimiterInv'
  OBVIOUS
<1> USE DEF LimiterInv, Enter, StartCount, monitorVars
<1>1. GetCurrTime \in Multiples
  BY ReadingType DEF TypeOK
<1>2. TypeOK'
  BY <1>1 DEF TypeOK, ClockType, LimiterType, Multiples
<1>3. GetCurrTime = 1000 * now /\ now \in Nat /\ now >= 2
  BY TimeAssumption DEF TypeOK, ClockType, Seconds, FirstSecond, GetCurrTime
<1>4. WindowInv'
  BY <1>3 DEF WindowInv
<1>5. CountInv'
  BY RateAssumption DEF CountInv
<1>6. HistoryInv'
  <2>1. CASE time_start_count = 0
    BY <2>1, <1>3 DEF HistoryInv, WindowInv, Seconds, FirstSecond
  <2>2. CASE time_start_count # 0
    BY <2>2 DEF HistoryInv, Seconds
  <2>3. QED
    BY <2>1, <2>2
<1>7. QED
  BY <1>2, <1>4, <1>5, <1>6 DEF RatesAgree

\* Counting inside the window: the window's second is the clock's, and it admits
\* one more only below the limit.
LEMMA CountStep ==
  ASSUME LimiterInv, NEW ret \in BOOLEAN, Count(ret)
  PROVE  /\ LimiterInv'
         /\ ~ret => admitted[now] = MAX_TPS
<1> USE DEF LimiterInv, Count, CountInWindow, monitorVars
<1>1. time_start_count \in Multiples /\ ClockType
  BY DEF TypeOK, LimiterType, Multiples
<1>2. time_start_count = 1000 * now
  BY <1>1, WindowIsNow DEF WindowInv
<1>3. now \in Seconds /\ now \in Nat
  BY <1>1, TimeAssumption DEF ClockType, Seconds, FirstSecond
<1>4. admitted[now] = accept_msg
  BY <1>2, <1>3 DEF HistoryInv
<1>5. /\ ~ret => accept_msg = MAX_TPS
      /\ ret => accept_msg = num_msg_in_sec /\ accept_msg < MAX_TPS
  BY RateAssumption DEF CountInv, TypeOK, LimiterType
<1>6. admitted' = [admitted EXCEPT ![now] = accept_msg']
  <2>1. accept_msg \in Nat
    BY DEF TypeOK, LimiterType
  <2>2. CASE ret
    BY <2>1, <2>2, <1>3, <1>4 DEF Result, TypeOK, LimiterType
  <2>3. CASE ~ret
    BY <2>1, <2>3, <1>3, <1>4 DEF Result, TypeOK, LimiterType
  <2>4. QED
    BY <2>2, <2>3
<1>7. accept_msg' \in Nat /\ accept_msg' <= MAX_TPS
  BY <1>5, RateAssumption DEF TypeOK, LimiterType
<1>8. TypeOK'
  BY <1>3, <1>6, <1>7 DEF TypeOK, ClockType, LimiterType, Seconds
<1>9. WindowInv' /\ RatesAgree'
  BY DEF WindowInv, RatesAgree
<1>10. CountInv'
  BY <1>5, RateAssumption DEF CountInv, TypeOK, LimiterType
<1>11. HistoryInv'
  <2> SUFFICES ASSUME NEW s \in Seconds
               PROVE  /\ admitted'[s] <= MAX_TPS
                      /\ 1000 * s > time_start_count' => admitted'[s] = 0
                      /\ 1000 * s = time_start_count' => admitted'[s] = accept_msg'
    BY DEF HistoryInv, Seconds
  <2>1. CASE s = now
    BY <2>1, <1>2, <1>3, <1>6, <1>7 DEF TypeOK, LimiterType
  <2>2. CASE s # now
    <3>1. admitted'[s] = admitted[s]
      BY <2>2, <1>6 DEF TypeOK, LimiterType
    <3>2. s \in Nat /\ 1000 * s # 1000 * now
      BY <2>2, <1>3, TimeAssumption DEF Seconds, FirstSecond
    <3>3. QED
      BY <3>1, <3>2, <1>2 DEF HistoryInv
  <2>3. QED
    BY <2>1, <2>2
<1>12. QED
  BY <1>4, <1>5, <1>8, <1>9, <1>10, <1>11

\* Closing an old window publishes both of its rates.
LEMMA CloseStep == LimiterInv /\ Close => LimiterInv'
<1> SUFFICES ASSUME LimiterInv, Close PROVE LimiterInv'
  OBVIOUS
<1> USE DEF LimiterInv, Close, CloseWindow, monitorVars
<1>1. time_start_count < 1000 * now
  BY WindowIsNow DEF TypeOK, LimiterType, Multiples, WindowInv
<1>2. TypeOK'
  BY DEF TypeOK, ClockType, LimiterType
<1>3. WindowInv'
  BY <1>1 DEF WindowInv
<1>4. CountInv' /\ RatesAgree'
  BY RateAssumption DEF CountInv, RatesAgree
<1>5. HistoryInv'
  BY DEF HistoryInv, Seconds
<1>6. QED
  BY <1>2, <1>3, <1>4, <1>5

\* The next window opens in a second that has admitted nothing yet.
LEMMA OpenStep ==
  ASSUME LimiterInv, NEW ret \in BOOLEAN, Open(ret)
  PROVE  LimiterInv' /\ ret
<1> USE DEF LimiterInv, Open, OpenWindow, monitorVars
<1>1. now \in Seconds /\ now \in Nat /\ GetCurrTime = 1000 * now
  BY TimeAssumption DEF TypeOK, ClockType, Seconds, FirstSecond, GetCurrTime
<1>2. ret /\ num_msg_in_sec = 1 /\ accept_msg = 1
  BY RateAssumption DEF CountInv
<1>3. time_start_count < 1000 * now /\ admitted[now] = 0
  BY <1>1 DEF WindowInv, HistoryInv
<1>4. admitted' = [admitted EXCEPT ![now] = 1]
  BY <1>1, <1>2, <1>3 DEF Result, TypeOK, LimiterType
<1>5. TypeOK'
  <2>1. GetCurrTime \in Multiples
    BY ReadingType DEF TypeOK
  <2>2. QED
    BY <2>1, <1>4 DEF TypeOK, ClockType, LimiterType, Multiples, Seconds
<1>6. WindowInv' /\ CountInv' /\ RatesAgree'
  BY <1>1, <1>2 DEF WindowInv, CountInv, RatesAgree, FirstSecond, Seconds
<1>7. HistoryInv'
  <2> SUFFICES ASSUME NEW s \in Seconds
               PROVE  /\ admitted'[s] <= MAX_TPS
                      /\ 1000 * s > 1000 * now => admitted'[s] = 0
                      /\ 1000 * s = 1000 * now => admitted'[s] = 1
    BY <1>1, <1>2 DEF HistoryInv, Seconds
  <2>1. CASE s = now
    BY <2>1, <1>1, <1>4, RateAssumption DEF TypeOK, LimiterType
  <2>2. CASE s # now
    <3>1. admitted'[s] = admitted[s]
      BY <2>2, <1>4 DEF TypeOK, LimiterType
    <3>2. s \in Nat /\ 1000 * s # 1000 * now
      BY <2>2, <1>1, TimeAssumption DEF Seconds, FirstSecond
    <3>3. time_start_count \in Int
      BY DEF TypeOK, LimiterType
    <3>4. QED
      BY <3>1, <3>2, <3>3, <1>1, <1>3 DEF HistoryInv
  <2>3. QED
    BY <2>1, <2>2
<1>8. QED
  BY <1>2, <1>5, <1>6, <1>7

\* The monitor thread and the clock touch neither the window nor its counters.
LEMMA MonitorStep ==
  ASSUME LimiterInv, ReadClock \/ ReadCount \/ Decide \/ Reset \/ Second
  PROVE  LimiterInv'
<1> USE DEF LimiterInv, callerVars, limiterVars, monitorVars
<1>1. CASE ReadClock
  BY <1>1, ReadingType
     DEF ReadClock, TypeOK, ClockType, LimiterType, Multiples,
         WindowInv, CountInv, HistoryInv, RatesAgree, Seconds
<1>2. CASE ReadCount
  BY <1>2 DEF ReadCount, TypeOK, ClockType, LimiterType,
              WindowInv, CountInv, HistoryInv, RatesAgree, Seconds
<1>3. CASE Decide
  <2>1. 0 \in Multiples
    BY TimeAssumption DEF Multiples, FirstSecond
  <2>2. QED
    BY <1>3, <2>1 DEF Decide, TypeOK, ClockType, LimiterType, Multiples,
                      WindowInv, CountInv, HistoryInv, RatesAgree, Seconds
<1>4. CASE Reset
  BY <1>4, RateAssumption
     DEF Reset, TypeOK, ClockType, LimiterType,
         WindowInv, CountInv, HistoryInv, RatesAgree, Seconds
<1>5. CASE Second
  <2>1. now \in Nat /\ now' = now + 1 /\ now' \in Seconds
    BY <1>5, TimeAssumption DEF Second, Tick, TypeOK, ClockType, Seconds, FirstSecond
  <2>2. TypeOK'
    BY <1>5, <2>1 DEF Second, TypeOK, ClockType, LimiterType, Seconds
  <2>3. WindowInv'
    <3>1. time_start_count \in Int
      BY DEF TypeOK, LimiterType
    <3>2. QED
      BY <1>5, <2>1, <3>1 DEF Second, WindowInv
  <2>4. CountInv' /\ HistoryInv' /\ RatesAgree'
    BY <1>5 DEF Second, CountInv, HistoryInv, RatesAgree, Seconds
  <2>5. QED
    BY <2>2, <2>3, <2>4
<1>6. QED
  BY <1>1, <1>2, <1>3, <1>4, <1>5

\* Every step keeps the invariant.
LEMMA LimiterStep == LimiterInv /\ [Next]_vars => LimiterInv'
<1> SUFFICES ASSUME LimiterInv, [Next]_vars PROVE LimiterInv'
  OBVIOUS
<1>1. CASE UNCHANGED vars
  BY <1>1 DEF vars, callerVars, limiterVars, monitorVars, LimiterInv, TypeOK, ClockType,
              LimiterType, WindowInv, CountInv, HistoryInv, RatesAgree, Seconds
<1>2. CASE Next
  BY <1>2, EnterStep, CountStep, CloseStep, OpenStep, MonitorStep DEF Next
<1>3. QED
  BY <1>1, <1>2

\* Every reachable state of limiter and monitor has the types of TypeOK.
THEOREM LimiterTypeCorrect == Spec => []TypeOK
<1>1. LimiterInv => TypeOK
  BY DEF LimiterInv
<1>2. QED
  BY <1>1, LimiterInit, LimiterStep, PTL DEF Spec

\* incoming_msg admits at most MAX_TPS messages in any one second of the clock.
THEOREM AdmissionBounded == Spec => []AdmissionBound
<1>1. LimiterInv => AdmissionBound
  BY DEF LimiterInv, HistoryInv, AdmissionBound
<1>2. QED
  BY <1>1, LimiterInit, LimiterStep, PTL DEF Spec

\* TPS and acceptTPS are always the two rates of one window.
THEOREM RatesAlwaysAgree == Spec => []RatesAgree
<1>1. LimiterInv => RatesAgree
  BY DEF LimiterInv
<1>2. QED
  BY <1>1, LimiterInit, LimiterStep, PTL DEF Spec

\* incoming_msg refuses a message only in a second that has admitted MAX_TPS.
THEOREM RefusalsJustified == Spec => RefusedOnlyAtLimit
<1>1. LimiterInv /\ [Next]_vars =>
        [(Count(FALSE) \/ Open(FALSE)) => admitted[now] = MAX_TPS]_vars
  BY CountStep, OpenStep
<1>2. QED
  BY <1>1, LimiterInit, LimiterStep, PTL DEF Spec, RefusedOnlyAtLimit
=============================================================================
