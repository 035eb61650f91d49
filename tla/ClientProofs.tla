---------------------------- MODULE ClientProofs ----------------------------
(***************************************************************************)
(* The client's invariants, for every number of requests, watchdogs and    *)
(* strays.  All that matters of the three sequences between client and     *)
(* server is how often they hold each message.                             *)
(***************************************************************************)
EXTENDS Client, SequenceTheorems, FiniteSetTheorems, TLAPS

-----------------------------------------------------------------------------
(* Counting the elements of a sequence *)

\* Where a sequence holds a message, and how often.
Places(s, m) == {i \in DOMAIN s : s[i] = m}
Occurrences(s, m) == Cardinality(Places(s, m))

\* A sequence holds a message some natural number of times, and not at all only if
\* it is nowhere in it.
LEMMA OccurrencesType ==
  ASSUME NEW S, NEW s \in Seq(S), NEW m
  PROVE  /\ IsFiniteSet(Places(s, m))
         /\ Occurrences(s, m) \in Nat
         /\ Occurrences(s, m) = 0 <=> \A i \in DOMAIN s : s[i] # m
<1>1. DOMAIN s = 1 .. Len(s) /\ Len(s) \in Nat
  BY LenProperties
<1>2. IsFiniteSet(1 .. Len(s))
  BY <1>1, FS_Interval
<1>3. Places(s, m) \in SUBSET (1 .. Len(s))
  BY <1>1 DEF Places
<1>4. IsFiniteSet(Places(s, m))
  BY <1>2, <1>3, FS_Subset
<1>5. Occurrences(s, m) \in Nat
  BY <1>4, FS_CardinalityType DEF Occurrences
<1>6. Occurrences(s, m) = 0 <=> Places(s, m) = {}
  BY <1>4, FS_EmptySet DEF Occurrences
<1>7. QED
  BY <1>4, <1>5, <1>6 DEF Places

\* The empty sequence holds nothing.
LEMMA NoOccurrence ==
  ASSUME NEW m
  PROVE  Occurrences(<<>>, m) = 0
<1>1. Places(<<>>, m) = {}
  BY DEF Places
<1>2. QED
  BY <1>1, FS_EmptySet DEF Occurrences

\* What Append adds.
LEMMA AppendAdds ==
  ASSUME NEW S, NEW s \in Seq(S), NEW e \in S, NEW m
  PROVE  Occurrences(Append(s, e), m) = Occurrences(s, m) + (IF e = m THEN 1 ELSE 0)
<1> DEFINE t == Append(s, e)
           n == Len(s) + 1
<1>1. /\ DOMAIN s = 1 .. Len(s) /\ Len(s) \in Nat
      /\ DOMAIN t = 1 .. n
      /\ \A i \in 1 .. Len(s) : t[i] = s[i]
      /\ t[n] = e
  BY LenProperties, AppendProperties
<1>2. IsFiniteSet(Places(s, m)) /\ Occurrences(s, m) \in Nat
  BY OccurrencesType
<1>3. n \notin Places(s, m)
  BY <1>1 DEF Places
<1> HIDE DEF t
<1>4. CASE e = m
  <2>1. Places(t, m) = Places(s, m) \cup {n}
    BY <1>1, <1>4 DEF Places
  <2>2. Cardinality(Places(s, m) \cup {n}) = Cardinality(Places(s, m)) + 1
    BY <1>2, <1>3, FS_AddElement
  <2>3. QED
    BY <1>4, <2>1, <2>2 DEF Occurrences, t
<1>5. CASE e # m
  <2>1. Places(t, m) = Places(s, m)
    BY <1>1, <1>5 DEF Places
  <2>2. QED
    BY <1>2, <1>5, <2>1 DEF Occurrences, t
<1>6. QED
  BY <1>4, <1>5

\* What Tail takes away.
LEMMA TailTakes ==
  ASSUME NEW S, NEW s \in Seq(S), s # <<>>, NEW m
  PROVE  Occurrences(s, m) = Occurrences(Tail(s), m) + (IF Head(s) = m THEN 1 ELSE 0)
<1> DEFINE t == Tail(s)
           Behind == Places(s, m) \ {1}
           Shift == [i \in Places(t, m) |-> i + 1]
<1>1. /\ t \in Seq(S)
      /\ DOMAIN s = 1 .. Len(s) /\ Len(s) \in Nat \ {0}
      /\ DOMAIN t = 1 .. Len(s) - 1
      /\ \A i \in 1 .. Len(s) - 1 : t[i] = s[i + 1]
      /\ Head(s) = s[1]
  BY LenProperties, HeadTailProperties, EmptySeq
<1>2. IsFiniteSet(Places(t, m)) /\ Occurrences(t, m) \in Nat /\ IsFiniteSet(Places(s, m))
  BY <1>1, OccurrencesType
<1> HIDE DEF t
<1>3. \A i \in Places(t, m) : i + 1 \in Behind /\ i \in Nat
  BY <1>1 DEF Places
<1>4. \A j \in Behind : j - 1 \in Places(t, m) /\ j \in Nat
  BY <1>1 DEF Places
<1>5. Shift \in Bijection(Places(t, m), Behind)
  <2> HIDE DEF Behind
  <2>1. Shift \in [Places(t, m) -> Behind]
    BY <1>3
  <2>2. ASSUME NEW a \in Places(t, m), NEW b \in Places(t, m), Shift[a] = Shift[b]
        PROVE  a = b
    BY <1>3, <2>2
  <2>3. ASSUME NEW j \in Behind
        PROVE  \E i \in Places(t, m) : Shift[i] = j
    <3>1. j - 1 \in Places(t, m) /\ Shift[j - 1] = (j - 1) + 1 /\ j \in Nat
      BY <1>4
    <3>2. QED
      BY <3>1
  <2> HIDE DEF Shift
  <2>4. QED
    BY <2>1, <2>2, <2>3 DEF Bijection, Injection, Surjection, IsInjective
<1>6. Cardinality(Behind) = Cardinality(Places(t, m))
  <2>1. ExistsBijection(Places(t, m), Behind)
    BY <1>5 DEF ExistsBijection
  <2>2. QED
    BY <1>2, <2>1, FS_Bijection
<1>7. Cardinality(Behind) = IF 1 \in Places(s, m) THEN Cardinality(Places(s, m)) - 1
                                                  ELSE Cardinality(Places(s, m))
  BY <1>2, FS_RemoveElement
<1>8. 1 \in Places(s, m) <=> Head(s) = m
  BY <1>1 DEF Places
<1>9. Cardinality(Places(s, m)) \in Nat /\ Cardinality(Places(t, m)) \in Nat
  BY <1>2, FS_CardinalityType
<1> HIDE DEF Behind
<1>10. QED
  BY <1>6, <1>7, <1>8, <1>9 DEF Occurrences, t
-----------------------------------------------------------------------------
(* The inductive invariant *)

\* How often each message is between the client and itself.
InTransit ==
  [m \in Messages |->
     Occurrences(toServer, m) + Occurrences(queued, m) + Occurrences(toClient, m)]

BoolToNat(b) == IF b THEN 1 ELSE 0

\* There is one capabilities exchange, none once it was answered, and the exchange
\* thread sends nothing without that answer.
Phases ==
  /\ main = "hello" => InTransit[CapabilitiesExchange] = 0
  /\ main = "wait" => InTransit[CapabilitiesExchange] <= 1
  /\ is_accept_from_srv => main = "run" /\ InTransit[CapabilitiesExchange] = 0
  /\ ~is_accept_from_srv => exchange = "idle" /\ requests = 0 /\ unmatched = 0
  /\ Misled => strays > 0
  /\ main # "run" => watchdogs = 0

\* A credit-control message is in one place at most, and in none before it is sent.
EachOnce ==
  /\ \A k \in 1 .. MaxRequests : InTransit[Credit(k)] <= BoolToNat(k <= requests)
  /\ \A k \in 1 .. MaxStrays : InTransit[Stray(k)] <= BoolToNat(k <= strays)

\* Each unmatched round has used up two watchdog answers.
Used ==
  /\ 2 * unmatched + BoolToNat(exchange = "reread") + InTransit[Watchdog] <= watchdogs
  /\ unmatched + BoolToNat(Reading) <= requests

\* What is on its way after some unmatched rounds, and after none.
Debt ==
  /\ open => Cardinality(Coming) + dropped + BoolToNat(Misled)
                = strays + unmatched + BoolToNat(Reading)
  /\ (strays = 0 /\ unmatched = 0) =>
       Coming \subseteq (IF Reading THEN {Credit(requests)} ELSE {})

IInv == TypeOK /\ Phases /\ EachOnce /\ Used /\ Debt /\ OwnAnswer

-----------------------------------------------------------------------------
(* Messages in transit *)

\* The messages are distinct, and told apart by their commands and numbers.
LEMMA MessageFacts ==
  /\ CapabilitiesExchange \in Messages /\ Watchdog \in Messages
  /\ CreditAnswers \subseteq Messages
  /\ \A k \in 1 .. MaxRequests : Credit(k) \in CreditAnswers
  /\ \A k \in 1 .. MaxStrays : Stray(k) \in CreditAnswers
  /\ \A m \in CreditAnswers : \/ \E k \in 1 .. MaxRequests : m = Credit(k)
                             \/ \E k \in 1 .. MaxStrays : m = Stray(k)
  /\ \A k, l \in 1 .. MaxRequests : Credit(k) = Credit(l) => k = l
  /\ \A k, l \in 1 .. MaxStrays : Stray(k) = Stray(l) => k = l
  /\ \A k \in 1 .. MaxRequests, l \in 1 .. MaxStrays : Credit(k) # Stray(l)
  /\ CapabilitiesExchange # Watchdog
  /\ CapabilitiesExchange \notin CreditAnswers /\ Watchdog \notin CreditAnswers
  /\ \A m \in Messages : (m.cmd = "DW" <=> m = Watchdog) /\ (m.cmd = "CC" <=> m \in CreditAnswers)
  /\ \A m \in Messages : m \in CreditAnswers \cup {CapabilitiesExchange, Watchdog}
  /\ NoRev \notin Messages
<1>1. ASSUME NEW m \in CreditAnswers
      PROVE  /\ m.cmd = "CC"
             /\ \/ \E k \in 1 .. MaxRequests : m = Credit(k)
                \/ \E k \in 1 .. MaxStrays : m = Stray(k)
  BY DEF CreditAnswers, Credits, Credit, Strays, Stray
<1>2. CapabilitiesExchange.cmd = "CE" /\ Watchdog.cmd = "DW" /\ NoRev.cmd = "none"
  BY DEF CapabilitiesExchange, Watchdog, NoRev
<1>3. ASSUME NEW k \in 1 .. MaxRequests, NEW l \in 1 .. MaxRequests, Credit(k) = Credit(l)
      PROVE  k = l
  BY <1>3 DEF Credit
<1>4. ASSUME NEW k \in 1 .. MaxStrays, NEW l \in 1 .. MaxStrays, Stray(k) = Stray(l)
      PROVE  k = l
  <2>1. -k = -l
    BY <1>4 DEF Stray
  <2>2. QED
    BY <2>1, ClientAssumption
<1>5. ASSUME NEW k \in 1 .. MaxRequests, NEW l \in 1 .. MaxStrays
      PROVE  Credit(k) # Stray(l)
  <2>1. k # -l
    BY ClientAssumption
  <2>2. Credit(k).num = k /\ Stray(l).num = -l
    BY DEF Credit, Stray
  <2>3. QED
    BY <2>1, <2>2
<1>6. /\ \A k \in 1 .. MaxRequests : Credit(k) \in CreditAnswers
      /\ \A k \in 1 .. MaxStrays : Stray(k) \in CreditAnswers
  BY DEF CreditAnswers, Credits, Strays
<1>7. Messages = {CapabilitiesExchange, Watchdog} \cup CreditAnswers
  BY DEF Messages
<1>8. CapabilitiesExchange # Watchdog
  BY <1>2
<1>9. /\ CapabilitiesExchange \notin CreditAnswers /\ Watchdog \notin CreditAnswers
      /\ NoRev \notin Messages
  BY <1>1, <1>2, <1>7
<1>10. \A m \in Messages :
         (m.cmd = "DW" <=> m = Watchdog) /\ (m.cmd = "CC" <=> m \in CreditAnswers)
  BY <1>1, <1>2, <1>7
<1>11. QED
  BY <1>1, <1>3, <1>4, <1>5, <1>6, <1>7, <1>8, <1>9, <1>10

\* There are finitely many credit-control messages.
LEMMA CreditAnswersFinite == IsFiniteSet(CreditAnswers)
<1> DEFINE f == [k \in 1 .. MaxRequests |-> Credit(k)]
           g == [k \in 1 .. MaxStrays |-> Stray(k)]
<1>1. IsFiniteSet(1 .. MaxRequests) /\ IsFiniteSet(1 .. MaxStrays)
  BY ClientAssumption, FS_Interval
<1>2. f \in Surjection(1 .. MaxRequests, Credits) /\ g \in Surjection(1 .. MaxStrays, Strays)
  BY DEF Surjection, Credits, Strays
<1> HIDE DEF f, g
<1>3. IsFiniteSet(Credits) /\ IsFiniteSet(Strays)
  BY <1>1, <1>2, FS_Surjection
<1>4. QED
  BY <1>3, FS_Union DEF CreditAnswers

\* The queue holds messages too.
LEMMA QueuedMessages == TypeOK => queued \in Seq(Messages)
  BY SeqMonotonic, MessageFacts DEF TypeOK

\* A message is in transit some natural number of times.
LEMMA TransitType ==
  ASSUME TypeOK
  PROVE  InTransit \in [Messages -> Nat]
<1>1. \A m \in Messages : /\ Occurrences(toServer, m) \in Nat
                          /\ Occurrences(queued, m) \in Nat
                          /\ Occurrences(toClient, m) \in Nat
  BY QueuedMessages, OccurrencesType DEF TypeOK
<1>2. QED
  BY <1>1 DEF InTransit

\* A credit-control message is coming while it is in transit.
LEMMA ComingIsInTransit ==
  TypeOK => /\ Coming = {m \in CreditAnswers : InTransit[m] # 0}
            /\ IsFiniteSet(Coming) /\ Cardinality(Coming) \in Nat
<1> SUFFICES ASSUME TypeOK
             PROVE  /\ Coming = {m \in CreditAnswers : InTransit[m] # 0}
                    /\ IsFiniteSet(Coming) /\ Cardinality(Coming) \in Nat
  OBVIOUS
<1>1. ASSUME NEW m \in CreditAnswers
      PROVE  m \in Coming <=> InTransit[m] # 0
  <2>1. /\ Occurrences(toServer, m) \in Nat
        /\ Occurrences(toServer, m) = 0 <=> \A i \in DOMAIN toServer : toServer[i] # m
    BY OccurrencesType DEF TypeOK
  <2>2. /\ Occurrences(queued, m) \in Nat
        /\ Occurrences(queued, m) = 0 <=> \A i \in DOMAIN queued : queued[i] # m
    BY OccurrencesType DEF TypeOK
  <2>3. /\ Occurrences(toClient, m) \in Nat
        /\ Occurrences(toClient, m) = 0 <=> \A i \in DOMAIN toClient : toClient[i] # m
    BY OccurrencesType DEF TypeOK
  <2>4. InTransit[m] = Occurrences(toServer, m) + Occurrences(queued, m)
                         + Occurrences(toClient, m)
    BY MessageFacts DEF InTransit
  <2>5. InTransit[m] = 0 <=> /\ Occurrences(toServer, m) = 0
                             /\ Occurrences(queued, m) = 0
                             /\ Occurrences(toClient, m) = 0
    BY <2>1, <2>2, <2>3, <2>4
  <2>6. QED
    BY <2>1, <2>2, <2>3, <2>5 DEF Coming
<1>2. Coming \in SUBSET CreditAnswers
  BY DEF Coming
<1>3. IsFiniteSet(Coming)
  BY <1>2, CreditAnswersFinite, FS_Subset
<1>4. Cardinality(Coming) \in Nat
  BY <1>3, FS_CardinalityType
<1>5. QED
  BY <1>1, <1>2, <1>3, <1>4

\* process_write adds its message, unless the server has closed the connection.
LEMMA WriteAdds ==
  ASSUME TypeOK, NEW e \in Messages, ProcessWrite(e)
  PROVE  /\ toServer' \in Seq(Messages) /\ alive' \in BOOLEAN
         /\ UNCHANGED <<open, queued, toClient>>
         /\ open => InTransit' = [InTransit EXCEPT ![e] = @ + 1]
         /\ ~open => InTransit' = InTransit
<1>1. UNCHANGED <<open, queued, toClient>>
  BY DEF ProcessWrite
<1>2. CASE open
  <2>1. toServer' = Append(toServer, e) /\ alive' = alive
    BY <1>2 DEF ProcessWrite
  <2>2. toServer' \in Seq(Messages)
    BY <2>1, AppendProperties DEF TypeOK
  <2>3. ASSUME NEW m \in Messages
        PROVE  Occurrences(toServer', m) = Occurrences(toServer, m) + BoolToNat(e = m)
    BY <2>1, AppendAdds DEF TypeOK, BoolToNat
  <2>4. ASSUME NEW m \in Messages
        PROVE  /\ Occurrences(toServer, m) \in Nat
               /\ Occurrences(queued, m) \in Nat
               /\ Occurrences(toClient, m) \in Nat
    BY QueuedMessages, OccurrencesType DEF TypeOK
  <2>5. InTransit' = [InTransit EXCEPT ![e] = @ + 1]
    <3>1. ASSUME NEW m \in Messages
          PROVE  InTransit'[m] = InTransit[m] + BoolToNat(e = m)
      BY <1>1, <2>3, <2>4 DEF InTransit, BoolToNat
    <3>2. InTransit = [m \in Messages |-> InTransit[m]]
      BY DEF InTransit
    <3>3. InTransit' = [m \in Messages |-> InTransit'[m]]
      BY DEF InTransit
    <3>4. \A m \in Messages : InTransit[m] \in Nat
      BY TransitType
    <3>5. QED
      BY <3>1, <3>2, <3>3, <3>4 DEF BoolToNat
  <2>6. QED
    BY <1>1, <1>2, <2>1, <2>2, <2>5 DEF TypeOK
<1>3. CASE ~open
  <2>1. toServer' = toServer
    BY <1>3 DEF ProcessWrite
  <2>2. alive' \in BOOLEAN
    BY <1>3 DEF ProcessWrite
  <2>3. InTransit' = InTransit
    BY <1>1, <2>1 DEF InTransit
  <2>4. QED
    BY <1>1, <1>3, <2>1, <2>2, <2>3 DEF TypeOK
<1>4. QED
  BY <1>2, <1>3

\* processReadFromSrv takes away the message it returns.
LEMMA ReadTakes ==
  ASSUME TypeOK, NEW e, ProcessRead(e)
  PROVE  /\ toClient' \in Seq(Messages) /\ e \in Messages
         /\ UNCHANGED <<open, toServer, queued, alive>>
         /\ InTransit' = [InTransit EXCEPT ![e] = @ - 1]
         /\ InTransit[e] > 0
<1>1. /\ UNCHANGED <<open, toServer, queued, alive>>
      /\ toClient # <<>> /\ e = Head(toClient) /\ toClient' = Tail(toClient)
  BY DEF ProcessRead
<1>2. toClient' \in Seq(Messages) /\ e \in Messages
  BY <1>1, HeadTailProperties DEF TypeOK
<1>3. ASSUME NEW m \in Messages
      PROVE  Occurrences(toClient, m) = Occurrences(toClient', m) + BoolToNat(e = m)
  BY <1>1, TailTakes DEF TypeOK, BoolToNat
<1>4. ASSUME NEW m \in Messages
      PROVE  /\ Occurrences(toServer, m) \in Nat
             /\ Occurrences(queued, m) \in Nat
             /\ Occurrences(toClient', m) \in Nat
  BY <1>2, QueuedMessages, OccurrencesType DEF TypeOK
<1>5. InTransit' = [InTransit EXCEPT ![e] = @ - 1]
  BY <1>1, <1>3, <1>4 DEF InTransit, BoolToNat
<1>6. InTransit[e] > 0
  BY <1>2, <1>3, <1>4 DEF InTransit, BoolToNat
<1>7. QED
  BY <1>1, <1>2, <1>5, <1>6

\* What Append and Tail do together when the server passes a message on.
LEMMA PassOn ==
  ASSUME NEW S, NEW s \in Seq(S), NEW t \in Seq(S), s # <<>>, NEW m
  PROVE  Occurrences(Tail(s), m) + Occurrences(Append(t, Head(s)), m)
           = Occurrences(s, m) + Occurrences(t, m)
<1>1. Head(s) \in S /\ Tail(s) \in Seq(S)
  BY HeadTailProperties
<1>2. Occurrences(s, m) = Occurrences(Tail(s), m) + BoolToNat(Head(s) = m)
  BY TailTakes DEF BoolToNat
<1>3. Occurrences(Append(t, Head(s)), m) = Occurrences(t, m) + BoolToNat(Head(s) = m)
  BY <1>1, AppendAdds DEF BoolToNat
<1>4. /\ Occurrences(s, m) \in Nat /\ Occurrences(t, m) \in Nat
      /\ Occurrences(Tail(s), m) \in Nat
  BY <1>1, OccurrencesType
<1>5. QED
  BY <1>2, <1>3, <1>4 DEF BoolToNat

\* The server's steps that move messages about, and lose none.
MovingStep == AnswerAtOnce \/ Enqueue \/ AnswerQueued \/ CloseConnection

\* They keep the types of the connection and what is in transit.
LEMMA ServerMoves ==
  ASSUME TypeOK, MovingStep
  PROVE  /\ open' \in BOOLEAN
         /\ open' => open
         /\ toServer' \in Seq(Messages) /\ queued' \in Seq(CreditAnswers) /\ toClient' \in Seq(Messages)
         /\ InTransit' = InTransit
         /\ UNCHANGED <<clientVars, lossVars>>
<1>1. CASE AnswerAtOnce
  <2>1. /\ toServer # <<>> /\ toServer' = Tail(toServer)
        /\ toClient' = Append(toClient, Head(toServer))
        /\ UNCHANGED <<open, queued, clientVars, lossVars>>
    BY <1>1 DEF AnswerAtOnce
  <2>2. Head(toServer) \in Messages /\ toServer' \in Seq(Messages)
    BY <2>1, HeadTailProperties DEF TypeOK
  <2>3. toClient' \in Seq(Messages)
    BY <2>1, <2>2, AppendProperties DEF TypeOK
  <2>4. ASSUME NEW m \in Messages
        PROVE  InTransit'[m] = InTransit[m]
    <3>1. /\ Occurrences(toServer', m) + Occurrences(toClient', m)
               = Occurrences(toServer, m) + Occurrences(toClient, m)
      BY <2>1, PassOn DEF TypeOK
    <3>2. /\ Occurrences(toServer, m) \in Nat /\ Occurrences(toServer', m) \in Nat
          /\ Occurrences(toClient, m) \in Nat /\ Occurrences(toClient', m) \in Nat
          /\ Occurrences(queued, m) \in Nat
      BY <2>2, <2>3, QueuedMessages, OccurrencesType DEF TypeOK
    <3>3. InTransit[m] = Occurrences(toServer, m) + Occurrences(queued, m)
                           + Occurrences(toClient, m)
      BY DEF InTransit
    <3>4. InTransit'[m] = Occurrences(toServer', m) + Occurrences(queued', m)
                            + Occurrences(toClient', m)
      BY DEF InTransit
    <3>5. Occurrences(queued', m) = Occurrences(queued, m)
      BY <2>1
    <3>6. QED
      BY <3>1, <3>2, <3>3, <3>4, <3>5
  <2>5. InTransit' = InTransit
    BY <2>4 DEF InTransit
  <2>6. QED
    BY <2>1, <2>2, <2>3, <2>5 DEF TypeOK
<1>2. CASE Enqueue
  <2>1. /\ toServer # <<>> /\ toServer' = Tail(toServer)
        /\ Head(toServer).cmd = "CC"
        /\ queued' = Append(queued, Head(toServer))
        /\ UNCHANGED <<open, toClient, clientVars, lossVars>>
    BY <1>2 DEF Enqueue
  <2>2. Head(toServer) \in Messages /\ toServer' \in Seq(Messages)
    BY <2>1, HeadTailProperties DEF TypeOK
  <2>3. Head(toServer) \in CreditAnswers
    BY <2>1, <2>2, MessageFacts
  <2>4. queued' \in Seq(CreditAnswers)
    BY <2>1, <2>3, AppendProperties DEF TypeOK
  <2>5. queued \in Seq(Messages) /\ queued' \in Seq(Messages)
    BY <2>4, QueuedMessages, SeqMonotonic, MessageFacts
  <2>6. ASSUME NEW m \in Messages
        PROVE  InTransit'[m] = InTransit[m]
    <3>1. /\ Occurrences(toServer', m) + Occurrences(queued', m)
               = Occurrences(toServer, m) + Occurrences(queued, m)
      BY <2>1, <2>5, PassOn DEF TypeOK
    <3>2. /\ Occurrences(toServer, m) \in Nat /\ Occurrences(toServer', m) \in Nat
          /\ Occurrences(queued, m) \in Nat /\ Occurrences(queued', m) \in Nat
          /\ Occurrences(toClient, m) \in Nat
      BY <2>2, <2>5, OccurrencesType DEF TypeOK
    <3>3. InTransit[m] = Occurrences(toServer, m) + Occurrences(queued, m)
                           + Occurrences(toClient, m)
      BY DEF InTransit
    <3>4. InTransit'[m] = Occurrences(toServer', m) + Occurrences(queued', m)
                            + Occurrences(toClient', m)
      BY DEF InTransit
    <3>5. Occurrences(toClient', m) = Occurrences(toClient, m)
      BY <2>1
    <3>6. QED
      BY <3>1, <3>2, <3>3, <3>4, <3>5
  <2>7. InTransit' = InTransit
    BY <2>6 DEF InTransit
  <2>8. QED
    BY <2>1, <2>2, <2>4, <2>7 DEF TypeOK
<1>3. CASE AnswerQueued
  <2>1. /\ queued # <<>> /\ queued' = Tail(queued)
        /\ toClient' = Append(toClient, Head(queued))
        /\ UNCHANGED <<open, toServer, clientVars, lossVars>>
    BY <1>3 DEF AnswerQueued
  <2>2. Head(queued) \in CreditAnswers /\ queued' \in Seq(CreditAnswers)
    BY <2>1, HeadTailProperties DEF TypeOK
  <2>3. toClient' \in Seq(Messages)
    BY <2>1, <2>2, MessageFacts, AppendProperties DEF TypeOK
  <2>4. queued \in Seq(Messages) /\ queued' \in Seq(Messages)
    BY <2>2, QueuedMessages, SeqMonotonic, MessageFacts
  <2>5. ASSUME NEW m \in Messages
        PROVE  InTransit'[m] = InTransit[m]
    <3>1. /\ Occurrences(queued', m) + Occurrences(toClient', m)
               = Occurrences(queued, m) + Occurrences(toClient, m)
      BY <2>1, <2>4, PassOn DEF TypeOK
    <3>2. /\ Occurrences(toClient, m) \in Nat /\ Occurrences(toClient', m) \in Nat
          /\ Occurrences(queued, m) \in Nat /\ Occurrences(queued', m) \in Nat
          /\ Occurrences(toServer, m) \in Nat
      BY <2>3, <2>4, OccurrencesType DEF TypeOK
    <3>3. InTransit[m] = Occurrences(toServer, m) + Occurrences(queued, m)
                           + Occurrences(toClient, m)
      BY DEF InTransit
    <3>4. InTransit'[m] = Occurrences(toServer', m) + Occurrences(queued', m)
                            + Occurrences(toClient', m)
      BY DEF InTransit
    <3>5. Occurrences(toServer', m) = Occurrences(toServer, m)
      BY <2>1
    <3>6. QED
      BY <3>1, <3>2, <3>3, <3>4, <3>5
  <2>6. InTransit' = InTransit
    BY <2>5 DEF InTransit
  <2>7. QED
    BY <2>1, <2>2, <2>3, <2>6 DEF TypeOK
<1>4. CASE CloseConnection
  BY <1>4 DEF CloseConnection, TypeOK, InTransit
<1>5. QED
  BY <1>1, <1>2, <1>3, <1>4 DEF MovingStep

\* A full queue takes away the request it is given.
LEMMA DiscardTakes ==
  ASSUME TypeOK, Discard
  PROVE  /\ toServer' \in Seq(Messages) /\ dropped' = dropped + 1
         /\ UNCHANGED <<open, queued, toClient, clientVars, strays>>
         /\ \E e \in CreditAnswers : /\ InTransit' = [InTransit EXCEPT ![e] = @ - 1]
                                    /\ InTransit[e] > 0
<1>1. /\ toServer # <<>> /\ toServer' = Tail(toServer) /\ Head(toServer).cmd = "CC"
      /\ dropped' = dropped + 1
      /\ UNCHANGED <<open, queued, toClient, clientVars, strays>>
  BY DEF Discard
<1>2. PICK e : e = Head(toServer)
  OBVIOUS
<1>3. toServer' \in Seq(Messages) /\ e \in Messages
  BY <1>1, <1>2, HeadTailProperties DEF TypeOK
<1>4. e \in CreditAnswers
  BY <1>1, <1>2, <1>3, MessageFacts
<1>5. ASSUME NEW m \in Messages
      PROVE  Occurrences(toServer, m) = Occurrences(toServer', m) + BoolToNat(e = m)
  BY <1>1, <1>2, TailTakes DEF TypeOK, BoolToNat
<1>6. ASSUME NEW m \in Messages
      PROVE  /\ Occurrences(toServer', m) \in Nat
             /\ Occurrences(queued, m) \in Nat
             /\ Occurrences(toClient, m) \in Nat
  BY <1>3, QueuedMessages, OccurrencesType DEF TypeOK
<1>7. queued' = queued /\ toClient' = toClient
  BY <1>1
<1>8. InTransit' = [InTransit EXCEPT ![e] = @ - 1]
  BY <1>5, <1>6, <1>7 DEF InTransit, BoolToNat
<1>9. InTransit[e] > 0
  BY <1>3, <1>5, <1>6 DEF InTransit, BoolToNat
<1>10. QED
  BY <1>1, <1>3, <1>4, <1>8, <1>9

\* A credit-control message in transit is there once.
LEMMA OnceOnly ==
  ASSUME TypeOK, EachOnce, NEW e \in CreditAnswers, InTransit[e] > 0
  PROVE  InTransit[e] = 1
<1>1. InTransit[e] \in Nat
  BY TransitType, MessageFacts
<1>2. InTransit[e] <= 1
  <2>1. CASE \E k \in 1 .. MaxRequests : e = Credit(k)
    <3>1. PICK k \in 1 .. MaxRequests : e = Credit(k)
      BY <2>1
    <3>2. InTransit[e] <= BoolToNat(k <= requests)
      BY <3>1 DEF EachOnce
    <3>3. QED
      BY <1>1, <3>2 DEF BoolToNat
  <2>2. CASE \E k \in 1 .. MaxStrays : e = Stray(k)
    <3>1. PICK k \in 1 .. MaxStrays : e = Stray(k)
      BY <2>2
    <3>2. InTransit[e] <= BoolToNat(k <= strays)
      BY <3>1 DEF EachOnce
    <3>3. QED
      BY <1>1, <3>2 DEF BoolToNat
  <2>3. QED
    BY <2>1, <2>2, MessageFacts
<1>3. QED
  BY <1>1, <1>2

\* A step that adds no credit-control message keeps EachOnce.
LEMMA EachOnceKept ==
  ASSUME TypeOK, EachOnce, UNCHANGED <<requests, strays>>,
         \A m \in CreditAnswers : InTransit'[m] <= InTransit[m] /\ InTransit'[m] \in Nat
  PROVE  EachOnce'
<1>1. InTransit \in [Messages -> Nat]
  BY TransitType
<1>2. ASSUME NEW k \in 1 .. MaxRequests
      PROVE  InTransit'[Credit(k)] <= BoolToNat(k <= requests)
  <2>1. Credit(k) \in CreditAnswers /\ Credit(k) \in Messages
    BY MessageFacts
  <2>2. InTransit[Credit(k)] <= BoolToNat(k <= requests) /\ InTransit[Credit(k)] \in Nat
    BY <1>1, <2>1 DEF EachOnce
  <2>3. QED
    BY <2>1, <2>2 DEF BoolToNat
<1>3. ASSUME NEW k \in 1 .. MaxStrays
      PROVE  InTransit'[Stray(k)] <= BoolToNat(k <= strays)
  <2>1. Stray(k) \in CreditAnswers /\ Stray(k) \in Messages
    BY MessageFacts
  <2>2. InTransit[Stray(k)] <= BoolToNat(k <= strays) /\ InTransit[Stray(k)] \in Nat
    BY <1>1, <2>1 DEF EachOnce
  <2>3. QED
    BY <2>1, <2>2 DEF BoolToNat
<1>4. QED
  BY <1>2, <1>3 DEF EachOnce

\* The same after a step.
LEMMA ComingAfter ==
  TypeOK' => Coming' = {m \in CreditAnswers : InTransit'[m] # 0}
<1>1. TypeOK => Coming = {m \in CreditAnswers : InTransit[m] # 0}
  BY ComingIsInTransit
<1>2. (TypeOK => Coming = {m \in CreditAnswers : InTransit[m] # 0})'
  BY <1>1, PTL
<1>3. QED
  BY <1>2

\* A message that joins those in transit is coming from then on ...
LEMMA ComingAdds ==
  ASSUME TypeOK, TypeOK', NEW e \in CreditAnswers, InTransit[e] = 0,
         InTransit' = [InTransit EXCEPT ![e] = @ + 1]
  PROVE  Coming' = Coming \cup {e} /\ Cardinality(Coming') = Cardinality(Coming) + 1
<1>1. /\ Coming = {m \in CreditAnswers : InTransit[m] # 0} /\ IsFiniteSet(Coming)
      /\ Coming' = {m \in CreditAnswers : InTransit'[m] # 0}
  BY ComingIsInTransit, ComingAfter
<1>2. e \in Messages /\ InTransit \in [Messages -> Nat]
  BY MessageFacts, TransitType
<1>3. Coming' = Coming \cup {e} /\ e \notin Coming
  BY <1>1, <1>2, MessageFacts
<1>4. Cardinality(Coming \cup {e}) = Cardinality(Coming) + 1
  BY <1>1, <1>3, FS_AddElement
<1>5. QED
  BY <1>3, <1>4

\* ... the last copy that leaves them is coming no more ...
LEMMA ComingTakes ==
  ASSUME TypeOK, TypeOK', NEW e \in CreditAnswers, InTransit[e] = 1,
         InTransit' = [InTransit EXCEPT ![e] = @ - 1]
  PROVE  Coming' = Coming \ {e} /\ e \in Coming /\ Cardinality(Coming') = Cardinality(Coming) - 1
<1>1. /\ Coming = {m \in CreditAnswers : InTransit[m] # 0} /\ IsFiniteSet(Coming)
      /\ Coming' = {m \in CreditAnswers : InTransit'[m] # 0}
  BY ComingIsInTransit, ComingAfter
<1>2. e \in Messages /\ InTransit \in [Messages -> Nat]
  BY MessageFacts, TransitType
<1>3. Coming' = Coming \ {e} /\ e \in Coming
  BY <1>1, <1>2, MessageFacts
<1>4. Cardinality(Coming \ {e}) = Cardinality(Coming) - 1
  BY <1>1, <1>3, FS_RemoveElement
<1>5. QED
  BY <1>3, <1>4

\* ... and messages of other commands do not count.
LEMMA ComingKeeps ==
  ASSUME TypeOK, TypeOK', \A m \in CreditAnswers : InTransit'[m] = InTransit[m]
  PROVE  Coming' = Coming
BY ComingIsInTransit, ComingAfter

-----------------------------------------------------------------------------
(* Every step keeps the invariant *)

\* Writing and reading keep the types of the connection.
LEMMA TypeKept ==
  ASSUME TypeOK, Used, [Next]_vars
  PROVE  TypeOK'
<1> USE ClientAssumption DEF lossVars
<1>1. CASE Hello /\ UNCHANGED lossVars
  <2>1. toServer' \in Seq(Messages) /\ alive' \in BOOLEAN /\ UNCHANGED <<open, queued, toClient>>
    BY <1>1, WriteAdds, MessageFacts DEF Hello
  <2>2. QED
    BY <1>1, <2>1 DEF Hello, TypeOK
<1>2. CASE FirstAnswer /\ UNCHANGED lossVars
  <2>1. PICK m \in Messages :
          ProcessRead(m) /\ is_accept_from_srv' = (m = CapabilitiesExchange)
    BY <1>2 DEF FirstAnswer
  <2>2. toClient' \in Seq(Messages) /\ UNCHANGED <<open, toServer, queued, alive>>
    BY <2>1, ReadTakes
  <2>3. is_accept_from_srv' \in BOOLEAN
    BY <2>1
  <2>4. QED
    BY <1>2, <2>2, <2>3 DEF FirstAnswer, TypeOK
<1>3. CASE ReadFails /\ UNCHANGED lossVars
  BY <1>3 DEF ReadFails, ProcessReadError, serverVars, TypeOK
<1>4. CASE KeepConnection /\ UNCHANGED lossVars
  <2>1. toServer' \in Seq(Messages) /\ alive' \in BOOLEAN /\ UNCHANGED <<open, queued, toClient>>
    BY <1>4, WriteAdds, MessageFacts DEF KeepConnection
  <2>2. since_keep' = 0 /\ watchdogs' \in 0 .. MaxWatchdogs
    BY <1>4 DEF KeepConnection, CheckSendKeepCon, TypeOK
  <2>3. QED
    BY <1>4, <2>1, <2>2 DEF KeepConnection, TypeOK
<1>5. CASE ExchangeMessage /\ UNCHANGED lossVars
  <2>1. requests' \in 1 .. MaxRequests
    BY <1>5 DEF ExchangeMessage, TypeOK
  <2>2. PICK k \in 1 .. MaxRequests : k = requests'
    BY <2>1
  <2>3. ProcessWrite(Credit(k)) /\ Credit(k) \in Messages
    BY <1>5, <2>2, MessageFacts DEF ExchangeMessage
  <2>4. toServer' \in Seq(Messages) /\ alive' \in BOOLEAN /\ UNCHANGED <<open, queued, toClient>>
    BY <2>3, WriteAdds
  <2>5. since_msg' = 0
    BY <1>5 DEF ExchangeMessage, CheckAndSend
  <2>6. QED
    BY <1>5, <2>1, <2>4, <2>5 DEF ExchangeMessage, TypeOK
<1>6. CASE ReadAnswer /\ UNCHANGED lossVars
  <2>1. PICK m \in Messages : m = rev' /\ ProcessRead(m)
    BY <1>6 DEF ReadAnswer
  <2>2. toClient' \in Seq(Messages) /\ UNCHANGED <<open, toServer, queued, alive>>
    BY <2>1, ReadTakes
  <2>3. exchange' \in {"idle", "reread"}
    BY <1>6 DEF ReadAnswer
  <2>4. QED
    BY <1>6, <2>1, <2>2, <2>3 DEF ReadAnswer, TypeOK
<1>7. CASE ReadAgain /\ UNCHANGED lossVars
  <2>1. PICK m \in Messages : m = rev' /\ ProcessRead(m)
    BY <1>7 DEF ReadAgain
  <2>2. toClient' \in Seq(Messages) /\ UNCHANGED <<open, toServer, queued, alive>>
    BY <2>1, ReadTakes
  <2>3. unmatched' \in 0 .. MaxRequests
    <3>1. unmatched \in Nat /\ requests \in 0 .. MaxRequests /\ unmatched + 1 <= requests
      BY <1>7 DEF ReadAgain, TypeOK, Used, Reading, BoolToNat
    <3>2. unmatched' = unmatched \/ unmatched' = unmatched + 1
      BY <1>7 DEF ReadAgain
    <3>3. QED
      BY <3>1, <3>2
  <2>4. QED
    BY <1>7, <2>1, <2>2, <2>3 DEF ReadAgain, TypeOK
<1>8. CASE Tick /\ UNCHANGED lossVars
  BY <1>8 DEF Tick, serverVars, TypeOK
<1>9. CASE SendNothing /\ UNCHANGED lossVars
  BY <1>9 DEF SendNothing, CheckAndSend, serverVars, TypeOK
<1>10. CASE MovingStep
  BY <1>10, ServerMoves DEF clientVars, lossVars, TypeOK
<1>11. CASE Discard
  <2>1. toServer' \in Seq(Messages) /\ dropped' = dropped + 1
    BY <1>11, DiscardTakes
  <2>2. dropped' \in Nat
    BY <2>1 DEF TypeOK
  <2>3. UNCHANGED <<open, queued, toClient, clientVars, strays>>
    BY <1>11 DEF Discard
  <2>4. QED
    BY <2>1, <2>2, <2>3 DEF clientVars, TypeOK
<1>12. CASE UNCHANGED vars
  BY <1>12 DEF vars, clientVars, serverVars, lossVars, TypeOK
<1>13. QED
  BY <1>1, <1>2, <1>3, <1>4, <1>5, <1>6, <1>7, <1>8, <1>9, <1>10, <1>11, <1>12
     DEF Next, ClientStep, ServerStep, MovingStep

\* What is known of the numbers involved.
LEMMA NumberFacts ==
  IInv => /\ InTransit \in [Messages -> Nat]
          /\ requests \in Nat /\ requests <= MaxRequests
          /\ watchdogs \in Nat /\ unmatched \in Nat
          /\ strays \in Nat /\ dropped \in Nat
          /\ Cardinality(Coming) \in Nat
          /\ BoolToNat(TRUE) = 1 /\ BoolToNat(FALSE) = 0
  BY TransitType, ComingIsInTransit DEF IInv, TypeOK, BoolToNat

\* The rest of the invariant over the steps of the client that write...
LEMMA WriteKeeps ==
  ASSUME IInv, TypeOK', UNCHANGED lossVars, Hello \/ KeepConnection \/ ExchangeMessage
  PROVE  IInv'
<1>1. /\ InTransit \in [Messages -> Nat]
      /\ requests \in Nat /\ watchdogs \in Nat /\ unmatched \in Nat
      /\ strays \in Nat /\ dropped \in Nat
      /\ Cardinality(Coming) \in Nat
      /\ strays' = strays /\ dropped' = dropped
  BY NumberFacts DEF lossVars
<1>2. CASE Hello
  <2>1. /\ main = "hello" /\ main' = "wait" /\ ProcessWrite(CapabilitiesExchange)
        /\ UNCHANGED <<is_accept_from_srv, exchange, rev, requests, watchdogs, unmatched>>
    BY <1>2 DEF Hello
  <2>2. /\ open' = open
        /\ open => InTransit' = [InTransit EXCEPT ![CapabilitiesExchange] = @ + 1]
        /\ ~open => InTransit' = InTransit
    BY <2>1, WriteAdds, MessageFacts DEF IInv
  <2>3. InTransit[CapabilitiesExchange] = 0 /\ ~is_accept_from_srv
    BY <2>1 DEF IInv, Phases
  <2>4. /\ InTransit'[CapabilitiesExchange] <= 1
        /\ \A m \in Messages \ {CapabilitiesExchange} : InTransit'[m] = InTransit[m]
    BY <1>1, <2>2, <2>3, MessageFacts
  <2>5. Coming' = Coming
    BY <2>4, MessageFacts, ComingKeeps DEF IInv
  <2>6. ~Misled /\ ~Misled' /\ Reading' = Reading
    BY <2>1 DEF Misled, Reading
  <2>7. Phases'
    BY <2>1, <2>3, <2>4, <2>6 DEF IInv, Phases
  <2>8. EachOnce'
    BY <1>1, <2>1, <2>4, MessageFacts, EachOnceKept DEF IInv
  <2>9. Used'
    BY <1>1, <2>1, <2>4, <2>6, MessageFacts DEF IInv, Used
  <2>10. Debt'
    BY <1>1, <2>1, <2>2, <2>5, <2>6 DEF IInv, Debt, BoolToNat
  <2>11. OwnAnswer'
    BY <1>1, <2>1 DEF IInv, OwnAnswer
  <2>12. QED
    BY <2>7, <2>8, <2>9, <2>10, <2>11 DEF IInv
<1>3. CASE KeepConnection
  <2>1. /\ main = "run" /\ watchdogs' = watchdogs + 1 /\ ProcessWrite(Watchdog)
        /\ UNCHANGED <<main, is_accept_from_srv, exchange, rev, requests, unmatched>>
    BY <1>3 DEF KeepConnection
  <2>2. /\ open' = open
        /\ open => InTransit' = [InTransit EXCEPT ![Watchdog] = @ + 1]
        /\ ~open => InTransit' = InTransit
    BY <2>1, WriteAdds, MessageFacts DEF IInv
  <2>3. /\ \A m \in Messages \ {Watchdog} : InTransit'[m] = InTransit[m]
        /\ InTransit'[Watchdog] \in Nat /\ InTransit'[Watchdog] <= InTransit[Watchdog] + 1
        /\ InTransit[Watchdog] \in Nat
    BY <1>1, <2>2, MessageFacts
  <2>4. Coming' = Coming
    BY <2>3, MessageFacts, ComingKeeps DEF IInv
  <2>5. Misled' = Misled /\ Reading' = Reading
    BY <2>1 DEF Misled, Reading
  <2>6. Phases'
    BY <1>1, <2>1, <2>3, <2>5, MessageFacts DEF IInv, Phases
  <2>7. EachOnce'
    BY <1>1, <2>1, <2>3, MessageFacts, EachOnceKept DEF IInv
  <2>8. Used'
    BY <1>1, <2>1, <2>3, MessageFacts DEF IInv, Used, Reading, BoolToNat
  <2>9. Debt'
    BY <1>1, <2>1, <2>2, <2>4, <2>5 DEF IInv, Debt
  <2>10. OwnAnswer'
    BY <1>1, <2>1 DEF IInv, OwnAnswer
  <2>11. QED
    BY <2>6, <2>7, <2>8, <2>9, <2>10 DEF IInv
<1>4. CASE ExchangeMessage
  <2>1. /\ main = "run" /\ exchange = "idle" /\ exchange' = "read"
        /\ requests < MaxRequests /\ requests' = requests + 1
        /\ ProcessWrite(Credit(requests')) /\ is_accept_from_srv
        /\ UNCHANGED <<main, is_accept_from_srv, rev, watchdogs, unmatched>>
    BY <1>4 DEF ExchangeMessage
  <2>2. PICK n \in 1 .. MaxRequests : n = requests'
    BY <1>1, <2>1, ClientAssumption
  <2>3. ProcessWrite(Credit(n)) /\ Credit(n) \in CreditAnswers /\ Credit(n) \in Messages
    BY <2>1, <2>2, MessageFacts
  <2>4. /\ open' = open
        /\ open => InTransit' = [InTransit EXCEPT ![Credit(n)] = @ + 1]
        /\ ~open => InTransit' = InTransit
    BY <2>3, WriteAdds DEF IInv
  <2>5. InTransit[Credit(n)] = 0
    <3>1. InTransit[Credit(n)] <= BoolToNat(n <= requests) /\ ~ (n <= requests)
      BY <1>1, <2>1, <2>2 DEF IInv, EachOnce
    <3>2. QED
      BY <1>1, <2>3, <3>1 DEF BoolToNat
  <2>6. /\ \A m \in Messages \ {Credit(n)} : InTransit'[m] = InTransit[m]
        /\ InTransit'[Credit(n)] <= 1
    BY <1>1, <2>3, <2>4, <2>5
  <2>7. /\ open => Coming' = Coming \cup {Credit(n)}
                   /\ Cardinality(Coming') = Cardinality(Coming) + 1
        /\ ~open => Coming' = Coming
    BY <2>3, <2>4, <2>5, MessageFacts, ComingAdds, ComingKeeps DEF IInv
  <2>8. ~Misled /\ ~Misled' /\ ~Reading /\ Reading'
    BY <2>1 DEF Misled, Reading
  <2>9. Phases'
    <3>1. CapabilitiesExchange \in Messages \ {Credit(n)}
      BY <2>3, MessageFacts
    <3>2. QED
      BY <2>1, <2>6, <2>8, <3>1 DEF IInv, Phases
  <2>10. EachOnce'
    <3>1. ASSUME NEW k \in 1 .. MaxRequests, k # n
          PROVE  InTransit'[Credit(k)] <= BoolToNat(k <= requests')
      <4>1. Credit(k) # Credit(n) /\ Credit(k) \in Messages
        BY <3>1, MessageFacts
      <4>2. InTransit'[Credit(k)] = InTransit[Credit(k)] /\ InTransit[Credit(k)] \in Nat
        BY <1>1, <2>6, <4>1
      <4>3. InTransit[Credit(k)] <= BoolToNat(k <= requests)
        BY DEF IInv, EachOnce
      <4>4. QED
        BY <1>1, <2>1, <4>2, <4>3 DEF BoolToNat
    <3>2. InTransit'[Credit(n)] <= BoolToNat(n <= requests')
      BY <2>2, <2>6 DEF BoolToNat
    <3>3. ASSUME NEW k \in 1 .. MaxStrays
          PROVE  InTransit'[Stray(k)] <= BoolToNat(k <= strays)
      <4>1. Stray(k) # Credit(n) /\ Stray(k) \in Messages
        BY MessageFacts
      <4>2. QED
        BY <2>6, <4>1 DEF IInv, EachOnce
    <3>4. QED
      BY <1>1, <3>1, <3>2, <3>3 DEF EachOnce
  <2>11. Used'
    <3>1. InTransit'[Watchdog] = InTransit[Watchdog] /\ InTransit[Watchdog] \in Nat
      BY <1>1, <2>3, <2>6, MessageFacts
    <3>2. QED
      BY <1>1, <2>1, <3>1 DEF IInv, Used, Reading, BoolToNat
  <2>12. Debt'
    <3>1. /\ open => Cardinality(Coming) + dropped = strays + unmatched
          /\ (strays = 0 /\ unmatched = 0) => Coming = {}
      BY <1>1, <2>8 DEF IInv, Debt, BoolToNat
    <3>2. open' => Cardinality(Coming') + dropped' + BoolToNat(Misled')
                     = strays' + unmatched' + BoolToNat(Reading')
      BY <1>1, <2>1, <2>4, <2>7, <2>8, <3>1 DEF BoolToNat
    <3>3. (strays' = 0 /\ unmatched' = 0) => Coming' \subseteq {Credit(requests')}
      BY <1>1, <2>1, <2>2, <2>4, <2>7, <3>1
    <3>4. QED
      BY <2>8, <3>2, <3>3 DEF Debt
  <2>13. OwnAnswer'
    BY <1>1, <2>1 DEF IInv, OwnAnswer
  <2>14. QED
    BY <2>9, <2>10, <2>11, <2>12, <2>13 DEF IInv
<1>5. QED
  BY <1>2, <1>3, <1>4

\* ... the steps that read ...
LEMMA ReadKeeps ==
  ASSUME IInv, TypeOK', UNCHANGED lossVars, FirstAnswer \/ ReadAnswer \/ ReadAgain
  PROVE  IInv'
<1>1. /\ InTransit \in [Messages -> Nat]
      /\ requests \in Nat /\ watchdogs \in Nat /\ unmatched \in Nat
      /\ strays \in Nat /\ dropped \in Nat
      /\ Cardinality(Coming) \in Nat
      /\ strays' = strays /\ dropped' = dropped
  BY NumberFacts DEF lossVars
<1>2. CASE FirstAnswer
  <2>1. PICK m \in Messages : ProcessRead(m) /\ is_accept_from_srv' = (m = CapabilitiesExchange)
    BY <1>2 DEF FirstAnswer
  <2>2. /\ main = "wait" /\ main' = "run"
        /\ UNCHANGED <<exchange, rev, requests, watchdogs, unmatched>>
    BY <1>2 DEF FirstAnswer
  <2>3. /\ open' = open
        /\ InTransit' = [InTransit EXCEPT ![m] = @ - 1]
        /\ InTransit[m] > 0
    BY <2>1, ReadTakes DEF IInv
  <2>4. /\ \A x \in Messages \ {m} : InTransit'[x] = InTransit[x]
        /\ InTransit'[m] = InTransit[m] - 1 /\ InTransit'[m] \in Nat
    BY <1>1, <2>1, <2>3
  <2>5. /\ exchange = "idle" /\ requests = 0 /\ unmatched = 0 /\ watchdogs = 0
        /\ InTransit[CapabilitiesExchange] <= 1
        /\ ~Misled /\ ~Reading /\ ~Reading'
    BY <2>2 DEF IInv, Phases, Misled, Reading
  <2>6. EachOnce'
    <3>1. \A x \in CreditAnswers : InTransit'[x] <= InTransit[x] /\ InTransit'[x] \in Nat
      BY <1>1, <2>4, MessageFacts
    <3>2. QED
      BY <1>1, <2>2, <3>1, EachOnceKept DEF IInv
  <2>7. Used'
    <3>1. /\ InTransit'[Watchdog] <= InTransit[Watchdog]
          /\ InTransit'[Watchdog] \in Nat /\ InTransit[Watchdog] \in Nat
      BY <1>1, <2>4, MessageFacts
    <3>2. QED
      BY <1>1, <2>2, <2>5, <3>1 DEF IInv, Used, BoolToNat
  <2>8. CASE m = CapabilitiesExchange
    <3>1. is_accept_from_srv' /\ InTransit'[CapabilitiesExchange] = 0 /\ ~Misled'
      <4>1. is_accept_from_srv' = TRUE
        BY <2>1, <2>8
      <4>2. InTransit'[CapabilitiesExchange] = 0
        BY <1>1, <2>3, <2>4, <2>5, <2>8
      <4>3. QED
        BY <4>1, <4>2 DEF Misled
    <3>2. Coming' = Coming
      BY <2>4, <2>8, MessageFacts, ComingKeeps DEF IInv
    <3>3. Phases'
      BY <2>2, <3>1 DEF Phases
    <3>4. Debt'
      BY <1>1, <2>2, <2>3, <2>5, <3>1, <3>2 DEF IInv, Debt, BoolToNat
    <3>5. OwnAnswer'
      BY <2>2, <2>5, <3>1 DEF OwnAnswer
    <3>6. QED
      BY <2>6, <2>7, <3>3, <3>4, <3>5 DEF IInv
  <2>9. CASE m # CapabilitiesExchange
    <3>1. ~is_accept_from_srv' /\ Misled'
      BY <2>1, <2>2, <2>9 DEF Misled
    <3>2. m # Watchdog
      <4>1. InTransit[Watchdog] <= 0
        BY <1>1, <2>5, MessageFacts DEF IInv, Used, BoolToNat
      <4>2. InTransit[Watchdog] \in Nat
        BY <1>1, MessageFacts
      <4>3. QED
        BY <2>3, <4>1, <4>2
    <3>3. m \in CreditAnswers
      BY <2>1, <2>9, <3>2, MessageFacts
    <3>4. InTransit[m] = 1
      BY <2>3, <3>3, OnceOnly DEF IInv
    <3>5. strays > 0
      <4>1. ASSUME NEW k \in 1 .. MaxRequests PROVE m # Credit(k)
        <5>1. InTransit[Credit(k)] <= BoolToNat(k <= 0)
          BY <2>5 DEF IInv, EachOnce
        <5>2. QED
          BY <3>4, <5>1 DEF BoolToNat
      <4>2. PICK k \in 1 .. MaxStrays : m = Stray(k)
        BY <3>3, <4>1, MessageFacts
      <4>3. InTransit[m] <= BoolToNat(k <= strays)
        BY <4>2 DEF IInv, EachOnce
      <4>4. QED
        BY <1>1, <3>4, <4>3 DEF BoolToNat
    <3>6. Coming' = Coming \ {m} /\ m \in Coming /\ Cardinality(Coming') = Cardinality(Coming) - 1
      BY <2>3, <3>3, <3>4, ComingTakes DEF IInv
    <3>7. Phases'
      BY <1>1, <2>2, <2>5, <3>1, <3>5 DEF Phases
    <3>8. Debt'
      <4>1. open => Cardinality(Coming) + dropped = strays + unmatched
        BY <1>1, <2>5 DEF IInv, Debt, BoolToNat
      <4>2. open' => Cardinality(Coming') + dropped' + BoolToNat(Misled')
                       = strays' + unmatched' + BoolToNat(Reading')
        BY <1>1, <2>2, <2>3, <2>5, <3>1, <3>6, <4>1 DEF BoolToNat
      <4>3. QED
        BY <1>1, <3>5, <4>2 DEF Debt
    <3>9. OwnAnswer'
      BY <1>1, <3>5 DEF OwnAnswer
    <3>10. QED
      BY <2>6, <2>7, <3>7, <3>8, <3>9 DEF IInv
  <2>10. QED
    BY <2>8, <2>9
<1>3. CASE ReadAnswer \/ ReadAgain
  <2>1. PICK m \in Messages : m = rev' /\ ProcessRead(m)
    BY <1>3 DEF ReadAnswer, ReadAgain
  <2>2. Reading /\ UNCHANGED <<main, is_accept_from_srv, requests, watchdogs>>
    BY <1>3 DEF ReadAnswer, ReadAgain, Reading
  <2>3. /\ main = "run" /\ is_accept_from_srv /\ ~Misled /\ ~Misled'
        /\ InTransit[CapabilitiesExchange] = 0
    BY <2>2 DEF IInv, Phases, Reading, TypeOK, Misled
  <2>4. /\ open' = open
        /\ InTransit' = [InTransit EXCEPT ![m] = @ - 1]
        /\ InTransit[m] > 0
    BY <2>1, ReadTakes DEF IInv
  <2>5. /\ \A x \in Messages \ {m} : InTransit'[x] = InTransit[x]
        /\ InTransit'[m] = InTransit[m] - 1 /\ InTransit'[m] \in Nat
    BY <1>1, <2>1, <2>4
  <2>6. m # CapabilitiesExchange /\ (m = Watchdog \/ m \in CreditAnswers)
    BY <2>1, <2>3, <2>4, MessageFacts
  <2>7. Phases'
    <3>1. InTransit'[CapabilitiesExchange] = 0
      BY <2>3, <2>5, <2>6, MessageFacts
    <3>2. QED
      BY <2>2, <2>3, <3>1 DEF Phases
  <2>8. EachOnce'
    <3>1. \A x \in CreditAnswers : InTransit'[x] <= InTransit[x] /\ InTransit'[x] \in Nat
      BY <1>1, <2>5, MessageFacts
    <3>2. QED
      BY <1>1, <2>2, <3>1, EachOnceKept DEF IInv
  <2>9. CASE m \in CreditAnswers
    <3>1. exchange' = "idle" /\ unmatched' = unmatched
      BY <1>3, <2>1, <2>9, MessageFacts DEF ReadAnswer, ReadAgain
    <3>2. InTransit[m] = 1
      BY <2>4, <2>9, OnceOnly DEF IInv
    <3>3. Coming' = Coming \ {m} /\ m \in Coming /\ Cardinality(Coming') = Cardinality(Coming) - 1
      BY <2>4, <2>9, <3>2, ComingTakes DEF IInv
    <3>4. Used'
      <4>1. InTransit'[Watchdog] = InTransit[Watchdog] /\ InTransit[Watchdog] \in Nat
        BY <1>1, <2>5, <2>9, MessageFacts
      <4>2. QED
        BY <1>1, <2>2, <3>1, <4>1 DEF IInv, Used, Reading, BoolToNat
    <3>5. (strays = 0 /\ unmatched = 0) => Coming \subseteq {Credit(requests)}
      BY <2>2 DEF IInv, Debt
    <3>6. ~Reading'
      BY <3>1 DEF Reading
    <3>7. Debt'
      <4>1. open => Cardinality(Coming) + dropped = strays + unmatched + 1
        BY <1>1, <2>2, <2>3 DEF IInv, Debt, BoolToNat
      <4>2. open' => Cardinality(Coming') + dropped' + BoolToNat(Misled')
                       = strays' + unmatched' + BoolToNat(Reading')
        BY <1>1, <2>3, <2>4, <3>1, <3>3, <3>6, <4>1 DEF BoolToNat
      <4>3. (strays' = 0 /\ unmatched' = 0) => Coming' \subseteq {}
        BY <1>1, <3>1, <3>3, <3>5
      <4>4. QED
        BY <3>6, <4>2, <4>3 DEF Debt
    <3>8. OwnAnswer'
      <4>1. (strays' = 0 /\ unmatched' = 0) => rev' = Credit(requests')
        BY <1>1, <2>1, <2>2, <3>1, <3>3, <3>5 DEF Credit
      <4>2. QED
        BY <2>2, <2>3, <4>1 DEF OwnAnswer
    <3>9. QED
      BY <2>7, <2>8, <3>4, <3>7, <3>8 DEF IInv
  <2>10. CASE m = Watchdog
    <3>1. Watchdog.cmd = "DW"
      BY DEF Watchdog
    <3>2. Coming' = Coming
      BY <2>5, <2>10, MessageFacts, ComingKeeps DEF IInv
    <3>3. open => Cardinality(Coming) + dropped = strays + unmatched + 1
      BY <1>1, <2>2, <2>3 DEF IInv, Debt, BoolToNat
    <3>4. CASE ReadAnswer
      <4>1. exchange = "read" /\ exchange' = "reread" /\ unmatched' = unmatched
        BY <2>1, <2>10, <3>1, <3>4 DEF ReadAnswer
      <4>2. Used'
        BY <1>1, <2>2, <2>5, <2>10, <4>1, MessageFacts DEF IInv, Used, Reading, BoolToNat
      <4>3. Reading' /\ requests' = requests
        BY <2>2, <4>1 DEF Reading
      <4>4. Debt'
        <5>1. open' => Cardinality(Coming') + dropped' + BoolToNat(Misled')
                         = strays' + unmatched' + BoolToNat(Reading')
          BY <1>1, <2>3, <2>4, <3>2, <3>3, <4>1, <4>3 DEF BoolToNat
        <5>2. (strays = 0 /\ unmatched = 0) => Coming \subseteq {Credit(requests)}
          BY <2>2 DEF IInv, Debt
        <5>3. QED
          BY <1>1, <3>2, <4>1, <4>3, <5>1, <5>2 DEF Debt
      <4>5. OwnAnswer'
        BY <2>3, <2>2, <4>1 DEF OwnAnswer
      <4>6. QED
        BY <2>7, <2>8, <4>2, <4>4, <4>5 DEF IInv
    <3>5. CASE ReadAgain
      <4>1. exchange = "reread" /\ exchange' = "idle" /\ unmatched' = unmatched + 1
        BY <2>1, <2>10, <3>1, <3>5 DEF ReadAgain
      <4>2. Used'
        BY <1>1, <2>2, <2>5, <2>10, <4>1, MessageFacts DEF IInv, Used, Reading, BoolToNat
      <4>3. unmatched' # 0 /\ ~Reading'
        BY <1>1, <4>1 DEF Reading
      <4>4. Debt'
        <5>1. open' => Cardinality(Coming') + dropped' + BoolToNat(Misled')
                         = strays' + unmatched' + BoolToNat(Reading')
          BY <1>1, <2>3, <2>4, <3>2, <3>3, <4>1, <4>3 DEF BoolToNat
        <5>2. QED
          BY <4>3, <5>1 DEF Debt
      <4>5. OwnAnswer'
        BY <2>2, <2>3, <4>3 DEF OwnAnswer
      <4>6. QED
        BY <2>7, <2>8, <4>2, <4>4, <4>5 DEF IInv
    <3>6. QED
      BY <1>3, <3>4, <3>5
  <2>11. QED
    BY <2>6, <2>9, <2>10
<1>4. QED
  BY <1>2, <1>3

\* ... the request a full queue discards ...
LEMMA DiscardKeeps ==
  ASSUME IInv, TypeOK', Discard
  PROVE  IInv'
<1>1. /\ InTransit \in [Messages -> Nat]
      /\ unmatched \in Nat /\ strays \in Nat /\ dropped \in Nat
      /\ Cardinality(Coming) \in Nat
  BY NumberFacts
<1>2. /\ dropped' = dropped + 1
      /\ UNCHANGED <<open, main, is_accept_from_srv, exchange, rev, requests, watchdogs,
                     unmatched, strays>>
  BY DiscardTakes DEF IInv, clientVars
<1>3. PICK e \in CreditAnswers : InTransit' = [InTransit EXCEPT ![e] = @ - 1] /\ InTransit[e] > 0
  BY DiscardTakes DEF IInv
<1>4. InTransit[e] = 1 /\ e \in Messages
  BY <1>3, OnceOnly, MessageFacts DEF IInv
<1>5. /\ \A m \in Messages \ {e} : InTransit'[m] = InTransit[m]
      /\ InTransit'[e] = 0
  BY <1>1, <1>3, <1>4
<1>6. Coming' = Coming \ {e} /\ Cardinality(Coming') = Cardinality(Coming) - 1
  BY <1>3, <1>4, ComingTakes DEF IInv
<1>7. Reading' = Reading /\ Misled' = Misled
  BY <1>2 DEF Reading, Misled
<1>8. /\ InTransit'[CapabilitiesExchange] = InTransit[CapabilitiesExchange]
      /\ InTransit'[Watchdog] = InTransit[Watchdog]
  BY <1>5, MessageFacts
<1>9. Phases'
  BY <1>2, <1>7, <1>8 DEF IInv, Phases
<1>10. EachOnce'
  <2>1. \A m \in CreditAnswers : InTransit'[m] <= InTransit[m] /\ InTransit'[m] \in Nat
    BY <1>1, <1>4, <1>5, MessageFacts
  <2>2. QED
    BY <1>2, <2>1, EachOnceKept DEF IInv
<1>11. Used'
  BY <1>2, <1>7, <1>8 DEF IInv, Used
<1>12. Debt'
  <2>1. BoolToNat(Reading) \in Nat /\ BoolToNat(Misled) \in Nat
    BY DEF BoolToNat
  <2>2. open => Cardinality(Coming) + dropped + BoolToNat(Misled)
                  = strays + unmatched + BoolToNat(Reading)
    BY DEF IInv, Debt
  <2>3. open' => Cardinality(Coming') + dropped' + BoolToNat(Misled')
                   = strays' + unmatched' + BoolToNat(Reading')
    BY <1>1, <1>2, <1>6, <1>7, <2>1, <2>2
  <2>4. (strays' = 0 /\ unmatched' = 0) =>
          Coming' \subseteq (IF Reading' THEN {Credit(requests')} ELSE {})
    BY <1>2, <1>6, <1>7 DEF IInv, Debt
  <2>5. QED
    BY <2>3, <2>4 DEF Debt
<1>13. OwnAnswer'
  BY <1>2 DEF IInv, OwnAnswer
<1>14. QED
  BY <1>9, <1>10, <1>11, <1>12, <1>13 DEF IInv

\* ... and those that leave the messages in transit what they are.
LEMMA OthersKeep ==
  ASSUME IInv, TypeOK',
         ((ReadFails \/ Tick \/ SendNothing) /\ UNCHANGED lossVars) \/ MovingStep \/ UNCHANGED vars
  PROVE  IInv'
<1>1. /\ UNCHANGED <<main, is_accept_from_srv, exchange, rev, requests, watchdogs, unmatched,
                     strays, dropped>>
      /\ InTransit' = InTransit
      /\ open' => open
  <2>1. CASE ReadFails /\ UNCHANGED lossVars
    BY <2>1 DEF ReadFails, ProcessReadError, serverVars, lossVars, InTransit
  <2>2. CASE Tick /\ UNCHANGED lossVars
    BY <2>2 DEF Tick, serverVars, lossVars, InTransit
  <2>3. CASE SendNothing /\ UNCHANGED lossVars
    BY <2>3 DEF SendNothing, serverVars, lossVars, InTransit
  <2>4. CASE MovingStep
    BY <2>4, ServerMoves DEF IInv, clientVars, lossVars
  <2>5. CASE UNCHANGED vars
    BY <2>5 DEF vars, clientVars, serverVars, lossVars, InTransit
  <2>6. QED
    BY <2>1, <2>2, <2>3, <2>4, <2>5
<1>2. Coming' = Coming
  BY <1>1, ComingKeeps DEF IInv
<1>3. Reading' = Reading /\ Misled' = Misled
  BY <1>1 DEF Reading, Misled
<1>4. Phases'
  BY <1>1, <1>3 DEF IInv, Phases
<1>5. EachOnce'
  BY <1>1 DEF IInv, EachOnce
<1>6. Used'
  BY <1>1, <1>3 DEF IInv, Used
<1>7. Debt'
  BY <1>1, <1>2, <1>3 DEF IInv, Debt
<1>8. OwnAnswer'
  BY <1>1 DEF IInv, OwnAnswer
<1>9. QED
  BY <1>4, <1>5, <1>6, <1>7, <1>8 DEF IInv

\* The queue the connection finds holds each stray once, and nothing else.
LEMMA StraysAtFirst ==
  ASSUME Init
  PROVE  /\ queued \in Seq(CreditAnswers)
         /\ \A m \in Messages \ Strays : Occurrences(queued, m) = 0
         /\ \A k \in 1 .. MaxStrays : Occurrences(queued, Stray(k)) = BoolToNat(k <= strays)
<1>1. /\ queued = [i \in 1 .. strays |-> Stray(i)]
      /\ strays \in Nat /\ strays <= MaxStrays
  BY ClientAssumption DEF Init
<1>2. /\ \A i \in 1 .. strays : i \in 1 .. MaxStrays
      /\ \A i \in 1 .. strays : Stray(i) \in CreditAnswers /\ Stray(i) \in Strays
  <2>1. \A i \in 1 .. strays : i \in 1 .. MaxStrays
    BY <1>1, ClientAssumption
  <2>2. QED
    BY <2>1 DEF Strays, CreditAnswers
<1>3. queued \in Seq(CreditAnswers) /\ DOMAIN queued = 1 .. strays
  <2>1. queued \in [1 .. strays -> CreditAnswers]
    BY <1>1, <1>2
  <2>2. QED
    BY <1>1, <2>1, SeqDef
<1>4. \A i \in DOMAIN queued : queued[i] = Stray(i)
  BY <1>1, <1>3
<1>5. ASSUME NEW m \in Messages \ Strays
      PROVE  Occurrences(queued, m) = 0
  <2>1. \A i \in DOMAIN queued : queued[i] # m
    BY <1>2, <1>3, <1>4
  <2>2. QED
    BY <1>3, <2>1, OccurrencesType
<1>6. ASSUME NEW k \in 1 .. MaxStrays
      PROVE  Occurrences(queued, Stray(k)) = BoolToNat(k <= strays)
  <2>1. CASE k <= strays
    <3>1. Places(queued, Stray(k)) = {k}
      <4>1. k \in DOMAIN queued /\ queued[k] = Stray(k)
        BY <1>1, <1>3, <1>4, <2>1
      <4>2. \A i \in DOMAIN queued : queued[i] = Stray(k) => i = k
        BY <1>2, <1>3, <1>4, MessageFacts
      <4>3. QED
        BY <4>1, <4>2 DEF Places
    <3>2. QED
      BY <2>1, <3>1, FS_Singleton DEF Occurrences, BoolToNat
  <2>2. CASE ~ (k <= strays)
    <3>1. \A i \in DOMAIN queued : queued[i] # Stray(k)
      <4>1. \A i \in 1 .. strays : i # k
        BY <1>1, <2>2
      <4>2. QED
        BY <1>2, <1>3, <1>4, <4>1, MessageFacts
    <3>2. QED
      BY <1>3, <2>2, <3>1, OccurrencesType DEF BoolToNat
  <2>3. QED
    BY <2>1, <2>2
<1>7. QED
  BY <1>3, <1>5, <1>6

\* The invariant holds at first ...
LEMMA InvInit == Init => IInv
<1> SUFFICES ASSUME Init PROVE IInv
  OBVIOUS
<1>1. TypeOK
  <2>1. toServer \in Seq(Messages) /\ queued \in Seq(CreditAnswers) /\ toClient \in Seq(Messages)
    BY EmptySeq, StraysAtFirst DEF Init
  <2>2. main = "hello" /\ exchange = "idle" /\ rev = NoRev
    BY DEF Init
  <2>3. is_accept_from_srv \in BOOLEAN /\ alive \in BOOLEAN /\ open \in BOOLEAN
    BY DEF Init
  <2>4. /\ since_msg \in 0 .. MSG_INTERVAL /\ since_keep \in 0 .. KEEP_INTERVAL
        /\ requests \in 0 .. MaxRequests /\ watchdogs \in 0 .. MaxWatchdogs
        /\ unmatched \in 0 .. MaxRequests
        /\ strays \in 0 .. MaxStrays /\ dropped \in Nat
        /\ ~ (requests > 0)
    BY ClientAssumption DEF Init
  <2>5. QED
    BY <2>1, <2>2, <2>3, <2>4 DEF TypeOK
<1>2. /\ \A m \in Messages \ Strays : InTransit[m] = 0
      /\ \A k \in 1 .. MaxStrays : InTransit[Stray(k)] = BoolToNat(k <= strays)
  <2>1. \A m \in Messages : InTransit[m] = Occurrences(queued, m)
    <3>1. ASSUME NEW m \in Messages
          PROVE  /\ Occurrences(toServer, m) = 0 /\ Occurrences(toClient, m) = 0
                 /\ Occurrences(queued, m) \in Nat
      BY <1>1, NoOccurrence, OccurrencesType DEF Init, TypeOK
    <3>2. QED
      BY <3>1 DEF InTransit
  <2>2. QED
    BY <2>1, StraysAtFirst, MessageFacts
<1>3. /\ \A k \in 1 .. MaxRequests : Credit(k) \in Messages \ Strays
      /\ Watchdog \in Messages \ Strays /\ CapabilitiesExchange \in Messages \ Strays
  BY MessageFacts DEF Strays, CreditAnswers
<1>4. Coming = {Stray(k) : k \in 1 .. strays}
  <2>1. strays \in Nat /\ \A k \in 1 .. strays : k \in 1 .. MaxStrays
    BY <1>1, ClientAssumption DEF TypeOK
  <2>2. ASSUME NEW m \in CreditAnswers
        PROVE  InTransit[m] # 0 <=> m \in {Stray(k) : k \in 1 .. strays}
    <3>1. CASE \E k \in 1 .. MaxRequests : m = Credit(k)
      <4>1. InTransit[m] = 0 /\ m \notin Strays
        BY <1>2, <1>3, <3>1
      <4>2. QED
        BY <2>1, <4>1 DEF Strays
    <3>2. ASSUME NEW k \in 1 .. MaxStrays, m = Stray(k)
          PROVE  InTransit[m] # 0 <=> m \in {Stray(j) : j \in 1 .. strays}
      <4>1. InTransit[m] = BoolToNat(k <= strays)
        BY <1>2, <3>2
      <4>2. m \in {Stray(j) : j \in 1 .. strays} <=> k \in 1 .. strays
        BY <2>1, <3>2, MessageFacts
      <4>3. QED
        BY <2>1, <4>1, <4>2 DEF BoolToNat
    <3>3. QED
      BY <3>1, <3>2, MessageFacts
  <2>3. {Stray(k) : k \in 1 .. strays} \subseteq CreditAnswers
    BY <2>1, MessageFacts
  <2>4. QED
    BY <1>1, <2>2, <2>3, ComingIsInTransit
<1>5. Cardinality(Coming) = strays
  <2> DEFINE f == [k \in 1 .. strays |-> Stray(k)]
             S == {Stray(k) : k \in 1 .. strays}
  <2>1. strays \in Nat /\ \A k \in 1 .. strays : k \in 1 .. MaxStrays
    BY <1>1, ClientAssumption DEF TypeOK
  <2>2. IsFiniteSet(1 .. strays) /\ Cardinality(1 .. strays) = strays
    BY <2>1, FS_Interval
  <2>3. f \in Bijection(1 .. strays, S)
    <3>1. f \in [1 .. strays -> S]
      OBVIOUS
    <3>2. \A j, k \in 1 .. strays : f[j] = f[k] => j = k
      BY <2>1, MessageFacts
    <3>3. \A x \in S : \E k \in 1 .. strays : f[k] = x
      OBVIOUS
    <3> HIDE DEF f, S
    <3>4. QED
      BY <3>1, <3>2, <3>3 DEF Bijection, Injection, Surjection, IsInjective
  <2> HIDE DEF f
  <2>4. Cardinality(S) = Cardinality(1 .. strays)
    BY <2>2, <2>3, FS_Bijection DEF ExistsBijection
  <2>5. QED
    BY <1>4, <2>2, <2>4
<1>6. Phases
  BY <1>2, <1>3 DEF Init, Phases, Misled
<1>7. EachOnce
  BY <1>2, <1>3 DEF EachOnce, BoolToNat
<1>8. Used
  BY <1>2, <1>3 DEF Init, Used, Reading, BoolToNat
<1>9. Debt
  <2>1. strays \in Nat /\ dropped = 0 /\ unmatched = 0 /\ ~Misled /\ ~Reading
    BY <1>1 DEF Init, TypeOK, Misled, Reading
  <2>2. strays = 0 => Coming = {}
    BY <1>4
  <2>3. QED
    BY <1>5, <2>1, <2>2 DEF Debt, BoolToNat
<1>10. OwnAnswer
  BY DEF Init, OwnAnswer
<1>11. QED
  BY <1>1, <1>6, <1>7, <1>8, <1>9, <1>10 DEF IInv

\* ... no step breaks it ...
LEMMA InvStep == IInv /\ [Next]_vars => IInv'
<1> SUFFICES ASSUME IInv, [Next]_vars PROVE IInv'
  OBVIOUS
<1>1. TypeOK'
  BY TypeKept DEF IInv
<1>2. QED
  BY <1>1, WriteKeeps, ReadKeeps, DiscardKeeps, OthersKeep
     DEF Next, ClientStep, ServerStep, MovingStep

\* ... so it always holds.
LEMMA Invariance == Spec => []IInv
  BY InvInit, InvStep, PTL DEF Spec

-----------------------------------------------------------------------------
(* What the runs check *)

\* Types, and a message in hand whenever exchange_message goes on: main.c:209-226.
THEOREM TypeCorrect == Spec => []TypeOK
<1>1. IInv => TypeOK
  BY DEF IInv
<1>2. QED
  BY <1>1, Invariance, PTL

\* As long as the server keeps the connection, the exchange thread waits for an answer
\* that will not come only if the full queue discarded more requests than the strays
\* and the spoiled rounds left it answers to spare: main.c:209-226,
\* diameter_queue_input.c:20.
THEOREM ReadsInVainOnlyAfterDiscard == Spec => []AnswerComing
<1>1. IInv => AnswerComing
  <2> SUFFICES ASSUME IInv, Reading, open, dropped <= strays + unmatched PROVE Coming # {}
    BY DEF AnswerComing
  <2>1. ~Misled
    BY DEF IInv, Phases, Reading, Misled
  <2>2. Cardinality(Coming) + dropped = strays + unmatched + 1
    <3>1. /\ Cardinality(Coming) \in Nat /\ dropped \in Nat
          /\ strays \in Nat /\ unmatched \in Nat
      BY NumberFacts
    <3>2. QED
      BY <2>1, <3>1 DEF IInv, Debt, BoolToNat
  <2>3. Cardinality(Coming) # 0
    BY <2>2, NumberFacts
  <2>4. QED
    BY <2>3, FS_EmptySet
<1>2. QED
  BY <1>1, Invariance, PTL

\* Without the requests of a closed connection in the queue, the exchange thread starts
\* accepted, and each round leaves with its own answer until one meets two watchdog
\* answers, whatever the queue discards.
THEOREM OwnAnswers == Spec => []OwnAnswer
<1>1. IInv => OwnAnswer
  BY DEF IInv
<1>2. QED
  BY <1>1, Invariance, PTL

\* How far the exchange thread lags behind, what made it so, and how many watchdog
\* answers that took.
THEOREM Lag == Spec => []LagsByUnmatched
<1>1. IInv => LagsByUnmatched
  <2> SUFFICES ASSUME IInv PROVE LagsByUnmatched
    OBVIOUS
  <2>1. InTransit[Watchdog] \in Nat
    BY TransitType, MessageFacts DEF IInv
  <2>2. unmatched \in Nat /\ watchdogs \in Nat
    BY DEF IInv, TypeOK
  <2>3. 2 * unmatched <= watchdogs
    BY <2>1, <2>2 DEF IInv, Used, BoolToNat
  <2>4. QED
    BY <2>3 DEF IInv, Debt, LagsByUnmatched, BoolToNat
<1>2. QED
  BY <1>1, Invariance, PTL
=============================================================================
