------------------------------- MODULE Client -------------------------------
(***************************************************************************)
(* The test client, Client/main.c: main opens the connection, then two     *)
(* threads share the socket.  The watchdog thread only writes; all answers *)
(* are read by the exchange thread, which waits for one credit-control     *)
(* answer at a time.  The server at the other end is reduced to what its   *)
(* two threads do to one connection, from the moment it is accepted: the   *)
(* queue may then hold requests of a closed connection whose descriptor    *)
(* number this one got, and their answers are written to this one.         *)
(***************************************************************************)
EXTENDS Integers, Sequences, FiniteSets

CONSTANTS
  MSG_INTERVAL,   \* 1000 / MSG_PER_SEC, in ticks of the client's clock
  KEEP_INTERVAL,  \* TIME_SEND_KEEP_CON, in the same ticks
  MaxRequests,    \* bound: credit-control requests sent
  MaxWatchdogs,   \* bound: watchdog requests sent
  MaxStrays       \* bound: queued requests of a closed connection

ASSUME ClientAssumption ==
  /\ MSG_INTERVAL \in Nat /\ KEEP_INTERVAL \in Nat
  /\ MaxRequests \in Nat /\ MaxWatchdogs \in Nat /\ MaxStrays \in Nat

\* A request and its answer have the same command code; credit-control messages
\* are told apart by their number.
CapabilitiesExchange == [cmd |-> "CE", num |-> 0]
Watchdog == [cmd |-> "DW", num |-> 0]
Credit(k) == [cmd |-> "CC", num |-> k]
Credits == {Credit(k) : k \in 1 .. MaxRequests}

\* The credit-control messages of the connection that had this descriptor before.
Stray(k) == [cmd |-> "CC", num |-> -k]
Strays == {Stray(k) : k \in 1 .. MaxStrays}

CreditAnswers == Credits \cup Strays
Messages == {CapabilitiesExchange, Watchdog} \cup CreditAnswers
NoRev == [cmd |-> "none", num |-> 0]

VARIABLES
  main,        \* where main is: "hello", "wait", "run"
  is_accept_from_srv,
  exchange,    \* where the exchange thread is: "idle", "read", "reread"
  rev,         \* the message it read last
  since_msg,   \* ticks since timeSentBefore, up to MSG_INTERVAL
  since_keep,  \* ticks since timeSentKeepCom, up to KEEP_INTERVAL
  alive,       \* FALSE: the client's process has ended
  requests,    \* credit-control requests sent
  watchdogs,   \* watchdog requests sent
  unmatched,   \* history: rounds of the exchange thread that got no credit answer
  open,        \* FALSE: the server has closed the connection
  toServer,    \* requests the server has not read
  queued,      \* requests in the server's queue
  toClient,    \* answers the client has not read
  strays,      \* history: strays in the queue when the connection was accepted
  dropped      \* history: the client's requests that a full queue discarded

serverVars == <<open, toServer, queued, toClient>>
lossVars == <<strays, dropped>>
clientVars == <<main, is_accept_from_srv, exchange, rev, since_msg, since_keep, alive,
                requests, watchdogs, unmatched>>
vars == <<clientVars, serverVars, lossVars>>

\* The listener pushed the strays before it accepted this connection, so they stand at
\* the head of the queue (or are in the queue thread's hands).
Init ==
  /\ main = "hello"
  /\ is_accept_from_srv = FALSE
  /\ exchange = "idle"
  /\ rev = NoRev
  /\ since_msg = MSG_INTERVAL /\ since_keep = KEEP_INTERVAL
  /\ alive = TRUE
  /\ requests = 0 /\ watchdogs = 0 /\ unmatched = 0
  /\ open = TRUE
  /\ strays \in 0 .. MaxStrays /\ dropped = 0
  /\ toServer = <<>> /\ toClient = <<>>
  /\ queued = [i \in 1 .. strays |-> Stray(i)]

-----------------------------------------------------------------------------
\* process_write: a write to a connection the server has closed succeeds, fails
\* unnoticed, or raises SIGPIPE.
ProcessWrite(m) ==
  /\ IF open THEN toServer' = Append(toServer, m) /\ UNCHANGED alive
             ELSE UNCHANGED toServer /\ alive' \in BOOLEAN
  /\ UNCHANGED <<open, queued, toClient>>

\* processReadFromSrv on a blocking socket: the next answer...
ProcessRead(m) ==
  /\ toClient # <<>>
  /\ m = Head(toClient)
  /\ toClient' = Tail(toClient)
  /\ UNCHANGED <<open, toServer, queued, alive>>

\* ... or READ_ERROR, a null pointer, once there is nothing left to read.  main
\* returns, the exchange thread dereferences it: either ends the process.
ProcessReadError ==
  /\ ~open /\ toClient = <<>>
  /\ alive' = FALSE
  /\ UNCHANGED serverVars

\* check_and_send and check_send_keep_con: the interval is over, and starts again.
CheckAndSend == since_msg >= MSG_INTERVAL /\ since_msg' = 0
CheckSendKeepCon == since_keep >= KEEP_INTERVAL /\ since_keep' = 0

\* main: the capabilities exchange comes before the two threads.
Hello ==
  /\ main = "hello"
  /\ main' = "wait"
  /\ ProcessWrite(CapabilitiesExchange)
  /\ UNCHANGED <<is_accept_from_srv, exchange, rev, since_msg, since_keep, requests,
                 watchdogs, unmatched>>

\* main goes on with whatever comes first.  check_accept_from_srv looks only at an
\* answer to the capabilities exchange, which from this server always carries 2001.
\* Nothing reads is_waiting_srv.
FirstAnswer ==
  /\ main = "wait"
  /\ \E m \in Messages :
       /\ ProcessRead(m)
       /\ is_accept_from_srv' = (m = CapabilitiesExchange)
  /\ main' = "run"
  /\ UNCHANGED <<exchange, rev, since_msg, since_keep, requests, watchdogs, unmatched>>

\* Mutant of ReadFails: a failed read is not told apart from a message.
FailureAsMessage ==
  /\ exchange \in {"read", "reread"}
  /\ ~open /\ toClient = <<>>
  /\ rev' = NoRev
  /\ exchange' = "idle"
  /\ UNCHANGED <<main, is_accept_from_srv, since_msg, since_keep, alive, requests,
                 watchdogs, unmatched, serverVars>>

ReadFails ==
  /\ main = "wait" \/ exchange \in {"read", "reread"}
  /\ ProcessReadError
  /\ UNCHANGED <<main, is_accept_from_srv, exchange, rev, since_msg, since_keep, requests,
                 watchdogs, unmatched>>

\* keep_connection: a watchdog request now and then; it never reads.
KeepConnection ==
  /\ main = "run"
  /\ watchdogs < MaxWatchdogs
  /\ CheckSendKeepCon
  /\ watchdogs' = watchdogs + 1
  /\ ProcessWrite(Watchdog)
  /\ UNCHANGED <<main, is_accept_from_srv, exchange, rev, since_msg, requests, unmatched>>

\* Mutant of ExchangeMessage: it does not wait for the answer.
SendWithoutReading ==
  /\ main = "run" /\ exchange = "idle"
  /\ requests < MaxRequests
  /\ CheckAndSend /\ is_accept_from_srv
  /\ requests' = requests + 1
  /\ ProcessWrite(Credit(requests'))
  /\ UNCHANGED <<main, is_accept_from_srv, exchange, rev, since_keep, watchdogs, unmatched>>

\* exchange_message: the next request, then a first read...
ExchangeMessage ==
  /\ main = "run" /\ exchange = "idle"
  /\ requests < MaxRequests
  /\ CheckAndSend /\ is_accept_from_srv
  /\ requests' = requests + 1
  /\ ProcessWrite(Credit(requests'))
  /\ exchange' = "read"
  /\ UNCHANGED <<main, is_accept_from_srv, rev, since_keep, watchdogs, unmatched>>

\* check_and_send() starts the next interval whether the server accepted or not.
SendNothing ==
  /\ main = "run" /\ exchange = "idle"
  /\ CheckAndSend /\ ~is_accept_from_srv
  /\ UNCHANGED <<main, is_accept_from_srv, exchange, rev, since_keep, alive, requests,
                 watchdogs, unmatched, serverVars>>

\* Mutant of ReadAnswer: always a second read.
ReadTwice ==
  /\ exchange = "read"
  /\ rev' \in Messages
  /\ ProcessRead(rev')
  /\ exchange' = "reread"
  /\ UNCHANGED <<main, is_accept_from_srv, since_msg, since_keep, requests, watchdogs,
                 unmatched>>

\* Mutant of ReadAnswer: never a second read.
ReadOnce ==
  /\ exchange = "read"
  /\ rev' \in Messages
  /\ ProcessRead(rev')
  /\ exchange' = "idle"
  /\ UNCHANGED <<main, is_accept_from_srv, since_msg, since_keep, requests, watchdogs,
                 unmatched>>

\* ... and one more, if the first brought a watchdog answer.
ReadAnswer ==
  /\ exchange = "read"
  /\ rev' \in Messages
  /\ ProcessRead(rev')
  /\ exchange' = IF rev'.cmd = "DW" THEN "reread" ELSE "idle"
  /\ UNCHANGED <<main, is_accept_from_srv, since_msg, since_keep, requests, watchdogs,
                 unmatched>>

\* What the second read brings is not looked at.
ReadAgain ==
  /\ exchange = "reread"
  /\ rev' \in Messages
  /\ ProcessRead(rev')
  /\ exchange' = "idle"
  /\ unmatched' = IF rev'.cmd = "CC" THEN unmatched ELSE unmatched + 1
  /\ UNCHANGED <<main, is_accept_from_srv, since_msg, since_keep, requests, watchdogs>>

\* Either thread may find its interval over only later than it is.
Tick ==
  /\ since_msg < MSG_INTERVAL \/ since_keep < KEEP_INTERVAL
  /\ since_msg' = IF since_msg < MSG_INTERVAL THEN since_msg + 1 ELSE since_msg
  /\ since_keep' = IF since_keep < KEEP_INTERVAL THEN since_keep + 1 ELSE since_keep
  /\ UNCHANGED <<main, is_accept_from_srv, exchange, rev, alive, requests, watchdogs,
                 unmatched, serverVars>>

ClientStep ==
  /\ alive
  /\ UNCHANGED lossVars
  /\ \/ Hello \/ FirstAnswer \/ ReadFails
     \/ KeepConnection
     \/ ExchangeMessage \/ SendNothing \/ ReadAnswer \/ ReadAgain
     \/ Tick

-----------------------------------------------------------------------------
(* The server, as far as this connection is concerned *)

\* The listener answers by itself all but credit control, and of that what the
\* limiter refuses.
AnswerAtOnce ==
  /\ open /\ toServer # <<>>
  /\ toClient' = Append(toClient, Head(toServer))
  /\ toServer' = Tail(toServer)
  /\ UNCHANGED <<open, queued, clientVars, lossVars>>

Enqueue ==
  /\ open /\ toServer # <<>>
  /\ Head(toServer).cmd = "CC"
  /\ queued' = Append(queued, Head(toServer))
  /\ toServer' = Tail(toServer)
  /\ UNCHANGED <<open, toClient, clientVars, lossVars>>

\* check_and_push has no result to look at: if the queue, which all clients share, is
\* full, the request is gone.
Discard ==
  /\ open /\ toServer # <<>>
  /\ Head(toServer).cmd = "CC"
  /\ toServer' = Tail(toServer)
  /\ dropped' = dropped + 1
  /\ UNCHANGED <<open, queued, toClient, clientVars, strays>>

\* The queue thread answers when it gets to it, on the descriptor number the request
\* was read from, whatever connection that is by now.
AnswerQueued ==
  /\ open /\ queued # <<>>
  /\ toClient' = Append(toClient, Head(queued))
  /\ queued' = Tail(queued)
  /\ UNCHANGED <<open, toServer, clientVars, lossVars>>

CloseConnection ==
  /\ open
  /\ open' = FALSE
  /\ UNCHANGED <<toServer, queued, toClient, clientVars, lossVars>>

ServerStep == AnswerAtOnce \/ Enqueue \/ Discard \/ AnswerQueued \/ CloseConnection

Next == ClientStep \/ ServerStep

Spec == Init /\ [][Next]_vars

-----------------------------------------------------------------------------
\* Types of the client's state and of the connection.  What the exchange thread goes
\* on with is always a message it read.
TypeOK ==
  /\ main \in {"hello", "wait", "run"}
  /\ is_accept_from_srv \in BOOLEAN /\ alive \in BOOLEAN /\ open \in BOOLEAN
  /\ exchange \in {"idle", "read", "reread"}
  /\ rev \in Messages \cup {NoRev}
  /\ (exchange = "idle" /\ requests > 0) => rev \in Messages
  /\ since_msg \in 0 .. MSG_INTERVAL /\ since_keep \in 0 .. KEEP_INTERVAL
  /\ requests \in 0 .. MaxRequests /\ watchdogs \in 0 .. MaxWatchdogs
  /\ unmatched \in 0 .. MaxRequests
  /\ toServer \in Seq(Messages) /\ queued \in Seq(CreditAnswers)
  /\ toClient \in Seq(Messages)
  /\ strays \in 0 .. MaxStrays /\ dropped \in Nat

Reading == exchange \in {"read", "reread"}

\* The credit-control messages, strays among them, that are on their way from the
\* client through the server to the client.
Coming ==
  {m \in CreditAnswers :
     \/ \E i \in DOMAIN toServer : toServer[i] = m
     \/ \E i \in DOMAIN queued : queued[i] = m
     \/ \E i \in DOMAIN toClient : toClient[i] = m}

\* The exchange thread blocks in read while no credit-control answer is on its way to
\* it only if a full queue discarded more of its requests than it had answers to
\* spare: strays, and those left behind by rounds that met two watchdog answers.  It
\* reads a second time on some answers, and must never do so once too often.
AnswerComing == (Reading /\ open /\ dropped <= strays + unmatched) => Coming # {}

\* Without strays, as long as it has not met two watchdog answers in one round, the
\* exchange thread is started by the server's acceptance, and leaves each round with
\* the answer to the very request it sent, whatever the queue discards.
OwnAnswer ==
  (strays = 0) =>
    /\ main = "run" => is_accept_from_srv
    /\ (exchange = "idle" /\ unmatched = 0 /\ requests > 0) => rev = Credit(requests)

\* A stray that main took for the server's acceptance.
Misled == main = "run" /\ ~is_accept_from_srv

\* How far the exchange thread lags behind its requests: each stray and each round
\* that met two watchdog answers leaves one credit-control answer behind, each request
\* discarded and a stray that misled main take one away, and nothing else does either.
LagsByUnmatched ==
  /\ open => Cardinality(Coming) + dropped + (IF Misled THEN 1 ELSE 0)
               = strays + unmatched + (IF Reading THEN 1 ELSE 0)
  /\ 2 * unmatched <= watchdogs
=============================================================================
