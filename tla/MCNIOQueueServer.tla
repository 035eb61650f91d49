-------------------------- MODULE MCNIOQueueServer --------------------------
(***************************************************************************)
(* Instances of the server for TLC.                                        *)
(***************************************************************************)
EXTENDS NIOQueueServer

CONSTANTS c1, c2

ServerData == [rev : Requests, efd : Fds]

\* One client whose requests take every path: inline, queued, dropped and refused; as
\* many for the queue as use each slot of a ring of 2 twice.
OneClient == [c \in {c1} |-> <<"CCR", "CCR", "CER", "CCR", "CCR">>]

\* Two clients that compete for descriptors.
TwoClients == [c \in {c1, c2} |-> IF c = c1 THEN <<"CCR", "CCR">> ELSE <<"CCR">>]
=============================================================================
