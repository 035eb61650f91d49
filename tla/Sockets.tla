------------------------------ MODULE Sockets -------------------------------
(***************************************************************************)
(* What the server has around it, as far as its own calls can tell: the    *)
(* clients, the kernel's stream sockets, the descriptor table, and an      *)
(* epoll instance in edge-triggered mode.  External to src/: modelled from *)
(* the calls in NIOQueueServer.c and packet_process.c.                     *)
(***************************************************************************)
EXTENDS Integers, Sequences, FiniteSetsExt

CONSTANTS
  Conns,     \* the connections clients make, one each
  NoConn,    \* what a descriptor not in use refers to
  Script,    \* Script[c]: the commands of the requests c sends, in order
  MAX_FDS    \* descriptors the process has left for connections

ASSUME SocketAssumption ==
  /\ IsFiniteSet(Conns) /\ NoConn \notin Conns
  /\ MAX_FDS \in Nat \ {0}
  /\ Script \in [Conns -> Seq({"CER", "DWR", "CCR"})]

Fds == 1 .. MAX_FDS
SFD == 0     \* the listening socket

Requests == UNION {{[conn |-> c, num |-> i] : i \in DOMAIN Script[c]} : c \in Conns}
Command(r) == Script[r.conn][r.num]

VARIABLES
  peer,      \* what the far end of each connection has done last
  sent,      \* how many requests each client has sent...
  half,      \* ... and whether only the header of the last one is out yet
  taken,     \* how many requests of each connection were read, or begun to be
  backlog,   \* the connections that wait for accept
  fds,       \* the connection each descriptor refers to
  closed,    \* the connections the server has closed
  ready,     \* epoll's ready list: descriptors with an edge not yet reported
  alive      \* FALSE: a signal has killed the process

clientVars == <<peer, sent, half>>
socketVars == <<clientVars, taken, backlog, fds, closed, ready, alive>>

SocketType ==
  /\ peer \in [Conns -> {"none", "open", "fin", "rst"}]
  /\ sent \in [Conns -> Nat]
  /\ half \in [Conns -> BOOLEAN]
  /\ taken \in [Conns -> Nat]
  /\ backlog \in Seq(Conns)
  /\ fds \in [Fds -> Conns \cup {NoConn}]
  /\ closed \subseteq Conns
  /\ ready \subseteq Fds \cup {SFD}
  /\ alive \in BOOLEAN

InitSockets ==
  /\ peer = [c \in Conns |-> "none"]
  /\ sent = [c \in Conns |-> 0]
  /\ half = [c \in Conns |-> FALSE]
  /\ taken = [c \in Conns |-> 0]
  /\ backlog = <<>>
  /\ fds = [f \in Fds |-> NoConn]
  /\ closed = {}
  /\ ready = {}
  /\ alive = TRUE

-----------------------------------------------------------------------------
(* Clients.  Each of their actions is an edge on the descriptor it reaches. *)

FdsOf(c) == {f \in Fds : fds[f] = c}
Edge(c) == ready' = ready \cup FdsOf(c)
Talking(c) == peer[c] = "open" /\ c \notin closed

Connect(c) ==
  /\ peer[c] = "none"
  /\ peer' = [peer EXCEPT ![c] = "open"]
  /\ backlog' = Append(backlog, c)
  /\ ready' = ready \cup {SFD}
  /\ UNCHANGED <<sent, half, taken, fds, closed, alive>>

\* A request arrives whole, or its header in a segment of its own.
Send(c, whole) ==
  /\ Talking(c) /\ ~half[c] /\ sent[c] < Len(Script[c])
  /\ sent' = [sent EXCEPT ![c] = @ + 1]
  /\ half' = [half EXCEPT ![c] = ~whole]
  /\ Edge(c)
  /\ UNCHANGED <<peer, taken, backlog, fds, closed, alive>>

SendBody(c) ==
  /\ Talking(c) /\ half[c]
  /\ half' = [half EXCEPT ![c] = FALSE]
  /\ Edge(c)
  /\ UNCHANGED <<peer, sent, taken, backlog, fds, closed, alive>>

\* The client closes in order ("fin"), or the connection is reset ("rst").
Leave(c, how) ==
  /\ c \notin closed
  /\ peer[c] = "open" \/ (peer[c] = "fin" /\ how = "rst")
  /\ peer' = [peer EXCEPT ![c] = how]
  /\ Edge(c)
  /\ UNCHANGED <<sent, half, taken, backlog, fds, closed, alive>>

ClientStep ==
  \E c \in Conns :
    \/ Connect(c)
    \/ \E whole \in BOOLEAN : Send(c, whole)
    \/ SendBody(c)
    \/ \E how \in {"fin", "rst"} : Leave(c, how)

-----------------------------------------------------------------------------
(* System calls *)

HeaderThere(c) == taken[c] < sent[c]
BodyThere(c) == ~(half[c] /\ taken[c] = sent[c])

\* What the poll mask of a descriptor shows.
HasEvent(f) ==
  IF f = SFD THEN backlog # <<>>
  ELSE fds[f] # NoConn /\ (HeaderThere(fds[f]) \/ peer[fds[f]] # "open")

\* epoll_wait: of the edges, those whose mask is not empty, up to max of them.
\* EPOLLERR comes with a reset.
EpollWait(max, batch) ==
  LET due == {f \in ready : HasEvent(f)} IN
  /\ due # {}
  /\ \E S \in SUBSET due :
       /\ Cardinality(S) = (IF Cardinality(due) <= max THEN Cardinality(due) ELSE max)
       /\ batch = {[fd |-> f, err |-> f # SFD /\ peer[fds[f]] = "rst"] : f \in S}
       /\ ready' = ready \ S
  /\ UNCHANGED <<clientVars, taken, backlog, fds, closed, alive>>

FreeFds == {f \in Fds : fds[f] = NoConn}

\* accept fails with EAGAIN, or with EMFILE.
NothingToAccept == backlog = <<>> \/ FreeFds = {}

\* accept and epoll_ctl: the lowest free descriptor, ready at once if there is
\* something to report.
AcceptOne ==
  LET f == Min(FreeFds)
      c == Head(backlog)
  IN  /\ ~NothingToAccept
      /\ fds' = [fds EXCEPT ![f] = c]
      /\ backlog' = Tail(backlog)
      /\ ready' = IF HeaderThere(c) \/ peer[c] # "open" THEN ready \cup {f} ELSE ready
      /\ UNCHANGED <<clientVars, taken, closed, alive>>

\* read takes a header out of the receive buffer.
TakeHeader(c) ==
  /\ HeaderThere(c)
  /\ taken' = [taken EXCEPT ![c] = @ + 1]
  /\ UNCHANGED <<clientVars, backlog, fds, closed, ready, alive>>

\* close: the descriptor is free for the next accept.
CloseFd(f) ==
  /\ closed' = closed \cup {fds[f]}
  /\ fds' = [fds EXCEPT ![f] = NoConn]
  /\ ready' = ready \ {f}
  /\ UNCHANGED <<clientVars, taken, backlog, alive>>

\* write reaches whatever connection the descriptor refers to now, if any.  On a
\* connection that was reset it fails, or raises SIGPIPE, which nobody handles.
Write(f, to) ==
  /\ \/ fds[f] = NoConn /\ to = NoConn /\ UNCHANGED alive
     \/ fds[f] # NoConn /\ peer[fds[f]] # "rst" /\ to = fds[f] /\ UNCHANGED alive
     \/ fds[f] # NoConn /\ peer[fds[f]] = "rst" /\ to = NoConn /\ alive' \in BOOLEAN
  /\ UNCHANGED <<clientVars, taken, backlog, fds, closed, ready>>
=============================================================================
