# DemoDiameter in TLA+

A small Diameter server (`Server/`) and its test client (`Client/`), in C with
pthreads, epoll and libxml2.  These modules model their concurrent core (the
server's threads, the queue between them, the rate limiter, the event loop, the
client's two threads) and their data path: the dictionary and the containers it is
loaded into, the encoder, the decoder, and an exchange through all of them.

## 1. Inventory

| Component | Source (under `src/`) | State | Operations | Correct when |
|---|---|---|---|---|
| Input queue | `Server/diameter_queue_input.c` | ring `data`, `first`, `last`, `n` | `init_queue`, `push_in_queue`, `pop_from_queue`, `check_and_push` | first in, first out; consistent through every wrap-around; a full ring changes nothing |
| Rate limiter | `Server/server_threadhold.c`, `utility.c` | window start, counters, published rates | `incoming_msg` | at most `MAX_TPS` admitted per second; refused only then; rates of one window |
| Monitor thread | `Server/NIOQueueServer.c:398-409` | none of its own | clears the rates of a stale window | clears nothing that is not stale |
| Queue thread | `NIOQueueServer.c:348-396` | `is_on_reading`, `queue_suspended`, `time_start_free` | take, answer, park, resume | every queued message answered once, in order; its flags tell the truth |
| Listener thread | `NIOQueueServer.c:198-346` | the event batch, the current message | accept, read, answer, limit, push, refuse, close | one outcome per request; no edge lost; answers reach their sender |
| Packet processing | `Server/packet_process.c` | none | `process_read`, `process_gen_*` | header and body belong together; the right result code, found by the client |
| Vector | `Server/datastruct/vector.c` | array, `count`, `size` | add, set, get, delete | behaves as a sequence |
| Hash maps | `Server/datastruct/hashmap.c`, `hashmapi.c` | open-addressed table | put, get, remove, rehash | behaves as a function from keys to values |
| Message encoding | `Server/message/base_message.c`, `utility_gen_message.c` | packet buffer, its size, the position | choose and fill AVPs, pack headers, AVPs, groups | the buffer is never overrun; lengths are right at every depth |
| Message decoding | `Server/message/base_receive.c` | received bytes and position | unpack header, AVPs, groups | unpacking returns what was packed; nothing is read behind the end |
| Dictionary | `Server/conf/dictionary_reader.c`, `message_data.c` | six maps of types, vendors, AVPs and commands | `read_config` | every name and code resolves to its last definition |
| Client | `Client/main.c` | the shared socket, `is_accept_from_srv` | exchange, watchdog | each request gets its own answer |
| Not built or dead | `Server/main.c`, `monitor_transaction.*`, `input_processor.*`, `obj/`, `bin/` | | | |

How they interact.  The listener reads whole messages and answers CER and DWR itself.
Any other command goes through `incoming_msg` under `monitor_mutex`; an admitted one is
pushed under `queue_mutex`, after which the listener looks at `is_on_reading` under
`status_read_mutex` and calls `resumeQueueThread` if it is down.  The queue thread pops,
answers to the descriptor saved with the message, and parks on a condition variable
after `TIME_QUEUE_WAIT` ms.  The monitor thread shares the limiter's variables; the
two other threads share, besides the queue, the descriptor table: the queue thread
writes to descriptors that the listener closes.  Both programs load the dictionary
before anything else and never change its maps later; the encoder chooses a command's
AVPs by `avp_in_msg` and `avp_map`, the decoder finds a received code by `avp_code_name`
and `avp_map`, and both take the representation of a value from `data_type_def`.

What is hard here, and therefore what the properties are about: the park and resume
handshake, whose two flags are guarded by two different mutexes; a test and a pop in
two critical sections; descriptors reused between the reading of a request and its
answer; edge-triggered notification; seconds that end between two readings of the clock
in one call; an unlocked test followed by a locked update; and wrapped indices.  On the
data path: reads that return less than was asked for, probe chains with holes, lengths
that leave padding out while positions take it in, and buffers that double only once.
`PROJECT.json` lists each hazard at its line.

## 2. Modules

| Module | Models | Built from |
|---|---|---|
| `DiameterQueueInput` | one action formula per function of the ring buffer | |
| `BoundedFifo` | what the queue's callers rely on (abstract) | |
| `RingQueue` | any sequence of calls on the ring; refines `BoundedFifo` | `DiameterQueueInput` |
| `Utility` | the clock and `get_curr_time` | |
| `ServerThreadhold` | `incoming_msg`, cut at each reading of the clock | `Utility` |
| `MonitoringIncome` | the limiter between its caller and the monitor thread | `ServerThreadhold` |
| `CheckingQueueIn` | the queue thread, and the calls by which the listener reaches it | `DiameterQueueInput`, `Utility` |
| `QueueHandshake` | that thread with a listener reduced to push, status, resume | `CheckingQueueIn` |
| `Sockets` | clients, stream sockets, descriptor table, edge-triggered epoll (external) | |
| `NIOQueueServer` | the listener thread and the whole server; refines `QueueHandshake` and `MonitoringIncome` | `CheckingQueueIn`, `ServerThreadhold`, `Sockets` |
| `Client` | the client's threads on one connection, and what the server's two threads do to it | |
| `Vector` | `vector.c`, a function on its struct per function of the file | |
| `HashMap`, `HashMapI` | `hashmap.c`, and `hashmapi.c` as the same table with int keys | |
| `Containers` | any sequence of calls of a vector and of a map, beside what a sequence and a function would hold | `Vector`, `HashMap` |
| `MessageData` | `message_data.c`: type tables and AVP descriptions | |
| `DictionaryReader` | `read_config`, one element a step, over a document | `MessageData`, `HashMap`, `HashMapI`, `Vector` |
| `BaseMessage` | the packet buffer and the encoder, one AVP a step | `MessageData` |
| `BaseReceive` | the decoder, one AVP a step | `BaseMessage`, `DictionaryReader` |
| `UtilityGenMessage` | the values a message is filled with | `MessageData`, `Vector` |
| `PacketProcess` | an exchange: client request, server reading and answer, client reading | the five above |
| `MC*` | instances for TLC | |
| `*Proofs` | theorems and lemmas | the module of that name |

**Grain.**  A stretch of code under one mutex is one step: the variables a mutex guards
are touched nowhere else, and no thread ever holds two of these mutexes, so what other
threads do in between cannot be told from what they do before or after.  Outside the
mutexes each read or write of a shared variable is a step of its own.  A system call is
one step.  `incoming_msg` is under one mutex and still has up to three steps, because the
clock it reads three times is not guarded by any.

In `PacketProcess` one element or command of the dictionary, and one AVP made, packed or
unpacked, is a step: one thread works on a message at a time, and the steps are there to
show every intermediate map, stack and buffer.

**Program counters.**  `worker` names the place in `checking_queue_in` and
`suspendQueueThread`; `listener` the place in `listening_client` and `process_read`;
`caller` the place in `incoming_msg`; `monitor` the place in `monitoring_income`.
`Close`, `Open`, `Count` of `MonitoringIncome` are the branches of `incoming_msg`.
`pass`, `at` and `cmd` are the loops of `read_config` and `get_command`; `phase` the stage an
exchange is at; `making`, `open` and `reading` the stacks of `gen_avp_child`, `create_avp_data` and
`read_group_avp`, whose recursion they replace.

**History variables** (read by properties only): `admitted`, `pushed`, `served`, `broken`,
`dropped`, `answers`; in `Client` `unmatched`, `strays`, `dropped`; in `Containers` `want`, `holed`, `refilled`, `list`, `gone`; in `PacketProcess`
`whole` (no read has returned less than there was).

**Mutants.**  The operators whose comment begins with "Mutant of" are never used by a
specification.  Each is a plausible mistake in the definition it follows, and shows
that the property named for it in `PROJECT.json` would notice.

## 3. Abstractions and bounds

* A request is its connection and its number on that connection; its command decides
  the branch taken.  Commands are CER, DWR and CCR, the three the dictionary's client sends.
* An answer is its result code and the connection that receives it.
* In `NIOQueueServer` a header arrives whole, and so does a body; the body may come later
  than the header, or never.  Short reads are modelled where the bytes are, in `PacketProcess`.
* The clock counts seconds, as `get_curr_time` does, and is never set back.  `FirstSecond`
  is 2: the real first reading is far more than a second from `time_start_count = 0`.
* Failures of `socket`, `bind`, `listen`, `fcntl`, `epoll_ctl` and `pthread_*`, and memory
  allocation and release, are not modelled.
* SIGPIPE is: a write to a reset connection may end the process (`alive`).
* The client's clock is the age of its two timers, in ticks of `MSG_INTERVAL`; `KEEP_INTERVAL` is
  2 in the run and 15 in the code, which only makes watchdogs rarer.
* The server of `Client` is what `NIOQueueServer` does to one connection, from the moment it is
  accepted: it answers anything but credit control at once, and that at once (refused), from
  the queue, or never, when the queue is full (`Discard`).  How full it is depends on other
  clients, so any request may be discarded.  The queue may hold requests of a closed
  connection that had the same descriptor number: these strays were pushed before accept
  gave the number away, and so stand before all that this connection sends, but their answers
  are written to it, the first perhaps before the one to its capabilities exchange.
* Hash functions are parameters: `Hash[key]` is what is reduced modulo the table size, and
  the properties are about every function, the theorems literally so.
* The document is a sequence of elements, each with the attributes the dictionary of the
  repository gives its kind (`DocsAssumption`, which TLC evaluates on the two loaded): all of them
  but a vendor-id, a type-parent and, on the members of groups, a multiplicity, which may be absent.
  Which two dictionaries are loaded is in `MCPacketProcess`: they keep the kinds of AVPs, the groups within groups, an empty group, a code that two
  AVPs share, and commands that two applications define.
* A message is a sequence of bytes.  A string is its length and, in its last byte, the
  letter that tells a request's text from an answer's; the lengths are the code's.
* Memory that is never set holds a value of `Garbage`, the same in one behaviour: the vendor
  of an AVP without one, the start value of a 64-bit sum.
* Tables have `TABLE_SIZE` slots; `read_config` asks for 16 to 1024.  The array behind a table
  always has `INITIAL_SIZE` slots, 2048, of which those past the table's size are never looked at;
  the model leaves these out, and `TABLE_SIZE <= INITIAL_SIZE` is assumed.  A rehash ends the process: it
  frees the old table, reads it, and frees it again, which the C library's allocator
  answers with an abort.
* No command ends in an AVP with an unpadded string, as none of the dictionary does:
  `read_str` (`base_receive.c:52`) would take such a string for one that does not fit.
* `vector_delete` is called at the last index only.  At any other it drops the wrong element
  and frees one that is still held; the program never calls it.
* The monitor thread is in `MonitoringIncome` only: nobody else reads what it writes.

Named bounds: `MaxTime` (last second), `MaxBurst` (arrivals per window), `MaxPushed`
(messages in a handshake run), `MaxRequests`, `MaxWatchdogs` and `MaxStrays` (messages of a client,
and of the connection before it), `Script` (the requests of each client), `MAX_FDS`
(descriptors left), `MAX_LENGTH` (elements of a vector), `MAX_EXCHANGES` (exchanges in a
behaviour), `Cuts` (counts a short read may return).  The code's constants `MAX_SIZE_QUEUE`, `MAX_TPS`, `TIME_QUEUE_WAIT`
`MAX_EVENTS` and `MAX_CHAIN_LENGTH` are parameters.

## 4. Runs

| Run | Bounds | Shows |
|---|---|---|
| `ring` | 3 slots, 3 values: indices wrap independently of one another | types; indices, count and slots agree; the ring implements `BoundedFifo` |
| `income` | 4 seconds, limit 2, bursts of 3: windows are closed full, under-full and idle | at most `MAX_TPS` a second, refusals only at the limit, rates of one window |
| `monitor_race` | same | violation: a rate published between the monitor's test and its lock is erased |
| `handshake` | 2 slots, 2 values, 4 pushes, 5 seconds: the thread parks twice and the ring wraps and fills | nothing lost, doubled or reordered; the pop finds data; the flags tell the truth; only a resume before the wait strands the thread; called when parked, or busy, it empties the queue |
| `client` | 4 requests, 4 watchdogs, up to 2 strays, any request discarded, the server may close at any point: rounds with none, one and two watchdog answers, a stray before the capabilities answer | a read is in vain only through a discarded request; how far answers lag behind requests is made up of strays, discarded requests and rounds of two watchdog answers, and of nothing else |
| `missed_wakeup` | 2 pushes | violation: a message pushed just before the thread stops reading stays |
| `lost_resume` | 2 pushes | violation: a resume just before the wait is lost, and no later message makes up for it |
| `one_client` | 1 client, requests CCR CCR CER CCR CCR, queue 2, limit 2, 1 descriptor, 2 seconds, fair listener: requests are refused and dropped, each slot is used twice, the queue thread parks and is woken between two answers | every request accounted for exactly once; queued requests answered in order; the server refines `QueueHandshake` and `MonitoringIncome`; a connection with something to report is served or closed |
| `two_clients` | 2 clients, 3 CCR, 2 descriptors, queue 2, a single second | order of answers, with two connections in one queue; answers go astray only after a close or reset; no lost edge |
| `backlog_stuck` | as `two_clients`, with 1 descriptor | violation: after EMFILE a waiting connection is not accepted although a descriptor is free |
| `containers` | 4 keys of which 2 collide and one wraps around, 4 slots, chains of 3, 2 values; 5 elements in a vector of 4 cells that doubles | the map answers like a function, a removed key is missing until a hole is refilled, its count covers its slots; the vector is the list its calls have built |
| `packet_process` | 2 dictionaries, 4 exchanges of every command, reads cut at 6 places inside headers and bodies, 24 slots with many collisions, 2 values of unset memory | the dictionary resolves; the buffer is not overrun; headers, AVPs, groups and values arrive; the client finds the result code; nobody dies while reads return all there is |

`CHECK_DEADLOCK FALSE` is set where the bounds end behaviours (all seconds passed, all
requests sent and the threads blocked) and in `containers`, whose map stops at a rehash; the
ring never stops and keeps the check.  So does `packet_process`, whose specification
names the states in which everything may stop (`Stopped`).

**Fairness.**  `QueueHandshake!FairSpec` has weak fairness of the listener's steps on a
message it has in hand, of the queue thread's, and of the clock: both threads run on a
preemptive scheduler, mutexes are held for a few statements, and time passes.  Arrivals
and spurious wake-ups are not fair: nothing in the code brings them about.
`NIOQueueServer!FairSpec` has weak fairness of the listener only, which is what
`EventsHandled` rests on; clients may stop at any point.  `PacketProcess` assumes none: each
exchange is a finite sequence of steps of one thread at a time, the run visits all of
them, and the deadlock check finds none that ends short of its answer.

**`QueuedAnswersInOrder`** is checked twice, since the cases it is about do not fit into one
run: `one_client` has wrapped indices and wake-ups, `two_clients` two connections in
one queue and reused descriptors, within one second.

**A parked thread that nobody calls.**  `FlagsTellTheTruth` says what the two flags mean,
and is all the code relies on.  It does not say that a sleeper will be called: with
`is_on_reading` 1 and no resume under way the thread is `Stranded`, as `lost_resume` shows.
`OnlyEarlyResumeStrands` says that this is the one way there: every step that strands the
thread is its own `queue_suspended = 1` after a resume came too early (`NIOQueueServer.c:384`).

`ParkedThreadServes` and `BusyThreadDrains` are the two cases in which the handshake
does work: a listener that finds the thread parked *and* announced, and a thread that is
already past its check.  The two cases in between are the two violations; their windows
are the few statements of `NIOQueueServer.c:360-385`.

**`AnswerReachesSender`** states what is left of "an answer goes to the client that asked":
a descriptor number outlives its connection, so an answer can go to another client
(`NIOQueueServer.c:374`).  It shows that this needs a close by the server first, and never
happens between two open connections.  What a stray does to the client that gets it is in
`Client`: it shifts that client's answers by one for good, or, if it comes before the answer to
the capabilities exchange, keeps the client from ever sending a request (`Misled`).

## 5. Proofs

All theorems hold for every value of the constants that the named assumptions allow
(`QueueAssumption`, `TimeAssumption`, `RateAssumption`, `WaitAssumption`, `HashAssumption`,
`ContainersAssumption`, `SocketAssumption`, `ServerAssumption`, `ClientAssumption`,
`DictionaryAssumption`, `DocsAssumption`, `MemoryAssumption`, `PacketAssumption`).  Two are stronger than
a range of numbers.  `ServerAssumption` and `SocketAssumption`: there are finitely many connections,
each with a finite script of requests, what any finite stretch of the server's life has.
`DocsAssumption`: a dictionary is a sequence of elements in the shape of `dictionary.xml` – only a
`<grouped>` makes an AVP grouped, a type is one of those `message_data.c` knows, and what
`utility_gen_message.c` fills in as an int (an enumeration, the Result-Code) is of a type that is
packed as one.  Nothing is said about what it defines, how often, or in which order.

* `RingQueueProofs` – first, lemmas about the slots that the other queue proofs use too: the
  successor of the last slot (`SlotSucc`), different positions are different slots
  (`SlotsDiffer`), what a push and a pop do to `Contents` (`PushAppends`, `PopTakesHead`).  Then
  `TypeOK /\ QueueInv` is inductive.  `QueueInv` is needed because the types
  alone allow `last` to be anywhere; with it a push writes the one slot outside
  `Contents`.  On it rests `RingImplementsFifo`: each push and pop maps to `Put`, `Take` or
  `TakeEmpty` of `BoundedFifo`, or to a stutter.
* `MonitoringIncomeProofs` – the inductive invariant relates the history to the window: what
  the current second has admitted is at most what the window has (`accept_msg`), windows
  never begin in the future, and later seconds have admitted nothing.  From it follow
  `AdmissionBounded`, `RatesAlwaysAgree` and `RefusalsJustified`.
* `QueueHandshakeProofs` – `ServedInOrder` with `QueueInv` and `PopFindsData`: the queue thread is
  the only one to pop, so what it found cannot go away.  `FlagsAlwaysTrue` is
  inductive with the types alone, one case per action of the two threads; `OnlyLostResumeStrands`
  is an action property, from what each action does to the flags (`StrandStep`).

* `HashMapProofs` – what a put and a removal do to a table: a probing loop stops at the
  first round in which it may (`LeastIsLeast`, from the well-foundedness of the naturals), and
  writes that one slot (`PutWritesFirstFit`, `PutFields`, `RemoveFields`); what other keys have is
  kept (`OtherKeysKept`), and a put that does not abort is answered (`PutAnswers`).  Instantiated
  twice by the proofs of the dictionary, for names and for numbers.
* `ContainersProofs` – from these, all five properties of the `containers` run, for every hash
  function, size, chain length and number of calls.  That present keys are found is inductive with the types alone, since neither a put
  nor a removal touches a slot that another key uses (`OtherKeysKept`).  That removed keys are
  missing is not: it needs `NoGaps` (before anything is removed no free slot lies before a
  key) to show that a put does not make a second copy of its key, and `OneSlot` to show that
  the removal took the only one.  For the vector the invariant adds that no block is in the
  list twice, or the one freed could still be held.
* `ClientProofs` – the four invariants of the `client` run for any number of requests, watchdogs
  and strays.  Of the three sequences between client and server only how often they hold each
  message matters (`InTransit`), so the module begins with what appending, taking the head
  and moving do to `Occurrences`.  `AnswerComing` is not inductive: that something is on its way
  at each read follows from `Debt`, which says *how much* is, exactly, in terms of strays,
  discarded requests and rounds already spoiled.  `Debt` needs `EachOnce` (a credit-control message is in
  one place at most, so that taking one answer pays for one request), `Phases` (before the threads
  start there are only the strays and the capabilities exchange), and, for the second half of
  `LagsByUnmatched`, `Used` (each spoiled round has used up two watchdog answers).
* `NIOQueueServerProofs` – the whole server, below.
* `PacketProcessProofs` – dictionary, encoder and exchange, below.

**The server.**  `NIOQueueServerProofs!IInv` is the inductive invariant of `NIOQueueServer`, and
all five of its invariants and both its refinements follow from it.  Its parts:

* `HS!HandshakeInv`, the invariant of `QueueHandshake` read through the refinement mapping.
  Every step of the server is a step of that model or leaves its variables alone
  (`MapsToHandshake`, `ElsewhereStutters`), so the invariant is kept by the lemmas of
  `QueueHandshakeProofs` and none of the argument about the queue is repeated.
* `ServerType`; and `BatchInv`, without which `NoLostEdge` fails: a batch has one event for a
  descriptor, each open, and none for the one being served, so that a close leaves no event
  behind for the connection that gets the number next.
* `NoLostEdge` itself, inductive with these two: every step that takes an edge away
  (`WaitEvents`, `ServeEvent`, the end of a read) has a part that puts the listener there or
  finds nothing to report (`EdgesKept`, `ReadHeaderTakes`).
* `ReadInv` and `PushedInv`: a connection's requests are read in order, the one in hand is the
  last one read, and what was pushed before it has smaller numbers; each struct pushed
  names the descriptor its connection has, or had until the server closed it.  The first half
  gives `QueuedAnswersInOrder`, by `ServedInOrder`: what was served is a prefix of what was
  pushed.  The second half gives `AnswerReachesSender` for the queue thread, which answers a
  descriptor some time after it was read.
* `RequestAccounted`, which counts the places a request can be in.  Nearly every step moves none
  (`QuietMovesNone`); each of the others moves one request from one place to another
  (`MovingSteps`, `RequestMoves`), a push and a pop by what they do to `Contents`
  (`QueuedByPush`, `UnqueuedByPop`).
* `CountedInv`: the limiter has counted no more messages than were read.  Only the refinement of
  `MonitoringIncome` needs it, whose bound on bursts is here the number of requests.

TLC has checked `IInv` as an invariant of `Spec` with the constants of `OneClient.cfg` and of
`TwoClients.cfg` (252,395 and 1,285,778 states).  The refinements carry two
results of the smaller models over to the whole server: `ServerAdmissionBounded` and
`ServerHandshakeSafe`.

**Dictionary and messages.**  `PacketProcessProofs!Inv` is the inductive invariant of `PacketProcess`;
`TypeCorrect`, `NeverOverrun`, `LastIsFound` and `HeaderIsRead` follow from it.  Its parts:

* `DictInv`, how far the dictionary is read.  Each map answers, for every key that the elements
  read so far define, with the last of them (`TypesRead`, `AvpsRead`, `CommandsRead`): a put changes
  the answer of its own key only (`HashMapProofs`), and what it redefines is no longer the last.
  `LastDefinitionFound` alone speaks of the finished maps, and is not inductive.  It needs
  `MapsOK`, that the tables are tables and hold what is looked up in the next one (a code leads
  to a name, a name to an `avp_represent` there is, with a type that has a place in the table of types).
  All this is claimed while the process lives: a rehash, or a vendor nobody defined, ends it.
* The loops of `getTypeAvpNode`, of `get_command` and of `vector_add` are recursive functions;
  what they return is proved by induction over their domains (`NatSetInduction`, an induction rule
  stated with a set in place of a predicate; `VectorLoop`, `NodeLoop`).
* `SenderInv`, what is being made, packed or sent.  While `making` is filled, and then while it is
  packed, every AVP in it is one whose value fits its type (`AvpsOK`): a string has 28 bytes or
  less, an int is an int, a group holds such AVPs.  This is where the dictionary meets
  the code: `ValueFits` shows that `manual_set_all_avp_value` gives each AVP such a value,
  as long as types are based on what `DocsAssumption` allows.  The set of AVPs is existential: the invariant
  says that there is one closed under children, not which.
* `Room` (in `PackInv`): the packet was not overrun and is as large as a message header at least.
  Every put but that of a string writes less than the array's first size; a string comes behind a
  message header and an AVP header, so the array has 28 bytes at least and one doubling makes
  room for as many.  `PackingStaysInside` says the same of any messages with such strings,
  whether a dictionary has them or not.
* `ShapeInv`: the message header stands at the front, and AVPs and groups begin at multiples of
  four behind it, so that no length written back later lands in it; at the end its
  length bytes are those of the position.  With `Int32Back` and `FlexIntBack` (the bytes of a number
  give it back, sign included) that is `HeaderReadBack`, and with the bytes as they are read
  `HeaderIsRead`.  Its hypothesis `Len(packet.data) < LengthLimit` is the code's own limit: the length
  field has three bytes, and a message of 2^24 bytes or more announces too few.
* `PhaseInv` and `ReceiverInv`: where the exchange is, and that a header once read names a command of
  three bytes, so that the answer's header can be packed again.

TLC cannot evaluate `Inv` itself, whose set of AVPs is not bounded; it checks the four properties
that follow from it, in `packet_process`.

**Model-checked only.**

* Liveness (`ParkedThreadServes`, `BusyThreadDrains`, `EventsHandled`): fairness is out of the
  prover's reach.
* `RoundTrip`, `ResultArrives` and `Survival`.  They are not true of every dictionary: a code shared by a
  group and a string makes the decoder read a value as AVPs, a string without padding at the end
  of a message ends the receiver, and a command nobody defined ends the sender.  For
  dictionaries without these a proof would be an induction over trees of AVPs on both sides at
  once, the bytes between them cut at the same places.  `NeverOverrun`, `HeaderIsRead` and
  `LastIsFound` are what it would rest on.

## 6. Where code and documentation disagree

Four runs end in a violation, each with a finding in `PROJECT.json`: the missed wake-up,
the lost resume, the monitor's unlocked test, and the backlog after EMFILE.  The others
need no model checker:

* `diameter_queue_input.h:26` says that `pop_from_queue` takes the last element, and it takes
  the first; `server_threadhold.h:7` says that a message over the threshold is ignored, and
  it is answered with 3001; `ServerConfig.xml:2` announces 50 messages a second, and
  `MAX_TPS` is 10.
* `dictionary_reader.c:121-128` stores the vendor-id found through the pointer to the AVP
  before: each AVP gets the vendor of its successor.  All vendors in the dictionary are the
  same, so that only the last AVP before one without a vendor keeps unset memory.
* 13 codes of the dictionary belong to two AVPs, and `avp_code_name` keeps the later: Filter-Id
  (11) is received as 3GPP-Session-Stop-Indicator, the first 4 bytes of its value as a
  vendor.  `RoundTrip` says what becomes of the rest of such a message: nothing.
* `base_message.c` packs protected, mandatory and vendor as bits 7, 6, 5 of an AVP's flags,
  and `base_receive.c` reads vendor, mandatory and protected; only the middle one is used.
* `read_int64` (`base_receive.c:30`) adds to a result that was never set.
* `vector_delete` moves no element but one, and frees the one in the last cell.
* A rehash (`hashmapi.c:80`) uses the table it has freed.  No table of the program fills up.
* `process_gen_response_error` has no answer to a command that is not CER or CCR, and its
  caller uses the null pointer; no request of the client reaches it so.

## 7. Not modelled

* The two hash functions and the CRC (`hashmap.c`, `hashmapi.c`): parameters, see above.
* Release of memory: `vector_free`, `hashmap_free`, `hashmapi_free`, `free_base_send`,
  `free_base_receive` and the like; and running out of it (`MAP_OMEM`).  Double frees are in the
  model where they end the process.
* `calculate_len` and `get_avp_message_by_code`, which nobody calls; the printing of messages.
* Partial writes and full send buffers, failures of system calls that end a thread before
  it has begun (section 3), and a wall clock set back.
* libxml2's parsing; `dictionary.xml` itself (3GPP's data) but for its shape; `ServerConfig.xml`,
  which no code reads.
* `Server/main.c` (prints a greeting), `monitor_transaction.*` and `input_processor.*` (unused or
  empty), `obj/`, `bin/`, the project files.

## 8. Plan

Done: the queue, limiter, handshake, server and client; the containers, dictionary, codec
and packet processing; the proofs of every safety invariant of the passing runs but three.  Open:

1. The conditions on a dictionary under which `RoundTrip`, `ResultArrives` and `Survival` hold, as an
   assumption that TLC evaluates on the instances and a proof uses.
2. That the length written into an AVP is that of its header and value, the first step there.
