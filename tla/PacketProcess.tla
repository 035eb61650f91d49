--------------------------- MODULE PacketProcess ----------------------------
(***************************************************************************)
(* One message after the other, from the dictionary to the far end: both   *)
(* programs load the dictionary; the client fills a request in and packs   *)
(* it (process_write, Client/main.c); the server reads it, unpacks it and  *)
(* packs an answer (packet_process.c); the client reads that and unpacks   *)
(* it.  Who runs when is the subject of NIOQueueServer and Client: here    *)
(* each request is answered before the next one.                           *)
(***************************************************************************)
EXTENDS BaseReceive, UtilityGenMessage

CONSTANTS
  MAX_EXCHANGES,   \* requests in a behaviour
  Cuts             \* how much a read that returns too little may return

ASSUME PacketAssumption == MAX_EXCHANGES \in Nat /\ Cuts \subseteq Nat

VARIABLES
  phase,      \* what is being done to the message in hand
  msg,        \* that message, as its sender sees it
  making,     \* the stack of generate_avp_msg, while it makes that message's AVPs
  result,     \* the Result-Code the server has decided on
  accepted,   \* is_accept_from_srv
  exchanges,  \* requests sent
  whole       \* every read has returned all it was asked for, or all there was

vars == <<dictVars, packVars, recVars, phase, msg, making, result, accepted, exchanges, whole>>

NoResult == 0
TypeDef == [t \in 0 .. Len(DIA_TYPE_STR) - 1 |-> hashmapi_get(maps.data_type_def, t)]
-----------------------------------------------------------------------------
(* Making a message: base_message.c.  The recursion of gen_avp_child is the *)
(* stack `making': its bottom is generate_avp_msg, above it are the groups   *)
(* being filled; `rest' is what is still to be made in each, `made' the AVPs *)
(* it has.  A leaf gets its value as it is made, though auto_set_all_avp     *)
(* goes over the finished tree: nothing looks at a value before.             *)

Wanted(info) ==
  DIA_MULTI_STR[info.multiplicity + 1] \in {"1", "1+", "0+"}

CommandInfo(code, r) ==
  LET name == IF code * 10 + r \in Number
              THEN hashmapi_get(maps.cmd_map_name, code * 10 + r) ELSE NULL
  IN  IF name = NULL THEN NULL ELSE hashmap_get(maps.avp_in_msg, name)

create_new_send_msg(ver, code, r, e, p, t) ==
  [version |-> ver, command_code |-> code, rFlag |-> r, flag |-> gen_flag_value(r, p, e, t),
   app_id |-> 0, hop_hop_id |-> 12345, end_end_id |-> 56823, all_avp_msg |-> <<>>]

create_new_avp_msg(avp_rep, value, children) ==
  [avp_rep |-> avp_rep, value |-> value, child_avp |-> children]

\* Mutant of set_avp_message: it gives up after the first AVP.
SetIfFirst(m, val, avp_code) ==
  IF m.all_avp_msg[1].avp_rep.code = avp_code THEN [m EXCEPT !.all_avp_msg[1].value = val]
  ELSE m

\* The value of the first AVP with that code.
set_avp_message(m, val, avp_code) ==
  LET coded == {i \in DOMAIN m.all_avp_msg : m.all_avp_msg[i].avp_rep.code = avp_code}
  IN  IF coded = {} THEN m
      ELSE [m EXCEPT !.all_avp_msg[Least(coded)].value = val]

\* Where the sender goes on to pack what it has filled in.
Packing(m) ==
  /\ msg' = m
  /\ StartMessage(m)
  /\ phase' = "pack"
  /\ UNCHANGED alive

\* Where a NULL pointer is followed.
Dies == alive' = FALSE /\ UNCHANGED <<packVars, phase, msg, making>>

\* The head of generate_avp_msg.  A command nobody defined has no avp_info.
generate_avp_msg(m) ==
  LET info == CommandInfo(m.command_code, m.rFlag)
  IN  IF info = NULL THEN Dies
      ELSE /\ msg' = m
           /\ making' = <<[avp_rep |-> NULL, rest |-> Elements(info.all_avp), made |-> <<>>]>>
           /\ phase' = "make"
           /\ UNCHANGED <<packVars, alive>>

Filling == making[Len(making)]
Outside == SubSeq(making, 1, Len(making) - 1)

Made(stack, avp) == [stack EXCEPT ![Len(stack)].made = Append(@, avp)]

\* A name nobody defined has no avp_rep, a type nobody defined no basic type, and
\* a command that is none of three no value: each is followed all the same.
gen_avp_child(stack, name) ==
  LET avp == AvpNamed(name)
      rep == avps[avp]
      parent == TypeDef[rep.type]
      val == manual_set_all_avp_value(rep, msg.command_code, msg.rFlag, TypeDef)
      isLost == \/ avp = NoAvp
                \/ ~IsGrouped(rep) /\ (parent = NULL \/ (HasData(parent) /\ val = NULL))
  IN  IF isLost THEN Dies
      ELSE /\ making' = IF IsGrouped(rep)
                        THEN Append(stack, [avp_rep |-> rep, rest |-> Elements(rep.childrens),
                                            made |-> <<>>])
                        ELSE Made(stack, create_new_avp_msg(rep, val, <<>>))
           /\ UNCHANGED <<packVars, phase, msg, alive>>

\* A round of the loop of generate_avp_msg, or of gen_avp_child.
MakeAvp ==
  /\ Filling.rest # <<>>
  /\ LET next == Head(Filling.rest)
         stack == [making EXCEPT ![Len(making)].rest = Tail(@)]
     IN  IF Len(making) > 1 THEN gen_avp_child(stack, next.avp_name)
         ELSE IF Wanted(next) THEN gen_avp_child(stack, next.name)
         ELSE making' = stack /\ UNCHANGED <<packVars, phase, msg, alive>>

MadeGroup ==
  /\ Len(making) > 1 /\ Filling.rest = <<>>
  /\ making' = Made(Outside, create_new_avp_msg(Filling.avp_rep, NULL, Filling.made))
  /\ UNCHANGED <<packVars, phase, msg, alive>>

\* An answer gets its Result-Code at last.
MadeMessage ==
  /\ Len(making) = 1 /\ Filling.rest = <<>>
  /\ making' = <<>>
  /\ LET m == [msg EXCEPT !.all_avp_msg = Filling.made]
     IN  Packing(IF result = NoResult THEN m ELSE set_avp_message(m, result, 268))
-----------------------------------------------------------------------------
Init ==
  /\ DictInit
  /\ packet = create_new_msg_packet(MESSAGE_HEADER_LEN) /\ open = <<>>
  /\ rev = create_new_receive_packet /\ reading = <<>>
  /\ phase = "load" /\ msg = NULL /\ making = <<>> /\ result = NoResult
  /\ accepted = FALSE /\ exchanges = 0 /\ whole = TRUE

In(p) == alive /\ phase = p

Load ==
  /\ In("load")
  /\ IF Loaded THEN phase' = "idle" /\ UNCHANGED dictVars
     ELSE read_config /\ UNCHANGED phase
  /\ UNCHANGED <<packVars, recVars, msg, making, result, accepted, exchanges, whole>>

\* The client's next request: the capabilities first, then of either other kind.
process_write(code) ==
  /\ In("idle") /\ exchanges < MAX_EXCHANGES
  /\ (exchanges = 0) = (code = CAPABILITIES_EXCHANGE)
  /\ exchanges' = exchanges + 1
  /\ result' = NoResult
  /\ generate_avp_msg(create_new_send_msg(1, code, 1, 0, 0, 0))
  /\ UNCHANGED <<doc, pass, at, cmd, maps, avps, junk, recVars, accepted, whole>>

Make ==
  /\ In("make")
  /\ MakeAvp \/ MadeGroup \/ MadeMessage
  /\ UNCHANGED <<doc, pass, at, cmd, maps, avps, junk, recVars, result, accepted, exchanges, whole>>

Pack ==
  /\ In("pack")
  /\ create_send_data(TypeDef)
  /\ phase' = IF open' = <<>> THEN "sent" ELSE "pack"
  /\ UNCHANGED <<dictVars, recVars, msg, making, result, accepted, exchanges, whole>>

Zeros(n) == [i \in 1 .. n |-> 0]

\* What memset and a read of n bytes leave in a buffer of len.
Buffer(bytes, len) ==
  [data |-> bytes \o Zeros(len - Len(bytes)), max_size |-> len, position |-> 0]

\* read returns all it is asked for, all there is, or less than that.
All(asked, there) == IF asked < there THEN asked ELSE there
Counts(asked, there) == {n \in Cuts : n < All(asked, there)} \cup {All(asked, there)}

\* A header, and as much as it says: whatever either read returns is taken for
\* all of it, unless it is nothing.
process_read ==
  /\ In("sent")
  /\ \E n \in Counts(MESSAGE_HEADER_LEN, Len(packet.data)) :
       LET header == unpack_message_header(
                       Buffer(SubSeq(packet.data, 1, n), MESSAGE_HEADER_LEN))
           rest == SubSeq(packet.data, n + 1, Len(packet.data))
       IN  IF header.data_len < 0
           THEN Dies /\ whole' = (whole /\ n = MESSAGE_HEADER_LEN) /\ UNCHANGED recVars
           ELSE \E k \in Counts(header.data_len, Len(rest)) :
                  /\ rev' = [header EXCEPT !.packet = Buffer(SubSeq(rest, 1, k), header.data_len)]
                  /\ whole' = (whole /\ n = MESSAGE_HEADER_LEN
                                     /\ k = All(header.data_len, Len(rest)))
                  /\ phase' = IF k = 0 THEN "closed" ELSE "read"
                  /\ UNCHANGED <<packVars, msg, making, reading, alive>>
  /\ UNCHANGED <<doc, pass, at, cmd, maps, avps, junk, result, accepted, exchanges>>

\* The client unpacks every answer, the server only the requests it answers at
\* once; one it queues goes on to the answer with its data as it came.
Unpacked == result # NoResult \/ rev.command_code \in {CAPABILITIES_EXCHANGE, DEVICE_WATCHDOG}

Dispatch ==
  /\ In("read")
  /\ IF Unpacked THEN phase' = "unpack" /\ unpack_message_data
     ELSE phase' = "answer" /\ UNCHANGED recVars
  /\ UNCHANGED <<dictVars, packVars, msg, making, result, accepted, exchanges, whole>>

UnpackStep ==
  /\ In("unpack")
  /\ Unpack
  /\ phase' = IF reading' # <<>> THEN "unpack"
              ELSE IF result = NoResult THEN "answer" ELSE "received"
  /\ UNCHANGED <<doc, pass, at, cmd, maps, avps, junk, packVars, msg, making, result, accepted, exchanges,
                 whole>>

\* process_gen_init_con, _keep_con, _response, and _response_error, which has
\* no answer to a command that is not one of two.
process_gen(res) ==
  LET code == rev.command_code
      is_req == IF rev.flags.r # 0 THEN 0 ELSE 1
      known == res = 2001 \/ code \in {CAPABILITIES_EXCHANGE, CREDIT_CONTROL}
  IN  IF known THEN generate_avp_msg(create_new_send_msg(1, code, is_req, 0, 0, 0)) ELSE Dies

\* Only requests that pass through the queue can be refused (3001).
Answer ==
  /\ In("answer")
  /\ \E res \in IF Unpacked THEN {2001} ELSE {2001, 3001} :
       result' = res /\ process_gen(res)
  /\ UNCHANGED <<doc, pass, at, cmd, maps, avps, junk, recVars, accepted, exchanges, whole>>

ResultCode == get_avp_receive_by_code(268)

\* The client, once it has unpacked an answer.
check_accept_from_srv ==
  /\ In("received")
  /\ IF accepted \/ rev.command_code # CAPABILITIES_EXCHANGE
     THEN phase' = "idle" /\ UNCHANGED <<accepted, alive>>
     ELSE IF ResultCode = NULL THEN alive' = FALSE /\ UNCHANGED <<accepted, phase>>
     ELSE /\ accepted' = (ResultCode.value = 2001)
          /\ phase' = IF accepted' THEN "idle" ELSE "closed"
          /\ UNCHANGED alive
  /\ UNCHANGED <<doc, pass, at, cmd, maps, avps, junk, packVars, recVars, msg, making, result,
                 exchanges, whole>>

Next ==
  \/ Load
  \/ \E code \in {CAPABILITIES_EXCHANGE, CREDIT_CONTROL, DEVICE_WATCHDOG} : process_write(code)
  \/ Make
  \/ Pack
  \/ process_read
  \/ Dispatch
  \/ UnpackStep
  \/ Answer
  \/ check_accept_from_srv

\* Only here may everything stop: no request left, a connection given up, a
\* process gone.
Stopped ==
  /\ ~alive \/ phase = "closed" \/ (phase = "idle" /\ exchanges = MAX_EXCHANGES)
  /\ UNCHANGED vars

Spec == Init /\ [][Next \/ Stopped]_vars
-----------------------------------------------------------------------------
TypeOK ==
  /\ doc \in Docs /\ pass \in 1 .. 3 /\ at \in 1 .. Len(doc) + 1 /\ cmd \in Nat \ {0}
  /\ alive \in BOOLEAN /\ accepted \in BOOLEAN /\ whole \in BOOLEAN
  /\ exchanges \in 0 .. MAX_EXCHANGES
  /\ result \in {NoResult, 2001, 3001}
  /\ phase \in {"load", "idle", "make", "pack", "sent", "read", "unpack", "answer", "received",
               "closed"}
  /\ \A i \in DOMAIN packet.data : packet.data[i] \in 0 .. 255
  /\ packet.position = Len(packet.data)

\* dictionary_reader.h:8-13 -- when read_config has returned, no definition is
\* hidden or displaced by what was put into the maps after it, but for one of its
\* key.  (No map changes later.)
LastDefinitionFound == phase = "idle" /\ exchanges = 0 => LastDefinitionsAnswer

\* packet_process.c:4 -- what is read as a header is the header that was written,
\* and it announces exactly the bytes behind it.
HeaderArrives ==
  phase = "read" /\ whole =>
    /\ rev.command_code = msg.command_code /\ rev.version = msg.version
    /\ rev.flags = unpack_message_flag(msg.flag)
    /\ rev.app_id = msg.app_id
    /\ rev.hop_hop_id = msg.hop_hop_id /\ rev.end_end_id = msg.end_end_id
    /\ rev.data_len = Len(packet.data) - MESSAGE_HEADER_LEN

\* The AVP with that code that the decoder knows is the one that was packed.
SameRep(sent, received) == sent.avp_rep = avps[received.avp]

\* The lists of a message, sent and received side by side, by the depth they are
\* found at: no group is in itself, so none is deeper than the dictionary is long.
Lists(sent, received) ==
  LET at_depth[n \in 0 .. Len(avps)] ==
        IF n = 0 THEN {<<sent, received>>}
        ELSE UNION {{<<p[1][i].child_avp, p[2][i].child_avp>> :
                       i \in {k \in DOMAIN p[1] \cap DOMAIN p[2] : SameRep(p[1][k], p[2][k])}} :
                    p \in at_depth[n - 1]}
  IN  UNION {at_depth[n] : n \in 0 .. Len(avps)}

SameAvp(sent, received) ==
  LET rep == sent.avp_rep
      is64 == TypeDef[rep.type] \in DiaType({"Integer64", "Unsigned64"})
  IN  /\ received.avp = AvpCoded(rep.code)
      /\ received.flags.m = rep.mandatory
      /\ SameRep(sent, received) =>
           /\ rep.vendor_bit = 1 => received.vendor = rep.vendor
           /\ ~is64 => received.value = sent.value

SameAvps(sent, received) ==
  \A p \in Lists(sent, received) :
    Len(p[1]) = Len(p[2]) /\ \A i \in DOMAIN p[1] : SameAvp(p[1][i], p[2][i])

\* The round trip that main prints (NIOQueueServer.c:105-147): the AVPs found in a
\* message are those packed into it, in order and at every depth, with the vendor
\* and value they were given; one whose code a later AVP of the dictionary has too
\* is found as that AVP, with whatever value, and upsets none of the others.  (A
\* 64-bit value is only added to what was there.)
RoundTrip ==
  whole /\ (phase = "received" \/ (phase = "answer" /\ Unpacked)) =>
    SameAvps(msg.all_avp_msg, rev.all_avp_msg)

\* Client/main.c:34 -- the client finds the Result-Code the server decided on
\* in every answer, through both codecs.
ResultArrives ==
  phase = "received" /\ whole => ResultCode # NULL /\ ResultCode.value = result

\* Neither program crashes or gives the connection up as long as no read returns
\* less than there is.
Survival == whole => alive /\ phase # "closed"
=============================================================================
