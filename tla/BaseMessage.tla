---------------------------- MODULE BaseMessage -----------------------------
(***************************************************************************)
(* The encoder, message/base_message.c.  A message is packed AVP by AVP    *)
(* into a byte array that grows by doubling; the length of a message, of a *)
(* group, of an AVP is written in a place left for it once all that is in  *)
(* it has been.                                                            *)
(*                                                                         *)
(* The recursion of create_avp_data is the stack `open': its bottom is the *)
(* message, above it are the groups being written, `rest' is what is still *)
(* to be written in each and `before' where it began.                      *)
(***************************************************************************)
EXTENDS MessageData

MESSAGE_HEADER_LEN == 20
AVP_HEADER_LEN == 8

VARIABLES packet, open
packVars == <<packet, open>>
-----------------------------------------------------------------------------
(* The packet.  `overrun' is not in the struct: bytes were written behind  *)
(* the end of the array.                                                   *)

create_new_msg_packet(init_size) ==
  [data |-> <<>>, max_size |-> init_size, position |-> 0, overrun |-> FALSE]

\* Mutant of expand_msg_packet: what is to be written is left out of the test.
ExpandWhenFull(p, n) == IF p.position > p.max_size THEN 2 * p.max_size ELSE p.max_size

\* Every put_* makes room by doubling the array once, then writes.
expand_msg_packet(p, n) ==
  IF p.position + n > p.max_size THEN 2 * p.max_size ELSE p.max_size

Put(p, bytes) ==
  LET n == Len(bytes)
      max_size == expand_msg_packet(p, n)
  IN  [data |-> p.data \o bytes, max_size |-> max_size, position |-> p.position + n,
       overrun |-> p.overrun \/ p.position + n > max_size]

Byte(value, scale) == (value \div scale) % 256

BigEndian3(value) == <<Byte(value, 65536), Byte(value, 256), Byte(value, 1)>>
BigEndian4(value) == <<Byte(value, 16777216)>> \o BigEndian3(value)

put_byte(p, value) == Put(p, <<value % 256>>)
put_flex_int(p, value) == Put(p, BigEndian3(value))    \* num_byte is always 3
put_int32(p, value) == Put(p, BigEndian4(value))

\* Of a value that fits in 32 bits, as all the program's do: the upper half
\* repeats the sign.
put_int64(p, value) ==
  LET sign == IF value < 0 THEN 255 ELSE 0
  IN  Put(p, <<sign, sign, sign, sign>> \o BigEndian4(value))

\* Mutant of put_str: the position is not moved.
PutStrInPlace(p, str) == [Put(p, str) EXCEPT !.position = p.position]

put_str(p, str) == Put(p, str)

\* The three bytes behind pos, overwritten in place.
Patch(p, pos, value) ==
  [p EXCEPT !.data = [i \in DOMAIN @ |-> IF i - pos \in 1 .. 3 THEN BigEndian3(value)[i - pos]
                                         ELSE @[i]]]
-----------------------------------------------------------------------------
gen_flag_value(r, p, e, t) == (r * 128) + (p * 64) + (e * 32) + (t * 16)

gen_avp_flag(avp_rep) ==
  (avp_rep.protect * 128) + (avp_rep.mandatory * 64) + (avp_rep.vendor_bit * 32)

calculate_avp_length(len) == [length |-> len, pad_len |-> (4 - (len % 4)) % 4]

MessageHeader(msg) ==
  LET p1 == put_byte(create_new_msg_packet(MESSAGE_HEADER_LEN), msg.version)
      p2 == put_byte(put_flex_int(p1, 0), msg.flag)
      p3 == put_int32(put_flex_int(p2, msg.command_code), msg.app_id)
  IN  put_int32(put_int32(p3, msg.hop_hop_id), msg.end_end_id)

AvpHeader(p, avp_rep) ==
  LET p1 == put_byte(put_int32(p, avp_rep.code), gen_avp_flag(avp_rep))
      p2 == put_flex_int(p1, 0)
  IN  IF avp_rep.vendor_bit > 0 THEN put_int32(p2, avp_rep.vendor) ELSE p2

DiaType(types) == {convert_typestr_int(type) : type \in types}

\* `parent' is the basic type of the AVP; other types than these have no data.
put_avp_value_data(p, parent, value) ==
  CASE parent \in DiaType({"Integer32", "Unsigned32"})   -> put_int32(p, value)
    [] parent \in DiaType({"Integer64", "Unsigned64"})   -> put_int64(p, value)
    [] parent \in DiaType({"OctetString", "UTF8String"}) -> put_str(p, value)
    [] OTHER -> p

HasData(parent) ==
  parent \in DiaType({"Integer32", "Unsigned32", "Integer64", "Unsigned64", "OctetString",
                      "UTF8String"})

IsGrouped(avp_rep) == avp_rep.type \in DiaType({"Grouped"})

\* The end of create_avp_data: the length, without the padding that follows.
EndAvp(p, before) ==
  LET len == calculate_avp_length(p.position - before)
  IN  Put(Patch(p, before + 5, len.length), [i \in 1 .. len.pad_len |-> 0])
-----------------------------------------------------------------------------
Top == open[Len(open)]
Below == SubSeq(open, 1, Len(open) - 1)
AfterHead == Append(Below, [Top EXCEPT !.rest = Tail(@)])

StartMessage(msg) ==
  /\ packet' = MessageHeader(msg)
  /\ open' = <<[rest |-> msg.all_avp_msg, before |-> 0]>>

\* typeDef maps a type to its basic type, as data_type_def does.
WriteAvp(typeDef) ==
  /\ open # <<>> /\ Top.rest # <<>>
  /\ LET avp == Head(Top.rest)
         header == AvpHeader(packet, avp.avp_rep)
     IN  IF IsGrouped(avp.avp_rep)
         THEN /\ packet' = header
              /\ open' = Append(AfterHead, [rest |-> avp.child_avp, before |-> packet.position])
         ELSE /\ packet' = EndAvp(put_avp_value_data(header, typeDef[avp.avp_rep.type], avp.value),
                                  packet.position)
              /\ open' = AfterHead

EndGroup ==
  /\ Len(open) > 1 /\ Top.rest = <<>>
  /\ packet' = EndAvp(packet, Top.before)
  /\ open' = Below

\* Mutant of EndMessage: the length leaves the header out.
EndMessageBodyLength ==
  /\ Len(open) = 1 /\ Top.rest = <<>>
  /\ packet' = Patch(packet, 1, packet.position - MESSAGE_HEADER_LEN)
  /\ open' = <<>>

EndMessage ==
  /\ Len(open) = 1 /\ Top.rest = <<>>
  /\ packet' = Patch(packet, 1, packet.position)
  /\ open' = <<>>

create_send_data(typeDef) == WriteAvp(typeDef) \/ EndGroup \/ EndMessage

\* base_message.h:55 -- packing never writes behind the end of the array, which
\* each put_* grows once at most, whatever is still to be written.
NoOverrun == ~packet.overrun
=============================================================================
