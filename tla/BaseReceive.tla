---------------------------- MODULE BaseReceive -----------------------------
(***************************************************************************)
(* The decoder, message/base_receive.c.  The recursion of read_group_avp   *)
(* is the stack `reading': its bottom is unpack_message_data, above it are *)
(* the groups being read, with the AVPs found in each so far.  Every read  *)
(* checks the end of the array, returns 0 when it would pass it, and stays *)
(* where it is.                                                            *)
(***************************************************************************)
EXTENDS DictionaryReader, BaseMessage

VARIABLES
  rev,        \* the base_receive: header, packet, AVPs
  reading     \* the stack
recVars == <<rev, reading>>
-----------------------------------------------------------------------------
InPacket(p, n) == p.position + n <= p.max_size
After(p, n) == IF InPacket(p, n) THEN [p EXCEPT !.position = @ + n] ELSE p

\* The byte i bytes behind the position.
Data(p, i) == p.data[p.position + i + 1]

read_byte(p) == IF InPacket(p, 1) THEN Data(p, 0) ELSE 0

\* num_byte is always 3.
read_flex_int(p) ==
  IF InPacket(p, 3) THEN (Data(p, 0) * 65536) + (Data(p, 1) * 256) + Data(p, 2) ELSE 0

\* The first byte reaches the sign bit.
read_int32(p) ==
  IF InPacket(p, 4)
  THEN (IF Data(p, 0) > 127 THEN Data(p, 0) - 256 ELSE Data(p, 0)) * 16777216
       + read_flex_int(After(p, 1))
  ELSE 0

\* `result' is added to before it is ever set.
read_int64(p) ==
  IF InPacket(p, 8) THEN junk + read_int32(After(p, 4)) ELSE 0

\* One byte too few counts as fitting: a string that ends where the packet ends
\* is not read.
StrFits(p, len) == p.position + len < p.max_size
read_str(p, len) ==
  IF StrFits(p, len) THEN SubSeq(p.data, p.position + 1, p.position + len) ELSE NULL
-----------------------------------------------------------------------------
FlagBit(flag, bit) == (flag \div 2^bit) % 2

unpack_avp_flag(flag) ==
  [v |-> FlagBit(flag, 7), m |-> FlagBit(flag, 6), p |-> FlagBit(flag, 5)]

unpack_message_flag(flag) ==
  [r |-> FlagBit(flag, 7), p |-> FlagBit(flag, 6),
   e |-> FlagBit(flag, 5), t |-> FlagBit(flag, 4)]

create_new_receive_packet == [packet |-> NULL, all_avp_msg |-> <<>>]

unpack_message_header(p) ==
  LET p1 == After(p, 1)    p4 == After(p1, 3)
      p5 == After(p4, 1)   p8 == After(p5, 3)
      p12 == After(p8, 4)  p16 == After(p12, 4)
      length == read_flex_int(p1)
  IN  [version |-> read_byte(p), length |-> length,
       flags |-> unpack_message_flag(read_byte(p4)), command_code |-> read_flex_int(p5),
       app_id |-> read_int32(p8), hop_hop_id |-> read_int32(p12),
       end_end_id |-> read_int32(p16), data_len |-> length - MESSAGE_HEADER_LEN,
       packet |-> After(p16, 4), all_avp_msg |-> <<>>]

unpack_avp_msg_header(p) ==
  LET p4 == After(p, 4)  p5 == After(p4, 1)  p8 == After(p5, 3)
      avp == AvpCoded(read_int32(p))
      vendor_bit == avp # NoAvp /\ avps[avp].vendor_bit # 0
  IN  [avp |-> avp, flags |-> unpack_avp_flag(read_byte(p4)), length |-> read_flex_int(p5),
       vendor |-> IF vendor_bit THEN read_int32(p8) ELSE NULL,
       packet |-> IF vendor_bit THEN After(p8, 4) ELSE p8]

\* The value of an AVP that is not a group, and the packet behind it.
ReadValue(p, parent, len) ==
  CASE parent \in DiaType({"Integer32", "Unsigned32"}) ->
         [value |-> read_int32(p), packet |-> After(p, 4)]
    [] parent \in DiaType({"Integer64", "Unsigned64"}) ->
         [value |-> read_int64(p), packet |-> After(p, 8)]
    [] parent \in DiaType({"OctetString", "UTF8String"}) ->
         [value |-> read_str(p, len),
          packet |-> IF StrFits(p, len) THEN [p EXCEPT !.position = @ + len] ELSE p]
    [] OTHER -> [value |-> NULL, packet |-> p]

\* Mutant of PastPadding: it is left unread.
BeforePadding(p, length) == p

\* Padding is skipped without a look at the end of the array.
PastPadding(p, length) ==
  [p EXCEPT !.position = @ + calculate_avp_length(length).pad_len]

Received(h, value, children) ==
  [avp |-> h.avp, flags |-> h.flags, vendor |-> h.vendor, value |-> value, child_avp |-> children]

Reading == reading[Len(reading)]
Outer == SubSeq(reading, 1, Len(reading) - 1)

\* Mutant of Found: padding is not counted.
FoundUnpadded(stack, avp, length) ==
  [stack EXCEPT ![Len(stack)].avps = Append(@, avp), ![Len(stack)].num_read = @ + length]

\* One more AVP for the list on top of a stack.
Found(stack, avp, length) ==
  [stack EXCEPT ![Len(stack)].avps = Append(@, avp),
                ![Len(stack)].num_read = @ + length + calculate_avp_length(length).pad_len]

More == IF Len(reading) = 1 THEN rev.packet.position < rev.data_len
        ELSE Reading.num_read < Reading.len

unpack_message_data ==
  /\ reading' = <<[avps |-> <<>>, num_read |-> 0]>>
  /\ UNCHANGED rev

\* An AVP nobody defined has no avp_rep, a type nobody defined no parent type,
\* and a string cannot have a negative length: each ends the process.
UnpackAvp ==
  /\ reading # <<>> /\ More
  /\ LET h == unpack_avp_msg_header(rev.packet)
         rep == avps[h.avp]
         len == h.length - AVP_HEADER_LEN - (IF rep.vendor_bit # 0 THEN 4 ELSE 0)
         isString == ParentType(rep) \in DiaType({"OctetString", "UTF8String"})
         known == h.avp # NoAvp /\ ParentType(rep) # NULL /\ (isString => len >= 0)
     IN  \/ /\ ~known
            /\ alive' = FALSE
            /\ UNCHANGED recVars
         \/ /\ known /\ IsGrouped(rep)
            /\ rev' = [rev EXCEPT !.packet = h.packet]
            /\ reading' = Append(reading, [avps |-> <<>>, num_read |-> 0, len |-> len, header |-> h])
            /\ UNCHANGED alive
         \/ /\ known /\ ~IsGrouped(rep)
            /\ LET r == ReadValue(h.packet, ParentType(rep), len)
               IN  /\ rev' = [rev EXCEPT !.packet = PastPadding(r.packet, h.length)]
                   /\ reading' = Found(reading, Received(h, r.value, <<>>), h.length)
            /\ UNCHANGED alive

UnpackedGroup ==
  /\ Len(reading) > 1 /\ ~More
  /\ LET h == Reading.header
     IN  /\ rev' = [rev EXCEPT !.packet = PastPadding(@, h.length)]
         /\ reading' = Found(Outer, Received(h, NULL, Reading.avps), h.length)
  /\ UNCHANGED alive

UnpackedMessage ==
  /\ Len(reading) = 1 /\ ~More
  /\ rev' = [rev EXCEPT !.all_avp_msg = Reading.avps]
  /\ reading' = <<>>
  /\ UNCHANGED alive

Unpack == UnpackAvp \/ UnpackedGroup \/ UnpackedMessage

get_avp_receive_by_code(code) ==
  LET found == SelectSeq(rev.all_avp_msg, LAMBDA a : avps[a.avp].code = code)
  IN  IF found = <<>> THEN NULL ELSE found[1]
=============================================================================
