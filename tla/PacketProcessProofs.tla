------------------------ MODULE PacketProcessProofs -------------------------
(***************************************************************************)
(* What a message and the dictionary come to, for every dictionary, hash   *)
(* function, way to read and number of requests.  In this order: packing   *)
(* stays inside its array and writes a header that is read back; when the  *)
(* dictionary is read, the maps answer with the last definition of each    *)
(* key; every message the two programs make from it can be packed; and so  *)
(* the invariant of PacketProcess, of which TypeOK, NoOverrun,             *)
(* LastDefinitionFound and HeaderArrives follow.                           *)
(***************************************************************************)
EXTENDS PacketProcess, SequenceTheorems, WellFoundedInduction, TLAPS

N == INSTANCE HashMapProofs WITH Key <- Name, Hash <- NameHash
I == INSTANCE HashMapProofs WITH Key <- Number, Hash <- NumberHash
-----------------------------------------------------------------------------
(* Packing stays inside the array *)

StringLimit == MESSAGE_HEADER_LEN + AVP_HEADER_LEN

\* What can be packed: AVPs in groups of AVPs, and no string longer than the limit.
Packable(Avps, TypeOf) ==
  \A avp \in Avps :
    IF IsGrouped(avp.avp_rep) THEN avp.child_avp \in Seq(Avps)
    ELSE TypeOf[avp.avp_rep.type] \in DiaType({"OctetString", "UTF8String"}) =>
           avp.value \in Seq(0 .. 255) /\ Len(avp.value) <= StringLimit

\* One message after another, as a sender packs them.
PackInit == packet = create_new_msg_packet(MESSAGE_HEADER_LEN) /\ open = <<>>

PackNext(Messages, TypeOf) ==
  \/ open = <<>> /\ \E m \in Messages : StartMessage(m)
  \/ create_send_data(TypeOf)

PackSpec(Messages, TypeOf) == PackInit /\ [][PackNext(Messages, TypeOf)]_packVars
-----------------------------------------------------------------------------
\* A packet that was not overrun and is as large as a message header at least:
\* one doubling makes room for whatever is no longer than it is already.
Room(p) ==
  /\ p.position \in Nat /\ p.max_size \in Nat
  /\ MESSAGE_HEADER_LEN <= p.max_size /\ p.position <= p.max_size
  /\ p.overrun = FALSE
  /\ p = [data |-> p.data, max_size |-> p.max_size, position |-> p.position,
          overrun |-> p.overrun]

\* The inductive invariant: behind the header of a message there is room, so
\* behind an AVP's header there are StringLimit bytes at least.
PackInv(Avps) ==
  /\ Room(packet)
  /\ open \in Seq([rest : Seq(Avps), before : Nat])
  /\ open # <<>> => packet.position >= MESSAGE_HEADER_LEN

\* expand_msg_packet suffices for what is no longer than the array.
LEMMA PutRoom ==
  ASSUME NEW p, NEW bytes, Room(p), Len(bytes) \in Nat, Len(bytes) <= p.max_size
  PROVE  /\ Room(Put(p, bytes))
         /\ Put(p, bytes).position = p.position + Len(bytes)
         /\ Put(p, bytes).max_size >= p.max_size
<1> DEFINE n == Len(bytes)
           size == expand_msg_packet(p, n)
<1>1. size = IF p.position + n > p.max_size THEN 2 * p.max_size ELSE p.max_size
  BY DEF expand_msg_packet
<1>2. /\ Put(p, bytes).position = p.position + n /\ Put(p, bytes).max_size = size
      /\ Put(p, bytes) = [data |-> p.data \o bytes, max_size |-> size, position |-> p.position + n,
                          overrun |-> p.overrun \/ p.position + n > size]
      /\ Put(p, bytes).overrun = (p.overrun \/ p.position + n > size)
  BY DEF Put
<1>3. n \in Nat /\ n <= p.max_size
  OBVIOUS
<1> HIDE DEF n, size
<1>4. size \in Nat /\ size >= p.max_size /\ p.position + n <= size
  BY <1>1, <1>3 DEF Room
<1>5. (p.overrun \/ p.position + n > size) = FALSE
  BY <1>3, <1>4 DEF Room
<1>6. Put(p, bytes).overrun = FALSE
  BY <1>2, <1>5, Zenon
<1>7. Room(Put(p, bytes))
  BY <1>2, <1>3, <1>4, <1>6 DEF Room, MESSAGE_HEADER_LEN
<1>8. QED
  BY <1>2, <1>4, <1>7 DEF n

\* What the fixed-size put_* write.
LEMMA FixedPuts ==
  ASSUME NEW p, NEW value, Room(p)
  PROVE  /\ Room(put_byte(p, value)) /\ put_byte(p, value).position = p.position + 1
         /\ Room(put_flex_int(p, value)) /\ put_flex_int(p, value).position = p.position + 3
         /\ Room(put_int32(p, value)) /\ put_int32(p, value).position = p.position + 4
         /\ Room(put_int64(p, value)) /\ put_int64(p, value).position = p.position + 8
<1>1. Len(<<value % 256>>) = 1
  OBVIOUS
<1>2. Len(BigEndian3(value)) = 3
  BY DEF BigEndian3
<1>3. Len(BigEndian4(value)) = 4
  BY DEF BigEndian4, BigEndian3
<1>4. \A s : Len(<<s, s, s, s>> \o BigEndian4(value)) = 8
  BY DEF BigEndian4, BigEndian3
<1>5. p.max_size \in Nat /\ p.max_size >= 20
  BY DEF Room, MESSAGE_HEADER_LEN
<1>6. Room(put_byte(p, value)) /\ put_byte(p, value).position = p.position + 1
  BY <1>1, <1>5, PutRoom DEF put_byte
<1>7. Room(put_flex_int(p, value)) /\ put_flex_int(p, value).position = p.position + 3
  <2> DEFINE bytes == BigEndian3(value)
  <2>1. Len(bytes) \in Nat /\ Len(bytes) <= p.max_size
    BY <1>2, <1>5
  <2>2. put_flex_int(p, value) = Put(p, bytes)
    BY DEF put_flex_int
  <2> HIDE DEF bytes
  <2>3. Room(Put(p, bytes)) /\ Put(p, bytes).position = p.position + Len(bytes)
    BY <2>1, PutRoom
  <2>4. QED
    BY <1>2, <2>2, <2>3 DEF bytes
<1>8. Room(put_int32(p, value)) /\ put_int32(p, value).position = p.position + 4
  <2> DEFINE bytes == BigEndian4(value)
  <2>1. Len(bytes) \in Nat /\ Len(bytes) <= p.max_size
    BY <1>3, <1>5
  <2>2. put_int32(p, value) = Put(p, bytes)
    BY DEF put_int32
  <2> HIDE DEF bytes
  <2>3. Room(Put(p, bytes)) /\ Put(p, bytes).position = p.position + Len(bytes)
    BY <2>1, PutRoom
  <2>4. QED
    BY <1>3, <2>2, <2>3 DEF bytes
<1>9. Room(put_int64(p, value)) /\ put_int64(p, value).position = p.position + 8
  <2> DEFINE sign == IF value < 0 THEN 255 ELSE 0
             bytes == <<sign, sign, sign, sign>> \o BigEndian4(value)
  <2>1. Len(bytes) = 8
    BY <1>4
  <2>2. put_int64(p, value) = Put(p, bytes)
    BY DEF put_int64
  <2> HIDE DEF bytes, sign
  <2>3. Len(bytes) \in Nat /\ Len(bytes) <= p.max_size
    BY <1>5, <2>1
  <2>4. Room(Put(p, bytes)) /\ Put(p, bytes).position = p.position + Len(bytes)
    BY <2>3, PutRoom
  <2>5. QED
    BY <2>1, <2>2, <2>4
<1>10. QED
  BY <1>6, <1>7, <1>8, <1>9

\* The header of a message fills the array it was made for.
LEMMA HeaderRoom ==
  ASSUME NEW m
  PROVE  Room(MessageHeader(m)) /\ MessageHeader(m).position = MESSAGE_HEADER_LEN
<1> DEFINE p0 == create_new_msg_packet(MESSAGE_HEADER_LEN)
           p1 == put_byte(p0, m.version)
           p2 == put_flex_int(p1, 0)
           p3 == put_byte(p2, m.flag)
           p4 == put_flex_int(p3, m.command_code)
           p5 == put_int32(p4, m.app_id)
           p6 == put_int32(p5, m.hop_hop_id)
           p7 == put_int32(p6, m.end_end_id)
<1>1. MessageHeader(m) = p7
  BY DEF MessageHeader
<1>2. Room(p0) /\ p0.position = 0
  BY DEF Room, create_new_msg_packet, MESSAGE_HEADER_LEN
<1> HIDE DEF p0
<1>3. Room(p1) /\ p1.position = 1
  BY <1>2, FixedPuts
<1> HIDE DEF p1
<1>4. Room(p2) /\ p2.position = 4
  BY <1>3, FixedPuts
<1> HIDE DEF p2
<1>5. Room(p3) /\ p3.position = 5
  BY <1>4, FixedPuts
<1> HIDE DEF p3
<1>6. Room(p4) /\ p4.position = 8
  BY <1>5, FixedPuts
<1> HIDE DEF p4
<1>7. Room(p5) /\ p5.position = 12
  BY <1>6, FixedPuts
<1> HIDE DEF p5
<1>8. Room(p6) /\ p6.position = 16
  BY <1>7, FixedPuts
<1> HIDE DEF p6
<1>9. Room(p7) /\ p7.position = 20
  BY <1>8, FixedPuts
<1> HIDE DEF p7
<1>10. QED
  BY <1>1, <1>9 DEF MESSAGE_HEADER_LEN

\* So does the header of an AVP, of eight bytes or, with a vendor, twelve.
LEMMA AvpHeaderRoom ==
  ASSUME NEW p, NEW avp_rep, Room(p)
  PROVE  Room(AvpHeader(p, avp_rep))
         /\ AvpHeader(p, avp_rep).position >= p.position + AVP_HEADER_LEN
<1> DEFINE p1 == put_int32(p, avp_rep.code)
           p2 == put_byte(p1, gen_avp_flag(avp_rep))
           p3 == put_flex_int(p2, 0)
           p4 == put_int32(p3, avp_rep.vendor)
<1>1. AvpHeader(p, avp_rep) = IF avp_rep.vendor_bit > 0 THEN p4 ELSE p3
  BY DEF AvpHeader
<1>2. Room(p1) /\ p1.position = p.position + 4
  BY FixedPuts
<1> HIDE DEF p1
<1>3. Room(p2) /\ p2.position = p1.position + 1
  BY <1>2, FixedPuts
<1> HIDE DEF p2
<1>4. Room(p3) /\ p3.position = p2.position + 3
  BY <1>3, FixedPuts
<1> HIDE DEF p3
<1>5. Room(p4) /\ p4.position = p3.position + 4
  BY <1>4, FixedPuts
<1> HIDE DEF p4
<1>6. p.position \in Nat
  BY DEF Room
<1>7. QED
  BY <1>1, <1>2, <1>3, <1>4, <1>5, <1>6 DEF AVP_HEADER_LEN

\* Writing a length back moves nothing.
LEMMA PatchRoom ==
  ASSUME NEW p, NEW pos, NEW value, Room(p)
  PROVE  Room(Patch(p, pos, value)) /\ Patch(p, pos, value).position = p.position
<1> DEFINE bytes == [i \in DOMAIN p.data |-> IF i - pos \in 1 .. 3
                                             THEN BigEndian3(value)[i - pos] ELSE p.data[i]]
<1>1. Patch(p, pos, value) = [p EXCEPT !.data = bytes]
  BY DEF Patch
<1> HIDE DEF bytes
<1>2. QED
  BY <1>1 DEF Room

\* The end of an AVP adds three bytes of padding at most.
LEMMA EndAvpRoom ==
  ASSUME NEW p, NEW before \in Nat, Room(p)
  PROVE  Room(EndAvp(p, before)) /\ EndAvp(p, before).position >= p.position
<1> DEFINE len == calculate_avp_length(p.position - before)
           pad == [i \in 1 .. len.pad_len |-> 0]
           q == Patch(p, before + 5, len.length)
<1>1. EndAvp(p, before) = Put(q, pad)
  BY DEF EndAvp
<1>2. Room(q) /\ q.position = p.position
  BY PatchRoom
<1>3. len.pad_len \in 0 .. 3
  <2>1. len.pad_len = (4 - ((p.position - before) % 4)) % 4
    BY DEF calculate_avp_length
  <2>2. p.position - before \in Int
    BY DEF Room
  <2>3. (p.position - before) % 4 \in 0 .. 3
    BY <2>2
  <2> DEFINE r == (p.position - before) % 4
  <2> HIDE DEF r
  <2>4. (4 - r) % 4 \in 0 .. 3
    BY <2>3 DEF r
  <2>5. QED
    BY <2>1, <2>4 DEF r
<1> HIDE DEF q, len
<1>4. Len(pad) \in Nat /\ Len(pad) <= 3
  BY <1>3
<1> HIDE DEF pad
<1>5. Len(pad) <= q.max_size
  BY <1>2, <1>4 DEF Room, MESSAGE_HEADER_LEN
<1>6. Room(Put(q, pad)) /\ Put(q, pad).position = q.position + Len(pad)
  BY <1>2, <1>4, <1>5, PutRoom
<1>7. q.position \in Nat
  BY <1>2 DEF Room
<1>8. QED
  BY <1>1, <1>2, <1>4, <1>6, <1>7

\* The value of an AVP that has no children: behind the two headers, one
\* doubling makes room for a string of StringLimit bytes.
LEMMA ValueRoom ==
  ASSUME NEW p, NEW parent, NEW value, Room(p), p.position >= StringLimit,
         parent \in DiaType({"OctetString", "UTF8String"}) =>
           value \in Seq(0 .. 255) /\ Len(value) <= StringLimit
  PROVE  LET q == put_avp_value_data(p, parent, value)
         IN  Room(q) /\ q.position >= p.position
<1>1. p.position \in Nat /\ p.position <= p.max_size /\ p.max_size \in Nat
  BY DEF Room
<1>2. /\ Room(put_int32(p, value)) /\ put_int32(p, value).position >= p.position
      /\ Room(put_int64(p, value)) /\ put_int64(p, value).position >= p.position
  BY <1>1, FixedPuts
<1>3. CASE parent \in DiaType({"OctetString", "UTF8String"})
  <2>1. Len(value) \in Nat /\ Len(value) <= p.max_size
    BY <1>1, <1>3 DEF StringLimit, MESSAGE_HEADER_LEN, AVP_HEADER_LEN
  <2>2. Room(put_str(p, value)) /\ put_str(p, value).position >= p.position
    BY <1>1, <2>1, PutRoom DEF put_str
  <2>3. \/ put_avp_value_data(p, parent, value) = put_int32(p, value)
        \/ put_avp_value_data(p, parent, value) = put_int64(p, value)
        \/ put_avp_value_data(p, parent, value) = put_str(p, value)
    BY <1>3 DEF put_avp_value_data
  <2>4. QED
    BY <1>2, <2>2, <2>3
<1>4. CASE parent \notin DiaType({"OctetString", "UTF8String"})
  <2>1. \/ put_avp_value_data(p, parent, value) = put_int32(p, value)
        \/ put_avp_value_data(p, parent, value) = put_int64(p, value)
        \/ put_avp_value_data(p, parent, value) = p
    BY <1>4 DEF put_avp_value_data
  <2>2. QED
    BY <1>1, <1>2, <2>1
<1>5. QED
  BY <1>3, <1>4
-----------------------------------------------------------------------------
\* A message begins with room behind its header.
LEMMA StartStep ==
  ASSUME NEW Avps, NEW m, m.all_avp_msg \in Seq(Avps), StartMessage(m)
  PROVE  PackInv(Avps)'
<1>1. Room(packet') /\ packet'.position = MESSAGE_HEADER_LEN
  BY HeaderRoom DEF StartMessage
<1>2. open' = <<[rest |-> m.all_avp_msg, before |-> 0]>>
  BY DEF StartMessage
<1>3. m.all_avp_msg \in Seq(Avps)
  OBVIOUS
<1>4. open' \in Seq([rest : Seq(Avps), before : Nat])
  BY <1>2, <1>3
<1>5. QED
  BY <1>1, <1>4 DEF PackInv, MESSAGE_HEADER_LEN

\* The innermost group, and what is left when one AVP of it is taken out.
LEMMA OpenTop ==
  ASSUME NEW Avps, PackInv(Avps), open # <<>>
  PROVE  /\ Top \in [rest : Seq(Avps), before : Nat]
         /\ Below \in Seq([rest : Seq(Avps), before : Nat])
         /\ Top.rest # <<>> =>
              /\ Head(Top.rest) \in Avps
              /\ AfterHead \in Seq([rest : Seq(Avps), before : Nat])
<1> DEFINE Groups == [rest : Seq(Avps), before : Nat]
<1>1. open \in Seq(Groups) /\ Len(open) \in Nat /\ Len(open) >= 1
  BY DEF PackInv
<1> HIDE DEF Groups
<1>2. Top \in Groups
  BY <1>1 DEF Top
<1>3. Below \in Seq(Groups)
  BY <1>1 DEF Below
<1>4. ASSUME Top.rest # <<>>
      PROVE  Head(Top.rest) \in Avps /\ AfterHead \in Seq(Groups)
  <2>1. Top.rest \in Seq(Avps) /\ Top.before \in Nat
    BY <1>2 DEF Groups
  <2>2. Head(Top.rest) \in Avps /\ Tail(Top.rest) \in Seq(Avps)
    BY <1>4, <2>1
  <2>3. [Top EXCEPT !.rest = Tail(@)] \in Groups
    BY <1>2, <2>2 DEF Groups
  <2>4. Append(Below, [Top EXCEPT !.rest = Tail(@)]) \in Seq(Groups)
    BY <1>3, <2>3
  <2>5. QED
    BY <2>2, <2>4 DEF AfterHead
<1>5. QED
  BY <1>2, <1>3, <1>4 DEF Groups

\* An AVP and its value, or a group's header, leaves room.
LEMMA WriteStep ==
  ASSUME NEW Avps, NEW TypeOf, Packable(Avps, TypeOf), PackInv(Avps), WriteAvp(TypeOf)
  PROVE  PackInv(Avps)'
<1> DEFINE Groups == [rest : Seq(Avps), before : Nat]
           avp == Head(Top.rest)
           header == AvpHeader(packet, avp.avp_rep)
           value == put_avp_value_data(header, TypeOf[avp.avp_rep.type], avp.value)
<1>1. open # <<>> /\ Top.rest # <<>>
  BY DEF WriteAvp
<1>2. avp \in Avps /\ AfterHead \in Seq(Groups)
  BY <1>1, OpenTop
<1>3. /\ packet.position \in Nat /\ packet.position >= MESSAGE_HEADER_LEN /\ Room(packet)
  BY <1>1 DEF PackInv, Room
<1>4. Room(header) /\ header.position >= packet.position + AVP_HEADER_LEN
  BY <1>3, AvpHeaderRoom
<1>5. header.position \in Nat
  BY <1>4 DEF Room
<1>6. header.position >= StringLimit
  BY <1>3, <1>4, <1>5 DEF StringLimit, MESSAGE_HEADER_LEN, AVP_HEADER_LEN
<1>7. CASE IsGrouped(avp.avp_rep)
  <2>1. /\ packet' = header
        /\ open' = Append(AfterHead, [rest |-> avp.child_avp, before |-> packet.position])
    BY <1>7 DEF WriteAvp
  <2>2. avp.child_avp \in Seq(Avps)
    BY <1>2, <1>7 DEF Packable
  <2>3. [rest |-> avp.child_avp, before |-> packet.position] \in Groups
    BY <1>3, <2>2
  <2> HIDE DEF Groups, avp, header
  <2>4. open' \in Seq(Groups)
    BY <1>2, <2>1, <2>3
  <2>5. packet'.position >= MESSAGE_HEADER_LEN
    BY <1>3, <1>4, <1>5, <2>1 DEF MESSAGE_HEADER_LEN, AVP_HEADER_LEN
  <2>6. QED
    BY <1>4, <2>1, <2>4, <2>5 DEF PackInv, Groups
<1>8. CASE ~IsGrouped(avp.avp_rep)
  <2>1. packet' = EndAvp(value, packet.position) /\ open' = AfterHead
    BY <1>8 DEF WriteAvp
  <2>2. TypeOf[avp.avp_rep.type] \in DiaType({"OctetString", "UTF8String"}) =>
          avp.value \in Seq(0 .. 255) /\ Len(avp.value) <= StringLimit
    BY <1>2, <1>8 DEF Packable
  <2> HIDE DEF avp, header
  <2>3. Room(value) /\ value.position >= header.position
    BY <1>4, <1>6, <2>2, ValueRoom
  <2> HIDE DEF value
  <2>4. Room(packet') /\ packet'.position >= value.position
    BY <1>3, <2>1, <2>3, EndAvpRoom
  <2>5. value.position \in Nat /\ packet'.position \in Nat
    BY <2>3, <2>4 DEF Room
  <2>6. packet'.position >= MESSAGE_HEADER_LEN
    BY <1>5, <1>6, <2>3, <2>4, <2>5 DEF StringLimit, MESSAGE_HEADER_LEN, AVP_HEADER_LEN
  <2>7. QED
    BY <1>2, <2>1, <2>4, <2>6 DEF PackInv
<1>9. QED
  BY <1>7, <1>8

\* The end of a group, or of the message, leaves room.
LEMMA EndStep ==
  ASSUME NEW Avps, PackInv(Avps), EndGroup \/ EndMessage
  PROVE  PackInv(Avps)'
<1>1. /\ open # <<>> /\ Room(packet) /\ packet.position >= MESSAGE_HEADER_LEN
      /\ packet.position \in Nat
  BY DEF PackInv, Room, EndGroup, EndMessage
<1>2. CASE EndGroup
  <2>1. packet' = EndAvp(packet, Top.before) /\ open' = Below
    BY <1>2 DEF EndGroup
  <2>2. Top.before \in Nat /\ Below \in Seq([rest : Seq(Avps), before : Nat])
    BY <1>1, OpenTop
  <2>3. Room(packet') /\ packet'.position >= packet.position
    BY <1>1, <2>1, <2>2, EndAvpRoom
  <2>4. packet'.position \in Nat
    BY <2>3 DEF Room
  <2>5. QED
    BY <1>1, <2>1, <2>2, <2>3, <2>4 DEF PackInv, MESSAGE_HEADER_LEN
<1>3. CASE EndMessage
  <2>1. packet' = Patch(packet, 1, packet.position) /\ open' = <<>>
    BY <1>3 DEF EndMessage
  <2>2. Room(packet')
    BY <1>1, <2>1, PatchRoom
  <2>3. QED
    BY <2>1, <2>2 DEF PackInv
<1>4. QED
  BY <1>2, <1>3

\* Every step of create_send_data keeps the invariant.
LEMMA PackInvStep ==
  ASSUME NEW Avps, NEW TypeOf, Packable(Avps, TypeOf), PackInv(Avps), create_send_data(TypeOf)
  PROVE  PackInv(Avps)'
BY WriteStep, EndStep DEF create_send_data

\* It holds of a new packet.
LEMMA PackInitInv ==
  ASSUME NEW Avps, PackInit
  PROVE  PackInv(Avps)
BY DEF PackInit, PackInv, Room, create_new_msg_packet, MESSAGE_HEADER_LEN

\* It stays while nothing is packed.
LEMMA PackInvStays ==
  ASSUME NEW Avps, PackInv(Avps), UNCHANGED packVars
  PROVE  PackInv(Avps)'
BY DEF packVars, PackInv, Room

\* Doubling the array once before each write is enough (base_message.c:140-192): no
\* sequence of messages, whatever their AVPs and however deep their groups, makes
\* a put_* write behind the end, as long as their strings keep to the limit.
THEOREM PackingStaysInside ==
  ASSUME NEW Avps, NEW TypeOf, Packable(Avps, TypeOf),
         NEW Messages, \A m \in Messages : m.all_avp_msg \in Seq(Avps)
  PROVE  PackSpec(Messages, TypeOf) => []NoOverrun
<1>1. PackInv(Avps) => NoOverrun
  BY DEF PackInv, Room, NoOverrun
<1>2. PackInv(Avps) /\ [PackNext(Messages, TypeOf)]_packVars => PackInv(Avps)'
  BY StartStep, PackInvStep, PackInvStays DEF PackNext
<1>3. PackInit => PackInv(Avps)
  BY PackInitInv
<1>4. QED
  BY <1>1, <1>2, <1>3, PTL DEF PackSpec
-----------------------------------------------------------------------------
(* Integers in a packet *)

ByteValue == 0 .. 255
Int32 == {v \in Int : -2147483648 <= v /\ v < 2147483648}
Int24 == {v \in Int : 0 <= v /\ v < 16777216}

\* A byte of an integer is a byte.
LEMMA ByteType ==
  ASSUME NEW value \in Int
  PROVE  /\ value % 256 \in ByteValue
         /\ Byte(value, 1) \in ByteValue /\ Byte(value, 256) \in ByteValue
         /\ Byte(value, 65536) \in ByteValue /\ Byte(value, 16777216) \in ByteValue
BY SMT DEF Byte, ByteValue

\* The bytes of an integer, one by one.
LEMMA BigEndianBytes ==
  ASSUME NEW value \in Int
  PROVE  /\ BigEndian3(value) \in Seq(ByteValue) /\ Len(BigEndian3(value)) = 3
         /\ BigEndian3(value)[1] = Byte(value, 65536)
         /\ BigEndian3(value)[2] = Byte(value, 256)
         /\ BigEndian3(value)[3] = Byte(value, 1)
         /\ BigEndian4(value) \in Seq(ByteValue) /\ Len(BigEndian4(value)) = 4
         /\ BigEndian4(value)[1] = Byte(value, 16777216)
         /\ BigEndian4(value)[2] = Byte(value, 65536)
         /\ BigEndian4(value)[3] = Byte(value, 256)
         /\ BigEndian4(value)[4] = Byte(value, 1)
<1> DEFINE a == Byte(value, 16777216)  b == Byte(value, 65536)
           c == Byte(value, 256)       d == Byte(value, 1)
<1>1. a \in ByteValue /\ b \in ByteValue /\ c \in ByteValue /\ d \in ByteValue
  BY SMT, ByteType
<1>2. BigEndian3(value) = <<b, c, d>> /\ BigEndian4(value) = <<a>> \o <<b, c, d>>
  BY SMT DEF BigEndian3, BigEndian4
<1> HIDE DEF a, b, c, d
<1>3. <<a>> \in Seq(ByteValue) /\ <<b, c, d>> \in Seq(ByteValue)
  BY SMT, <1>1
<1>4. Len(<<a>>) = 1 /\ Len(<<b, c, d>>) = 3 /\ <<a>>[1] = a
      /\ <<b, c, d>>[1] = b /\ <<b, c, d>>[2] = c /\ <<b, c, d>>[3] = d
  BY SMT
<1> DEFINE s == <<a>>  t == <<b, c, d>>
<1> HIDE DEF s, t
<1>5. s \in Seq(ByteValue) /\ t \in Seq(ByteValue) /\ Len(s) = 1 /\ Len(t) = 3
  BY SMT, <1>3, <1>4 DEF s, t
<1>6. /\ s \o t \in Seq(ByteValue) /\ Len(s \o t) = Len(s) + Len(t)
      /\ \A i \in 1 .. Len(s) + Len(t) :
           (s \o t)[i] = IF i <= Len(s) THEN s[i] ELSE t[i - Len(s)]
  <2>1. s \in Seq(ByteValue) /\ t \in Seq(ByteValue)
    BY <1>5
  <2>2. QED
    BY SMT, <2>1, ConcatProperties
<1>7. /\ Len(s \o t) = 4 /\ (s \o t)[1] = s[1]
      /\ (s \o t)[2] = t[1] /\ (s \o t)[3] = t[2] /\ (s \o t)[4] = t[3]
  BY SMT, <1>5, <1>6
<1>8. BigEndian3(value) = t /\ BigEndian4(value) = s \o t
  BY SMT, <1>2 DEF s, t
<1>9. s[1] = a /\ t[1] = b /\ t[2] = c /\ t[3] = d
  BY SMT, <1>4 DEF s, t
<1>10. QED
  BY SMT, <1>5, <1>6, <1>7, <1>8, <1>9 DEF a, b, c, d

\* Division leaves a remainder; dividing twice is dividing once.
LEMMA Division ==
  ASSUME NEW n \in Int, NEW k \in {1, 4, 256, 65536, 16777216}
  PROVE  n \div k \in Int /\ n % k \in Int /\ n = (k * (n \div k)) + (n % k) /\ 0 <= n % k /\ n % k < k
BY SMT

\* Quotient and remainder are determined.
LEMMA DivisionUnique ==
  ASSUME NEW n \in Int, NEW k \in {1, 4, 256, 65536, 16777216}, NEW q \in Int, NEW r \in Int,
         n = k * q + r, 0 <= r, r < k
  PROVE  n \div k = q /\ n % k = r
<1> DEFINE a == n \div k  b == n % k
<1>1. a \in Int /\ b \in Int /\ n = k * a + b /\ 0 <= b /\ b < k
  BY SMT, Division
<1> HIDE DEF a, b
<1>2. a = q /\ b = r
  BY SMT, <1>1
<1>3. QED
  BY SMT, <1>2 DEF a, b

\* Three bytes hold a number of 24 bits.
LEMMA FlexIntBack ==
  ASSUME NEW value \in Int24
  PROVE  (Byte(value, 65536) * 65536) + (Byte(value, 256) * 256) + Byte(value, 1) = value
<1> DEFINE q2 == value \div 65536  q1 == value \div 256  r1 == value % 256  
           p == q1 \div 256  b == q1 % 256
<1>0. value \in Int /\ 0 <= value /\ value < 16777216
  BY SMT DEF Int24
<1>1. q1 \in Int /\ r1 \in Int /\ value = 256 * q1 + r1 /\ 0 <= r1 /\ r1 < 256
  BY SMT, <1>0, Division
<1> HIDE DEF q1, r1
<1>2. p \in Int /\ b \in Int /\ q1 = 256 * p + b /\ 0 <= b /\ b < 256
  BY SMT, <1>1, Division
<1> HIDE DEF p, b
<1>3. value = 65536 * p + (256 * b + r1) /\ 0 <= 256 * b + r1 /\ 256 * b + r1 < 65536
       /\ 256 * b + r1 \in Int
  BY SMT, <1>1, <1>2
<1>4. q2 = p
  BY SMT, <1>0, <1>2, <1>3, DivisionUnique
<1> HIDE DEF q2
<1>5. p \in 0 .. 255
  BY SMT, <1>0, <1>2, <1>3
<1>6. p % 256 = p
  BY SMT, <1>5
<1>7. Byte(value, 65536) = p /\ Byte(value, 256) = b 
  BY SMT, <1>4, <1>6 DEF Byte, q2, b, q1
<1>8. Byte(value, 1) = r1
  BY SMT, <1>0 DEF Byte, r1
<1>9. QED
  BY SMT, <1>3, <1>7, <1>8, <1>2, <1>1

\* The lower three bytes of a number do not depend on what lies above them.
LEMMA HighPart ==
  ASSUME NEW n \in Int, NEW q \in Int, NEW r \in Int, n = (16777216 * q) + r,
         NEW k \in {1, 256, 65536}
  PROVE  Byte(n, k) = Byte(r, k)
<1> DEFINE x == r \div k  y == r % k  z == x \div 256  w == x % 256
<1>1. x \in Int /\ y \in Int /\ r = (k * x) + y /\ 0 <= y /\ y < k
  BY SMT, Division
<1> HIDE DEF x, y
<1>2. z \in Int /\ w \in Int /\ x = (256 * z) + w /\ 0 <= w /\ w < 256
  BY SMT, <1>1, Division
<1> HIDE DEF z, w
<1> DEFINE h == (IF k = 1 THEN 65536 ELSE IF k = 256 THEN 256 ELSE 1) * q
<1>3. h \in Int /\ n = (k * ((256 * h) + x)) + y
  BY SMT, <1>1
<1> HIDE DEF h
<1> DEFINE g == (256 * h) + x
<1>4. g \in Int /\ g = (256 * (h + z)) + w /\ h + z \in Int
  BY SMT, <1>1, <1>2, <1>3
<1>5. n = (k * g) + y
  BY <1>3
<1> HIDE DEF g
<1>6. n \div k = g
  BY SMT, <1>1, <1>4, <1>5, DivisionUnique
<1>7. g % 256 = w
  BY SMT, <1>2, <1>4, DivisionUnique
<1>8. QED
  BY <1>6, <1>7 DEF Byte, w, x

\* Four hold one of 32 bits, with its sign.
LEMMA Int32Back ==
  ASSUME NEW value \in Int32
  PROVE  (IF Byte(value, 16777216) > 127 THEN Byte(value, 16777216) - 256
                                        ELSE Byte(value, 16777216)) * 16777216
         + ((Byte(value, 65536) * 65536) + (Byte(value, 256) * 256) + Byte(value, 1)) = value
<1> DEFINE q == value \div 16777216
           r == value % 16777216
<1>1. q \in Int /\ r \in Int /\ value = 16777216 * q + r /\ 0 <= r /\ r < 16777216
  BY SMT, Division DEF Int32
<1>2. q \in -128 .. 127 /\ r \in Int24
  BY SMT, <1>1 DEF Int32, Int24
<1>3. Byte(value, 16777216) = q % 256
  BY SMT DEF Byte, q
<1>4. /\ Byte(value, 1) = Byte(r, 1) /\ Byte(value, 256) = Byte(r, 256)
      /\ Byte(value, 65536) = Byte(r, 65536)
  BY SMT, <1>1, HighPart
<1> HIDE DEF q, r
<1>5. (IF q % 256 > 127 THEN (q % 256) - 256 ELSE q % 256) = q
  BY SMT, <1>2
<1>6. (Byte(r, 65536) * 65536) + (Byte(r, 256) * 256) + Byte(r, 1) = r
  BY SMT, <1>2, FlexIntBack
<1>7. QED
  BY SMT, <1>1, <1>3, <1>4, <1>5, <1>6
-----------------------------------------------------------------------------
(* What a packet holds *)

\* The data up to the position are bytes.
Shape(p) == p.data \in Seq(ByteValue) /\ p.position = Len(p.data)

\* What was written stays.
Grows(p, q) ==
  /\ p.position \in Nat /\ q.position \in Nat /\ p.position <= q.position
  /\ \A i \in 1 .. p.position : q.data[i] = p.data[i]

\* Growing twice is growing.
LEMMA GrowsOn ==
  ASSUME NEW p, NEW q, NEW r, Grows(p, q), Grows(q, r)
  PROVE  Grows(p, r)
BY SMT DEF Grows

\* A put appends its bytes.
LEMMA PutShape ==
  ASSUME NEW p, NEW bytes \in Seq(ByteValue), Shape(p)
  PROVE  /\ Shape(Put(p, bytes)) /\ Grows(p, Put(p, bytes))
         /\ Put(p, bytes).position = p.position + Len(bytes)
         /\ \A i \in 1 .. Len(bytes) : Put(p, bytes).data[p.position + i] = bytes[i]
<1> DEFINE d == p.data \o bytes
<1>1. Put(p, bytes).data = d /\ Put(p, bytes).position = p.position + Len(bytes)
  BY DEF Put
<1>2. p.data \in Seq(ByteValue)
  BY DEF Shape
<1>3. /\ d \in Seq(ByteValue) /\ Len(d) = Len(p.data) + Len(bytes)
      /\ \A i \in 1 .. Len(p.data) + Len(bytes) :
           d[i] = IF i <= Len(p.data) THEN p.data[i] ELSE bytes[i - Len(p.data)]
  BY <1>2, ConcatProperties
<1>4. Len(p.data) \in Nat /\ Len(bytes) \in Nat /\ p.position = Len(p.data)
  BY <1>2 DEF Shape
<1> HIDE DEF d
<1>5. \A i \in 1 .. Len(bytes) : d[p.position + i] = bytes[i]
  <2> TAKE i \in 1 .. Len(bytes)
  <2> DEFINE j == Len(p.data) + i
  <2>1. j \in 1 .. Len(p.data) + Len(bytes) /\ ~(j <= Len(p.data)) /\ j - Len(p.data) = i
    BY SMT, <1>4
  <2>2. j = p.position + i
    BY <1>4
  <2> HIDE DEF j
  <2>3. d[j] = bytes[j - Len(p.data)]
    BY <1>3, <2>1
  <2>4. QED
    BY <2>1, <2>2, <2>3
<1>6. \A i \in 1 .. p.position : d[i] = p.data[i]
  BY SMT, <1>3, <1>4
<1>7. QED
  BY SMT, <1>1, <1>3, <1>4, <1>5, <1>6 DEF Shape, Grows

\* What the fixed-size puts append.
LEMMA FixedShapes ==
  ASSUME NEW p, NEW value \in Int, Shape(p)
  PROVE  /\ Shape(put_byte(p, value)) /\ Grows(p, put_byte(p, value))
         /\ put_byte(p, value).position = p.position + 1
         /\ put_byte(p, value).data[p.position + 1] = value % 256
         /\ Shape(put_flex_int(p, value)) /\ Grows(p, put_flex_int(p, value))
         /\ put_flex_int(p, value).position = p.position + 3
         /\ \A i \in 1 .. 3 :
              put_flex_int(p, value).data[p.position + i] = BigEndian3(value)[i]
         /\ Shape(put_int32(p, value)) /\ Grows(p, put_int32(p, value))
         /\ put_int32(p, value).position = p.position + 4
         /\ \A i \in 1 .. 4 : put_int32(p, value).data[p.position + i] = BigEndian4(value)[i]
         /\ Shape(put_int64(p, value)) /\ Grows(p, put_int64(p, value))
         /\ put_int64(p, value).position = p.position + 8
<1>1. /\ Shape(put_byte(p, value)) /\ Grows(p, put_byte(p, value))
      /\ put_byte(p, value).position = p.position + 1
      /\ put_byte(p, value).data[p.position + 1] = value % 256
  <2> DEFINE bytes == <<value % 256>>
  <2>1. bytes \in Seq(ByteValue) /\ Len(bytes) = 1 /\ bytes[1] = value % 256
    BY ByteType
  <2>2. put_byte(p, value) = Put(p, bytes)
    BY DEF put_byte
  <2> HIDE DEF bytes
  <2>3. QED
    BY <2>1, <2>2, PutShape
<1>2. /\ Shape(put_flex_int(p, value)) /\ Grows(p, put_flex_int(p, value))
      /\ put_flex_int(p, value).position = p.position + 3
      /\ \A i \in 1 .. 3 : put_flex_int(p, value).data[p.position + i] = BigEndian3(value)[i]
  <2> DEFINE bytes == BigEndian3(value)
  <2>1. bytes \in Seq(ByteValue) /\ Len(bytes) = 3
    BY BigEndianBytes
  <2>2. put_flex_int(p, value) = Put(p, bytes)
    BY DEF put_flex_int
  <2> HIDE DEF bytes
  <2>3. /\ Shape(Put(p, bytes)) /\ Grows(p, Put(p, bytes))
        /\ Put(p, bytes).position = p.position + Len(bytes)
        /\ \A i \in 1 .. Len(bytes) : Put(p, bytes).data[p.position + i] = bytes[i]
    BY <2>1, PutShape
  <2>4. QED
    BY <2>1, <2>2, <2>3 DEF bytes
<1>3. /\ Shape(put_int32(p, value)) /\ Grows(p, put_int32(p, value))
      /\ put_int32(p, value).position = p.position + 4
      /\ \A i \in 1 .. 4 : put_int32(p, value).data[p.position + i] = BigEndian4(value)[i]
  <2> DEFINE bytes == BigEndian4(value)
  <2>1. bytes \in Seq(ByteValue) /\ Len(bytes) = 4
    BY BigEndianBytes
  <2>2. put_int32(p, value) = Put(p, bytes)
    BY DEF put_int32
  <2> HIDE DEF bytes
  <2>3. /\ Shape(Put(p, bytes)) /\ Grows(p, Put(p, bytes))
        /\ Put(p, bytes).position = p.position + Len(bytes)
        /\ \A i \in 1 .. Len(bytes) : Put(p, bytes).data[p.position + i] = bytes[i]
    BY <2>1, PutShape
  <2>4. QED
    BY <2>1, <2>2, <2>3 DEF bytes
<1>4. /\ Shape(put_int64(p, value)) /\ Grows(p, put_int64(p, value))
      /\ put_int64(p, value).position = p.position + 8
  <2> DEFINE sign == IF value < 0 THEN 255 ELSE 0
             high == <<sign, sign, sign, sign>>
             low == BigEndian4(value)
             bytes == high \o low
  <2>1. high \in Seq(ByteValue) /\ Len(high) = 4
    BY DEF ByteValue
  <2>2. low \in Seq(ByteValue) /\ Len(low) = 4
    BY BigEndianBytes
  <2>3. put_int64(p, value) = Put(p, bytes)
    BY DEF put_int64
  <2> HIDE DEF high, low
  <2>4. bytes \in Seq(ByteValue) /\ Len(bytes) = Len(high) + Len(low)
    BY <2>1, <2>2, ConcatProperties
  <2> HIDE DEF bytes
  <2>5. Len(bytes) = 8
    BY <2>1, <2>2, <2>4
  <2>6. /\ Shape(Put(p, bytes)) /\ Grows(p, Put(p, bytes))
        /\ Put(p, bytes).position = p.position + Len(bytes)
    BY <2>4, PutShape
  <2>7. QED
    BY <2>3, <2>5, <2>6
<1>5. QED
  BY <1>1, <1>2, <1>3, <1>4
-----------------------------------------------------------------------------
(* The header of a message *)

\* What the fields of a message hold in the program: a byte, a command code of three
\* bytes, an int, as base_send of base_message.h has them.
HeaderFits(m) ==
  /\ m.version \in ByteValue /\ m.flag \in ByteValue /\ m.command_code \in Int24
  /\ m.app_id \in Int32 /\ m.hop_hop_id \in Int32 /\ m.end_end_id \in Int32

\* And those of its AVPs, as the dictionary and set_avp_message leave them.
Encodable(Avps, TypeOf) ==
  \A avp \in Avps :
    /\ avp.avp_rep.code \in Int
    /\ avp.avp_rep.protect \in {0, 1} /\ avp.avp_rep.mandatory \in {0, 1}
    /\ avp.avp_rep.vendor_bit \in {0, 1}
    /\ avp.avp_rep.vendor_bit > 0 => avp.avp_rep.vendor \in Int
    /\ TypeOf[avp.avp_rep.type] \in DiaType({"Integer32", "Unsigned32"})
                                      \cup DiaType({"Integer64", "Unsigned64"}) =>
         IsGrouped(avp.avp_rep) \/ avp.value \in Int

\* The header of a message stands at the beginning, but for the length in its
\* bytes 2 to 4.
HasHeader(d, m) ==
  /\ d[1] = m.version /\ d[5] = m.flag
  /\ \A i \in 1 .. 3 : d[5 + i] = BigEndian3(m.command_code)[i]
  /\ \A i \in 1 .. 4 : d[8 + i] = BigEndian4(m.app_id)[i]
  /\ \A i \in 1 .. 4 : d[12 + i] = BigEndian4(m.hop_hop_id)[i]
  /\ \A i \in 1 .. 4 : d[16 + i] = BigEndian4(m.end_end_id)[i]

\* It is still there as long as its bytes are.
LEMMA HeaderKept ==
  ASSUME NEW d, NEW e, NEW m, HasHeader(d, m),
         \A i \in 1 .. 20 : i \notin 2 .. 4 => e[i] = d[i]
  PROVE  HasHeader(e, m)
<1>1. e[1] = d[1] /\ e[5] = d[5]
  BY SMT
<1>2. /\ \A i \in 1 .. 3 : e[5 + i] = d[5 + i]
      /\ \A i \in 1 .. 4 : e[8 + i] = d[8 + i]
      /\ \A i \in 1 .. 4 : e[12 + i] = d[12 + i]
      /\ \A i \in 1 .. 4 : e[16 + i] = d[16 + i]
  BY SMT
<1>3. QED
  BY <1>1, <1>2 DEF HasHeader

\* create_new_send_msg and create_send_data write it so.
LEMMA HeaderWritten ==
  ASSUME NEW m, HeaderFits(m)
  PROVE  /\ Shape(MessageHeader(m)) /\ MessageHeader(m).position = 20
         /\ HasHeader(MessageHeader(m).data, m)
<1> DEFINE p0 == create_new_msg_packet(MESSAGE_HEADER_LEN)
           p1 == put_byte(p0, m.version)
           p2 == put_flex_int(p1, 0)
           p3 == put_byte(p2, m.flag)
           p4 == put_flex_int(p3, m.command_code)
           p5 == put_int32(p4, m.app_id)
           p6 == put_int32(p5, m.hop_hop_id)
           p7 == put_int32(p6, m.end_end_id)
<1>1. MessageHeader(m) = p7
  BY DEF MessageHeader
<1>2. /\ m.version \in Int /\ m.version % 256 = m.version
      /\ m.flag \in Int /\ m.flag % 256 = m.flag /\ m.command_code \in Int
      /\ m.app_id \in Int /\ m.hop_hop_id \in Int /\ m.end_end_id \in Int
  BY SMT DEF HeaderFits, ByteValue, Int24, Int32
<1>3. Shape(p0) /\ p0.position = 0
  BY DEF Shape, create_new_msg_packet
<1> HIDE DEF p0
<1>4. Shape(p1) /\ p1.position = 1 /\ p1.data[1] = m.version
  BY <1>2, <1>3, FixedShapes
<1> HIDE DEF p1
<1>5. Shape(p2) /\ p2.position = 4 /\ Grows(p1, p2)
  BY <1>4, FixedShapes
<1> HIDE DEF p2
<1>6. Shape(p3) /\ p3.position = 5 /\ Grows(p2, p3) /\ p3.data[5] = m.flag
  BY <1>2, <1>5, FixedShapes
<1> HIDE DEF p3
<1>7. /\ Shape(p4) /\ p4.position = 8 /\ Grows(p3, p4)
      /\ \A i \in 1 .. 3 : p4.data[5 + i] = BigEndian3(m.command_code)[i]
  BY <1>2, <1>6, FixedShapes
<1> HIDE DEF p4
<1>8. /\ Shape(p5) /\ p5.position = 12 /\ Grows(p4, p5)
      /\ \A i \in 1 .. 4 : p5.data[8 + i] = BigEndian4(m.app_id)[i]
  BY <1>2, <1>7, FixedShapes
<1> HIDE DEF p5
<1>9. /\ Shape(p6) /\ p6.position = 16 /\ Grows(p5, p6)
      /\ \A i \in 1 .. 4 : p6.data[12 + i] = BigEndian4(m.hop_hop_id)[i]
  BY <1>2, <1>8, FixedShapes
<1> HIDE DEF p6
<1>10. /\ Shape(p7) /\ p7.position = 20 /\ Grows(p6, p7)
       /\ \A i \in 1 .. 4 : p7.data[16 + i] = BigEndian4(m.end_end_id)[i]
  BY <1>2, <1>9, FixedShapes
<1> HIDE DEF p7
<1>11. Grows(p5, p7) /\ Grows(p4, p7) /\ Grows(p3, p7) /\ Grows(p2, p7) /\ Grows(p1, p7)
  BY <1>5, <1>6, <1>7, <1>8, <1>9, <1>10, GrowsOn
<1>12. p7.data[1] = m.version /\ p7.data[5] = m.flag
  BY SMT, <1>4, <1>6, <1>11 DEF Grows
<1>13. \A i \in 1 .. 3 : p7.data[5 + i] = BigEndian3(m.command_code)[i]
  BY SMT, <1>7, <1>11 DEF Grows
<1>14. \A i \in 1 .. 4 : p7.data[8 + i] = BigEndian4(m.app_id)[i]
  BY SMT, <1>8, <1>11 DEF Grows
<1>15. \A i \in 1 .. 4 : p7.data[12 + i] = BigEndian4(m.hop_hop_id)[i]
  BY SMT, <1>9, <1>10 DEF Grows
<1>16. QED
  BY <1>1, <1>10, <1>12, <1>13, <1>14, <1>15 DEF HasHeader

\* The array a header is read into, and the decoder's place in it.
At(d, k) == [data |-> d, max_size |-> MESSAGE_HEADER_LEN, position |-> k]

\* Reading takes an integer off the array that was written into it.
LEMMA ReadBack ==
  ASSUME NEW d, NEW k \in Nat
  PROVE  /\ \A n \in 1 .. 4 : k + n <= MESSAGE_HEADER_LEN => After(At(d, k), n) = At(d, k + n)
         /\ k + 1 <= MESSAGE_HEADER_LEN => read_byte(At(d, k)) = d[k + 1]
         /\ \A value \in Int24 :
              (k + 3 <= MESSAGE_HEADER_LEN /\ \A i \in 1 .. 3 : d[k + i] = BigEndian3(value)[i])
                => read_flex_int(At(d, k)) = value
         /\ \A value \in Int32 :
              (k + 4 <= MESSAGE_HEADER_LEN /\ \A i \in 1 .. 4 : d[k + i] = BigEndian4(value)[i])
                => read_int32(At(d, k)) = value
<1>1. \A n \in 1 .. 4 : k + n <= MESSAGE_HEADER_LEN => After(At(d, k), n) = At(d, k + n)
  BY DEF After, InPacket, At
<1>2. k + 1 <= MESSAGE_HEADER_LEN => read_byte(At(d, k)) = d[k + 1]
  BY DEF read_byte, InPacket, Data, At
<1>3. ASSUME NEW l \in Nat, l + 3 <= MESSAGE_HEADER_LEN
      PROVE  read_flex_int(At(d, l)) = (d[l + 1] * 65536) + (d[l + 2] * 256) + d[l + 3]
  <2>1. InPacket(At(d, l), 3)
    BY <1>3 DEF InPacket, At
  <2>2. Data(At(d, l), 0) = d[l + 1] /\ Data(At(d, l), 1) = d[l + 2] /\ Data(At(d, l), 2) = d[l + 3]
    BY SMT DEF Data, At
  <2>3. QED
    BY SMT, <2>1, <2>2 DEF read_flex_int
<1>4. ASSUME NEW value \in Int24, k + 3 <= MESSAGE_HEADER_LEN,
             \A i \in 1 .. 3 : d[k + i] = BigEndian3(value)[i]
      PROVE  read_flex_int(At(d, k)) = value
  <2>1. value \in Int
    BY SMT DEF Int24
  <2>2. /\ d[k + 1] = Byte(value, 65536) /\ d[k + 2] = Byte(value, 256)
        /\ d[k + 3] = Byte(value, 1)
    BY SMT, <1>4, <2>1, BigEndianBytes
  <2>3. read_flex_int(At(d, k)) = (d[k + 1] * 65536) + (d[k + 2] * 256) + d[k + 3]
    BY SMT, <1>3, <1>4
  <2>4. QED
    BY SMT, <2>2, <2>3, FlexIntBack
<1>5. ASSUME NEW value \in Int32, k + 4 <= MESSAGE_HEADER_LEN,
             \A i \in 1 .. 4 : d[k + i] = BigEndian4(value)[i]
      PROVE  read_int32(At(d, k)) = value
  <2>1. value \in Int
    BY SMT DEF Int32
  <2>2. /\ d[k + 1] = Byte(value, 16777216) /\ d[k + 2] = Byte(value, 65536)
        /\ d[k + 3] = Byte(value, 256) /\ d[k + 4] = Byte(value, 1)
    BY SMT, <1>5, <2>1, BigEndianBytes
  <2>3. InPacket(At(d, k), 4) /\ Data(At(d, k), 0) = d[k + 1]
    BY SMT, <1>5 DEF InPacket, Data, At
  <2>4. After(At(d, k), 1) = At(d, k + 1)
    BY SMT, <1>1, <1>5 DEF MESSAGE_HEADER_LEN
  <2>5. read_flex_int(At(d, k + 1)) = (d[k + 2] * 65536) + (d[k + 3] * 256) + d[k + 4]
    <3>1. k + 1 \in Nat /\ (k + 1) + 3 <= MESSAGE_HEADER_LEN
      BY SMT, <1>5 DEF MESSAGE_HEADER_LEN
    <3>2. (k + 1) + 1 = k + 2 /\ (k + 1) + 2 = k + 3 /\ (k + 1) + 3 = k + 4
      BY SMT
    <3>3. QED
      BY SMT, <1>3, <3>1, <3>2
  <2>6. read_int32(At(d, k)) =
          (IF d[k + 1] > 127 THEN d[k + 1] - 256 ELSE d[k + 1]) * 16777216
          + ((d[k + 2] * 65536) + (d[k + 3] * 256) + d[k + 4])
    BY SMT, <2>3, <2>4, <2>5 DEF read_int32
  <2>7. QED
    BY SMT, <2>2, <2>6, Int32Back
<1>6. QED
  BY SMT, <1>1, <1>2, <1>4, <1>5

\* So unpack_message_header finds what create_send_data has written, and the length
\* that was put into the place left for it.
LEMMA HeaderRead ==
  ASSUME NEW m, HeaderFits(m), NEW d, HasHeader(d, m),
         NEW n \in Int24, \A i \in 1 .. 3 : d[1 + i] = BigEndian3(n)[i]
  PROVE  LET h == unpack_message_header(At(d, 0)) IN
         /\ h.version = m.version /\ h.length = n
         /\ h.flags = unpack_message_flag(m.flag) /\ h.command_code = m.command_code
         /\ h.app_id = m.app_id /\ h.hop_hop_id = m.hop_hop_id
         /\ h.end_end_id = m.end_end_id /\ h.data_len = n - MESSAGE_HEADER_LEN
<1>1. /\ After(At(d, 0), 1) = At(d, 1) /\ After(At(d, 1), 3) = At(d, 4)
      /\ After(At(d, 4), 1) = At(d, 5) /\ After(At(d, 5), 3) = At(d, 8)
      /\ After(At(d, 8), 4) = At(d, 12) /\ After(At(d, 12), 4) = At(d, 16)
  <2>1. ASSUME NEW k \in Nat, NEW l \in 1 .. 4, k + l <= 20
        PROVE  After(At(d, k), l) = At(d, k + l)
    BY <2>1, ReadBack DEF MESSAGE_HEADER_LEN
  <2>2. QED
    BY <2>1
<1>2. read_byte(At(d, 0)) = m.version /\ read_byte(At(d, 4)) = m.flag
  BY SMT, ReadBack DEF HasHeader, MESSAGE_HEADER_LEN
<1>3. read_flex_int(At(d, 1)) = n
  BY SMT, ReadBack DEF MESSAGE_HEADER_LEN
<1>4. read_flex_int(At(d, 5)) = m.command_code
  BY SMT, ReadBack DEF HasHeader, HeaderFits, MESSAGE_HEADER_LEN
<1>5. /\ read_int32(At(d, 8)) = m.app_id /\ read_int32(At(d, 12)) = m.hop_hop_id
      /\ read_int32(At(d, 16)) = m.end_end_id
  BY SMT, ReadBack DEF HasHeader, HeaderFits, MESSAGE_HEADER_LEN
<1>6. QED
  BY <1>1, <1>2, <1>3, <1>4, <1>5 DEF unpack_message_header
-----------------------------------------------------------------------------
(* The AVPs behind it *)

\* A length written back changes three bytes.
LEMMA PatchShape ==
  ASSUME NEW p, NEW pos \in Nat, NEW value \in Int, Shape(p), Room(p)
  PROVE  /\ Shape(Patch(p, pos, value)) /\ Patch(p, pos, value).position = p.position
         /\ \A i \in 1 .. p.position :
              Patch(p, pos, value).data[i] =
                IF i - pos \in 1 .. 3 THEN BigEndian3(value)[i - pos] ELSE p.data[i]
<1> DEFINE d == [i \in DOMAIN p.data |-> IF i - pos \in 1 .. 3
                                         THEN BigEndian3(value)[i - pos] ELSE p.data[i]]
<1>1. p.data \in Seq(ByteValue) /\ p.position = Len(p.data) /\ Len(p.data) \in Nat
  BY DEF Shape
<1>2. p.data \in [DOMAIN p.data -> ByteValue] /\ DOMAIN p.data = 1 .. Len(p.data)
  BY <1>1
<1>3. \A i \in 1 .. 3 : BigEndian3(value)[i] \in ByteValue
  BY BigEndianBytes
<1>4. d \in [1 .. Len(p.data) -> ByteValue]
  BY SMT, <1>2, <1>3
<1>5. \A i \in 1 .. p.position : d[i] = IF i - pos \in 1 .. 3 THEN BigEndian3(value)[i - pos]
                                        ELSE p.data[i]
  BY <1>1, <1>2
<1>6. Patch(p, pos, value) = [p EXCEPT !.data = d]
  BY DEF Patch
<1> HIDE DEF d
<1>7. d \in Seq(ByteValue) /\ Len(d) = Len(p.data)
  BY SMT, <1>1, <1>4
<1>8. Patch(p, pos, value).position = p.position /\ Patch(p, pos, value).data = d
  BY <1>6 DEF Room
<1>9. QED
  BY <1>1, <1>5, <1>7, <1>8 DEF Shape

\* The header of an AVP adds eight bytes, or with a vendor twelve.
LEMMA AvpHeaderShape ==
  ASSUME NEW Avps, NEW TypeOf, Encodable(Avps, TypeOf), NEW p, NEW avp \in Avps, Shape(p)
  PROVE  LET q == AvpHeader(p, avp.avp_rep)
         IN  /\ Shape(q) /\ Grows(p, q)
             /\ q.position = p.position + 8 \/ q.position = p.position + 12
<1> DEFINE rep == avp.avp_rep
           code == rep.code
           flag == gen_avp_flag(rep)
           vendor == rep.vendor
           p1 == put_int32(p, code)
           p2 == put_byte(p1, flag)
           p3 == put_flex_int(p2, 0)
           p4 == put_int32(p3, vendor)
<1>1. AvpHeader(p, rep) = IF rep.vendor_bit > 0 THEN p4 ELSE p3
  BY DEF AvpHeader
<1>2. /\ code \in Int /\ flag \in Int
      /\ rep.vendor_bit > 0 => vendor \in Int
  BY SMT DEF Encodable, gen_avp_flag
<1> HIDE DEF code, flag, vendor
<1>3. Shape(p1) /\ Grows(p, p1) /\ p1.position = p.position + 4
  BY <1>2, FixedShapes
<1> HIDE DEF p1
<1>4. Shape(p2) /\ Grows(p1, p2) /\ p2.position = p1.position + 1
  BY <1>2, <1>3, FixedShapes
<1> HIDE DEF p2
<1>5. Shape(p3) /\ Grows(p2, p3) /\ p3.position = p2.position + 3
  BY <1>4, FixedShapes
<1> HIDE DEF p3
<1>6. ASSUME rep.vendor_bit > 0
      PROVE  Shape(p4) /\ Grows(p3, p4) /\ p4.position = p3.position + 4
  BY <1>2, <1>5, <1>6, FixedShapes
<1> HIDE DEF p4
<1>7. Grows(p, p3) /\ (rep.vendor_bit > 0 => Grows(p, p4))
  BY <1>3, <1>4, <1>5, <1>6, GrowsOn
<1>8. p.position \in Nat
  BY <1>3 DEF Grows
<1>9. p3.position = p.position + 8 /\ (rep.vendor_bit > 0 => p4.position = p.position + 12)
  BY SMT, <1>3, <1>4, <1>5, <1>6, <1>8
<1>10. QED
  BY <1>1, <1>5, <1>6, <1>7, <1>9

\* A value is appended as bytes.
LEMMA ValueShape ==
  ASSUME NEW Avps, NEW TypeOf, Packable(Avps, TypeOf), Encodable(Avps, TypeOf),
         NEW p, NEW avp \in Avps, ~IsGrouped(avp.avp_rep), Shape(p)
  PROVE  LET q == put_avp_value_data(p, TypeOf[avp.avp_rep.type], avp.value)
         IN  Shape(q) /\ Grows(p, q)
<1> DEFINE parent == TypeOf[avp.avp_rep.type]
           ints == DiaType({"Integer32", "Unsigned32"})
           longs == DiaType({"Integer64", "Unsigned64"})
           strings == DiaType({"OctetString", "UTF8String"})
           value == avp.value
           q == put_avp_value_data(p, parent, value)
<1>1. /\ parent \in ints => value \in Int
      /\ parent \in longs => value \in Int
      /\ parent \in strings => value \in Seq(ByteValue)
  BY DEF Encodable, Packable, ByteValue
<1>2. \/ parent \in ints /\ q = put_int32(p, value)
      \/ parent \in longs /\ q = put_int64(p, value)
      \/ parent \in strings /\ q = put_str(p, value)
      \/ q = p
  <2> HIDE DEF parent, value
  <2>1. CASE parent \in ints \/ parent \in longs \/ parent \in strings
    BY <2>1 DEF put_avp_value_data
  <2>2. CASE parent \notin ints /\ parent \notin longs /\ parent \notin strings
    BY <2>2 DEF put_avp_value_data
  <2>3. QED
    BY <2>1, <2>2
<1>3. Grows(p, p)
  BY SMT DEF Shape, Grows
<1> HIDE DEF parent, ints, longs, strings, q, value
<1>4. ASSUME parent \in ints, q = put_int32(p, value)
      PROVE  Shape(q) /\ Grows(p, q)
  BY <1>1, <1>4, FixedShapes
<1>5. ASSUME parent \in longs, q = put_int64(p, value)
      PROVE  Shape(q) /\ Grows(p, q)
  BY <1>1, <1>5, FixedShapes
<1>6. ASSUME parent \in strings, q = put_str(p, value)
      PROVE  Shape(q) /\ Grows(p, q)
  BY <1>1, <1>6, PutShape DEF put_str
<1>7. Shape(q) /\ Grows(p, q)
  BY <1>2, <1>3, <1>4, <1>5, <1>6
<1>8. QED
  BY <1>7 DEF q, parent, value

\* The end of an AVP fills it up to a multiple of four bytes, and touches nothing
\* before it.
LEMMA EndAvpShape ==
  ASSUME NEW p, NEW before \in Nat, Shape(p), Room(p), before % 4 = 0, before >= 20,
         before <= p.position
  PROVE  LET q == EndAvp(p, before)
         IN  /\ Shape(q) /\ q.position % 4 = 0 /\ q.position >= p.position
             /\ \A i \in 1 .. 20 : q.data[i] = p.data[i]
<1> DEFINE len == p.position - before
           x == len % 4
           pad_len == (4 - x) % 4
           pad == [i \in 1 .. pad_len |-> 0]
           r == Patch(p, before + 5, len)
<1>1. EndAvp(p, before) = Put(r, pad)
  BY DEF EndAvp, calculate_avp_length
<1>2. p.position \in Nat /\ len \in Nat
  BY SMT DEF Room
<1>3. pad_len \in 0 .. 3 /\ (p.position + pad_len) % 4 = 0
  <2> DEFINE b == before \div 4  m == len \div 4
  <2>1. b \in Int /\ before = 4 * b
    BY SMT, Division
  <2>2. m \in Int /\ x \in Int /\ len = (4 * m) + x /\ 0 <= x /\ x < 4
    BY SMT, <1>2, Division
  <2> HIDE DEF x
  <2>3. pad_len = IF x = 0 THEN 0 ELSE 4 - x
    <3>1. x \in 0 .. 3
      BY SMT, <2>2
    <3>2. CASE x = 0
      BY SMT, <3>2
    <3>3. CASE x \in 1 .. 3
      BY SMT, <3>3
    <3>4. QED
      BY SMT, <3>1, <3>2, <3>3
  <2> DEFINE total == p.position + pad_len  w == IF x = 0 THEN b + m ELSE (b + m) + 1
  <2> HIDE DEF b, m, pad_len
  <2>4. total = (4 * w) + 0 /\ total \in Int /\ w \in Int
    BY SMT, <1>2, <2>1, <2>2, <2>3
  <2>5. total % 4 = 0
    <3> HIDE DEF total, w
    <3>1. QED
      BY SMT, <2>4, DivisionUnique
  <2>6. QED
    BY SMT, <2>2, <2>3, <2>5
<1> HIDE DEF pad_len
<1>4. pad \in Seq(ByteValue) /\ Len(pad) = pad_len
  BY SMT, <1>3 DEF ByteValue
<1> HIDE DEF pad
<1>5. /\ Shape(r) /\ r.position = p.position
      /\ \A i \in 1 .. p.position :
           r.data[i] = IF i - (before + 5) \in 1 .. 3
                       THEN BigEndian3(len)[i - (before + 5)] ELSE p.data[i]
  <2>1. before + 5 \in Nat /\ len \in Int
    BY <1>2
  <2> HIDE DEF len
  <2>2. QED
    BY <2>1, PatchShape
<1>6. \A i \in 1 .. 20 : i \in 1 .. p.position /\ r.data[i] = p.data[i]
  BY SMT, <1>2, <1>5
<1> HIDE DEF r, len
<1>7. /\ Shape(Put(r, pad)) /\ Grows(r, Put(r, pad))
      /\ Put(r, pad).position = r.position + Len(pad)
  BY <1>4, <1>5, PutShape
<1>8. \A i \in 1 .. 20 : Put(r, pad).data[i] = r.data[i]
  BY <1>5, <1>6, <1>7 DEF Grows
<1>9. /\ Put(r, pad).position % 4 = 0 /\ Put(r, pad).position >= p.position
  BY SMT, <1>2, <1>3, <1>4, <1>5, <1>7
<1>10. \A i \in 1 .. 20 : Put(r, pad).data[i] = p.data[i]
  BY <1>6, <1>8
<1>11. QED
  BY <1>1, <1>7, <1>9, <1>10
-----------------------------------------------------------------------------
(* The message as a whole *)

\* Every AVP and group being written began at a multiple of four bytes, and, but
\* for the message itself, behind the header.
Befores(stack, n) ==
  \A i \in DOMAIN stack :
    /\ stack[i].before \in Nat /\ stack[i].before <= n /\ stack[i].before % 4 = 0
    /\ i > 1 => stack[i].before >= 20

\* The inductive invariant: once message m is begun its header stands; once it is
\* ended, so does its length.
ShapeInv(Avps, m) ==
  /\ PackInv(Avps) /\ Shape(packet)
  /\ Befores(open, packet.position)
  /\ open # <<>> => packet.position >= 20
  /\ packet.position > 0 =>
       /\ packet.position >= 20 /\ packet.position % 4 = 0
       /\ HasHeader(packet.data, m)
  /\ (packet.position > 0 /\ open = <<>>) =>
       \A i \in 1 .. 3 : packet.data[1 + i] = BigEndian3(packet.position)[i]

\* The stack's places stay when an AVP or a group is taken off it.
LEMMA BeforesKept ==
  ASSUME NEW Avps, PackInv(Avps), open # <<>>, NEW n \in Nat, NEW m \in Nat, n <= m, Befores(open, n)
  PROVE  /\ Befores(Below, m)
         /\ Top.rest # <<>> => Befores(AfterHead, m) /\ Len(AfterHead) = Len(open)
<1> DEFINE Groups == [rest : Seq(Avps), before : Nat]
<1>1. open \in Seq(Groups) /\ Len(open) \in Nat /\ Len(open) >= 1
  BY DEF PackInv
<1>2. Top \in Groups /\ Below \in Seq(Groups)
  BY <1>1, OpenTop
<1> HIDE DEF Groups
<1>3. /\ Len(Below) = Len(open) - 1 /\ DOMAIN Below = 1 .. Len(open) - 1
      /\ \A i \in 1 .. Len(open) - 1 : Below[i] = open[i]
  <2>1. /\ Len(SubSeq(open, 1, Len(open) - 1)) =
             IF 1 <= Len(open) - 1 THEN ((Len(open) - 1) - 1) + 1 ELSE 0
        /\ \A i \in 1 .. ((Len(open) - 1) - 1) + 1 :
             SubSeq(open, 1, Len(open) - 1)[i] = open[(1 + i) - 1]
    <3>1. 1 \in Int /\ Len(open) - 1 \in Int
      BY <1>1
    <3>2. \A i \in 1 .. Len(open) - 1 : open[i] \in Groups
      BY SMT, <1>1
    <3>3. QED
      BY <3>1, <3>2, SubSeqProperties
  <2>2. /\ Len(Below) = Len(open) - 1
        /\ \A i \in 1 .. Len(open) - 1 : Below[i] = open[i]
    <3> DEFINE s == SubSeq(open, 1, Len(open) - 1)
               k == Len(open) - 1
    <3>1. /\ k \in Nat /\ ((Len(open) - 1) - 1) + 1 = k
          /\ \A i \in 1 .. k : (1 + i) - 1 = i
      BY SMT, <1>1
    <3>2. Below = s
      BY DEF Below
    <3> HIDE DEF s, k
    <3>3. /\ Len(s) = IF 1 <= k THEN k ELSE 0
          /\ \A i \in 1 .. k : s[i] = open[i]
      BY <2>1, <3>1 DEF s, k
    <3>4. Len(s) = k
      BY SMT, <3>1, <3>3
    <3>5. QED
      BY <3>2, <3>3, <3>4 DEF k
  <2>3. DOMAIN Below = 1 .. Len(Below)
    BY <1>2
  <2>4. QED
    BY <2>2, <2>3
<1>4. DOMAIN open = 1 .. Len(open)
  BY <1>1
<1>5. Befores(Below, m)
  <2>1. ASSUME NEW i \in DOMAIN Below
        PROVE  i \in DOMAIN open /\ Below[i] = open[i]
    BY SMT, <1>1, <1>3, <1>4
  <2>2. \A i \in DOMAIN open :
          /\ open[i].before \in Nat /\ open[i].before <= m /\ open[i].before % 4 = 0
          /\ i > 1 => open[i].before >= 20
    BY SMT DEF Befores
  <2>3. QED
    BY <2>1, <2>2 DEF Befores
<1>6. ASSUME Top.rest # <<>>
      PROVE  Befores(AfterHead, m) /\ Len(AfterHead) = Len(open)
  <2> DEFINE last == [Top EXCEPT !.rest = Tail(@)]
  <2>1. AfterHead = Append(Below, last)
    BY DEF AfterHead
  <2>2. last \in Groups /\ last.before = Top.before
    <3>1. Top.rest \in Seq(Avps) /\ Top.before \in Nat
      BY <1>2 DEF Groups
    <3>2. Tail(Top.rest) \in Seq(Avps)
      BY <1>6, <3>1
    <3>3. Top = [rest |-> Top.rest, before |-> Top.before]
      BY <1>2 DEF Groups
    <3>4. QED
      BY <3>1, <3>2, <3>3 DEF Groups
  <2> HIDE DEF last
  <2>3. /\ Len(AfterHead) = Len(open) /\ DOMAIN AfterHead = 1 .. Len(open)
        /\ AfterHead[Len(open)] = last
        /\ \A i \in 1 .. Len(open) - 1 : AfterHead[i] = open[i]
    BY <1>1, <1>2, <1>3, <2>1, <2>2
  <2>4. \A i \in 1 .. Len(open) : AfterHead[i].before = open[i].before
    BY SMT, <1>1, <2>2, <2>3 DEF Top
  <2>5. Befores(AfterHead, m)
    BY SMT, <1>4, <2>3, <2>4 DEF Befores
  <2>6. QED
    BY <2>3, <2>5
<1>7. QED
  BY <1>5, <1>6

\* A message begins with its header.
LEMMA ShapeStart ==
  ASSUME NEW Avps, NEW m, m.all_avp_msg \in Seq(Avps), HeaderFits(m), StartMessage(m)
  PROVE  ShapeInv(Avps, m)'
<1>1. PackInv(Avps)'
  BY StartStep
<1>2. packet' = MessageHeader(m) /\ open' = <<[rest |-> m.all_avp_msg, before |-> 0]>>
  BY DEF StartMessage
<1>3. Shape(packet') /\ packet'.position = 20 /\ HasHeader(packet'.data, m)
  BY <1>2, HeaderWritten
<1>4. Befores(open', 20)
  <2>1. DOMAIN open' = {1} /\ open'[1].before = 0
    BY <1>2
  <2>2. 0 % 4 = 0
    OBVIOUS
  <2>3. QED
    BY SMT, <2>1, <2>2 DEF Befores
<1>5. 20 % 4 = 0 /\ open' # <<>>
  BY <1>2
<1>6. QED
  BY <1>1, <1>3, <1>4, <1>5 DEF ShapeInv

\* An AVP leaves the header alone and the position at a multiple of four.
LEMMA ShapeWrite ==
  ASSUME NEW Avps, NEW TypeOf, Packable(Avps, TypeOf), Encodable(Avps, TypeOf),
         NEW m, ShapeInv(Avps, m), WriteAvp(TypeOf)
  PROVE  ShapeInv(Avps, m)' /\ packet'.position >= 20
<1> DEFINE avp == Head(Top.rest)
           header == AvpHeader(packet, avp.avp_rep)
           value == put_avp_value_data(header, TypeOf[avp.avp_rep.type], avp.value)
<1>1. PackInv(Avps) /\ PackInv(Avps)' /\ open # <<>> /\ Top.rest # <<>>
  BY WriteStep DEF ShapeInv, WriteAvp
<1>2. avp \in Avps
  BY <1>1, OpenTop
<1>3. /\ packet.position \in Nat /\ packet.position >= 20 /\ packet.position % 4 = 0
      /\ Room(packet) /\ Shape(packet) /\ Befores(open, packet.position)
  BY <1>1 DEF ShapeInv, PackInv, Room
<1>4. HasHeader(packet.data, m)
  BY <1>1, <1>3 DEF ShapeInv
<1>5. /\ Shape(header) /\ Grows(packet, header) /\ Room(header)
      /\ header.position = packet.position + 8 \/ header.position = packet.position + 12
  BY <1>2, <1>3, AvpHeaderShape, AvpHeaderRoom
<1>6. /\ packet'.position \in Nat /\ packet'.position >= packet.position
      /\ packet'.position % 4 = 0 /\ Shape(packet')
      /\ \A i \in 1 .. 20 : packet'.data[i] = packet.data[i]
  <2>1. CASE IsGrouped(avp.avp_rep)
    <3>1. packet' = header
      BY <2>1 DEF WriteAvp
    <3> HIDE DEF avp, header
    <3>2. /\ header.position \in Nat /\ header.position >= packet.position
          /\ header.position % 4 = 0
      BY SMT, <1>3, <1>5
    <3>3. \A i \in 1 .. 20 : header.data[i] = packet.data[i]
      BY SMT, <1>3, <1>5 DEF Grows
    <3>4. QED
      BY <1>5, <3>1, <3>2, <3>3
  <2>2. CASE ~IsGrouped(avp.avp_rep)
    <3>1. packet' = EndAvp(value, packet.position)
      BY <2>2 DEF WriteAvp
    <3>2. Shape(value) /\ Grows(header, value)
      BY <1>2, <1>5, <2>2, ValueShape
    <3>3. Room(value)
      <4>1. header.position >= StringLimit
        BY SMT, <1>3, <1>5 DEF StringLimit, MESSAGE_HEADER_LEN, AVP_HEADER_LEN
      <4>2. TypeOf[avp.avp_rep.type] \in DiaType({"OctetString", "UTF8String"}) =>
              avp.value \in Seq(0 .. 255) /\ Len(avp.value) <= StringLimit
        BY <1>2, <2>2 DEF Packable
      <4> HIDE DEF avp, header
      <4>3. QED
        BY <1>5, <4>1, <4>2, ValueRoom
    <3> HIDE DEF avp, header, value
    <3>4. Grows(packet, value)
      BY <1>5, <3>2, GrowsOn
    <3>5. /\ packet.position <= value.position /\ value.position \in Nat
          /\ \A i \in 1 .. 20 : value.data[i] = packet.data[i]
      BY SMT, <1>3, <3>4 DEF Grows
    <3>6. /\ Shape(packet') /\ packet'.position % 4 = 0
          /\ packet'.position >= value.position
          /\ \A i \in 1 .. 20 : packet'.data[i] = value.data[i]
      BY <1>3, <3>1, <3>2, <3>3, <3>5, EndAvpShape
    <3>7. packet'.position \in Nat
      BY <3>6 DEF Shape
    <3>8. QED
      BY SMT, <1>3, <3>5, <3>6, <3>7
  <2>3. QED
    BY <2>1, <2>2
<1>7. HasHeader(packet'.data, m)
  BY <1>4, <1>6, HeaderKept
<1>8. Befores(open', packet'.position) /\ open' # <<>>
  <2> DEFINE n == packet'.position
  <2>1. n \in Nat /\ packet.position <= n
    BY SMT, <1>3, <1>6
  <2> HIDE DEF n
  <2>2. Befores(AfterHead, n) /\ Len(AfterHead) = Len(open)
    BY <1>1, <1>3, <2>1, BeforesKept
  <2>3. Len(open) \in Nat /\ Len(open) >= 1
    BY <1>1 DEF PackInv
  <2>4. AfterHead \in Seq([rest : Seq(Avps), before : Nat])
    BY <1>1, OpenTop
  <2>5. CASE ~IsGrouped(avp.avp_rep)
    <3>1. open' = AfterHead
      BY <2>5 DEF WriteAvp
    <3>2. QED
      BY <2>2, <2>3, <3>1 DEF n
  <2>6. CASE IsGrouped(avp.avp_rep)
    <3> DEFINE g == [rest |-> avp.child_avp, before |-> packet.position]
    <3>1. open' = Append(AfterHead, g)
      BY <2>6 DEF WriteAvp
    <3>2. g.before = packet.position
      OBVIOUS
    <3> HIDE DEF g, avp
    <3>3. /\ DOMAIN open' = 1 .. Len(open) + 1 /\ DOMAIN AfterHead = 1 .. Len(open)
          /\ open'[Len(open) + 1] = g
          /\ \A i \in 1 .. Len(open) : open'[i] = AfterHead[i]
      BY <2>2, <2>3, <2>4, <3>1
    <3>4. Befores(open', n)
      BY SMT, <1>3, <2>1, <2>2, <2>3, <3>2, <3>3 DEF Befores
    <3>5. open' # <<>>
      BY <2>3, <3>3
    <3>6. QED
      BY <3>4, <3>5 DEF n
  <2>7. QED
    BY <2>5, <2>6
<1>9. packet'.position >= 20
  BY SMT, <1>3, <1>6
<1>10. QED
  BY <1>1, <1>6, <1>7, <1>8, <1>9 DEF ShapeInv

\* The end of a group is that of an AVP; the end of the message writes the length.
LEMMA ShapeEnd ==
  ASSUME NEW Avps, NEW m, ShapeInv(Avps, m), EndGroup \/ EndMessage
  PROVE  ShapeInv(Avps, m)' /\ packet'.position >= 20
<1>1. PackInv(Avps) /\ PackInv(Avps)' /\ open # <<>>
  <2>1. PackInv(Avps)
    BY DEF ShapeInv
  <2>2. Len(open) > 1 \/ Len(open) = 1
    BY DEF EndGroup, EndMessage
  <2>3. open # <<>>
    BY <2>2
  <2>4. PackInv(Avps)'
    BY <2>1, EndStep
  <2>5. QED
    BY <2>1, <2>3, <2>4
<1>2. /\ packet.position \in Nat /\ packet.position >= 20 /\ packet.position % 4 = 0
      /\ Room(packet) /\ Shape(packet) /\ Befores(open, packet.position)
  BY <1>1 DEF ShapeInv, PackInv, Room
<1>3. HasHeader(packet.data, m)
  BY <1>1, <1>2 DEF ShapeInv
<1>4. CASE EndGroup
  <2> DEFINE before == Top.before
  <2>1. packet' = EndAvp(packet, before) /\ open' = Below /\ Len(open) > 1
    BY <1>4 DEF EndGroup
  <2>2. /\ before \in Nat /\ before <= packet.position /\ before % 4 = 0 /\ before >= 20
    <3>1. Len(open) \in DOMAIN open
      BY <1>1, <2>1 DEF PackInv
    <3>2. QED
      BY <1>2, <2>1, <3>1 DEF Befores, Top
  <2> HIDE DEF before
  <2>3. /\ Shape(packet') /\ packet'.position % 4 = 0
        /\ packet'.position >= packet.position
        /\ \A i \in 1 .. 20 : packet'.data[i] = packet.data[i]
    BY <1>2, <2>1, <2>2, EndAvpShape
  <2>4. packet'.position \in Nat /\ packet'.position >= 20
    <3>1. packet'.position \in Nat
      BY <2>3 DEF Shape
    <3>2. QED
      BY SMT, <1>2, <2>3, <3>1
  <2>5. HasHeader(packet'.data, m)
    BY <1>3, <2>3, HeaderKept
  <2>6. Befores(open', packet'.position)
    <3> DEFINE n == packet'.position
    <3>1. n \in Nat /\ packet.position <= n
      BY SMT, <1>2, <2>3, <2>4
    <3> HIDE DEF n
    <3>2. Befores(Below, n)
      BY <1>1, <1>2, <3>1, BeforesKept
    <3>3. QED
      BY <2>1, <3>2 DEF n
  <2>7. open' # <<>>
    <3>1. open \in Seq([rest : Seq(Avps), before : Nat])
      BY <1>1 DEF PackInv
    <3>2. Len(open') = Len(open) - 1
      BY <2>1, <3>1 DEF Below
    <3>3. Len(open') # 0
      <4>1. Len(open) \in Nat /\ Len(open) > 1
        BY <2>1, <3>1
      <4>2. QED
        BY SMT, <3>2, <4>1
    <3>4. QED
      BY <3>3
  <2>8. QED
    BY <1>1, <2>3, <2>4, <2>5, <2>6, <2>7 DEF ShapeInv
<1>5. CASE EndMessage
  <2> DEFINE n == packet.position
             q == Patch(packet, 1, n)
  <2>1. packet' = q /\ open' = <<>>
    BY <1>5 DEF EndMessage
  <2>2. n \in Int /\ n \in Nat /\ n >= 20 /\ 1 \in Nat
    BY <1>2
  <2> HIDE DEF n
  <2>3. /\ Shape(q) /\ q.position = packet.position
        /\ \A i \in 1 .. packet.position :
             q.data[i] = IF i - 1 \in 1 .. 3 THEN BigEndian3(n)[i - 1] ELSE packet.data[i]
    BY <1>2, <2>2, PatchShape
  <2> HIDE DEF q
  <2>4. \A i \in 1 .. 20 : i \notin 2 .. 4 => q.data[i] = packet.data[i]
    BY SMT, <1>2, <2>3
  <2>5. \A i \in 1 .. 3 : q.data[1 + i] = BigEndian3(n)[i]
    <3> TAKE i \in 1 .. 3
    <3>1. 1 + i \in 1 .. packet.position /\ (1 + i) - 1 = i
      BY SMT, <1>2
    <3>2. QED
      BY SMT, <2>3, <3>1
  <2>6. HasHeader(q.data, m)
    BY <1>3, <2>4, HeaderKept
  <2>7. Befores(open', packet'.position)
    BY <2>1 DEF Befores
  <2>8. QED
    BY <1>1, <1>2, <2>1, <2>3, <2>5, <2>6, <2>7 DEF ShapeInv, n
<1>6. QED
  BY <1>4, <1>5

\* So every step of create_send_data keeps what was packed.
LEMMA ShapeStep ==
  ASSUME NEW Avps, NEW TypeOf, Packable(Avps, TypeOf), Encodable(Avps, TypeOf),
         NEW m, ShapeInv(Avps, m), create_send_data(TypeOf)
  PROVE  ShapeInv(Avps, m)' /\ packet'.position >= 20
BY ShapeWrite, ShapeEnd DEF create_send_data

\* It stays while nothing is packed.
LEMMA ShapeStays ==
  ASSUME NEW Avps, NEW m, ShapeInv(Avps, m), UNCHANGED packVars
  PROVE  ShapeInv(Avps, m)'
<1>1. PackInv(Avps)'
  BY PackInvStays DEF ShapeInv
<1>2. packet' = packet /\ open' = open
  BY DEF packVars
<1>3. QED
  BY <1>1, <1>2 DEF ShapeInv

\* What the three bytes of a length hold is less than this.
LengthLimit == 16777216

\* What unpack_message_header (base_receive.c) finds is message m: its fields, flags
\* and sign included, and the number of bytes there are, a multiple of four.
ReadsBack(m) ==
  LET h == unpack_message_header(At(packet.data, 0)) IN
  /\ h.version = m.version /\ h.flags = unpack_message_flag(m.flag)
  /\ h.command_code = m.command_code /\ h.app_id = m.app_id
  /\ h.hop_hop_id = m.hop_hop_id /\ h.end_end_id = m.end_end_id
  /\ h.length = Len(packet.data) /\ h.length % 4 = 0
  /\ h.data_len = Len(packet.data) - MESSAGE_HEADER_LEN

\* So it is once the message was packed to its end, if its length has room in
\* three bytes.
LEMMA HeaderFound ==
  ASSUME NEW Avps, NEW m, ShapeInv(Avps, m), HeaderFits(m),
         open = <<>>, 0 < packet.position, packet.position < LengthLimit
  PROVE  ReadsBack(m)
<1> DEFINE n == packet.position
<1>1. /\ Shape(packet) /\ n % 4 = 0 /\ HasHeader(packet.data, m)
      /\ \A i \in 1 .. 3 : packet.data[1 + i] = BigEndian3(n)[i]
  BY DEF ShapeInv
<1>2. n = Len(packet.data)
  BY <1>1 DEF Shape
<1>3. n \in Int24
  <2>1. n \in Nat
    BY <1>1 DEF Shape
  <2>2. QED
    BY SMT, <2>1 DEF Int24, LengthLimit
<1> HIDE DEF n
<1> DEFINE h == unpack_message_header(At(packet.data, 0))
<1>4. /\ h.version = m.version /\ h.length = n
      /\ h.flags = unpack_message_flag(m.flag) /\ h.command_code = m.command_code
      /\ h.app_id = m.app_id /\ h.hop_hop_id = m.hop_hop_id
      /\ h.end_end_id = m.end_end_id /\ h.data_len = n - MESSAGE_HEADER_LEN
  BY <1>1, <1>3, HeaderRead
<1> HIDE DEF h
<1>5. QED
  BY <1>1, <1>2, <1>4 DEF ReadsBack, h

\* What the far end reads as a header is the header that was written, for every
\* message: whatever its AVPs, nothing packed behind the header or written back into
\* it later (base_message.c:95, 296) spoils one of its fields.
THEOREM HeaderReadBack ==
  ASSUME NEW Avps, NEW TypeOf, Packable(Avps, TypeOf), Encodable(Avps, TypeOf), NEW Messages,
         \A m \in Messages : m.all_avp_msg \in Seq(Avps) /\ HeaderFits(m)
  PROVE  PackSpec(Messages, TypeOf) =>
           []((open = <<>> /\ 0 < packet.position /\ packet.position < LengthLimit) =>
                \E m \in Messages : ReadsBack(m))
<1> DEFINE Inv == PackInit \/ \E m \in Messages : ShapeInv(Avps, m)
           IsFound == (open = <<>> /\ 0 < packet.position /\ packet.position < LengthLimit) =>
                       \E m \in Messages : ReadsBack(m)
<1>1. Inv => IsFound
  <2>1. ASSUME PackInit PROVE packet.position = 0
    BY <2>1 DEF PackInit, create_new_msg_packet
  <2>2. QED
    BY <2>1, HeaderFound
<1>2. ASSUME Inv, [PackNext(Messages, TypeOf)]_packVars
      PROVE  Inv'
  <2>1. ASSUME NEW m \in Messages, StartMessage(m)
        PROVE  Inv'
    BY <2>1, ShapeStart
  <2>2. ASSUME UNCHANGED packVars
        PROVE  Inv'
    <3>1. ASSUME PackInit PROVE PackInit'
      BY <2>2, <3>1 DEF PackInit, packVars
    <3>2. QED
      BY <1>2, <2>2, <3>1, ShapeStays
  <2>3. ASSUME create_send_data(TypeOf)
        PROVE  Inv'
    <3>1. open # <<>>
      BY <2>3 DEF create_send_data, WriteAvp, EndGroup, EndMessage
    <3>2. PICK m \in Messages : ShapeInv(Avps, m)
      BY <1>2, <3>1 DEF PackInit
    <3>3. ShapeInv(Avps, m)'
      BY <2>3, <3>2, ShapeStep
    <3>4. QED
      BY <3>3
  <2>4. QED
    BY <1>2, <2>1, <2>2, <2>3 DEF PackNext
<1>3. QED
  BY <1>1, <1>2, PTL DEF PackSpec
-----------------------------------------------------------------------------
(* The maps of the dictionary are the tables of HashMapProofs *)

\* hashmap_* as N has it is hashmap_* as the dictionary has it.
LEMMA SameNames ==
  ASSUME NEW t, NEW k, NEW v
  PROVE  /\ N!hashmap_put(t, k, v) = hashmap_put(t, k, v)
         /\ N!hashmap_get(t, k) = hashmap_get(t, k)
         /\ N!hashmap_new(t) = hashmap_new(t)
<1>1. N!hashmap_put(t, k, v) = hashmap_put(t, k, v)
  BY Zenon DEF N!hashmap_put, hashmap_put, N!hashmap_rehash, hashmap_rehash,
     N!hashmap_hash, hashmap_hash, N!Fits, Fits, N!Probe, Probe, N!Rounds, Rounds, N!Least, Least,
     N!MAP_FULL, MAP_FULL
<1>2. N!hashmap_get(t, k) = hashmap_get(t, k)
  BY Zenon DEF N!hashmap_get, hashmap_get, N!Hits, Hits, N!Probe, Probe, N!Rounds, Rounds,
     N!Least, Least
<1>3. N!hashmap_new(t) = hashmap_new(t)
  BY Zenon DEF N!hashmap_new, hashmap_new, N!Free, Free
<1>4. QED
  BY <1>1, <1>2, <1>3

\* And so for hashmapi_*.
LEMMA SameNumbers ==
  ASSUME NEW t, NEW k, NEW v
  PROVE  /\ I!hashmap_put(t, k, v) = hashmapi_put(t, k, v)
         /\ I!hashmap_get(t, k) = hashmapi_get(t, k)
         /\ I!hashmap_new(t) = hashmapi_new(t)
<1>1. I!hashmap_put(t, k, v) = hashmapi_put(t, k, v)
  BY Zenon DEF hashmapi_put, I!hashmap_put, H!hashmap_put, I!hashmap_rehash, H!hashmap_rehash,
     I!hashmap_hash, H!hashmap_hash, I!Fits, H!Fits, I!Probe, H!Probe, I!Rounds, H!Rounds,
     I!Least, H!Least, I!MAP_FULL, H!MAP_FULL
<1>2. I!hashmap_get(t, k) = hashmapi_get(t, k)
  BY Zenon DEF hashmapi_get, I!hashmap_get, H!hashmap_get, I!Hits, H!Hits, I!Probe, H!Probe,
     I!Rounds, H!Rounds, I!Least, H!Least
<1>3. I!hashmap_new(t) = hashmapi_new(t)
  BY Zenon DEF hashmapi_new, I!hashmap_new, H!hashmap_new, I!Free, H!Free
<1>4. QED
  BY <1>1, <1>2, <1>3

\* A put that does not end the process: the key has its value, the others theirs.
LEMMA NamePut ==
  ASSUME NEW t, N!IsMap(t), NEW k \in Name, NEW v, ~hashmap_put(t, k, v).aborted
  PROVE  /\ N!IsMap(hashmap_put(t, k, v))
         /\ hashmap_get(hashmap_put(t, k, v), k) = v
         /\ \A k2 \in Name : k2 # k => hashmap_get(hashmap_put(t, k, v), k2) = hashmap_get(t, k2)
<1> DEFINE x == hashmap_put(t, k, v)
<1>1. x = N!hashmap_put(t, k, v)
  BY SameNames
<1>2. ~N!hashmap_put(t, k, v).aborted
  BY <1>1
<1>3. /\ N!IsMap(N!hashmap_put(t, k, v))
      /\ N!hashmap_get(N!hashmap_put(t, k, v), k) = v
      /\ \A k2 \in Name :
           k2 # k => N!hashmap_get(N!hashmap_put(t, k, v), k2) = N!hashmap_get(t, k2)
  BY <1>2, N!PutAnswers, DictionaryAssumption
<1> HIDE DEF x
<1>4. \A k2 : N!hashmap_get(x, k2) = hashmap_get(x, k2) /\ N!hashmap_get(t, k2) = hashmap_get(t, k2)
  BY SameNames
<1>5. QED
  BY <1>1, <1>3, <1>4 DEF x

\* The same of a number.
LEMMA NumberPut ==
  ASSUME NEW t, I!IsMap(t), NEW k \in Number, NEW v, ~hashmapi_put(t, k, v).aborted
  PROVE  /\ I!IsMap(hashmapi_put(t, k, v))
         /\ hashmapi_get(hashmapi_put(t, k, v), k) = v
         /\ \A k2 \in Number :
              k2 # k => hashmapi_get(hashmapi_put(t, k, v), k2) = hashmapi_get(t, k2)
<1> DEFINE x == hashmapi_put(t, k, v)
<1>1. x = I!hashmap_put(t, k, v)
  BY SameNumbers
<1>2. ~I!hashmap_put(t, k, v).aborted
  BY <1>1
<1>3. /\ I!IsMap(I!hashmap_put(t, k, v))
      /\ I!hashmap_get(I!hashmap_put(t, k, v), k) = v
      /\ \A k2 \in Number :
           k2 # k => I!hashmap_get(I!hashmap_put(t, k, v), k2) = I!hashmap_get(t, k2)
  BY <1>2, I!PutAnswers, DictionaryAssumption
<1> HIDE DEF x
<1>4. \A k2 : I!hashmap_get(x, k2) = hashmapi_get(x, k2) /\ I!hashmap_get(t, k2) = hashmapi_get(t, k2)
  BY SameNumbers
<1>5. QED
  BY <1>1, <1>3, <1>4 DEF x

\* A new map answers nothing.
LEMMA EmptyMaps ==
  /\ N!IsMap(hashmap_new(TABLE_SIZE))
  /\ \A k \in Name : hashmap_get(hashmap_new(TABLE_SIZE), k) = NULL
  /\ I!IsMap(hashmapi_new(TABLE_SIZE))
  /\ \A k \in Number : hashmapi_get(hashmapi_new(TABLE_SIZE), k) = NULL
<1> DEFINE x == hashmap_new(TABLE_SIZE)
           y == hashmapi_new(TABLE_SIZE)
<1>1. x = N!hashmap_new(TABLE_SIZE) /\ y = I!hashmap_new(TABLE_SIZE)
  BY SameNames, SameNumbers
<1>2. TABLE_SIZE \in Nat \ {0}
  BY DictionaryAssumption
<1>3. /\ N!IsMap(N!hashmap_new(TABLE_SIZE))
      /\ \A k \in Name : N!hashmap_get(N!hashmap_new(TABLE_SIZE), k) = NULL
  BY <1>2, N!NewMap, DictionaryAssumption
<1>4. /\ I!IsMap(I!hashmap_new(TABLE_SIZE))
      /\ \A k \in Number : I!hashmap_get(I!hashmap_new(TABLE_SIZE), k) = NULL
  BY <1>2, I!NewMap, DictionaryAssumption
<1> HIDE DEF x, y
<1>5. \A k : N!hashmap_get(x, k) = hashmap_get(x, k) /\ I!hashmap_get(y, k) = hashmapi_get(y, k)
  BY SameNames, SameNumbers
<1>6. QED
  BY <1>1, <1>3, <1>4, <1>5 DEF x, y
-----------------------------------------------------------------------------
(* Lists *)

\* Induction over the naturals, for a set of them.
LEMMA NatSetInduction ==
  ASSUME NEW S, 0 \in S, \A n \in Nat : n \in S => n + 1 \in S
  PROVE  Nat \subseteq S
<1> DEFINE Less == {ss \in Nat \X Nat : ss[1] < ss[2]}
           Rest == Nat \ S
<1>1. SUFFICES ASSUME Rest # {} PROVE FALSE
  OBVIOUS
<1>2. IsWellFoundedOn(Less, Nat)
  BY NatLessThanWellFounded DEF OpToRel
<1>3. PICK x \in Rest : \A y \in Rest : ~ (<<y, x>> \in Less)
  BY <1>1, <1>2, WFMin
<1>4. x \in Nat /\ x # 0 /\ x - 1 \in Nat /\ x - 1 < x /\ (x - 1) + 1 = x
  BY <1>3
<1>5. x - 1 \notin Rest
  BY <1>3, <1>4
<1>6. QED
  BY <1>3, <1>4, <1>5


\* A sequence over a set is one over a larger set.
LEMMA SeqMore ==
  ASSUME NEW R, NEW T, R \subseteq T, NEW seq \in Seq(R)
  PROVE  seq \in Seq(T)
<1>1. Len(seq) \in Nat /\ seq = [i \in 1 .. Len(seq) |-> seq[i]]
  OBVIOUS
<1>2. \A i \in 1 .. Len(seq) : seq[i] \in T
  OBVIOUS
<1>3. [i \in 1 .. Len(seq) |-> seq[i]] \in Seq(T)
  BY <1>1, <1>2
<1>4. QED
  BY <1>1, <1>3

\* The last element of a sequence, replaced; one more behind it.
LEMMA LastReplaced ==
  ASSUME NEW R, NEW seq \in Seq(R), seq # <<>>, NEW s
  PROVE  LET b == [seq EXCEPT ![Len(seq)] = s] IN
         /\ Len(seq) \in Nat /\ Len(seq) \in 1 .. Len(seq) /\ seq[Len(seq)] \in R
         /\ b \in Seq(R \cup {s}) /\ Len(b) = Len(seq)
         /\ \A i \in 1 .. Len(seq) : b[i] = IF i = Len(seq) THEN s ELSE seq[i]
<1>1. Len(seq) \in Nat /\ Len(seq) > 0 /\ DOMAIN seq = 1 .. Len(seq)
  OBVIOUS
<1>2. Len(seq) \in 1 .. Len(seq) /\ seq[Len(seq)] \in R
  BY <1>1
<1>3. seq \in Seq(R \cup {s})
  BY SeqMore
<1>4. [seq EXCEPT ![Len(seq)] = s] \in Seq(R \cup {s}) /\ Len([seq EXCEPT ![Len(seq)] = s]) = Len(seq)
  BY <1>1, <1>2, <1>3
<1>5. \A i \in 1 .. Len(seq) : [seq EXCEPT ![Len(seq)] = s][i] = IF i = Len(seq) THEN s ELSE seq[i]
  BY <1>1
<1>6. QED
  BY <1>1, <1>2, <1>4, <1>5

\* One more element at the end of a sequence.
LEMMA OneAppended ==
  ASSUME NEW R, NEW seq \in Seq(R), NEW s
  PROVE  LET b == Append(seq, s) IN
         /\ b \in Seq(R \cup {s}) /\ Len(seq) \in Nat /\ Len(b) = Len(seq) + 1
         /\ b[Len(seq) + 1] = s /\ \A i \in 1 .. Len(seq) : b[i] = seq[i]
<1>1. seq \in Seq(R \cup {s})
  BY SeqMore
<1>2. QED
  BY <1>1

\* VectorOf is a loop that adds one element in every round.
LEMMA VectorLoop ==
  ASSUME NEW seq, Len(seq) \in Nat
  PROVE  \E f : /\ f = [n \in 0 .. Len(seq) |->
                          IF n = 0 THEN vector_init ELSE vector_add(f[n - 1], seq[n])]
                /\ VectorOf(seq) = f[Len(seq)]
<1> DEFINE IsLoop(f, m) == f = [n \in 0 .. m |->
                                  IF n = 0 THEN vector_init ELSE vector_add(f[n - 1], seq[n])]
           S == {m \in Nat : \E f : IsLoop(f, m)}
<1>1. 0 \in S
  <2> DEFINE f == [n \in 0 .. 0 |-> vector_init]
  <2>1. IsLoop(f, 0)
    OBVIOUS
  <2>2. QED
    BY <2>1
<1>2. ASSUME NEW m \in Nat, m \in S
      PROVE  m + 1 \in S
  <2>1. PICK f : IsLoop(f, m)
    BY <1>2
  <2> DEFINE g == [n \in 0 .. m + 1 |-> IF n <= m THEN f[n] ELSE vector_add(f[m], seq[m + 1])]
  <2>2. \A n \in 0 .. m + 1 : g[n] = IF n = 0 THEN vector_init ELSE vector_add(g[n - 1], seq[n])
    <3> TAKE n \in 0 .. m + 1
    <3>1. CASE n = 0
      BY <2>1, <3>1
    <3>2. CASE n # 0 /\ n <= m
      <4>1. n - 1 \in 0 .. m /\ n - 1 \in 0 .. m + 1 /\ n - 1 <= m /\ n \in 0 .. m
        BY <3>2
      <4>2. g[n] = f[n] /\ g[n - 1] = f[n - 1]
        BY <3>2, <4>1
      <4>3. f[n] = vector_add(f[n - 1], seq[n])
        BY <2>1, <3>2, <4>1
      <4>4. QED
        BY <3>2, <4>2, <4>3
    <3>3. CASE n = m + 1
      <4>1. n - 1 = m /\ ~(n <= m) /\ n # 0 /\ m \in 0 .. m + 1
        BY <3>3
      <4>2. g[m] = f[m]
        BY <4>1
      <4>3. QED
        BY <3>3, <4>1, <4>2
    <3>4. QED
      BY <3>1, <3>2, <3>3
  <2>3. IsLoop(g, m + 1)
    <3>1. g = [n \in 0 .. m + 1 |-> g[n]]
      OBVIOUS
    <3> HIDE DEF g
    <3>2. QED
      BY <2>2, <3>1
  <2> HIDE DEF g, IsLoop
  <2>4. QED
    BY <2>3
<1>3. Len(seq) \in S
  <2> HIDE DEF S
  <2>1. QED
    BY <1>1, <1>2, NatSetInduction
<1>4. PICK f : IsLoop(f, Len(seq))
  BY <1>3
<1> DEFINE added == CHOOSE added : added = [n \in 0 .. Len(seq) |->
                      IF n = 0 THEN vector_init ELSE vector_add(added[n - 1], seq[n])]
<1>5. IsLoop(added, Len(seq))
  BY <1>4
<1>6. VectorOf(seq) = added[Len(seq)]
  BY DEF VectorOf
<1> HIDE DEF added
<1>7. QED
  BY <1>5, <1>6

\* A vector with the first m elements of a sequence in it.
Holds(v, seq, m) ==
  /\ v = [data |-> v.data, count |-> m, size |-> v.size]
  /\ v.size \in Nat /\ m <= v.size /\ v.size > 0
  /\ v.data = [k \in 0 .. v.size - 1 |-> v.data[k]]
  /\ \A k \in 1 .. m : v.data[k - 1] = seq[k]

\* A vector that was full is doubled, and keeps what it holds.
LEMMA AddHolds ==
  ASSUME NEW v, NEW seq, NEW m \in Nat, Holds(v, seq, m)
  PROVE  Holds(vector_add(v, seq[m + 1]), seq, m + 1)
<1> DEFINE g == Grown(v)
<1>a. v.count = m /\ v = [data |-> v.data, count |-> m, size |-> v.size]
  BY DEF Holds
<1>1. /\ g = [data |-> g.data, count |-> m, size |-> g.size]
      /\ g.size \in Nat /\ m < g.size
      /\ g.data = [k \in 0 .. g.size - 1 |-> g.data[k]]
      /\ \A k \in 0 .. v.size - 1 : g.data[k] = v.data[k]
      /\ v.size <= g.size
  <2>1. CASE v.size = m
    <3> DEFINE d == [k \in 0 .. 2 * v.size - 1 |-> IF k < v.size THEN v.data[k] ELSE NULL]
    <3>1. g = [data |-> d, count |-> m, size |-> 2 * v.size]
      <4>1. g = [v EXCEPT !.size = 2 * v.size, !.data = d]
        BY <1>a, <2>1, Zenon DEF Grown
      <4> HIDE DEF d, g
      <4>2. QED
        BY <1>a, <4>1
    <3>2. 2 * v.size \in Nat /\ m < 2 * v.size /\ v.size <= 2 * v.size /\ v.size \in Nat
      BY <2>1 DEF Holds
    <3>3. \A k \in 0 .. v.size - 1 : k \in 0 .. 2 * v.size - 1 /\ k < v.size
      BY <3>2
    <3>4. \A k \in 0 .. v.size - 1 : d[k] = v.data[k]
      BY <3>3
    <3>5. d = [k \in 0 .. 2 * v.size - 1 |-> d[k]]
      OBVIOUS
    <3> HIDE DEF d
    <3>6. g.data = d /\ g.size = 2 * v.size
      BY <3>1
    <3> HIDE DEF g
    <3>7. QED
      BY <3>1, <3>2, <3>4, <3>5, <3>6
  <2>2. CASE v.size # m
    <3>1. g = v
      BY <1>a, <2>2 DEF Grown
    <3>2. m < v.size
      BY <2>2 DEF Holds
    <3> HIDE DEF g
    <3>3. QED
      BY <3>1, <3>2 DEF Holds
  <2>3. QED
    BY <2>1, <2>2
<1>2. vector_add(v, seq[m + 1]) = [g EXCEPT !.data[m] = seq[m + 1], !.count = g.count + 1]
  <2> HIDE DEF g
  <2>1. vector_add(v, seq[m + 1]) = [g EXCEPT !.data[v.count] = seq[m + 1], !.count = @ + 1]
    BY Zenon DEF vector_add, g
  <2>2. QED
    BY <1>a, <2>1
<1> HIDE DEF g
<1>3. PICK gd, gs : /\ g = [data |-> gd, count |-> m, size |-> gs]
                    /\ gs \in Nat /\ m < gs /\ v.size <= gs
                    /\ gd = [k \in 0 .. gs - 1 |-> gd[k]]
                    /\ \A k \in 0 .. v.size - 1 : gd[k] = v.data[k]
  BY <1>1
<1> DEFINE d == [gd EXCEPT ![m] = seq[m + 1]]
           w == [data |-> d, count |-> m + 1, size |-> gs]
<1>4. vector_add(v, seq[m + 1]) = w
  BY <1>2, <1>3
<1>5. DOMAIN gd = 0 .. gs - 1
  BY <1>3
<1>6. d = [k \in 0 .. gs - 1 |-> IF k = m THEN seq[m + 1] ELSE gd[k]]
  BY <1>5
<1>7. ASSUME NEW k \in 1 .. m + 1
      PROVE  d[k - 1] = seq[k]
  <2>1. k - 1 \in 0 .. gs - 1
    BY <1>3
  <2>2. CASE k = m + 1
    BY <1>6, <2>1, <2>2
  <2>3. CASE k \in 1 .. m
    <3>1. k - 1 \in 0 .. v.size - 1 /\ k - 1 # m
      BY <2>3 DEF Holds
    <3>2. v.data[k - 1] = seq[k]
      BY <2>3 DEF Holds
    <3>3. QED
      BY <1>3, <1>6, <2>1, <3>1, <3>2
  <2>4. QED
    BY <2>2, <2>3
<1>8. d = [k \in 0 .. gs - 1 |-> d[k]]
  BY <1>6
<1> HIDE DEF d
<1>9. w = [data |-> d, count |-> m + 1, size |-> gs] /\ w.data = d /\ w.size = gs
  OBVIOUS
<1> HIDE DEF w
<1>10. Holds(w, seq, m + 1)
  <2>1. w = [data |-> w.data, count |-> m + 1, size |-> w.size]
    BY <1>9
  <2>2. w.size \in Nat /\ m + 1 <= w.size /\ w.size > 0
    BY <1>3, <1>9
  <2>3. w.data = [k \in 0 .. w.size - 1 |-> w.data[k]]
    BY <1>8, <1>9
  <2>4. \A k \in 1 .. m + 1 : w.data[k - 1] = seq[k]
    BY <1>7, <1>9
  <2>5. QED
    BY <2>1, <2>2, <2>3, <2>4, Zenon DEF Holds
<1>11. QED
  BY <1>4, <1>10

\* The vector filled from a sequence has that sequence in it.
LEMMA VectorHolds ==
  ASSUME NEW S, NEW seq \in Seq(S)
  PROVE  vector_count(VectorOf(seq)) = Len(seq) /\ Elements(VectorOf(seq)) = seq
<1>1. Len(seq) \in Nat
  OBVIOUS
<1>2. PICK f : /\ f = [n \in 0 .. Len(seq) |->
                         IF n = 0 THEN vector_init ELSE vector_add(f[n - 1], seq[n])]
               /\ VectorOf(seq) = f[Len(seq)]
  BY <1>1, VectorLoop
<1>3. /\ f[0] = vector_init
      /\ \A n \in 1 .. Len(seq) : f[n] = vector_add(f[n - 1], seq[n])
  <2>1. \A n \in 0 .. Len(seq) : f[n] = IF n = 0 THEN vector_init ELSE vector_add(f[n - 1], seq[n])
    BY <1>2
  <2>2. QED
    BY <1>1, <2>1
<1> DEFINE Full == {n \in Nat : n <= Len(seq) => Holds(f[n], seq, n)}
<1>4. 0 \in Full
  <2>1. Holds(vector_init, seq, 0)
    BY DEF Holds, vector_init, INITIAL_VECTOR_SIZE
  <2>2. QED
    BY <1>3, <2>1
<1>5. ASSUME NEW n \in Nat, n \in Full
      PROVE  n + 1 \in Full
  <2>1. SUFFICES ASSUME n + 1 <= Len(seq) PROVE Holds(f[n + 1], seq, n + 1)
    OBVIOUS
  <2>2. Holds(f[n], seq, n)
    BY <1>1, <1>5, <2>1
  <2>3. f[n + 1] = vector_add(f[n], seq[n + 1])
    <3>1. n + 1 \in 1 .. Len(seq) /\ (n + 1) - 1 = n
      BY <1>1, <2>1
    <3>2. QED
      BY <1>3, <3>1
  <2>4. QED
    BY <2>2, <2>3, AddHolds
<1>6. Nat \subseteq Full
  <2> HIDE DEF Full
  <2>1. QED
    BY <1>4, <1>5, NatSetInduction
<1>7. Holds(VectorOf(seq), seq, Len(seq))
  BY <1>1, <1>2, <1>6
<1> DEFINE v == VectorOf(seq)
<1> HIDE DEF v
<1>8. v.count = Len(seq) /\ \A k \in 1 .. Len(seq) : v.data[k - 1] = seq[k]
  BY <1>7 DEF Holds, v
<1>9. Elements(v) = [i \in 1 .. Len(seq) |-> seq[i]]
  <2>1. \A i \in 1 .. Len(seq) : vector_get(v, i - 1) = seq[i]
    BY <1>1, <1>8 DEF vector_get, InRange
  <2>2. QED
    BY <1>8, <2>1 DEF Elements, vector_count
<1>10. seq = [i \in 1 .. Len(seq) |-> seq[i]]
  OBVIOUS
<1>11. QED
  BY <1>8, <1>9, <1>10 DEF v, vector_count
-----------------------------------------------------------------------------
(* Types and AVPs *)

\* A name of a table has its place there.
LEMMA TableIndex ==
  ASSUME NEW table, Len(table) \in Nat, DOMAIN table = 1 .. Len(table), NEW str \in ToSet(table)
  PROVE  /\ IndexIn(table, str) \in 0 .. Len(table) - 1
         /\ table[IndexIn(table, str) + 1] = str
<1> DEFINE i == CHOOSE i \in DOMAIN table : table[i] = str
<1>1. \E k \in DOMAIN table : table[k] = str
  BY DEF ToSet
<1>2. i \in DOMAIN table /\ table[i] = str
  BY <1>1
<1>3. IndexIn(table, str) = i - 1
  BY DEF IndexIn
<1> HIDE DEF i
<1>4. DOMAIN table = 1 .. Len(table) /\ Len(table) \in Nat
  OBVIOUS
<1>5. i \in Int /\ 1 <= i /\ i <= Len(table)
  BY <1>2, <1>4
<1> DEFINE k == IndexIn(table, str)
<1> HIDE DEF k
<1>6. k = i - 1
  BY <1>3 DEF k
<1>7. k \in 0 .. Len(table) - 1 /\ k + 1 = i
  BY <1>4, <1>5, <1>6
<1>8. QED
  BY <1>2, <1>7 DEF k

TypeNames == ToSet(DIA_TYPE_STR)
TypeCodes == 0 .. Len(DIA_TYPE_STR) - 1

\* The code of a type tells it from the others.
LEMMA TypeIndex ==
  /\ \A t \in TypeNames : convert_typestr_int(t) \in TypeCodes
  /\ \A t \in TypeNames : \A u \in TypeNames :
       convert_typestr_int(t) = convert_typestr_int(u) => t = u
<1>1. Len(DIA_TYPE_STR) \in Nat /\ DOMAIN DIA_TYPE_STR = 1 .. Len(DIA_TYPE_STR)
  BY DEF DIA_TYPE_STR
<1>2. \A t \in TypeNames : /\ IndexIn(DIA_TYPE_STR, t) \in TypeCodes
                           /\ DIA_TYPE_STR[IndexIn(DIA_TYPE_STR, t) + 1] = t
  BY <1>1, TableIndex DEF TypeNames, TypeCodes
<1>3. \A t \in TypeNames : /\ convert_typestr_int(t) \in TypeCodes
                           /\ DIA_TYPE_STR[convert_typestr_int(t) + 1] = t
  BY <1>2 DEF convert_typestr_int
<1>4. QED
  BY <1>3

\* The types the codecs tell apart are in the table.
LEMMA TypesNamed ==
  {"OctetString", "Integer32", "Integer64", "Unsigned32", "Unsigned64", "Grouped", "Time",
   "UTF8String", "Enumerated"} \subseteq TypeNames
<1> DEFINE T == DIA_TYPE_STR
<1>1. 1 .. 21 = DOMAIN T
  BY DEF DIA_TYPE_STR
<1>2. /\ T[1] = "OctetString" /\ T[2] = "Integer32" /\ T[3] = "Integer64" /\ T[4] = "Unsigned32"
      /\ T[5] = "Unsigned64" /\ T[8] = "Grouped" /\ T[10] = "Time" /\ T[11] = "UTF8String"
      /\ T[14] = "Enumerated"
  BY DEF DIA_TYPE_STR
<1> HIDE DEF T
<1>3. {T[1], T[2], T[3], T[4], T[5], T[8], T[10], T[11], T[14]} \subseteq {T[i] : i \in DOMAIN T}
  BY <1>1
<1>4. QED
  BY <1>2, <1>3 DEF TypeNames, ToSet, T

\* A multiplicity is a number, one that is unknown too.
LEMMA MultiplicityIsInt ==
  ASSUME NEW mul
  PROVE  convert_multiplicity(mul) \in Int
<1>1. Len(DIA_MULTI_STR) \in Nat /\ DOMAIN DIA_MULTI_STR = 1 .. Len(DIA_MULTI_STR)
  BY DEF DIA_MULTI_STR
<1>2. CASE mul \in ToSet(DIA_MULTI_STR)
  <2>1. IndexIn(DIA_MULTI_STR, mul) \in 0 .. Len(DIA_MULTI_STR) - 1
    BY <1>1, <1>2, TableIndex
  <2>2. QED
    BY <1>1, <1>2, <2>1 DEF convert_multiplicity
<1>3. CASE mul \notin ToSet(DIA_MULTI_STR)
  BY <1>3 DEF convert_multiplicity
<1>4. QED
  BY <1>2, <1>3

Child == [avp_name : Name, multiplicity : Int]
Info == [name : Name, multiplicity : Int]

\* An avp_represent as it is while its nodes are read: with children if it is a
\* group, with numbers if it has an enumeration.
IsNode(r) ==
  /\ r = [name |-> r.name, code |-> r.code, mandatory |-> r.mandatory, protect |-> r.protect,
          vendor_bit |-> r.vendor_bit, vendor |-> r.vendor, type |-> r.type,
          is_enumT |-> r.is_enumT, enumT |-> r.enumT, childrens |-> r.childrens]
  /\ r.code \in Int /\ r.vendor \in Int
  /\ r.mandatory \in {0, 1} /\ r.protect \in {0, 1} /\ r.vendor_bit \in {0, 1}
  /\ r.type \in TypeCodes
  /\ r.type = convert_typestr_int("Grouped") => Elements(r.childrens) \in Seq(Child)
  /\ r.is_enumT \in {0, 1}
  /\ r.is_enumT = 1 => Elements(r.enumT) \in Seq(Int) /\ vector_count(r.enumT) \in Nat

NodeType(node) == IF node.tag = "type" THEN node.type_name ELSE "Grouped"

\* A <type> or <grouped> sets the type, and what goes with it.
LEMMA NodeRead ==
  ASSUME NEW r, IsNode(r), NEW node \in Nodes
  PROVE  LET q == TypeNode(r, node) IN
         /\ IsNode(q) /\ q.name = r.name /\ q.code = r.code
         /\ q.type = convert_typestr_int(NodeType(node))
<1> DEFINE type == NodeType(node)
           q == TypeNode(r, node)
<1>1. type \in TypeNames /\ (node.tag = "type" => type # "Grouped" /\ node.enums \in Seq(Int))
  BY TypesNamed DEF Nodes, NodeType, LeafTypes, TypeNames
<1>2. convert_typestr_int(type) \in TypeCodes
  BY <1>1, TypeIndex
<1>3. CASE node.tag = "type"
  <2> DEFINE list == VectorOf(node.enums)
             s == IF node.type_name = "Enumerated" THEN set_type_enum(r, list) ELSE r
  <2>1. Elements(list) \in Seq(Int) /\ vector_count(list) \in Nat
    BY <1>1, <1>3, VectorHolds
  <2> HIDE DEF list
  <2>2. IsNode(s) /\ s.name = r.name /\ s.code = r.code
    <3>1. CASE node.type_name = "Enumerated"
      <4>1. s = [name |-> r.name, code |-> r.code, mandatory |-> r.mandatory, protect |-> r.protect,
                 vendor_bit |-> r.vendor_bit, vendor |-> r.vendor, type |-> r.type,
                 is_enumT |-> 1, enumT |-> list, childrens |-> r.childrens]
        BY <3>1 DEF IsNode, set_type_enum
      <4> HIDE DEF s
      <4>2. QED
        BY <2>1, <4>1 DEF IsNode
    <3>2. CASE node.type_name # "Enumerated"
      BY <3>2
    <3>3. QED
      BY <3>1, <3>2
  <2>3. q = [s EXCEPT !.type = convert_typestr_int(type)]
    <3>1. TypeNode(r, node) = set_avp_type(s, node.type_name)
      BY <1>3, Zenon DEF TypeNode, list
    <3>2. type = node.type_name
      BY <1>3 DEF NodeType
    <3> HIDE DEF s, type
    <3>3. type \in ToSet(DIA_TYPE_STR)
      BY <1>1 DEF TypeNames, type
    <3>4. QED
      BY <3>1, <3>2, <3>3, Zenon DEF set_avp_type
  <2>4. convert_typestr_int(type) # convert_typestr_int("Grouped")
    BY <1>1, <1>3, TypeIndex, TypesNamed
  <2> HIDE DEF s, q, type
  <2>5. q = [name |-> s.name, code |-> s.code, mandatory |-> s.mandatory, protect |-> s.protect,
             vendor_bit |-> s.vendor_bit, vendor |-> s.vendor, type |-> convert_typestr_int(type),
             is_enumT |-> s.is_enumT, enumT |-> s.enumT, childrens |-> s.childrens]
    BY <2>2, <2>3 DEF IsNode
  <2>6. IsNode(q) /\ q.type = convert_typestr_int(type) /\ q.name = s.name /\ q.code = s.code
    BY <1>2, <2>2, <2>4, <2>5 DEF IsNode
  <2>7. QED
    BY <2>2, <2>6 DEF q, type
<1>4. CASE node.tag # "type"
  <2> DEFINE mul(a) == IF a.multiplicity = NULL THEN "0" ELSE a.multiplicity
             group(a) == [avp_name |-> a.name, multiplicity |-> convert_multiplicity(mul(a))]
             seq == [i \in DOMAIN node.avps |-> group(node.avps[i])]
             list == VectorOf(seq)
             s == set_type_group(r, list)
  <2>1. node.avps \in Seq([name : Name, multiplicity : STRING \cup {NULL}])
    BY <1>4 DEF Nodes, GroupAvps
  <2>2. seq \in Seq(Child)
    <3>1. \A i \in DOMAIN node.avps : group(node.avps[i]) \in Child
      <4> TAKE i \in DOMAIN node.avps
      <4>1. node.avps[i] \in [name : Name, multiplicity : STRING \cup {NULL}]
        <5> DEFINE M == [name : Name, multiplicity : STRING \cup {NULL}]
        <5>1. node.avps \in Seq(M)
          BY <2>1
        <5> HIDE DEF M
        <5>2. node.avps[i] \in M
          BY <5>1
        <5>3. QED
          BY <5>2 DEF M
      <4>2. node.avps[i].name \in Name
        BY <4>1
      <4>3. QED
        BY <4>2, MultiplicityIsInt DEF Child
    <3> HIDE DEF group
    <3>2. DOMAIN node.avps = 1 .. Len(node.avps) /\ Len(node.avps) \in Nat
      BY <2>1
    <3>3. QED
      BY <3>1, <3>2
  <2> HIDE DEF seq
  <2>3. Elements(list) \in Seq(Child)
    BY <2>2, VectorHolds
  <2>4. q = [s EXCEPT !.type = convert_typestr_int("Grouped")] /\ type = "Grouped"
    <3>1. TypeNode(r, node) = set_avp_type(s, "Grouped")
      BY <1>4, Zenon DEF TypeNode, seq
    <3>2. "Grouped" \in ToSet(DIA_TYPE_STR)
      BY TypesNamed DEF TypeNames
    <3> HIDE DEF s
    <3>3. QED
      BY <1>4, <3>1, <3>2, Zenon DEF set_avp_type, NodeType
  <2> HIDE DEF q, type, list
  <2>5. s = [name |-> r.name, code |-> r.code, mandatory |-> r.mandatory, protect |-> r.protect,
             vendor_bit |-> r.vendor_bit, vendor |-> r.vendor, type |-> r.type,
             is_enumT |-> r.is_enumT, enumT |-> r.enumT, childrens |-> list]
    BY DEF IsNode, set_type_group
  <2> HIDE DEF s
  <2>6. q = [name |-> r.name, code |-> r.code, mandatory |-> r.mandatory, protect |-> r.protect,
             vendor_bit |-> r.vendor_bit, vendor |-> r.vendor, type |-> convert_typestr_int(type),
             is_enumT |-> r.is_enumT, enumT |-> r.enumT, childrens |-> list]
    BY <2>4, <2>5
  <2>7. IsNode(q) /\ q.type = convert_typestr_int(type) /\ q.name = r.name /\ q.code = r.code
    BY <1>2, <2>3, <2>6 DEF IsNode
  <2>8. QED
    BY <2>7 DEF q, type
<1>5. QED
  BY <1>3, <1>4

\* getTypeAvpNode is a loop over the nodes.
LEMMA NodeLoop ==
  ASSUME NEW nodes, Len(nodes) \in Nat, NEW r
  PROVE  \E f : /\ f = [n \in 0 .. Len(nodes) |->
                          IF n = 0 THEN r ELSE TypeNode(f[n - 1], nodes[n])]
                /\ getTypeAvpNode(nodes, r) = f[Len(nodes)]
<1> DEFINE IsLoop(f, m) == f = [n \in 0 .. m |-> IF n = 0 THEN r ELSE TypeNode(f[n - 1], nodes[n])]
           S == {m \in Nat : \E f : IsLoop(f, m)}
<1>1. 0 \in S
  <2> DEFINE f == [n \in 0 .. 0 |-> r]
  <2>1. IsLoop(f, 0)
    OBVIOUS
  <2>2. QED
    BY <2>1
<1>2. ASSUME NEW m \in Nat, m \in S
      PROVE  m + 1 \in S
  <2>1. PICK f : IsLoop(f, m)
    BY <1>2
  <2> DEFINE g == [n \in 0 .. m + 1 |-> IF n <= m THEN f[n] ELSE TypeNode(f[m], nodes[m + 1])]
  <2>2. \A n \in 0 .. m + 1 : g[n] = IF n = 0 THEN r ELSE TypeNode(g[n - 1], nodes[n])
    <3> TAKE n \in 0 .. m + 1
    <3>1. CASE n = 0
      BY <2>1, <3>1
    <3>2. CASE n # 0 /\ n <= m
      <4>1. n - 1 \in 0 .. m /\ n - 1 \in 0 .. m + 1 /\ n - 1 <= m /\ n \in 0 .. m
        BY <3>2
      <4>2. g[n] = f[n] /\ g[n - 1] = f[n - 1]
        BY <3>2, <4>1
      <4>3. f[n] = TypeNode(f[n - 1], nodes[n])
        BY <2>1, <3>2, <4>1
      <4>4. QED
        BY <3>2, <4>2, <4>3
    <3>3. CASE n = m + 1
      <4>1. n - 1 = m /\ ~(n <= m) /\ n # 0 /\ m \in 0 .. m + 1
        BY <3>3
      <4>2. g[m] = f[m]
        BY <4>1
      <4>3. QED
        BY <3>3, <4>1, <4>2
    <3>4. QED
      BY <3>1, <3>2, <3>3
  <2>3. IsLoop(g, m + 1)
    <3>1. g = [n \in 0 .. m + 1 |-> g[n]]
      OBVIOUS
    <3> HIDE DEF g
    <3>2. QED
      BY <2>2, <3>1
  <2> HIDE DEF g, IsLoop
  <2>4. QED
    BY <2>3
<1>3. Len(nodes) \in S
  <2> HIDE DEF S
  <2>1. QED
    BY <1>1, <1>2, NatSetInduction
<1>4. PICK f : IsLoop(f, Len(nodes))
  BY <1>3
<1> DEFINE read == CHOOSE read : read = [n \in 0 .. Len(nodes) |->
                     IF n = 0 THEN r ELSE TypeNode(read[n - 1], nodes[n])]
<1>5. IsLoop(read, Len(nodes))
  BY <1>4
<1>6. getTypeAvpNode(nodes, r) = read[Len(nodes)]
  BY DEF getTypeAvpNode
<1> HIDE DEF read
<1>7. QED
  BY <1>5, <1>6

\* The last node decides the type.
LEMMA NodesRead ==
  ASSUME NEW nodes \in Seq(Nodes), NEW r, IsNode(r)
  PROVE  LET q == getTypeAvpNode(nodes, r) IN
         /\ IsNode(q) /\ q.name = r.name /\ q.code = r.code
         /\ nodes # <<>> => q.type = convert_typestr_int(NodeType(nodes[Len(nodes)]))
<1>1. Len(nodes) \in Nat
  OBVIOUS
<1>2. PICK f : /\ f = [n \in 0 .. Len(nodes) |->
                         IF n = 0 THEN r ELSE TypeNode(f[n - 1], nodes[n])]
               /\ getTypeAvpNode(nodes, r) = f[Len(nodes)]
  BY <1>1, NodeLoop
<1>3. f[0] = r /\ \A n \in 1 .. Len(nodes) : f[n] = TypeNode(f[n - 1], nodes[n])
  <2>1. \A n \in 0 .. Len(nodes) : f[n] = IF n = 0 THEN r ELSE TypeNode(f[n - 1], nodes[n])
    BY <1>2
  <2>2. QED
    BY <1>1, <2>1
<1> DEFINE Good(n) ==
             /\ IsNode(f[n]) /\ f[n].name = r.name /\ f[n].code = r.code
             /\ n > 0 => f[n].type = convert_typestr_int(NodeType(nodes[n]))
           Read == {n \in Nat : n <= Len(nodes) => Good(n)}
<1>4. 0 \in Read
  BY <1>3
<1>5. ASSUME NEW n \in Nat, n \in Read
      PROVE  n + 1 \in Read
  <2>1. SUFFICES ASSUME n + 1 <= Len(nodes) PROVE Good(n + 1)
    OBVIOUS
  <2>2. Good(n)
    BY <1>1, <1>5, <2>1
  <2>3. f[n + 1] = TypeNode(f[n], nodes[n + 1]) /\ nodes[n + 1] \in Nodes
    <3>1. n + 1 \in 1 .. Len(nodes) /\ (n + 1) - 1 = n
      BY <1>1, <2>1
    <3>2. QED
      BY <1>3, <3>1
  <2>4. IsNode(f[n]) /\ f[n].name = r.name /\ f[n].code = r.code
    BY <2>2
  <2> DEFINE q == TypeNode(f[n], nodes[n + 1])
  <2>5. /\ IsNode(q) /\ q.name = f[n].name /\ q.code = f[n].code
        /\ q.type = convert_typestr_int(NodeType(nodes[n + 1]))
    BY <2>3, <2>4, NodeRead
  <2>6. f[n + 1] = q
    BY <2>3
  <2> HIDE DEF q
  <2>7. QED
    BY <2>4, <2>5, <2>6
<1>6. Nat \subseteq Read
  <2> HIDE DEF Read
  <2>1. QED
    BY <1>4, <1>5, NatSetInduction
<1>7. Good(Len(nodes))
  BY <1>1, <1>6
<1>8. nodes # <<>> => Len(nodes) > 0
  OBVIOUS
<1>9. QED
  BY <1>2, <1>7, <1>8

\* An avp_represent once it is read.
IsRep(r) == IsNode(r) /\ (r.code = 268 => r.type = convert_typestr_int("Unsigned32"))

\* What pass 2 makes of an <avpdefn>.
LEMMA AvpRead ==
  ASSUME NEW e \in AvpElements, NEW vendor \in Int
  PROVE  LET q == getTypeAvpNode(e.nodes, create_avp_represent(e, vendor)) IN
         /\ IsRep(q) /\ q.name = e.name /\ q.code = e.code
         /\ q.type = convert_typestr_int(DeclaredType(e))
<1> DEFINE r == create_avp_represent(e, vendor)
           q == getTypeAvpNode(e.nodes, r)
<1>1. /\ e.code \in Number /\ e.nodes \in Seq(Nodes) /\ e.nodes # <<>>
      /\ e.code = 268 => DeclaredType(e) = "Unsigned32"
  BY DEF AvpElements
<1>2. Bit(e.mandatory) \in {0, 1} /\ Bit(e.protected) \in {0, 1} /\ Bit(e.vendor_bit) \in {0, 1}
  BY DEF Bit
<1>3. /\ convert_typestr_int("Integer32") \in TypeCodes
      /\ convert_typestr_int("Integer32") # convert_typestr_int("Grouped")
  BY TypeIndex, TypesNamed
<1>4. r = [name |-> e.name, code |-> e.code, mandatory |-> Bit(e.mandatory),
           protect |-> Bit(e.protected), vendor_bit |-> Bit(e.vendor_bit), vendor |-> vendor,
           type |-> convert_typestr_int("Integer32"), is_enumT |-> 0,
           enumT |-> NULL, childrens |-> NULL]
  BY DEF create_avp_represent
<1>5. e.code \in Int
  BY <1>1, DictionaryAssumption
<1> HIDE DEF r
<1>6. IsNode(r) /\ r.name = e.name /\ r.code = e.code
  BY <1>2, <1>3, <1>4, <1>5 DEF IsNode
<1>7. /\ IsNode(q) /\ q.name = r.name /\ q.code = r.code
      /\ q.type = convert_typestr_int(NodeType(e.nodes[Len(e.nodes)]))
  BY <1>1, <1>6, NodesRead
<1>8. NodeType(e.nodes[Len(e.nodes)]) = DeclaredType(e)
  BY DEF NodeType, DeclaredType
<1> HIDE DEF q
<1>9. QED
  BY <1>1, <1>6, <1>7, <1>8 DEF IsRep, q, r
-----------------------------------------------------------------------------
(* What the maps answer *)

MapsShape(ms) ==
  ms = [vender_code_def |-> ms.vender_code_def, data_type_def |-> ms.data_type_def,
        avp_map |-> ms.avp_map, avp_code_name |-> ms.avp_code_name,
        avp_in_msg |-> ms.avp_in_msg, cmd_map_name |-> ms.cmd_map_name]

\* The maps, one by one.
LEMMA MapsFields ==
  ASSUME NEW a, NEW b, NEW c, NEW d, NEW e, NEW f, NEW x,
         x = [vender_code_def |-> a, data_type_def |-> b, avp_map |-> c, avp_code_name |-> d,
              avp_in_msg |-> e, cmd_map_name |-> f]
  PROVE  /\ x.vender_code_def = a /\ x.data_type_def = b /\ x.avp_map = c
         /\ x.avp_code_name = d /\ x.avp_in_msg = e /\ x.cmd_map_name = f
         /\ DOMAIN x = {"vender_code_def", "data_type_def", "avp_map", "avp_code_name",
                        "avp_in_msg", "cmd_map_name"}
         /\ MapsShape(x)
<1>1. x.vender_code_def = a /\ x.data_type_def = b
  OBVIOUS
<1>2. x.avp_map = c /\ x.avp_code_name = d
  OBVIOUS
<1>3. x.avp_in_msg = e /\ x.cmd_map_name = f
  OBVIOUS
<1>4. DOMAIN x = {"vender_code_def", "data_type_def", "avp_map", "avp_code_name", "avp_in_msg",
                  "cmd_map_name"}
  OBVIOUS
<1>5. MapsShape(x)
  BY <1>1, <1>2, <1>3, Zenon DEF MapsShape
<1>6. QED
  BY <1>1, <1>2, <1>3, <1>4, <1>5

\* The code of a vendor.
VendorsOK(ms) ==
  /\ N!IsMap(ms.vender_code_def)
  /\ \A k \in Name : hashmap_get(ms.vender_code_def, k) \in Int \cup {NULL}

\* The basic type of a type: of the two that are filled in as ints, one packed so.
TypesOK(ms) ==
  /\ I!IsMap(ms.data_type_def)
  /\ \A k \in Number : hashmapi_get(ms.data_type_def, k) \in TypeCodes \cup {NULL}
  /\ hashmapi_get(ms.data_type_def, convert_typestr_int("Unsigned32"))
       \in {NULL} \cup DiaType({"Integer32", "Unsigned32"})
  /\ hashmapi_get(ms.data_type_def, convert_typestr_int("Enumerated"))
       \in {NULL} \cup DiaType({"Integer32", "Unsigned32", "Enumerated"})

\* One of the first n AVPs; a name.
NamesOK(ms, n) ==
  /\ N!IsMap(ms.avp_map) /\ I!IsMap(ms.avp_code_name)
  /\ \A k \in Name : hashmap_get(ms.avp_map, k) \in 1 .. n \cup {NULL}
  /\ \A k \in Number : hashmapi_get(ms.avp_code_name, k) \in Name \cup {NULL}

\* A name; a list of AVPs.
CommandsOK(ms) ==
  /\ N!IsMap(ms.avp_in_msg) /\ I!IsMap(ms.cmd_map_name)
  /\ \A k \in Number : hashmapi_get(ms.cmd_map_name, k) \in Name \cup {NULL}
  /\ \A k \in Name :
       LET command == hashmap_get(ms.avp_in_msg, k)
       IN  command # NULL => Elements(command.all_avp) \in Seq(Info)

RepsOK(reps) == \E R : reps \in Seq(R) /\ \A r \in R : IsRep(r)

MapsOK(ms, reps) ==
  /\ MapsShape(ms)
  /\ VendorsOK(ms) /\ TypesOK(ms) /\ NamesOK(ms, Len(reps)) /\ CommandsOK(ms) /\ RepsOK(reps)

\* A vendor.
LEMMA VendorKeeps ==
  ASSUME NEW ms, NEW reps, MapsOK(ms, reps), NEW k \in Name, NEW v \in Int,
         NEW x, x = [ms EXCEPT !.vender_code_def = hashmap_put(@, k, v)], Survives(x)
  PROVE  MapsOK(x, reps) /\ \A f \in {"data_type_def", "avp_map", "avp_code_name", "avp_in_msg",
                                   "cmd_map_name"} : x[f] = ms[f]
<1> DEFINE m == hashmap_put(ms.vender_code_def, k, v)
<1>1. MapsShape(ms)
  BY DEF MapsOK
<1>2. x = [vender_code_def |-> m, data_type_def |-> ms.data_type_def,
           avp_map |-> ms.avp_map, avp_code_name |-> ms.avp_code_name,
           avp_in_msg |-> ms.avp_in_msg, cmd_map_name |-> ms.cmd_map_name]
  BY <1>1 DEF MapsShape
<1> HIDE DEF m
<1>a. x.vender_code_def = m /\ "vender_code_def" \in DOMAIN x
  BY <1>2
<1>3. ~m.aborted
  BY <1>a DEF Survives
<1>4. N!IsMap(ms.vender_code_def)
  BY DEF MapsOK, VendorsOK
<1>5. /\ N!IsMap(m) /\ hashmap_get(m, k) = v
      /\ \A k2 \in Name : k2 # k => hashmap_get(m, k2) = hashmap_get(ms.vender_code_def, k2)
  BY <1>3, <1>4, NamePut DEF m
<1>6. /\ x.vender_code_def = m /\ x.data_type_def = ms.data_type_def
      /\ x.avp_map = ms.avp_map /\ x.avp_code_name = ms.avp_code_name
      /\ x.avp_in_msg = ms.avp_in_msg /\ x.cmd_map_name = ms.cmd_map_name
      /\ MapsShape(x)
  <2>1. /\ x.vender_code_def = m /\ x.data_type_def = ms.data_type_def
        /\ x.avp_map = ms.avp_map /\ x.avp_code_name = ms.avp_code_name
        /\ x.avp_in_msg = ms.avp_in_msg /\ x.cmd_map_name = ms.cmd_map_name
    BY <1>2
  <2>2. QED
    BY <1>2, <2>1, Zenon DEF MapsShape
<1>7. VendorsOK(x)
  BY <1>5, <1>6 DEF MapsOK, VendorsOK
<1>8. TypesOK(x) /\ NamesOK(x, Len(reps)) /\ CommandsOK(x)
  BY <1>6, Zenon DEF MapsOK, TypesOK, NamesOK, CommandsOK
<1>9. QED
  BY <1>6, <1>7, <1>8 DEF MapsOK

\* A type.
LEMMA TypeKeeps ==
  ASSUME NEW ms, NEW reps, MapsOK(ms, reps), NEW t \in TypeNames, NEW parent \in TypeNames,
         t = "Unsigned32" => parent \in {"Integer32", "Unsigned32"},
         t = "Enumerated" => parent \in {"Integer32", "Unsigned32", "Enumerated"},
         NEW x, x = PutType(ms, t, parent), Survives(x)
  PROVE  /\ MapsOK(x, reps)
         /\ \A f \in {"vender_code_def", "avp_map", "avp_code_name", "avp_in_msg",
                      "cmd_map_name"} : x[f] = ms[f]
         /\ hashmapi_get(x.data_type_def, convert_typestr_int(t)) = convert_typestr_int(parent)
         /\ \A u \in TypeNames \ {t} : hashmapi_get(x.data_type_def, convert_typestr_int(u)) =
                                        hashmapi_get(ms.data_type_def, convert_typestr_int(u))
<1> DEFINE k == convert_typestr_int(t)
           v == convert_typestr_int(parent)
           m == hashmapi_put(ms.data_type_def, k, v)
<1>1. MapsShape(ms)
  BY DEF MapsOK
<1>2. x = [vender_code_def |-> ms.vender_code_def, data_type_def |-> m,
           avp_map |-> ms.avp_map, avp_code_name |-> ms.avp_code_name,
           avp_in_msg |-> ms.avp_in_msg, cmd_map_name |-> ms.cmd_map_name]
  BY <1>1 DEF MapsShape, PutType
<1>3. \A u \in TypeNames : convert_typestr_int(u) \in TypeCodes /\ convert_typestr_int(u) \in Number
  BY TypeIndex, DocsAssumption DEF TypeCodes
<1>4. k \in Number /\ k \in TypeCodes /\ v \in TypeCodes
  BY <1>3
<1> HIDE DEF m
<1>5. ~m.aborted
  BY <1>2 DEF Survives
<1>6. I!IsMap(ms.data_type_def)
  BY DEF MapsOK, TypesOK
<1>7. /\ I!IsMap(m) /\ hashmapi_get(m, k) = v
      /\ \A k2 \in Number : k2 # k => hashmapi_get(m, k2) = hashmapi_get(ms.data_type_def, k2)
  <2> HIDE DEF k, v
  <2>1. QED
    BY <1>4, <1>5, <1>6, NumberPut DEF m
<1>8. /\ x.vender_code_def = ms.vender_code_def /\ x.data_type_def = m
      /\ x.avp_map = ms.avp_map /\ x.avp_code_name = ms.avp_code_name
      /\ x.avp_in_msg = ms.avp_in_msg /\ x.cmd_map_name = ms.cmd_map_name
      /\ MapsShape(x)
  BY <1>2 DEF MapsShape
<1>9. \A u \in TypeNames \ {t} : convert_typestr_int(u) # k
  BY TypeIndex
<1>10. \A u \in TypeNames \ {t} : hashmapi_get(m, convert_typestr_int(u)) =
                                   hashmapi_get(ms.data_type_def, convert_typestr_int(u))
  <2> TAKE u \in TypeNames \ {t}
  <2>1. convert_typestr_int(u) \in Number /\ convert_typestr_int(u) # k
    BY <1>3, <1>9
  <2>2. QED
    BY <1>7, <2>1
<1>11. TypesOK(x)
  <2>1. \A k2 \in Number : hashmapi_get(m, k2) \in TypeCodes \cup {NULL}
    <3>1. \A k2 \in Number : hashmapi_get(ms.data_type_def, k2) \in TypeCodes \cup {NULL}
      BY DEF MapsOK, TypesOK
    <3> HIDE DEF k, v
    <3>2. QED
      BY <1>4, <1>7, <3>1
  <2>2. ASSUME NEW u \in TypeNames, NEW U, t = u => parent \in U,
               hashmapi_get(ms.data_type_def, convert_typestr_int(u)) \in {NULL} \cup DiaType(U)
        PROVE  hashmapi_get(m, convert_typestr_int(u)) \in {NULL} \cup DiaType(U)
    <3>1. CASE u = t
      BY <1>7, <2>2, <3>1 DEF DiaType
    <3>2. CASE u # t
      BY <1>10, <2>2, <3>2
    <3>3. QED
      BY <3>1, <3>2
  <2>3. hashmapi_get(m, convert_typestr_int("Unsigned32"))
          \in {NULL} \cup DiaType({"Integer32", "Unsigned32"})
    <3>1. hashmapi_get(ms.data_type_def, convert_typestr_int("Unsigned32"))
            \in {NULL} \cup DiaType({"Integer32", "Unsigned32"})
      BY DEF MapsOK, TypesOK
    <3>2. "Unsigned32" \in TypeNames
      BY TypesNamed
    <3>3. QED
      BY <2>2, <3>1, <3>2
  <2>4. hashmapi_get(m, convert_typestr_int("Enumerated"))
          \in {NULL} \cup DiaType({"Integer32", "Unsigned32", "Enumerated"})
    <3>1. hashmapi_get(ms.data_type_def, convert_typestr_int("Enumerated"))
            \in {NULL} \cup DiaType({"Integer32", "Unsigned32", "Enumerated"})
      BY DEF MapsOK, TypesOK
    <3>2. "Enumerated" \in TypeNames
      BY TypesNamed
    <3>3. QED
      BY <2>2, <3>1, <3>2
  <2>5. QED
    BY <1>7, <1>8, <2>1, <2>3, <2>4 DEF TypesOK
<1>12. VendorsOK(x) /\ NamesOK(x, Len(reps)) /\ CommandsOK(x)
  BY <1>8, Zenon DEF MapsOK, VendorsOK, NamesOK, CommandsOK
<1>13. MapsOK(x, reps)
  BY <1>8, <1>11, <1>12 DEF MapsOK
<1>14. QED
  BY <1>7, <1>8, <1>10, <1>13

PutAvp(ms, name, code, place) ==
  [ms EXCEPT !.avp_map = hashmap_put(@, name, place),
             !.avp_code_name = hashmapi_put(@, code, name)]

\* The place of an AVP, under its name, and its name, under its code.
LEMMA AvpKeeps ==
  ASSUME NEW ms, NEW reps, MapsOK(ms, reps), NEW b, RepsOK(b), Len(reps) \in Nat, Len(b) = Len(reps) + 1,
         NEW name \in Name, NEW code \in Number,
         NEW x, x = PutAvp(ms, name, code, Len(b)), Survives(x)
  PROVE  /\ MapsOK(x, b)
         /\ \A f \in {"vender_code_def", "data_type_def", "avp_in_msg", "cmd_map_name"} : x[f] = ms[f]
         /\ hashmap_get(x.avp_map, name) = Len(b) /\ hashmapi_get(x.avp_code_name, code) = name
         /\ \A k \in Name \ {name} : hashmap_get(x.avp_map, k) = hashmap_get(ms.avp_map, k)
         /\ \A k \in Number \ {code} :
              hashmapi_get(x.avp_code_name, k) = hashmapi_get(ms.avp_code_name, k)
<1> DEFINE m == hashmap_put(ms.avp_map, name, Len(b))
           w == hashmapi_put(ms.avp_code_name, code, name)
<1>1. MapsShape(ms)
  BY DEF MapsOK
<1>2. x = [vender_code_def |-> ms.vender_code_def, data_type_def |-> ms.data_type_def,
           avp_map |-> m, avp_code_name |-> w,
           avp_in_msg |-> ms.avp_in_msg, cmd_map_name |-> ms.cmd_map_name]
  BY <1>1 DEF MapsShape, PutAvp
<1> HIDE DEF m, w
<1>3. /\ x.vender_code_def = ms.vender_code_def /\ x.data_type_def = ms.data_type_def
      /\ x.avp_map = m /\ x.avp_code_name = w
      /\ x.avp_in_msg = ms.avp_in_msg /\ x.cmd_map_name = ms.cmd_map_name
      /\ MapsShape(x)
  BY <1>2, MapsFields
<1>4. DOMAIN x = {"vender_code_def", "data_type_def", "avp_map", "avp_code_name", "avp_in_msg",
                  "cmd_map_name"}
  BY <1>2, MapsFields
<1>5. ~m.aborted /\ ~w.aborted
  BY <1>3, <1>4 DEF Survives
<1>6. N!IsMap(ms.avp_map) /\ I!IsMap(ms.avp_code_name)
  BY DEF MapsOK, NamesOK
<1>7. /\ N!IsMap(m) /\ hashmap_get(m, name) = Len(b)
      /\ \A k \in Name : k # name => hashmap_get(m, k) = hashmap_get(ms.avp_map, k)
  <2> DEFINE n == Len(b)
  <2> HIDE DEF n
  <2>1. m = hashmap_put(ms.avp_map, name, n)
    BY DEF m, n
  <2>2. ~hashmap_put(ms.avp_map, name, n).aborted
    BY <1>5, <2>1
  <2>3. /\ N!IsMap(m) /\ hashmap_get(m, name) = n
        /\ \A k \in Name : k # name => hashmap_get(m, k) = hashmap_get(ms.avp_map, k)
    BY <1>6, <2>1, <2>2, NamePut
  <2>4. QED
    BY <2>3 DEF n
<1>8. /\ I!IsMap(w) /\ hashmapi_get(w, code) = name
      /\ \A k \in Number : k # code => hashmapi_get(w, k) = hashmapi_get(ms.avp_code_name, k)
  BY <1>5, <1>6, NumberPut DEF w
<1>9. NamesOK(x, Len(b))
  <2>1. \A k \in Name : hashmap_get(ms.avp_map, k) \in 1 .. Len(reps) \cup {NULL}
    BY DEF MapsOK, NamesOK
  <2>2. \A k \in Number : hashmapi_get(ms.avp_code_name, k) \in Name \cup {NULL}
    BY DEF MapsOK, NamesOK
  <2> DEFINE n == Len(b)
             l == Len(reps)
  <2>a. l \in Nat /\ n = l + 1
    OBVIOUS
  <2> HIDE DEF n, l
  <2>3. n \in 1 .. n /\ 1 .. l \subseteq 1 .. n
    BY <2>a
  <2>4. \A k \in Name : hashmap_get(m, k) \in 1 .. n \cup {NULL}
    <3> TAKE k \in Name
    <3>1. CASE k = name
      BY <1>7, <2>3, <3>1 DEF n
    <3>2. CASE k # name
      BY <1>7, <2>1, <2>3, <3>2 DEF l
    <3>3. QED
      BY <3>1, <3>2
  <2>5. \A k \in Number : hashmapi_get(w, k) \in Name \cup {NULL}
    BY <1>8, <2>2
  <2>6. QED
    BY <1>3, <1>7, <1>8, <2>4, <2>5 DEF NamesOK, n
<1>10. VendorsOK(x) /\ TypesOK(x) /\ CommandsOK(x)
  BY <1>3, Zenon DEF MapsOK, VendorsOK, TypesOK, CommandsOK
<1>11. MapsOK(x, b)
  BY <1>3, <1>9, <1>10 DEF MapsOK
<1>12. QED
  BY <1>3, <1>7, <1>8, <1>11

\* The AVPs, when one is appended and the one before it may get a vendor.
LEMMA RepsKeep ==
  ASSUME NEW reps, RepsOK(reps), NEW vendor \in Int, reps # <<>>
  PROVE  LET b == [reps EXCEPT ![Len(reps)].vendor = vendor] IN
         /\ RepsOK(b) /\ Len(b) = Len(reps)
         /\ \A i \in 1 .. Len(reps) :
              b[i].name = reps[i].name /\ b[i].code = reps[i].code /\ b[i].type = reps[i].type
<1>1. PICK R : reps \in Seq(R) /\ \A r \in R : IsRep(r)
  BY DEF RepsOK
<1> DEFINE n == Len(reps)
           r == reps[n]
           s == [r EXCEPT !.vendor = vendor]
           b == [reps EXCEPT ![n] = s]
<1>2. /\ n \in Nat /\ n \in 1 .. n /\ r \in R
      /\ b \in Seq(R \cup {s}) /\ Len(b) = n
      /\ \A i \in 1 .. n : b[i] = IF i = n THEN s ELSE reps[i]
  <2>1. reps \in Seq(R)
    BY <1>1
  <2> DEFINE z == s
  <2> HIDE DEF z
  <2>2. LET w == [reps EXCEPT ![Len(reps)] = z] IN
         /\ Len(reps) \in Nat /\ Len(reps) \in 1 .. Len(reps) /\ reps[Len(reps)] \in R
         /\ w \in Seq(R \cup {z}) /\ Len(w) = Len(reps)
         /\ \A i \in 1 .. Len(reps) : w[i] = IF i = Len(reps) THEN z ELSE reps[i]
    BY <2>1, LastReplaced
  <2>3. QED
    BY <2>2, Zenon DEF z
<1>3. IsRep(r)
  BY <1>1, <1>2
<1>4. [reps EXCEPT ![Len(reps)].vendor = vendor] = b
  OBVIOUS
<1> HIDE DEF r
<1>5. s = [name |-> r.name, code |-> r.code, mandatory |-> r.mandatory, protect |-> r.protect,
           vendor_bit |-> r.vendor_bit, vendor |-> vendor, type |-> r.type,
           is_enumT |-> r.is_enumT, enumT |-> r.enumT, childrens |-> r.childrens]
  BY <1>3 DEF IsRep, IsNode
<1> HIDE DEF s
<1>6. s.name = r.name /\ s.code = r.code /\ s.type = r.type
  BY <1>5
<1>7. IsNode(s)
  BY <1>3, <1>5 DEF IsRep, IsNode
<1>8. IsRep(s)
  BY <1>3, <1>6, <1>7 DEF IsRep
<1>9. b \in Seq(R \cup {s}) /\ Len(b) = n
  BY <1>2
<1>10. RepsOK(b)
  <2> HIDE DEF b
  <2>1. \A p \in R \cup {s} : IsRep(p)
    BY <1>1, <1>8
  <2>2. QED
    BY <1>9, <2>1 DEF RepsOK
<1>11. \A i \in 1 .. n : b[i] = IF i = n THEN s ELSE reps[i]
  BY <1>2
<1> HIDE DEF b, n
<1>12. \A i \in 1 .. n : b[i].name = reps[i].name /\ b[i].code = reps[i].code /\ b[i].type = reps[i].type
  BY <1>6, <1>11 DEF r
<1>13. QED
  BY <1>4, <1>9, <1>10, <1>12 DEF n

\* One more AVP at the end of the dictionary.
LEMMA RepsAppend ==
  ASSUME NEW reps, RepsOK(reps), NEW q, IsRep(q)
  PROVE  /\ RepsOK(Append(reps, q)) /\ Len(reps) \in Nat /\ Len(Append(reps, q)) = Len(reps) + 1
         /\ Append(reps, q)[Len(reps) + 1] = q
         /\ \A i \in 1 .. Len(reps) : Append(reps, q)[i] = reps[i]
<1>1. PICK R : reps \in Seq(R) /\ \A r \in R : IsRep(r)
  BY DEF RepsOK
<1> DEFINE b == Append(reps, q)
<1>2. reps \in Seq(R)
  BY <1>1
<1>3. /\ b \in Seq(R \cup {q}) /\ Len(reps) \in Nat /\ Len(b) = Len(reps) + 1
      /\ b[Len(reps) + 1] = q /\ \A i \in 1 .. Len(reps) : b[i] = reps[i]
  BY <1>2, OneAppended
<1> HIDE DEF b
<1>4. \A r \in R \cup {q} : IsRep(r)
  BY <1>1
<1>5. RepsOK(b)
  BY <1>3, <1>4 DEF RepsOK
<1>6. QED
  BY <1>3, <1>5 DEF b

\* The vector of a command holds its AVPs.
LEMMA NewCommandHolds ==
  ASSUME NEW c \in CommandElements
  PROVE  /\ Elements(NewCommand(c).all_avp) \in Seq(Info)
         /\ vector_count(NewCommand(c).all_avp) = Len(c.avps)
<1> DEFINE A == [name : Name, multiplicity : STRING]
           info(a) == create_avp_info_msg(a.name, a.multiplicity)
           seq == [i \in DOMAIN c.avps |-> info(c.avps[i])]
           new == NewCommand(c)
<1>1. c.avps \in Seq(A)
  BY DEF CommandElements, CommandAvps
<1>2. \A a \in A : info(a) \in Info
  BY MultiplicityIsInt DEF create_avp_info_msg, Info
<1>3. new.all_avp = VectorOf(seq)
  BY DEF NewCommand, create_avp_in_cmd
<1> HIDE DEF A, info, new
<1>4. DOMAIN c.avps = 1 .. Len(c.avps) /\ Len(c.avps) \in Nat
  BY <1>1
<1>5. seq \in Seq(Info) /\ Len(seq) = Len(c.avps)
  <2>1. \A i \in 1 .. Len(c.avps) : info(c.avps[i]) \in Info
    BY <1>1, <1>2
  <2>2. QED
    BY <1>4, <2>1
<1> HIDE DEF seq
<1>6. Elements(new.all_avp) \in Seq(Info) /\ vector_count(new.all_avp) = Len(c.avps)
  BY <1>3, <1>5, VectorHolds
<1>7. QED
  BY <1>6 DEF new

\* A command, under its name, and its name, under its code and direction.
LEMMA CommandKeeps ==
  ASSUME NEW ms, NEW reps, MapsOK(ms, reps), NEW c \in CommandElements,
         NEW x, x = ReadCommand(ms, c), Survives(x)
  PROVE  /\ MapsOK(x, reps)
         /\ \A f \in {"vender_code_def", "data_type_def", "avp_map", "avp_code_name"} : x[f] = ms[f]
         /\ hashmap_get(x.avp_in_msg, c.name) = NewCommand(c)
         /\ hashmapi_get(x.cmd_map_name, c.code * 10 + c.request) = c.name
         /\ \A k \in Name \ {c.name} : hashmap_get(x.avp_in_msg, k) = hashmap_get(ms.avp_in_msg, k)
         /\ \A k \in Number \ {c.code * 10 + c.request} :
              hashmapi_get(x.cmd_map_name, k) = hashmapi_get(ms.cmd_map_name, k)
<1> DEFINE new == NewCommand(c)
           key == c.code * 10 + c.request
           m == hashmap_put(ms.avp_in_msg, c.name, new)
           w == hashmapi_put(ms.cmd_map_name, key, c.name)
<1>1. /\ c.name \in Name /\ c.code \in Nat /\ c.request \in 0 .. 1 /\ c.avps \in CommandAvps
      /\ key \in Number
  BY DEF CommandElements
<1>2. MapsShape(ms)
  BY DEF MapsOK
<1>3. x = [vender_code_def |-> ms.vender_code_def, data_type_def |-> ms.data_type_def,
           avp_map |-> ms.avp_map, avp_code_name |-> ms.avp_code_name,
           avp_in_msg |-> m, cmd_map_name |-> w]
  BY <1>2 DEF MapsShape, ReadCommand
<1> HIDE DEF m, w, new, key
<1>5. /\ x.vender_code_def = ms.vender_code_def /\ x.data_type_def = ms.data_type_def
      /\ x.avp_map = ms.avp_map /\ x.avp_code_name = ms.avp_code_name
      /\ x.avp_in_msg = m /\ x.cmd_map_name = w
      /\ "avp_in_msg" \in DOMAIN x /\ "cmd_map_name" \in DOMAIN x
  BY <1>3
<1>6. MapsShape(x)
  BY <1>3, <1>5, Zenon DEF MapsShape
<1>7. ~m.aborted /\ ~w.aborted
  BY <1>5 DEF Survives
<1>8. N!IsMap(ms.avp_in_msg) /\ I!IsMap(ms.cmd_map_name)
  BY DEF MapsOK, CommandsOK
<1>9. /\ N!IsMap(m) /\ hashmap_get(m, c.name) = new
      /\ \A k \in Name : k # c.name => hashmap_get(m, k) = hashmap_get(ms.avp_in_msg, k)
  BY <1>1, <1>7, <1>8, NamePut DEF m
<1>10. /\ I!IsMap(w) /\ hashmapi_get(w, key) = c.name
       /\ \A k \in Number : k # key => hashmapi_get(w, k) = hashmapi_get(ms.cmd_map_name, k)
  <2> DEFINE name == c.name
  <2>1. w = hashmapi_put(ms.cmd_map_name, key, name)
    BY DEF w
  <2> HIDE DEF name
  <2>2. QED
    BY <1>1, <1>7, <1>8, <2>1, NumberPut DEF name
<1>11. Elements(new.all_avp) \in Seq(Info)
  BY NewCommandHolds DEF new
<1>12. CommandsOK(x)
  <2>1. \A k \in Number : hashmapi_get(w, k) \in Name \cup {NULL}
    <3>1. \A k \in Number : hashmapi_get(ms.cmd_map_name, k) \in Name \cup {NULL}
      BY DEF MapsOK, CommandsOK
    <3>2. QED
      BY <1>1, <1>10, <3>1
  <2>2. \A k \in Name : hashmap_get(m, k) # NULL => Elements(hashmap_get(m, k).all_avp) \in Seq(Info)
    <3>1. \A k \in Name : hashmap_get(ms.avp_in_msg, k) # NULL =>
                            Elements(hashmap_get(ms.avp_in_msg, k).all_avp) \in Seq(Info)
      BY DEF MapsOK, CommandsOK
    <3> TAKE k \in Name
    <3>2. CASE k = c.name
      BY <1>9, <1>11, <3>2, Zenon
    <3>3. CASE k # c.name
      BY <1>9, <3>1, <3>3, Zenon
    <3>4. QED
      BY <3>2, <3>3
  <2>3. QED
    BY <1>5, <1>9, <1>10, <2>1, <2>2, Zenon DEF CommandsOK
<1>13. VendorsOK(x) /\ TypesOK(x) /\ NamesOK(x, Len(reps))
  BY <1>5, Zenon DEF MapsOK, VendorsOK, TypesOK, NamesOK
<1>14. MapsOK(x, reps)
  BY <1>6, <1>12, <1>13 DEF MapsOK
<1>15. QED
  BY <1>5, <1>9, <1>10, <1>11, <1>14 DEF new, key
-----------------------------------------------------------------------------
(* How far the dictionary is read *)

\* The elements of a document, by their tag.
LEMMA DocElements ==
  ASSUME NEW d \in Docs
  PROVE  /\ Len(d) \in Nat /\ DOMAIN d = 1 .. Len(d)
         /\ \A i \in 1 .. Len(d) :
              /\ d[i].tag = "vendor" => d[i] \in VendorElements
              /\ d[i].tag = "typedefn" => d[i] \in TypeElements
              /\ d[i].tag = "avpdefn" => d[i] \in AvpElements
              /\ d[i].tag = "application" => d[i] \in ApplicationElements
<1> DEFINE E == VendorElements \cup TypeElements \cup AvpElements \cup ApplicationElements
<1>1. d \in Seq(E)
  BY DocsAssumption
<1>2. /\ \A e \in VendorElements : e.tag = "vendor"
      /\ \A e \in TypeElements : e.tag = "typedefn"
      /\ \A e \in AvpElements : e.tag = "avpdefn"
      /\ \A e \in ApplicationElements : e.tag = "application"
  <2>1. \A e \in VendorElements : e.tag = "vendor"
    BY DEF VendorElements
  <2>2. \A e \in TypeElements : e.tag = "typedefn"
    BY DEF TypeElements
  <2>3. \A e \in AvpElements : e.tag = "avpdefn"
    BY DEF AvpElements
  <2>4. \A e \in ApplicationElements : e.tag = "application"
    BY DEF ApplicationElements
  <2>5. QED
    BY <2>1, <2>2, <2>3, <2>4
<1>3. \A e \in E : /\ e.tag = "vendor" => e \in VendorElements
                   /\ e.tag = "typedefn" => e \in TypeElements
                   /\ e.tag = "avpdefn" => e \in AvpElements
                   /\ e.tag = "application" => e \in ApplicationElements
  BY <1>2
<1> HIDE DEF E
<1>4. Len(d) \in Nat /\ DOMAIN d = 1 .. Len(d) /\ \A i \in 1 .. Len(d) : d[i] \in E
  BY <1>1
<1>5. QED
  BY <1>3, <1>4

Base(e) == IF e.parent = NULL THEN e.name ELSE e.parent

\* What the map of types answers for the typedefns before the n-th element, but for
\* those that one of them redefines.
TypesRead(map, n) ==
  \A i \in Tagged("typedefn") :
    (i < n /\ \A j \in Tagged("typedefn") : i < j /\ j < n => doc[j].name # doc[i].name) =>
      hashmapi_get(map, convert_typestr_int(doc[i].name)) = convert_typestr_int(Base(doc[i]))

\* And the maps of AVPs, for the avpdefns.
AvpsRead(names, codes, reps, n) ==
  \A i \in Tagged("avpdefn") : i < n =>
    /\ (\A j \in Tagged("avpdefn") : i < j /\ j < n => doc[j].name # doc[i].name) =>
         LET k == hashmap_get(names, doc[i].name)
         IN  /\ k \in 1 .. Len(reps)
             /\ reps[k].name = doc[i].name /\ reps[k].code = doc[i].code
             /\ reps[k].type = convert_typestr_int(DeclaredType(doc[i]))
    /\ (\A j \in Tagged("avpdefn") : i < j /\ j < n => doc[j].code # doc[i].code) =>
         hashmapi_get(codes, doc[i].code) = doc[i].name

CommandAt(p) == doc[p[1]].commands[p[2]]
Earlier(p, n, k) == p[1] < n \/ (p[1] = n /\ p[2] < k)

\* And the maps of commands, for those before the k-th of the n-th element.
CommandsRead(lists, names, n, k) ==
  \A p \in Commands : Earlier(p, n, k) =>
    LET c == CommandAt(p)
    IN  /\ (\A q \in Commands : Later(q, p) /\ Earlier(q, n, k) =>
              <<CommandAt(q).code, CommandAt(q).request>> # <<c.code, c.request>>) =>
             hashmapi_get(names, c.code * 10 + c.request) = c.name
        /\ (\A q \in Commands : Later(q, p) /\ Earlier(q, n, k) => CommandAt(q).name # c.name) =>
             hashmap_get(lists, c.name) = NewCommand(c)

\* A typedefn is read: those before it that it does not redefine answer as before.
LEMMA TypeRead ==
  ASSUME doc \in Docs, NEW n \in 1 .. Len(doc), doc[n].tag = "typedefn", NEW map, NEW new,
         TypesRead(map, n),
         hashmapi_get(new, convert_typestr_int(doc[n].name)) = convert_typestr_int(Base(doc[n])),
         \A u \in TypeNames \ {doc[n].name} : hashmapi_get(new, convert_typestr_int(u)) =
                                              hashmapi_get(map, convert_typestr_int(u))
  PROVE  TypesRead(new, n + 1)
<1>1. SUFFICES ASSUME NEW i \in Tagged("typedefn"), i < n + 1,
                      \A j \in Tagged("typedefn") : i < j /\ j < n + 1 => doc[j].name # doc[i].name
               PROVE  hashmapi_get(new, convert_typestr_int(doc[i].name)) =
                        convert_typestr_int(Base(doc[i]))
  BY DEF TypesRead
<1>2. Len(doc) \in Nat /\ DOMAIN doc = 1 .. Len(doc) /\ Tagged("typedefn") \subseteq 1 .. Len(doc)
  BY DocElements DEF Tagged
<1>3. i \in Int /\ n \in Int /\ n \in Tagged("typedefn")
  BY <1>2 DEF Tagged
<1>4. CASE i = n
  BY <1>4
<1>5. CASE i # n
  <2>1. i < n /\ n < n + 1
    BY <1>1, <1>3, <1>5
  <2>2. doc[n].name # doc[i].name
    BY <1>1, <1>3, <2>1
  <2>3. \A j \in Tagged("typedefn") : i < j /\ j < n => doc[j].name # doc[i].name
    <3> TAKE j \in Tagged("typedefn")
    <3>1. j \in Int
      BY <1>2
    <3>2. j < n => j < n + 1
      BY <1>3, <3>1
    <3>3. QED
      BY <1>1, <3>2
  <2>4. hashmapi_get(map, convert_typestr_int(doc[i].name)) = convert_typestr_int(Base(doc[i]))
    BY <2>1, <2>3 DEF TypesRead
  <2>5. doc[i].name \in TypeNames
    <3>1. doc[i] \in TypeElements
      BY <1>2, DocElements DEF Tagged
    <3>2. QED
      BY <3>1 DEF TypeElements, LeafTypes, TypeNames
  <2>6. QED
    BY <2>2, <2>4, <2>5
<1>6. QED
  BY <1>4, <1>5

\* An element of another kind is passed.
LEMMA TypePassed ==
  ASSUME doc \in Docs, NEW n \in 1 .. Len(doc), doc[n].tag # "typedefn", NEW map, TypesRead(map, n)
  PROVE  TypesRead(map, n + 1)
<1>1. \A i \in Tagged("typedefn") : i \in Int /\ i # n
  BY DocElements DEF Tagged
<1>2. n \in Int
  OBVIOUS
<1>3. \A i \in Tagged("typedefn") : i < n + 1 => i < n
  BY <1>1, <1>2
<1>4. \A i \in Tagged("typedefn") : i < n => i < n + 1
  BY <1>1, <1>2
<1>5. QED
  BY <1>3, <1>4 DEF TypesRead

\* At the end of the pass "Grouped" is put, which no typedefn defines.
LEMMA TypesKept ==
  ASSUME doc \in Docs, NEW n, NEW map, NEW new, TypesRead(map, n),
         \A u \in TypeNames \ {"Grouped"} : hashmapi_get(new, convert_typestr_int(u)) =
                                            hashmapi_get(map, convert_typestr_int(u))
  PROVE  TypesRead(new, n)
<1>1. \A i \in Tagged("typedefn") : doc[i].name \in TypeNames \ {"Grouped"}
  <2> TAKE i \in Tagged("typedefn")
  <2>1. doc[i] \in TypeElements
    BY DocElements DEF Tagged
  <2>2. QED
    BY <2>1 DEF TypeElements, LeafTypes, TypeNames
<1>2. QED
  BY <1>1 DEF TypesRead

\* An avpdefn is read.
LEMMA AvpdefnRead ==
  ASSUME doc \in Docs, NEW n \in 1 .. Len(doc), doc[n].tag = "avpdefn",
         NEW names, NEW codes, NEW reps, AvpsRead(names, codes, reps, n),
         NEW names2, NEW codes2, NEW reps2, Len(reps) \in Nat, Len(reps2) = Len(reps) + 1,
         hashmap_get(names2, doc[n].name) = Len(reps2),
         \A k \in Name \ {doc[n].name} : hashmap_get(names2, k) = hashmap_get(names, k),
         hashmapi_get(codes2, doc[n].code) = doc[n].name,
         \A k \in Number \ {doc[n].code} : hashmapi_get(codes2, k) = hashmapi_get(codes, k),
         \A i \in 1 .. Len(reps) : reps2[i].name = reps[i].name /\ reps2[i].code = reps[i].code
                                   /\ reps2[i].type = reps[i].type,
         /\ reps2[Len(reps2)].name = doc[n].name /\ reps2[Len(reps2)].code = doc[n].code
         /\ reps2[Len(reps2)].type = convert_typestr_int(DeclaredType(doc[n]))
  PROVE  AvpsRead(names2, codes2, reps2, n + 1)
<1>1. Len(doc) \in Nat /\ DOMAIN doc = 1 .. Len(doc) /\ Tagged("avpdefn") \subseteq 1 .. Len(doc)
  BY DocElements DEF Tagged
<1>2. n \in Int /\ n \in Tagged("avpdefn")
  BY <1>1 DEF Tagged
<1>3. \A i \in Tagged("avpdefn") : i \in Int /\ doc[i].name \in Name /\ doc[i].code \in Number
  <2> TAKE i \in Tagged("avpdefn")
  <2>1. doc[i] \in AvpElements
    BY <1>1, DocElements DEF Tagged
  <2>2. QED
    BY <1>1, <2>1 DEF AvpElements
<1>4. ASSUME NEW i \in Tagged("avpdefn"), i < n + 1,
             \A j \in Tagged("avpdefn") : i < j /\ j < n + 1 => doc[j].name # doc[i].name
      PROVE  LET k == hashmap_get(names2, doc[i].name)
             IN  /\ k \in 1 .. Len(reps2)
                 /\ reps2[k].name = doc[i].name /\ reps2[k].code = doc[i].code
                 /\ reps2[k].type = convert_typestr_int(DeclaredType(doc[i]))
  <2>1. CASE i = n
    <3>1. Len(reps2) \in 1 .. Len(reps2)
      OBVIOUS
    <3>2. QED
      BY <2>1, <3>1
  <2>2. CASE i # n
    <3>1. i < n /\ n < n + 1
      BY <1>2, <1>3, <1>4, <2>2
    <3>2. doc[n].name # doc[i].name
      BY <1>2, <1>4, <3>1
    <3>3. \A j \in Tagged("avpdefn") : j < n => j < n + 1
      BY <1>2, <1>3
    <3>4. \A j \in Tagged("avpdefn") : i < j /\ j < n => doc[j].name # doc[i].name
      BY <1>4, <3>3
    <3> DEFINE k == hashmap_get(names, doc[i].name)
    <3>5. /\ k \in 1 .. Len(reps)
          /\ reps[k].name = doc[i].name /\ reps[k].code = doc[i].code
          /\ reps[k].type = convert_typestr_int(DeclaredType(doc[i]))
      BY <3>1, <3>4 DEF AvpsRead
    <3>6. hashmap_get(names2, doc[i].name) = k
      BY <1>3, <3>2
    <3> HIDE DEF k
    <3>7. k \in 1 .. Len(reps2)
      BY <3>5
    <3>8. QED
      BY <3>5, <3>6, <3>7
  <2>3. QED
    BY <2>1, <2>2
<1>5. ASSUME NEW i \in Tagged("avpdefn"), i < n + 1,
             \A j \in Tagged("avpdefn") : i < j /\ j < n + 1 => doc[j].code # doc[i].code
      PROVE  hashmapi_get(codes2, doc[i].code) = doc[i].name
  <2>1. CASE i = n
    BY <2>1
  <2>2. CASE i # n
    <3>1. i < n /\ n < n + 1
      BY <1>2, <1>3, <1>5, <2>2
    <3>2. doc[n].code # doc[i].code
      BY <1>2, <1>5, <3>1
    <3>3. \A j \in Tagged("avpdefn") : j < n => j < n + 1
      BY <1>2, <1>3
    <3>4. \A j \in Tagged("avpdefn") : i < j /\ j < n => doc[j].code # doc[i].code
      BY <1>5, <3>3
    <3>5. hashmapi_get(codes, doc[i].code) = doc[i].name
      BY <3>1, <3>4 DEF AvpsRead
    <3>6. QED
      BY <1>3, <3>2, <3>5
  <2>3. QED
    BY <2>1, <2>2
<1>6. QED
  BY <1>4, <1>5 DEF AvpsRead

\* An element that defines no AVP adds nothing to what was read of them.
LEMMA AvpPassed ==
  ASSUME doc \in Docs, NEW n \in 1 .. Len(doc), doc[n].tag # "avpdefn",
         NEW names, NEW codes, NEW reps, AvpsRead(names, codes, reps, n)
  PROVE  AvpsRead(names, codes, reps, n + 1)
<1>1. \A i \in Tagged("avpdefn") : i \in Int /\ i # n
  BY DocElements DEF Tagged
<1>2. n \in Int
  OBVIOUS
<1>3. \A i \in Tagged("avpdefn") : (i < n + 1 => i < n) /\ (i < n => i < n + 1)
  BY <1>1, <1>2
<1>4. QED
  BY <1>3 DEF AvpsRead

\* A place among the commands, and the command there.
LEMMA CommandPlaces ==
  ASSUME doc \in Docs, NEW p \in Commands
  PROVE  /\ p = <<p[1], p[2]>> /\ p[1] \in 1 .. Len(doc) /\ p[2] \in Nat
         /\ doc[p[1]].tag = "application"
         /\ p[2] \in 1 .. Len(doc[p[1]].commands) /\ Len(doc[p[1]].commands) \in Nat
         /\ CommandAt(p) \in CommandElements
         /\ CommandAt(p).code \in Nat /\ CommandAt(p).request \in 0 .. 1
         /\ CommandAt(p).name \in Name
         /\ CommandAt(p).code * 10 + CommandAt(p).request \in Number
<1>1. PICK i \in Tagged("application") : \E k \in DOMAIN doc[i].commands : p = <<i, k>>
  BY DEF Commands
<1>2. PICK k \in DOMAIN doc[i].commands : p = <<i, k>>
  BY <1>1
<1>3. i \in 1 .. Len(doc) /\ doc[i].tag = "application" /\ doc[i] \in ApplicationElements
  BY DocElements DEF Tagged
<1>4. doc[i].commands \in Seq(CommandElements)
  BY <1>3 DEF ApplicationElements
<1> DEFINE list == doc[i].commands
<1> HIDE DEF list
<1>5. list \in Seq(CommandElements) /\ k \in DOMAIN list
  BY <1>4 DEF list
<1>6. /\ k \in Nat /\ k \in 1 .. Len(list) /\ Len(list) \in Nat /\ list[k] \in CommandElements
  BY <1>5
<1>7. p[1] = i /\ p[2] = k
  BY <1>2
<1> DEFINE c == list[k]
<1>8. CommandAt(p) = c
  BY <1>7 DEF CommandAt, list
<1> HIDE DEF c
<1>9. c \in CommandElements
  BY <1>6 DEF c
<1>10. c.code \in Nat /\ c.request \in 0 .. 1 /\ c.name \in Name /\ c.code * 10 + c.request \in Number
  BY <1>9 DEF CommandElements
<1>11. QED
  BY <1>2, <1>3, <1>6, <1>7, <1>8, <1>9, <1>10 DEF list

\* A command is read.
LEMMA CommandRead ==
  ASSUME doc \in Docs, NEW n \in 1 .. Len(doc), NEW k, <<n, k>> \in Commands,
         NEW lists, NEW names, CommandsRead(lists, names, n, k), NEW lists2, NEW names2,
         NEW c, c = CommandAt(<<n, k>>),
         hashmap_get(lists2, c.name) = NewCommand(c),
         hashmapi_get(names2, c.code * 10 + c.request) = c.name,
         \A x \in Name \ {c.name} : hashmap_get(lists2, x) = hashmap_get(lists, x),
         \A x \in Number \ {c.code * 10 + c.request} : hashmapi_get(names2, x) = hashmapi_get(names, x)
  PROVE  CommandsRead(lists2, names2, n, k + 1)
<1> DEFINE last == <<n, k>>
           Key(d) == d.code * 10 + d.request
<1>1. last \in Commands /\ last[1] = n /\ last[2] = k /\ n \in Int /\ k \in Nat /\ k < k + 1
  <2>1. last \in Commands /\ last[1] = n /\ last[2] = k /\ n \in Int
    OBVIOUS
  <2> HIDE DEF last
  <2>2. last[2] \in Nat
    BY <2>1, CommandPlaces
  <2>3. QED
    BY <2>1, <2>2
<1>2. c.code \in Nat /\ c.request \in 0 .. 1
  BY CommandPlaces
<1> HIDE DEF last
<1>3. \A p \in Commands : /\ p[1] \in Int /\ p[2] \in Nat /\ p = <<p[1], p[2]>>
                          /\ CommandAt(p).code \in Nat /\ CommandAt(p).request \in 0 .. 1
                          /\ CommandAt(p).name \in Name /\ Key(CommandAt(p)) \in Number
  BY CommandPlaces
<1>4. \A p \in Commands : Earlier(p, n, k + 1) <=> (Earlier(p, n, k) \/ p = last)
  <2> TAKE p \in Commands
  <2>1. p[2] \in Nat /\ p = <<p[1], p[2]>>
    BY <1>3
  <2>2. p[2] < k + 1 <=> p[2] < k \/ p[2] = k
    BY <1>1, <2>1
  <2>3. (p[1] = n /\ p[2] = k) <=> p = last
    BY <2>1 DEF last
  <2>4. QED
    BY <2>2, <2>3 DEF Earlier
<1>5. \A p \in Commands : Earlier(p, n, k) => Later(last, p)
  BY <1>1, <1>3 DEF Earlier, Later
<1>6. \A p \in Commands : Key(CommandAt(p)) = Key(c) =>
                            CommandAt(p).code = c.code /\ CommandAt(p).request = c.request
  <2>1. \A a \in Nat : \A b \in Nat : \A x \in 0 .. 1 : \A y \in 0 .. 1 :
          a * 10 + x = b * 10 + y => a = b /\ x = y
    OBVIOUS
  <2> TAKE p \in Commands
  <2>2. CommandAt(p).code \in Nat /\ CommandAt(p).request \in 0 .. 1
    BY <1>3
  <2>3. QED
    BY <1>2, <2>1, <2>2
<1> HIDE DEF Key
<1>7. /\ hashmapi_get(names2, Key(c)) = c.name
      /\ \A x \in Number \ {Key(c)} : hashmapi_get(names2, x) = hashmapi_get(names, x)
  BY DEF Key
<1>8. CommandAt(last) = c
  BY DEF last
<1>9. ASSUME NEW p \in Commands, Earlier(p, n, k + 1),
             \A q \in Commands : Later(q, p) /\ Earlier(q, n, k + 1) =>
               <<CommandAt(q).code, CommandAt(q).request>> #
                 <<CommandAt(p).code, CommandAt(p).request>>
      PROVE  hashmapi_get(names2, Key(CommandAt(p))) = CommandAt(p).name
  <2>1. CASE p = last
    BY <1>7, <1>8, <2>1
  <2>2. CASE p # last
    <3>1. Earlier(p, n, k)
      BY <1>4, <1>9, <2>2
    <3>2. Later(last, p) /\ Earlier(last, n, k + 1)
      BY <1>1, <1>4, <1>5, <3>1
    <3>3. <<c.code, c.request>> # <<CommandAt(p).code, CommandAt(p).request>>
      BY <1>1, <1>8, <1>9, <3>2
    <3>4. Key(CommandAt(p)) # Key(c)
      BY <1>6, <3>3
    <3>5. \A q \in Commands : Later(q, p) /\ Earlier(q, n, k) =>
            <<CommandAt(q).code, CommandAt(q).request>> # <<CommandAt(p).code, CommandAt(p).request>>
      BY <1>4, <1>9
    <3>6. hashmapi_get(names, Key(CommandAt(p))) = CommandAt(p).name
      BY <3>1, <3>5 DEF CommandsRead, Key
    <3>7. Key(CommandAt(p)) \in Number
      BY <1>3
    <3>8. QED
      BY <1>7, <3>4, <3>6, <3>7
  <2>3. QED
    BY <2>1, <2>2
<1>10. ASSUME NEW p \in Commands, Earlier(p, n, k + 1),
              \A q \in Commands : Later(q, p) /\ Earlier(q, n, k + 1) =>
                CommandAt(q).name # CommandAt(p).name
       PROVE  hashmap_get(lists2, CommandAt(p).name) = NewCommand(CommandAt(p))
  <2>1. CASE p = last
    BY <1>8, <2>1
  <2>2. CASE p # last
    <3>1. Earlier(p, n, k)
      BY <1>4, <1>10, <2>2
    <3>2. Later(last, p) /\ Earlier(last, n, k + 1)
      BY <1>1, <1>4, <1>5, <3>1
    <3>3. c.name # CommandAt(p).name
      BY <1>1, <1>8, <1>10, <3>2
    <3>4. \A q \in Commands : Later(q, p) /\ Earlier(q, n, k) => CommandAt(q).name # CommandAt(p).name
      BY <1>4, <1>10
    <3>5. hashmap_get(lists, CommandAt(p).name) = NewCommand(CommandAt(p))
      BY <3>1, <3>4 DEF CommandsRead
    <3>6. CommandAt(p).name \in Name
      BY <1>3
    <3>7. QED
      BY <3>3, <3>5, <3>6
  <2>3. QED
    BY <2>1, <2>2
<1>11. QED
  BY <1>9, <1>10 DEF CommandsRead, Key

\* The end of an application, or an element that is none, has no command behind it.
LEMMA CommandsPassed ==
  ASSUME doc \in Docs, NEW n \in 1 .. Len(doc), NEW k \in Nat,
         doc[n].tag = "application" => k > Len(doc[n].commands),
         NEW lists, NEW names, CommandsRead(lists, names, n, k)
  PROVE  CommandsRead(lists, names, n + 1, 1)
<1>1. n \in Int
  OBVIOUS
<1>2. \A p \in Commands : Earlier(p, n, k) <=> Earlier(p, n + 1, 1)
  <2> TAKE p \in Commands
  <2>1. /\ p[1] \in Int /\ p[2] \in Nat /\ p[2] >= 1 /\ doc[p[1]].tag = "application"
        /\ p[2] <= Len(doc[p[1]].commands) /\ Len(doc[p[1]].commands) \in Nat
    <3>1. /\ p[1] \in 1 .. Len(doc) /\ p[2] \in Nat
          /\ doc[p[1]].tag = "application"
          /\ p[2] \in 1 .. Len(doc[p[1]].commands) /\ Len(doc[p[1]].commands) \in Nat
      BY CommandPlaces
    <3>2. QED
      BY <3>1
  <2>2. p[1] = n => p[2] < k
    BY <2>1
  <2>3. p[1] < n + 1 <=> p[1] < n \/ p[1] = n
    BY <1>1, <2>1
  <2>4. ~(p[2] < 1)
    BY <2>1
  <2>5. QED
    BY <2>2, <2>3, <2>4 DEF Earlier
<1>3. QED
  BY <1>2 DEF CommandsRead

\* Where read_config is.
DictPlace ==
  /\ doc \in Docs /\ pass \in 1 .. 3 /\ at \in 1 .. Len(doc) + 1 /\ cmd \in Nat \ {0}
  /\ alive \in BOOLEAN /\ junk \in Garbage
  /\ cmd # 1 => pass = 2 /\ at <= Len(doc) /\ doc[at].tag = "application"
  /\ pass = 3 => at = Len(doc) + 1

\* What it has read by then.
DictRead ==
  /\ MapsOK(maps, avps)
  /\ TypesRead(maps.data_type_def, IF pass = 1 THEN at ELSE Len(doc) + 1)
  /\ AvpsRead(maps.avp_map, maps.avp_code_name, avps, IF pass = 1 THEN 1 ELSE at)
  /\ CommandsRead(maps.avp_in_msg, maps.cmd_map_name, IF pass = 1 THEN 1 ELSE at, cmd)

\* The inductive invariant of the dictionary, as long as the process lives.
DictInv == DictPlace /\ (alive => DictRead)

\* Nothing is read to begin with.
LEMMA DictInitInv == DictInit => DictInv
<1> SUFFICES ASSUME DictInit PROVE DictInv
  OBVIOUS
<1>1. doc \in Docs /\ pass = 1 /\ at = 1 /\ cmd = 1 /\ avps = <<>> /\ junk \in Garbage /\ alive = TRUE
  BY DEF DictInit
<1>2. Len(doc) \in Nat
  BY <1>1, DocElements
<1>3. DictPlace
  BY <1>1, <1>2 DEF DictPlace
<1>4. /\ maps.vender_code_def = hashmap_new(TABLE_SIZE)
      /\ maps.data_type_def = hashmapi_new(TABLE_SIZE)
      /\ maps.avp_map = hashmap_new(TABLE_SIZE)
      /\ maps.avp_code_name = hashmapi_new(TABLE_SIZE)
      /\ maps.avp_in_msg = hashmap_new(TABLE_SIZE)
      /\ maps.cmd_map_name = hashmapi_new(TABLE_SIZE)
      /\ MapsShape(maps)
  BY MapsFields DEF DictInit
<1>5. /\ N!IsMap(hashmap_new(TABLE_SIZE))
      /\ \A k \in Name : hashmap_get(hashmap_new(TABLE_SIZE), k) = NULL
      /\ I!IsMap(hashmapi_new(TABLE_SIZE))
      /\ \A k \in Number : hashmapi_get(hashmapi_new(TABLE_SIZE), k) = NULL
  BY EmptyMaps
<1>6. \A t \in TypeNames : convert_typestr_int(t) \in Number
  BY TypeIndex, DocsAssumption DEF TypeCodes
<1>7. convert_typestr_int("Unsigned32") \in Number /\ convert_typestr_int("Enumerated") \in Number
  BY <1>6, TypesNamed
<1>8. VendorsOK(maps) /\ TypesOK(maps) /\ NamesOK(maps, Len(avps)) /\ CommandsOK(maps)
  <2>1. VendorsOK(maps)
    BY <1>4, <1>5 DEF VendorsOK
  <2>2. TypesOK(maps)
    BY <1>4, <1>5, <1>7 DEF TypesOK
  <2>3. NamesOK(maps, Len(avps))
    BY <1>4, <1>5 DEF NamesOK
  <2>4. CommandsOK(maps)
    BY <1>4, <1>5 DEF CommandsOK
  <2>5. QED
    BY <2>1, <2>2, <2>3, <2>4
<1>9. RepsOK(avps)
  <2>1. avps \in Seq({}) /\ \A r \in {} : IsRep(r)
    BY <1>1
  <2>2. QED
    BY <2>1 DEF RepsOK
<1>10. /\ TypesRead(maps.data_type_def, 1)
       /\ AvpsRead(maps.avp_map, maps.avp_code_name, avps, 1)
       /\ CommandsRead(maps.avp_in_msg, maps.cmd_map_name, 1, 1)
  <2>1. \A tag : \A i \in Tagged(tag) : i \in Int /\ ~(i < 1)
    BY <1>1, DocElements DEF Tagged
  <2>2. \A p \in Commands : ~Earlier(p, 1, 1)
    <3> TAKE p \in Commands
    <3>1. p[1] \in 1 .. Len(doc) /\ p[2] \in 1 .. Len(doc[p[1]].commands)
      BY <1>1, CommandPlaces
    <3>2. ~(p[1] < 1) /\ ~(p[2] < 1)
      BY <3>1
    <3>3. QED
      BY <3>2 DEF Earlier
  <2>3. TypesRead(maps.data_type_def, 1)
    BY <2>1 DEF TypesRead
  <2>4. AvpsRead(maps.avp_map, maps.avp_code_name, avps, 1)
    BY <2>1 DEF AvpsRead
  <2>5. CommandsRead(maps.avp_in_msg, maps.cmd_map_name, 1, 1)
    BY <2>2 DEF CommandsRead
  <2>6. QED
    BY <2>3, <2>4, <2>5
<1>11. DictRead
  BY <1>1, <1>4, <1>8, <1>9, <1>10 DEF DictRead, MapsOK
<1>12. QED
  BY <1>3, <1>11 DEF DictInv


\* CommandsRead, of any document.
ReadIn(d, lists, names, n, k) ==
  LET tagged == {i \in DOMAIN d : d[i].tag = "application"}
      commands == UNION {{<<i, j>> : j \in DOMAIN d[i].commands} : i \in tagged}
      later(p, q) == p[1] > q[1] \/ (p[1] = q[1] /\ p[2] > q[2])
  IN  \A p \in commands : Earlier(p, n, k) =>
        LET c == d[p[1]].commands[p[2]]
        IN  /\ (\A q \in commands : later(q, p) /\ Earlier(q, n, k) =>
                  <<d[q[1]].commands[q[2]].code, d[q[1]].commands[q[2]].request>> #
                    <<c.code, c.request>>) =>
                 hashmapi_get(names, c.code * 10 + c.request) = c.name
            /\ (\A q \in commands : later(q, p) /\ Earlier(q, n, k) =>
                  d[q[1]].commands[q[2]].name # c.name) =>
                 hashmap_get(lists, c.name) = NewCommand(c)

\* What was read of the commands, with every definition expanded.
LEMMA CommandsReadIn ==
  ASSUME NEW lists, NEW names, NEW n, NEW k
  PROVE  CommandsRead(lists, names, n, k) = ReadIn(doc, lists, names, n, k)
BY Zenon DEF CommandsRead, Commands, Tagged, CommandAt, Later, Earlier, ReadIn

\* Pass 1.
LEMMA ReadTypesInv ==
  ASSUME DictInv, ReadTypes
  PROVE  DictInv'
<1> DEFINE x == maps'
<1>1. /\ alive /\ pass = 1 /\ doc' = doc /\ cmd' = cmd /\ avps' = avps /\ junk' = junk
      /\ alive' = Survives(x)
  BY DEF ReadTypes
<1>2. DictPlace /\ DictRead /\ cmd = 1
  BY <1>1 DEF DictInv, DictPlace
<1>3. Len(doc) \in Nat /\ doc \in Docs /\ at \in 1 .. Len(doc) + 1
  BY <1>2, DocElements DEF DictPlace
<1>4. alive' \in BOOLEAN
  BY <1>1 DEF Survives
<1>5. /\ MapsOK(maps, avps) /\ TypesRead(maps.data_type_def, at)
      /\ AvpsRead(maps.avp_map, maps.avp_code_name, avps, 1)
      /\ CommandsRead(maps.avp_in_msg, maps.cmd_map_name, 1, 1)
  BY <1>1, <1>2 DEF DictRead
<1>6. CASE at > Len(doc)
  <2>1. pass' = 2 /\ at' = 1 /\ maps' = PutType(maps, "Grouped", "Grouped")
    BY <1>6 DEF ReadTypes
  <2>2. DictPlace'
    BY <1>1, <1>2, <1>3, <1>4, <2>1 DEF DictPlace
  <2>3. SUFFICES ASSUME Survives(x) PROVE DictRead'
    BY <1>1, <2>2 DEF DictInv
  <2>4. x = PutType(maps, "Grouped", "Grouped")
    BY <2>1
  <2> HIDE DEF x
  <2>5. "Grouped" \in TypeNames
    BY TypesNamed
  <2>6. /\ MapsOK(x, avps)
        /\ \A f \in {"vender_code_def", "avp_map", "avp_code_name", "avp_in_msg",
                     "cmd_map_name"} : x[f] = maps[f]
        /\ \A u \in TypeNames \ {"Grouped"} : hashmapi_get(x.data_type_def, convert_typestr_int(u)) =
                                        hashmapi_get(maps.data_type_def, convert_typestr_int(u))
    BY <1>5, <2>3, <2>4, <2>5, TypeKeeps
  <2>7. TypesRead(x.data_type_def, at)
    BY <1>3, <1>5, <2>6, TypesKept
  <2>8. at = Len(doc) + 1
    BY <1>3, <1>6
  <2>9. /\ x.avp_map = maps.avp_map /\ x.avp_code_name = maps.avp_code_name
        /\ x.avp_in_msg = maps.avp_in_msg /\ x.cmd_map_name = maps.cmd_map_name
    BY <2>6
  <2>10. /\ TypesRead(x.data_type_def, Len(doc) + 1)
         /\ AvpsRead(x.avp_map, x.avp_code_name, avps, 1)
         /\ CommandsRead(x.avp_in_msg, x.cmd_map_name, 1, 1)
    BY <1>5, <2>7, <2>8, <2>9
  <2>11. TypesRead(maps.data_type_def, Len(doc) + 1)'
    BY <1>1, <2>10 DEF TypesRead, Tagged, x
  <2>12. AvpsRead(maps.avp_map, maps.avp_code_name, avps, 1)'
    BY <1>1, <2>10, Zenon DEF AvpsRead, Tagged, x
  <2>13. CommandsRead(maps.avp_in_msg, maps.cmd_map_name, 1, 1)'
    <3>1. ReadIn(doc, x.avp_in_msg, x.cmd_map_name, 1, 1)
      BY <2>10, CommandsReadIn
    <3>2. ReadIn(doc', maps'.avp_in_msg, maps'.cmd_map_name, 1, 1)
      BY <1>1, <3>1 DEF x
    <3>3. QED
      BY <3>2, Zenon DEF CommandsRead, Commands, Tagged, CommandAt, Later, Earlier, ReadIn
  <2>14. MapsOK(maps', avps')
    BY <1>1, <2>6 DEF x
  <2>15. QED
    BY <1>1, <1>2, <2>1, <2>11, <2>12, <2>13, <2>14 DEF DictRead
<1>7. CASE ~(at > Len(doc))
  <2> DEFINE e == doc[at]
  <2>1. /\ pass' = 1 /\ at' = at + 1
        /\ maps' = CASE e.tag = "vendor" ->
                          [maps EXCEPT !.vender_code_def = hashmap_put(@, e.vendor_id, e.code)]
                     [] e.tag = "typedefn" -> PutType(maps, e.name, Base(e))
                     [] OTHER -> maps
    BY <1>7, Zenon DEF ReadTypes, Base
  <2>2. at \in 1 .. Len(doc) /\ at + 1 \in 1 .. Len(doc) + 1
    BY <1>3, <1>7
  <2>3. DictPlace'
    BY <1>1, <1>2, <1>3, <1>4, <2>1, <2>2 DEF DictPlace
  <2>4. SUFFICES ASSUME Survives(x) PROVE DictRead'
    BY <1>1, <2>3 DEF DictInv
  <2>5. x = CASE e.tag = "vendor" ->
                   [maps EXCEPT !.vender_code_def = hashmap_put(@, e.vendor_id, e.code)]
              [] e.tag = "typedefn" -> PutType(maps, e.name, Base(e))
              [] OTHER -> maps
    BY <2>1
  <2> HIDE DEF x
  <2>6. /\ MapsOK(x, avps) /\ TypesRead(x.data_type_def, at + 1)
        /\ \A f \in {"avp_map", "avp_code_name", "avp_in_msg", "cmd_map_name"} : x[f] = maps[f]
    <3>1. CASE e.tag = "vendor"
      <4>1. e \in VendorElements
        BY <1>3, <2>2, <3>1, DocElements
      <4>2. e.vendor_id \in Name /\ e.code \in Int
        BY <4>1 DEF VendorElements
      <4>3. x = [maps EXCEPT !.vender_code_def = hashmap_put(@, e.vendor_id, e.code)]
        BY <2>5, <3>1, Zenon
      <4> DEFINE k == e.vendor_id
                 v == e.code
      <4>a. k \in Name /\ v \in Int /\ x = [maps EXCEPT !.vender_code_def = hashmap_put(@, k, v)]
        BY <4>2, <4>3
      <4> HIDE DEF k, v
      <4>4. /\ MapsOK(x, avps)
            /\ \A f \in {"data_type_def", "avp_map", "avp_code_name", "avp_in_msg",
                         "cmd_map_name"} : x[f] = maps[f]
        BY <1>5, <2>4, <4>a, VendorKeeps
      <4>5. x.data_type_def = maps.data_type_def
        BY <4>4
      <4>6. TypesRead(x.data_type_def, at + 1)
        BY <1>3, <1>5, <2>2, <3>1, <4>5, TypePassed
      <4>7. QED
        BY <4>4, <4>6
    <3>2. CASE e.tag = "typedefn"
      <4>1. e \in TypeElements
        BY <1>3, <2>2, <3>2, DocElements
      <4> DEFINE t == e.name
                 p == Base(e)
      <4>2. /\ t \in TypeNames /\ p \in TypeNames
            /\ t = "Unsigned32" => p \in {"Integer32", "Unsigned32"}
            /\ t = "Enumerated" => p \in {"Integer32", "Unsigned32", "Enumerated"}
        <5>1. /\ e.name \in TypeNames /\ e.parent \in TypeNames \cup {NULL}
              /\ e.name \in {"Unsigned32", "Enumerated"} =>
                   e.parent \in {NULL, "Integer32", "Unsigned32"}
          BY <4>1 DEF TypeElements, LeafTypes, TypeNames
        <5>2. QED
          BY <5>1 DEF Base
      <4>3. x = PutType(maps, t, p)
        BY <2>5, <3>2, Zenon
      <4> HIDE DEF t, p
      <4>4. /\ MapsOK(x, avps)
            /\ \A f \in {"vender_code_def", "avp_map", "avp_code_name", "avp_in_msg",
                         "cmd_map_name"} : x[f] = maps[f]
            /\ hashmapi_get(x.data_type_def, convert_typestr_int(t)) = convert_typestr_int(p)
            /\ \A u \in TypeNames \ {t} : hashmapi_get(x.data_type_def, convert_typestr_int(u)) =
                                           hashmapi_get(maps.data_type_def, convert_typestr_int(u))
        BY <1>5, <2>4, <4>2, <4>3, TypeKeeps
      <4>5. TypesRead(x.data_type_def, at + 1)
        BY <1>3, <1>5, <2>2, <3>2, <4>4, TypeRead DEF t, p
      <4>6. QED
        BY <4>4, <4>5
    <3>3. CASE e.tag # "vendor" /\ e.tag # "typedefn"
      <4>1. x = maps
        BY <2>5, <3>3
      <4>2. TypesRead(maps.data_type_def, at + 1)
        BY <1>3, <1>5, <2>2, <3>3, TypePassed
      <4>3. QED
        BY <1>5, <4>1, <4>2
    <3>4. QED
      BY <3>1, <3>2, <3>3
  <2>7. /\ x.avp_map = maps.avp_map /\ x.avp_code_name = maps.avp_code_name
        /\ x.avp_in_msg = maps.avp_in_msg /\ x.cmd_map_name = maps.cmd_map_name
    BY <2>6
  <2>8. /\ AvpsRead(x.avp_map, x.avp_code_name, avps, 1)
        /\ CommandsRead(x.avp_in_msg, x.cmd_map_name, 1, 1)
    BY <1>5, <2>7
  <2>9. TypesRead(maps.data_type_def, at)'
    BY <1>1, <2>1, <2>6 DEF TypesRead, Tagged, x
  <2>10. AvpsRead(maps.avp_map, maps.avp_code_name, avps, 1)'
    BY <1>1, <2>8, Zenon DEF AvpsRead, Tagged, x
  <2>11. CommandsRead(maps.avp_in_msg, maps.cmd_map_name, 1, 1)'
    <3>1. ReadIn(doc, x.avp_in_msg, x.cmd_map_name, 1, 1)
      BY <2>8, CommandsReadIn
    <3>2. ReadIn(doc', maps'.avp_in_msg, maps'.cmd_map_name, 1, 1)
      BY <1>1, <3>1 DEF x
    <3>3. QED
      BY <3>2, Zenon DEF CommandsRead, Commands, Tagged, CommandAt, Later, Earlier, ReadIn
  <2>12. MapsOK(maps', avps')
    BY <1>1, <2>6 DEF x
  <2>13. QED
    BY <1>1, <1>2, <2>1, <2>9, <2>10, <2>11, <2>12 DEF DictRead
<1>8. QED
  BY <1>6, <1>7

\* Pass 2.
LEMMA ReadElementsInv ==
  ASSUME DictInv, ReadElements
  PROVE  DictInv'
<1> DEFINE x == maps'
           b == avps'
           n == at'
           k == cmd'
           e == doc[at]
           Read == /\ MapsOK(x, b) /\ TypesRead(x.data_type_def, Len(doc) + 1)
                   /\ AvpsRead(x.avp_map, x.avp_code_name, b, n)
                   /\ CommandsRead(x.avp_in_msg, x.cmd_map_name, n, k)
<1>1. alive /\ pass = 2 /\ doc' = doc /\ junk' = junk
  BY DEF ReadElements
<1>2. DictPlace /\ DictRead
  BY <1>1 DEF DictInv
<1>3. /\ Len(doc) \in Nat /\ doc \in Docs /\ at \in 1 .. Len(doc) + 1 /\ cmd \in Nat \ {0}
      /\ junk \in Garbage /\ Garbage \subseteq Int
      /\ cmd # 1 => at <= Len(doc) /\ doc[at].tag = "application"
  BY <1>2, DocElements, DictionaryAssumption DEF DictPlace
<1>4. /\ MapsOK(maps, avps) /\ TypesRead(maps.data_type_def, Len(doc) + 1)
      /\ AvpsRead(maps.avp_map, maps.avp_code_name, avps, at)
      /\ CommandsRead(maps.avp_in_msg, maps.cmd_map_name, at, cmd)
  BY <1>1, <1>2 DEF DictRead
<1>0. at <= Len(doc) =>
        /\ pass' = 2
        /\ e.tag = "application" => get_command(e)
        /\ e.tag # "application" => /\ at' = at + 1 /\ cmd' = cmd
                                    /\ e.tag = "avpdefn" => ReadAvp(e)
                                    /\ e.tag # "avpdefn" =>
                                         maps' = maps /\ avps' = avps /\ alive' = alive
  <2>1. ~(at > Len(doc)) =>
        /\ pass' = 2
        /\ e.tag = "application" => get_command(e)
        /\ e.tag # "application" => /\ at' = at + 1 /\ cmd' = cmd
                                    /\ e.tag = "avpdefn" => ReadAvp(e)
                                    /\ e.tag # "avpdefn" =>
                                         maps' = maps /\ avps' = avps /\ alive' = alive
    BY Zenon DEF ReadElements
  <2>2. at <= Len(doc) => ~(at > Len(doc))
    BY <1>3
  <2>3. QED
    BY <2>1, <2>2
<1>5. SUFFICES pass' \in 2 .. 3 /\ DictPlace' /\ (alive' => Read)
  <2>1. ASSUME Read, pass' \in 2 .. 3 PROVE DictRead'
    <3> HIDE DEF x, b, n, k
    <3>1. TypesRead(maps.data_type_def, Len(doc) + 1)'
      BY <1>1, <2>1 DEF TypesRead, Tagged, x
    <3>2. AvpsRead(maps.avp_map, maps.avp_code_name, avps, at)'
      BY <1>1, <2>1, Zenon DEF AvpsRead, Tagged, x, b, n
    <3>3. CommandsRead(maps.avp_in_msg, maps.cmd_map_name, at, cmd)'
      <4>1. ReadIn(doc, x.avp_in_msg, x.cmd_map_name, n, k)
        BY <2>1, CommandsReadIn
      <4>2. ReadIn(doc', maps'.avp_in_msg, maps'.cmd_map_name, at', cmd')
        BY <1>1, <4>1 DEF x, n, k
      <4>3. QED
        BY <4>2, Zenon DEF CommandsRead, Commands, Tagged, CommandAt, Later, Earlier, ReadIn
    <3>4. MapsOK(maps', avps')
      BY <2>1 DEF x, b
    <3>5. pass' # 1
      BY <2>1
    <3>6. QED
      BY <3>1, <3>2, <3>3, <3>4, <3>5 DEF DictRead
  <2>2. QED
    BY <2>1 DEF DictInv
<1>6. CASE at > Len(doc)
  <2>1. /\ pass' = 3 /\ at' = at /\ cmd' = cmd /\ maps' = maps /\ avps' = avps /\ alive' = alive
    BY <1>6 DEF ReadElements
  <2>2. DictPlace'
    BY <1>1, <1>2, <1>3, <1>6, <2>1 DEF DictPlace
  <2>3. QED
    BY <1>4, <2>1, <2>2
<1>7. CASE at <= Len(doc) /\ e.tag = "application" /\ cmd > Len(e.commands)
  <2>1. /\ pass' = 2 /\ get_command(e)
    BY <1>0, <1>7
  <2>2. /\ at' = at + 1 /\ cmd' = 1 /\ maps' = maps /\ avps' = avps /\ alive' = Survives(maps')
    BY <1>7, <2>1 DEF get_command
  <2>3. alive' \in BOOLEAN
    BY <2>2 DEF Survives
  <2>4. at \in 1 .. Len(doc) /\ at + 1 \in 1 .. Len(doc) + 1
    BY <1>3, <1>7
  <2>5. DictPlace'
    BY <1>1, <1>2, <1>3, <2>1, <2>2, <2>3, <2>4 DEF DictPlace
  <2>6. AvpsRead(maps.avp_map, maps.avp_code_name, avps, at + 1)
    BY <1>3, <1>4, <1>7, <2>4, AvpPassed
  <2>7. CommandsRead(maps.avp_in_msg, maps.cmd_map_name, at + 1, 1)
    BY <1>3, <1>4, <1>7, <2>4, CommandsPassed
  <2>8. QED
    BY <1>4, <2>1, <2>2, <2>5, <2>6, <2>7
<1>8. CASE at <= Len(doc) /\ e.tag = "application" /\ cmd <= Len(e.commands)
  <2> DEFINE c == e.commands[cmd]
  <2>1. /\ pass' = 2 /\ get_command(e)
    BY <1>0, <1>8
  <2>2. at \in 1 .. Len(doc) /\ e \in ApplicationElements
    BY <1>3, <1>8, DocElements
  <2>3. e.commands \in Seq(CommandElements)
    BY <2>2 DEF ApplicationElements
  <2>4. cmd \in 1 .. Len(e.commands) /\ DOMAIN e.commands = 1 .. Len(e.commands) /\ c \in CommandElements
    BY <1>3, <1>8, <2>3
  <2>5. /\ at' = at /\ cmd' = cmd + 1 /\ avps' = avps /\ alive' = Survives(maps')
        /\ maps' = ReadCommand(maps, c)
    <3>1. ~(cmd > Len(e.commands))
      BY <2>4
    <3>2. QED
      BY <2>1, <3>1 DEF get_command
  <2>6. alive' \in BOOLEAN
    BY <2>5 DEF Survives
  <2>7. DictPlace'
    BY <1>1, <1>2, <1>3, <1>8, <2>1, <2>2, <2>5, <2>6 DEF DictPlace
  <2>8. ASSUME alive' PROVE Read
    <3>1. x = ReadCommand(maps, c) /\ Survives(x) /\ b = avps /\ n = at /\ k = cmd + 1
      BY <2>5, <2>8
    <3>2. c = CommandAt(<<at, cmd>>) /\ <<at, cmd>> \in Commands
      <4>1. at \in Tagged("application")
        BY <1>8, <2>2, DocElements, <1>3 DEF Tagged
      <4>2. QED
        BY <2>4, <4>1 DEF CommandAt, Commands
    <3> HIDE DEF x, b, n, k, c
    <3>3. c \in CommandElements
      BY <2>4
    <3>4. /\ MapsOK(x, avps)
          /\ \A f \in {"vender_code_def", "data_type_def", "avp_map", "avp_code_name"} : x[f] = maps[f]
          /\ hashmap_get(x.avp_in_msg, c.name) = NewCommand(c)
          /\ hashmapi_get(x.cmd_map_name, c.code * 10 + c.request) = c.name
          /\ \A u \in Name \ {c.name} : hashmap_get(x.avp_in_msg, u) = hashmap_get(maps.avp_in_msg, u)
          /\ \A u \in Number \ {c.code * 10 + c.request} :
               hashmapi_get(x.cmd_map_name, u) = hashmapi_get(maps.cmd_map_name, u)
      BY <1>4, <3>1, <3>3, CommandKeeps
    <3>5. CommandsRead(x.avp_in_msg, x.cmd_map_name, at, cmd + 1)
      <4>1. doc \in Docs /\ CommandsRead(maps.avp_in_msg, maps.cmd_map_name, at, cmd)
        BY <1>3, <1>4
      <4> DEFINE lists == x.avp_in_msg
                 names == x.cmd_map_name
      <4>2. /\ hashmap_get(lists, c.name) = NewCommand(c)
            /\ hashmapi_get(names, c.code * 10 + c.request) = c.name
            /\ \A u \in Name \ {c.name} : hashmap_get(lists, u) = hashmap_get(maps.avp_in_msg, u)
            /\ \A u \in Number \ {c.code * 10 + c.request} :
                 hashmapi_get(names, u) = hashmapi_get(maps.cmd_map_name, u)
        BY <3>4
      <4> HIDE DEF lists, names
      <4>3. CommandsRead(lists, names, at, cmd + 1)
        BY <2>2, <3>2, <4>1, <4>2, CommandRead
      <4>4. QED
        BY <4>3 DEF lists, names
    <3>6. /\ x.data_type_def = maps.data_type_def /\ x.avp_map = maps.avp_map
          /\ x.avp_code_name = maps.avp_code_name
      BY <3>4
    <3>7. QED
      BY <1>4, <3>1, <3>4, <3>5, <3>6
  <2>9. QED
    BY <2>1, <2>7, <2>8
<1>9. CASE at <= Len(doc) /\ e.tag = "avpdefn"
  <2> DEFINE q == getTypeAvpNode(e.nodes, create_avp_represent(e, junk))
             vendor == hashmap_get(maps.vender_code_def, e.vendor_id)
             before == IF e.vendor_id = NULL THEN avps
                       ELSE [avps EXCEPT ![Len(avps)].vendor = vendor]
  <2>0. e.tag # "application"
    BY <1>9
  <2>1. /\ pass' = 2 /\ at' = at + 1 /\ cmd' = cmd /\ ReadAvp(e)
    BY <1>0, <1>9, <2>0, Zenon
  <2>2. at \in 1 .. Len(doc) /\ at + 1 \in 1 .. Len(doc) + 1 /\ e \in AvpElements
    BY <1>3, <1>9, DocElements
  <2>3. e.name \in Name /\ e.code \in Number /\ e.vendor_id \in Name \cup {NULL}
    BY <2>2 DEF AvpElements
  <2>4. /\ avps' = Append(before, q)
        /\ maps' = PutAvp(maps, e.name, e.code, Len(avps'))
        /\ alive' = (Survives(maps') /\ (e.vendor_id # NULL => avps # <<>> /\ vendor # NULL))
    BY <2>1 DEF ReadAvp, PutAvp
  <2>5. alive' \in BOOLEAN /\ cmd = 1
    BY <1>3, <1>9, <2>4 DEF Survives
  <2>6. DictPlace'
    BY <1>1, <1>2, <1>3, <2>1, <2>2, <2>5 DEF DictPlace
  <2>7. ASSUME alive' PROVE Read
    <3>1. /\ x = PutAvp(maps, e.name, e.code, Len(b)) /\ Survives(x) /\ b = Append(before, q)
          /\ n = at + 1 /\ k = cmd /\ (e.vendor_id # NULL => avps # <<>> /\ vendor # NULL)
      BY <2>1, <2>4, <2>7
    <3> HIDE DEF x, b, n, k
    <3>2. /\ IsRep(q) /\ q.name = e.name /\ q.code = e.code
          /\ q.type = convert_typestr_int(DeclaredType(e))
      BY <1>3, <2>2, AvpRead
    <3>3. RepsOK(avps)
      BY <1>4 DEF MapsOK
    <3>4. /\ RepsOK(before) /\ Len(before) = Len(avps)
          /\ \A i \in 1 .. Len(avps) : /\ before[i].name = avps[i].name
                                       /\ before[i].code = avps[i].code
                                       /\ before[i].type = avps[i].type
      <4>1. CASE e.vendor_id = NULL
        BY <3>3, <4>1
      <4>2. CASE e.vendor_id # NULL
        <5>1. vendor \in Int /\ avps # <<>>
          BY <1>4, <2>3, <3>1, <4>2 DEF MapsOK, VendorsOK
        <5> HIDE DEF vendor
        <5>2. before = [avps EXCEPT ![Len(avps)].vendor = vendor]
          BY <4>2
        <5> HIDE DEF before
        <5>3. LET a == [avps EXCEPT ![Len(avps)].vendor = vendor] IN
              /\ RepsOK(a) /\ Len(a) = Len(avps)
              /\ \A i \in 1 .. Len(avps) : /\ a[i].name = avps[i].name
                                           /\ a[i].code = avps[i].code
                                           /\ a[i].type = avps[i].type
          BY <3>3, <5>1, RepsKeep
        <5>4. QED
          BY <5>2, <5>3
      <4>3. QED
        BY <4>1, <4>2
    <3> HIDE DEF before, q
    <3>5. /\ RepsOK(b) /\ Len(before) \in Nat /\ Len(b) = Len(before) + 1
          /\ b[Len(before) + 1] = q
          /\ \A i \in 1 .. Len(before) : b[i] = before[i]
      BY <3>1, <3>2, <3>4, RepsAppend
    <3>6. /\ Len(avps) \in Nat /\ Len(b) = Len(avps) + 1 /\ b[Len(b)] = q
          /\ \A i \in 1 .. Len(avps) : b[i].name = avps[i].name /\ b[i].code = avps[i].code
                                       /\ b[i].type = avps[i].type
      BY <3>4, <3>5
    <3>7. /\ MapsOK(x, b)
          /\ \A f \in {"vender_code_def", "data_type_def", "avp_in_msg", "cmd_map_name"} : x[f] = maps[f]
          /\ hashmap_get(x.avp_map, e.name) = Len(b)
          /\ hashmapi_get(x.avp_code_name, e.code) = e.name
          /\ \A u \in Name \ {e.name} : hashmap_get(x.avp_map, u) = hashmap_get(maps.avp_map, u)
          /\ \A u \in Number \ {e.code} :
               hashmapi_get(x.avp_code_name, u) = hashmapi_get(maps.avp_code_name, u)
      <4>1. /\ MapsOK(maps, avps) /\ RepsOK(b) /\ Len(avps) \in Nat /\ Len(b) = Len(avps) + 1
            /\ e.name \in Name /\ e.code \in Number
            /\ x = PutAvp(maps, e.name, e.code, Len(b)) /\ Survives(x)
        BY <1>4, <2>3, <3>1, <3>5, <3>6
      <4>2. QED
        BY <4>1, AvpKeeps
    <3>8. AvpsRead(x.avp_map, x.avp_code_name, b, at + 1)
      BY <1>3, <1>4, <1>9, <2>2, <3>2, <3>6, <3>7, AvpdefnRead
    <3>9. CommandsRead(maps.avp_in_msg, maps.cmd_map_name, at + 1, 1)
      BY <1>3, <1>4, <1>9, <2>2, CommandsPassed
    <3>10. /\ x.data_type_def = maps.data_type_def /\ x.avp_in_msg = maps.avp_in_msg
           /\ x.cmd_map_name = maps.cmd_map_name
      BY <3>7
    <3>11. QED
      BY <1>4, <2>5, <3>1, <3>7, <3>8, <3>9, <3>10
  <2>8. QED
    BY <2>1, <2>6, <2>7
<1>10. CASE at <= Len(doc) /\ e.tag # "application" /\ e.tag # "avpdefn"
  <2>1. /\ pass' = 2 /\ at' = at + 1 /\ cmd' = cmd /\ maps' = maps /\ avps' = avps /\ alive' = alive
    BY <1>0, <1>10, Zenon
  <2>2. at \in 1 .. Len(doc) /\ at + 1 \in 1 .. Len(doc) + 1 /\ cmd = 1
    BY <1>3, <1>10
  <2>3. DictPlace'
    BY <1>1, <1>2, <1>3, <2>1, <2>2 DEF DictPlace
  <2>4. AvpsRead(maps.avp_map, maps.avp_code_name, avps, at + 1)
    BY <1>3, <1>4, <1>10, <2>2, AvpPassed
  <2>5. CommandsRead(maps.avp_in_msg, maps.cmd_map_name, at + 1, 1)
    BY <1>3, <1>4, <1>10, <2>2, CommandsPassed
  <2>6. QED
    BY <1>4, <2>1, <2>2, <2>3, <2>4, <2>5
<1>11. QED
  <2>1. \A a, d \in Int : a > d \/ a <= d
    OBVIOUS
  <2>2. at > Len(doc) \/ at <= Len(doc)
    BY <1>3
  <2>3. at <= Len(doc) /\ e.tag = "application" => cmd > Len(e.commands) \/ cmd <= Len(e.commands)
    <3> SUFFICES ASSUME at <= Len(doc), e.tag = "application"
                 PROVE  cmd > Len(e.commands) \/ cmd <= Len(e.commands)
      OBVIOUS
    <3>1. e \in ApplicationElements
      BY <1>3, DocElements
    <3>2. e.commands \in Seq(CommandElements)
      BY <3>1 DEF ApplicationElements
    <3>3. QED
      BY <1>3, <3>2
  <2>4. QED
    BY <1>6, <1>7, <1>8, <1>9, <1>10, <2>2, <2>3

\* Once read_config has returned, the maps answer for all the document says.
LEMMA DictAnswers ==
  ASSUME DictInv, alive, pass = 3
  PROVE  LastDefinitionsAnswer
<1>1. doc \in Docs /\ at = Len(doc) + 1 /\ Len(doc) \in Nat
  BY DocElements DEF DictInv, DictPlace
<1>2. /\ MapsOK(maps, avps) /\ TypesRead(maps.data_type_def, Len(doc) + 1)
      /\ AvpsRead(maps.avp_map, maps.avp_code_name, avps, Len(doc) + 1)
      /\ CommandsRead(maps.avp_in_msg, maps.cmd_map_name, Len(doc) + 1, cmd)
  BY <1>1 DEF DictInv, DictRead
<1>3. /\ DOMAIN doc = 1 .. Len(doc) /\ NULL \notin Int /\ NULL \notin Name /\ cmd \in Nat
      /\ \A tag : \A i \in Tagged(tag) : i \in 1 .. Len(doc) /\ i < Len(doc) + 1
  <2>1. DOMAIN doc = 1 .. Len(doc) /\ \A i \in 1 .. Len(doc) : i < Len(doc) + 1
    BY <1>1, DocElements
  <2>2. NULL \notin Int /\ NULL \notin Name /\ cmd \in Nat
    BY DictionaryAssumption DEF DictInv, DictPlace
  <2>3. QED
    BY <2>1, <2>2 DEF Tagged
<1>4. ASSUME NEW i \in LastOf("avpdefn", "name")
      PROVE  LET avp == avps[AvpNamed(doc[i].name)]
             IN  /\ AvpNamed(doc[i].name) # NoAvp
                 /\ avp.name = doc[i].name /\ avp.code = doc[i].code
                 /\ avp.type = convert_typestr_int(DeclaredType(doc[i]))
                 /\ i \in LastOf("avpdefn", "code") => AvpCoded(avp.code) = AvpNamed(avp.name)
  <2> DEFINE k == hashmap_get(maps.avp_map, doc[i].name)
  <2>1. i \in Tagged("avpdefn") /\ i \in Int /\ i < Len(doc) + 1
    BY <1>1, <1>3 DEF LastOf
  <2>2. doc[i].name \in Name /\ doc[i].code \in Number
    <3>1. doc[i] \in AvpElements
      BY <1>1, <1>3, <2>1, DocElements DEF Tagged
    <3>2. QED
      BY <3>1 DEF AvpElements
  <2>3. /\ k \in 1 .. Len(avps) /\ avps[k].name = doc[i].name /\ avps[k].code = doc[i].code
        /\ avps[k].type = convert_typestr_int(DeclaredType(doc[i]))
    <3>1. \A j \in Tagged("avpdefn") : i < j /\ j < Len(doc) + 1 => doc[j].name # doc[i].name
      <4> SUFFICES ASSUME NEW j \in Tagged("avpdefn"), i < j PROVE doc[j].name # doc[i].name
        OBVIOUS
      <4>1. j > i
        BY <1>3, <2>1
      <4>2. QED
        BY <4>1 DEF LastOf
    <3>2. QED
      BY <1>2, <2>1, <3>1 DEF AvpsRead
  <2>4. k \in Int /\ k # 0 /\ k # NULL
    <3>1. RepsOK(avps)
      BY <1>2 DEF MapsOK
    <3>2. PICK R : avps \in Seq(R)
      BY <3>1 DEF RepsOK
    <3>3. Len(avps) \in Nat
      BY <3>2
    <3> HIDE DEF k
    <3>4. k \in Int /\ k # 0
      BY <2>3, <3>3
    <3>5. QED
      BY <1>3, <3>4
  <2>5. AvpNamed(doc[i].name) = k
    BY <1>3, <2>2, <2>4 DEF AvpNamed
  <2>6. i \in LastOf("avpdefn", "code") => AvpCoded(doc[i].code) = k
    <3> SUFFICES ASSUME i \in LastOf("avpdefn", "code") PROVE AvpCoded(doc[i].code) = k
      OBVIOUS
    <3>1. \A j \in Tagged("avpdefn") : i < j /\ j < Len(doc) + 1 => doc[j].code # doc[i].code
      <4> SUFFICES ASSUME NEW j \in Tagged("avpdefn"), i < j PROVE doc[j].code # doc[i].code
        OBVIOUS
      <4>1. j > i
        BY <1>3, <2>1
      <4>2. QED
        BY <4>1 DEF LastOf
    <3>2. hashmapi_get(maps.avp_code_name, doc[i].code) = doc[i].name
      BY <1>2, <2>1, <3>1 DEF AvpsRead
    <3>3. QED
      BY <2>2, <2>5, <3>2 DEF AvpCoded
  <2> HIDE DEF k
  <2>7. QED
    BY <2>3, <2>4, <2>5, <2>6 DEF NoAvp
<1>5. ASSUME NEW i \in LastOf("typedefn", "name")
      PROVE  ParentType([type |-> convert_typestr_int(doc[i].name)]) =
               convert_typestr_int(IF doc[i].parent = NULL THEN doc[i].name ELSE doc[i].parent)
  <2>1. i \in Tagged("typedefn") /\ i \in Int /\ i < Len(doc) + 1
    BY <1>1, <1>3 DEF LastOf
  <2>2. \A j \in Tagged("typedefn") : i < j /\ j < Len(doc) + 1 => doc[j].name # doc[i].name
    <3> SUFFICES ASSUME NEW j \in Tagged("typedefn"), i < j PROVE doc[j].name # doc[i].name
      OBVIOUS
    <3>1. j > i
      BY <1>3, <2>1
    <3>2. QED
      BY <3>1 DEF LastOf
  <2>3. hashmapi_get(maps.data_type_def, convert_typestr_int(doc[i].name)) =
          convert_typestr_int(Base(doc[i]))
    BY <1>2, <2>1, <2>2 DEF TypesRead
  <2>4. QED
    BY <2>3 DEF ParentType, Base
<1>6. ASSUME NEW p \in Commands
      PROVE  LET c == doc[p[1]].commands[p[2]]
                 later == {doc[q[1]].commands[q[2]] : q \in {r \in Commands : Later(r, p)}}
             IN  /\ (\A d \in later : <<d.code, d.request>> # <<c.code, c.request>>) =>
                      hashmapi_get(maps.cmd_map_name, c.code * 10 + c.request) = c.name
                 /\ (\A d \in later : d.name # c.name) =>
                      LET command == hashmap_get(maps.avp_in_msg, c.name)
                      IN  command # NULL /\ vector_count(command.all_avp) = Len(c.avps)
  <2> DEFINE c == CommandAt(p)
             later == {CommandAt(q) : q \in {r \in Commands : Later(r, p)}}
  <2>1. \A q \in Commands : Earlier(q, Len(doc) + 1, cmd)
    <3> TAKE q \in Commands
    <3>1. q[1] \in 1 .. Len(doc)
      BY <1>1, CommandPlaces
    <3>2. q[1] < Len(doc) + 1
      BY <1>1, <3>1
    <3>3. QED
      BY <3>2 DEF Earlier
  <2>2. c \in CommandElements
    BY <1>1, CommandPlaces
  <2>3. NewCommand(c) # NULL
    <3>1. /\ p[1] \in DOMAIN doc /\ doc[p[1]].tag = "application" /\ p[2] \in Nat
          /\ p[2] \in 1 .. Len(doc[p[1]].commands) /\ doc[p[1]] \in ApplicationElements
      BY <1>1, <1>3, CommandPlaces, DocElements
    <3>2. doc[p[1]].commands \in Seq(CommandElements)
      BY <3>1 DEF ApplicationElements
    <3>3. p[2] \in DOMAIN doc[p[1]].commands
      BY <3>1, <3>2
    <3>4. QED
      BY <1>1, <3>1, <3>3, MemoryAssumption DEF CommandAt
  <2>4. vector_count(NewCommand(c).all_avp) = Len(c.avps)
    BY <2>2, NewCommandHolds
  <2>5. \A q \in Commands : Later(q, p) => CommandAt(q) \in later
    OBVIOUS
  <2> HIDE DEF later
  <2>6. (\A d \in later : <<d.code, d.request>> # <<c.code, c.request>>) =>
          hashmapi_get(maps.cmd_map_name, c.code * 10 + c.request) = c.name
    BY <1>2, <2>1, <2>5 DEF CommandsRead
  <2>7. (\A d \in later : d.name # c.name) => hashmap_get(maps.avp_in_msg, c.name) = NewCommand(c)
    BY <1>2, <2>1, <2>5 DEF CommandsRead
  <2> HIDE DEF c
  <2>8. /\ (\A d \in later : <<d.code, d.request>> # <<c.code, c.request>>) =>
             hashmapi_get(maps.cmd_map_name, c.code * 10 + c.request) = c.name
        /\ (\A d \in later : d.name # c.name) =>
             LET command == hashmap_get(maps.avp_in_msg, c.name)
             IN  command # NULL /\ vector_count(command.all_avp) = Len(c.avps)
    BY <2>3, <2>4, <2>6, <2>7
  <2>9. QED
    BY <2>8 DEF c, later, CommandAt
<1>7. QED
  BY <1>4, <1>5, <1>6, Zenon DEF LastDefinitionsAnswer

\* What was read of the AVPs does not depend on where the maps are kept.
LEMMA AvpsReadOn ==
  ASSUME NEW x, NEW y, NEW b, NEW m, doc' = doc, AvpsRead(x, y, b, m)
  PROVE  AvpsRead(x, y, b, m)'
BY Zenon DEF AvpsRead, Tagged

\* What it has read stays as long as nothing but its process ends.
LEMMA DictKept ==
  ASSUME DictInv, UNCHANGED <<doc, pass, at, cmd, maps, avps, junk>>,
         alive' \in BOOLEAN, alive' => alive
  PROVE  DictInv'
<1>1. /\ doc' = doc /\ pass' = pass /\ at' = at /\ cmd' = cmd /\ maps' = maps /\ avps' = avps
      /\ junk' = junk
  OBVIOUS
<1>2. alive' \in BOOLEAN /\ DictPlace /\ (alive' => alive /\ DictRead)
  BY DEF DictInv
<1>3. DictPlace'
  BY <1>2, <1>1, Zenon DEF DictPlace
<1>4. SUFFICES ASSUME alive' PROVE DictRead'
  BY <1>3, Zenon DEF DictInv
<1> DEFINE n == IF pass = 1 THEN at ELSE Len(doc) + 1
           k == IF pass = 1 THEN 1 ELSE at
<1>5. /\ MapsOK(maps, avps) /\ TypesRead(maps.data_type_def, n)
      /\ AvpsRead(maps.avp_map, maps.avp_code_name, avps, k)
      /\ CommandsRead(maps.avp_in_msg, maps.cmd_map_name, k, cmd)
  BY <1>2, <1>4, Zenon DEF DictRead
<1>6. ReadIn(doc, maps.avp_in_msg, maps.cmd_map_name, k, cmd)
  BY <1>5, CommandsReadIn
<1>7. ReadIn(doc', maps'.avp_in_msg, maps'.cmd_map_name, k', cmd')
  BY <1>1, <1>6, Zenon
<1>8. CommandsRead(maps.avp_in_msg, maps.cmd_map_name, k, cmd)'
  BY <1>7, Zenon DEF CommandsRead, Commands, Tagged, CommandAt, Later, Earlier, ReadIn
<1>9. TypesRead(maps.data_type_def, n)'
  BY <1>1, <1>5, Zenon DEF TypesRead, Tagged
<1>10. AvpsRead(maps.avp_map, maps.avp_code_name, avps, k)'
  <2>1. PICK x, b, m : x = maps /\ b = avps /\ m = k
    OBVIOUS
  <2>2. AvpsRead(x.avp_map, x.avp_code_name, b, m) /\ doc' = doc
    BY <1>1, <1>5, <2>1, Zenon
  <2>3. PICK y, z : y = x.avp_map /\ z = x.avp_code_name
    OBVIOUS
  <2>4. AvpsRead(y, z, b, m)
    BY <2>2, <2>3
  <2>5. AvpsRead(y, z, b, m)'
    BY <2>2, <2>4, AvpsReadOn
  <2>6. y = maps'.avp_map /\ z = maps'.avp_code_name /\ b = avps' /\ m = k'
    BY <1>1, <2>1, <2>3
  <2>7. QED
    BY <2>5, <2>6, Zenon
<1>11. MapsOK(maps', avps')
  BY <1>1, <1>5, Zenon
<1>12. QED
  BY <1>8, <1>9, <1>10, <1>11, Zenon DEF DictRead

\* A step of read_config, or none, keeps the invariant.
LEMMA DictStays ==
  ASSUME DictInv, read_config \/ UNCHANGED dictVars
  PROVE  DictInv'
<1>1. CASE ReadTypes
  BY <1>1, ReadTypesInv
<1>2. CASE ReadElements
  BY <1>2, ReadElementsInv
<1>3. CASE UNCHANGED dictVars
  <2>1. UNCHANGED <<doc, pass, at, cmd, maps, avps, junk>> /\ alive' = alive
    BY <1>3 DEF dictVars
  <2>2. alive \in BOOLEAN
    BY DEF DictInv, DictPlace
  <2>3. alive' \in BOOLEAN /\ (alive' => alive)
    BY <2>1, <2>2
  <2>4. QED
    BY <2>1, <2>3, DictKept
<1>4. QED
  BY <1>1, <1>2, <1>3 DEF read_config
-----------------------------------------------------------------------------
(* What a message is filled in with *)

Strings == {s \in Seq(ByteValue) : Len(s) <= StringLimit}

\* The value for a command is one of those listed, or none.
LEMMA Picked ==
  ASSUME NEW V, NEW code, NEW r \in {0, 1}, NEW a \in V \X V, NEW b \in V \X V, NEW c \in V \X V
  PROVE  Pick(code, r, a, b, c) \in V \cup {NULL}
<1>1. 2 - r \in 1 .. 2
  OBVIOUS
<1>2. CAPABILITIES_EXCHANGE # CREDIT_CONTROL /\ CAPABILITIES_EXCHANGE # DEVICE_WATCHDOG
      /\ CREDIT_CONTROL # DEVICE_WATCHDOG
  BY DEF CAPABILITIES_EXCHANGE, CREDIT_CONTROL, DEVICE_WATCHDOG
<1>3. CASE code = CAPABILITIES_EXCHANGE
  BY <1>1, <1>2, <1>3 DEF Pick
<1>4. CASE code = CREDIT_CONTROL
  BY <1>1, <1>2, <1>4 DEF Pick
<1>5. CASE code = DEVICE_WATCHDOG
  BY <1>1, <1>2, <1>5 DEF Pick
<1>6. CASE code \notin {CAPABILITIES_EXCHANGE, CREDIT_CONTROL, DEVICE_WATCHDOG}
  BY <1>1, <1>6 DEF Pick
<1>7. QED
  BY <1>3, <1>4, <1>5, <1>6

\* Numbers for the types of numbers.
LEMMA Numbers ==
  ASSUME NEW code, NEW r \in {0, 1}
  PROVE  /\ manual_set_int32(code, r) \in Int \cup {NULL}
         /\ manual_set_uint32(code, r) \in Int \cup {NULL}
         /\ manual_set_int64(code, r) \in Int \cup {NULL}
         /\ manual_set_uint64(code, r) \in Int \cup {NULL}
<1>1. manual_set_int32(code, r) \in Int \cup {NULL}
  BY Picked DEF manual_set_int32
<1>2. manual_set_uint32(code, r) \in Int \cup {NULL}
  BY Picked DEF manual_set_uint32
<1>3. manual_set_int64(code, r) \in Int \cup {NULL}
  BY Picked DEF manual_set_int64
<1>4. manual_set_uint64(code, r) \in Int \cup {NULL}
  BY Picked DEF manual_set_uint64
<1>5. QED
  BY <1>1, <1>2, <1>3, <1>4

\* Short strings for the types of strings.
LEMMA ShortStrings ==
  ASSUME NEW rep, NEW code, NEW r \in {0, 1}
  PROVE  manual_set_str(rep, code, r) \in Strings \cup {NULL}
<1>1. \A len \in 1 .. 28 : \A last \in ByteValue : Text(len, last) \in Strings
  <2> SUFFICES ASSUME NEW len \in 1 .. 28, NEW last \in ByteValue PROVE Text(len, last) \in Strings
    OBVIOUS
  <2>1. Text(len, last) \in Seq(ByteValue) /\ Len(Text(len, last)) = len
    BY DEF Text, ByteValue
  <2>2. QED
    BY <2>1 DEF Strings, StringLimit, MESSAGE_HEADER_LEN, AVP_HEADER_LEN
<1>2. Text(4, 49) \in Strings /\ Text(27, 82) \in Strings /\ Text(27, 65) \in Strings
  BY <1>1 DEF ByteValue
<1> DEFINE texts == <<Text(27, 82), Text(27, 65)>>
<1>3. texts \in Strings \X Strings
  BY <1>2
<1> HIDE DEF texts
<1>4. Pick(code, r, texts, texts, texts) \in Strings \cup {NULL}
  BY <1>3, Picked
<1>5. QED
  BY <1>2, <1>4 DEF manual_set_str, texts

\* An enumeration's first number.
LEMMA FirstOfEnum ==
  ASSUME NEW rep, IsNode(rep)
  PROVE  manual_set_enum(rep) \in Int
<1>1. CASE rep.is_enumT > 0 /\ vector_count(rep.enumT) > 0
  <2>1. Elements(rep.enumT) \in Seq(Int) /\ vector_count(rep.enumT) \in Nat
    BY <1>1 DEF IsNode
  <2>2. 1 \in 1 .. vector_count(rep.enumT)
    BY <1>1, <2>1
  <2>3. /\ DOMAIN Elements(rep.enumT) = 1 .. vector_count(rep.enumT)
        /\ Elements(rep.enumT)[1] = vector_get(rep.enumT, 1 - 1)
    BY <2>2 DEF Elements
  <2>4. Elements(rep.enumT)[1] \in Int
    BY <2>1, <2>2, <2>3
  <2>5. 1 - 1 = 0
    OBVIOUS
  <2>6. QED
    BY <1>1, <2>3, <2>4, <2>5 DEF manual_set_enum
<1>2. CASE ~(rep.is_enumT > 0 /\ vector_count(rep.enumT) > 0)
  BY <1>2 DEF manual_set_enum
<1>3. QED
  BY <1>1, <1>2

\* The types as numbers, and the basic types the dictionary gives them.
LEMMA TypesDefined ==
  ASSUME NEW reps, MapsOK(maps, reps)
  PROVE  /\ \A t \in TypeCodes : TypeDef[t] \in TypeCodes \cup {NULL}
         /\ TypeDef[convert_typestr_int("Unsigned32")]
              \in {NULL} \cup DiaType({"Integer32", "Unsigned32"})
         /\ TypeDef[convert_typestr_int("Enumerated")]
              \in {NULL} \cup DiaType({"Integer32", "Unsigned32", "Enumerated"})
<1>1. TypeCodes \subseteq Number
  BY DocsAssumption DEF TypeCodes
<1>2. \A t \in TypeCodes : TypeDef[t] = hashmapi_get(maps.data_type_def, t)
  BY DEF TypeDef, TypeCodes
<1>3. convert_typestr_int("Unsigned32") \in TypeCodes /\ convert_typestr_int("Enumerated") \in TypeCodes
  BY TypeIndex, TypesNamed
<1>4. TypesOK(maps)
  BY DEF MapsOK
<1>5. QED
  BY <1>1, <1>2, <1>3, <1>4 DEF TypesOK

\* No number is the number of two of these types.
LEMMA TypesDiffer ==
  \A t \in {"OctetString", "Integer32", "Integer64", "Unsigned32", "Unsigned64", "Grouped",
            "UTF8String", "Enumerated"} :
    \A u \in {"OctetString", "Integer32", "Integer64", "Unsigned32", "Unsigned64", "Grouped",
              "UTF8String", "Enumerated"} :
      convert_typestr_int(t) = convert_typestr_int(u) => t = u
BY TypeIndex, TypesNamed

\* The value an AVP gets is one its basic type can be packed as.
LEMMA ValueFits ==
  ASSUME NEW reps, MapsOK(maps, reps), NEW rep, IsRep(rep), NEW code, NEW r \in {0, 1},
         NEW v, v = manual_set_all_avp_value(rep, code, r, TypeDef), v # NULL
  PROVE  /\ TypeDef[rep.type] \in DiaType({"OctetString", "UTF8String"}) => v \in Strings
         /\ TypeDef[rep.type] \in DiaType({"Integer32", "Unsigned32"})
                                     \cup DiaType({"Integer64", "Unsigned64"}) => v \in Int
<1> DEFINE c(t) == convert_typestr_int(t)
           parent == TypeDef[rep.type]
<1>1. CASE rep.type = c("Enumerated")
  <2>1. parent \notin DiaType({"OctetString", "UTF8String"})
    <3>1. parent \in {NULL} \cup DiaType({"Integer32", "Unsigned32", "Enumerated"})
      BY <1>1, TypesDefined
    <3>2. c("OctetString") \in TypeCodes /\ c("UTF8String") \in TypeCodes /\ TypeCodes \subseteq Int
      BY TypeIndex, TypesNamed DEF TypeCodes
    <3>3. NULL \notin Int
      BY DictionaryAssumption
    <3>4. QED
      BY <3>1, <3>2, <3>3, TypesDiffer DEF DiaType
  <2>2. v = manual_set_enum(rep)
    BY <1>1, TypesDiffer DEF manual_set_all_avp_value
  <2>3. v \in Int
    BY <2>2, FirstOfEnum DEF IsRep
  <2>4. QED
    BY <2>1, <2>3
<1>2. CASE rep.type # c("Enumerated")
  <2> HIDE DEF parent
  <2>1. v = CASE c("OctetString") = parent \/ c("UTF8String") = parent -> manual_set_str(rep, code, r)
              [] c("Integer32") = parent -> manual_set_int32(code, r)
              [] c("Unsigned32") = parent -> manual_set_uint32(code, r)
              [] c("Integer64") = parent -> manual_set_int64(code, r)
              [] c("Unsigned64") = parent -> manual_set_uint64(code, r)
              [] c("Enumerated") = parent -> manual_set_enum(rep)
              [] OTHER -> NULL
    BY <1>2, Zenon DEF manual_set_all_avp_value, parent
  <2> DEFINE str == manual_set_str(rep, code, r)
             i32 == manual_set_int32(code, r)
             u32 == manual_set_uint32(code, r)
             i64 == manual_set_int64(code, r)
             u64 == manual_set_uint64(code, r)
             enum == manual_set_enum(rep)
  <2>2. /\ str \in Strings \cup {NULL} /\ i32 \in Int \cup {NULL} /\ u32 \in Int \cup {NULL}
        /\ i64 \in Int \cup {NULL} /\ u64 \in Int \cup {NULL}
    BY Numbers, ShortStrings
  <2> HIDE DEF str, i32, u32, i64, u64, enum
  <2>3. v = CASE c("OctetString") = parent \/ c("UTF8String") = parent -> str
              [] c("Integer32") = parent -> i32
              [] c("Unsigned32") = parent -> u32
              [] c("Integer64") = parent -> i64
              [] c("Unsigned64") = parent -> u64
              [] c("Enumerated") = parent -> enum
              [] OTHER -> NULL
    BY <2>1 DEF str, i32, u32, i64, u64, enum
  <2>4. ASSUME parent \in {c("OctetString"), c("UTF8String")} PROVE v \in Strings
    <3>1. /\ parent # c("Integer32") /\ parent # c("Unsigned32") /\ parent # c("Integer64")
          /\ parent # c("Unsigned64") /\ parent # c("Enumerated")
      BY <2>4, TypesDiffer
    <3> HIDE DEF c
    <3>2. v = str
      BY <2>3, <2>4, <3>1
    <3>3. QED
      BY <2>2, <3>2
  <2>5. ASSUME parent \in {c("Integer32"), c("Unsigned32"), c("Integer64"), c("Unsigned64")}
        PROVE  v \in Int
    <3>1. parent # c("OctetString") /\ parent # c("UTF8String") /\ parent # c("Enumerated")
      BY <2>5, TypesDiffer
    <3>2. /\ c("Integer32") # c("Unsigned32") /\ c("Integer32") # c("Integer64")
          /\ c("Integer32") # c("Unsigned64") /\ c("Unsigned32") # c("Integer64")
          /\ c("Unsigned32") # c("Unsigned64") /\ c("Integer64") # c("Unsigned64")
      BY TypesDiffer
    <3> HIDE DEF c
    <3>3. v \in {i32, u32, i64, u64}
      BY <2>3, <2>5, <3>1, <3>2
    <3>4. QED
      BY <2>2, <3>3
  <2>6. QED
    BY <2>4, <2>5 DEF DiaType, parent
<1>3. QED
  BY <1>1, <1>2
-----------------------------------------------------------------------------
(* AVPs, messages, and the stack of generate_avp_msg *)

IntTypes == DiaType({"Integer32", "Unsigned32"}) \cup DiaType({"Integer64", "Unsigned64"})
StringTypes == DiaType({"OctetString", "UTF8String"})

\* What create_new_avp_msg makes of AVPs of Avps.
AvpOK(a, Avps) ==
  /\ a = [avp_rep |-> a.avp_rep, value |-> a.value, child_avp |-> a.child_avp]
  /\ IsRep(a.avp_rep)
  /\ IsGrouped(a.avp_rep) => a.child_avp \in Seq(Avps)
  /\ ~IsGrouped(a.avp_rep) =>
       /\ TypeDef[a.avp_rep.type] \in StringTypes => a.value \in Strings
       /\ TypeDef[a.avp_rep.type] \in IntTypes => a.value \in Int

AvpsOK(Avps) == \A a \in Avps : AvpOK(a, Avps)

\* A message whose header fits.
MessageOK(m) ==
  /\ m = [version |-> m.version, command_code |-> m.command_code, rFlag |-> m.rFlag,
          flag |-> m.flag, app_id |-> m.app_id, hop_hop_id |-> m.hop_hop_id,
          end_end_id |-> m.end_end_id, all_avp_msg |-> m.all_avp_msg]
  /\ HeaderFits(m) /\ m.rFlag \in {0, 1}

\* The stack: the command at the bottom, groups above it.
FrameOK(f, Avps) ==
  f = [avp_rep |-> f.avp_rep, rest |-> f.rest, made |-> f.made] /\ f.made \in Seq(Avps)
CommandOK(f, Avps) == FrameOK(f, Avps) /\ f.rest \in Seq(Info)
GroupOK(f, Avps) ==
  FrameOK(f, Avps) /\ f.rest \in Seq(Child) /\ IsRep(f.avp_rep) /\ IsGrouped(f.avp_rep)
PlaceOK(i, f, Avps) == IF i = 1 THEN CommandOK(f, Avps) ELSE GroupOK(f, Avps)

MakingOK(stack, Avps) ==
  /\ \E F : stack \in Seq(F)
  /\ stack # <<>>
  /\ \A i \in 1 .. Len(stack) : PlaceOK(i, stack[i], Avps)

\* What the dictionary and set_avp_message leave in an AVP can be packed.
LEMMA CanBePacked ==
  ASSUME NEW Avps, AvpsOK(Avps)
  PROVE  Packable(Avps, TypeDef) /\ Encodable(Avps, TypeDef)
<1>1. ASSUME NEW a \in Avps
      PROVE  /\ IF IsGrouped(a.avp_rep) THEN a.child_avp \in Seq(Avps)
                ELSE TypeDef[a.avp_rep.type] \in StringTypes =>
                       a.value \in Seq(0 .. 255) /\ Len(a.value) <= StringLimit
             /\ TypeDef[a.avp_rep.type] \in IntTypes => IsGrouped(a.avp_rep) \/ a.value \in Int
             /\ a.avp_rep.code \in Int
             /\ a.avp_rep.protect \in {0, 1} /\ a.avp_rep.mandatory \in {0, 1}
             /\ a.avp_rep.vendor_bit \in {0, 1} /\ a.avp_rep.vendor \in Int
  <2>1. AvpOK(a, Avps)
    BY DEF AvpsOK
  <2>2. /\ a.avp_rep.code \in Int
        /\ a.avp_rep.protect \in {0, 1} /\ a.avp_rep.mandatory \in {0, 1}
        /\ a.avp_rep.vendor_bit \in {0, 1} /\ a.avp_rep.vendor \in Int
    BY <2>1 DEF AvpOK, IsRep, IsNode
  <2>3. a.value \in Strings => a.value \in Seq(0 .. 255) /\ Len(a.value) <= StringLimit
    BY DEF Strings, ByteValue
  <2>4. QED
    BY <2>1, <2>2, <2>3 DEF AvpOK
<1>2. Packable(Avps, TypeDef)
  BY <1>1 DEF Packable, StringTypes
<1>3. Encodable(Avps, TypeDef)
  BY <1>1 DEF Encodable, IntTypes
<1>4. QED
  BY <1>2, <1>3

\* An AVP made of AVPs that are fine makes the set of them no worse.
LEMMA OneMoreAvp ==
  ASSUME NEW Avps, AvpsOK(Avps), NEW a, AvpOK(a, Avps)
  PROVE  AvpsOK(Avps \cup {a})
<1> DEFINE More2 == Avps \cup {a}
<1>1. \A b : AvpOK(b, Avps) => AvpOK(b, More2)
  <2> SUFFICES ASSUME NEW b, AvpOK(b, Avps) PROVE AvpOK(b, More2)
    OBVIOUS
  <2> DEFINE list == b.child_avp
  <2>1. list \in Seq(Avps) => list \in Seq(More2)
    <3> HIDE DEF list
    <3>1. Avps \subseteq More2
      OBVIOUS
    <3> HIDE DEF More2
    <3>2. QED
      BY <3>1, SeqMore
  <2> HIDE DEF More2
  <2>2. QED
    BY <2>1, Zenon DEF AvpOK
<1> HIDE DEF More2
<1>2. \A b \in More2 : AvpOK(b, Avps)
  BY DEF AvpsOK, More2
<1>3. QED
  BY <1>1, <1>2 DEF AvpsOK, More2

\* The header of a new message fits its fields.
LEMMA NewMessage ==
  ASSUME NEW code \in Int24, NEW r \in {0, 1}
  PROVE  MessageOK(create_new_send_msg(1, code, r, 0, 0, 0))
<1> DEFINE m == create_new_send_msg(1, code, r, 0, 0, 0)
<1>1. gen_flag_value(r, 0, 0, 0) \in ByteValue
  BY DEF gen_flag_value, ByteValue
<1>2. m = [version |-> 1, command_code |-> code, rFlag |-> r, flag |-> gen_flag_value(r, 0, 0, 0),
           app_id |-> 0, hop_hop_id |-> 12345, end_end_id |-> 56823, all_avp_msg |-> <<>>]
  BY DEF create_new_send_msg
<1> HIDE DEF m
<1>3. HeaderFits(m)
  BY SMT, <1>1, <1>2 DEF HeaderFits, ByteValue, Int32
<1>4. QED
  BY SMT, <1>2, <1>3 DEF MessageOK, m

\* It still does once the message has its AVPs.
LEMMA FilledIn ==
  ASSUME NEW m, MessageOK(m), NEW list
  PROVE  LET x == [m EXCEPT !.all_avp_msg = list]
         IN  MessageOK(x) /\ x.all_avp_msg = list
<1> DEFINE x == [m EXCEPT !.all_avp_msg = list]
<1>1. x = [version |-> m.version, command_code |-> m.command_code, rFlag |-> m.rFlag,
           flag |-> m.flag, app_id |-> m.app_id, hop_hop_id |-> m.hop_hop_id,
           end_end_id |-> m.end_end_id, all_avp_msg |-> list]
  BY DEF MessageOK
<1> HIDE DEF x
<1>2. x.all_avp_msg = list /\ MessageOK(x)
  BY <1>1 DEF MessageOK, HeaderFits
<1>3. QED
  BY <1>2 DEF x

\* The Result-Code is of a type that is packed as an int.
LEMMA ResultFilledIn ==
  ASSUME NEW reps, MapsOK(maps, reps), NEW Avps, AvpsOK(Avps), NEW m, MessageOK(m),
         m.all_avp_msg \in Seq(Avps), NEW val \in Int
  PROVE  LET x == set_avp_message(m, val, 268)
         IN  MessageOK(x) /\ \E T : AvpsOK(T) /\ x.all_avp_msg \in Seq(T)
<1> DEFINE x == set_avp_message(m, val, 268)
           list == m.all_avp_msg
           coded == {i \in DOMAIN list : list[i].avp_rep.code = 268}
<1>1. CASE coded = {}
  BY <1>1 DEF set_avp_message
<1>2. CASE coded # {}
  <2> DEFINE k == Least(coded)
             a == list[k]
             b == [a EXCEPT !.value = val]
             new == [list EXCEPT ![k] = b]
  <2>1. list \in Seq(Avps)
    OBVIOUS
  <2>2. k \in coded
    <3>1. coded \subseteq Nat
      BY <2>1
    <3>2. N!Least(coded) = Least(coded)
      BY DEF N!Least, Least
    <3> HIDE DEF coded
    <3>3. N!Least(coded) \in coded
      BY <1>2, <3>1, N!LeastIsLeast, DictionaryAssumption
    <3>4. QED
      BY <3>2, <3>3
  <2>3. x = [m EXCEPT !.all_avp_msg = new]
    BY <1>2 DEF set_avp_message
  <2> HIDE DEF k
  <2>4. a \in Avps /\ a.avp_rep.code = 268 /\ k \in 1 .. Len(list)
    BY <2>1, <2>2
  <2>5. AvpOK(a, Avps)
    BY <2>4 DEF AvpsOK
  <2> HIDE DEF a
  <2>6. b = [avp_rep |-> a.avp_rep, value |-> val, child_avp |-> a.child_avp]
    BY <2>5 DEF AvpOK
  <2> HIDE DEF b
  <2>7. a.avp_rep.type = convert_typestr_int("Unsigned32")
    BY <2>4, <2>5 DEF AvpOK, IsRep
  <2>8. TypeDef[a.avp_rep.type] \notin StringTypes
    <3>1. TypeDef[a.avp_rep.type] \in {NULL} \cup DiaType({"Integer32", "Unsigned32"})
      BY <2>7, TypesDefined
    <3>2. /\ convert_typestr_int("OctetString") \in TypeCodes
          /\ convert_typestr_int("UTF8String") \in TypeCodes /\ TypeCodes \subseteq Int
      BY TypeIndex, TypesNamed DEF TypeCodes
    <3>3. NULL \notin Int
      BY DictionaryAssumption
    <3>4. QED
      BY <3>1, <3>2, <3>3, TypesDiffer DEF DiaType, StringTypes
  <2>9. AvpOK(b, Avps)
    <3>1. b.avp_rep = a.avp_rep /\ b.value = val /\ b.child_avp = a.child_avp
      BY <2>6
    <3>2. b = [avp_rep |-> b.avp_rep, value |-> b.value, child_avp |-> b.child_avp]
      BY <2>6, <3>1
    <3>3. QED
      BY <2>5, <2>8, <3>1, <3>2, Zenon DEF AvpOK
  <2>10. AvpsOK(Avps \cup {b})
    BY <2>9, OneMoreAvp
  <2>11. new \in Seq(Avps \cup {b})
    <3>1. list \in Seq(Avps \cup {b})
      BY <2>1, SeqMore
    <3>2. b \in Avps \cup {b}
      OBVIOUS
    <3> DEFINE T == Avps \cup {b}
    <3>3. list \in Seq(T) /\ b \in T
      BY <3>1, <3>2
    <3> HIDE DEF T, list
    <3>4. new \in Seq(T)
      BY <2>4, <3>3
    <3>5. QED
      BY <3>4 DEF T, list
  <2> HIDE DEF new
  <2>12. MessageOK(x) /\ x.all_avp_msg = new
    <3> HIDE DEF x
    <3>1. LET y == [m EXCEPT !.all_avp_msg = new]
          IN  MessageOK(y) /\ y.all_avp_msg = new
      BY FilledIn
    <3>2. QED
      BY <2>3, <3>1, Zenon
  <2>13. QED
    BY <2>10, <2>11, <2>12
<1>3. QED
  BY <1>1, <1>2

\* The stack is not disturbed by an AVP more to choose from,
LEMMA MakingMore ==
  ASSUME NEW Avps, NEW T, Avps \subseteq T, NEW stack, MakingOK(stack, Avps)
  PROVE  MakingOK(stack, T)
<1>1. \A f : FrameOK(f, Avps) => FrameOK(f, T)
  <2> SUFFICES ASSUME NEW f, FrameOK(f, Avps) PROVE FrameOK(f, T)
    OBVIOUS
  <2> DEFINE list == f.made
  <2>1. list \in Seq(Avps)
    BY DEF FrameOK
  <2> HIDE DEF list
  <2>2. list \in Seq(T)
    BY <2>1, SeqMore
  <2>3. QED
    BY <2>2 DEF FrameOK, list
<1>2. QED
  BY <1>1, Zenon DEF MakingOK, PlaceOK, CommandOK, GroupOK

\* nor by another frame at its top of the kind that is there,
LEMMA TopReplaced ==
  ASSUME NEW Avps, NEW stack, MakingOK(stack, Avps), NEW f, PlaceOK(Len(stack), f, Avps)
  PROVE  /\ MakingOK([stack EXCEPT ![Len(stack)] = f], Avps)
         /\ Len([stack EXCEPT ![Len(stack)] = f]) = Len(stack)
         /\ [stack EXCEPT ![Len(stack)] = f][Len(stack)] = f
<1>1. PICK F : stack \in Seq(F)
  BY DEF MakingOK
<1> DEFINE b == [stack EXCEPT ![Len(stack)] = f]
<1>2. /\ Len(stack) \in Nat /\ Len(stack) \in 1 .. Len(stack)
      /\ b \in Seq(F \cup {f}) /\ Len(b) = Len(stack)
      /\ \A i \in 1 .. Len(stack) : b[i] = IF i = Len(stack) THEN f ELSE stack[i]
  BY <1>1, LastReplaced DEF MakingOK
<1> HIDE DEF b
<1>3. \A i \in 1 .. Len(b) : PlaceOK(i, b[i], Avps)
  BY <1>2 DEF MakingOK
<1>4. b # <<>>
  BY <1>2
<1>5. MakingOK(b, Avps)
  BY <1>2, <1>3, <1>4 DEF MakingOK
<1>6. QED
  BY <1>2, <1>5 DEF b

\* nor by a group above it,
LEMMA GroupPushed ==
  ASSUME NEW Avps, NEW stack, MakingOK(stack, Avps), NEW f, GroupOK(f, Avps)
  PROVE  MakingOK(Append(stack, f), Avps)
<1>1. PICK F : stack \in Seq(F)
  BY DEF MakingOK
<1> DEFINE b == Append(stack, f)
<1>2. /\ b \in Seq(F \cup {f}) /\ Len(stack) \in Nat /\ Len(b) = Len(stack) + 1
      /\ b[Len(stack) + 1] = f /\ \A i \in 1 .. Len(stack) : b[i] = stack[i]
  BY <1>1, OneAppended
<1>3. Len(stack) # 0
  BY <1>1 DEF MakingOK
<1> HIDE DEF b
<1>4. \A i \in 1 .. Len(b) : i = Len(stack) + 1 \/ i \in 1 .. Len(stack)
  BY <1>2
<1>5. PlaceOK(Len(stack) + 1, f, Avps)
  BY <1>2, <1>3 DEF PlaceOK
<1>6. \A i \in 1 .. Len(b) : PlaceOK(i, b[i], Avps)
  BY <1>2, <1>4, <1>5 DEF MakingOK
<1>7. b # <<>>
  BY <1>2
<1>8. MakingOK(b, Avps)
  BY <1>2, <1>6, <1>7 DEF MakingOK
<1>9. QED
  BY <1>8 DEF b

\* nor without the group at its top.
LEMMA GroupPopped ==
  ASSUME NEW Avps, NEW stack, MakingOK(stack, Avps), Len(stack) > 1
  PROVE  MakingOK(SubSeq(stack, 1, Len(stack) - 1), Avps)
<1>1. PICK F : stack \in Seq(F)
  BY DEF MakingOK
<1> DEFINE b == SubSeq(stack, 1, Len(stack) - 1)
<1>2. /\ b \in Seq(F) /\ Len(stack) \in Nat /\ Len(b) = Len(stack) - 1
      /\ \A i \in 1 .. Len(stack) - 1 : b[i] = stack[i]
  BY <1>1
<1> HIDE DEF b
<1>3. \A i \in 1 .. Len(b) : i \in 1 .. Len(stack) /\ i \in 1 .. Len(stack) - 1
  BY <1>2
<1>4. \A i \in 1 .. Len(b) : PlaceOK(i, b[i], Avps)
  BY <1>2, <1>3 DEF MakingOK
<1>5. b # <<>>
  BY <1>2
<1>6. MakingOK(b, Avps)
  BY <1>2, <1>4, <1>5 DEF MakingOK
<1>7. QED
  BY <1>6 DEF b

\* The frame at the top.
LEMMA TopFrame ==
  ASSUME NEW Avps, NEW stack, MakingOK(stack, Avps)
  PROVE  /\ PlaceOK(Len(stack), stack[Len(stack)], Avps)
         /\ FrameOK(stack[Len(stack)], Avps) /\ Len(stack) \in Nat /\ Len(stack) >= 1
<1>1. PICK F : stack \in Seq(F)
  BY DEF MakingOK
<1>2. Len(stack) \in Nat /\ Len(stack) >= 1 /\ Len(stack) \in 1 .. Len(stack)
  BY <1>1 DEF MakingOK
<1>3. PlaceOK(Len(stack), stack[Len(stack)], Avps)
  BY <1>2 DEF MakingOK
<1>4. QED
  BY <1>2, <1>3, Zenon DEF PlaceOK, CommandOK, GroupOK

\* One element of what is to be made is taken.
LEMMA RestTaken ==
  ASSUME NEW Avps, NEW stack, MakingOK(stack, Avps), stack[Len(stack)].rest # <<>>
  PROVE  /\ MakingOK([stack EXCEPT ![Len(stack)].rest = Tail(@)], Avps)
         /\ Len([stack EXCEPT ![Len(stack)].rest = Tail(@)]) = Len(stack)
         /\ Len(stack) > 1 => Head(stack[Len(stack)].rest) \in Child
         /\ Len(stack) = 1 => Head(stack[Len(stack)].rest) \in Info
<1> DEFINE n == Len(stack)
           f == stack[n]
           g == [f EXCEPT !.rest = Tail(@)]
<1>1. PlaceOK(n, f, Avps) /\ FrameOK(f, Avps) /\ n \in Nat /\ n >= 1
  BY TopFrame
<1>2. [stack EXCEPT ![Len(stack)].rest = Tail(@)] = [stack EXCEPT ![n] = g]
  OBVIOUS
<1>4. f.rest # <<>>
  OBVIOUS
<1> HIDE DEF n, f
<1> DEFINE list == f.rest
<1>3. g = [avp_rep |-> f.avp_rep, rest |-> Tail(list), made |-> f.made]
  <2> DEFINE t == Tail(f.rest)
  <2>1. g = [f EXCEPT !.rest = t]
    OBVIOUS
  <2> HIDE DEF t, g
  <2>2. f = [avp_rep |-> f.avp_rep, rest |-> f.rest, made |-> f.made]
    BY <1>1, Zenon DEF FrameOK
  <2>3. g = [avp_rep |-> f.avp_rep, rest |-> t, made |-> f.made]
    BY <2>1, <2>2
  <2>4. QED
    BY <2>3 DEF t
<1> HIDE DEF g
<1>5. /\ list \in Seq(Info) => Tail(list) \in Seq(Info) /\ Head(list) \in Info
      /\ list \in Seq(Child) => Tail(list) \in Seq(Child) /\ Head(list) \in Child
  <2>0. list # <<>>
    BY <1>4
  <2> HIDE DEF list
  <2>1. \A R : list \in Seq(R) => Tail(list) \in Seq(R) /\ Head(list) \in R
    BY <2>0
  <2>2. QED
    BY <2>1
<1>6. g.avp_rep = f.avp_rep /\ g.rest = Tail(list) /\ g.made = f.made
  BY <1>3
<1>7. FrameOK(g, Avps)
  BY <1>1, <1>3, <1>6, Zenon DEF FrameOK
<1>8. PlaceOK(n, g, Avps)
  BY <1>1, <1>5, <1>6, <1>7, Zenon DEF PlaceOK, CommandOK, GroupOK
<1>9. /\ n > 1 => Head(list) \in Child
      /\ n = 1 => Head(list) \in Info
  BY <1>1, <1>5 DEF PlaceOK, CommandOK, GroupOK
<1>10. MakingOK([stack EXCEPT ![n] = g], Avps) /\ Len([stack EXCEPT ![n] = g]) = n
  BY <1>8, TopReplaced DEF n
<1>11. QED
  BY <1>2, <1>9, <1>10 DEF n, f

\* An AVP is made.
LEMMA AvpMade ==
  ASSUME NEW Avps, NEW stack, MakingOK(stack, Avps), NEW a \in Avps
  PROVE  MakingOK(Made(stack, a), Avps)
<1> DEFINE n == Len(stack)
           f == stack[n]
           g == [f EXCEPT !.made = Append(@, a)]
<1>1. PlaceOK(n, f, Avps) /\ FrameOK(f, Avps)
  BY TopFrame
<1>2. Made(stack, a) = [stack EXCEPT ![n] = g]
  BY DEF Made
<1> HIDE DEF n, f
<1> DEFINE list == f.made
<1>3. g = [avp_rep |-> f.avp_rep, rest |-> f.rest, made |-> Append(list, a)]
  <2> DEFINE t == Append(f.made, a)
  <2>1. g = [f EXCEPT !.made = t]
    OBVIOUS
  <2> HIDE DEF t, g
  <2>2. f = [avp_rep |-> f.avp_rep, rest |-> f.rest, made |-> f.made]
    BY <1>1, Zenon DEF FrameOK
  <2>3. g = [avp_rep |-> f.avp_rep, rest |-> f.rest, made |-> t]
    BY <2>1, <2>2
  <2>4. QED
    BY <2>3 DEF t
<1>4. list \in Seq(Avps)
  BY <1>1 DEF FrameOK
<1> HIDE DEF g
<1>5. Append(list, a) \in Seq(Avps)
  <2> HIDE DEF list
  <2>1. QED
    BY <1>4
<1>6. g.avp_rep = f.avp_rep /\ g.rest = f.rest /\ g.made = Append(list, a)
  BY <1>3
<1>7. FrameOK(g, Avps)
  BY <1>3, <1>5, <1>6, Zenon DEF FrameOK
<1>8. PlaceOK(n, g, Avps)
  BY <1>1, <1>6, <1>7, Zenon DEF PlaceOK, CommandOK, GroupOK
<1>9. MakingOK([stack EXCEPT ![n] = g], Avps)
  BY <1>8, TopReplaced DEF n
<1>10. QED
  BY <1>2, <1>9 DEF n
-----------------------------------------------------------------------------
(* Making a message, step by step *)

\* The dictionary as read_config leaves it, which answers every question.
LEMMA DictDone ==
  ASSUME DictInv, alive, pass = 3
  PROVE  /\ MapsOK(maps, avps)
         /\ \A name \in Name : AvpNamed(name) # NoAvp => IsRep(avps[AvpNamed(name)])
<1>1. MapsOK(maps, avps)
  BY DEF DictInv, DictRead
<1>2. SUFFICES ASSUME NEW name \in Name, AvpNamed(name) # NoAvp PROVE IsRep(avps[AvpNamed(name)])
  BY <1>1
<1>3. name # NULL /\ NULL \notin Int
  BY DictionaryAssumption
<1>4. hashmap_get(maps.avp_map, name) \in 1 .. Len(avps) \cup {NULL}
  BY <1>1 DEF MapsOK, NamesOK
<1> DEFINE k == AvpNamed(name)
<1>5. k \in 1 .. Len(avps)
  BY <1>2, <1>3, <1>4 DEF AvpNamed, NoAvp
<1>6. PICK R : avps \in Seq(R) /\ \A r \in R : IsRep(r)
  BY <1>1 DEF MapsOK, RepsOK
<1> HIDE DEF k
<1>7. avps[k] \in R
  BY <1>5, <1>6
<1>8. QED
  BY <1>6, <1>7 DEF k

\* A command that is found has a list of AVPs.
LEMMA CommandFound ==
  ASSUME MapsOK(maps, avps), NEW code, NEW r, CommandInfo(code, r) # NULL
  PROVE  Elements(CommandInfo(code, r).all_avp) \in Seq(Info)
<1> DEFINE name == IF code * 10 + r \in Number
                   THEN hashmapi_get(maps.cmd_map_name, code * 10 + r) ELSE NULL
<1>1. CommandsOK(maps)
  BY DEF MapsOK
<1>2. name \in Name \cup {NULL}
  BY <1>1 DEF CommandsOK
<1>3. CommandInfo(code, r) = IF name = NULL THEN NULL ELSE hashmap_get(maps.avp_in_msg, name)
  BY DEF CommandInfo
<1> HIDE DEF name
<1>4. name \in Name /\ CommandInfo(code, r) = hashmap_get(maps.avp_in_msg, name)
  BY <1>2, <1>3
<1>5. QED
  BY <1>1, <1>4 DEF CommandsOK

\* AVPs stay what they are as long as the types do.
LEMMA AvpsStay ==
  ASSUME NEW Avps, maps' = maps
  PROVE  AvpsOK(Avps) => AvpsOK(Avps)'
<1>1. TypeDef' = TypeDef
  BY DEF TypeDef
<1> DEFINE td == TypeDef
           new == TypeDef'
<1>2. new = td
  BY <1>1
<1>3. AvpsOK(Avps) = \A a \in Avps :
         /\ a = [avp_rep |-> a.avp_rep, value |-> a.value, child_avp |-> a.child_avp]
         /\ IsRep(a.avp_rep)
         /\ IsGrouped(a.avp_rep) => a.child_avp \in Seq(Avps)
         /\ ~IsGrouped(a.avp_rep) =>
              /\ td[a.avp_rep.type] \in StringTypes => a.value \in Strings
              /\ td[a.avp_rep.type] \in IntTypes => a.value \in Int
  BY Zenon DEF AvpsOK, AvpOK
<1>4. AvpsOK(Avps)' = \A a \in Avps :
         /\ a = [avp_rep |-> a.avp_rep, value |-> a.value, child_avp |-> a.child_avp]
         /\ IsRep(a.avp_rep)
         /\ IsGrouped(a.avp_rep) => a.child_avp \in Seq(Avps)
         /\ ~IsGrouped(a.avp_rep) =>
              /\ new[a.avp_rep.type] \in StringTypes => a.value \in Strings
              /\ new[a.avp_rep.type] \in IntTypes => a.value \in Int
  BY Zenon DEF AvpsOK, AvpOK
<1> HIDE DEF td, new
<1>5. QED
  BY <1>2, <1>3, <1>4

\* An AVP of the command, or of the group at the top, is made or begun.
LEMMA ChildMade ==
  ASSUME DictInv, alive, pass = 3, MessageOK(msg), NEW S, AvpsOK(S), NEW stack, MakingOK(stack, S),
         NEW name \in Name, gen_avp_child(stack, name)
  PROVE  /\ UNCHANGED <<packet, open, phase, msg>>
         /\ \/ alive' = FALSE
            \/ alive' = alive /\ \E T : AvpsOK(T) /\ MakingOK(making', T)
<1> DEFINE avp == AvpNamed(name)
           rep == avps[avp]
           parent == TypeDef[rep.type]
           val == manual_set_all_avp_value(rep, msg.command_code, msg.rFlag, TypeDef)
           isLost == \/ avp = NoAvp
                     \/ ~IsGrouped(rep) /\ (parent = NULL \/ (HasData(parent) /\ val = NULL))
           group == [avp_rep |-> rep, rest |-> Elements(rep.childrens), made |-> <<>>]
           leaf == [avp_rep |-> rep, value |-> val, child_avp |-> <<>>]
<1>1. /\ isLost => Dies
      /\ ~isLost => /\ making' = IF IsGrouped(rep) THEN Append(stack, group) ELSE Made(stack, leaf)
                    /\ UNCHANGED <<packVars, phase, msg, alive>>
  BY Zenon DEF gen_avp_child, create_new_avp_msg
<1> HIDE DEF avp, isLost, group, leaf
<1>2. CASE isLost
  BY <1>1, <1>2 DEF Dies, packVars
<1>3. CASE ~isLost
  <2>1. /\ making' = IF IsGrouped(rep) THEN Append(stack, group) ELSE Made(stack, leaf)
        /\ UNCHANGED <<packVars, phase, msg, alive>>
    BY <1>1, <1>3
  <2>2. avp # NoAvp /\ (~IsGrouped(rep) => parent # NULL /\ (HasData(parent) => val # NULL))
    BY <1>3 DEF isLost
  <2>3. MapsOK(maps, avps) /\ IsRep(rep)
    BY <2>2, DictDone DEF avp
  <2>4. ASSUME IsGrouped(rep) PROVE \E T : AvpsOK(T) /\ MakingOK(making', T)
    <3>1. rep.type = convert_typestr_int("Grouped")
      BY <2>4 DEF IsGrouped, DiaType
    <3>2. Elements(rep.childrens) \in Seq(Child)
      BY <2>3, <3>1 DEF IsRep, IsNode
    <3>3. GroupOK(group, S)
      BY <2>3, <2>4, <3>2 DEF GroupOK, FrameOK, group
    <3>4. MakingOK(Append(stack, group), S)
      BY <3>3, GroupPushed
    <3>5. making' = Append(stack, group)
      BY <2>1, <2>4
    <3>6. QED
      BY <3>4, <3>5
  <2>5. ASSUME ~IsGrouped(rep) PROVE \E T : AvpsOK(T) /\ MakingOK(making', T)
    <3> HIDE DEF rep, val, parent
    <3>1. HasData(parent) => val # NULL
      BY <2>2, <2>5
    <3>2. parent \in StringTypes \/ parent \in IntTypes => HasData(parent)
      BY DEF HasData, StringTypes, IntTypes, DiaType
    <3>3. /\ parent \in StringTypes => val \in Strings
          /\ parent \in IntTypes => val \in Int
      <4> SUFFICES ASSUME val # NULL
                   PROVE  /\ parent \in StringTypes => val \in Strings
                          /\ parent \in IntTypes => val \in Int
        BY <3>1, <3>2
      <4>1. msg.rFlag \in {0, 1}
        BY DEF MessageOK
      <4>2. /\ parent \in DiaType({"OctetString", "UTF8String"}) => val \in Strings
            /\ parent \in DiaType({"Integer32", "Unsigned32"})
                            \cup DiaType({"Integer64", "Unsigned64"}) => val \in Int
        BY <2>3, <4>1, ValueFits DEF val, parent
      <4>3. QED
        BY <4>2 DEF StringTypes, IntTypes
    <3>4. AvpOK(leaf, S)
      BY <2>3, <2>5, <3>3 DEF AvpOK, leaf, parent
    <3> DEFINE T == S \cup {leaf}
    <3>5. AvpsOK(T) /\ leaf \in T /\ S \subseteq T
      BY <3>4, OneMoreAvp
    <3> HIDE DEF T
    <3>6. MakingOK(stack, T)
      BY <3>5, MakingMore
    <3>7. MakingOK(Made(stack, leaf), T)
      BY <3>5, <3>6, AvpMade
    <3>8. making' = Made(stack, leaf)
      BY <2>1, <2>5
    <3>9. QED
      BY <3>5, <3>7, <3>8
  <2>6. \E T : AvpsOK(T) /\ MakingOK(making', T)
    BY <2>4, <2>5
  <2>7. QED
    BY <2>1, <2>6, Zenon DEF packVars
<1>4. QED
  BY <1>2, <1>3

\* generate_avp_msg begins with the list of its command.
LEMMA Generated ==
  ASSUME DictInv, alive, pass = 3, NEW m, generate_avp_msg(m)
  PROVE  /\ packet' = packet /\ open' = open
         /\ \/ alive' = FALSE /\ phase' = phase /\ msg' = msg
            \/ /\ alive' = alive /\ phase' = "make" /\ msg' = m
               /\ \E S : AvpsOK(S) /\ MakingOK(making', S)
<1> DEFINE info == CommandInfo(m.command_code, m.rFlag)
           bottom == [avp_rep |-> NULL, rest |-> Elements(info.all_avp), made |-> <<>>]
<1>1. /\ info = NULL => Dies
      /\ info # NULL => /\ msg' = m /\ making' = <<bottom>> /\ phase' = "make"
                        /\ UNCHANGED <<packVars, alive>>
  BY Zenon DEF generate_avp_msg
<1>2. CASE info = NULL
  BY <1>1, <1>2 DEF Dies, packVars
<1>3. CASE info # NULL
  <2>1. Elements(info.all_avp) \in Seq(Info)
    BY <1>3, DictDone, CommandFound
  <2> HIDE DEF info
  <2>2. CommandOK(bottom, {})
    BY <2>1 DEF CommandOK, FrameOK
  <2> HIDE DEF bottom
  <2>3. MakingOK(<<bottom>>, {})
    <3>1. <<bottom>> \in Seq({bottom}) /\ Len(<<bottom>>) = 1 /\ <<bottom>> # <<>>
          /\ \A i \in 1 .. 1 : i = 1 /\ <<bottom>>[i] = bottom
      OBVIOUS
    <3>2. QED
      BY <2>2, <3>1 DEF MakingOK, PlaceOK
  <2>4. AvpsOK({})
    BY DEF AvpsOK
  <2>5. \E S : AvpsOK(S) /\ MakingOK(<<bottom>>, S)
    BY <2>3, <2>4
  <2>6. /\ msg' = m /\ making' = <<bottom>> /\ phase' = "make" /\ UNCHANGED <<packVars, alive>>
    BY <1>1, <1>3
  <2>7. QED
    BY <2>5, <2>6, Zenon DEF packVars
<1>4. QED
  BY <1>2, <1>3

\* A round of the loop.
LEMMA RoundMade ==
  ASSUME DictInv, alive, pass = 3, MessageOK(msg), NEW S, AvpsOK(S), MakingOK(making, S), MakeAvp
  PROVE  /\ UNCHANGED <<packet, open, phase, msg>>
         /\ \/ alive' = FALSE
            \/ alive' = alive /\ \E T : AvpsOK(T) /\ MakingOK(making', T)
<1> DEFINE next == Head(Filling.rest)
           stack == [making EXCEPT ![Len(making)].rest = Tail(@)]
<1>1. /\ Filling.rest # <<>>
      /\ Len(making) > 1 => gen_avp_child(stack, next.avp_name)
      /\ ~(Len(making) > 1) =>
           \/ gen_avp_child(stack, next.name)
           \/ making' = stack /\ UNCHANGED <<packVars, phase, msg, alive>>
  BY Zenon DEF MakeAvp
<1>2. /\ MakingOK(stack, S) /\ Len(making) \in Nat /\ Len(making) >= 1
      /\ Len(making) > 1 => next \in Child
      /\ Len(making) = 1 => next \in Info
  BY <1>1, RestTaken, TopFrame DEF Filling
<1> HIDE DEF next, stack
<1>3. CASE Len(making) > 1
  <2>1. next.avp_name \in Name
    BY <1>2, <1>3 DEF Child
  <2>2. gen_avp_child(stack, next.avp_name)
    BY <1>1, <1>3
  <2>3. QED
    BY <1>2, <2>1, <2>2, ChildMade
<1>4. CASE ~(Len(making) > 1)
  <2>1. next.name \in Name
    <3>1. Len(making) = 1
      <4> DEFINE l == Len(making)
      <4>1. l \in Nat /\ l >= 1 /\ ~(l > 1)
        BY <1>2, <1>4
      <4> HIDE DEF l
      <4>2. l = 1
        BY <4>1
      <4>3. QED
        BY <4>2 DEF l
    <3>2. next \in Info
      BY <1>2, <3>1
    <3>3. QED
      BY <3>2 DEF Info
  <2>2. CASE gen_avp_child(stack, next.name)
    BY <1>2, <2>1, <2>2, ChildMade
  <2>3. CASE making' = stack /\ UNCHANGED <<packVars, phase, msg, alive>>
    <3>1. MakingOK(making', S)
      BY <1>2, <2>3
    <3>2. QED
      BY <2>3, <3>1, Zenon DEF packVars
  <2>4. QED
    BY <1>1, <1>4, <2>2, <2>3
<1>5. QED
  BY <1>3, <1>4

\* A group is finished.
LEMMA GroupMade ==
  ASSUME NEW S, AvpsOK(S), MakingOK(making, S), MadeGroup
  PROVE  /\ UNCHANGED <<packet, open, phase, msg, alive>>
         /\ \E T : AvpsOK(T) /\ MakingOK(making', T)
<1> DEFINE a == create_new_avp_msg(Filling.avp_rep, NULL, Filling.made)
           T == S \cup {a}
<1>1. /\ Len(making) > 1 /\ making' = Made(Outside, a)
      /\ UNCHANGED <<packet, open, phase, msg, alive>>
  BY DEF MadeGroup, packVars
<1>2. GroupOK(Filling, S)
  <2>1. PlaceOK(Len(making), Filling, S) /\ Len(making) # 1
    BY <1>1, TopFrame DEF Filling
  <2>2. QED
    BY <2>1 DEF PlaceOK
<1>3. a = [avp_rep |-> Filling.avp_rep, value |-> NULL, child_avp |-> Filling.made]
  BY DEF create_new_avp_msg
<1> HIDE DEF a
<1>4. AvpOK(a, S)
  <2>1. a.avp_rep = Filling.avp_rep /\ a.child_avp = Filling.made
        /\ a = [avp_rep |-> a.avp_rep, value |-> a.value, child_avp |-> a.child_avp]
    BY <1>3
  <2>2. QED
    BY <1>2, <2>1, Zenon DEF AvpOK, GroupOK, FrameOK
<1>5. AvpsOK(T) /\ a \in T /\ S \subseteq T
  BY <1>4, OneMoreAvp
<1> HIDE DEF T
<1>6. MakingOK(Outside, S)
  BY <1>1, GroupPopped DEF Outside
<1>7. MakingOK(Made(Outside, a), T)
  BY <1>5, <1>6, MakingMore, AvpMade
<1>8. QED
  BY <1>1, <1>5, <1>7

\* The message is finished, and its header packed.
LEMMA MessageMade ==
  ASSUME MapsOK(maps, avps), MessageOK(msg), result \in Int, NEW S, AvpsOK(S), MakingOK(making, S),
         MadeMessage
  PROVE  /\ phase' = "pack" /\ alive' = alive /\ MessageOK(msg') /\ open' # <<>>
         /\ \E T : AvpsOK(T) /\ ShapeInv(T, msg)'
<1> DEFINE filled == [msg EXCEPT !.all_avp_msg = Filling.made]
           final == IF result = NoResult THEN filled ELSE set_avp_message(filled, result, 268)
<1>1. Packing(final)
  BY Zenon DEF MadeMessage
<1>2. MessageOK(filled) /\ filled.all_avp_msg \in Seq(S)
  <2>1. Filling.made \in Seq(S)
    BY TopFrame DEF Filling, FrameOK
  <2>2. MessageOK(filled) /\ filled.all_avp_msg = Filling.made
    BY FilledIn
  <2>3. QED
    BY <2>1, <2>2
<1> HIDE DEF filled
<1>3. MessageOK(final) /\ \E T : AvpsOK(T) /\ final.all_avp_msg \in Seq(T)
  <2>1. CASE result = NoResult
    BY <1>2, <2>1
  <2>2. CASE result # NoResult
    <3>1. LET x == set_avp_message(filled, result, 268)
          IN  MessageOK(x) /\ \E T : AvpsOK(T) /\ x.all_avp_msg \in Seq(T)
      BY <1>2, ResultFilledIn
    <3>2. QED
      BY <2>2, <3>1
  <2>3. QED
    BY <2>1, <2>2
<1> HIDE DEF final
<1>4. PICK m : m = final
  OBVIOUS
<1>5. PICK T : AvpsOK(T) /\ m.all_avp_msg \in Seq(T)
  BY <1>3, <1>4
<1>6. Packing(m) /\ MessageOK(m)
  BY <1>1, <1>3, <1>4
<1>7. StartMessage(m) /\ msg' = m /\ phase' = "pack" /\ alive' = alive
  BY <1>6 DEF Packing
<1>8. HeaderFits(m)
  BY <1>6 DEF MessageOK
<1>9. ShapeInv(T, m)'
  BY <1>5, <1>7, <1>8, ShapeStart
<1>10. ShapeInv(T, msg)'
  BY <1>7, <1>9 DEF ShapeInv
<1>11. open' # <<>>
  BY <1>7 DEF StartMessage
<1>12. QED
  BY <1>5, <1>6, <1>7, <1>10, <1>11
-----------------------------------------------------------------------------
(* Reading a header *)

\* What a read leaves in the buffer for a header.
LEMMA HeaderBuffer ==
  ASSUME Shape(packet), NEW n \in Nat, n <= MESSAGE_HEADER_LEN, n <= Len(packet.data)
  PROVE  \E d : /\ Buffer(SubSeq(packet.data, 1, n), MESSAGE_HEADER_LEN) = At(d, 0)
                /\ \A i \in 1 .. MESSAGE_HEADER_LEN : d[i] \in ByteValue
                /\ n = MESSAGE_HEADER_LEN => \A i \in 1 .. n : d[i] = packet.data[i]
<1> DEFINE bytes == SubSeq(packet.data, 1, n)
           d == bytes \o Zeros(MESSAGE_HEADER_LEN - Len(bytes))
<1>1. packet.data \in Seq(ByteValue)
  BY DEF Shape
<1>2. /\ bytes \in Seq(ByteValue) /\ Len(bytes) = n /\ \A i \in 1 .. n : bytes[i] = packet.data[i]
  <2> DEFINE list == packet.data
  <2>1. list \in Seq(ByteValue) /\ n <= Len(list)
    BY <1>1
  <2> HIDE DEF list
  <2>2. SubSeq(list, 1, n) \in Seq(ByteValue) /\ Len(SubSeq(list, 1, n)) = n
        /\ \A i \in 1 .. n : SubSeq(list, 1, n)[i] = list[i]
    BY <2>1
  <2>3. QED
    BY <2>2 DEF list
<1> HIDE DEF bytes
<1>3. \A k \in Nat : Zeros(k) \in Seq(ByteValue) /\ Len(Zeros(k)) = k
  BY DEF Zeros, ByteValue
<1> DEFINE zeros == Zeros(20 - n)
<1>4. 20 - n \in Nat /\ MESSAGE_HEADER_LEN = 20
  BY DEF MESSAGE_HEADER_LEN
<1>5. zeros \in Seq(ByteValue) /\ Len(zeros) = 20 - n /\ d = bytes \o zeros
  BY <1>2, <1>3, <1>4
<1> HIDE DEF zeros, d
<1>6. d \in Seq(ByteValue) /\ Len(d) = 20 /\ \A i \in 1 .. n : d[i] = bytes[i]
  BY <1>2, <1>4, <1>5
<1>7. Buffer(bytes, MESSAGE_HEADER_LEN) = At(d, 0)
  BY DEF Buffer, At, d
<1>8. \A i \in 1 .. MESSAGE_HEADER_LEN : d[i] \in ByteValue
  <2>1. \A i \in 1 .. 20 : d[i] \in ByteValue
    <3>1. d \in Seq(ByteValue) /\ Len(d) = 20
      BY <1>6
    <3>2. \A i \in 1 .. Len(d) : d[i] \in ByteValue
      BY <3>1, ElementOfSeq
    <3>3. QED
      BY <3>1, <3>2
  <2>2. QED
    BY <1>4, <2>1
<1>9. n = MESSAGE_HEADER_LEN => \A i \in 1 .. n : d[i] = packet.data[i]
  BY <1>2, <1>6
<1>10. Buffer(SubSeq(packet.data, 1, n), MESSAGE_HEADER_LEN) = At(d, 0)
  BY <1>7 DEF bytes
<1>11. QED
  BY <1>8, <1>9, <1>10, Zenon

\* Whatever is read as a header, the code in it has three bytes.
LEMMA CodeRead ==
  ASSUME NEW d, \A i \in 1 .. MESSAGE_HEADER_LEN : d[i] \in ByteValue
  PROVE  unpack_message_header(At(d, 0)).command_code \in Int24
<1>1. MESSAGE_HEADER_LEN = 20
  BY DEF MESSAGE_HEADER_LEN
<1>2. After(After(After(At(d, 0), 1), 3), 1) = At(d, 5)
  <2>1. After(At(d, 0), 1) = At(d, 1) /\ After(At(d, 1), 3) = At(d, 4) /\ After(At(d, 4), 1) = At(d, 5)
    BY <1>1, ReadBack
  <2>2. QED
    BY <2>1
<1>3. unpack_message_header(At(d, 0)).command_code = read_flex_int(At(d, 5))
  BY <1>2 DEF unpack_message_header
<1>4. read_flex_int(At(d, 5)) = (d[6] * 65536) + (d[7] * 256) + d[8]
  BY SMT, <1>1 DEF read_flex_int, InPacket, Data, At
<1>5. d[6] \in ByteValue /\ d[7] \in ByteValue /\ d[8] \in ByteValue
  BY <1>1
<1>6. (d[6] * 65536) + (d[7] * 256) + d[8] \in Int24
  <2>1. \A a \in ByteValue : \A b \in ByteValue : \A c \in ByteValue :
          (a * 65536) + (b * 256) + c \in Int24
    BY SMT DEF ByteValue, Int24
  <2>2. QED
    BY <1>5, <2>1
<1>7. QED
  BY <1>3, <1>4, <1>6
-----------------------------------------------------------------------------
(* The inductive invariant of the whole: the dictionary's, and three more *)

\* The phase: nothing but the dictionary is at work before it is read.
PhaseInv ==
  /\ accepted \in BOOLEAN /\ whole \in BOOLEAN /\ exchanges \in 0 .. MAX_EXCHANGES
  /\ result \in {NoResult, 2001, 3001}
  /\ phase \in {"load", "idle", "make", "pack", "sent", "read", "unpack", "answer", "received",
                "closed"}
  /\ phase # "load" => pass = 3
  /\ phase = "idle" /\ exchanges = 0 => alive
  /\ phase \notin {"load", "idle"} => exchanges # 0 /\ MessageOK(msg)

\* What is being made or packed, and what is sent.
SenderInv ==
  /\ Room(packet) /\ Shape(packet)
  /\ phase # "pack" => open = <<>>
  /\ phase = "make" /\ alive => \E S : AvpsOK(S) /\ MakingOK(making, S)
  /\ phase = "pack" => open # <<>> /\ \E S : AvpsOK(S) /\ ShapeInv(S, msg)
  /\ phase = "sent" =>
       /\ HasHeader(packet.data, msg) /\ packet.position >= 20
       /\ \A i \in 1 .. 3 : packet.data[1 + i] = BigEndian3(packet.position)[i]

\* What is received.
ReceiverInv ==
  /\ phase \in {"read", "unpack", "answer", "received"} =>
       "command_code" \in DOMAIN rev /\ rev.command_code \in Int24
  /\ Len(packet.data) < LengthLimit => HeaderArrives

Inv == DictInv /\ PhaseInv /\ SenderInv /\ ReceiverInv

\* The sender's side stays while others work.
LEMMA SenderKept ==
  ASSUME SenderInv, phase # "pack", UNCHANGED <<packet, open>>,
         phase' \notin {"make", "pack", "sent"}
  PROVE  SenderInv'
<1>1. /\ Room(packet) /\ Shape(packet) /\ open = <<>>
      /\ packet' = packet /\ open' = open
  BY DEF SenderInv
<1>2. Room(packet)' /\ Shape(packet)' /\ open' = <<>>
  BY <1>1, Zenon DEF Room, Shape
<1>3. phase' # "make" /\ phase' # "pack" /\ phase' # "sent"
  OBVIOUS
<1>4. QED
  BY <1>2, <1>3, Zenon DEF SenderInv

\* So does the receiver's.
LEMMA ReceiverKept ==
  ASSUME ReceiverInv, rev' = rev,
         phase \in {"read", "unpack", "answer", "received"} \/ phase' \notin {"read", "unpack", "answer", "received"},
         phase' # "read"
  PROVE  ReceiverInv'
<1>1. HeaderArrives'
  BY DEF HeaderArrives
<1>2. phase' \in {"read", "unpack", "answer", "received"} =>
        "command_code" \in DOMAIN rev' /\ rev'.command_code \in Int24
  BY DEF ReceiverInv
<1>3. QED
  BY <1>1, <1>2 DEF ReceiverInv

\* In the beginning.
LEMMA InitInv == Init => Inv
<1> SUFFICES ASSUME Init PROVE Inv
  OBVIOUS
<1>1. DictInit /\ phase = "load"
  BY DEF Init
<1>2. DictInv
  BY <1>1, DictInitInv
<1>3. PhaseInv
  <2>1. exchanges \in 0 .. MAX_EXCHANGES
    BY PacketAssumption DEF Init
  <2>2. accepted \in BOOLEAN /\ whole \in BOOLEAN /\ result \in {NoResult, 2001, 3001}
    BY DEF Init
  <2>3. QED
    BY <1>1, <2>1, <2>2 DEF PhaseInv
<1>4. SenderInv
  <2>1. packet = [data |-> <<>>, max_size |-> 20, position |-> 0, overrun |-> FALSE]
        /\ open = <<>>
    BY DEF Init, create_new_msg_packet, MESSAGE_HEADER_LEN
  <2>2. Room(packet)
    BY <2>1 DEF Room, MESSAGE_HEADER_LEN
  <2>3. Shape(packet)
    BY <2>1 DEF Shape
  <2>4. QED
    BY <1>1, <2>1, <2>2, <2>3 DEF SenderInv
<1>5. ReceiverInv
  BY <1>1 DEF ReceiverInv, HeaderArrives
<1>6. QED
  BY <1>2, <1>3, <1>4, <1>5 DEF Inv

\* read_config goes on, or is done.
LEMMA LoadStep ==
  ASSUME Inv, Load
  PROVE  Inv'
<1>1. /\ alive /\ phase = "load"
      /\ \/ Loaded /\ phase' = "idle" /\ UNCHANGED dictVars
         \/ read_config /\ phase' = phase
      /\ UNCHANGED <<packVars, recVars, msg, making, result, accepted, exchanges, whole>>
  BY Zenon DEF Load, In
<1>2. DictInv'
  <2>1. DictInv
    BY DEF Inv
  <2>2. read_config \/ UNCHANGED dictVars
    BY <1>1
  <2>3. QED
    BY <2>1, <2>2, DictStays
<1>3. PhaseInv'
  <2>1. PhaseInv /\ UNCHANGED <<msg, result, accepted, exchanges, whole>>
    BY <1>1 DEF Inv
  <2>2. CASE phase' = phase
    BY <1>1, <2>1, <2>2 DEF PhaseInv
  <2>3. CASE Loaded /\ phase' = "idle" /\ UNCHANGED dictVars
    <3>1. pass' = 3 /\ alive' = TRUE
      <4>1. pass = 3 /\ pass' = pass /\ alive' = alive
        BY <2>3 DEF Loaded, dictVars
      <4>2. alive \in BOOLEAN
        BY DEF Inv, DictInv, DictPlace
      <4>3. QED
        BY <1>1, <4>1, <4>2
    <3>2. QED
      BY <2>1, <2>3, <3>1 DEF PhaseInv
  <2>4. QED
    BY <1>1, <2>2, <2>3
<1>4. SenderInv'
  <2>1. SenderInv /\ packet' = packet /\ open' = open
    BY <1>1 DEF Inv, packVars
  <2>2. phase # "pack" /\ phase' \notin {"make", "pack", "sent"}
    BY <1>1
  <2>3. QED
    BY <2>1, <2>2, SenderKept
<1>5. ReceiverInv'
  <2>1. ReceiverInv /\ rev' = rev
    BY <1>1 DEF Inv, recVars
  <2>2. phase' \notin {"read", "unpack", "answer", "received"} /\ phase' # "read"
    BY <1>1
  <2>3. QED
    BY <2>1, <2>2, ReceiverKept
<1>6. QED
  BY <1>2, <1>3, <1>4, <1>5 DEF Inv

\* A message is begun, or its sender gone.
LEMMA SenderBegins ==
  ASSUME SenderInv, phase # "pack", maps' = maps, packet' = packet, open' = open,
         \/ alive' = FALSE /\ phase' = phase /\ phase \notin {"make", "sent"}
         \/ phase' = "make" /\ \E S : AvpsOK(S) /\ MakingOK(making', S)
  PROVE  SenderInv'
<1>1. CASE alive' = FALSE /\ phase' = phase /\ phase \notin {"make", "sent"}
  BY <1>1, SenderKept
<1>2. CASE phase' = "make" /\ \E S : AvpsOK(S) /\ MakingOK(making', S)
  <2>1. PICK S : AvpsOK(S) /\ MakingOK(making', S)
    BY <1>2
  <2>2. AvpsOK(S)'
    BY <2>1, AvpsStay
  <2>3. Room(packet)' /\ Shape(packet)' /\ open' = <<>>
    BY Zenon DEF SenderInv, Room, Shape
  <2>4. phase' = "make"
    BY <1>2
  <2>5. \E T : AvpsOK(T)' /\ MakingOK(making, T)'
    BY <2>1, <2>2
  <2>6. phase' # "pack" /\ phase' # "sent"
    BY <2>4
  <2>7. QED
    BY <2>3, <2>5, <2>6, Zenon DEF SenderInv
<1>3. QED
  BY <1>1, <1>2

\* A request is begun.
LEMMA process_writeStep ==
  ASSUME Inv, NEW code \in {CAPABILITIES_EXCHANGE, CREDIT_CONTROL, DEVICE_WATCHDOG},
         process_write(code)
  PROVE  Inv'
<1> DEFINE request == create_new_send_msg(1, code, 1, 0, 0, 0)
<1>1. /\ alive /\ phase = "idle" /\ exchanges < MAX_EXCHANGES
      /\ exchanges' = exchanges + 1 /\ result' = NoResult /\ generate_avp_msg(request)
      /\ UNCHANGED <<doc, pass, at, cmd, maps, avps, junk>>
      /\ UNCHANGED recVars /\ UNCHANGED <<accepted, whole>>
  BY DEF process_write, In
<1>2. DictInv /\ PhaseInv /\ SenderInv /\ ReceiverInv
  BY DEF Inv
<1>3. pass = 3
  BY <1>1, <1>2 DEF PhaseInv
<1>4. MessageOK(request)
  <2>1. code \in Int24
    BY DEF CAPABILITIES_EXCHANGE, CREDIT_CONTROL, DEVICE_WATCHDOG, Int24
  <2>2. QED
    BY <2>1, NewMessage
<1> HIDE DEF request
<1>5. /\ packet' = packet /\ open' = open
      /\ \/ alive' = FALSE /\ phase' = phase /\ msg' = msg
         \/ /\ alive' = alive /\ phase' = "make" /\ msg' = request
            /\ \E S : AvpsOK(S) /\ MakingOK(making', S)
  <2>1. PICK m : m = request
    OBVIOUS
  <2>2. generate_avp_msg(m)
    BY <1>1, <2>1
  <2>3. QED
    BY <1>1, <1>2, <1>3, <2>1, <2>2, Generated
<1>6. DictInv'
  <2>1. alive' \in BOOLEAN /\ (alive' => alive)
    BY <1>1, <1>5
  <2>2. QED
    BY <1>1, <1>2, <2>1, DictKept
<1>7. PhaseInv'
  <2>1. exchanges' \in 0 .. MAX_EXCHANGES /\ exchanges' # 0
    <3>1. exchanges \in 0 .. MAX_EXCHANGES /\ MAX_EXCHANGES \in Nat
      BY <1>2, PacketAssumption DEF PhaseInv
    <3>2. QED
      BY <1>1, <3>1
  <2>2. accepted' \in BOOLEAN /\ whole' \in BOOLEAN /\ result' = NoResult /\ pass' = 3
    BY <1>1, <1>2, <1>3 DEF PhaseInv
  <2>3. phase' \in {"idle", "make"} /\ (phase' # "idle" => MessageOK(msg'))
    BY <1>1, <1>4, <1>5
  <2>4. QED
    BY <2>1, <2>2, <2>3 DEF PhaseInv
<1>8. SenderInv'
  BY <1>1, <1>2, <1>5, SenderBegins
<1>9. ReceiverInv'
  <2>1. rev' = rev /\ phase' \notin {"read", "unpack", "answer", "received"} /\ phase' # "read"
    BY <1>1, <1>5 DEF recVars
  <2>2. QED
    BY <1>2, <2>1, ReceiverKept
<1>10. QED
  BY <1>6, <1>7, <1>8, <1>9 DEF Inv

\* A message goes on being made, or is finished.
LEMMA MakeStep ==
  ASSUME Inv, Make
  PROVE  Inv'
<1>1. /\ alive /\ phase = "make"
      /\ MakeAvp \/ MadeGroup \/ MadeMessage
      /\ UNCHANGED <<doc, pass, at, cmd, maps, avps, junk>> /\ maps' = maps
      /\ UNCHANGED recVars /\ UNCHANGED <<result, accepted, exchanges, whole>>
  BY DEF Make, In
<1>2. DictInv /\ PhaseInv /\ SenderInv /\ ReceiverInv
  BY DEF Inv
<1>3. pass = 3 /\ MessageOK(msg)
  BY <1>1, <1>2 DEF PhaseInv
<1>4. PICK S : AvpsOK(S) /\ MakingOK(making, S)
  BY <1>1, <1>2, Zenon DEF SenderInv
<1>5. \/ /\ packet' = packet /\ open' = open /\ phase' = phase /\ msg' = msg
         /\ \/ alive' = FALSE
            \/ alive' = alive /\ \E T : AvpsOK(T) /\ MakingOK(making', T)
      \/ /\ phase' = "pack" /\ alive' = alive /\ MessageOK(msg') /\ open' # <<>>
         /\ \E T : AvpsOK(T) /\ ShapeInv(T, msg)'
  <2>1. CASE MakeAvp
    BY <1>1, <1>2, <1>3, <1>4, <2>1, RoundMade
  <2>2. CASE MadeGroup
    BY <1>4, <2>2, GroupMade
  <2>3. CASE MadeMessage
    <3>1. result \in Int
      BY <1>2 DEF PhaseInv, NoResult
    <3>2. MapsOK(maps, avps)
      BY <1>1, <1>2, <1>3, DictDone
    <3>3. QED
      BY <1>3, <1>4, <2>3, <3>1, <3>2, MessageMade
  <2>4. QED
    BY <1>1, <2>1, <2>2, <2>3
<1>6. DictInv'
  <2>1. alive' \in BOOLEAN /\ (alive' => alive)
    BY <1>1, <1>5
  <2>2. QED
    BY <1>1, <1>2, <2>1, DictKept
<1>7. PhaseInv'
  <2>1. phase' \in {"make", "pack"} /\ MessageOK(msg')
    BY <1>1, <1>3, <1>5
  <2>2. /\ accepted' \in BOOLEAN /\ whole' \in BOOLEAN /\ exchanges' \in 0 .. MAX_EXCHANGES
        /\ exchanges' # 0 /\ result' \in {NoResult, 2001, 3001} /\ pass' = 3
    BY <1>1, <1>2, <1>3 DEF PhaseInv
  <2>3. QED
    BY <2>1, <2>2 DEF PhaseInv
<1>8. SenderInv'
  <2>1. CASE /\ packet' = packet /\ open' = open /\ phase' = phase /\ msg' = msg
             /\ \/ alive' = FALSE
                \/ alive' = alive /\ \E T : AvpsOK(T) /\ MakingOK(making', T)
    <3>1. Room(packet)' /\ Shape(packet)' /\ open' = <<>>
      BY <1>1, <1>2, <2>1, Zenon DEF SenderInv, Room, Shape
    <3>2. ASSUME alive' PROVE \E T : AvpsOK(T)' /\ MakingOK(making, T)'
      <4>1. PICK T : AvpsOK(T) /\ MakingOK(making', T)
        BY <2>1, <3>2
      <4>2. AvpsOK(T)'
        BY <1>1, <4>1, AvpsStay
      <4>3. QED
        BY <4>1, <4>2
    <3>3. phase' # "pack" /\ phase' # "sent"
      BY <1>1, <2>1
    <3>4. QED
      BY <3>1, <3>2, <3>3, Zenon DEF SenderInv
  <2>2. CASE /\ phase' = "pack" /\ alive' = alive /\ MessageOK(msg') /\ open' # <<>>
             /\ \E T : AvpsOK(T) /\ ShapeInv(T, msg)'
    <3>1. PICK T : AvpsOK(T) /\ ShapeInv(T, msg)'
      BY <2>2
    <3>2. AvpsOK(T)'
      BY <1>1, <3>1, AvpsStay
    <3>3. Room(packet)' /\ Shape(packet)'
      BY <3>1 DEF ShapeInv, PackInv
    <3>4. phase' # "make" /\ phase' # "sent" /\ open' # <<>>
      BY <2>2
    <3>5. \E U : AvpsOK(U)' /\ ShapeInv(U, msg)'
      BY <3>1, <3>2
    <3>6. phase' = "pack"
      BY <2>2
    <3>7. QED
      BY <3>3, <3>4, <3>5, <3>6, Zenon DEF SenderInv
  <2>3. QED
    BY <1>5, <2>1, <2>2
<1>9. ReceiverInv'
  <2>1. rev' = rev /\ phase' \notin {"read", "unpack", "answer", "received"} /\ phase' # "read"
    BY <1>1, <1>5 DEF recVars
  <2>2. QED
    BY <1>2, <2>1, ReceiverKept
<1>10. QED
  BY <1>6, <1>7, <1>8, <1>9 DEF Inv

\* A message goes on being packed, or is sent.
LEMMA PackStep ==
  ASSUME Inv, Pack
  PROVE  Inv'
<1>1. /\ alive /\ phase = "pack" /\ create_send_data(TypeDef)
      /\ phase' = IF open' = <<>> THEN "sent" ELSE "pack"
      /\ UNCHANGED dictVars /\ UNCHANGED recVars
      /\ UNCHANGED <<msg, making, result, accepted, exchanges, whole>>
  BY DEF Pack, In
<1>2. DictInv /\ PhaseInv /\ SenderInv /\ ReceiverInv
  BY DEF Inv
<1>3. DictInv'
  BY <1>1, <1>2, DictStays
<1>4. PhaseInv'
  <2>1. phase' \in {"sent", "pack"} /\ pass' = pass
    BY <1>1 DEF dictVars
  <2>2. QED
    BY <1>1, <1>2, <2>1 DEF PhaseInv
<1>5. SenderInv'
  <2>1. PICK S : AvpsOK(S) /\ ShapeInv(S, msg)
    BY <1>1, <1>2 DEF SenderInv
  <2>2. PICK m : m = msg
    OBVIOUS
  <2>3. PICK td : td = TypeDef
    OBVIOUS
  <2>4. Packable(S, td) /\ Encodable(S, td) /\ ShapeInv(S, m) /\ create_send_data(td)
    BY <1>1, <2>1, <2>2, <2>3, CanBePacked
  <2>5. ShapeInv(S, m)'
    BY <2>4, ShapeStep
  <2>6. m = msg'
    BY <1>1, <2>2
  <2>7. ShapeInv(S, msg)'
    BY <2>5, <2>6, Zenon DEF ShapeInv
  <2>8. AvpsOK(S)'
    <3>1. maps' = maps
      BY <1>1 DEF dictVars
    <3>2. QED
      BY <2>1, <3>1, AvpsStay
  <2>9. Room(packet)' /\ Shape(packet)'
    BY <2>7 DEF ShapeInv, PackInv
  <2>10. CASE open' = <<>>
    <3>1. packet'.position >= 20 /\ packet'.position > 0
      <4>1. packet'.position >= 20 /\ packet'.position \in Nat
        BY <2>4, <2>9, ShapeStep DEF Shape
      <4>2. QED
        BY <4>1
    <3>2. /\ HasHeader(packet.data, msg)'
          /\ \A i \in 1 .. 3 : packet'.data[1 + i] = BigEndian3(packet'.position)[i]
      BY <2>7, <2>10, <3>1 DEF ShapeInv
    <3>3. phase' = "sent" /\ phase' # "make" /\ phase' # "pack"
      BY <1>1, <2>10
    <3>4. QED
      BY <2>9, <2>10, <3>1, <3>2, <3>3 DEF SenderInv
  <2>11. CASE open' # <<>>
    <3>1. phase' = "pack" /\ phase' # "make" /\ phase' # "sent"
      BY <1>1, <2>11
    <3>2. QED
      BY <2>7, <2>8, <2>9, <2>11, <3>1, Zenon DEF SenderInv
  <2>12. QED
    BY <2>10, <2>11
<1>6. ReceiverInv'
  <2>1. rev' = rev /\ phase' \notin {"read", "unpack", "answer", "received"} /\ phase' # "read"
    BY <1>1 DEF recVars
  <2>2. QED
    BY <1>2, <2>1, ReceiverKept
<1>7. QED
  BY <1>3, <1>4, <1>5, <1>6 DEF Inv

\* What a header has been read into, once it has the rest of the message.
LEMMA HeaderFields ==
  ASSUME NEW p, NEW g
  PROVE  LET h == unpack_message_header(p)
             r == [h EXCEPT !.packet = g]
         IN  /\ "command_code" \in DOMAIN r /\ r.command_code = h.command_code
             /\ r.version = h.version /\ r.flags = h.flags /\ r.app_id = h.app_id
             /\ r.hop_hop_id = h.hop_hop_id /\ r.end_end_id = h.end_end_id
             /\ r.data_len = h.data_len
<1> DEFINE h == unpack_message_header(p)
           r == [h EXCEPT !.packet = g]
<1>1. DOMAIN h = {"version", "length", "flags", "command_code", "app_id", "hop_hop_id",
                  "end_end_id", "data_len", "packet", "all_avp_msg"}
  BY DEF unpack_message_header
<1> HIDE DEF h
<1>2. \A x \in DOMAIN h : x # "packet" => x \in DOMAIN r /\ r[x] = h[x]
  OBVIOUS
<1> HIDE DEF r
<1>3. QED
  BY <1>1, <1>2 DEF h, r

\* What process_read finds in a header: a code of three bytes, and if it was read
\* whole, the header of the message.
LEMMA HeaderTaken ==
  ASSUME PhaseInv, SenderInv, phase = "sent", NEW n \in Nat, n <= MESSAGE_HEADER_LEN
  PROVE  LET h == unpack_message_header(Buffer(SubSeq(packet.data, 1, n), MESSAGE_HEADER_LEN))
         IN  /\ h.command_code \in Int24
             /\ n = MESSAGE_HEADER_LEN /\ Len(packet.data) < LengthLimit =>
                  /\ h.version = msg.version /\ h.command_code = msg.command_code
                  /\ h.flags = unpack_message_flag(msg.flag) /\ h.app_id = msg.app_id
                  /\ h.hop_hop_id = msg.hop_hop_id /\ h.end_end_id = msg.end_end_id
                  /\ h.data_len = Len(packet.data) - MESSAGE_HEADER_LEN
<1>1. /\ Shape(packet) /\ HasHeader(packet.data, msg) /\ packet.position >= 20
      /\ \A i \in 1 .. 3 : packet.data[1 + i] = BigEndian3(packet.position)[i]
  BY DEF SenderInv
<1>2. HeaderFits(msg)
  BY DEF PhaseInv, MessageOK
<1>3. packet.position = Len(packet.data) /\ packet.position \in Nat
  BY <1>1 DEF Shape
<1>4. n <= Len(packet.data)
  BY <1>1, <1>3 DEF MESSAGE_HEADER_LEN
<1>5. PICK d : /\ Buffer(SubSeq(packet.data, 1, n), MESSAGE_HEADER_LEN) = At(d, 0)
               /\ \A i \in 1 .. MESSAGE_HEADER_LEN : d[i] \in ByteValue
               /\ n = MESSAGE_HEADER_LEN => \A i \in 1 .. n : d[i] = packet.data[i]
  BY <1>1, <1>4, HeaderBuffer
<1> DEFINE h == unpack_message_header(At(d, 0))
<1>6. h.command_code \in Int24
  BY <1>5, CodeRead
<1>7. ASSUME n = MESSAGE_HEADER_LEN, Len(packet.data) < LengthLimit
      PROVE  /\ h.version = msg.version /\ h.command_code = msg.command_code
             /\ h.flags = unpack_message_flag(msg.flag) /\ h.app_id = msg.app_id
             /\ h.hop_hop_id = msg.hop_hop_id /\ h.end_end_id = msg.end_end_id
             /\ h.data_len = Len(packet.data) - MESSAGE_HEADER_LEN
  <2> DEFINE e == packet.data
             k == packet.position
  <2>1. \A i \in 1 .. 20 : d[i] = e[i]
    BY <1>5, <1>7 DEF MESSAGE_HEADER_LEN
  <2>2. HasHeader(e, msg) /\ (\A i \in 1 .. 3 : e[1 + i] = BigEndian3(k)[i]) /\ k \in Nat
        /\ k < LengthLimit
    BY <1>1, <1>3, <1>7
  <2> HIDE DEF e, k
  <2>3. HasHeader(d, msg)
    BY <2>1, <2>2, HeaderKept
  <2>4. \A i \in 1 .. 3 : d[1 + i] = BigEndian3(k)[i]
    <3>1. \A i \in 1 .. 3 : 1 + i \in 1 .. 20
      OBVIOUS
    <3>2. QED
      BY <2>1, <2>2, <3>1
  <2>5. k \in Int24
    BY <2>2 DEF Int24, LengthLimit
  <2>6. k = Len(packet.data)
    BY <1>3 DEF k
  <2> HIDE DEF h
  <2>7. /\ h.version = msg.version /\ h.command_code = msg.command_code
        /\ h.flags = unpack_message_flag(msg.flag) /\ h.app_id = msg.app_id
        /\ h.hop_hop_id = msg.hop_hop_id /\ h.end_end_id = msg.end_end_id
        /\ h.data_len = k - MESSAGE_HEADER_LEN
    BY <1>2, <2>3, <2>4, <2>5, HeaderRead DEF h
  <2>8. QED
    BY <2>6, <2>7
<1> HIDE DEF h
<1>8. unpack_message_header(Buffer(SubSeq(packet.data, 1, n), MESSAGE_HEADER_LEN)) = h
  BY <1>5 DEF h
<1>9. QED
  BY <1>6, <1>7, <1>8

\* A message is read, or its length kills the reader.
LEMMA process_readStep ==
  ASSUME Inv, process_read
  PROVE  Inv'
<1>1. /\ alive /\ phase = "sent"
      /\ UNCHANGED <<doc, pass, at, cmd, maps, avps, junk>>
      /\ UNCHANGED <<result, accepted, exchanges>>
  BY DEF process_read, In
<1>2. DictInv /\ PhaseInv /\ SenderInv /\ ReceiverInv
  BY DEF Inv
<1> DEFINE header(n) == unpack_message_header(
                          Buffer(SubSeq(packet.data, 1, n), MESSAGE_HEADER_LEN))
           body(n, k) == Buffer(SubSeq(SubSeq(packet.data, n + 1, Len(packet.data)), 1, k),
                                header(n).data_len)
<1>3. PICK n \in Counts(MESSAGE_HEADER_LEN, Len(packet.data)) :
        \/ Dies /\ whole' = (whole /\ n = MESSAGE_HEADER_LEN) /\ UNCHANGED recVars
        \/ \E k :
             /\ rev' = [header(n) EXCEPT !.packet = body(n, k)]
             /\ whole' \in BOOLEAN /\ (whole' => n = MESSAGE_HEADER_LEN)
             /\ phase' \in {"closed", "read"}
             /\ UNCHANGED <<packVars, msg, alive>>
  <2>1. \E n \in Counts(MESSAGE_HEADER_LEN, Len(packet.data)) :
          IF header(n).data_len < 0
          THEN Dies /\ whole' = (whole /\ n = MESSAGE_HEADER_LEN) /\ UNCHANGED recVars
          ELSE \E k \in Counts(header(n).data_len, Len(SubSeq(packet.data, n + 1, Len(packet.data)))) :
                 /\ rev' = [header(n) EXCEPT !.packet = body(n, k)]
                 /\ whole' = (whole /\ n = MESSAGE_HEADER_LEN
                                /\ k = All(header(n).data_len, Len(SubSeq(packet.data, n + 1, Len(packet.data)))))
                 /\ phase' = IF k = 0 THEN "closed" ELSE "read"
                 /\ UNCHANGED <<packVars, msg, making, reading, alive>>
    BY Zenon DEF process_read
  <2> HIDE DEF header, body
  <2>2. QED
    BY <2>1, Zenon
<1>4. n \in Nat /\ n <= MESSAGE_HEADER_LEN
  <2> DEFINE len == Len(packet.data)
  <2>1. len \in Nat /\ len >= 20 /\ Cuts \subseteq Nat /\ MESSAGE_HEADER_LEN = 20
    BY <1>1, <1>2, PacketAssumption DEF SenderInv, Shape, MESSAGE_HEADER_LEN
  <2>2. n \in {i \in Cuts : i < All(20, len)} \cup {All(20, len)}
    BY <2>1 DEF Counts
  <2> HIDE DEF len
  <2>3. All(20, len) = 20
    BY <2>1 DEF All
  <2>4. n = 20 \/ (n \in Cuts /\ n < 20)
    BY <2>2, <2>3
  <2>5. CASE n = 20
    BY <2>1, <2>5
  <2>6. CASE n \in Cuts /\ n < 20
    <3>1. n \in Nat
      BY <2>1, <2>6
    <3>2. QED
      BY <2>1, <2>6, <3>1
  <2>7. QED
    BY <2>4, <2>5, <2>6
<1>5. LET h == header(n)
      IN  /\ h.command_code \in Int24
          /\ n = MESSAGE_HEADER_LEN /\ Len(packet.data) < LengthLimit =>
               /\ h.version = msg.version /\ h.command_code = msg.command_code
               /\ h.flags = unpack_message_flag(msg.flag) /\ h.app_id = msg.app_id
               /\ h.hop_hop_id = msg.hop_hop_id /\ h.end_end_id = msg.end_end_id
               /\ h.data_len = Len(packet.data) - MESSAGE_HEADER_LEN
  BY <1>1, <1>2, <1>4, HeaderTaken
<1>6. CASE Dies /\ whole' = (whole /\ n = MESSAGE_HEADER_LEN) /\ UNCHANGED recVars
  <2>1. /\ alive' = FALSE /\ packet' = packet /\ open' = open /\ phase' = "sent" /\ msg' = msg
        /\ rev' = rev /\ whole' \in BOOLEAN
    BY <1>1, <1>6 DEF Dies, packVars, recVars
  <2>2. DictInv'
    BY <1>1, <1>2, <2>1, DictKept
  <2>3. PhaseInv'
    BY <1>1, <1>2, <2>1 DEF PhaseInv
  <2>4. SenderInv'
    <3>1. Room(packet)' /\ Shape(packet)' /\ HasHeader(packet.data, msg)'
      BY <1>1, <1>2, <2>1, Zenon DEF SenderInv, Room, Shape, HasHeader
    <3>2. open' = <<>> /\ packet'.position >= 20
          /\ \A i \in 1 .. 3 : packet'.data[1 + i] = BigEndian3(packet'.position)[i]
      BY <1>1, <1>2, <2>1, Zenon DEF SenderInv
    <3>3. phase' # "make" /\ phase' # "pack"
      BY <2>1
    <3>4. QED
      BY <3>1, <3>2, <3>3, Zenon DEF SenderInv
  <2>5. ReceiverInv'
    BY <1>2, <2>1, ReceiverKept
  <2>6. QED
    BY <2>2, <2>3, <2>4, <2>5 DEF Inv
<1>7. ASSUME NEW k,
             /\ rev' = [header(n) EXCEPT !.packet = body(n, k)]
             /\ whole' \in BOOLEAN /\ (whole' => n = MESSAGE_HEADER_LEN)
             /\ phase' \in {"closed", "read"}
             /\ UNCHANGED <<packVars, msg, alive>>
      PROVE  Inv'
  <2>1. packet' = packet /\ open' = open /\ msg' = msg /\ alive' = alive
    BY <1>7 DEF packVars
  <2>2. DictInv'
    BY <1>1, <1>2, <2>1, DictKept DEF DictInv, DictPlace
  <2>3. PhaseInv'
    BY <1>1, <1>2, <1>7, <2>1 DEF PhaseInv
  <2>4. SenderInv'
    <3>1. phase # "pack" /\ phase' \notin {"make", "pack", "sent"}
      BY <1>1, <1>7
    <3>2. QED
      BY <1>2, <2>1, <3>1, SenderKept
  <2>5. ReceiverInv'
    <3> DEFINE h == header(n)
               g == body(n, k)
               r == rev'
    <3>1. /\ "command_code" \in DOMAIN r /\ r.command_code = h.command_code
          /\ r.version = h.version /\ r.flags = h.flags /\ r.app_id = h.app_id
          /\ r.hop_hop_id = h.hop_hop_id /\ r.end_end_id = h.end_end_id
          /\ r.data_len = h.data_len
      <4>1. r = [h EXCEPT !.packet = g]
        BY <1>7
      <4> HIDE DEF g, r
      <4>2. LET q == [h EXCEPT !.packet = g]
            IN  /\ "command_code" \in DOMAIN q /\ q.command_code = h.command_code
                /\ q.version = h.version /\ q.flags = h.flags /\ q.app_id = h.app_id
                /\ q.hop_hop_id = h.hop_hop_id /\ q.end_end_id = h.end_end_id
                /\ q.data_len = h.data_len
        BY HeaderFields
      <4>3. QED
        BY <4>1, <4>2
    <3> HIDE DEF h
    <3>2. /\ h.command_code \in Int24
          /\ n = MESSAGE_HEADER_LEN /\ Len(packet.data) < LengthLimit =>
               /\ h.version = msg.version /\ h.command_code = msg.command_code
               /\ h.flags = unpack_message_flag(msg.flag) /\ h.app_id = msg.app_id
               /\ h.hop_hop_id = msg.hop_hop_id /\ h.end_end_id = msg.end_end_id
               /\ h.data_len = Len(packet.data) - MESSAGE_HEADER_LEN
      BY <1>5 DEF h
    <3> HIDE DEF r
    <3>3. r.command_code \in Int24
      BY <3>1, <3>2
    <3>4. Len(packet.data) < LengthLimit /\ whole' =>
            /\ r.command_code = msg.command_code /\ r.version = msg.version
            /\ r.flags = unpack_message_flag(msg.flag) /\ r.app_id = msg.app_id
            /\ r.hop_hop_id = msg.hop_hop_id /\ r.end_end_id = msg.end_end_id
            /\ r.data_len = Len(packet.data) - MESSAGE_HEADER_LEN
      BY <1>7, <3>1, <3>2
    <3>5. Len(packet.data)' < LengthLimit => HeaderArrives'
      BY <2>1, <3>4 DEF HeaderArrives, r
    <3>6. QED
      BY <3>1, <3>3, <3>5 DEF ReceiverInv, r
  <2>6. QED
    BY <2>2, <2>3, <2>4, <2>5 DEF Inv
<1> HIDE DEF header, body
<1>8. QED
  BY <1>3, <1>6, <1>7

\* A message that was read is unpacked, or answered as it came.
LEMMA DispatchStep ==
  ASSUME Inv, Dispatch
  PROVE  Inv'
<1>1. /\ alive /\ phase = "read" /\ phase' \in {"unpack", "answer"} /\ rev' = rev
      /\ UNCHANGED dictVars /\ packet' = packet /\ open' = open
      /\ UNCHANGED <<msg, making, result, accepted, exchanges, whole>>
  BY DEF Dispatch, In, unpack_message_data, recVars, packVars
<1>2. DictInv /\ PhaseInv /\ SenderInv /\ ReceiverInv
  BY DEF Inv
<1>3. DictInv'
  BY <1>1, <1>2, DictStays
<1>4. PhaseInv'
  BY <1>1, <1>2 DEF PhaseInv, dictVars
<1>5. SenderInv'
  BY <1>1, <1>2, SenderKept
<1>6. ReceiverInv'
  BY <1>1, <1>2, ReceiverKept
<1>7. QED
  BY <1>3, <1>4, <1>5, <1>6 DEF Inv

\* Unpacking leaves the code alone, whatever becomes of the process.
LEMMA CodeKept ==
  ASSUME Unpack, alive \in BOOLEAN, "command_code" \in DOMAIN rev
  PROVE  /\ alive' \in BOOLEAN /\ (alive' => alive)
         /\ "command_code" \in DOMAIN rev' /\ rev'.command_code = rev.command_code
<1>1. \/ rev' = rev /\ (alive' = FALSE \/ alive' = alive)
      \/ alive' = alive /\ \E v : rev' = [rev EXCEPT !.packet = v]
      \/ alive' = alive /\ \E v : rev' = [rev EXCEPT !.all_avp_msg = v]
  <2>1. CASE UnpackAvp
    <3> DEFINE h == unpack_avp_msg_header(rev.packet)
               rep == avps[h.avp]
               len == h.length - AVP_HEADER_LEN - (IF rep.vendor_bit # 0 THEN 4 ELSE 0)
               r == ReadValue(h.packet, ParentType(rep), len)
    <3>1. \/ alive' = FALSE /\ UNCHANGED recVars
          \/ rev' = [rev EXCEPT !.packet = h.packet] /\ UNCHANGED alive
          \/ rev' = [rev EXCEPT !.packet = PastPadding(r.packet, h.length)] /\ UNCHANGED alive
      BY <2>1, Zenon DEF UnpackAvp
    <3> HIDE DEF h, r
    <3>2. QED
      BY <3>1, Zenon DEF recVars
  <2>2. CASE UnpackedGroup
    <3> DEFINE v == PastPadding(rev.packet, Reading.header.length)
    <3>1. alive' = alive
      BY <2>2 DEF UnpackedGroup
    <3>2. rev' = [rev EXCEPT !.packet = v]
      BY <2>2 DEF UnpackedGroup
    <3> HIDE DEF v
    <3>3. QED
      BY <3>1, <3>2, Zenon
  <2>3. CASE UnpackedMessage
    <3> DEFINE v == Reading.avps
    <3>1. alive' = alive
      BY <2>3 DEF UnpackedMessage
    <3>2. rev' = [rev EXCEPT !.all_avp_msg = v]
      BY <2>3 DEF UnpackedMessage
    <3> HIDE DEF v
    <3>3. QED
      BY <3>1, <3>2, Zenon
  <2>4. QED
    BY <2>1, <2>2, <2>3 DEF Unpack
<1>2. alive' \in BOOLEAN /\ (alive' => alive)
  <2>1. alive' = FALSE \/ alive' = alive
    BY <1>1
  <2>2. CASE alive' = FALSE
    BY <2>2, Zenon
  <2>3. CASE alive' = alive
    BY <2>3, Zenon
  <2>4. QED
    BY <2>1, <2>2, <2>3
<1>3. "command_code" \in DOMAIN rev' /\ rev'.command_code = rev.command_code
  <2>1. ASSUME NEW v, rev' = [rev EXCEPT !.packet = v]
        PROVE  "command_code" \in DOMAIN rev' /\ rev'.command_code = rev.command_code
    BY <2>1
  <2>2. ASSUME NEW v, rev' = [rev EXCEPT !.all_avp_msg = v]
        PROVE  "command_code" \in DOMAIN rev' /\ rev'.command_code = rev.command_code
    BY <2>2
  <2>3. ASSUME rev' = rev
        PROVE  "command_code" \in DOMAIN rev' /\ rev'.command_code = rev.command_code
    BY <2>3
  <2>4. QED
    BY <1>1, <2>1, <2>2, <2>3
<1>4. QED
  BY <1>2, <1>3

\* A message goes on being unpacked.
LEMMA UnpackStepInv ==
  ASSUME Inv, UnpackStep
  PROVE  Inv'
<1>1. /\ alive /\ phase = "unpack" /\ Unpack
      /\ phase' \in {"unpack", "answer", "received"}
      /\ UNCHANGED <<doc, pass, at, cmd, maps, avps, junk>>
      /\ packet' = packet /\ open' = open
      /\ UNCHANGED <<msg, making, result, accepted, exchanges, whole>>
  BY DEF UnpackStep, In, packVars
<1>2. DictInv /\ PhaseInv /\ SenderInv /\ ReceiverInv
  BY DEF Inv
<1>3. alive \in BOOLEAN /\ "command_code" \in DOMAIN rev /\ rev.command_code \in Int24
  BY <1>1, <1>2 DEF ReceiverInv, DictInv, DictPlace
<1>4. /\ alive' \in BOOLEAN /\ (alive' => alive)
      /\ "command_code" \in DOMAIN rev' /\ rev'.command_code = rev.command_code
  BY <1>1, <1>3, CodeKept
<1>5. DictInv'
  BY <1>1, <1>2, <1>4, DictKept
<1>6. PhaseInv'
  BY <1>1, <1>2 DEF PhaseInv
<1>7. SenderInv'
  BY <1>1, <1>2, SenderKept
<1>8. ReceiverInv'
  BY <1>1, <1>3, <1>4 DEF ReceiverInv, HeaderArrives
<1>9. QED
  BY <1>5, <1>6, <1>7, <1>8 DEF Inv

\* An answer is begun, or the server gone.
LEMMA AnswerStep ==
  ASSUME Inv, Answer
  PROVE  Inv'
<1>1. /\ alive /\ phase = "answer"
      /\ UNCHANGED <<doc, pass, at, cmd, maps, avps, junk>>
      /\ rev' = rev /\ UNCHANGED <<accepted, exchanges, whole>>
  BY DEF Answer, In, recVars
<1>2. DictInv /\ PhaseInv /\ SenderInv /\ ReceiverInv
  BY DEF Inv
<1>3. pass = 3 /\ rev.command_code \in Int24
  BY <1>1, <1>2 DEF PhaseInv, ReceiverInv
<1> DEFINE is_req == IF rev.flags.r # 0 THEN 0 ELSE 1
           reply == create_new_send_msg(1, rev.command_code, is_req, 0, 0, 0)
<1>4. MessageOK(reply)
  BY <1>3, NewMessage
<1>5. result' \in {2001, 3001} /\ (generate_avp_msg(reply) \/ Dies)
  <2>1. PICK res \in {2001, 3001} : result' = res /\ process_gen(res)
    BY DEF Answer
  <2>2. generate_avp_msg(reply) \/ Dies
    <3> DEFINE known == res = 2001 \/ rev.command_code \in {CAPABILITIES_EXCHANGE, CREDIT_CONTROL}
    <3>1. process_gen(res)
      BY <2>1
    <3>2. (known => generate_avp_msg(reply)) /\ (~known => Dies)
      BY <3>1 DEF process_gen
    <3> HIDE DEF known, reply
    <3>3. QED
      BY <3>2
  <2>3. QED
    BY <2>1, <2>2
<1> HIDE DEF reply
<1>6. /\ packet' = packet /\ open' = open
      /\ \/ alive' = FALSE /\ phase' = phase /\ msg' = msg
         \/ /\ alive' = alive /\ phase' = "make" /\ msg' = reply
            /\ \E S : AvpsOK(S) /\ MakingOK(making', S)
  <2>1. CASE Dies
    BY <2>1 DEF Dies, packVars
  <2>2. CASE generate_avp_msg(reply)
    <3>1. PICK m : m = reply
      OBVIOUS
    <3>2. generate_avp_msg(m)
      BY <2>2, <3>1
    <3>3. QED
      BY <1>1, <1>2, <1>3, <3>1, <3>2, Generated
  <2>3. generate_avp_msg(reply) \/ Dies
    BY <1>5
  <2>4. QED
    BY <2>1, <2>2, <2>3
<1>7. DictInv'
  <2>1. alive' \in BOOLEAN /\ (alive' => alive)
    BY <1>1, <1>6
  <2>2. QED
    BY <1>1, <1>2, <2>1, DictKept
<1>8. PhaseInv'
  <2>1. phase' \in {"answer", "make"} /\ MessageOK(msg')
    <3>1. MessageOK(msg)
      BY <1>1, <1>2 DEF PhaseInv
    <3>2. CASE phase' = phase /\ msg' = msg
      BY <1>1, <3>1, <3>2
    <3>3. CASE phase' = "make" /\ msg' = reply
      BY <1>4, <3>3
    <3>4. QED
      BY <1>6, <3>2, <3>3
  <2>2. QED
    BY <1>1, <1>2, <1>3, <1>5, <2>1 DEF PhaseInv
<1>9. SenderInv'
  BY <1>1, <1>2, <1>6, SenderBegins
<1>10. ReceiverInv'
  BY <1>1, <1>2, <1>6, ReceiverKept
<1>11. QED
  BY <1>7, <1>8, <1>9, <1>10 DEF Inv

\* The client takes an answer, and may give the connection up.
LEMMA check_acceptStep ==
  ASSUME Inv, check_accept_from_srv
  PROVE  Inv'
<1>1. /\ alive /\ phase = "received"
      /\ UNCHANGED <<doc, pass, at, cmd, maps, avps, junk>>
      /\ packet' = packet /\ open' = open /\ rev' = rev
      /\ UNCHANGED <<msg, making, result, exchanges, whole>>
  BY DEF check_accept_from_srv, In, packVars, recVars
<1>2. DictInv /\ PhaseInv /\ SenderInv /\ ReceiverInv
  BY DEF Inv
<1>3. /\ phase' \in {"received", "idle", "closed"} /\ accepted' \in BOOLEAN
      /\ alive' \in BOOLEAN /\ (alive' => alive)
  <2>1. accepted \in BOOLEAN /\ alive \in BOOLEAN
    BY <1>2 DEF PhaseInv, DictInv, DictPlace
  <2>2. alive' = FALSE \/ alive' = alive
    BY DEF check_accept_from_srv
  <2>3. accepted' = accepted \/ accepted' = (ResultCode.value = 2001)
    <3> DEFINE is_open == accepted \/ rev.command_code # CAPABILITIES_EXCHANGE
               code == ResultCode
               is_fine == ResultCode.value = 2001
    <3>1. IF is_open THEN accepted' = accepted
          ELSE IF code = NULL THEN accepted' = accepted
          ELSE accepted' = is_fine
      BY SMT DEF check_accept_from_srv
    <3> HIDE DEF is_open, code, is_fine
    <3>2. accepted' = accepted \/ accepted' = is_fine
      BY <3>1, Zenon
    <3>3. QED
      BY <3>2, Zenon DEF is_fine
  <2>4. phase' \in {"idle", "closed"} \/ phase' = phase
    BY DEF check_accept_from_srv
  <2>5. alive' \in BOOLEAN /\ (alive' => alive)
    <3>1. CASE alive' = FALSE
      BY <3>1, Zenon
    <3>2. CASE alive' = alive
      BY <2>1, <3>2, Zenon
    <3>3. QED
      BY <2>2, <3>1, <3>2
  <2>6. accepted' \in BOOLEAN
    <3>1. CASE accepted' = accepted
      BY <2>1, <3>1, Zenon
    <3>2. CASE accepted' = (ResultCode.value = 2001)
      <4> DEFINE code == ResultCode.value
      <4>1. accepted' = (code = 2001)
        BY <3>2, Zenon
      <4> HIDE DEF code
      <4>2. code = 2001 \/ code # 2001
        OBVIOUS
      <4>3. accepted' = TRUE \/ accepted' = FALSE
        BY <4>1, <4>2
      <4>4. QED
        BY <4>3, Zenon
    <3>3. QED
      BY <2>3, <3>1, <3>2
  <2>7. QED
    BY <1>1, <2>4, <2>5, <2>6
<1>4. DictInv'
  BY <1>1, <1>2, <1>3, DictKept
<1>5. PhaseInv'
  <2>1. MessageOK(msg') /\ exchanges' # 0 /\ pass' = 3
    BY <1>1, <1>2 DEF PhaseInv
  <2>2. QED
    BY <1>1, <1>2, <1>3, <2>1 DEF PhaseInv
<1>6. SenderInv'
  <2>1. phase # "pack" /\ phase' \notin {"make", "pack", "sent"}
    BY <1>1, <1>3
  <2>2. QED
    BY <1>1, <1>2, <2>1, SenderKept
<1>7. ReceiverInv'
  <2>1. phase' # "read"
    BY <1>3
  <2>2. QED
    BY <1>1, <1>2, <2>1, ReceiverKept
<1>8. QED
  BY <1>4, <1>5, <1>6, <1>7 DEF Inv

\* A step that changes nothing.
LEMMA NoStep ==
  ASSUME Inv, UNCHANGED vars
  PROVE  Inv'
<1>1. /\ UNCHANGED dictVars /\ packet' = packet /\ open' = open /\ rev' = rev /\ phase' = phase
      /\ msg' = msg /\ making' = making /\ result' = result /\ accepted' = accepted
      /\ exchanges' = exchanges /\ whole' = whole
  BY DEF vars, packVars, recVars
<1>2. DictInv /\ PhaseInv /\ SenderInv /\ ReceiverInv
  BY DEF Inv
<1>3. DictInv'
  BY <1>1, <1>2, DictStays
<1>4. PhaseInv'
  <2>1. pass' = pass /\ alive' = alive
    BY <1>1 DEF dictVars
  <2>2. QED
    BY <1>1, <1>2, <2>1 DEF PhaseInv
<1>5. SenderInv'
  <2>1. /\ Room(packet)' /\ Shape(packet)' /\ (phase' # "pack" => open' = <<>>)
        /\ (phase' = "sent" =>
              /\ HasHeader(packet.data, msg)' /\ packet'.position >= 20
              /\ \A i \in 1 .. 3 : packet'.data[1 + i] = BigEndian3(packet'.position)[i])
    BY <1>1, <1>2, Zenon DEF SenderInv, Room, Shape, HasHeader
  <2>2. maps' = maps /\ alive' = alive
    BY <1>1 DEF dictVars
  <2>3. phase' = "make" /\ alive' => \E S : AvpsOK(S)' /\ MakingOK(making, S)'
    <3>1. SUFFICES ASSUME phase' = "make", alive' PROVE \E S : AvpsOK(S)' /\ MakingOK(making, S)'
      OBVIOUS
    <3>2. phase = "make" /\ alive
      BY <1>1, <2>2, <3>1
    <3>3. PICK S : AvpsOK(S) /\ MakingOK(making, S)
      BY <1>2, <3>2, Zenon DEF SenderInv
    <3>4. AvpsOK(S)'
      BY <2>2, <3>3, AvpsStay
    <3>5. MakingOK(making', S)
      BY <1>1, <3>3
    <3>6. QED
      BY <3>4, <3>5
  <2>4. phase' = "pack" => open' # <<>> /\ \E S : AvpsOK(S)' /\ ShapeInv(S, msg)'
    <3>1. SUFFICES ASSUME phase' = "pack"
                   PROVE  open' # <<>> /\ \E S : AvpsOK(S)' /\ ShapeInv(S, msg)'
      OBVIOUS
    <3>2. phase = "pack"
      BY <1>1, <3>1
    <3>3. PICK S : AvpsOK(S) /\ ShapeInv(S, msg)
      BY <1>2, <3>2, Zenon DEF SenderInv
    <3>4. PICK m : m = msg
      OBVIOUS
    <3>5. ShapeInv(S, m) /\ UNCHANGED packVars
      BY <1>1, <3>3, <3>4 DEF packVars
    <3>6. ShapeInv(S, m)'
      BY <3>5, ShapeStays
    <3>7. m = msg'
      BY <1>1, <3>4
    <3>8. ShapeInv(S, msg)'
      BY <3>6, <3>7, Zenon DEF ShapeInv
    <3>9. AvpsOK(S)'
      BY <2>2, <3>3, AvpsStay
    <3>10. open' # <<>>
      BY <1>1, <1>2, <3>2, Zenon DEF SenderInv
    <3>11. QED
      BY <3>8, <3>9, <3>10
  <2>5. QED
    BY <2>1, <2>3, <2>4, Zenon DEF SenderInv
<1>6. ReceiverInv'
  BY <1>1, <1>2, Zenon DEF ReceiverInv, HeaderArrives
<1>7. QED
  BY <1>3, <1>4, <1>5, <1>6 DEF Inv

\* So Inv is inductive.
LEMMA StepInv ==
  ASSUME Inv, [Next \/ Stopped]_vars
  PROVE  Inv'
<1>1. CASE Load
  BY <1>1, LoadStep
<1>2. ASSUME NEW code \in {CAPABILITIES_EXCHANGE, CREDIT_CONTROL, DEVICE_WATCHDOG},
             process_write(code)
      PROVE  Inv'
  BY <1>2, process_writeStep
<1>3. CASE Make
  BY <1>3, MakeStep
<1>4. CASE Pack
  BY <1>4, PackStep
<1>5. CASE process_read
  BY <1>5, process_readStep
<1>6. CASE Dispatch
  BY <1>6, DispatchStep
<1>7. CASE UnpackStep
  BY <1>7, UnpackStepInv
<1>8. CASE Answer
  BY <1>8, AnswerStep
<1>9. CASE check_accept_from_srv
  BY <1>9, check_acceptStep
<1>10. CASE Stopped \/ UNCHANGED vars
  BY <1>10, NoStep DEF Stopped
<1>11. QED
  BY <1>1, <1>2, <1>3, <1>4, <1>5, <1>6, <1>7, <1>8, <1>9, <1>10, Zenon DEF Next

\* The inductive invariant, of every behaviour.
LEMMA InvHolds == Spec => []Inv
BY InitInv, StepInv, PTL DEF Spec

\* TypeOK of every behaviour, for every dictionary, way to read and number of
\* requests: what is packed are bytes, as many as the position says.
THEOREM TypeCorrect == Spec => []TypeOK
<1>1. Inv => TypeOK
  <2> SUFFICES ASSUME Inv PROVE TypeOK
    OBVIOUS
  <2>1. DictPlace /\ PhaseInv /\ Shape(packet)
    BY DEF Inv, DictInv, SenderInv
  <2>2. packet.position = Len(packet.data) /\ \A i \in DOMAIN packet.data : packet.data[i] \in 0 .. 255
    <3> DEFINE d == packet.data
    <3>1. d \in Seq(ByteValue) /\ packet.position = Len(d)
      BY <2>1 DEF Shape
    <3> HIDE DEF d
    <3>2. \A i \in 1 .. Len(d) : d[i] \in ByteValue
      BY <3>1, ElementOfSeq
    <3>3. DOMAIN d = 1 .. Len(d)
      BY <3>1
    <3>4. QED
      BY <3>1, <3>2, <3>3 DEF d, ByteValue
  <2>3. /\ doc \in Docs /\ pass \in 1 .. 3 /\ at \in 1 .. Len(doc) + 1 /\ cmd \in Nat \ {0}
        /\ alive \in BOOLEAN
    BY <2>1, Zenon DEF DictPlace
  <2>4. accepted \in BOOLEAN /\ whole \in BOOLEAN /\ exchanges \in 0 .. MAX_EXCHANGES
    BY <2>1 DEF PhaseInv
  <2>5. /\ result \in {NoResult, 2001, 3001}
        /\ phase \in {"load", "idle", "make", "pack", "sent", "read", "unpack", "answer", "received",
                      "closed"}
    BY <2>1 DEF PhaseInv
  <2>6. QED
    BY <2>2, <2>3, <2>4, <2>5 DEF TypeOK
<1>2. QED
  BY <1>1, InvHolds, PTL

\* Packing never writes behind the end of the array (base_message.h:55), whatever
\* dictionary the messages are made from.
THEOREM NeverOverrun == Spec => []NoOverrun
<1>1. Inv => NoOverrun
  BY DEF Inv, SenderInv, Room, NoOverrun
<1>2. QED
  BY <1>1, InvHolds, PTL

\* When read_config has returned, the maps answer with the last definition of each
\* key (dictionary_reader.h:8-13), whatever the dictionary defines twice and however
\* its names and numbers hash.
THEOREM LastIsFound == Spec => []LastDefinitionFound
<1>1. Inv => LastDefinitionFound
  <2> SUFFICES ASSUME Inv, phase = "idle", exchanges = 0 PROVE LastDefinitionsAnswer
    BY DEF LastDefinitionFound
  <2>1. DictInv /\ alive /\ pass = 3
    BY DEF Inv, PhaseInv
  <2>2. QED
    BY <2>1, DictAnswers
<1>2. QED
  BY <1>1, InvHolds, PTL

\* What either end reads as a header is the header the other has written
\* (packet_process.c:4), as long as a length has room in its three bytes.
THEOREM HeaderIsRead == Spec => [](Len(packet.data) < LengthLimit => HeaderArrives)
<1>1. Inv => (Len(packet.data) < LengthLimit => HeaderArrives)
  BY DEF Inv, ReceiverInv
<1>2. QED
  BY <1>1, InvHolds, PTL
=============================================================================
