------------------------- MODULE UtilityGenMessage --------------------------
(***************************************************************************)
(* utility_gen_message.c: the values that fill a message in, by the type   *)
(* of the AVP, the command and its direction.  A text is its length and,   *)
(* in its last byte, the letter that tells a request from an answer.       *)
(***************************************************************************)
EXTENDS MessageData

CAPABILITIES_EXCHANGE == 257
CREDIT_CONTROL == 272
DEVICE_WATCHDOG == 280

\* The value for a command, of a pair <<request, answer>> for each; for any other
\* command the pointer is left as it was, here NULL.
Pick(code, is_req, cer, ccr, dwr) ==
  (CASE code = CAPABILITIES_EXCHANGE -> cer
     [] code = CREDIT_CONTROL -> ccr
     [] code = DEVICE_WATCHDOG -> dwr
     [] OTHER -> <<NULL, NULL>>)[2 - is_req]

manual_set_int32(code, is_req) ==
  Pick(code, is_req, <<1241, 6856>>, <<232654, 428711>>, <<77455, 898878>>)

manual_set_uint32(code, is_req) ==
  Pick(code, is_req, <<2233, 8447>>, <<48521, 69899>>, <<23111, 10102>>)

manual_set_int64(code, is_req) ==
  Pick(code, is_req, <<555623, 44145>>, <<82161, 1986>>, <<44, 784>>)

manual_set_uint64(code, is_req) ==
  Pick(code, is_req, <<20, 1111>>, <<8987, 3211>>, <<1, 5>>)

Text(len, last) == [i \in 1 .. len |-> IF i = len THEN last ELSE 84]

\* "1211", or "This is test String for CER" and its like.
manual_set_str(avp_rep, code, is_req) ==
  IF avp_rep.type = convert_typestr_int("Time") THEN Text(4, 49)
  ELSE LET texts == <<Text(27, 82), Text(27, 65)>> IN Pick(code, is_req, texts, texts, texts)

manual_set_enum(avp_rep) ==
  IF avp_rep.is_enumT > 0 /\ vector_count(avp_rep.enumT) > 0
  THEN vector_get(avp_rep.enumT, 0) ELSE 0

\* "Enumerated" counts as a basic type of its own here, not as an Integer32.  A
\* group has no value; a type without one here leaves the pointer as it was.
manual_set_all_avp_value(avp_rep, code, is_req, typeDef) ==
  LET Is(type) == convert_typestr_int(type) =
                    IF avp_rep.type = convert_typestr_int("Enumerated")
                    THEN avp_rep.type ELSE typeDef[avp_rep.type]
  IN  CASE Is("OctetString") \/ Is("UTF8String") -> manual_set_str(avp_rep, code, is_req)
        [] Is("Integer32")  -> manual_set_int32(code, is_req)
        [] Is("Unsigned32") -> manual_set_uint32(code, is_req)
        [] Is("Integer64")  -> manual_set_int64(code, is_req)
        [] Is("Unsigned64") -> manual_set_uint64(code, is_req)
        [] Is("Enumerated") -> manual_set_enum(avp_rep)
        [] OTHER -> NULL
=============================================================================
