---------------------------- MODULE MessageData -----------------------------
(***************************************************************************)
(* message_data.h and message_data.c: the types of AVPs, and the blocks    *)
(* that describe an AVP, as records.                                       *)
(***************************************************************************)
EXTENDS Integers, Sequences, SequencesExt

CONSTANT NULL

INSTANCE Vector

DIA_TYPE_STR == <<
  "OctetString", "Integer32", "Integer64", "Unsigned32", "Unsigned64", "Float32",
  "Float64", "Grouped", "Address", "Time", "UTF8String", "DiameterIdentity",
  "DiameterURI", "Enumerated", "IPFilterRule", "QOSFilterRule",
  "Unsigned32Enumerated", "MIPRegistrationRequest", "AppId", "VendorId", "IPAddress">>

DIA_MULTI_STR == <<"0", "0+", "0-1", "1", "1+">>

\* The position of a string in one of the tables above, counted from 0.
IndexIn(table, str) == (CHOOSE i \in DOMAIN table : table[i] = str) - 1

convert_typestr_int(type) == IndexIn(DIA_TYPE_STR, type)

convert_multiplicity(mul) ==
  IF mul \in ToSet(DIA_MULTI_STR) THEN IndexIn(DIA_MULTI_STR, mul) ELSE -1

Bit(rule) == IF rule = "must" THEN 1 ELSE 0

\* Fields nobody reads (the rules, may_encrypt) are left out; `vendor' is not
\* set, `childrens' and `enumT' not before the AVP's type is known.
create_avp_represent(e, vendor) ==
  [name |-> e.name, code |-> e.code, mandatory |-> Bit(e.mandatory),
   protect |-> Bit(e.protected), vendor_bit |-> Bit(e.vendor_bit), vendor |-> vendor,
   type |-> convert_typestr_int("Integer32"), is_enumT |-> 0,
   enumT |-> NULL, childrens |-> NULL]

set_avp_type(avp, type) ==
  IF type \in ToSet(DIA_TYPE_STR) THEN [avp EXCEPT !.type = convert_typestr_int(type)]
  ELSE avp

set_type_enum(avp, list) == [avp EXCEPT !.is_enumT = 1, !.enumT = list]

set_type_group(avp, list) == [avp EXCEPT !.childrens = list]

create_avp_info_msg(name, multiplicity) ==
  [name |-> name, multiplicity |-> convert_multiplicity(multiplicity)]

create_avp_in_cmd(name, code, is_request, all_avp) ==
  [name |-> name, code |-> code, is_request |-> is_request, all_avp |-> all_avp]
=============================================================================
