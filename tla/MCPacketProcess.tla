-------------------------- MODULE MCPacketProcess ---------------------------
(***************************************************************************)
(* Dictionaries for TLC, in the shape of Server/config/dictionary.xml: the *)
(* same kinds of AVPs, rules, types, groups within groups and an empty     *)
(* one, commands that two applications define, multiplicities of each      *)
(* kind; few of each.                                                      *)
(***************************************************************************)
EXTENDS PacketProcess

Typedefn(name, parent) == [tag |-> "typedefn", name |-> name, parent |-> parent]

Types == <<
  Typedefn("OctetString", NULL), Typedefn("Integer32", NULL), Typedefn("Integer64", NULL),
  Typedefn("Unsigned32", NULL), Typedefn("Unsigned64", NULL), Typedefn("UTF8String", "OctetString"),
  Typedefn("Time", "OctetString"), Typedefn("DiameterIdentity", "OctetString"),
  Typedefn("Enumerated", "Integer32")>>

Vendor == [tag |-> "vendor", vendor_id |-> "TGPP", code |-> 104]

Avpdefn(name, code, vendor_bit, vendor_id, node) ==
  [tag |-> "avpdefn", name |-> name, code |-> code, protected |-> "may",
   mandatory |-> IF vendor_id = NULL THEN "must" ELSE "may",
   vendor_bit |-> vendor_bit, vendor_id |-> vendor_id, nodes |-> <<node>>]

Type(name) == [tag |-> "type", type_name |-> name, enums |-> <<>>]
Enum(codes) == [tag |-> "type", type_name |-> "Enumerated", enums |-> codes]
\* The first member of a group has a multiplicity, the others none.
Grouped(names) ==
  [tag |-> "grouped",
   avps |-> [i \in DOMAIN names |->
               [name |-> names[i], multiplicity |-> IF i = 1 THEN "0-1" ELSE NULL]]]

Base(name, code, node) == Avpdefn(name, code, "mustnot", NULL, node)
TGPP(name, code, node) == Avpdefn(name, code, "must", "TGPP", node)

Avps == <<
  Base("Origin-Host", 264, Type("DiameterIdentity")),
  Base("Result-Code", 268, Type("Unsigned32")),
  Base("Failed-AVP", 279, Grouped(<<>>)),
  Base("Request-Type", 416, Enum(<<1, 2>>)),
  Base("Event-Timestamp", 55, Type("Time")),
  Base("Value-Digits", 447, Type("Integer64")),
  Base("Exponent", 429, Type("Integer32")),
  Base("Unit-Value", 445, Grouped(<<"Value-Digits", "Exponent">>)),
  Base("Granted-Unit", 431, Grouped(<<"Event-Timestamp", "Unit-Value">>)),
  Base("Total-Octets", 421, Type("Unsigned64")),
  Base("Filter-Id", 11, Type("OctetString")),
  TGPP("Charging-Id", 2, Type("UTF8String")),
  TGPP("Session-Stop-Indicator", 11, Type("OctetString")),
  TGPP("Service-Info", 873, Grouped(<<"Charging-Id", "Total-Octets">>))>>

Avp(name, multiplicity) == [name |-> name, multiplicity |-> multiplicity]
Command(name, code, request, list) == [name |-> name, code |-> code, request |-> request, avps |-> list]
Application(commands) == [tag |-> "application", commands |-> commands]

\* As many AVPs as the vector doubles for; one that is optional, one that may not occur.
Base1 == Application(<<
  Command("CER", 257, 1, <<Avp("Origin-Host", "1"), Avp("Exponent", "0"), Avp("Charging-Id", "1+")>>),
  Command("CEA", 257, 0, <<Avp("Result-Code", "1"), Avp("Failed-AVP", "0+")>>),
  Command("DWR", 280, 1, <<Avp("Origin-Host", "1")>>),
  Command("DWA", 280, 0, <<Avp("Result-Code", "1"), Avp("Origin-Host", "1"), Avp("Failed-AVP", "0+")>>)>>)

Base2 == Application(<<
  Command("CER", 257, 1, <<Avp("Request-Type", "1"), Avp("Unit-Value", "1"), Avp("Origin-Host", "1")>>)>>)

CreditControl(request, answer) == Application(<<
  Command("CCR", 272, 1, request), Command("CCA", 272, 0, answer)>>)

Credit1 == CreditControl(
  <<Avp("Origin-Host", "1"), Avp("Granted-Unit", "0+"), Avp("Event-Timestamp", "0-1"),
    Avp("Request-Type", "1"), Avp("Service-Info", "0+"), Avp("Exponent", "1")>>,
  <<Avp("Origin-Host", "1"), Avp("Granted-Unit", "0+"), Avp("Service-Info", "1"),
    Avp("Result-Code", "1")>>)

Credit2 == CreditControl(
  <<Avp("Charging-Id", "1"), Avp("Total-Octets", "1"), Avp("Event-Timestamp", "1"),
    Avp("Failed-AVP", "0+")>>,
  <<Avp("Result-Code", "1"), Avp("Filter-Id", "0+"), Avp("Event-Timestamp", "1"),
    Avp("Unit-Value", "0+")>>)

Dictionaries == {
  Types \o <<Vendor>> \o Avps \o <<Base1, Credit1>>,
  <<Vendor>> \o Types \o Avps \o <<Credit2, Base1, Base2>>}

Names == {"TGPP", "CER", "CEA", "DWR", "DWA", "CCR", "CCA"} \cup {Avps[i].name : i \in DOMAIN Avps}
Numbers == (0 .. 20) \cup {Avps[i].code : i \in DOMAIN Avps}
           \cup {2571, 2570, 2721, 2720, 2801, 2800}

\* Many keys collide.
NameHashes == [n \in Names |->
  IF n \in {"TGPP", "Exponent", "CER"} THEN 1
  ELSE IF n \in {"Origin-Host", "Result-Code", "Total-Octets", "Failed-AVP", "Filter-Id", "CCA"}
  THEN 6 ELSE 15]
NumberHashes == [n \in Numbers |-> n]
=============================================================================
