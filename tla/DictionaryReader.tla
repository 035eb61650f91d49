-------------------------- MODULE DictionaryReader --------------------------
(***************************************************************************)
(* read_config (conf/dictionary_reader.c): two passes over the elements of *)
(* dictionary.xml fill six maps that the encoder and the decoder look      *)
(* everything up in.                                                       *)
(*                                                                         *)
(* An element is a record of its attributes.  A vendor-id, a type-parent   *)
(* and the multiplicity of a group's member may be absent, which is NULL;  *)
(* the dictionary of the repository has all the others on every element.   *)
(***************************************************************************)
EXTENDS MessageData

CONSTANTS
  Docs,                \* the dictionaries to load
  Name, NameHash,      \* the strings used as keys, and their hash
  Number, NumberHash,  \* the ints used as keys, and theirs
  MAX_CHAIN_LENGTH, TABLE_SIZE,
  Garbage              \* what memory that is never set may hold

INSTANCE HashMap WITH Key <- Name, Hash <- NameHash
INSTANCE HashMapI WITH Key <- Number, Hash <- NumberHash

ASSUME DictionaryAssumption ==
  /\ NameHash \in [Name -> Nat] /\ NumberHash \in [Number -> Nat]
  /\ MAX_CHAIN_LENGTH \in Nat \ {0}
  /\ Garbage # {} /\ Garbage \subseteq Int
  /\ Number \subseteq Int /\ NULL \notin Int \cup Name
  /\ TABLE_SIZE \in Nat \ {0} /\ TABLE_SIZE <= INITIAL_SIZE

-----------------------------------------------------------------------------
(* Documents in the shape of dictionary.xml.  Nothing but a <grouped> makes an *)
(* AVP grouped; what is filled in as an int (an enumeration, the Result-Code)  *)
(* is of a type that is packed as one.                                         *)

LeafTypes == ToSet(DIA_TYPE_STR) \ {"Grouped"}
CommandAvps == Seq([name : Name, multiplicity : STRING])
GroupAvps == Seq([name : Name, multiplicity : STRING \cup {NULL}])

VendorElements == [tag : {"vendor"}, vendor_id : Name, code : Int]

TypeElements ==
  {t \in [tag : {"typedefn"}, name : LeafTypes, parent : LeafTypes \cup {NULL}] :
     t.name \in {"Unsigned32", "Enumerated"} => t.parent \in {NULL, "Integer32", "Unsigned32"}}

Nodes == [tag : {"type"}, type_name : LeafTypes, enums : Seq(Int)]
         \cup [tag : {"grouped"}, avps : GroupAvps]

DeclaredType(e) ==
  LET node == e.nodes[Len(e.nodes)] IN IF node.tag = "type" THEN node.type_name ELSE "Grouped"

AvpElements ==
  {e \in [tag : {"avpdefn"}, name : Name, code : Number, protected : STRING,
          mandatory : STRING, vendor_bit : STRING, vendor_id : Name \cup {NULL},
          nodes : Seq(Nodes) \ {<<>>}] :
     e.code = 268 => DeclaredType(e) = "Unsigned32"}

CommandElements ==
  {c \in [name : Name, code : Nat, request : 0 .. 1, avps : CommandAvps] :
     c.code * 10 + c.request \in Number}

ApplicationElements == [tag : {"application"}, commands : Seq(CommandElements)]

ASSUME DocsAssumption ==
  /\ \A d \in Docs :
       d \in Seq(VendorElements \cup TypeElements \cup AvpElements \cup ApplicationElements)
  /\ 0 .. Len(DIA_TYPE_STR) - 1 \subseteq Number

-----------------------------------------------------------------------------
VARIABLES
  doc,      \* the document
  pass,     \* 1 and 2: the passes of read_config; 3: it has returned
  at,       \* the element the pass is at
  cmd,      \* in an application, the command the pass is at
  maps,     \* the six maps
  avps,     \* the avp_represent blocks, in the order of their creation
  junk,     \* what memory that is never set holds, in this behaviour
  alive     \* FALSE: the process is gone

dictVars == <<doc, pass, at, cmd, maps, avps, junk, alive>>
-----------------------------------------------------------------------------
VectorOf(seq) ==
  LET added[n \in 0 .. Len(seq)] ==
        IF n = 0 THEN vector_init ELSE vector_add(added[n - 1], seq[n])
  IN  added[Len(seq)]

\* One child node of an avpdefn: <type>, with <enum>s in it, or <grouped>.
TypeNode(avp, node) ==
  LET mul(a) == IF a.multiplicity = NULL THEN "0" ELSE a.multiplicity
      group(a) == [avp_name |-> a.name, multiplicity |-> convert_multiplicity(mul(a))]
  IN
  IF node.tag = "type"
  THEN set_avp_type(IF node.type_name = "Enumerated"
                    THEN set_type_enum(avp, VectorOf(node.enums)) ELSE avp,
                    node.type_name)
  ELSE set_avp_type(set_type_group(avp, VectorOf([i \in DOMAIN node.avps |-> group(node.avps[i])])),
                    "Grouped")

getTypeAvpNode(nodes, avp) ==
  LET read[n \in 0 .. Len(nodes)] ==
        IF n = 0 THEN avp ELSE TypeNode(read[n - 1], nodes[n])
  IN  read[Len(nodes)]

NewCommand(c) ==
  LET info(a) == create_avp_info_msg(a.name, a.multiplicity)
  IN  create_avp_in_cmd(c.name, c.code, c.request,
                        VectorOf([i \in DOMAIN c.avps |-> info(c.avps[i])]))

ReadCommand(ms, c) ==
  [ms EXCEPT !.avp_in_msg = hashmap_put(@, c.name, NewCommand(c)),
             !.cmd_map_name = hashmapi_put(@, c.code * 10 + c.request, c.name)]

\* No block is created at NULL: out-of-memory is not modelled.
ASSUME MemoryAssumption ==
  \A d \in Docs : \A i \in DOMAIN d :
    d[i].tag = "application" =>
      \A k \in DOMAIN d[i].commands : NewCommand(d[i].commands[k]) # NULL
-----------------------------------------------------------------------------
DictInit ==
  /\ doc \in Docs
  /\ pass = 1
  /\ at = 1 /\ cmd = 1
  /\ maps = [vender_code_def |-> hashmap_new(TABLE_SIZE),
             data_type_def |-> hashmapi_new(TABLE_SIZE),
             avp_map |-> hashmap_new(TABLE_SIZE),
             avp_code_name |-> hashmapi_new(TABLE_SIZE),
             avp_in_msg |-> hashmap_new(TABLE_SIZE),
             cmd_map_name |-> hashmapi_new(TABLE_SIZE)]
  /\ avps = <<>>
  /\ junk \in Garbage
  /\ alive = TRUE

PutType(ms, name, parent) ==
  [ms EXCEPT !.data_type_def =
     hashmapi_put(@, convert_typestr_int(name), convert_typestr_int(parent))]

Survives(ms) == \A map \in DOMAIN ms : ~ms[map].aborted

\* Pass 1: vendors and types; "Grouped" is added at its end.
ReadTypes ==
  /\ alive /\ pass = 1
  /\ IF at > Len(doc)
     THEN /\ pass' = 2 /\ at' = 1
          /\ maps' = PutType(maps, "Grouped", "Grouped")
     ELSE LET e == doc[at] IN
          /\ pass' = 1 /\ at' = at + 1
          /\ maps' = CASE e.tag = "vendor" ->
                            [maps EXCEPT !.vender_code_def = hashmap_put(@, e.vendor_id, e.code)]
                       [] e.tag = "typedefn" ->
                            PutType(maps, e.name, IF e.parent = NULL THEN e.name ELSE e.parent)
                       [] OTHER -> maps
  /\ alive' = Survives(maps')
  /\ UNCHANGED <<doc, cmd, avps, junk>>

\* Pass 2, an AVP.  The vendor-id found is stored through tempAvp before tempAvp
\* is set to the new block: into the block of the element before.  An unknown
\* vendor-id, or none before, is a store through a wild pointer.
ReadAvp(e) ==
  LET vendor == hashmap_get(maps.vender_code_def, e.vendor_id)
      before == IF e.vendor_id = NULL THEN avps
                ELSE [avps EXCEPT ![Len(avps)].vendor = vendor]
  IN  /\ avps' = Append(before, getTypeAvpNode(e.nodes, create_avp_represent(e, junk)))
      /\ maps' = [maps EXCEPT
                    !.avp_map = hashmap_put(@, e.name, Len(avps')),
                    !.avp_code_name = hashmapi_put(@, e.code, e.name)]
      /\ alive' = ( /\ Survives(maps')
                    /\ e.vendor_id # NULL => avps # <<>> /\ vendor # NULL )

\* Pass 2, an application: a <command> of it, or its end.
get_command(app) ==
  /\ IF cmd > Len(app.commands)
     THEN at' = at + 1 /\ cmd' = 1 /\ UNCHANGED maps
     ELSE /\ at' = at /\ cmd' = cmd + 1
          /\ maps' = ReadCommand(maps, app.commands[cmd])
  /\ alive' = Survives(maps')
  /\ UNCHANGED avps

ReadElements ==
  /\ alive /\ pass = 2
  /\ IF at > Len(doc)
     THEN pass' = 3 /\ UNCHANGED <<at, cmd, maps, avps, alive>>
     ELSE LET e == doc[at] IN
          /\ pass' = 2
          /\ IF e.tag = "application" THEN get_command(e)
             ELSE /\ at' = at + 1 /\ UNCHANGED cmd
                  /\ IF e.tag = "avpdefn" THEN ReadAvp(e) ELSE UNCHANGED <<maps, avps, alive>>
  /\ UNCHANGED <<doc, junk>>

read_config == ReadTypes \/ ReadElements

Loaded == pass = 3
-----------------------------------------------------------------------------
(* What the maps answer. *)

NoAvp == 0    \* the pointer hashmap_get leaves when an AVP's name is missing

AvpNamed(name) ==
  LET i == IF name = NULL THEN NULL ELSE hashmap_get(maps.avp_map, name)
  IN  IF i = NULL THEN NoAvp ELSE i

AvpCoded(code) ==
  IF code \in Number THEN AvpNamed(hashmapi_get(maps.avp_code_name, code)) ELSE NoAvp

ParentType(avp) == hashmapi_get(maps.data_type_def, avp.type)
-----------------------------------------------------------------------------
Tagged(tag) == {i \in DOMAIN doc : doc[i].tag = tag}

\* The elements of a kind, without those that a later one redefines.
LastOf(tag, field) ==
  LET tagged == Tagged(tag)
  IN  {i \in tagged : \A j \in tagged : j > i => doc[j][field] # doc[i][field]}

\* Commands as pairs: of an application, and one in it.
Commands == UNION {{<<i, k>> : k \in DOMAIN doc[i].commands} : i \in Tagged("application")}

Later(p, q) == p[1] > q[1] \/ (p[1] = q[1] /\ p[2] > q[2])

\* Each map answers with the last element of the document that defines the key:
\* AVPs by name and, through their code, by the same AVP; types by their parent;
\* commands by code and direction.
LastDefinitionsAnswer ==
  /\ LET lastCodes == LastOf("avpdefn", "code")
     IN  \A i \in LastOf("avpdefn", "name") :
           LET avp == avps[AvpNamed(doc[i].name)]
           IN  /\ AvpNamed(doc[i].name) # NoAvp
               /\ avp.name = doc[i].name /\ avp.code = doc[i].code
               /\ avp.type = convert_typestr_int(DeclaredType(doc[i]))
               /\ i \in lastCodes => AvpCoded(avp.code) = AvpNamed(avp.name)
  /\ \A i \in LastOf("typedefn", "name") :
       ParentType([type |-> convert_typestr_int(doc[i].name)]) =
         convert_typestr_int(IF doc[i].parent = NULL THEN doc[i].name ELSE doc[i].parent)
  /\ LET commands == Commands
     IN  \A p \in commands :
           LET c == doc[p[1]].commands[p[2]]
               later == {doc[q[1]].commands[q[2]] : q \in {r \in commands : Later(r, p)}}
           IN  /\ (\A d \in later : <<d.code, d.request>> # <<c.code, c.request>>) =>
                    hashmapi_get(maps.cmd_map_name, c.code * 10 + c.request) = c.name
               /\ (\A d \in later : d.name # c.name) =>
                    LET command == hashmap_get(maps.avp_in_msg, c.name)
                    IN  command # NULL /\ vector_count(command.all_avp) = Len(c.avps)
=============================================================================
