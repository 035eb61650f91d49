------------------------------ MODULE HashMap -------------------------------
(***************************************************************************)
(* The open-addressing hash table of datastruct/hashmap.c, as operators on *)
(* its struct.  hashmapi.c is the same table with int keys (HashMapI).     *)
(*                                                                         *)
(* Hash[key] is what hashmap_hash_int reduces modulo the table size; the   *)
(* properties hold for every such function.  Out-of-memory (MAP_OMEM) is   *)
(* not modelled.  `aborted' is not a field of the struct: it says that a   *)
(* rehash has ended the process.                                           *)
(***************************************************************************)
EXTENDS Integers

CONSTANTS Key, Hash, NULL, MAX_CHAIN_LENGTH

ASSUME HashAssumption ==
  /\ Hash \in [Key -> Nat]
  /\ MAX_CHAIN_LENGTH \in Nat \ {0}

MAP_FULL == -2

Free == [in_use |-> FALSE, key |-> NULL, data |-> NULL]

INITIAL_SIZE == 2048

\* The array has INITIAL_SIZE slots whatever initSize is, and those past it are
\* never looked at: no table is made larger than its array.
hashmap_new(initSize) ==
  [table_size |-> initSize, size |-> 0,
     data |-> [i \in 0 .. initSize - 1 |-> Free], aborted |-> FALSE]

\* The slot the loops look at in round i: `curr = (curr + 1) % table_size'.
Probe(m, key, i) == (Hash[key] + i) % m.table_size

Rounds == 0 .. MAX_CHAIN_LENGTH - 1

Least(S) == CHOOSE i \in S : \A j \in S : i <= j

\* The rounds in which hashmap_hash would stop, and those in which
\* hashmap_get and hashmap_remove would.
Fits(m, key) ==
  {i \in Rounds : LET slot == m.data[Probe(m, key, i)]
                    IN  slot.in_use => slot.key = key}
Hits(m, key) ==
  {i \in Rounds : LET slot == m.data[Probe(m, key, i)]
                    IN  slot.in_use /\ slot.key = key}

\* Mutant of hashmap_hash: the first slot, whoever is in it.
HashWithoutProbing(m, key) == Probe(m, key, 0)

hashmap_hash(m, key) ==
  IF m.size >= m.table_size \/ Fits(m, key) = {}
  THEN MAP_FULL
  ELSE Probe(m, key, Least(Fits(m, key)))

\* The old table is freed before its elements are read and freed once more
\* after that: the process does not survive a rehash (the allocator stops it
\* at the second free, if the reads from freed memory have not).
hashmap_rehash(m) == [m EXCEPT !.aborted = TRUE]

\* Mutant of hashmap_put: a replaced value is not counted, a new one neither.
PutWithoutCount(m, key, value) ==
  LET index == hashmap_hash(m, key)
  IN  IF index = MAP_FULL THEN hashmap_rehash(m)
      ELSE [m EXCEPT !.data[index] = [in_use |-> TRUE, key |-> key, data |-> value]]

\* Mutant of hashmap_put: the key is not stored.
PutWithoutKey(m, key, value) ==
  LET index == hashmap_hash(m, key)
  IN  IF index = MAP_FULL THEN hashmap_rehash(m)
      ELSE [m EXCEPT !.data[index] = [in_use |-> TRUE, key |-> value, data |-> value],
                     !.size = @ + 1]

hashmap_put(m, key, value) ==
  LET index == hashmap_hash(m, key)
  IN  IF index = MAP_FULL THEN hashmap_rehash(m)
    ELSE [m EXCEPT !.data[index] = [in_use |-> TRUE, key |-> key, data |-> value],
                       !.size = @ + 1]

\* NULL stands for the result MAP_MISSING, which stores NULL in *arg.
hashmap_get(m, key) ==
  IF Hits(m, key) = {} THEN NULL
  ELSE m.data[Probe(m, key, Least(Hits(m, key)))].data

\* Mutant of hashmap_remove: the slot stays in use.
RemoveFromCount(m, key) == IF Hits(m, key) = {} THEN m ELSE [m EXCEPT !.size = @ - 1]

hashmap_remove(m, key) ==
  IF Hits(m, key) = {} THEN m
  ELSE [m EXCEPT !.data[Probe(m, key, Least(Hits(m, key)))] = Free,
                   !.size = @ - 1]

hashmap_length(m) == m.size
=============================================================================
