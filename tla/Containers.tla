----------------------------- MODULE Containers -----------------------------
(***************************************************************************)
(* A vector and a hash map under arbitrary calls.  They share nothing, so  *)
(* a behaviour uses one of them and leaves the other new.  `list' and      *)
(* `want' are what a sequence and a function would hold after the same     *)
(* calls.                                                                  *)
(***************************************************************************)
EXTENDS HashMap, Sequences, FiniteSets

CONSTANTS
  TABLE_SIZE,   \* the initSize of the map
  Value,        \* what the map stores
  Pointers,     \* what the vector stores: blocks of memory, each added once
  MAX_LENGTH    \* the elements a behaviour adds to the vector

ASSUME ContainersAssumption ==
  /\ TABLE_SIZE \in Nat \ {0} /\ TABLE_SIZE <= INITIAL_SIZE
  /\ NULL \notin Value \cup Pointers
  /\ MAX_LENGTH \in Nat

V == INSTANCE Vector

VARIABLES
  m, want,     \* the map, and the function it stands for
  holed,       \* a key was removed, ...
  refilled,    \* ... and another put since
  vec, list,   \* the vector, and the sequence it stands for
  gone         \* the blocks vector_delete has freed

mapVars == <<m, want, holed, refilled>>
vecVars == <<vec, list, gone>>
vars == <<mapVars, vecVars>>

MapInit ==
  /\ m = hashmap_new(TABLE_SIZE)
  /\ want = [k \in Key |-> NULL]
  /\ holed = FALSE
  /\ refilled = FALSE

VecInit == vec = V!vector_init /\ list = <<>> /\ gone = {}

Init == MapInit /\ VecInit
-----------------------------------------------------------------------------
Put(k, v) ==
  /\ ~m.aborted
  /\ m' = hashmap_put(m, k, v)
  /\ want' = [want EXCEPT ![k] = v]
  /\ refilled' = (refilled \/ holed)
  /\ UNCHANGED holed

Remove(k) ==
  /\ ~m.aborted
  /\ m' = hashmap_remove(m, k)
  /\ want' = [want EXCEPT ![k] = NULL]
  /\ holed' = (holed \/ m' # m)
  /\ UNCHANGED refilled

MapNext == \E k \in Key : Remove(k) \/ \E v \in Value : Put(k, v)

Unused == Pointers \ (gone \cup {list[i] : i \in DOMAIN list})

Add(e) ==
  /\ Len(list) < MAX_LENGTH
  /\ vec' = V!vector_add(vec, e)
  /\ list' = Append(list, e)
  /\ UNCHANGED gone

Set(index, e) ==
  /\ vec' = V!vector_set(vec, index, e)
  /\ list' = IF index < Len(list) THEN [list EXCEPT ![index + 1] = e] ELSE list
  /\ UNCHANGED gone

\* At the last index only: the program never calls vector_delete, and at any
\* other index it drops the wrong elements and frees one that is still held.
Delete ==
  /\ list # <<>>
  /\ vec' = V!vector_delete(vec, vec.count - 1)
  /\ list' = SubSeq(list, 1, Len(list) - 1)
  /\ gone' = gone \cup V!Freed(vec, vec.count - 1)

VecNext ==
  \/ Delete
  \/ \E e \in Unused : Add(e) \/ \E index \in 0 .. MAX_LENGTH : Set(index, e)

Next ==
  \/ VecInit /\ MapNext /\ UNCHANGED vecVars
  \/ MapInit /\ VecNext /\ UNCHANGED mapVars

Spec == Init /\ [][Next]_vars
-----------------------------------------------------------------------------
Slot == [in_use : BOOLEAN, key : Key \cup {NULL}, data : Value \cup {NULL}]

TypeOK ==
  /\ m \in [table_size : {TABLE_SIZE}, size : Int, aborted : BOOLEAN,
            data : [0 .. TABLE_SIZE - 1 -> Slot]]
  /\ want \in [Key -> Value \cup {NULL}]
  /\ holed \in BOOLEAN /\ refilled \in BOOLEAN
  /\ vec.data \in [0 .. vec.size - 1 -> Pointers \cup {NULL}]
  /\ vec.size \in Nat /\ vec.count \in 0 .. vec.size
  /\ list \in Seq(Pointers) /\ gone \subseteq Pointers

\* hashmap.h:22 -- a key that was put and not removed since is found, with the
\* value put last, whatever was put, replaced and removed around it.
PresentKeysAnswered ==
  ~m.aborted => \A k \in Key : want[k] # NULL => hashmap_get(m, k) = want[k]

\* hashmap.h:25 -- a removed key is missing.  Only as long as nothing was put
\* after the first removal: a put that fills the hole leaves a second, older
\* copy of its key behind, which the next removal brings to light.
RemovedKeysMissing ==
  ~m.aborted /\ ~refilled =>
    \A k \in Key : want[k] = NULL => hashmap_get(m, k) = NULL

\* `size', which decides when the table counts as full, is never below the
\* number of slots in use: a put that replaces counts again, a removal once.
SizeCoversUse ==
  Cardinality({i \in DOMAIN m.data : m.data[i].in_use}) <= hashmap_length(m)

\* vector.c -- what a loop over the vector visits is the sequence the calls
\* have built, across every doubling, and no element of it has been freed.
VectorIsList ==
  /\ V!Elements(vec) = list
  /\ \A i \in DOMAIN list : list[i] \notin gone
=============================================================================
