---------------------------- MODULE HashMapProofs ----------------------------
(***************************************************************************)
(* What the functions of hashmap.c do to a table of any size, whatever the *)
(* keys and their hash.  hashmapi.c is the same table.                     *)
(***************************************************************************)
EXTENDS HashMap, FiniteSetTheorems, WellFoundedInduction, TLAPS

Indices(t) == 0 .. t.table_size - 1

\* A table: as many slots as table_size says.
IsTable(t, Stored) ==
  /\ t \in [table_size : Nat \ {0}, size : Int, aborted : BOOLEAN,
            data : [Indices(t) -> [in_use : BOOLEAN, key : Key \cup {NULL},
                                   data : Stored \cup {NULL}]]]

\* A non-empty set of naturals has a least element, and Least finds it: the
\* round in which a probing loop stops is the first in which it may.
LEMMA LeastIsLeast ==
  ASSUME NEW S, S \subseteq Nat, S # {}
  PROVE  Least(S) \in S /\ \A j \in S : Least(S) <= j
<1> DEFINE Below == {ss \in Nat \X Nat : ss[1] < ss[2]}
<1>1. IsWellFoundedOn(Below, Nat)
  BY NatLessThanWellFounded DEF OpToRel
<1>2. PICK x \in S : \A y \in S : ~ (<<y, x>> \in Below)
  BY <1>1, WFMin
<1>3. ASSUME NEW y \in S
      PROVE  x <= y
  <2>1. x \in Nat /\ y \in Nat
    OBVIOUS
  <2>2. ~ (y < x)
    BY <1>2, <2>1
  <2>3. QED
    BY <2>1, <2>2
<1>4. QED
  BY <1>3 DEF Least

\* Every slot a loop looks at is in the table.
LEMMA ProbeInTable ==
  ASSUME NEW Stored, NEW t, IsTable(t, Stored), NEW k \in Key, NEW i \in Rounds
  PROVE  Probe(t, k, i) \in Indices(t)
<1>1. /\ Hash[k] \in Nat /\ i \in Nat
      /\ t.table_size \in Nat /\ t.table_size > 0
  BY HashAssumption DEF Rounds, IsTable
<1>2. (Hash[k] + i) % t.table_size \in 0 .. t.table_size - 1
  BY <1>1
<1>3. QED
  BY <1>2 DEF Probe, Indices

\* hashmap_put either gives up, or writes the slot of one round i: one that is
\* free or has the key, behind slots that other keys use.
PutsInRound(t, x, k, v, i) ==
  /\ x = [t EXCEPT !.data[Probe(t, k, i)] = [in_use |-> TRUE, key |-> k, data |-> v],
                   !.size = @ + 1]
  /\ i \in Fits(t, k)
  /\ \A j \in Rounds : j < i => j \notin Fits(t, k)

LEMMA PutWritesFirstFit ==
  ASSUME NEW t, NEW k, NEW v
  PROVE  \/ hashmap_put(t, k, v) = [t EXCEPT !.aborted = TRUE]
         \/ \E i \in Rounds : PutsInRound(t, hashmap_put(t, k, v), k, v, i)
<1>1. CASE hashmap_hash(t, k) = MAP_FULL
  BY <1>1 DEF hashmap_put, hashmap_rehash
<1>2. CASE hashmap_hash(t, k) # MAP_FULL
  <2>1. Fits(t, k) # {} /\ hashmap_hash(t, k) = Probe(t, k, Least(Fits(t, k)))
    BY <1>2 DEF hashmap_hash
  <2>2. Fits(t, k) \subseteq Rounds /\ Rounds \subseteq Nat
    BY HashAssumption DEF Fits, Rounds
  <2>3. Least(Fits(t, k)) \in Fits(t, k) /\ \A j \in Fits(t, k) : Least(Fits(t, k)) <= j
    BY <2>1, <2>2, LeastIsLeast
  <2>4. \A j \in Rounds : j < Least(Fits(t, k)) => j \notin Fits(t, k)
    <3>1. Least(Fits(t, k)) \in Nat
      BY <2>2, <2>3
    <3>2. SUFFICES ASSUME NEW j \in Rounds, j < Least(Fits(t, k)), j \in Fits(t, k)
                   PROVE  FALSE
      OBVIOUS
    <3>3. j \in Nat /\ Least(Fits(t, k)) <= j
      BY <2>2, <2>3, <3>2
    <3>4. QED
      BY <3>1, <3>2, <3>3
  <2>5. hashmap_put(t, k, v) =
          [t EXCEPT !.data[Probe(t, k, Least(Fits(t, k)))] =
                       [in_use |-> TRUE, key |-> k, data |-> v],
                    !.size = @ + 1]
    BY <1>2, <2>1 DEF hashmap_put
  <2>6. QED
    BY <2>2, <2>3, <2>4, <2>5 DEF PutsInRound
<1>3. QED
  BY <1>1, <1>2

\* hashmap_get and hashmap_remove stop at the first slot with the key.
LEMMA FirstHit ==
  ASSUME NEW t, NEW k, Hits(t, k) # {}
  PROVE  Least(Hits(t, k)) \in Hits(t, k) /\ \A j \in Hits(t, k) : Least(Hits(t, k)) <= j
<1>1. Hits(t, k) \subseteq Nat
  BY HashAssumption DEF Hits, Rounds
<1>2. QED
  BY <1>1, LeastIsLeast

\* The fields of a table after a put.
LEMMA PutFields ==
  ASSUME NEW Stored, NEW t, IsTable(t, Stored), NEW k \in Key, NEW v \in Stored,
         NEW i \in Rounds, NEW x, PutsInRound(t, x, k, v, i)
  PROVE  /\ IsTable(x, Stored)
         /\ x.table_size = t.table_size
         /\ x.size = t.size + 1
         /\ x.aborted = t.aborted
         /\ x.data[Probe(t, k, i)] = [in_use |-> TRUE, key |-> k, data |-> v]
         /\ \A s \in Indices(t) : s # Probe(t, k, i) => x.data[s] = t.data[s]
<1>1. Probe(t, k, i) \in Indices(t)
  BY ProbeInTable
<1> DEFINE slot == [in_use |-> TRUE, key |-> k, data |-> v]
<1>2. slot \in [in_use : BOOLEAN, key : Key \cup {NULL}, data : Stored \cup {NULL}]
  OBVIOUS
<1> HIDE DEF slot
<1>3. x = [t EXCEPT !.data[Probe(t, k, i)] = slot, !.size = @ + 1]
  BY DEF PutsInRound, slot
<1>4. /\ x.table_size = t.table_size /\ x.size = t.size + 1 /\ x.aborted = t.aborted
      /\ x.data = [t.data EXCEPT ![Probe(t, k, i)] = slot]
      /\ x = [table_size |-> x.table_size, size |-> x.size, aborted |-> x.aborted, data |-> x.data]
  BY <1>3 DEF IsTable
<1>5. Indices(x) = Indices(t)
  BY <1>4 DEF Indices
<1>6. x.data \in [Indices(t) -> [in_use : BOOLEAN, key : Key \cup {NULL}, data : Stored \cup {NULL}]]
  BY <1>1, <1>2, <1>4 DEF IsTable
<1>7. IsTable(x, Stored)
  BY <1>4, <1>5, <1>6 DEF IsTable
<1>8. QED
  BY <1>1, <1>4, <1>7 DEF IsTable, slot

\* The fields of a table after a removal that found its key in round i.
LEMMA RemoveFields ==
  ASSUME NEW Stored, NEW t, IsTable(t, Stored), NEW k \in Key, Hits(t, k) # {}
  PROVE  LET i == Least(Hits(t, k))
             x == hashmap_remove(t, k)
         IN  /\ IsTable(x, Stored)
             /\ x.table_size = t.table_size
             /\ x.size = t.size - 1
             /\ x.aborted = t.aborted
             /\ x.data[Probe(t, k, i)] = Free
             /\ \A s \in Indices(t) : s # Probe(t, k, i) => x.data[s] = t.data[s]
<1> DEFINE i == Least(Hits(t, k))
           x == hashmap_remove(t, k)
<1>1. i \in Rounds
  <2>1. i \in Hits(t, k)
    BY FirstHit
  <2>2. Hits(t, k) \subseteq Rounds
    BY DEF Hits
  <2>3. QED
    BY <2>1, <2>2
<1>2. x = [t EXCEPT !.data[Probe(t, k, i)] = Free, !.size = @ - 1]
  BY DEF hashmap_remove
<1> HIDE DEF i, x
<1>3. Probe(t, k, i) \in Indices(t)
  BY <1>1, ProbeInTable
<1>4. Free \in [in_use : BOOLEAN, key : Key \cup {NULL}, data : Stored \cup {NULL}]
  BY DEF Free
<1>5. /\ x.table_size = t.table_size /\ x.size = t.size - 1 /\ x.aborted = t.aborted
      /\ x.data = [t.data EXCEPT ![Probe(t, k, i)] = Free]
      /\ x = [table_size |-> x.table_size, size |-> x.size, aborted |-> x.aborted, data |-> x.data]
  BY <1>2 DEF IsTable
<1>6. Indices(x) = Indices(t)
  BY <1>5 DEF Indices
<1>7. x.data \in [Indices(t) -> [in_use : BOOLEAN, key : Key \cup {NULL}, data : Stored \cup {NULL}]]
  BY <1>3, <1>4, <1>5 DEF IsTable
<1>8. IsTable(x, Stored)
  BY <1>5, <1>6, <1>7 DEF IsTable
<1>9. QED
  BY <1>3, <1>5, <1>8 DEF IsTable, i, x

\* In a slot that no other key uses, neither a put nor a removal of a key
\* changes what a loop for another key finds.
LEMMA OtherKeysKept ==
  ASSUME NEW Stored, NEW t, IsTable(t, Stored), NEW x, x.table_size = t.table_size,
         NEW p \in Indices(t), NEW k \in Key, NEW k2 \in Key, k2 # k,
         \A s \in Indices(t) : s # p => x.data[s] = t.data[s],
         t.data[p].in_use => t.data[p].key = k,
         x.data[p].in_use => x.data[p].key = k
  PROVE  /\ Hits(x, k2) = Hits(t, k2)
         /\ \A i \in Rounds : Probe(x, k2, i) = Probe(t, k2, i)
         /\ \A i \in Hits(t, k2) : x.data[Probe(t, k2, i)] = t.data[Probe(t, k2, i)]
         /\ hashmap_get(x, k2) = hashmap_get(t, k2)
<1>1. \A i \in Rounds : Probe(x, k2, i) = Probe(t, k2, i)
  BY DEF Probe
<1>2. \A i \in Rounds : Probe(t, k2, i) \in Indices(t)
  BY ProbeInTable
<1>3. ASSUME NEW i \in Rounds
      PROVE  /\ i \in Hits(x, k2) <=> i \in Hits(t, k2)
             /\ i \in Hits(t, k2) => x.data[Probe(t, k2, i)] = t.data[Probe(t, k2, i)]
  <2>1. CASE Probe(t, k2, i) = p
    BY <1>1, <2>1 DEF Hits
  <2>2. CASE Probe(t, k2, i) # p
    BY <1>1, <1>2, <2>2 DEF Hits
  <2>3. QED
    BY <2>1, <2>2
<1>4. Hits(x, k2) = Hits(t, k2)
  BY <1>3 DEF Hits
<1>5. \A i \in Hits(t, k2) : x.data[Probe(t, k2, i)] = t.data[Probe(t, k2, i)]
  BY <1>3 DEF Hits
<1>6. hashmap_get(x, k2) = hashmap_get(t, k2)
  <2>1. CASE Hits(t, k2) = {}
    BY <1>4, <2>1 DEF hashmap_get
  <2>2. CASE Hits(t, k2) # {}
    <3>1. Least(Hits(t, k2)) \in Hits(t, k2)
      BY <2>2, FirstHit
    <3>2. Least(Hits(t, k2)) \in Rounds
      BY <3>1 DEF Hits
    <3>3. QED
      BY <1>1, <1>4, <1>5, <2>2, <3>1, <3>2 DEF hashmap_get
  <2>3. QED
    BY <2>1, <2>2
<1>7. QED
  BY <1>1, <1>4, <1>5, <1>6

-----------------------------------------------------------------------------
(* A table that is only put into, as those of the dictionary *)

\* A table, whatever it stores.
IsMap(t) == \E Stored : IsTable(t, Stored)

\* A new table has no key.
LEMMA NewMap ==
  ASSUME NEW n \in Nat \ {0}
  PROVE  /\ IsMap(hashmap_new(n)) /\ ~hashmap_new(n).aborted
         /\ \A k \in Key : hashmap_get(hashmap_new(n), k) = NULL
<1> DEFINE t == hashmap_new(n)
<1>1. IsTable(t, {}) /\ ~t.aborted /\ t.table_size = n
  BY DEF IsTable, Indices, hashmap_new, Free
<1>2. \A s \in Indices(t) : ~t.data[s].in_use
  BY DEF Indices, hashmap_new, Free
<1> HIDE DEF t
<1>3. ASSUME NEW k \in Key
      PROVE  hashmap_get(t, k) = NULL
  <2>1. \A i \in Rounds : Probe(t, k, i) \in Indices(t)
    BY <1>1, ProbeInTable
  <2>2. Hits(t, k) = {}
    BY <1>2, <2>1 DEF Hits
  <2>3. QED
    BY <2>2 DEF hashmap_get
<1>4. QED
  BY <1>1, <1>3 DEF IsMap, t

\* A table may store more than it does.
LEMMA StoresMore ==
  ASSUME NEW Stored, NEW More, NEW t, IsTable(t, Stored), Stored \subseteq More
  PROVE  IsTable(t, More)
BY DEF IsTable

\* Until a put gives up, a table answers the key put with its value, and the others
\* as before: the first slot of a chain that fits is before the first with the key,
\* or that slot itself.
LEMMA PutAnswers ==
  ASSUME NEW t, IsMap(t), NEW k \in Key, NEW v, ~hashmap_put(t, k, v).aborted
  PROVE  /\ IsMap(hashmap_put(t, k, v))
         /\ hashmap_get(hashmap_put(t, k, v), k) = v
         /\ \A k2 \in Key : k2 # k => hashmap_get(hashmap_put(t, k, v), k2) = hashmap_get(t, k2)
<1> DEFINE x == hashmap_put(t, k, v)
<1>1. PICK Less : IsTable(t, Less)
  BY DEF IsMap
<1> DEFINE Stored == Less \cup {v}
<1>2. IsTable(t, Stored) /\ v \in Stored
  BY <1>1, StoresMore
<1> HIDE DEF Stored
<1>3. PICK i \in Rounds : PutsInRound(t, x, k, v, i)
  <2>1. [t EXCEPT !.aborted = TRUE].aborted = TRUE
    BY <1>2 DEF IsTable
  <2>2. QED
    BY <2>1, PutWritesFirstFit
<1> DEFINE p == Probe(t, k, i)
<1> HIDE DEF x
<1>4. /\ IsTable(x, Stored) /\ x.table_size = t.table_size
      /\ x.data[p] = [in_use |-> TRUE, key |-> k, data |-> v]
      /\ \A s \in Indices(t) : s # p => x.data[s] = t.data[s]
  BY <1>2, <1>3, PutFields
<1>5. p \in Indices(t)
  BY <1>2, ProbeInTable
<1>6. t.data[p].in_use => t.data[p].key = k
  BY <1>3 DEF PutsInRound, Fits
<1> HIDE DEF p
<1>7. \A k2 \in Key : k2 # k => hashmap_get(x, k2) = hashmap_get(t, k2)
  BY <1>2, <1>4, <1>5, <1>6, OtherKeysKept
<1>8. \A j \in Rounds : Probe(x, k, j) = Probe(t, k, j) /\ Probe(t, k, j) \in Indices(t)
  BY <1>2, <1>4, ProbeInTable DEF Probe
<1>9. i \in Hits(x, k) /\ Probe(x, k, i) = p
  BY <1>4, <1>8 DEF Hits, p
<1>10. \A j \in Hits(x, k) : i <= j
  <2> SUFFICES ASSUME NEW j \in Hits(x, k), ~(i <= j) PROVE FALSE
    OBVIOUS
  <2>1. j \in Rounds /\ j \in Nat /\ i \in Nat
    BY HashAssumption DEF Hits, Rounds
  <2>2. j \notin Fits(t, k)
    BY <1>3, <2>1 DEF PutsInRound
  <2>3. Probe(t, k, j) # p
    BY <1>6, <2>1, <2>2 DEF Fits
  <2>4. x.data[Probe(t, k, j)] = t.data[Probe(t, k, j)]
    BY <1>4, <1>8, <2>1, <2>3
  <2>5. j \in Hits(t, k)
    BY <1>8, <2>1, <2>4 DEF Hits
  <2>6. QED
    BY <2>2, <2>5 DEF Hits, Fits
<1>11. Least(Hits(x, k)) = i
  <2>1. Hits(x, k) # {} /\ Hits(x, k) \subseteq Nat
    BY <1>9, HashAssumption DEF Hits, Rounds
  <2>2. Least(Hits(x, k)) \in Hits(x, k) /\ Least(Hits(x, k)) <= i
    BY <1>9, <2>1, LeastIsLeast
  <2>3. Least(Hits(x, k)) \in Nat /\ i \in Nat /\ i <= Least(Hits(x, k))
    BY <1>9, <1>10, <2>1, <2>2
  <2>4. QED
    BY <2>2, <2>3
<1>12. hashmap_get(x, k) = v
  BY <1>4, <1>9, <1>11 DEF hashmap_get
<1>13. QED
  BY <1>4, <1>7, <1>12 DEF IsMap, x
=============================================================================
