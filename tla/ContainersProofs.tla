-------------------------- MODULE ContainersProofs --------------------------
(***************************************************************************)
(* For every hash function, table size and chain length, and for every     *)
(* sequence of calls, the map answers like a function and the vector like  *)
(* a sequence.                                                             *)
(***************************************************************************)
EXTENDS Containers, HashMapProofs, FiniteSetTheorems, SequenceTheorems, TLAPS

-----------------------------------------------------------------------------
(* The map and the vector under any calls *)

InUse(t) == {i \in DOMAIN t.data : t.data[i].in_use}

\* The map has the types of TypeOK.
MapType ==
  /\ IsTable(m, Value) /\ m.table_size = TABLE_SIZE
  /\ want \in [Key -> Value \cup {NULL}]
  /\ holed \in BOOLEAN /\ refilled \in BOOLEAN
  /\ refilled => holed

\* As long as no hole was refilled a key sits in one slot of its chain, and
\* only if it is wanted.
OneSlot ==
  ~m.aborted /\ ~refilled =>
    \A k \in Key :
      /\ want[k] = NULL => Hits(m, k) = {}
      /\ \A i, j \in Hits(m, k) : Probe(m, k, i) = Probe(m, k, j)

\* As long as nothing was removed there is no free slot before the first with
\* a key.
NoGaps ==
  ~m.aborted /\ ~holed =>
    \A k \in Key, i \in Rounds :
      Hits(m, k) # {} /\ (\A j \in Hits(m, k) : i < j) => m.data[Probe(m, k, i)].in_use

\* The inductive invariant of the map.
MapInv == MapType /\ PresentKeysAnswered /\ OneSlot /\ NoGaps /\ SizeCoversUse
-----------------------------------------------------------------------------
\* A new table is empty.
LEMMA MapInitInv == MapInit => MapInv
<1> SUFFICES ASSUME MapInit PROVE MapInv
  OBVIOUS
<1>1. /\ m = hashmap_new(TABLE_SIZE) /\ want = [k \in Key |-> NULL]
      /\ holed = FALSE /\ refilled = FALSE
  BY DEF MapInit
<1>2. /\ m.table_size = TABLE_SIZE /\ m.size = 0
      /\ m.data = [i \in 0 .. TABLE_SIZE - 1 |-> Free]
  BY <1>1 DEF hashmap_new
<1>3. IsTable(m, Value)
  BY <1>1, <1>2, ContainersAssumption DEF IsTable, Indices, hashmap_new, Free
<1>4. MapType
  BY <1>1, <1>2, <1>3 DEF MapType
<1>5. \A s \in Indices(m) : ~m.data[s].in_use
  BY <1>2 DEF Indices, Free
<1>6. \A k \in Key : Hits(m, k) = {}
  <2>1. \A k \in Key, i \in Rounds : Probe(m, k, i) \in Indices(m)
    BY <1>3, ProbeInTable
  <2>2. QED
    BY <1>5, <2>1 DEF Hits
<1>7. PresentKeysAnswered /\ OneSlot /\ NoGaps
  BY <1>1, <1>6 DEF PresentKeysAnswered, OneSlot, NoGaps
<1>8. SizeCoversUse
  <2>1. {i \in DOMAIN m.data : m.data[i].in_use} = {}
    BY <1>2, <1>5 DEF Indices
  <2>2. Cardinality({i \in DOMAIN m.data : m.data[i].in_use}) = 0
    BY <2>1, FS_EmptySet, Zenon
  <2>3. QED
    BY <1>2, <2>2 DEF SizeCoversUse, hashmap_length
<1>9. QED
  BY <1>4, <1>7, <1>8 DEF MapInv

\* The slots in use are finitely many.
LEMMA InUseFinite ==
  ASSUME NEW t, IsTable(t, Value)
  PROVE  IsFiniteSet(InUse(t)) /\ Cardinality(InUse(t)) \in Nat
<1>1. t.table_size - 1 \in Int
  BY DEF IsTable
<1>2. IsFiniteSet(0 .. t.table_size - 1)
  BY <1>1, FS_Interval
<1>3. InUse(t) \in SUBSET (0 .. t.table_size - 1)
  BY DEF InUse, IsTable, Indices
<1>4. IsFiniteSet(InUse(t))
  BY <1>2, <1>3, FS_Subset
<1>5. QED
  BY <1>4, FS_CardinalityType
-----------------------------------------------------------------------------
\* A put that writes a slot keeps the invariant.
LEMMA PutInRound ==
  ASSUME MapInv, NEW k \in Key, NEW v \in Value, Put(k, v),
         NEW i \in Rounds, PutsInRound(m, m', k, v, i)
  PROVE  MapInv'
<1> DEFINE p == Probe(m, k, i)
<1>1. /\ IsTable(m, Value) /\ m.table_size = TABLE_SIZE /\ ~m.aborted
      /\ want' = [want EXCEPT ![k] = v] /\ want \in [Key -> Value \cup {NULL}]
      /\ refilled' = (refilled \/ holed) /\ holed' = holed
      /\ holed \in BOOLEAN /\ refilled \in BOOLEAN /\ refilled => holed
  BY DEF MapInv, MapType, Put
<1>2. /\ IsTable(m', Value)
      /\ m'.table_size = m.table_size
      /\ m'.size = m.size + 1
      /\ m'.aborted = m.aborted
      /\ m'.data[p] = [in_use |-> TRUE, key |-> k, data |-> v]
      /\ \A s \in Indices(m) : s # p => m'.data[s] = m.data[s]
  BY <1>1, PutFields
<1>3. p \in Indices(m)
  BY <1>1, ProbeInTable
<1>4. m.data[p].in_use => m.data[p].key = k
  BY DEF PutsInRound, Fits
<1> HIDE DEF p
<1>5. MapType'
  <2>1. IsTable(m', Value) /\ m'.table_size = TABLE_SIZE
    BY <1>1, <1>2
  <2>2. want' \in [Key -> Value \cup {NULL}]
    BY <1>1
  <2>3. holed' \in BOOLEAN /\ refilled' \in BOOLEAN /\ (refilled' => holed')
    <3>1. refilled' = (refilled \/ holed) /\ holed' = holed
      BY DEF Put
    <3>2. refilled \in BOOLEAN /\ holed \in BOOLEAN /\ (refilled => holed)
      BY DEF MapInv, MapType
    <3>3. QED
      BY <3>1, <3>2
  <2>4. QED
    BY <2>1, <2>2, <2>3 DEF MapType
<1>6. \A k2 \in Key, j \in Rounds : Probe(m', k2, j) = Probe(m, k2, j)
  BY <1>2 DEF Probe
<1>7. \A k2 \in Key : k2 # k =>
        /\ Hits(m', k2) = Hits(m, k2)
        /\ \A j \in Hits(m, k2) : m'.data[Probe(m, k2, j)] = m.data[Probe(m, k2, j)]
        /\ hashmap_get(m', k2) = hashmap_get(m, k2)
  BY <1>1, <1>2, <1>3, <1>4, OtherKeysKept
<1>8. i \in Hits(m', k) /\ Probe(m', k, i) = p
  BY <1>2, <1>6 DEF Hits, p
\* No slot before the one written has the key.
<1>9. \A j \in Hits(m', k) : i <= j
  <2> SUFFICES ASSUME NEW j \in Hits(m', k), ~(i <= j) PROVE FALSE
    OBVIOUS
  <2>1. j \in Rounds /\ j \in Nat /\ i \in Nat
    BY HashAssumption DEF Hits, Rounds
  <2>2. j \notin Fits(m, k)
    BY <2>1 DEF PutsInRound
  <2>3. Probe(m, k, j) \in Indices(m)
    BY <1>1, <2>1, ProbeInTable
  <2>4. Probe(m, k, j) # p
    BY <1>4, <2>1, <2>2 DEF Fits
  <2>5. m'.data[Probe(m, k, j)] = m.data[Probe(m, k, j)]
    BY <1>2, <2>3, <2>4
  <2>6. j \in Hits(m, k)
    BY <1>6, <2>1, <2>5 DEF Hits
  <2>7. QED
    BY <2>2, <2>6 DEF Hits, Fits
<1>10. hashmap_get(m', k) = v
  <2>1. Hits(m', k) # {} /\ Hits(m', k) \subseteq Nat
    BY <1>8, HashAssumption DEF Hits, Rounds
  <2>2. Least(Hits(m', k)) \in Hits(m', k) /\ \A j \in Hits(m', k) : Least(Hits(m', k)) <= j
    BY <2>1, LeastIsLeast
  <2>3. Least(Hits(m', k)) = i
    <3>1. Least(Hits(m', k)) \in Nat /\ i \in Nat
      BY <1>8, <2>1, <2>2
    <3>2. Least(Hits(m', k)) <= i /\ i <= Least(Hits(m', k))
      BY <1>8, <1>9, <2>2
    <3>3. QED
      BY <3>1, <3>2
  <2>4. QED
    BY <1>2, <1>8, <2>1, <2>3 DEF hashmap_get
<1>11. PresentKeysAnswered'
  <2>1. \A k2 \in Key : k2 # k => want'[k2] = want[k2]
    BY <1>1
  <2>2. want'[k] = v
    BY <1>1
  <2>3. QED
    BY <1>1, <1>7, <1>10, <2>1, <2>2 DEF PresentKeysAnswered, MapInv
<1>12. OneSlot'
  <2> SUFFICES ASSUME ~refilled', NEW k2 \in Key
               PROVE  /\ want'[k2] = NULL => Hits(m', k2) = {}
                      /\ \A j1, j2 \in Hits(m', k2) : Probe(m', k2, j1) = Probe(m', k2, j2)
    BY DEF OneSlot
  <2>1. ~refilled /\ ~holed
    BY <1>1
  <2>2. \A k3 \in Key :
          /\ want[k3] = NULL => Hits(m, k3) = {}
          /\ \A j1, j2 \in Hits(m, k3) : Probe(m, k3, j1) = Probe(m, k3, j2)
    BY <1>1, <2>1 DEF MapInv, OneSlot
  <2>3. CASE k2 # k
    <3>1. want'[k2] = want[k2]
      BY <1>1, <2>3
    <3>2. \A j \in Hits(m, k2) : j \in Rounds
      BY DEF Hits
    <3>3. QED
      BY <1>6, <1>7, <2>2, <2>3, <3>1, <3>2
  <2>4. CASE k2 = k
    <3>1. want'[k] # NULL
      BY <1>1, ContainersAssumption
    <3>2. ASSUME NEW j \in Hits(m', k) PROVE Probe(m', k, j) = p
      <4> SUFFICES ASSUME Probe(m, k, j) # p PROVE FALSE
        BY <1>6, <3>2 DEF Hits
      <4>1. j \in Rounds /\ j \in Nat /\ i \in Nat /\ i <= j /\ i # j
        BY <1>9, <3>2, HashAssumption DEF Hits, Rounds, p
      <4>2. Probe(m, k, j) \in Indices(m)
        BY <1>1, <4>1, ProbeInTable
      <4>3. j \in Hits(m, k)
        BY <1>2, <1>6, <3>2, <4>1, <4>2 DEF Hits
      <4>4. m.data[p].in_use
        <5> SUFFICES ASSUME i \notin Hits(m, k) PROVE m.data[p].in_use
          BY DEF Hits, p
        <5>1. \A h \in Hits(m, k) : h \in Fits(m, k) /\ h \in Rounds /\ h # i
          BY DEF Hits, Fits
        <5>2. \A h \in Hits(m, k) : ~(h < i) /\ h \in Nat /\ i \in Nat
          BY <5>1, HashAssumption DEF PutsInRound, Rounds
        <5>3. \A h \in Hits(m, k) : i < h
          BY <5>1, <5>2
        <5>4. QED
          BY <1>1, <2>1, <4>3, <5>3 DEF MapInv, NoGaps, p
      <4>5. i \in Hits(m, k)
        BY <1>4, <4>4 DEF Hits, p
      <4>6. QED
        BY <2>2, <4>3, <4>5 DEF p
    <3>3. QED
      BY <2>4, <3>1, <3>2
  <2>5. QED
    BY <2>3, <2>4
<1>13. NoGaps'
  <2> SUFFICES ASSUME ~holed', NEW k2 \in Key, NEW j \in Rounds, Hits(m', k2) # {},
                      \A h \in Hits(m', k2) : j < h
               PROVE  m'.data[Probe(m', k2, j)].in_use
    BY DEF NoGaps
  <2>1. Probe(m', k2, j) = Probe(m, k2, j) /\ Probe(m, k2, j) \in Indices(m)
    BY <1>1, <1>6, ProbeInTable
  <2>2. m.data[Probe(m, k2, j)].in_use
    <3>1. CASE k2 # k
      BY <1>1, <1>7, <3>1 DEF MapInv, NoGaps
    <3>2. CASE k2 = k
      <4>1. j \notin Fits(m, k)
        BY <1>8, <3>2 DEF PutsInRound
      <4>2. QED
        BY <3>2, <4>1 DEF Fits
    <3>3. QED
      BY <3>1, <3>2
  <2>3. QED
    BY <1>2, <2>1, <2>2
<1>14. SizeCoversUse'
  <2>1. InUse(m') = InUse(m) \cup {p}
    <3>1. DOMAIN m.data = Indices(m) /\ DOMAIN m'.data = Indices(m)
      BY <1>1, <1>2 DEF IsTable, Indices
    <3>2. QED
      BY <1>2, <1>3, <3>1 DEF InUse
  <2>2. IsFiniteSet(InUse(m)) /\ Cardinality(InUse(m)) \in Nat
    BY <1>1, InUseFinite
  <2>3. Cardinality(InUse(m')) <= Cardinality(InUse(m)) + 1
    <3>1. Cardinality(InUse(m) \cup {p}) =
            IF p \in InUse(m) THEN Cardinality(InUse(m)) ELSE Cardinality(InUse(m)) + 1
      BY <2>2, FS_AddElement
    <3>2. QED
      BY <2>1, <2>2, <3>1
  <2>4. Cardinality(InUse(m)) <= m.size /\ m.size \in Int
    BY <1>1 DEF MapInv, SizeCoversUse, InUse, hashmap_length, IsTable
  <2>5. Cardinality(InUse(m')) <= m'.size
    <3>1. Cardinality(InUse(m')) \in Nat
      BY <1>2, InUseFinite
    <3>2. QED
      BY <1>2, <2>2, <2>3, <2>4, <3>1
  <2>6. QED
    BY <2>5 DEF SizeCoversUse, InUse, hashmap_length
<1>15. QED
  BY <1>5, <1>11, <1>12, <1>13, <1>14 DEF MapInv

\* A removal of a key that is not there keeps the invariant.
LEMMA RemoveMissing ==
  ASSUME MapInv, NEW k \in Key, Remove(k), Hits(m, k) = {}
  PROVE  MapInv'
<1>1. m' = m /\ want' = [want EXCEPT ![k] = NULL] /\ refilled' = refilled
  BY DEF Remove, hashmap_remove
<1>2. holed' = (holed \/ m' # m)
  BY DEF Remove
<1>3. refilled \in BOOLEAN /\ holed \in BOOLEAN /\ (refilled => holed)
  BY DEF MapInv, MapType
<1>4. holed' \in BOOLEAN /\ (holed' <=> holed)
  BY <1>1, <1>2, <1>3
<1>5. want \in [Key -> Value \cup {NULL}] /\ IsTable(m, Value) /\ m.table_size = TABLE_SIZE
  BY DEF MapInv, MapType
<1>6. MapType'
  <2>1. want' \in [Key -> Value \cup {NULL}]
    BY <1>1, <1>5
  <2>2. QED
    BY <1>1, <1>3, <1>4, <1>5, <2>1 DEF MapType
<1>7. \A k2 \in Key : k2 # k => want'[k2] = want[k2]
  BY <1>1, <1>5
<1>8. want'[k] = NULL
  BY <1>1, <1>5
<1>9. PresentKeysAnswered'
  BY <1>1, <1>7, <1>8 DEF MapInv, PresentKeysAnswered
<1>10. OneSlot'
  BY <1>1, <1>7, <1>8 DEF MapInv, OneSlot
<1>11. NoGaps' /\ SizeCoversUse'
  BY <1>1, <1>4 DEF MapInv, NoGaps, SizeCoversUse
<1>12. QED
  BY <1>6, <1>9, <1>10, <1>11 DEF MapInv

\* A removal of a key that is there keeps the invariant.
LEMMA RemovePresent ==
  ASSUME MapInv, NEW k \in Key, Remove(k), Hits(m, k) # {}
  PROVE  MapInv'
<1> DEFINE i == Least(Hits(m, k))
           p == Probe(m, k, i)
<1>1. /\ IsTable(m, Value) /\ m.table_size = TABLE_SIZE /\ ~m.aborted
      /\ m' = hashmap_remove(m, k)
      /\ want' = [want EXCEPT ![k] = NULL] /\ want \in [Key -> Value \cup {NULL}]
      /\ refilled' = refilled
  BY DEF MapInv, MapType, Remove
<1>2. /\ IsTable(m', Value)
      /\ m'.table_size = m.table_size
      /\ m'.size = m.size - 1
      /\ m'.aborted = m.aborted
      /\ m'.data[p] = Free
      /\ \A s \in Indices(m) : s # p => m'.data[s] = m.data[s]
  BY <1>1, RemoveFields
<1>3. i \in Hits(m, k) /\ i \in Rounds
  <2>1. i \in Hits(m, k)
    BY FirstHit
  <2>2. QED
    BY <2>1 DEF Hits
<1>4. p \in Indices(m) /\ m.data[p].in_use /\ m.data[p].key = k
  BY <1>1, <1>3, ProbeInTable DEF Hits
<1>5. ~m'.data[p].in_use
  BY <1>2 DEF Free
<1> HIDE DEF i, p
<1>6. holed' = TRUE
  <2>1. holed' = (holed \/ m' # m)
    BY DEF Remove
  <2>2. m' # m
    BY <1>4, <1>5
  <2>3. holed \in BOOLEAN
    BY DEF MapInv, MapType
  <2>4. QED
    BY <2>1, <2>2, <2>3
<1>7. MapType'
  <2>1. want' \in [Key -> Value \cup {NULL}]
    BY <1>1
  <2>2. refilled \in BOOLEAN
    BY DEF MapInv, MapType
  <2>3. QED
    BY <1>1, <1>2, <1>6, <2>1, <2>2 DEF MapType
<1>8. \A k2 \in Key, j \in Rounds : Probe(m', k2, j) = Probe(m, k2, j)
  BY <1>2 DEF Probe
<1>9. \A k2 \in Key : k2 # k =>
        /\ Hits(m', k2) = Hits(m, k2)
        /\ hashmap_get(m', k2) = hashmap_get(m, k2)
  BY <1>1, <1>2, <1>4, <1>5, OtherKeysKept
<1>10. want'[k] = NULL /\ \A k2 \in Key : k2 # k => want'[k2] = want[k2]
  BY <1>1
<1>11. PresentKeysAnswered'
  BY <1>1, <1>9, <1>10 DEF PresentKeysAnswered, MapInv
<1>12. OneSlot'
  <2> SUFFICES ASSUME ~refilled', NEW k2 \in Key
               PROVE  /\ want'[k2] = NULL => Hits(m', k2) = {}
                      /\ \A j1, j2 \in Hits(m', k2) : Probe(m', k2, j1) = Probe(m', k2, j2)
    BY DEF OneSlot
  <2>1. \A k3 \in Key :
          /\ want[k3] = NULL => Hits(m, k3) = {}
          /\ \A j1, j2 \in Hits(m, k3) : Probe(m, k3, j1) = Probe(m, k3, j2)
    BY <1>1 DEF MapInv, OneSlot
  <2>2. CASE k2 # k
    <3>1. \A j \in Hits(m, k2) : j \in Rounds
      BY DEF Hits
    <3>2. QED
      BY <1>8, <1>9, <1>10, <2>1, <2>2, <3>1
  <2>3. CASE k2 = k
    <3>1. ASSUME NEW j \in Hits(m', k) PROVE FALSE
      <4>1. j \in Rounds /\ Probe(m, k, j) \in Indices(m)
        <5>1. j \in Rounds
          BY DEF Hits
        <5>2. QED
          BY <1>1, <5>1, ProbeInTable
      <4>2. Probe(m, k, j) # p
        BY <1>5, <1>8, <4>1 DEF Hits
      <4>3. j \in Hits(m, k)
        BY <1>2, <1>8, <4>1, <4>2 DEF Hits
      <4>4. QED
        BY <1>3, <2>1, <4>2, <4>3 DEF p
    <3>2. QED
      BY <2>3, <3>1
  <2>4. QED
    BY <2>2, <2>3
<1>13. NoGaps'
  BY <1>6 DEF NoGaps
<1>14. SizeCoversUse'
  <2>1. InUse(m') = InUse(m) \ {p} /\ p \in InUse(m)
    <3>1. DOMAIN m.data = Indices(m) /\ DOMAIN m'.data = Indices(m)
      BY <1>1, <1>2 DEF IsTable, Indices
    <3>2. QED
      BY <1>2, <1>4, <1>5, <3>1 DEF InUse
  <2>2. IsFiniteSet(InUse(m)) /\ Cardinality(InUse(m)) \in Nat
    BY <1>1, InUseFinite
  <2>3. Cardinality(InUse(m')) = Cardinality(InUse(m)) - 1
    <3>1. Cardinality(InUse(m) \ {p}) =
            IF p \in InUse(m) THEN Cardinality(InUse(m)) - 1 ELSE Cardinality(InUse(m))
      BY <2>2, FS_RemoveElement
    <3>2. QED
      BY <2>1, <3>1
  <2>4. Cardinality(InUse(m)) <= m.size /\ m.size \in Int
    BY <1>1 DEF MapInv, SizeCoversUse, InUse, hashmap_length, IsTable
  <2>5. Cardinality(InUse(m')) <= m'.size
    BY <1>2, <2>2, <2>3, <2>4
  <2>6. QED
    BY <2>5 DEF SizeCoversUse, InUse, hashmap_length
<1>15. QED
  BY <1>7, <1>11, <1>12, <1>13, <1>14 DEF MapInv

\* A put that finds no slot ends the process, after which nothing is promised.
LEMMA PutAborts ==
  ASSUME MapInv, NEW k \in Key, NEW v \in Value, Put(k, v),
         m' = [m EXCEPT !.aborted = TRUE]
  PROVE  MapInv'
<1>1. /\ m'.aborted = TRUE /\ m'.table_size = m.table_size
      /\ m'.size = m.size /\ m'.data = m.data
      /\ m' = [table_size |-> m.table_size, size |-> m.size, aborted |-> TRUE, data |-> m.data]
  BY DEF MapInv, MapType, IsTable
<1>2. IsTable(m', Value) /\ m'.table_size = TABLE_SIZE
  BY <1>1 DEF MapInv, MapType, IsTable, Indices
<1>3. want' \in [Key -> Value \cup {NULL}]
  BY DEF Put, MapInv, MapType
<1>4. refilled' = (refilled \/ holed) /\ holed' = holed
  BY DEF Put
<1>5. refilled \in BOOLEAN /\ holed \in BOOLEAN /\ (refilled => holed)
  BY DEF MapInv, MapType
<1>6. refilled' \in BOOLEAN /\ holed' \in BOOLEAN /\ (refilled' => holed')
  BY <1>4, <1>5
<1>7. MapType'
  BY <1>2, <1>3, <1>6 DEF MapType
<1>8. PresentKeysAnswered' /\ OneSlot' /\ NoGaps'
  BY <1>1 DEF PresentKeysAnswered, OneSlot, NoGaps
<1>9. SizeCoversUse'
  BY <1>1 DEF MapInv, SizeCoversUse, hashmap_length
<1>10. QED
  BY <1>7, <1>8, <1>9 DEF MapInv

\* Every call of the map keeps the invariant.
LEMMA MapStep ==
  ASSUME MapInv, MapNext
  PROVE  MapInv'
<1>1. ASSUME NEW k \in Key, Remove(k) PROVE MapInv'
  BY <1>1, RemoveMissing, RemovePresent
<1>2. ASSUME NEW k \in Key, NEW v \in Value, Put(k, v) PROVE MapInv'
  <2>1. m' = hashmap_put(m, k, v)
    BY <1>2 DEF Put
  <2>2. CASE m' = [m EXCEPT !.aborted = TRUE]
    BY <1>2, <2>2, PutAborts
  <2>3. CASE \E i \in Rounds : PutsInRound(m, m', k, v, i)
    BY <1>2, <2>3, PutInRound
  <2>4. QED
    BY <2>1, <2>2, <2>3, PutWritesFirstFit
<1>3. QED
  BY <1>1, <1>2 DEF MapNext
-----------------------------------------------------------------------------
\* The vector's array has `size' cells, of which the first Len(list) hold the
\* list; no block is in it twice, and none that was freed.
VecInv ==
  /\ vec = [data |-> vec.data, count |-> vec.count, size |-> vec.size]
  /\ vec.size \in Nat \ {0}
  /\ vec.data \in [0 .. vec.size - 1 -> Pointers \cup {NULL}]
  /\ vec.count = Len(list) /\ vec.count <= vec.size
  /\ list \in Seq(Pointers) /\ gone \subseteq Pointers
  /\ \A i \in 1 .. Len(list) : vec.data[i - 1] = list[i] /\ list[i] \notin gone
  /\ \A i, j \in 1 .. Len(list) : list[i] = list[j] => i = j

LEMMA VecInitInv == VecInit => VecInv
<1> SUFFICES ASSUME VecInit PROVE VecInv
  OBVIOUS
<1>1. vec = V!vector_init /\ list = <<>> /\ gone = {}
  BY DEF VecInit
<1>2. /\ vec.size = 4 /\ vec.count = 0 /\ vec.data = [i \in 0 .. 3 |-> NULL]
      /\ vec = [data |-> vec.data, count |-> vec.count, size |-> vec.size]
  BY <1>1 DEF V!vector_init, V!INITIAL_VECTOR_SIZE
<1>3. Len(list) = 0 /\ list \in Seq(Pointers)
  BY <1>1
<1>4. QED
  BY <1>1, <1>2, <1>3 DEF VecInv

\* vector_add puts the element behind the others, in an array it has doubled if
\* it was full.
LEMMA AddStep ==
  ASSUME VecInv, NEW e \in Unused, Add(e)
  PROVE  VecInv'
<1> DEFINE n == Len(list)
           big == V!Grown(vec)
<1>1. /\ vec' = [big EXCEPT !.data[n] = e, !.count = @ + 1]
      /\ list' = Append(list, e) /\ gone' = gone
  BY DEF Add, VecInv, V!vector_add
<1>2. /\ n \in Nat /\ vec.size \in Nat /\ vec.size > 0 /\ vec.count = n /\ n <= vec.size
      /\ vec.data \in [0 .. vec.size - 1 -> Pointers \cup {NULL}]
      /\ vec = [data |-> vec.data, count |-> vec.count, size |-> vec.size]
      /\ \A i \in 1 .. n : vec.data[i - 1] = list[i] /\ list[i] \notin gone
      /\ list \in Seq(Pointers) /\ gone \subseteq Pointers
  BY DEF VecInv
<1>3. e \in Pointers /\ e \notin gone /\ \A i \in 1 .. n : list[i] # e
  BY DEF Unused
<1>4. /\ big.count = n /\ big.size \in Nat /\ big.size > n
      /\ big.data \in [0 .. big.size - 1 -> Pointers \cup {NULL}]
      /\ \A i \in 1 .. n : big.data[i - 1] = list[i]
      /\ big = [data |-> big.data, count |-> big.count, size |-> big.size]
  <2>1. CASE vec.size = vec.count
    <3>1. big = [vec EXCEPT !.size = 2 * vec.size,
                            !.data = [i \in 0 .. 2 * vec.size - 1 |->
                                        IF i < vec.size THEN vec.data[i] ELSE NULL]]
      BY <2>1 DEF V!Grown
    <3>2. /\ big.count = n /\ big.size = 2 * vec.size
          /\ big.data = [i \in 0 .. 2 * vec.size - 1 |->
                           IF i < vec.size THEN vec.data[i] ELSE NULL]
          /\ big = [data |-> big.data, count |-> big.count, size |-> big.size]
      BY <1>2, <3>1
    <3> HIDE DEF big, n
    <3>3. \A i \in 0 .. 2 * vec.size - 1 : i < vec.size => i \in 0 .. vec.size - 1
      BY <1>2
    <3>4. \A i \in 1 .. n : i - 1 \in 0 .. 2 * vec.size - 1 /\ i - 1 < vec.size
      BY <1>2
    <3>5. big.data \in [0 .. big.size - 1 -> Pointers \cup {NULL}]
      BY <1>2, <3>2, <3>3
    <3>6. \A i \in 1 .. n : big.data[i - 1] = vec.data[i - 1]
      BY <3>2, <3>4
    <3>7. QED
      BY <1>2, <2>1, <3>2, <3>5, <3>6
  <2>2. CASE vec.size # vec.count
    BY <1>2, <2>2 DEF V!Grown
  <2>3. QED
    BY <2>1, <2>2
<1> HIDE DEF n, big
<1>5. /\ vec'.data = [big.data EXCEPT ![n] = e] /\ vec'.count = n + 1 /\ vec'.size = big.size
      /\ vec' = [data |-> vec'.data, count |-> vec'.count, size |-> vec'.size]
  BY <1>1, <1>4
<1>6. /\ Len(list') = n + 1 /\ list' \in Seq(Pointers)
      /\ list'[n + 1] = e /\ \A i \in 1 .. n : list'[i] = list[i]
  BY <1>1, <1>2, <1>3 DEF n
<1>7. n \in 0 .. big.size - 1
  BY <1>2, <1>4
<1>8. vec'.data \in [0 .. vec'.size - 1 -> Pointers \cup {NULL}]
  BY <1>3, <1>4, <1>5, <1>7
<1>9. ASSUME NEW i \in 1 .. n + 1
      PROVE  vec'.data[i - 1] = list'[i] /\ list'[i] \notin gone'
  <2>1. CASE i = n + 1
    BY <1>1, <1>2, <1>3, <1>4, <1>5, <1>6, <1>7, <2>1
  <2>2. CASE i # n + 1
    <3>1. i \in 1 .. n /\ i - 1 # n /\ i - 1 \in 0 .. big.size - 1
      BY <1>2, <1>4, <2>2
    <3>2. vec'.data[i - 1] = big.data[i - 1]
      BY <1>4, <1>5, <3>1
    <3>3. QED
      BY <1>1, <1>2, <1>4, <1>6, <3>1, <3>2
  <2>3. QED
    BY <2>1, <2>2
<1>10. ASSUME NEW i \in 1 .. n + 1, NEW j \in 1 .. n + 1, list'[i] = list'[j]
       PROVE  i = j
  BY <1>2, <1>3, <1>6, <1>10 DEF VecInv, n
<1>11. QED
  BY <1>1, <1>2, <1>4, <1>5, <1>6, <1>7, <1>8, <1>9, <1>10 DEF VecInv

\* vector_set replaces the element at an index in use, and nothing otherwise.
LEMMA SetStep ==
  ASSUME VecInv, NEW e \in Unused, NEW index \in 0 .. MAX_LENGTH, Set(index, e)
  PROVE  VecInv'
<1>1. /\ vec' = V!vector_set(vec, index, e)
      /\ list' = IF index < Len(list) THEN [list EXCEPT ![index + 1] = e] ELSE list
      /\ gone' = gone
  BY DEF Set
<1>2. index \in Nat /\ Len(list) \in Nat /\ vec.count = Len(list)
  BY ContainersAssumption DEF VecInv
<1>3. CASE ~(index < Len(list))
  BY <1>1, <1>2, <1>3 DEF VecInv, V!vector_set, V!InRange
<1>4. CASE index < Len(list)
  <2>1. /\ vec' = [vec EXCEPT !.data[index] = e]
        /\ list' = [list EXCEPT ![index + 1] = e]
    BY <1>1, <1>2, <1>4 DEF V!vector_set, V!InRange
  <2>2. e \in Pointers /\ e \notin gone /\ \A i \in 1 .. Len(list) : list[i] # e
    BY DEF Unused, VecInv
  <2>3. /\ vec'.data = [vec.data EXCEPT ![index] = e]
        /\ vec'.count = vec.count /\ vec'.size = vec.size
        /\ vec' = [data |-> vec'.data, count |-> vec'.count, size |-> vec'.size]
    BY <2>1 DEF VecInv
  <2>4. index \in 0 .. vec.size - 1 /\ index + 1 \in 1 .. Len(list)
    BY <1>2, <1>4 DEF VecInv
  <2>5. /\ list' \in Seq(Pointers) /\ Len(list') = Len(list)
        /\ list'[index + 1] = e
        /\ \A i \in 1 .. Len(list) : i # index + 1 => list'[i] = list[i]
    BY <2>1, <2>2, <2>4, ExceptSeq DEF VecInv
  <2>6. vec'.data \in [0 .. vec.size - 1 -> Pointers \cup {NULL}]
    BY <2>2, <2>3, <2>4 DEF VecInv
  <2>7. ASSUME NEW i \in 1 .. Len(list)
        PROVE  vec'.data[i - 1] = list'[i] /\ list'[i] \notin gone'
    <3>1. i - 1 \in 0 .. vec.size - 1
      BY DEF VecInv
    <3>2. CASE i = index + 1
      BY <1>1, <1>2, <2>2, <2>3, <2>4, <2>5, <3>2 DEF VecInv
    <3>3. CASE i # index + 1
      <4>1. i - 1 # index
        BY <1>2, <3>3
      <4>2. QED
        BY <1>1, <2>3, <2>5, <3>1, <3>3, <4>1 DEF VecInv
    <3>4. QED
      BY <3>2, <3>3
  <2>8. \A i, j \in 1 .. Len(list) : list'[i] = list'[j] => i = j
    BY <2>2, <2>4, <2>5 DEF VecInv
  <2>9. QED
    BY <1>1, <2>3, <2>5, <2>6, <2>7, <2>8 DEF VecInv
<1>5. QED
  BY <1>3, <1>4

\* vector_delete at the last index frees the last element, which is held once.
LEMMA DeleteStep ==
  ASSUME VecInv, Delete
  PROVE  VecInv'
<1> DEFINE n == Len(list)
<1>1. /\ n \in Nat /\ n > 0 /\ vec.count = n /\ n <= vec.size /\ vec.size \in Nat
  BY EmptySeq DEF Delete, VecInv
<1>2. V!InRange(vec, n - 1)
  BY <1>1 DEF V!InRange
<1> DEFINE x == V!vector_delete(vec, n - 1)
<1>3. /\ x.data = vec.data /\ x.count = n - 1 /\ x.size = vec.size
      /\ x = [data |-> x.data, count |-> x.count, size |-> x.size]
  <2>1. ~ (n - 1 < vec.count - 1)
    BY <1>1
  <2>2. x = [vec EXCEPT !.data[n - 1] = @, !.count = @ - 1]
    BY <1>2, <2>1 DEF V!vector_delete
  <2>3. x.data = [vec.data EXCEPT ![n - 1] = vec.data[n - 1]]
    BY <2>2 DEF VecInv
  <2>4. [vec.data EXCEPT ![n - 1] = vec.data[n - 1]] = vec.data
    BY DEF VecInv
  <2>5. QED
    BY <1>1, <2>2, <2>3, <2>4 DEF VecInv
<1> HIDE DEF x
<1>4. vec' = x
  BY <1>1 DEF Delete, x
<1>5. V!Freed(vec, n - 1) = {list[n]}
  <2>1. vec.data[n - 1] = list[n]
    BY <1>1 DEF VecInv
  <2>2. QED
    BY <1>1, <1>2, <1>3, <2>1 DEF V!Freed, x
<1>6. list' = SubSeq(list, 1, n - 1) /\ gone' = gone \cup {list[n]}
  BY <1>1, <1>5 DEF Delete
<1>7. /\ list' \in Seq(Pointers) /\ Len(list') = n - 1
      /\ \A i \in 1 .. n - 1 : list'[i] = list[i]
  BY <1>1, <1>6 DEF VecInv
<1>8. list[n] \in Pointers
  BY <1>1, ElementOfSeq DEF VecInv
<1>9. \A i \in 1 .. n - 1 : list[i] # list[n]
  BY <1>1 DEF VecInv
<1>10. QED
  BY <1>1, <1>3, <1>4, <1>6, <1>7, <1>8, <1>9 DEF VecInv

\* Every call of the vector keeps the invariant.
LEMMA VecStep ==
  ASSUME VecInv, VecNext
  PROVE  VecInv'
<1>1. CASE Delete
  BY <1>1, DeleteStep
<1>2. ASSUME NEW e \in Unused, Add(e) PROVE VecInv'
  BY <1>2, AddStep
<1>3. ASSUME NEW e \in Unused, NEW index \in 0 .. MAX_LENGTH, Set(index, e) PROVE VecInv'
  BY <1>3, SetStep
<1>4. QED
  BY <1>1, <1>2, <1>3 DEF VecNext
-----------------------------------------------------------------------------
IInv == MapInv /\ VecInv

LEMMA InitInv == Init => IInv
BY MapInitInv, VecInitInv DEF Init, IInv

LEMMA StepInv == IInv /\ [Next]_vars => IInv'
<1> SUFFICES ASSUME IInv, [Next]_vars PROVE IInv'
  OBVIOUS
<1>1. UNCHANGED mapVars => MapInv'
  BY DEF IInv, mapVars, MapInv, MapType, PresentKeysAnswered, OneSlot, NoGaps, SizeCoversUse
<1>2. UNCHANGED vecVars => VecInv'
  BY DEF IInv, vecVars, VecInv
<1>3. CASE MapNext /\ UNCHANGED vecVars
  BY <1>2, <1>3, MapStep DEF IInv
<1>4. CASE VecNext /\ UNCHANGED mapVars
  BY <1>1, <1>4, VecStep DEF IInv
<1>5. CASE UNCHANGED vars
  BY <1>1, <1>2, <1>5 DEF IInv, vars, mapVars, vecVars
<1>6. QED
  BY <1>3, <1>4, <1>5 DEF Next

LEMMA InvTypeOK == IInv => TypeOK
<1> SUFFICES ASSUME IInv PROVE TypeOK
  OBVIOUS
<1>1. m \in [table_size : {TABLE_SIZE}, size : Int, aborted : BOOLEAN,
             data : [0 .. TABLE_SIZE - 1 -> Slot]]
  BY DEF IInv, MapInv, MapType, IsTable, Indices, Slot
<1>2. vec.count \in 0 .. vec.size
  BY DEF IInv, VecInv
<1>3. QED
  BY <1>1, <1>2 DEF IInv, MapInv, MapType, VecInv, TypeOK

\* Under any calls of the two containers, and at any size, the table keeps its
\* slots and the vector its cells (hashmap.c, vector.c).
THEOREM ContainersTypeCorrect == Spec => []TypeOK
BY InitInv, StepInv, InvTypeOK, PTL DEF Spec

\* hashmap_get finds every key that was put and not removed since, with the value
\* put last, however the keys collide (hashmap.h:22).
THEOREM MapFindsPresentKeys == Spec => []PresentKeysAnswered
<1>1. IInv => PresentKeysAnswered
  BY DEF IInv, MapInv
<1>2. QED
  BY <1>1, InitInv, StepInv, PTL DEF Spec

\* hashmap_get misses every key that was removed, as long as no hole was refilled
\* (hashmap.h:25): until then no key is in two slots.
THEOREM MapMissesRemovedKeys == Spec => []RemovedKeysMissing
<1>1. IInv => RemovedKeysMissing
  BY DEF IInv, MapInv, OneSlot, RemovedKeysMissing, hashmap_get
<1>2. QED
  BY <1>1, InitInv, StepInv, PTL DEF Spec

\* The count by which hashmap_put takes a table for full is never below the slots
\* in use.
THEOREM MapSizeCoversUse == Spec => []SizeCoversUse
<1>1. IInv => SizeCoversUse
  BY DEF IInv, MapInv
<1>2. QED
  BY <1>1, InitInv, StepInv, PTL DEF Spec

\* A loop over the vector visits the sequence the calls have built, across any
\* number of doublings, and meets no block that was freed (vector.c).
THEOREM VectorHoldsList == Spec => []VectorIsList
<1>1. IInv => VectorIsList
  <2> SUFFICES ASSUME VecInv PROVE VectorIsList
    BY DEF IInv
  <2>1. Len(list) \in Nat /\ vec.count = Len(list) /\ list \in Seq(Pointers)
    BY DEF VecInv
  <2>2. \A i \in 1 .. Len(list) : V!vector_get(vec, i - 1) = list[i]
    BY <2>1 DEF VecInv, V!vector_get, V!InRange
  <2>3. V!Elements(vec) = [i \in 1 .. Len(list) |-> V!vector_get(vec, i - 1)]
    BY <2>1 DEF V!Elements, V!vector_count
  <2>4. V!Elements(vec) = list
    BY <2>1, <2>2, <2>3
  <2>5. QED
    BY <2>1, <2>4 DEF VectorIsList, VecInv
<1>2. QED
  BY <1>1, InitInv, StepInv, PTL DEF Spec
=============================================================================
