------------------------------- MODULE Vector -------------------------------
(***************************************************************************)
(* The growing array of datastruct/vector.c, as operators on its struct.   *)
(* `data' is the allocated array, `count' of its `size' cells are in use.  *)
(* The cells realloc adds are indeterminate until they are written; they   *)
(* are NULL here, and no operation reads a cell it has not written.        *)
(***************************************************************************)
EXTENDS Naturals

CONSTANT NULL

INITIAL_VECTOR_SIZE == 4

InRange(v, index) == index < v.count /\ index >= 0

vector_init ==
  [data  |-> [i \in 0 .. INITIAL_VECTOR_SIZE - 1 |-> NULL],
     count |-> 0,
     size  |-> INITIAL_VECTOR_SIZE]

\* Mutant of Grown: the new array is another one, and nothing is copied.
GrownWithoutCopy(v) ==
  IF v.size = v.count
  THEN [v EXCEPT !.size = 2 * v.size, !.data = [i \in 0 .. 2 * v.size - 1 |-> NULL]]
  ELSE v

\* A full array is doubled first.
Grown(v) ==
  IF v.size = v.count
  THEN [v EXCEPT !.size = 2 * v.size,
                   !.data = [i \in 0 .. 2 * v.size - 1 |->
                                IF i < v.size THEN v.data[i] ELSE NULL]]
  ELSE v

vector_count(v) == v.count

vector_add(v, e) ==
  [Grown(v) EXCEPT !.data[v.count] = e, !.count = @ + 1]

vector_set(v, index, e) ==
  IF InRange(v, index) THEN [v EXCEPT !.data[index] = e] ELSE v

vector_get(v, index) ==
  IF InRange(v, index) THEN v.data[index] ELSE NULL

\* The loop writes data[index] in every round and never moves the elements
\* behind it, so its whole effect is one copy; the element freed is the one in
\* the last cell.
vector_delete(v, index) ==
  IF ~ InRange(v, index) THEN v
  ELSE [v EXCEPT !.data[index] = IF index < v.count - 1 THEN v.data[index + 1] ELSE @,
                   !.count = @ - 1]

Freed(v, index) ==
  IF InRange(v, index) THEN {vector_delete(v, index).data[v.count - 1]} ELSE {}

\* What a loop `for (i = 0; i < count; i++) vector_get(v, i)' visits.
Elements(v) == [i \in 1 .. vector_count(v) |-> vector_get(v, i - 1)]
=============================================================================
