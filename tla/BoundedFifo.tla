---------------------------- MODULE BoundedFifo -----------------------------
(***************************************************************************)
(* What the callers of the input queue rely on: a first-in first-out       *)
(* buffer that refuses a value when it holds Capacity of them.             *)
(***************************************************************************)
EXTENDS Integers, Sequences

CONSTANTS Capacity, Values, NoValue

VARIABLES
  items,   \* the buffered values, oldest first
  taken    \* the value the last Take returned

Init == items = <<>> /\ taken = NoValue

Put(v) ==
  /\ items' = IF Len(items) < Capacity THEN Append(items, v) ELSE items
  /\ UNCHANGED taken

Take ==
  /\ items # <<>>
  /\ taken' = Head(items)
  /\ items' = Tail(items)

\* Taking from an empty buffer promises nothing about the value returned.
TakeEmpty ==
  /\ items = <<>>
  /\ taken' \in Values \cup {NoValue}
  /\ UNCHANGED items

Next == Take \/ TakeEmpty \/ \E v \in Values : Put(v)

Spec == Init /\ [][Next]_<<items, taken>>
=============================================================================
