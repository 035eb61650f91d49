---------------------------- MODULE MCContainers ----------------------------
(***************************************************************************)
(* Containers for TLC: four keys, two of which collide, one chain that     *)
(* wraps around the end of the table, and a vector that doubles once.      *)
(***************************************************************************)
EXTENDS Containers

CONSTANTS k1, k2, k3, k4

Hashes == [k \in Key |-> IF k = k3 THEN 1 ELSE IF k = k4 THEN 7 ELSE 4]
=============================================================================
