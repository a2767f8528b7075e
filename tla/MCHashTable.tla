---------------------------- MODULE MCHashTable ----------------------------
(***************************************************************************)
(* An instance of HashTable for TLC: of four keys, three share a bucket.   *)
(***************************************************************************)
EXTENDS HashTable, TLC

CONSTANTS k1, k2, k3, k4

MCHash == [k \in Keys |-> IF k = k4 THEN 1 ELSE 0]

\* Memory cells are interchangeable.
CellSymmetry == Permutations(KeyCells) \cup Permutations(ValueCells)
=============================================================================
