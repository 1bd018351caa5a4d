--------------------------- MODULE MCStorageIoQueue ---------------------------
(* StorageIoQueue for TLC: job sizes and symmetry.                          *)
EXTENDS StorageIoQueue, TLC

CONSTANTS j1, j2, j3

\* One job that fills the byte limit alone.
MCBytes == [j \in Jobs |-> IF j = j3 THEN 2 ELSE 1]

Symmetry == Permutations(Workers) \cup Permutations({j1, j2})
=============================================================================
