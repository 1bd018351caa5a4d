--------------------------- MODULE MCHostKvStorage ---------------------------
(* HostKvStorage for TLC: record sizes and symmetry.                        *)
EXTENDS HostKvStorage

CONSTANTS a, b, c

\* Two small records and, when it is an instance of the run, a large one.
MCSize == [r \in Records |-> IF r = c THEN 2 ELSE 1]

Symmetry == Permutations(Threads) \cup Permutations({a, b}) \cup Permutations(Values)
=============================================================================
