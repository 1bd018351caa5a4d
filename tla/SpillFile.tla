------------------------------ MODULE SpillFile ------------------------------
(***************************************************************************)
(* The extent allocator of one spill file (detail::SpillFileState in       *)
(* kvmem/src/host/spill_io.cpp).  Offsets and sizes are counted in cells;  *)
(* a cell stands for any fixed number of bytes.                            *)
(*                                                                         *)
(*   ranges       the std::map offset -> Range, as the set of its entries  *)
(*   freeRanges   the best-fit index (bytes, offset) of the free entries   *)
(*   diskCharged  the running quota counter `charged'                      *)
(*                                                                         *)
(* Every operation runs under the file mutex, so each is one action.  The  *)
(* module is a component of HostKvStorage, which conjoins Reserve and      *)
(* Release with its own steps.                                             *)
(***************************************************************************)
EXTENDS Integers, FiniteSets

CONSTANT DiskCapacity   \* capacity of the file, in cells

ASSUME DiskCapacityAssumption == DiskCapacity \in Nat \ {0}

VARIABLES ranges, freeRanges, diskCharged

diskVars == <<ranges, freeRanges, diskCharged>>

Cells == 0 .. DiskCapacity - 1

Entry(off, bytes, used) == [off |-> off, bytes |-> bytes, used |-> used]
Key(x) == [bytes |-> x.bytes, off |-> x.off]
End(x) == x.off + x.bytes

DiskInit ==
    /\ ranges = {Entry(0, DiskCapacity, FALSE)}
    /\ freeRanges = {[bytes |-> DiskCapacity, off |-> 0]}
    /\ diskCharged = 0

-----------------------------------------------------------------------------
(* SpillFile::reserve                                                       *)

\* Index entries at or after lower_bound({n, 0}).
Fitting(n) == {k \in freeRanges : k.bytes >= n}

\* The smallest such entry; the lowest address breaks ties.
BestFit(n) ==
    CHOOSE k \in Fitting(n) :
        \A j \in Fitting(n) : \/ k.bytes < j.bytes
                              \/ k.bytes = j.bytes /\ k.off <= j.off

\* Both BudgetExceeded tests pass.
CanReserve(n) ==
    /\ n <= DiskCapacity - diskCharged
    /\ Fitting(n) # {}

\* Address the next successful reserve(n) returns.
ReservedAt(n) == BestFit(n).off

\* A split that leaves the whole range in the index.
ReserveKeepsKey(n) ==
    LET key  == BestFit(n)
        tail == IF key.bytes > n
                THEN {Entry(key.off + n, key.bytes - n, FALSE)} ELSE {}
    IN  /\ CanReserve(n)
        /\ ranges' = (ranges \ {Entry(key.off, key.bytes, FALSE)})
                        \cup {Entry(key.off, n, TRUE)} \cup tail
        /\ freeRanges' = freeRanges \cup {Key(x) : x \in tail}
        /\ diskCharged' = diskCharged + n

\* SpillFile::reserve: the best hole is split, the rest goes back to the index.
Reserve(n) ==
    LET key  == BestFit(n)
        tail == IF key.bytes > n
                THEN {Entry(key.off + n, key.bytes - n, FALSE)} ELSE {}
    IN  /\ CanReserve(n)
        /\ ranges' = (ranges \ {Entry(key.off, key.bytes, FALSE)})
                        \cup {Entry(key.off, n, TRUE)} \cup tail
        /\ freeRanges' = (freeRanges \ {key}) \cup {Key(x) : x \in tail}
        /\ diskCharged' = diskCharged + n

-----------------------------------------------------------------------------
(* SpillFileState::release, run by the last handle of an extent             *)

FreeAfter(x)  == {y \in ranges : ~y.used /\ y.off = End(x)}
FreeBefore(x) == {y \in ranges : ~y.used /\ End(y) = x.off}

\* The range left by freeing x together with its free neighbours.
Merged(x) ==
    LET first == IF FreeBefore(x) = {} THEN x.off
                 ELSE (CHOOSE y \in FreeBefore(x) : TRUE).off
        last  == IF FreeAfter(x) = {} THEN End(x)
                 ELSE End(CHOOSE y \in FreeAfter(x) : TRUE)
    IN  Entry(first, last - first, FALSE)

\* A release that never looks at the previous range.
ReleaseForwardOnly(x) ==
    LET last   == IF FreeAfter(x) = {} THEN End(x)
                  ELSE End(CHOOSE y \in FreeAfter(x) : TRUE)
        merged == Entry(x.off, last - x.off, FALSE)
    IN  /\ ranges' = (ranges \ ({x} \cup FreeAfter(x))) \cup {merged}
        /\ freeRanges' = (freeRanges \ {Key(y) : y \in FreeAfter(x)})
                            \cup {Key(merged)}
        /\ diskCharged' = diskCharged - x.bytes

\* SpillFileState::release: the extent and the free ranges beside it become one.
Release(x) ==
    LET gone == FreeBefore(x) \cup FreeAfter(x)
    IN  /\ ranges' = (ranges \ ({x} \cup gone)) \cup {Merged(x)}
        /\ freeRanges' = (freeRanges \ {Key(y) : y \in gone})
                            \cup {Key(Merged(x))}
        /\ diskCharged' = diskCharged - x.bytes

\* The occupied range an extent handle points at.
UsedRanges == {x \in ranges : x.used}
UsedAt(off) == CHOOSE x \in UsedRanges : x.off = off

-----------------------------------------------------------------------------
(* The file on its own: any client may reserve or drop extents.             *)

DiskNext == \/ \E n \in 1 .. DiskCapacity : Reserve(n)
            \/ \E x \in UsedRanges : Release(x)

DiskSpec == DiskInit /\ [][DiskNext]_diskVars

-----------------------------------------------------------------------------
(* Properties                                                               *)

CellsOf(x) == x.off .. End(x) - 1
UsedCells == {c \in Cells : \E x \in UsedRanges : c \in CellsOf(x)}

\* The three variables have the shape the code gives them.
DiskTypeOK ==
    /\ \A x \in ranges : /\ x \in [off : Nat, bytes : Nat \ {0}, used : BOOLEAN]
                         /\ End(x) <= DiskCapacity
    /\ \A k \in freeRanges : k \in [bytes : Nat \ {0}, off : Nat]
    /\ diskCharged \in Int

\* Two live extents never share a cell: a write through one SpillExtent cannot
\* damage the bytes of another, whatever the order of splits and merges.
Disjoint ==
    \A x, y \in ranges : x = y \/ End(x) <= y.off \/ End(y) <= x.off

\* No cell is ever lost: every cell of the file is in some range.
Covered == \A c \in Cells : \E x \in ranges : c \in CellsOf(x)

\* Two adjacent free ranges have always been merged.
Coalesced == \A x, y \in ranges : ~x.used /\ ~y.used => End(x) # y.off

\* The ranges cut the file into pieces that do not overlap, leave no cell out
\* and keep no two holes apart that could be one.
Partitioned == Disjoint /\ Covered /\ Coalesced

\* The (bytes, offset) index and the address map describe the same free ranges
\* (the assertions of reserve and release).
IndexInSync == freeRanges = {Key(x) : x \in ranges \ UsedRanges}

\* The quota counter is exactly the number of cells of live extents.
ChargeIsUsedCells == diskCharged = Cardinality(UsedCells)

\* The allocator is exact after every reserve and release, split and merge:
\* ranges partition the file, index and quota agree with them.  The parts lean
\* on each other: what a step takes out of one index is only known to be in the
\* other because they are in step, a merge is only exact because ranges are
\* disjoint and were merged before.
DiskInv ==
    /\ DiskTypeOK
    /\ Disjoint
    /\ Covered
    /\ Coalesced
    /\ IndexInSync
    /\ ChargeIsUsedCells

\* reserve(n) is refused only when no n contiguous cells are free: neither the
\* quota test nor a stale or unmerged index ever turns away a request the file
\* could hold, and a granted request lies wholly in free cells.
HoleAt(o, n) == o + n <= DiskCapacity /\ \A c \in o .. o + n - 1 : c \notin UsedCells
RefusedOnlyWhenFull ==
    \A n \in 1 .. DiskCapacity :
        /\ (\E o \in Cells : HoleAt(o, n)) <=> CanReserve(n)
        /\ CanReserve(n) => HoleAt(ReservedAt(n), n)

=============================================================================
