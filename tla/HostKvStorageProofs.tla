------------------------- MODULE HostKvStorageProofs -------------------------
(***************************************************************************)
(* For every number of threads and records, every size, budget and file:   *)
(* the tiered storage implements the records of KvRecords, a lease holds   *)
(* its tier still, and the spill file under it is never misused.           *)
(*                                                                         *)
(* The inductive invariant says which locks a thread holds at each place   *)
(* of an operation, and what it may rely on after it gave the catalog      *)
(* lock up: the records of its batch are sealed and resident, the record   *)
(* it rewrites is held and cold, and its extents are its own.              *)
(*                                                                         *)
(* The first part is about the file alone: for every capacity its extent   *)
(* allocator never hands out a cell twice, never loses one, keeps its two  *)
(* indexes and its quota in step, and refuses a request only when no hole  *)
(* is large enough.                                                        *)
(*                                                                         *)
(* The last part keeps the books: who has charged what, how much room a    *)
(* batch may count on, who owns each extent and what the catalog lists.    *)
(* They are exact after every step of every path, failed or not.           *)
(***************************************************************************)
EXTENDS HostKvStorage, FiniteSetTheorems, SequenceTheorems, WellFoundedInduction, TLAPS

Ranges == [off : Nat, bytes : Nat \ {0}, used : BOOLEAN]

-----------------------------------------------------------------------------
(* Arithmetic of ranges                                                     *)

\* A nonempty set of naturals has a least element.
LEMMA LeastNat ==
    ASSUME NEW S \in SUBSET Nat, S # {}
    PROVE  \E m \in S : \A k \in S : m <= k
<1> DEFINE R == OpToRel(<, Nat)
<1>1. IsWellFoundedOn(R, Nat)
  BY NatLessThanWellFounded
<1>2. \E m \in S : \A k \in S : <<k, m>> \notin R
  <2> HIDE DEF R
  <2> QED BY <1>1, WFMin
<1>3. PICK m \in S : \A k \in S : <<k, m>> \notin R
  BY <1>2
<1>4. ASSUME NEW k \in S PROVE m <= k
  <2>1. m \in Nat /\ k \in Nat
    OBVIOUS
  <2>2. ~ (k < m)
    BY <1>3, <2>1 DEF OpToRel
  <2> QED BY <2>1, <2>2
<1> QED BY <1>4

\* Two ranges with the same fields are the same.
LEMMA SameRange ==
    ASSUME NEW x \in Ranges, NEW y \in Ranges,
           x.off = y.off, x.bytes = y.bytes, x.used = y.used
    PROVE  x = y
BY DEF Ranges

\* The cells of a range are as many as its bytes.
LEMMA CellsOfRange ==
    ASSUME NEW x \in Ranges
    PROVE  /\ IsFiniteSet(CellsOf(x))
           /\ Cardinality(CellsOf(x)) = x.bytes
<1>1. x.off \in Int /\ End(x) - 1 \in Int /\ x.bytes \in Nat \ {0}
  BY DEF Ranges, End
<1>2. /\ IsFiniteSet(x.off .. End(x) - 1)
      /\ Cardinality(x.off .. End(x) - 1) =
            IF x.off > End(x) - 1 THEN 0 ELSE End(x) - 1 - x.off + 1
  BY <1>1, FS_Interval
<1> QED BY <1>1, <1>2 DEF CellsOf, End

\* The cells of the file.
LEMMA CellsOfFile ==
    /\ IsFiniteSet(Cells) /\ Cardinality(Cells) = DiskCapacity
    /\ IsFiniteSet(UsedCells) /\ Cardinality(UsedCells) \in Nat
    /\ UsedCells \subseteq Cells
<1>1. 0 \in Int /\ DiskCapacity - 1 \in Int /\ DiskCapacity >= 1
  BY DiskCapacityAssumption
<1>2. /\ IsFiniteSet(0 .. DiskCapacity - 1)
      /\ Cardinality(0 .. DiskCapacity - 1) =
            IF 0 > DiskCapacity - 1 THEN 0 ELSE DiskCapacity - 1 - 0 + 1
  BY <1>1, FS_Interval
<1>3. IsFiniteSet(Cells) /\ Cardinality(Cells) = DiskCapacity
  BY <1>1, <1>2, DiskCapacityAssumption DEF Cells
<1>4. UsedCells \subseteq Cells
  BY DEF UsedCells
<1>5. IsFiniteSet(UsedCells)
  BY <1>3, <1>4, FS_Subset
<1> QED BY <1>3, <1>4, <1>5, FS_CardinalityType

\* The best fit exists whenever anything fits, and is in the index.
LEMMA BestFitFits ==
    ASSUME DiskTypeOK, NEW n \in Nat, Fitting(n) # {}
    PROVE  BestFit(n) \in Fitting(n)
<1> DEFINE B == {k.bytes : k \in Fitting(n)}
<1>1. \A k \in Fitting(n) : k.bytes \in Nat /\ k.off \in Nat
  BY DEF DiskTypeOK, Fitting
<1>2. B \in SUBSET Nat /\ B # {}
  BY <1>1
<1>3. PICK m \in B : \A k \in B : m <= k
  BY <1>2, LeastNat
<1> DEFINE O == {k.off : k \in {j \in Fitting(n) : j.bytes = m}}
<1>4. O \in SUBSET Nat /\ O # {}
  BY <1>1, <1>3
<1>5. PICK o \in O : \A k \in O : o <= k
  BY <1>4, LeastNat
<1>6. PICK best \in Fitting(n) : best.bytes = m /\ best.off = o
  BY <1>5
<1>7. ASSUME NEW j \in Fitting(n)
      PROVE  \/ best.bytes < j.bytes
             \/ best.bytes = j.bytes /\ best.off <= j.off
  <2>1. m <= j.bytes
    BY <1>3
  <2>2. CASE m = j.bytes
    <3>1. j.off \in O
      BY <2>2
    <3> QED BY <3>1, <2>2, <1>5, <1>6
  <2> QED BY <2>1, <2>2, <1>1, <1>6, <1>2
<1> QED BY <1>6, <1>7 DEF BestFit

-----------------------------------------------------------------------------
(* SpillFile::reserve                                                       *)

\* What the best fit is in the address map, seen from every other range.
LEMMA BestFitRange ==
    ASSUME DiskInv, NEW n \in 1 .. DiskCapacity, CanReserve(n)
    PROVE  LET key == BestFit(n)
               x0  == Entry(key.off, key.bytes, FALSE)
           IN  /\ key \in freeRanges /\ key = Key(x0)
               /\ key.off \in Nat /\ key.bytes \in Nat /\ key.bytes >= n
               /\ x0 \in ranges /\ End(x0) <= DiskCapacity
               /\ \A y \in ranges \ {x0} : End(y) <= key.off \/ End(x0) <= y.off
<1> DEFINE key == BestFit(n)
           x0  == Entry(key.off, key.bytes, FALSE)
<1> USE DEF DiskInv
<1>1. n \in Nat /\ key \in Fitting(n)
  BY BestFitFits, DiskCapacityAssumption DEF CanReserve
<1>2. key \in freeRanges /\ key.bytes >= n /\ key \in [bytes : Nat \ {0}, off : Nat]
  BY <1>1 DEF Fitting, DiskTypeOK
<1>3. PICK x \in ranges \ UsedRanges : key = Key(x)
  BY <1>2 DEF IndexInSync
<1>4. x \in Ranges /\ ~x.used /\ x.off = key.off /\ x.bytes = key.bytes
  BY <1>3 DEF DiskTypeOK, Ranges, UsedRanges, Key
<1>5. x0 \in Ranges /\ x0.off = key.off /\ x0.bytes = key.bytes /\ ~x0.used
  BY <1>2 DEF Ranges, Entry
<1>6. x = x0
  BY <1>4, <1>5, SameRange DEF Ranges
<1>7. End(x0) <= DiskCapacity
  BY <1>3, <1>6 DEF DiskTypeOK
<1>8. \A y \in ranges \ {x0} : End(y) <= key.off \/ End(x0) <= y.off
  BY <1>3, <1>5, <1>6 DEF Disjoint
<1> QED BY <1>2, <1>3, <1>6, <1>7, <1>8

\* Carving an extent out of the best fit preserves the invariant.
LEMMA ReserveStep ==
    ASSUME DiskInv, NEW n \in 1 .. DiskCapacity, Reserve(n)
    PROVE  DiskInv'
<1> DEFINE key  == BestFit(n)
           x0   == Entry(key.off, key.bytes, FALSE)
           u    == Entry(key.off, n, TRUE)
           t    == Entry(key.off + n, key.bytes - n, FALSE)
           tail == IF key.bytes > n THEN {t} ELSE {}
           rest == ranges \ {x0}
<1> USE DiskCapacityAssumption
<1>1. CanReserve(n)
  BY DEF Reserve
<1>2. /\ key \in freeRanges /\ key = Key(x0)
      /\ key.off \in Nat /\ key.bytes \in Nat /\ key.bytes >= n
      /\ x0 \in ranges /\ End(x0) <= DiskCapacity
      /\ \A y \in rest : End(y) <= key.off \/ End(x0) <= y.off
  BY <1>1, BestFitRange
<1>3. /\ ranges' = rest \cup {u} \cup tail
      /\ freeRanges' = (freeRanges \ {key}) \cup {Key(y) : y \in tail}
      /\ diskCharged' = diskCharged + n
  BY DEF Reserve
<1>4. n \in Nat \ {0} /\ n <= key.bytes
  BY <1>2
<1>5. /\ u.off = key.off /\ u.bytes = n /\ u.used /\ End(u) = key.off + n
      /\ t.off = key.off + n /\ t.bytes = key.bytes - n /\ ~t.used
      /\ x0.off = key.off /\ x0.bytes = key.bytes /\ ~x0.used
      /\ End(x0) = key.off + key.bytes
      /\ End(t) = key.off + key.bytes
  BY <1>2, <1>4 DEF Entry, End
<1>6. u \in Ranges /\ (key.bytes > n => t \in Ranges)
  BY <1>2, <1>4 DEF Entry, Ranges
<1>7. \A y \in rest : /\ y \in Ranges /\ End(y) <= DiskCapacity
                      /\ End(y) \in Nat /\ End(y) > y.off
                      /\ End(y) <= key.off \/ key.off + key.bytes <= y.off
  <2> TAKE y \in rest
  <2>1. y \in Ranges /\ End(y) <= DiskCapacity
    BY DEF DiskInv, DiskTypeOK, Ranges
  <2>2. End(y) \in Nat /\ End(y) > y.off
    BY <2>1 DEF Ranges, End
  <2>3. End(y) <= key.off \/ key.off + key.bytes <= y.off
    <3> HIDE DEF rest, x0, key
    <3> QED BY <1>2, <1>5
  <2> QED BY <2>1, <2>2, <2>3
<1> HIDE DEF key, x0, u, t, rest
<1>8. DiskTypeOK'
  <2>1. \A y \in ranges' : y \in Ranges /\ End(y) <= DiskCapacity
    BY <1>2, <1>3, <1>4, <1>5, <1>6, <1>7
  <2>2. \A k \in freeRanges' : k \in [bytes : Nat \ {0}, off : Nat]
    <3>1. \A k \in freeRanges : k \in [bytes : Nat \ {0}, off : Nat]
      BY DEF DiskInv, DiskTypeOK
    <3>2. key.bytes > n => Key(t) \in [bytes : Nat \ {0}, off : Nat]
      BY <1>6 DEF Key, Ranges
    <3> QED BY <3>1, <3>2, <1>3
  <2>3. diskCharged' \in Int
    BY <1>3, <1>4 DEF DiskInv, DiskTypeOK
  <2> QED BY <2>1, <2>2, <2>3 DEF DiskTypeOK, Ranges, End
<1>9. Disjoint'
  <2> SUFFICES ASSUME NEW x \in ranges', NEW y \in ranges', x # y
               PROVE  End(x) <= y.off \/ End(y) <= x.off
    BY DEF Disjoint, End
  <2>1. CASE x \in rest /\ y \in rest
    BY <2>1 DEF DiskInv, Disjoint, rest
  <2>2. CASE x \in rest /\ y \in {u} \cup tail
    BY <2>2, <1>2, <1>4, <1>5, <1>7 DEF Ranges
  <2>3. CASE y \in rest /\ x \in {u} \cup tail
    BY <2>3, <1>2, <1>4, <1>5, <1>7 DEF Ranges
  <2>4. CASE x \in {u} \cup tail /\ y \in {u} \cup tail
    BY <2>4, <1>2, <1>4, <1>5
  <2> QED BY <2>1, <2>2, <2>3, <2>4, <1>3
<1>10. Covered'
  <2> SUFFICES ASSUME NEW c \in Cells PROVE \E x \in ranges' : c \in CellsOf(x)
    BY DEF Covered, Cells, CellsOf, End
  <2>1. PICK x \in ranges : c \in CellsOf(x)
    BY DEF DiskInv, Covered
  <2>2. CASE x # x0
    BY <2>1, <2>2, <1>3 DEF rest
  <2>3. CASE x = x0
    <3>1. c \in Nat /\ key.off <= c /\ c < key.off + key.bytes
      BY <2>1, <2>3, <1>2, <1>5 DEF CellsOf, Cells
    <3>2. CASE c < key.off + n
      BY <3>1, <3>2, <1>2, <1>3, <1>4, <1>5 DEF CellsOf
    <3>3. CASE c >= key.off + n
      BY <3>1, <3>3, <1>2, <1>3, <1>4, <1>5 DEF CellsOf
    <3> QED BY <3>1, <3>2, <3>3, <1>2, <1>4
  <2> QED BY <2>2, <2>3
<1>11. Coalesced'
  <2> SUFFICES ASSUME NEW x \in ranges', NEW y \in ranges',
                      ~x.used, ~y.used, End(x) = y.off
               PROVE  FALSE
    BY DEF Coalesced, End
  <2>1. x # u /\ y # u
    BY <1>5
  <2>2. CASE x \in rest /\ y \in rest
    BY <2>2 DEF DiskInv, Coalesced, rest
  <2>3. CASE x \in tail /\ y \in rest
    <3>1. End(x0) = y.off
      BY <2>3, <1>5
    <3> QED BY <3>1, <2>3, <1>2, <1>5 DEF DiskInv, Coalesced, rest
  <2>4. CASE x \in rest /\ y \in tail
    BY <2>4, <1>2, <1>4, <1>5, <1>7 DEF Ranges
  <2>5. CASE x \in tail /\ y \in tail
    BY <2>5, <1>2, <1>4, <1>5
  <2> QED BY <2>1, <2>2, <2>3, <2>4, <2>5, <1>3
<1>12. IndexInSync'
  <2>1. \A y \in rest : ~y.used => Key(y) # key
    BY <1>2, <1>4, <1>7 DEF Key, Ranges, End
  <2>2. freeRanges \ {key} = {Key(y) : y \in {z \in rest : ~z.used}}
    <3>1. freeRanges = {Key(y) : y \in {z \in ranges : ~z.used}}
      BY DEF DiskInv, IndexInSync, UsedRanges
    <3>2. {z \in ranges : ~z.used} = {z \in rest : ~z.used} \cup {x0}
      BY <1>2, <1>5 DEF rest
    <3> QED BY <2>1, <3>1, <3>2, <1>2
  <2>3. (ranges \ UsedRanges)' = {z \in rest : ~z.used} \cup tail
    BY <1>3, <1>5 DEF UsedRanges
  <2> QED BY <2>2, <2>3, <1>3 DEF IndexInSync, Key
<1>13. ChargeIsUsedCells'
  <2>1. \A y \in UsedRanges : y \in rest
    BY <1>5 DEF UsedRanges, rest
  <2>2. UsedRanges' = UsedRanges \cup {u}
    BY <2>1, <1>3, <1>5 DEF UsedRanges, rest
  <2>3. CellsOf(u) \subseteq Cells
    BY <1>2, <1>4, <1>5 DEF CellsOf, Cells
  <2>4. UsedCells' = UsedCells \cup CellsOf(u)
    BY <2>2, <2>3 DEF UsedCells, CellsOf, End, Cells
  <2>5. UsedCells \cap CellsOf(u) = {}
    BY <2>1, <1>2, <1>4, <1>5, <1>7 DEF UsedCells, CellsOf, Cells, Ranges
  <2>6. /\ IsFiniteSet(UsedCells) /\ Cardinality(UsedCells) \in Nat
        /\ IsFiniteSet(CellsOf(u)) /\ Cardinality(CellsOf(u)) = n
    BY CellsOfFile, CellsOfRange, <1>5, <1>6
  <2>7. Cardinality(UsedCells') = Cardinality(UsedCells) + n - Cardinality({})
    BY <2>4, <2>5, <2>6, FS_Union
  <2>8. Cardinality(UsedCells') = diskCharged + n
    BY <2>6, <2>7, <1>4, FS_EmptySet DEF DiskInv, ChargeIsUsedCells
  <2> QED BY <2>8, <1>3 DEF ChargeIsUsedCells
<1> QED BY <1>8, <1>9, <1>10, <1>11, <1>12, <1>13 DEF DiskInv

-----------------------------------------------------------------------------
(* SpillFileState::release                                                  *)

\* The merged range is the released one and its free neighbours, nothing else,
\* and has no free neighbour of its own.
LEMMA MergedRange ==
    ASSUME DiskInv, NEW x \in UsedRanges
    PROVE  LET m    == Merged(x)
               gone == FreeBefore(x) \cup FreeAfter(x)
               rest == ranges \ (gone \cup {x})
           IN  /\ m \in Ranges /\ ~m.used /\ End(m) <= DiskCapacity
               /\ \A y \in gone : ~y.used /\ y \in ranges
               /\ \A y \in gone \cup {x} : m.off <= y.off /\ End(y) <= End(m)
               /\ \A y \in rest : End(y) <= m.off \/ End(m) <= y.off
               /\ \A y \in rest : ~y.used => End(y) # m.off /\ End(m) # y.off
<1> DEFINE m    == Merged(x)
           gone == FreeBefore(x) \cup FreeAfter(x)
           rest == ranges \ (gone \cup {x})
<1>1. \A y \in ranges : /\ y \in Ranges /\ End(y) <= DiskCapacity
                        /\ End(y) = y.off + y.bytes
                        /\ y.off \in Nat /\ End(y) \in Nat /\ y.off < End(y)
  BY DEF DiskInv, DiskTypeOK, Ranges, End
<1>2. x \in ranges /\ x.used
  BY DEF UsedRanges
<1>3. \A y \in ranges : y = x \/ End(y) <= x.off \/ End(x) <= y.off
  BY <1>2 DEF DiskInv, Disjoint
<1>4. \A y \in FreeBefore(x) : y \in ranges /\ ~y.used /\ End(y) = x.off
  BY DEF FreeBefore
<1>5. \A y \in FreeAfter(x) : y \in ranges /\ ~y.used /\ y.off = End(x)
  BY DEF FreeAfter
<1>6. ASSUME NEW p \in FreeBefore(x), NEW q \in FreeBefore(x) PROVE p = q
  BY <1>1, <1>2, <1>4 DEF DiskInv, Disjoint
<1>7. ASSUME NEW p \in FreeAfter(x), NEW q \in FreeAfter(x) PROVE p = q
  BY <1>1, <1>2, <1>5 DEF DiskInv, Disjoint
<1> DEFINE first == IF FreeBefore(x) = {} THEN x.off
                    ELSE (CHOOSE y \in FreeBefore(x) : TRUE).off
           last  == IF FreeAfter(x) = {} THEN End(x)
                    ELSE End(CHOOSE y \in FreeAfter(x) : TRUE)
<1>8. \/ FreeBefore(x) = {} /\ first = x.off
      \/ \E p \in FreeBefore(x) : FreeBefore(x) = {p} /\ first = p.off
  <2> SUFFICES ASSUME FreeBefore(x) # {}
               PROVE \E p \in FreeBefore(x) : FreeBefore(x) = {p} /\ first = p.off
    OBVIOUS
  <2>1. (CHOOSE y \in FreeBefore(x) : TRUE) \in FreeBefore(x)
    OBVIOUS
  <2> QED BY <2>1, <1>6
<1>9. \/ FreeAfter(x) = {} /\ last = End(x)
      \/ \E q \in FreeAfter(x) : FreeAfter(x) = {q} /\ last = End(q)
  <2> SUFFICES ASSUME FreeAfter(x) # {}
               PROVE \E q \in FreeAfter(x) : FreeAfter(x) = {q} /\ last = End(q)
    OBVIOUS
  <2>1. (CHOOSE y \in FreeAfter(x) : TRUE) \in FreeAfter(x)
    OBVIOUS
  <2> QED BY <2>1, <1>7
<1>10. m = Entry(first, last - first, FALSE)
  BY DEF Merged
<1> HIDE DEF first, last, m
<1>11. /\ first \in Nat /\ last \in Nat /\ first <= x.off /\ End(x) <= last
       /\ last <= DiskCapacity
  BY <1>1, <1>2, <1>4, <1>5, <1>8, <1>9
<1>12. /\ m \in Ranges /\ ~m.used /\ m.off = first /\ End(m) = last
  BY <1>1, <1>2, <1>10, <1>11 DEF Entry, Ranges, End
<1>13. \A y \in gone : ~y.used /\ y \in ranges
  BY <1>4, <1>5
<1>14. \A y \in gone \cup {x} : first <= y.off /\ End(y) <= last
  <2>1. \A y \in FreeBefore(x) : first <= y.off /\ End(y) <= last
    BY <1>1, <1>2, <1>4, <1>8, <1>11
  <2>2. \A y \in FreeAfter(x) : first <= y.off /\ End(y) <= last
    BY <1>1, <1>2, <1>5, <1>9, <1>11
  <2> QED BY <2>1, <2>2, <1>1, <1>2, <1>11
<1>15. ASSUME NEW y \in rest
       PROVE  /\ End(y) <= first \/ last <= y.off
              /\ ~y.used => End(y) # first /\ last # y.off
  <2>1. y \in ranges /\ y # x /\ y \notin FreeBefore(x) /\ y \notin FreeAfter(x)
    OBVIOUS
  <2>2. End(y) <= x.off \/ End(x) <= y.off
    BY <2>1, <1>3
  <2>3. CASE End(y) <= x.off
    <3>1. CASE FreeBefore(x) = {} /\ first = x.off
      BY <3>1, <2>1, <2>3, <1>1, <1>2, <1>11 DEF FreeBefore
    <3>2. CASE \E p \in FreeBefore(x) : FreeBefore(x) = {p} /\ first = p.off
      <4>1. PICK p \in FreeBefore(x) : first = p.off
        BY <3>2
      <4>2. p \in ranges /\ ~p.used /\ End(p) = x.off /\ y # p
        BY <4>1, <1>4, <2>1
      <4>3. End(y) <= p.off \/ End(p) <= y.off
        BY <4>2, <2>1 DEF DiskInv, Disjoint
      <4>4. ~y.used => End(y) # p.off
        BY <4>2, <2>1 DEF DiskInv, Coalesced
      <4> QED BY <4>1, <4>2, <4>3, <4>4, <2>1, <2>3, <1>1, <1>2, <1>11
    <3> QED BY <3>1, <3>2, <1>8
  <2>4. CASE End(x) <= y.off
    <3>1. CASE FreeAfter(x) = {} /\ last = End(x)
      BY <3>1, <2>1, <2>4, <1>1, <1>2, <1>11 DEF FreeAfter
    <3>2. CASE \E q \in FreeAfter(x) : FreeAfter(x) = {q} /\ last = End(q)
      <4>1. PICK q \in FreeAfter(x) : last = End(q)
        BY <3>2
      <4>2. q \in ranges /\ ~q.used /\ q.off = End(x) /\ y # q
        BY <4>1, <1>5, <2>1
      <4>3. End(y) <= q.off \/ End(q) <= y.off
        BY <4>2, <2>1 DEF DiskInv, Disjoint
      <4>4. ~y.used => End(q) # y.off
        BY <4>2, <2>1 DEF DiskInv, Coalesced
      <4> QED BY <4>1, <4>2, <4>3, <4>4, <2>1, <2>4, <1>1, <1>2, <1>11
    <3> QED BY <3>1, <3>2, <1>9
  <2> QED BY <2>2, <2>3, <2>4
<1>16. \A y \in rest : End(y) <= m.off \/ End(m) <= y.off
  BY <1>12, <1>15
<1>17. \A y \in rest : ~y.used => End(y) # m.off /\ End(m) # y.off
  BY <1>12, <1>15
<1>18. \A y \in gone \cup {x} : m.off <= y.off /\ End(y) <= End(m)
  BY <1>12, <1>14
<1> QED BY <1>11, <1>12, <1>13, <1>16, <1>17, <1>18 DEF m

\* Dropping an extent preserves the invariant.
LEMMA ReleaseStep ==
    ASSUME DiskInv, NEW x \in UsedRanges, Release(x)
    PROVE  DiskInv'
<1> DEFINE m    == Merged(x)
           gone == FreeBefore(x) \cup FreeAfter(x)
           rest == ranges \ (gone \cup {x})
<1> USE DiskCapacityAssumption
<1>1. /\ m \in Ranges /\ ~m.used /\ End(m) <= DiskCapacity
      /\ \A y \in gone : ~y.used /\ y \in ranges
      /\ \A y \in gone \cup {x} : m.off <= y.off /\ End(y) <= End(m)
      /\ \A y \in rest : End(y) <= m.off \/ End(m) <= y.off
      /\ \A y \in rest : ~y.used => End(y) # m.off /\ End(m) # y.off
  BY MergedRange
<1>2. /\ ranges' = rest \cup {m}
      /\ freeRanges' = (freeRanges \ {Key(y) : y \in gone}) \cup {Key(m)}
      /\ diskCharged' = diskCharged - x.bytes
  BY <1>1 DEF Release
<1>3. x \in ranges /\ x.used /\ x \notin gone
  BY <1>1 DEF UsedRanges
<1>4. \A y \in ranges : /\ y \in Ranges /\ End(y) <= DiskCapacity
                        /\ y.off \in Nat /\ End(y) \in Nat /\ y.off < End(y)
  BY DEF DiskInv, DiskTypeOK, Ranges, End
<1>5. m.off \in Nat /\ End(m) \in Nat /\ m.off < End(m)
  BY <1>1 DEF Ranges, End
<1> HIDE DEF m, gone
<1>6. DiskTypeOK'
  <2>1. \A y \in ranges' : y \in Ranges /\ End(y) <= DiskCapacity
    BY <1>1, <1>2, <1>4
  <2>2. \A k \in freeRanges' : k \in [bytes : Nat \ {0}, off : Nat]
    <3>1. \A k \in freeRanges : k \in [bytes : Nat \ {0}, off : Nat]
      BY DEF DiskInv, DiskTypeOK
    <3>2. Key(m) \in [bytes : Nat \ {0}, off : Nat]
      BY <1>1 DEF Key, Ranges
    <3> QED BY <3>1, <3>2, <1>2
  <2>3. diskCharged' \in Int
    <3>1. x.bytes \in Int
      BY <1>3, <1>4 DEF Ranges
    <3> QED BY <3>1, <1>2 DEF DiskInv, DiskTypeOK
  <2> QED BY <2>1, <2>2, <2>3 DEF DiskTypeOK, Ranges, End
<1>7. Disjoint'
  <2> SUFFICES ASSUME NEW y \in ranges', NEW z \in ranges', y # z
               PROVE  End(y) <= z.off \/ End(z) <= y.off
    BY DEF Disjoint, End
  <2>1. CASE y \in rest /\ z \in rest
    BY <2>1 DEF DiskInv, Disjoint
  <2>2. CASE y = m \/ z = m
    BY <2>2, <1>1, <1>2
  <2> QED BY <2>1, <2>2, <1>2
<1>8. Covered'
  <2> SUFFICES ASSUME NEW c \in Cells PROVE \E y \in ranges' : c \in CellsOf(y)
    BY DEF Covered, Cells, CellsOf, End
  <2>1. PICK y \in ranges : c \in CellsOf(y)
    BY DEF DiskInv, Covered
  <2>2. CASE y \in rest
    BY <2>1, <2>2, <1>2
  <2>3. CASE y \in gone \cup {x}
    <3>1. c \in Nat /\ y.off <= c /\ c <= End(y) - 1
      BY <2>1, <1>4 DEF CellsOf, Cells
    <3>2. m.off <= y.off /\ End(y) <= End(m)
      BY <2>3, <1>1
    <3>3. c \in CellsOf(m)
      BY <3>1, <3>2, <1>4, <1>5 DEF CellsOf
    <3> QED BY <3>3, <1>2
  <2> QED BY <2>2, <2>3
<1>9. Coalesced'
  <2> SUFFICES ASSUME NEW y \in ranges', NEW z \in ranges', ~y.used, ~z.used
               PROVE  End(y) # z.off
    BY DEF Coalesced, End
  <2>1. CASE y \in rest /\ z \in rest
    BY <2>1 DEF DiskInv, Coalesced
  <2>2. CASE y = m \/ z = m
    BY <2>2, <1>1, <1>2, <1>5
  <2> QED BY <2>1, <2>2, <1>2
<1>10. IndexInSync'
  <2>1. freeRanges = {Key(y) : y \in {z \in ranges : ~z.used}}
    BY DEF DiskInv, IndexInSync, UsedRanges
  <2>2. ASSUME NEW y \in rest, ~y.used, NEW z \in gone PROVE Key(y) # Key(z)
    <3>1. y \in ranges /\ z \in ranges /\ y # z
      BY <1>1, <2>2
    <3>2. End(y) <= z.off \/ End(z) <= y.off
      BY <3>1 DEF DiskInv, Disjoint
    <3> QED BY <3>1, <3>2, <1>4 DEF Key
  <2>3. {z \in ranges : ~z.used} = {z \in rest : ~z.used} \cup gone
    BY <1>1, <1>3
  <2>4. freeRanges \ {Key(y) : y \in gone} = {Key(y) : y \in {z \in rest : ~z.used}}
    BY <2>1, <2>2, <2>3
  <2>5. (ranges \ UsedRanges)' = {z \in rest : ~z.used} \cup {m}
    BY <1>1, <1>2 DEF UsedRanges
  <2> QED BY <2>4, <2>5, <1>2 DEF IndexInSync, Key
<1>11. ChargeIsUsedCells'
  <2>1. UsedRanges' = UsedRanges \ {x}
    BY <1>1, <1>2, <1>3 DEF UsedRanges
  <2>2. \A y \in UsedRanges : y = x \/ CellsOf(y) \cap CellsOf(x) = {}
    <3> SUFFICES ASSUME NEW y \in UsedRanges, y # x
                 PROVE  CellsOf(y) \cap CellsOf(x) = {}
      OBVIOUS
    <3>1. y \in ranges /\ (End(y) <= x.off \/ End(x) <= y.off)
      BY <1>3 DEF UsedRanges, DiskInv, Disjoint
    <3> QED BY <3>1, <1>3, <1>4 DEF CellsOf
  <2>3. CellsOf(x) \subseteq UsedCells
    BY <1>3, <1>4 DEF UsedCells, CellsOf, Cells
  <2>4. UsedCells' = UsedCells \ CellsOf(x)
    <3>1. UsedCells' = {c \in Cells : \E y \in UsedRanges \ {x} : c \in CellsOf(y)}
      BY <2>1 DEF UsedCells, CellsOf, End, Cells
    <3> QED BY <3>1, <2>2 DEF UsedCells
  <2>5. UsedCells \cap CellsOf(x) = CellsOf(x)
    BY <2>3
  <2>6. /\ IsFiniteSet(UsedCells) /\ Cardinality(UsedCells) \in Nat
        /\ Cardinality(CellsOf(x)) = x.bytes
    BY CellsOfFile, CellsOfRange, <1>3, <1>4
  <2>7. Cardinality(UsedCells') = Cardinality(UsedCells) - x.bytes
    <3>1. Cardinality(UsedCells \ CellsOf(x))
            = Cardinality(UsedCells) - Cardinality(UsedCells \cap CellsOf(x))
      BY <2>6, FS_Difference
    <3> QED BY <3>1, <2>4, <2>5, <2>6
  <2> QED BY <2>7, <1>2 DEF DiskInv, ChargeIsUsedCells
<1> QED BY <1>6, <1>7, <1>8, <1>9, <1>10, <1>11 DEF DiskInv

-----------------------------------------------------------------------------

\* The empty file is one hole.
LEMMA EmptyFile ==
    ASSUME DiskInit
    PROVE  DiskInv
<1> USE DiskCapacityAssumption
<1> DEFINE all == Entry(0, DiskCapacity, FALSE)
<1>1. /\ ranges = {all} /\ all \in Ranges /\ all.off = 0 /\ ~all.used
      /\ End(all) = DiskCapacity /\ all.bytes = DiskCapacity
  BY DEF DiskInit, Entry, Ranges, End
<1>2. freeRanges = {[bytes |-> DiskCapacity, off |-> 0]} /\ diskCharged = 0
  BY DEF DiskInit
<1> HIDE DEF all
<1>3. DiskTypeOK
  BY <1>1, <1>2 DEF DiskTypeOK, Ranges
<1>4. Disjoint /\ Coalesced
  BY <1>1 DEF Disjoint, Coalesced
<1>5. Covered
  BY <1>1 DEF Covered, CellsOf, Cells
<1>6. UsedRanges = {}
  BY <1>1 DEF UsedRanges
<1>7. IndexInSync
  BY <1>1, <1>2, <1>6 DEF IndexInSync, Key
<1>8. ChargeIsUsedCells
  BY <1>2, <1>6, FS_EmptySet DEF ChargeIsUsedCells, UsedCells
<1> QED BY <1>3, <1>4, <1>5, <1>7, <1>8 DEF DiskInv

\* The invariant holds throughout: the extents that clients hold are disjoint,
\* every cell stays reachable, adjacent holes are one hole, and both indexes
\* and the quota agree.
THEOREM DiskInvariant == DiskSpec => []DiskInv
<1>1. DiskInit => DiskInv
  BY EmptyFile
<1>2. DiskInv /\ [DiskNext]_diskVars => DiskInv'
  <2> SUFFICES ASSUME DiskInv, [DiskNext]_diskVars PROVE DiskInv'
    OBVIOUS
  <2>1. ASSUME NEW n \in 1 .. DiskCapacity, Reserve(n) PROVE DiskInv'
    BY <2>1, ReserveStep
  <2>2. ASSUME NEW x \in UsedRanges, Release(x) PROVE DiskInv'
    BY <2>2, ReleaseStep
  <2>3. CASE UNCHANGED diskVars
    BY <2>3 DEF diskVars, DiskInv, DiskTypeOK, Disjoint, Covered, Coalesced,
                IndexInSync, ChargeIsUsedCells, UsedCells, UsedRanges, CellsOf,
                End, Key, Cells
  <2> QED BY <2>1, <2>2, <2>3 DEF DiskNext
<1> QED BY <1>1, <1>2, PTL DEF DiskSpec

\* The quota counter always is the number of occupied cells.
THEOREM ChargeExactness == DiskSpec => []ChargeIsUsedCells
<1>1. DiskInv => ChargeIsUsedCells
  BY DEF DiskInv
<1> QED BY <1>1, DiskInvariant, PTL

\* A hole of n cells is inside one free range, because adjacent free ranges
\* have been merged.
LEMMA HoleInOneRange ==
    ASSUME DiskInv, NEW n \in 1 .. DiskCapacity, NEW o \in Cells, HoleAt(o, n)
    PROVE  Fitting(n) # {}
<1> USE DiskCapacityAssumption
<1>1. n \in Nat \ {0} /\ o \in Nat /\ o + n <= DiskCapacity
  BY DEF HoleAt, Cells
<1>2. \A c \in o .. o + n - 1 : c \in Cells /\ c \notin UsedCells
  BY <1>1 DEF HoleAt, Cells
<1>3. \A y \in ranges : /\ y \in Ranges /\ y.off \in Nat /\ y.bytes \in Nat
                        /\ End(y) = y.off + y.bytes /\ y.off < End(y)
  BY DEF DiskInv, DiskTypeOK, Ranges, End
<1>4. ASSUME NEW c \in o .. o + n - 1
      PROVE  \E y \in ranges : ~y.used /\ c \in CellsOf(y)
  BY <1>2 DEF DiskInv, Covered, UsedCells, UsedRanges
<1>5. PICK x \in ranges : ~x.used /\ o \in CellsOf(x)
  BY <1>1, <1>4
<1>6. x.off <= o /\ o < End(x)
  BY <1>1, <1>3, <1>5 DEF CellsOf
<1>7. ASSUME End(x) < o + n PROVE FALSE
  <2>1. End(x) \in o .. o + n - 1
    BY <1>1, <1>3, <1>6, <1>7
  <2>2. PICK y \in ranges : ~y.used /\ End(x) \in CellsOf(y)
    BY <2>1, <1>4
  <2>3. y.off <= End(x) /\ End(x) < End(y)
    BY <2>2, <1>3 DEF CellsOf
  <2>4. End(x) # y.off
    BY <2>2, <1>5 DEF DiskInv, Coalesced
  <2>5. x = y \/ End(x) <= y.off \/ End(y) <= x.off
    BY <2>2 DEF DiskInv, Disjoint
  <2> QED BY <2>2, <2>3, <2>4, <2>5, <1>3
<1>8. x.bytes >= n
  BY <1>1, <1>3, <1>6, <1>7
<1>9. Key(x) \in freeRanges /\ Key(x).bytes = x.bytes
  BY <1>5 DEF DiskInv, IndexInSync, UsedRanges, Key
<1> QED BY <1>8, <1>9 DEF Fitting

\* A request is granted exactly when some hole is large enough, and then the
\* extent is one of free cells.
THEOREM RefusalExact == DiskSpec => []RefusedOnlyWhenFull
<1>1. DiskInv => RefusedOnlyWhenFull
  <2> SUFFICES ASSUME DiskInv, NEW n \in 1 .. DiskCapacity
               PROVE  /\ (\E o \in Cells : HoleAt(o, n)) <=> CanReserve(n)
                      /\ CanReserve(n) => HoleAt(ReservedAt(n), n)
    BY DEF RefusedOnlyWhenFull
  <2> USE DiskCapacityAssumption
  <2>1. ASSUME NEW o \in Cells, HoleAt(o, n) PROVE CanReserve(n)
    <3>1. o \in Nat /\ n \in Nat \ {0} /\ o + n <= DiskCapacity
      BY <2>1 DEF HoleAt, Cells
    <3> DEFINE hole == o .. o + n - 1
    <3>2. hole \subseteq Cells /\ hole \cap UsedCells = {}
      BY <2>1, <3>1 DEF HoleAt, Cells
    <3>3. IsFiniteSet(hole) /\ Cardinality(hole) = n
      <4>1. o \in Int /\ o + n - 1 \in Int /\ ~(o > o + n - 1)
        BY <3>1
      <4>2. o + n - 1 - o + 1 = n
        BY <3>1
      <4> QED BY <4>1, <4>2, FS_Interval
    <3> HIDE DEF hole
    <3>4. Cardinality(hole \cup UsedCells)
            = n + Cardinality(UsedCells) - Cardinality({})
      BY <3>2, <3>3, CellsOfFile, FS_Union
    <3>5. Cardinality(hole \cup UsedCells) <= DiskCapacity
      BY <3>2, CellsOfFile, FS_Subset
    <3>6. n + diskCharged <= DiskCapacity
      BY <3>1, <3>4, <3>5, CellsOfFile, FS_EmptySet DEF DiskInv, ChargeIsUsedCells
    <3>7. diskCharged \in Int
      BY DEF DiskInv, DiskTypeOK
    <3> QED BY <3>1, <3>6, <3>7, <2>1, HoleInOneRange DEF CanReserve
  <2>2. ASSUME CanReserve(n) PROVE ReservedAt(n) \in Cells /\ HoleAt(ReservedAt(n), n)
    <3> DEFINE key == BestFit(n)
               x0  == Entry(key.off, key.bytes, FALSE)
    <3>1. /\ key.off \in Nat /\ key.bytes \in Nat /\ key.bytes >= n
          /\ x0 \in ranges /\ End(x0) <= DiskCapacity
          /\ \A y \in ranges \ {x0} : End(y) <= key.off \/ End(x0) <= y.off
      BY <2>2, BestFitRange
    <3>2. ~x0.used /\ End(x0) = key.off + key.bytes
      BY <3>1 DEF Entry, End
    <3>3. n \in Nat \ {0} /\ key.off + n <= DiskCapacity
      <4> HIDE DEF key, x0
      <4> QED BY <3>1, <3>2
    <3>4. ASSUME NEW c \in key.off .. key.off + n - 1 PROVE c \notin UsedCells
      <4> SUFFICES ASSUME NEW y \in UsedRanges, c \in CellsOf(y) PROVE FALSE
        BY DEF UsedCells
      <4>1. y \in ranges \ {x0}
        BY <3>2 DEF UsedRanges
      <4>2. y.off \in Nat /\ End(y) \in Nat
        BY <4>1 DEF DiskInv, DiskTypeOK, End
      <4>3. End(y) <= key.off \/ End(x0) <= y.off
        BY <4>1, <3>1
      <4> HIDE DEF key, x0
      <4> QED BY <4>2, <4>3, <3>1, <3>2, <3>3, <3>4 DEF CellsOf
    <3> HIDE DEF x0
    <3> QED BY <3>1, <3>3, <3>4 DEF HoleAt, ReservedAt, Cells
  <2> QED BY <2>1, <2>2
<1> QED BY <1>1, DiskInvariant, PTL

-----------------------------------------------------------------------------
(* What the invariant says of the file, part by part.                       *)

\* The entries of the map always have a length and stay inside the file.
THEOREM WellShaped == DiskSpec => []DiskTypeOK
<1>1. DiskInv => DiskTypeOK
  BY DEF DiskInv
<1> QED BY <1>1, DiskInvariant, PTL

\* No sequence of reserve and release lets two ranges overlap, loses a cell of
\* the file or leaves two free ranges side by side.
THEOREM AlwaysPartitioned == DiskSpec => []Partitioned
<1>1. DiskInv => Partitioned
  BY DEF DiskInv, Partitioned
<1> QED BY <1>1, DiskInvariant, PTL

\* The best-fit index and the map agree after every call.
THEOREM IndexExact == DiskSpec => []IndexInSync
<1>1. DiskInv => IndexInSync
  BY DEF DiskInv
<1> QED BY <1>1, DiskInvariant, PTL

-----------------------------------------------------------------------------
(* The tiered storage                                                       *)

\* The places at which a thread has the catalog lock, and those at which it
\* has chosen a batch it has not published.
Locking  == {"charge", "trim", "evict", "scan", "unwind"}
Choosing == {"scan", "write", "abort", "publish"}

\* The fields of a task; nothing is asked of the room for packing.
TaskShape(x) ==
    x \in [pc : Pcs, op : {"none", "reserve", "trim", "rewrite"}, rec : Records \cup {None},
           bytes : Nat, left : Nat, room : {x.room}, batch : Seq(Records),
           dests : Seq(Cells), next : Nat, data : Values \cup {None}, ok : BOOLEAN]

HostTypes ==
    /\ cells \in [Cells -> Values \cup {None}]
    /\ policy \in Threads \cup {None} /\ recLock \in [Records -> Threads \cup {None}]
    /\ residents \in Seq(Records)
    /\ held \subseteq Records /\ sealed \subseteq Records
    /\ pins \in [Records -> Nat] /\ readers \in [Records -> Nat]
    /\ ram \in [Records -> Values \cup {None}] /\ disk \in [Records -> Cells \cup {None}]
    /\ DOMAIN task = Threads

\* The operation of a thread is one it may be in at that place.
Phased(x) ==
    /\ x.pc = "idle" <=> x.op = "none"
    /\ x.pc \in {"charge", "wait", "woken"} => x.op # "trim"
    /\ x.pc \in {"lock", "read", "install"} => x.op = "rewrite"
    /\ x.pc = "trim" => x.op = "trim"
    /\ x.op = "rewrite" <=> x.rec # None
    /\ x.batch # <<>> \/ x.dests # <<>> => x.pc \in Choosing \cup {"unwind"}
    /\ x.pc \in Choosing => DOMAIN x.dests = DOMAIN x.batch
    /\ x.pc = "write" => x.next \in DOMAIN x.batch
    /\ \A i, j \in DOMAIN x.batch : x.batch[i] = x.batch[j] => i = j
    /\ \A i \in DOMAIN x.batch : x.batch[i] # x.rec

\* The records whose tier lock a thread in x holds.
Locks(x) == {r \in Records : r \in Range(x.batch) \/ (x.pc # "lock" /\ r = x.rec)}

LocksSafe(t) ==
    /\ policy = t <=> task[t].pc \in Locking
    /\ task[t].pc = "scan" => task[t].left <= Len(residents)
    /\ \A r \in Records : recLock[r] = t <=> r \in Locks(task[t])

\* An extent of n cells at off; what it is filled with.
Holds(off, n) == \E x \in UsedRanges : x.off = off /\ x.bytes = n
Filled(off, n, v) == \A k \in off .. off + n - 1 : cells[k] = v

\* What a thread relies on while the locks are given up.
TaskSafe(t) ==
    LET x == task[t] IN
    /\ x.rec # None => x.rec \in held /\ (x.pc # "lock" => disk[x.rec] # None)
    /\ x.pc = "install" => x.data = OnDisk(x.rec)
    /\ \A i \in DOMAIN x.dests : \E y \in UsedRanges : y.off = x.dests[i]
    /\ x.pc \in Choosing => \A i \in DOMAIN x.batch :
         /\ x.batch[i] \in sealed /\ ram[x.batch[i]] # None
         /\ Holds(x.dests[i], Size[x.batch[i]])
         /\ x.pc = "publish" \/ (x.pc = "write" /\ i < x.next) =>
              Filled(x.dests[i], Size[x.batch[i]], ram[x.batch[i]])

TaskInv(t) == TaskShape(task[t]) /\ Phased(task[t]) /\ LocksSafe(t) /\ TaskSafe(t)

\* A record is in one tier while it is alive and in none when it is not; its
\* extent is whole and filled with one content.
RecordSafe(r) ==
    /\ Alive(r) => (ram[r] = None <=> disk[r] # None)
    /\ ~Alive(r) => ram[r] = None /\ disk[r] = None
    /\ recLock[r] # None => pins[r] = 0
    /\ disk[r] # None => /\ r \in sealed
                         /\ Holds(disk[r], Size[r])
                         /\ \E v \in Values : Filled(disk[r], Size[r], v)

\* No extent has two owners, and no record two owners' calls.
Apart ==
    /\ \A t, u \in Threads : task[t].rec = task[u].rec => t = u \/ task[t].rec = None
    /\ \A r, s \in Records : disk[r] = disk[s] => r = s \/ disk[r] = None
    /\ \A r \in Records, t \in Threads : \A i \in DOMAIN task[t].dests : disk[r] # task[t].dests[i]
    /\ \A t, u \in Threads : \A i \in DOMAIN task[t].dests, j \in DOMAIN task[u].dests :
         task[t].dests[i] = task[u].dests[j] => t = u /\ i = j

HostInv ==
    /\ HostTypes
    /\ DiskInv
    /\ Apart
    /\ \A t \in Threads : TaskInv(t)
    /\ \A r \in Records : RecordSafe(r)

-----------------------------------------------------------------------------
(* Facts about the constants and the bookkeeping of threads                 *)

\* The sizes of records are positive, and None is none of the things it marks.
LEMMA Constants ==
    /\ \A r \in Records : Size[r] \in Nat \ {0}
    /\ None \notin Threads /\ None \notin Records /\ None \notin Values /\ None \notin Nat
    /\ None \notin Cells
    /\ \A c \in Cells : c \in Nat
<1>1. Cells \subseteq Nat
  BY DiskCapacityAssumption DEF Cells
<1> QED BY <1>1, SizeAssumption, NoneAssumption

\* The records of all batches, before and after a step.
LEMMA BatchedIs ==
    /\ \A r : r \in Batched <=> \E t \in Threads : r \in Range(task[t].batch)
    /\ \A r : r \in Batched' <=> \E t \in Threads : r \in Range(task'[t].batch)
BY DEF Batched

\* When no batch changes the same records are held by the batches.
LEMMA BatchedKept ==
    ASSUME \A t \in Threads : task'[t].batch = task[t].batch
    PROVE  \A r : r \in Batched' <=> r \in Batched
BY BatchedIs

-----------------------------------------------------------------------------
(* Extents and their content                                                *)

\* Every used range but the one at o is still there, with its content.
Spares(o) ==
    \A x \in UsedRanges : x.off # o =>
        x \in UsedRanges' /\ \A c \in CellsOf(x) : cells'[c] = cells[c]

\* What a used range is.
LEMMA UsedFacts ==
    ASSUME DiskInv
    PROVE  /\ \A x \in UsedRanges :
                /\ x.off \in Nat /\ x.bytes \in Nat \ {0} /\ x.used /\ x \in ranges
                /\ CellsOf(x) = x.off .. x.off + x.bytes - 1
                /\ CellsOf(x) \subseteq Cells
                /\ x.off \in Cells
           /\ \A x, y \in UsedRanges : x.off = y.off => x = y
           /\ \A x, y \in UsedRanges : x # y => CellsOf(x) \cap CellsOf(y) = {}
<1> USE DiskCapacityAssumption
<1>1. \A x \in UsedRanges : x \in ranges /\ x.used
  BY DEF UsedRanges
<1>2. \A x \in UsedRanges : /\ x.off \in Nat /\ x.bytes \in Nat \ {0}
                            /\ End(x) = x.off + x.bytes /\ End(x) <= DiskCapacity
  BY <1>1 DEF DiskInv, DiskTypeOK, End
<1>3. \A x, y \in UsedRanges : x = y \/ End(x) <= y.off \/ End(y) <= x.off
  BY <1>1 DEF DiskInv, Disjoint
<1>4. \A x \in UsedRanges : /\ CellsOf(x) = x.off .. x.off + x.bytes - 1
                            /\ CellsOf(x) \subseteq Cells
                            /\ x.off \in Cells
  BY <1>2 DEF CellsOf, Cells
<1>5. \A x, y \in UsedRanges : x.off = y.off => x = y
  BY <1>2, <1>3
<1>6. \A x, y \in UsedRanges : x # y => CellsOf(x) \cap CellsOf(y) = {}
  BY <1>2, <1>3 DEF CellsOf
<1> QED BY <1>1, <1>2, <1>4, <1>5, <1>6

\* The handle of an extent finds it.
LEMMA UsedAtIs ==
    ASSUME DiskInv, NEW x \in UsedRanges
    PROVE  UsedAt(x.off) = x
<1>1. \A y \in UsedRanges : x.off = y.off => x = y
  BY UsedFacts
<1> QED BY <1>1 DEF UsedAt

\* An extent that is spared is still held, and filled with what it was.
LEMMA HoldsKept ==
    ASSUME DiskInv, NEW o, Spares(o), NEW off, off # o, NEW n, Holds(off, n)
    PROVE  /\ \E x \in UsedRanges' : x.off = off /\ x.bytes = n
           /\ \A k \in off .. off + n - 1 : cells'[k] = cells[k]
<1>1. PICK x \in UsedRanges : x.off = off /\ x.bytes = n
  BY DEF Holds
<1>2. x \in UsedRanges' /\ \A c \in CellsOf(x) : cells'[c] = cells[c]
  BY <1>1 DEF Spares
<1>3. CellsOf(x) = off .. off + n - 1
  BY <1>1, UsedFacts
<1> QED BY <1>1, <1>2, <1>3

\* A range that is spared is still in use.
LEMMA UsedKept ==
    ASSUME NEW o, Spares(o), NEW off, off # o, \E x \in UsedRanges : x.off = off
    PROVE  \E x \in UsedRanges' : x.off = off
BY DEF Spares

\* A step that leaves the file alone spares everything.
LEMMA NothingTouched ==
    ASSUME UNCHANGED <<diskVars, cells>>
    PROVE  /\ \A o : Spares(o)
           /\ UsedRanges' = UsedRanges
           /\ DiskInv => DiskInv'
<1>1. UNCHANGED <<ranges, freeRanges, diskCharged, cells>>
  BY DEF diskVars
<1>2. UsedRanges' = UsedRanges
  BY <1>1 DEF UsedRanges
<1>3. DiskInv => DiskInv'
  BY <1>1 DEF DiskInv, DiskTypeOK, Disjoint, Covered, Coalesced, IndexInSync,
              ChargeIsUsedCells, UsedCells, UsedRanges, CellsOf, End, Key, Cells
<1> QED BY <1>1, <1>2, <1>3 DEF Spares

\* Dropping an extent handle spares every other extent.
LEMMA FreeSpares ==
    ASSUME DiskInv, NEW x \in UsedRanges, Free(x), cells \in [Cells -> Values \cup {None}]
    PROVE  /\ Spares(x.off)
           /\ DiskInv'
           /\ cells' \in [Cells -> Values \cup {None}]
<1>1. Release(x) /\ cells' = [c \in Cells |-> IF c \in CellsOf(x) THEN None ELSE cells[c]]
  BY DEF Free
<1>2. DiskInv'
  BY <1>1, ReleaseStep
<1>3. ASSUME NEW y \in UsedRanges, y.off # x.off
      PROVE  y \in UsedRanges' /\ \A c \in CellsOf(y) : cells'[c] = cells[c]
  <2>1. y # x /\ y \in ranges /\ y.used /\ CellsOf(y) \subseteq Cells
    BY <1>3, UsedFacts
  <2>2. y \notin FreeBefore(x) \cup FreeAfter(x)
    BY <2>1 DEF FreeBefore, FreeAfter
  <2>3. y \in ranges'
    BY <1>1, <2>1, <2>2 DEF Release
  <2>4. CellsOf(x) \cap CellsOf(y) = {}
    BY <2>1, UsedFacts
  <2> QED BY <1>1, <2>1, <2>3, <2>4 DEF UsedRanges
<1>4. Spares(x.off)
  BY <1>3 DEF Spares
<1> QED BY <1>1, <1>2, <1>4

\* A new extent is apart from all others, which it spares.
LEMMA ReserveSpares ==
    ASSUME DiskInv, NEW n \in Nat \ {0}, Reserve(n), UNCHANGED cells
    PROVE  /\ \A o : Spares(o)
           /\ DiskInv'
           /\ ReservedAt(n) \in Cells
           /\ \A x \in UsedRanges : x.off # ReservedAt(n)
           /\ \E x \in UsedRanges' : x.off = ReservedAt(n) /\ x.bytes = n
<1> USE DiskCapacityAssumption
<1> DEFINE key == BestFit(n)
           x0  == Entry(key.off, key.bytes, FALSE)
           u   == Entry(key.off, n, TRUE)
<1>1. CanReserve(n)
  BY DEF Reserve
<1>2. n \in 1 .. DiskCapacity
  <2>1. diskCharged \in Nat
    BY CellsOfFile DEF DiskInv, ChargeIsUsedCells
  <2> QED BY <1>1, <2>1 DEF CanReserve
<1>3. DiskInv'
  BY <1>2, ReserveStep
<1>4. /\ key.off \in Nat /\ key.bytes \in Nat /\ key.bytes >= n
      /\ x0 \in ranges /\ End(x0) <= DiskCapacity
      /\ \A y \in ranges \ {x0} : End(y) <= key.off \/ End(x0) <= y.off
  BY <1>1, <1>2, BestFitRange
<1>5. /\ x0.off = key.off /\ ~x0.used /\ End(x0) = key.off + key.bytes
      /\ u.off = key.off /\ u.bytes = n /\ u.used
  BY DEF Entry, End
<1>6. u \in ranges' /\ \A y \in ranges \ {x0} : y \in ranges'
  BY DEF Reserve
<1> HIDE DEF x0, u, key
<1>7. u \in UsedRanges'
  BY <1>5, <1>6 DEF UsedRanges
<1>8. \A x \in UsedRanges : x \in UsedRanges'
  BY <1>5, <1>6 DEF UsedRanges
<1>9. ASSUME NEW x \in UsedRanges PROVE x.off # key.off
  <2>1. x \in ranges \ {x0} /\ x.off \in Nat /\ x.bytes \in Nat \ {0}
    BY <1>5, UsedFacts
  <2>2. x.off + x.bytes <= key.off \/ key.off + key.bytes <= x.off
    BY <1>4, <1>5, <2>1 DEF End
  <2> QED BY <1>2, <1>4, <2>1, <2>2
<1>10. ReservedAt(n) = key.off /\ key.off \in Cells
  <2>1. ReservedAt(n) = key.off
    BY DEF ReservedAt, key
  <2> QED BY <2>1, <1>2, <1>4, <1>5 DEF Cells
<1>11. \A o : Spares(o)
  BY <1>8 DEF Spares
<1> QED BY <1>3, <1>5, <1>7, <1>9, <1>10, <1>11

\* What a read of n cells at off returns in a file f.
Only(got) == IF Cardinality(got) = 1 THEN CHOOSE v \in got : TRUE ELSE None
Read(f, off, n) == Only({f[c] : c \in off .. off + n - 1})

\* Cells that all have one content read as that content.
LEMMA ReadIs ==
    ASSUME NEW f, NEW off \in Nat, NEW n \in Nat \ {0}, NEW v,
           \A k \in off .. off + n - 1 : f[k] = v
    PROVE  Read(f, off, n) = v
<1> DEFINE got == {f[c] : c \in off .. off + n - 1}
<1>1. off \in off .. off + n - 1
  OBVIOUS
<1>2. got = {v}
  BY <1>1
<1>3. Cardinality({v}) = 1
  BY FS_Singleton
<1>4. (CHOOSE w \in {v} : TRUE) = v
  OBVIOUS
<1> HIDE DEF got
<1>5. Cardinality(got) = 1 /\ (CHOOSE w \in got : TRUE) = v
  BY <1>2, <1>3, <1>4
<1> QED BY <1>5 DEF Read, Only, got

\* Cells that do not change read the same.
LEMMA ReadKept ==
    ASSUME NEW f, NEW g, NEW off, NEW n,
           \A k \in off .. off + n - 1 : g[k] = f[k]
    PROVE  Read(g, off, n) = Read(f, off, n)
<1>1. {g[c] : c \in off .. off + n - 1} = {f[c] : c \in off .. off + n - 1}
  OBVIOUS
<1> QED BY <1>1 DEF Read

\* What a record on disk shows, before and after a step.
LEMMA OnDiskIs ==
    ASSUME NEW r
    PROVE  /\ OnDisk(r) = Read(cells, disk[r], Size[r])
           /\ OnDisk(r)' = Read(cells', disk'[r], Size[r])
BY Zenon DEF OnDisk, Read, Only

-----------------------------------------------------------------------------
(* The catalog                                                              *)

\* The stages of Kept, one entry after the other.
LEMMA KeptSteps ==
    ASSUME NEW S, NEW s \in Seq(S), NEW keep
    PROVE  \E upTo : /\ Kept(s, keep) = upTo[Len(s)] /\ upTo[0] = <<>>
                      /\ \A i \in 1 .. Len(s) : upTo[i] = IF s[i] \in keep THEN Append(upTo[i - 1], s[i]) ELSE upTo[i - 1]
<1> DEFINE n == Len(s)
           step(f, i) == IF i = 0 THEN <<>>
                         ELSE IF s[i] \in keep THEN Append(f[i - 1], s[i]) ELSE f[i - 1]
           is(m, f) == f = [i \in 0 .. m |-> step(f, i)]
           upTo == CHOOSE f : is(n, f)
<1>1. n \in Nat /\ \A i \in 1 .. n : s[i] \in S
  OBVIOUS
<1>2. Kept(s, keep) = upTo[n]
  BY Zenon DEF Kept
<1> HIDE DEF n
<1>3. \A m \in 0 .. n : \E f : is(m, f)
  <2> DEFINE bad == {m \in 0 .. n : ~\E f : is(m, f)}
  <2> SUFFICES ASSUME bad # {} PROVE FALSE
    OBVIOUS
  <2>1. bad \in SUBSET Nat
    BY <1>1
  <2>2. PICK m \in bad : \A k \in bad : m <= k
    <3> HIDE DEF bad
    <3> QED
      BY <2>1, LeastNat
  <2>3. CASE m = 0
    <3>1. is(0, [i \in 0 .. 0 |-> <<>>])
      OBVIOUS
    <3> QED
      BY <2>2, <2>3, <3>1
  <2>4. CASE m # 0
    <3>1. m - 1 \in 0 .. n /\ ~(m <= m - 1) /\ m \in Nat
      BY <1>1, <2>2, <2>4
    <3>2. PICK f : is(m - 1, f)
      BY <2>2, <3>1
    <3> DEFINE g == [i \in 0 .. m |-> IF i < m THEN f[i] ELSE step(f, m)]
    <3>3. ASSUME NEW i \in 0 .. m PROVE g[i] = step(g, i)
      <4>1. CASE i = m
        BY <3>1, <4>1, <2>4
      <4>2. CASE i # m
        <5>1. i \in 0 .. m - 1 /\ i < m /\ (i # 0 => i - 1 \in 0 .. m /\ i - 1 < m)
          BY <3>1, <4>2
        <5>2. f[i] = step(f, i)
          BY <3>2, <5>1
        <5> QED
          BY <5>1, <5>2
      <4> QED
        BY <4>1, <4>2
    <3>4. is(m, g)
      <4> HIDE DEF step
      <4>1. g = [i \in 0 .. m |-> g[i]]
        OBVIOUS
      <4> HIDE DEF g
      <4> QED
        BY <3>3, <4>1
    <3> QED
      BY <2>2, <3>4
  <2> QED
    BY <2>3, <2>4
<1>4. is(n, upTo)
  <2> HIDE DEF is
  <2>1. n \in 0 .. n
    BY <1>1
  <2>2. \E f : is(n, f)
    BY <1>3, <2>1
  <2> QED
    BY <2>2
<1> HIDE DEF upTo
<1>5. \A i \in 0 .. n : upTo[i] = step(upTo, i)
  BY <1>4
<1>6. upTo[0] = <<>> /\ \A i \in 1 .. n : upTo[i] = IF s[i] \in keep THEN Append(upTo[i - 1], s[i]) ELSE upTo[i - 1]
  <2>1. 0 \in 0 .. n /\ \A i \in 1 .. n : i \in 0 .. n /\ i # 0
    BY <1>1
  <2> QED BY <1>5, <2>1
<1> QED
  BY <1>2, <1>6 DEF n

\* What stays of a catalog is a catalog.
LEMMA KeptTyped ==
    ASSUME NEW S, NEW s \in Seq(S), NEW keep
    PROVE  Kept(s, keep) \in Seq(S)
<1> DEFINE n == Len(s)
<1>1. n \in Nat /\ \A i \in 1 .. n : s[i] \in S
  OBVIOUS
<1>2. PICK upTo : /\ Kept(s, keep) = upTo[n] /\ upTo[0] = <<>>
                  /\ \A i \in 1 .. n : upTo[i] = IF s[i] \in keep THEN Append(upTo[i - 1], s[i]) ELSE upTo[i - 1]
  BY KeptSteps
<1> HIDE DEF n
<1>3. \A i \in 0 .. n : upTo[i] \in Seq(S)
  <2> DEFINE bad == {i \in 0 .. n : upTo[i] \notin Seq(S)}
  <2> SUFFICES ASSUME bad # {} PROVE FALSE
    OBVIOUS
  <2>1. bad \in SUBSET Nat
    BY <1>1
  <2>2. PICK m \in bad : \A k \in bad : m <= k
    <3> HIDE DEF bad
    <3> QED BY <2>1, LeastNat
  <2>3. m # 0
    <3>1. <<>> \in Seq(S)
      OBVIOUS
    <3>2. upTo[0] \in Seq(S)
      BY <1>2, <3>1
    <3> QED BY <2>2, <3>2
  <2>4. m - 1 \in 0 .. n /\ m \in 1 .. n /\ ~(m <= m - 1)
    BY <1>1, <2>2, <2>3
  <2>5. upTo[m - 1] \in Seq(S) /\ s[m] \in S
    BY <1>1, <2>2, <2>4
  <2>6. upTo[m] \in {upTo[m - 1], Append(upTo[m - 1], s[m])}
    BY <1>2, <2>4
  <2>7. Append(upTo[m - 1], s[m]) \in Seq(S)
    BY <2>5
  <2> QED BY <2>2, <2>5, <2>6, <2>7
<1> QED BY <1>1, <1>2, <1>3

-----------------------------------------------------------------------------
(* What a step leaves alone                                                 *)

\* The records a thread in x relies on while others run.
Relies(x) == {r \in Records : \/ x.pc \in Choosing /\ r \in Range(x.batch)
                              \/ x.pc # "lock" /\ r = x.rec}

\* A thread does nothing, or is woken.
Rests(s) ==
    \/ task'[s] = task[s]
    \/ task[s].pc = "wait" /\ task'[s] = [task[s] EXCEPT !.pc = "woken"]

\* A step of t, or of an owner when t is None, that changes the tiers of the
\* records in R only, and of the extents only the one at o.
Frame(t, R, o) ==
    /\ \A s \in Threads \ {t} :
         /\ Rests(s)
         /\ policy' = s <=> policy = s
         /\ \A r \in R : r \notin Relies(task[s])
         /\ task[s].rec # None => task[s].rec \in held'
         /\ \A i \in DOMAIN task[s].dests : task[s].dests[i] # o
    /\ policy \notin {t, None} => residents' = residents
    /\ \A r \in Records : \/ recLock'[r] = recLock[r]
                          \/ recLock'[r] \in {t, None} /\ recLock[r] \in {t, None}
    /\ \A r \in Records : r \notin R =>
         /\ ram'[r] = ram[r] /\ disk'[r] = disk[r]
         /\ r \in sealed => r \in sealed'
         /\ disk[r] # None => disk[r] # o
    /\ Spares(o)

\* What a task may rely on after a step, said of its next value.
LEMMA TaskSafeNext ==
    ASSUME NEW s, NEW y, y = task'[s],
           y.rec # None => y.rec \in held' /\ (y.pc # "lock" => disk'[y.rec] # None),
           y.pc = "install" => y.data = Read(cells', disk'[y.rec], Size[y.rec]),
           \A i \in DOMAIN y.dests : \E z \in UsedRanges' : z.off = y.dests[i],
           y.pc \in Choosing => \A i \in DOMAIN y.batch :
             /\ y.batch[i] \in sealed' /\ ram'[y.batch[i]] # None
             /\ \E z \in UsedRanges' : z.off = y.dests[i] /\ z.bytes = Size[y.batch[i]]
             /\ y.pc = "publish" \/ (y.pc = "write" /\ i < y.next) =>
                  \A k \in y.dests[i] .. y.dests[i] + Size[y.batch[i]] - 1 : cells'[k] = ram'[y.batch[i]]
    PROVE  TaskSafe(s)'
<1>1. task'[s].pc = "install" => task'[s].data = OnDisk(task[s].rec)'
  <2>1. Read(cells', disk'[task'[s].rec], Size[task'[s].rec]) = OnDisk(task[s].rec)'
    BY Zenon DEF OnDisk, Read, Only
  <2> QED BY <2>1
<1> QED BY <1>1 DEF TaskSafe, Holds, Filled

\* What such a step leaves alone is as it was for every other thread.
LEMMA OthersKept ==
    ASSUME HostInv, NEW t, NEW R, NEW o, Frame(t, R, o), NEW s \in Threads \ {t}
    PROVE  TaskInv(s)'
<1> DEFINE x == task[s]
           y == task'[s]
<1>1. TaskShape(x) /\ Phased(x) /\ LocksSafe(s) /\ TaskSafe(s)
  BY DEF HostInv, TaskInv
<1>2. /\ y.op = x.op /\ y.rec = x.rec /\ y.bytes = x.bytes /\ y.left = x.left /\ y.room = x.room
      /\ y.batch = x.batch /\ y.dests = x.dests /\ y.next = x.next /\ y.data = x.data /\ y.ok = x.ok
      /\ y.pc = x.pc \/ (x.pc = "wait" /\ y.pc = "woken")
      /\ TaskShape(y)
  <2>1. CASE y = x
    BY <1>1, <2>1
  <2>2. CASE x.pc = "wait" /\ y = [x EXCEPT !.pc = "woken"]
    BY <1>1, <2>2 DEF TaskShape, Pcs
  <2> QED BY <2>1, <2>2 DEF Frame, Rests
<1> HIDE DEF y
<1>3. Phased(y)
  BY <1>1, <1>2 DEF Phased, Choosing
<1>4. LocksSafe(s)'
  <2>1. policy' = s <=> y.pc \in Locking
    BY <1>1, <1>2 DEF Frame, LocksSafe, Locking
  <2>2. y.pc = "scan" => y.left <= Len(residents')
    <3> SUFFICES ASSUME y.pc = "scan" PROVE y.left <= Len(residents')
      OBVIOUS
    <3>1. policy = s /\ s # None /\ s # t
      BY Constants, <1>1, <1>2 DEF LocksSafe, Locking
    <3>2. residents' = residents
      BY <3>1 DEF Frame
    <3> QED BY <3>2, <1>1, <1>2 DEF LocksSafe
  <2>3. ASSUME NEW r \in Records PROVE recLock'[r] = s <=> r \in Locks(y)
    <3>1. recLock'[r] = s <=> recLock[r] = s
      BY Constants DEF Frame
    <3>2. recLock[r] = s <=> r \in Locks(x)
      BY <1>1 DEF LocksSafe
    <3>3. r \in Locks(y) <=> r \in Locks(x)
      BY <1>1, <1>2 DEF Locks, Phased
    <3> QED BY <3>1, <3>2, <3>3
  <2> QED BY <2>1, <2>2, <2>3 DEF LocksSafe, y
<1>5. ASSUME NEW r \in Records, r \in Relies(x)
      PROVE  /\ ram'[r] = ram[r] /\ disk'[r] = disk[r]
             /\ r \in sealed => r \in sealed'
             /\ disk[r] # None => disk[r] # o
  BY <1>5 DEF Frame
<1>6. TaskSafe(s)'
  <2>1. x.rec # None => x.rec \in held' /\ (x.pc # "lock" => disk'[x.rec] # None)
    <3>1. x.rec # None => x.rec \in held'
      BY DEF Frame
    <3>2. ASSUME x.rec # None, x.pc # "lock" PROVE disk'[x.rec] # None
      <4>1. x.rec \in Relies(x) /\ disk[x.rec] # None /\ x.rec \in Records
        BY <3>2, <1>1 DEF Relies, TaskShape, TaskSafe
      <4> QED BY <4>1, <1>5
    <3> QED BY <3>1, <3>2
  <2>2. ASSUME x.pc = "install" PROVE x.data = Read(cells', disk'[x.rec], Size[x.rec])
    <3>1. /\ x.rec \in Relies(x) /\ disk[x.rec] # None /\ x.rec \in Records
          /\ x.data = OnDisk(x.rec)
      BY <2>2, <1>1 DEF Phased, Relies, TaskShape, TaskSafe
    <3>2. PICK r \in Records : r = x.rec
      BY <3>1
    <3>3. disk'[r] = disk[r] /\ disk[r] # o
      BY <3>1, <3>2, <1>5
    <3>4. Holds(disk[r], Size[r])
      BY <3>1, <3>2 DEF HostInv, RecordSafe
    <3>5. Spares(o) /\ DiskInv
      BY DEF Frame, HostInv
    <3>6. \A k \in disk[r] .. disk[r] + Size[r] - 1 : cells'[k] = cells[k]
      BY <3>3, <3>4, <3>5, HoldsKept
    <3>7. x.data = Read(cells, disk[r], Size[r])
      BY <3>1, <3>2, OnDiskIs
    <3>8. Read(cells', disk[r], Size[r]) = Read(cells, disk[r], Size[r])
      BY <3>6, ReadKept
    <3> QED BY <3>2, <3>3, <3>7, <3>8
  <2>3. ASSUME NEW i \in DOMAIN x.dests PROVE \E z \in UsedRanges' : z.off = x.dests[i]
    BY <1>1, UsedKept DEF Frame, TaskSafe
  <2>4. ASSUME x.pc \in Choosing, NEW i \in DOMAIN x.batch
        PROVE  LET q == x.batch[i]
                   d == x.dests[i]
               IN  /\ q \in sealed' /\ ram'[q] # None
                   /\ \E z \in UsedRanges' : z.off = d /\ z.bytes = Size[q]
                   /\ x.pc = "publish" \/ (x.pc = "write" /\ i < x.next) =>
                        \A k \in d .. d + Size[q] - 1 : cells'[k] = ram'[q]
    <3> DEFINE q == x.batch[i]
               d == x.dests[i]
    <3>1. /\ q \in sealed /\ ram[q] # None /\ Holds(d, Size[q])
          /\ x.pc = "publish" \/ (x.pc = "write" /\ i < x.next) => Filled(d, Size[q], ram[q])
      BY <2>4, <1>1 DEF TaskSafe
    <3>2. q \in Records /\ q \in Relies(x) /\ i \in DOMAIN x.dests
      BY <2>4, <1>1 DEF TaskShape, Relies, Range, Phased
    <3>3. ram'[q] = ram[q] /\ q \in sealed' /\ d # o
      BY <3>1, <3>2, <1>5 DEF Frame
    <3>4. Spares(o) /\ DiskInv
      BY DEF Frame, HostInv
    <3> HIDE DEF q, d
    <3>8. Holds(d, Size[q]) /\ d # o
      BY <3>1, <3>3
    <3>9. \A k \in d .. d + Size[q] - 1 : cells'[k] = cells[k]
      BY <3>4, <3>8, HoldsKept
    <3>5. /\ \E z \in UsedRanges' : z.off = d /\ z.bytes = Size[q]
          /\ \A k \in d .. d + Size[q] - 1 : cells'[k] = cells[k]
      BY <3>4, <3>8, <3>9, HoldsKept
    <3>6. ASSUME x.pc = "publish" \/ (x.pc = "write" /\ i < x.next)
          PROVE  \A k \in d .. d + Size[q] - 1 : cells'[k] = ram'[q]
      BY <3>1, <3>3, <3>5, <3>6 DEF Filled
    <3>7. ram'[q] # None
      BY <3>1, <3>3
    <3> QED BY <3>3, <3>5, <3>6, <3>7 DEF q, d
  <2>5. y.pc \in Choosing \cup {"install", "lock"} \/ x.pc \in Choosing \cup {"install", "lock"} => y.pc = x.pc
    BY <1>2 DEF Choosing
  <2>6. y.rec # None => y.rec \in held' /\ (y.pc # "lock" => disk'[y.rec] # None)
    BY <1>2, <2>1, <2>5
  <2>7. y.pc = "install" => y.data = Read(cells', disk'[y.rec], Size[y.rec])
    BY <1>2, <2>2, <2>5
  <2>8. \A i \in DOMAIN y.dests : \E z \in UsedRanges' : z.off = y.dests[i]
    BY <1>2, <2>3
  <2>9. ASSUME y.pc \in Choosing, NEW i \in DOMAIN y.batch
        PROVE  /\ y.batch[i] \in sealed' /\ ram'[y.batch[i]] # None
               /\ \E z \in UsedRanges' : z.off = y.dests[i] /\ z.bytes = Size[y.batch[i]]
               /\ y.pc = "publish" \/ (y.pc = "write" /\ i < y.next) =>
                    \A k \in y.dests[i] .. y.dests[i] + Size[y.batch[i]] - 1 : cells'[k] = ram'[y.batch[i]]
    <3>1. x.pc \in Choosing /\ i \in DOMAIN x.batch /\ x.pc = y.pc
      BY <1>2, <2>5, <2>9
    <3> HIDE DEF x
    <3> QED BY <1>2, <2>4, <3>1
  <2>10. y = task'[s]
    BY DEF y
  <2> QED BY <2>6, <2>7, <2>8, <2>9, <2>10, TaskSafeNext
<1> QED BY <1>2, <1>3, <1>4, <1>6 DEF TaskInv, y

\* A record that the step spares is as it was.
LEMMA RecordKept ==
    ASSUME HostInv, NEW o, Spares(o), NEW r \in Records,
           ram'[r] = ram[r], disk'[r] = disk[r], disk[r] # None => disk[r] # o,
           r \in sealed => r \in sealed',
           Alive(r)' <=> Alive(r),
           recLock'[r] # None => pins'[r] = 0
    PROVE  /\ RecordSafe(r)'
           /\ disk[r] # None => OnDisk(r)' = OnDisk(r)
<1>1. RecordSafe(r) /\ DiskInv
  BY DEF HostInv
<1>2. ASSUME disk[r] # None
      PROVE  /\ \E x \in UsedRanges' : x.off = disk[r] /\ x.bytes = Size[r]
             /\ \A k \in disk[r] .. disk[r] + Size[r] - 1 : cells'[k] = cells[k]
             /\ \E v \in Values : Filled(disk[r], Size[r], v)
  <2>1. disk[r] # o /\ Holds(disk[r], Size[r]) /\ \E v \in Values : Filled(disk[r], Size[r], v)
    BY <1>1, <1>2 DEF RecordSafe
  <2>2. \A k \in disk[r] .. disk[r] + Size[r] - 1 : cells'[k] = cells[k]
    BY <1>1, <2>1, HoldsKept
  <2> QED BY <1>1, <2>1, <2>2, HoldsKept
<1>3. disk[r] # None => OnDisk(r)' = OnDisk(r)
  BY <1>2, OnDiskIs, ReadKept
<1>4. disk[r] # None => \E v \in Values : \A k \in disk[r] .. disk[r] + Size[r] - 1 : cells'[k] = v
  BY <1>2 DEF Filled
<1>5. (Alive(r)' => (ram'[r] = None <=> disk'[r] # None)) /\ (~Alive(r)' => ram'[r] = None /\ disk'[r] = None)
  BY <1>1 DEF RecordSafe
<1>6. disk'[r] # None => r \in sealed'
  BY <1>1 DEF RecordSafe
<1> QED BY <1>2, <1>3, <1>4, <1>5, <1>6 DEF RecordSafe, Holds, Filled

\* Owners only give things up.
LEMMA ApartKept ==
    ASSUME HostInv,
           \A s \in Threads : /\ task'[s].rec \in {task[s].rec, None}
                              /\ task'[s].dests \in {task[s].dests, <<>>},
           \A r \in Records : disk'[r] \in {disk[r], None}
    PROVE  Apart'
<1>1. Apart /\ \A s \in Threads : \A i \in DOMAIN task[s].dests : task[s].dests[i] \in Cells
  BY DEF HostInv, TaskInv, TaskShape
<1>2. None \notin Cells
  BY Constants
<1>3. \A s \in Threads : \A i \in DOMAIN task'[s].dests : i \in DOMAIN task[s].dests /\ task'[s].dests[i] = task[s].dests[i]
  OBVIOUS
<1>4. \A t, u \in Threads : task'[t].rec = task'[u].rec => t = u \/ task'[t].rec = None
  BY <1>1 DEF Apart
<1>5. \A r, s \in Records : disk'[r] = disk'[s] => r = s \/ disk'[r] = None
  BY <1>1 DEF Apart
<1>6. \A r \in Records, t \in Threads : \A i \in DOMAIN task'[t].dests : disk'[r] # task'[t].dests[i]
  BY <1>1, <1>2, <1>3 DEF Apart
<1>7. \A t, u \in Threads : \A i \in DOMAIN task'[t].dests, j \in DOMAIN task'[u].dests :
         task'[t].dests[i] = task'[u].dests[j] => t = u /\ i = j
  BY <1>1, <1>3 DEF Apart
<1> QED BY <1>4, <1>5, <1>6, <1>7 DEF Apart

-----------------------------------------------------------------------------
(* What a caller sees                                                       *)

\* Somebody may read or write the record.
InUse(r) == r \in held \/ pins[r] > 0 \/ readers[r] > 0

\* While a lease is out, its tier stays.
LeasesHold ==
    \A r \in Records : pins[r] > 0 /\ pins'[r] > 0 =>
        disk'[r] = disk[r] /\ (ram'[r] = None <=> ram[r] = None)

\* What is shown of every step.
Sound == HostInv' /\ (KV!Next \/ UNCHANGED KV!recordVars) /\ LeasesHold

\* A record in use shows one content, a record that is not shows nothing.
LEMMA VisibleIs ==
    ASSUME HostInv, NEW r \in Records
    PROVE  /\ InUse(r) => Visible(r) # None
           /\ ~InUse(r) => Visible(r) = None
           /\ InUse(r) /\ ram[r] = None => disk[r] # None
           /\ InUse(r) /\ ram[r] # None => Visible(r) = ram[r]
           /\ disk[r] # None => OnDisk(r) \in Values
<1>1. RecordSafe(r)
  BY DEF HostInv
<1>2. ASSUME disk[r] # None PROVE OnDisk(r) \in Values
  <2>1. PICK v \in Values : \A k \in disk[r] .. disk[r] + Size[r] - 1 : cells[k] = v
    BY <1>1, <1>2 DEF RecordSafe, Filled
  <2>2. disk[r] \in Nat /\ Size[r] \in Nat \ {0}
    BY <1>2, Constants DEF HostInv, HostTypes
  <2>3. PICK off \in Nat, n \in Nat \ {0} : off = disk[r] /\ n = Size[r]
    BY <2>2
  <2> DEFINE f == cells
  <2>4. \A k \in off .. off + n - 1 : f[k] = v
    BY <2>1, <2>3
  <2> HIDE DEF f
  <2>5. Read(f, off, n) = v
    BY <2>4, ReadIs
  <2> QED BY <2>3, <2>5, OnDiskIs DEF f
<1>3. InUse(r) => Alive(r)
  BY DEF InUse, Alive
<1>4. InUse(r) /\ ram[r] = None => disk[r] # None
  BY <1>1, <1>3 DEF RecordSafe
<1>5. None \notin Values
  BY Constants
<1> QED BY <1>2, <1>4, <1>5 DEF Visible, InUse

\* A record shows the same when neither its users nor its tiers change.
LEMMA VisibleKept ==
    ASSUME NEW r \in Records, ram'[r] = ram[r], disk'[r] = disk[r],
           disk[r] # None => OnDisk(r)' = OnDisk(r), InUse(r)' <=> InUse(r)
    PROVE  Visible(r)' = Visible(r)
BY DEF Visible, InUse

\* The steps of the abstract records.
LEMMA NoChange ==
    ASSUME \A s \in Records : Visible(s)' = Visible(s),
           \A s \in Records : pins'[s] + readers'[s] = pins[s] + readers[s]
    PROVE  UNCHANGED KV!recordVars
BY DEF KV!recordVars

LEMMA Creates ==
    ASSUME NEW r \in Records, NEW v \in Values, Visible(r) = None,
           \A s \in Records : Visible(s)' = IF s = r THEN v ELSE Visible(s),
           \A s \in Records : pins'[s] + readers'[s] = pins[s] + readers[s]
    PROVE  KV!Next
<1>1. KV!Create(r, v)
  BY DEF KV!Create
<1> QED BY <1>1 DEF KV!Next

LEMMA Writes ==
    ASSUME NEW r \in Records, NEW v \in Values, Visible(r) # None, pins[r] + readers[r] = 0,
           \A s \in Records : Visible(s)' = IF s = r THEN v ELSE Visible(s),
           \A s \in Records : pins'[s] + readers'[s] = pins[s] + readers[s]
    PROVE  KV!Next
<1>1. KV!Write(r, v)
  BY DEF KV!Write
<1> QED BY <1>1 DEF KV!Next

LEMMA Opens ==
    ASSUME NEW r \in Records, Visible(r) # None,
           \A s \in Records : Visible(s)' = Visible(s),
           \A s \in Records : pins'[s] + readers'[s] =
                IF s = r THEN pins[s] + readers[s] + 1 ELSE pins[s] + readers[s]
    PROVE  KV!Next
<1>1. KV!Open(r)
  BY DEF KV!Open
<1> QED BY <1>1 DEF KV!Next

LEMMA Closes ==
    ASSUME NEW r \in Records, pins[r] + readers[r] > 0,
           \A s \in Records : s # r => Visible(s)' = Visible(s),
           Visible(r)' = Visible(r) \/ (pins[r] + readers[r] = 1 /\ Visible(r)' = None),
           \A s \in Records : pins'[s] + readers'[s] =
                IF s = r THEN (pins[s] + readers[s]) - 1 ELSE pins[s] + readers[s]
    PROVE  KV!Next
<1> DEFINE shown == [s \in Records |-> Visible(s)]
           users == [s \in Records |-> pins[s] + readers[s]]
<1>1. users' = [users EXCEPT ![r] = @ - 1] /\ users[r] = pins[r] + readers[r]
  OBVIOUS
<1>2. shown' = shown \/ (users[r] = 1 /\ shown' = [shown EXCEPT ![r] = None])
  OBVIOUS
<1> HIDE DEF shown, users
<1>3. users[r] > 0
  BY <1>1
<1>4. KV!Close(r)
  BY <1>1, <1>2, <1>3, Zenon DEF KV!Close, shown, users
<1> QED BY <1>4 DEF KV!Next

LEMMA Forgets ==
    ASSUME NEW r \in Records, Visible(r) # None, pins[r] + readers[r] = 0,
           \A s \in Records : Visible(s)' = IF s = r THEN None ELSE Visible(s),
           \A s \in Records : pins'[s] + readers'[s] = pins[s] + readers[s]
    PROVE  KV!Next
<1>1. KV!Forget(r)
  BY DEF KV!Forget
<1> QED BY <1>1 DEF KV!Next

-----------------------------------------------------------------------------
(* Steps that change no record and no extent                                *)

\* Only the place of t, its locks and the order of the catalog change.
Quiet(t) ==
    /\ UNCHANGED <<diskVars, cells, held, pins, readers, sealed, ram, disk>>
    /\ DOMAIN task' = Threads
    /\ \A s \in Threads \ {t} : Rests(s) /\ (policy' = s <=> policy = s)
    /\ task'[t].batch = task[t].batch /\ task'[t].dests = task[t].dests
    /\ policy' \in Threads \cup {None}
    /\ residents' \in Seq(Records) /\ (policy \notin {t, None} => residents' = residents)
    /\ recLock' \in [Records -> Threads \cup {None}]
    /\ \A r \in Records : /\ \/ recLock'[r] = recLock[r]
                             \/ recLock'[r] \in {t, None} /\ recLock[r] \in {t, None}
                          /\ recLock'[r] # None => pins[r] = 0

\* The owner whose call starts is alone on its record.
OwnCall(t) == \A s \in Threads \ {t} : task'[t].rec = task[s].rec => task[s].rec = None

\* The rests of the other threads.
LEMMA RestsIs ==
    ASSUME NEW s, Rests(s), TaskShape(task[s])
    PROVE  task'[s].batch = task[s].batch /\ task'[s].dests = task[s].dests /\ task'[s].rec = task[s].rec
BY DEF Rests, TaskShape

LEMMA QuietStep ==
    ASSUME HostInv, NEW t \in Threads, Quiet(t), TaskInv(t)', OwnCall(t)
    PROVE  Sound
<1>1. \A o : Spares(o)
  BY NothingTouched DEF Quiet
<1>2. /\ held' = held /\ pins' = pins /\ readers' = readers /\ sealed' = sealed
      /\ ram' = ram /\ disk' = disk /\ cells' = cells
  BY DEF Quiet
<1>3. DiskInv'
  BY NothingTouched DEF Quiet, HostInv
<1>4. \A s \in Threads : TaskShape(task[s]) /\ (task[s].rec # None => task[s].rec \in held)
  BY DEF HostInv, TaskInv, TaskSafe
<1>5. \A s \in Threads : task'[s].batch = task[s].batch /\ task'[s].dests = task[s].dests
  BY <1>4, RestsIs DEF Quiet
<1>6. Frame(t, {}, None)
  <2>1. \A s \in Threads : \A i \in DOMAIN task[s].dests : task[s].dests[i] # None
    BY <1>4, Constants DEF TaskShape
  <2> QED BY <2>1, <1>1, <1>2, <1>4 DEF Frame, Quiet
<1>7. \A s \in Threads : TaskInv(s)'
  BY <1>6, OthersKept
<1>8. ASSUME NEW r \in Records
      PROVE  /\ RecordSafe(r)' /\ Visible(r)' = Visible(r)
  <2>1. Alive(r)' <=> Alive(r)
    BY <1>2, <1>5, BatchedKept DEF Alive
  <2>2. recLock'[r] # None => pins'[r] = 0
    BY <1>2 DEF Quiet
  <2>3. /\ ram'[r] = ram[r] /\ disk'[r] = disk[r] /\ (disk[r] # None => disk[r] # None) /\ Spares(None)
        /\ r \in sealed => r \in sealed'
    BY <1>1, <1>2
  <2>4. RecordSafe(r)' /\ (disk[r] # None => OnDisk(r)' = OnDisk(r))
    BY <2>1, <2>2, <2>3, RecordKept
  <2>5. InUse(r)' <=> InUse(r)
    BY <1>2 DEF InUse
  <2> QED BY <2>3, <2>4, <2>5, VisibleKept
<1>9. Apart'
  <2>1. Apart
    BY DEF HostInv
  <2>2. \A s \in Threads \ {t} : task'[s].rec = task[s].rec
    BY <1>4, RestsIs DEF Quiet
  <2>3. \A s, u \in Threads : task'[s].rec = task'[u].rec => s = u \/ task'[s].rec = None
    BY <2>1, <2>2 DEF Apart, OwnCall
  <2> QED BY <1>2, <1>5, <2>1, <2>3 DEF Apart
<1>10. HostTypes'
  BY <1>2 DEF HostInv, HostTypes, Quiet
<1>11. UNCHANGED KV!recordVars
  BY <1>2, <1>8, NoChange
<1>12. LeasesHold
  BY <1>2 DEF LeasesHold
<1> QED BY <1>3, <1>7, <1>8, <1>9, <1>10, <1>11, <1>12 DEF HostInv, Sound

\* What t may rely on when no record and no extent changed.
LEMMA QuietSafe ==
    ASSUME HostInv, NEW t \in Threads, Quiet(t), NEW y, y = task'[t],
           y.rec # None => y.rec \in held /\ (y.pc # "lock" => disk[y.rec] # None),
           y.pc = "install" => y.data = Read(cells, disk[y.rec], Size[y.rec]),
           y.pc \in Choosing => task[t].pc \in Choosing \/ task[t].batch = <<>>,
           y.pc # "publish" /\ (y.pc = "write" => y.next = 1)
    PROVE  TaskSafe(t)'
<1>1. /\ held' = held /\ sealed' = sealed /\ ram' = ram /\ disk' = disk /\ cells' = cells
      /\ y.batch = task[t].batch /\ y.dests = task[t].dests
  BY DEF Quiet
<1>2. UsedRanges' = UsedRanges
  BY NothingTouched DEF Quiet
<1>3. TaskSafe(t) /\ TaskShape(task[t])
  BY DEF HostInv, TaskInv
<1>4. y.rec # None => y.rec \in held' /\ (y.pc # "lock" => disk'[y.rec] # None)
  BY <1>1
<1>5. y.pc = "install" => y.data = Read(cells', disk'[y.rec], Size[y.rec])
  BY <1>1
<1>6. \A i \in DOMAIN y.dests : \E z \in UsedRanges' : z.off = y.dests[i]
  BY <1>1, <1>2, <1>3 DEF TaskSafe
<1>7. y.pc \in Choosing => \A i \in DOMAIN y.batch :
         /\ y.batch[i] \in sealed' /\ ram'[y.batch[i]] # None
         /\ \E z \in UsedRanges' : z.off = y.dests[i] /\ z.bytes = Size[y.batch[i]]
         /\ y.pc = "publish" \/ (y.pc = "write" /\ i < y.next) =>
              \A k \in y.dests[i] .. y.dests[i] + Size[y.batch[i]] - 1 : cells'[k] = ram'[y.batch[i]]
  <2> SUFFICES ASSUME y.pc \in Choosing, NEW i \in DOMAIN y.batch
               PROVE  /\ y.batch[i] \in sealed' /\ ram'[y.batch[i]] # None
                      /\ \E z \in UsedRanges' : z.off = y.dests[i] /\ z.bytes = Size[y.batch[i]]
                      /\ y.pc = "write" => ~(i < y.next)
    OBVIOUS
  <2>1. task[t].pc \in Choosing /\ i \in DOMAIN task[t].batch /\ i \in Nat /\ i >= 1
    BY <1>1, <1>3 DEF TaskShape
  <2> QED BY <2>1, <1>1, <1>2, <1>3 DEF TaskSafe, Holds
<1> QED BY <1>4, <1>5, <1>6, <1>7, TaskSafeNext

\* All that is asked of a step of t that changes no record and no extent, said
\* of the next value y of its task.
QuietTask(t, y) ==
    /\ TaskShape(y) /\ Phased(y)
    /\ policy' = t <=> y.pc \in Locking
    /\ y.pc = "scan" => y.left <= Len(residents')
    /\ \A r \in Records : recLock'[r] = t <=> r \in Locks(y)
    /\ y.rec # None => y.rec \in held /\ (y.pc # "lock" => disk[y.rec] # None)
    /\ y.pc = "install" => y.data = Read(cells, disk[y.rec], Size[y.rec])
    /\ y.pc \in Choosing => task[t].pc \in Choosing \/ task[t].batch = <<>>
    /\ y.pc # "publish" /\ (y.pc = "write" => y.next = 1)

LEMMA QuietMove ==
    ASSUME HostInv, NEW t \in Threads, Quiet(t), NEW y, y = task'[t], QuietTask(t, y), OwnCall(t)
    PROVE  Sound
<1>1. TaskSafe(t)'
  BY QuietSafe DEF QuietTask
<1>2. LocksSafe(t)'
  BY DEF QuietTask, LocksSafe
<1>3. TaskInv(t)'
  BY <1>1, <1>2 DEF TaskInv, QuietTask
<1> QED BY <1>3, QuietStep

\* What the invariant says of one thread.
LEMMA Mine ==
    ASSUME HostInv, NEW t \in Threads
    PROVE  LET x == task[t] IN
           /\ TaskShape(x) /\ Phased(x) /\ DOMAIN task = Threads
           /\ policy = t <=> x.pc \in Locking
           /\ x.pc = "scan" => x.left <= Len(residents)
           /\ \A r \in Records : recLock[r] = t <=> r \in Locks(x)
           /\ x.rec # None => /\ x.rec \in held /\ x.rec \in Records
                              /\ x.pc # "lock" => disk[x.rec] # None
           /\ policy \in Threads \cup {None} /\ recLock \in [Records -> Threads \cup {None}]
           /\ residents \in Seq(Records)
           /\ \A r \in Records : recLock[r] # None => pins[r] = 0
           /\ \A s \in Threads \ {t} : task[s].rec = x.rec => x.rec = None
BY DEF HostInv, HostTypes, TaskInv, LocksSafe, TaskSafe, RecordSafe, Apart, TaskShape

\* An idle task holds nothing.
LEMMA IdleTask == TaskShape(Idle) /\ Phased(Idle) /\ Locks(Idle) = {}
<1>1. Idle.rec = None /\ Idle.batch = <<>> /\ Idle.dests = <<>> /\ Idle.pc = "idle" /\ Idle.op = "none"
  BY DEF Idle
<1>2. TaskShape(Idle)
  BY DEF Idle, TaskShape, Pcs
<1>3. Phased(Idle)
  BY <1>1 DEF Phased, Choosing
<1>4. Locks(Idle) = {}
  BY <1>1, Constants DEF Locks, Range
<1> QED BY <1>2, <1>3, <1>4

\* The task y of a call o that starts at p from the task e.
Starts(e, p, o, n, y) == y = [e EXCEPT !.pc = p, !.op = o, !.bytes = n]

LEMMA CallShape ==
    ASSUME NEW e, TaskShape(e), NEW p \in Pcs, NEW o \in {"reserve", "trim", "rewrite"},
           NEW n \in Nat, NEW y, Starts(e, p, o, n, y)
    PROVE  /\ TaskShape(y) /\ y.pc = p /\ y.op = o /\ y.rec = e.rec
           /\ y.batch = e.batch /\ y.dests = e.dests
<1>1. /\ y.pc = p /\ y.op = o /\ y.rec = e.rec /\ y.batch = e.batch /\ y.dests = e.dests
      /\ y.room = e.room
  BY DEF TaskShape, Starts
<1>2. TaskShape(y)
  BY <1>1 DEF TaskShape, Starts
<1> QED BY <1>1, <1>2

\* A long operation is left with its locks.
LEMMA LeaveStep ==
    ASSUME HostInv, NEW t \in Threads, Leave(t), task[t].pc \in Locking,
           task[t].batch = <<>>, task[t].dests = <<>>,
           UNCHANGED <<diskVars, cells, recVars>>, residents' = residents
    PROVE  Sound
<1> DEFINE x == task[t]
           y == task'[t]
<1>1. /\ TaskShape(x) /\ Phased(x) /\ DOMAIN task = Threads /\ policy = t
      /\ \A r \in Records : recLock[r] = t <=> r \in Locks(x)
      /\ x.rec # None => x.rec \in Records
      /\ recLock \in [Records -> Threads \cup {None}]
      /\ residents \in Seq(Records)
      /\ \A r \in Records : recLock[r] # None => pins[r] = 0
  BY Mine
<1>2. y = Idle /\ DOMAIN task' = Threads /\ policy' = None /\ \A s \in Threads \ {t} : task'[s] = task[s]
  BY <1>1 DEF Leave
<1>3. \A r \in Records : r \in Locks(x) <=> r = x.rec
  BY <1>1 DEF Locks, Range, Locking
<1>4. /\ recLock' \in [Records -> Threads \cup {None}]
      /\ \A r \in Records : recLock'[r] = IF r = x.rec THEN None ELSE recLock[r]
  <2>1. CASE x.op = "rewrite"
    BY <1>1, <2>1 DEF Leave, Phased
  <2>2. CASE x.op # "rewrite"
    <3>1. x.rec = None /\ recLock' = recLock
      BY <1>1, <2>2 DEF Leave, Phased
    <3> QED BY <1>1, <3>1, Constants
  <2> QED BY <2>1, <2>2
<1> HIDE DEF y
<1>5. Quiet(t)
  BY <1>1, <1>2, <1>3, <1>4, IdleTask, Constants DEF Quiet, Rests, recVars, Idle, y
<1>6. QuietTask(t, y)
  <2>1. y.pc = "idle" /\ y.rec = None /\ policy' # t
    BY <1>2, Constants DEF Idle
  <2>2. \A r \in Records : recLock'[r] = t <=> r \in Locks(y)
    BY <1>1, <1>2, <1>3, <1>4, IdleTask, Constants
  <2> QED BY <1>2, <2>1, <2>2, IdleTask DEF QuietTask, Locking, Choosing
<1>7. OwnCall(t)
  BY <1>2 DEF OwnCall, Idle, y
<1> QED BY <1>5, <1>6, <1>7, QuietMove DEF y

\* A charge is granted: a reserve is over, a rewrite gives the catalog lock up.
LEMMA GrantStep ==
    ASSUME HostInv, NEW t \in Threads, Granted(t), task[t].pc \in {"charge", "scan"},
           task[t].op # "trim", task[t].batch = <<>>,
           UNCHANGED <<diskVars, cells, recVars>>, residents' = residents
    PROVE  Sound
<1> DEFINE x == task[t]
           y == task'[t]
<1>1. /\ TaskShape(x) /\ Phased(x) /\ DOMAIN task = Threads /\ policy = t
      /\ \A r \in Records : recLock[r] = t <=> r \in Locks(x)
      /\ x.rec # None => x.rec \in held /\ disk[x.rec] # None
      /\ recLock \in [Records -> Threads \cup {None}]
      /\ residents \in Seq(Records)
      /\ \A r \in Records : recLock[r] # None => pins[r] = 0
      /\ \A s \in Threads \ {t} : task[s].rec = x.rec => x.rec = None
  BY Mine DEF Locking
<1>2. x.dests = <<>> /\ (x.op = "reserve" \/ x.op = "rewrite")
  BY <1>1 DEF Phased, TaskShape, Choosing
<1>3. /\ DOMAIN task' = Threads /\ policy' = None /\ recLock' = recLock
      /\ \A s \in Threads \ {t} : task'[s] = task[s]
      /\ x.op = "reserve" => y = Idle
      /\ x.op = "rewrite" => y = [x EXCEPT !.pc = "read"]
  BY <1>1 DEF Granted
<1>4. /\ y.batch = <<>> /\ y.dests = <<>> /\ y.rec = x.rec /\ TaskShape(y) /\ Phased(y)
      /\ y.pc = "idle" \/ y.pc = "read"
  <2>1. CASE x.op = "reserve"
    <3>1. x.rec = None
      BY <1>1, <2>1 DEF Phased
    <3>2. y = Idle
      BY <1>3, <2>1
    <3> QED BY <3>1, <3>2, IdleTask DEF Idle
  <2>2. CASE x.op = "rewrite"
    <3>1. y = [x EXCEPT !.pc = "read"]
      BY <1>3, <2>2
    <3>2. /\ y.batch = <<>> /\ y.dests = <<>> /\ y.rec = x.rec /\ TaskShape(y) /\ y.pc = "read"
          /\ y.op = "rewrite" /\ y.rec # None
      BY <1>1, <1>2, <2>2, <3>1 DEF TaskShape, Pcs, Phased
    <3>3. Phased(y)
      BY <3>2 DEF Phased, Choosing
    <3> QED BY <3>2, <3>3
  <2> QED BY <1>2, <2>1, <2>2
<1> HIDE DEF y
<1>5. Quiet(t)
  BY <1>1, <1>2, <1>3, <1>4, Constants DEF Quiet, Rests, recVars, y
<1>6. QuietTask(t, y)
  <2>1. policy' # t /\ y.pc \notin Locking /\ y.pc \notin Choosing
    BY <1>3, <1>4, Constants DEF Locking, Choosing
  <2>2. \A r \in Records : r \in Locks(x) <=> r \in Locks(y)
    BY <1>1, <1>4 DEF Locks
  <2> QED BY <1>1, <1>3, <1>4, <2>1, <2>2 DEF QuietTask
<1>7. OwnCall(t)
  BY <1>1, <1>3, <1>4 DEF OwnCall, y
<1> QED BY <1>5, <1>6, <1>7, QuietMove DEF y

\* The thread goes on with the same work and the same tier locks.
LEMMA GoesOn ==
    ASSUME HostInv, NEW t \in Threads, UNCHANGED <<diskVars, cells, recVars, recLock>>,
           DOMAIN task' = Threads, \A s \in Threads \ {t} : Rests(s),
           residents' = residents \/ (policy = t /\ residents' \in Seq(Records)),
           policy' = policy \/ {policy, policy'} \subseteq {t, None},
           NEW y, y = task'[t], TaskShape(y), Phased(y),
           y.op = task[t].op, y.rec = task[t].rec, y.batch = task[t].batch, y.dests = task[t].dests,
           task[t].pc # "lock", y.pc # "lock", policy' = t <=> y.pc \in Locking,
           y.pc = "scan" => y.left <= Len(residents'),
           y.pc = "install" => y.data = Read(cells, disk[y.rec], Size[y.rec]),
           y.pc \in Choosing => task[t].pc \in Choosing \/ task[t].batch = <<>>,
           y.pc # "publish" /\ (y.pc = "write" => y.next = 1)
    PROVE  Sound
<1> DEFINE x == task[t]
<1>1. /\ TaskShape(x) /\ Phased(x) /\ DOMAIN task = Threads
      /\ \A r \in Records : recLock[r] = t <=> r \in Locks(x)
      /\ x.rec # None => x.rec \in held /\ (x.pc # "lock" => disk[x.rec] # None)
      /\ policy \in Threads \cup {None}
      /\ recLock \in [Records -> Threads \cup {None}]
      /\ residents \in Seq(Records)
      /\ \A r \in Records : recLock[r] # None => pins[r] = 0
      /\ \A s \in Threads \ {t} : task[s].rec = x.rec => x.rec = None
  BY Mine
<1>2. Quiet(t)
  <2>1. \A s \in Threads \ {t} : policy' = s <=> policy = s
    BY Constants
  <2>2. policy' \in Threads \cup {None}
    BY <1>1
  <2> QED BY <1>1, <2>1, <2>2 DEF Quiet, recVars
<1>3. \A r \in Records : r \in Locks(x) <=> r \in Locks(y)
  BY DEF Locks
<1>4. QuietTask(t, y)
  BY <1>1, <1>3 DEF QuietTask
<1>5. OwnCall(t)
  BY <1>1 DEF OwnCall
<1> QED BY <1>2, <1>4, <1>5, QuietMove

LEMMA ReservingStep ==
    ASSUME HostInv, NEW t \in Threads, NEW n \in Demands, Reserving(t, n)
    PROVE  Sound
<1> DEFINE x == task[t]
           y == task'[t]
<1>1. /\ x = Idle /\ DOMAIN task = Threads /\ policy = None
  BY Mine DEF Reserving
<1>2. n \in Nat
  BY DemandAssumption, BudgetAssumption
<1>3. y = [Idle EXCEPT !.pc = "charge", !.op = "reserve", !.bytes = n]
  BY <1>1 DEF Reserving
<1>4. /\ TaskShape(y) /\ y.pc = "charge" /\ y.op = "reserve" /\ y.rec = None
      /\ y.batch = <<>> /\ y.dests = <<>>
  <2>1. PICK e : e = Idle
    OBVIOUS
  <2>2. TaskShape(e) /\ e.rec = None /\ e.batch = <<>> /\ e.dests = <<>>
    <3>1. TaskShape(e)
      BY <2>1, IdleTask
    <3>2. e.rec = None /\ e.batch = <<>> /\ e.dests = <<>>
      BY <2>1 DEF Idle
    <3> QED BY <3>1, <3>2
  <2>3. Starts(e, "charge", "reserve", n, y)
    BY <1>3, <2>1 DEF Starts
  <2>4. "charge" \in Pcs /\ "reserve" \in {"reserve", "trim", "rewrite"}
    BY DEF Pcs
  <2> HIDE DEF y
  <2> QED BY <1>2, <2>2, <2>3, <2>4, CallShape
<1> HIDE DEF y
<1>5. Phased(y)
  BY <1>4 DEF Phased, Choosing
<1>6. Quiet(t)
  BY <1>1, <1>4, Mine, Constants DEF Quiet, Reserving, Rests, recVars, catVars, Idle, y
<1>7. QuietTask(t, y)
  <2>1. \A r \in Records : r \in Locks(y) <=> r \in Locks(x)
    BY <1>1, <1>4, IdleTask, Constants DEF Locks, Range
  <2> QED BY <1>4, <1>5, <2>1, Mine DEF QuietTask, Locking, Choosing, Reserving
<1>8. OwnCall(t)
  BY <1>4 DEF OwnCall, y
<1> QED BY <1>6, <1>7, <1>8, QuietMove DEF y

LEMMA TrimmingStep ==
    ASSUME HostInv, NEW t \in Threads, NEW n \in Targets, Trimming(t, n)
    PROVE  Sound
<1> DEFINE x == task[t]
           y == task'[t]
<1>1. /\ x = Idle /\ DOMAIN task = Threads /\ policy = None
  BY Mine DEF Trimming
<1>2. n \in Nat
  BY DemandAssumption
<1>3. y = [Idle EXCEPT !.pc = "trim", !.op = "trim", !.bytes = n]
  BY <1>1 DEF Trimming
<1>4. /\ TaskShape(y) /\ y.pc = "trim" /\ y.op = "trim" /\ y.rec = None
      /\ y.batch = <<>> /\ y.dests = <<>>
  <2>1. PICK e : e = Idle
    OBVIOUS
  <2>2. TaskShape(e) /\ e.rec = None /\ e.batch = <<>> /\ e.dests = <<>>
    <3>1. TaskShape(e)
      BY <2>1, IdleTask
    <3>2. e.rec = None /\ e.batch = <<>> /\ e.dests = <<>>
      BY <2>1 DEF Idle
    <3> QED BY <3>1, <3>2
  <2>3. Starts(e, "trim", "trim", n, y)
    BY <1>3, <2>1 DEF Starts
  <2>4. "trim" \in Pcs /\ "trim" \in {"reserve", "trim", "rewrite"}
    BY DEF Pcs
  <2> HIDE DEF y
  <2> QED BY <1>2, <2>2, <2>3, <2>4, CallShape
<1> HIDE DEF y
<1>5. Phased(y)
  BY <1>4 DEF Phased, Choosing
<1>6. Quiet(t)
  BY <1>1, <1>4, Mine, Constants DEF Quiet, Trimming, Rests, recVars, catVars, Idle, y
<1>7. QuietTask(t, y)
  <2>1. \A r \in Records : r \in Locks(y) <=> r \in Locks(x)
    BY <1>1, <1>4, IdleTask, Constants DEF Locks, Range
  <2> QED BY <1>4, <1>5, <2>1, Mine DEF QuietTask, Locking, Choosing, Trimming
<1>8. OwnCall(t)
  BY <1>4 DEF OwnCall, y
<1> QED BY <1>6, <1>7, <1>8, QuietMove DEF y

LEMMA RewritingStep ==
    ASSUME HostInv, NEW t \in Threads, NEW r \in Records, Rewriting(t, r)
    PROVE  Sound
<1> DEFINE x == task[t]
           y == task'[t]
<1>1. /\ x = Idle /\ DOMAIN task = Threads /\ r \in held /\ r # None
      /\ \A s \in Threads : task[s].rec # r
  BY Mine, Constants DEF Rewriting, OwnerIdle
<1>2. y = [Idle EXCEPT !.pc = "lock", !.op = "rewrite", !.rec = r, !.bytes = Size[r]]
  BY <1>1 DEF Rewriting
<1>3. /\ TaskShape(y) /\ y.pc = "lock" /\ y.op = "rewrite" /\ y.rec = r
      /\ y.batch = <<>> /\ y.dests = <<>>
  <2>1. PICK e : e = Idle
    OBVIOUS
  <2>2. TaskShape(e) /\ e.rec = None /\ e.batch = <<>> /\ e.dests = <<>>
    <3>1. TaskShape(e)
      BY <2>1, IdleTask
    <3>2. e.rec = None /\ e.batch = <<>> /\ e.dests = <<>>
      BY <2>1 DEF Idle
    <3> QED BY <3>1, <3>2
  <2>3. PICK n \in Nat : n = Size[r]
    BY Constants
  <2>4. PICK z : Starts(e, "lock", "rewrite", n, z)
    BY DEF Starts
  <2>5. y = [z EXCEPT !.rec = r]
    BY <1>2, <2>1, <2>2, <2>3, <2>4 DEF TaskShape, Starts
  <2>6. "lock" \in Pcs /\ "rewrite" \in {"reserve", "trim", "rewrite"}
    BY DEF Pcs
  <2>7. TaskShape(z) /\ z.pc = "lock" /\ z.op = "rewrite" /\ z.batch = <<>> /\ z.dests = <<>>
    BY <2>2, <2>3, <2>4, <2>6, CallShape
  <2> HIDE DEF y
  <2> QED BY <2>5, <2>7 DEF TaskShape
<1> HIDE DEF y
<1>4. Phased(y)
  BY <1>1, <1>3 DEF Phased, Choosing
<1>5. Quiet(t)
  BY <1>1, <1>3, Mine DEF Quiet, Rewriting, Rests, recVars, catVars, lockVars, Idle, y
<1>6. QuietTask(t, y)
  <2>1. \A q \in Records : q \in Locks(y) <=> q \in Locks(x)
    BY <1>1, <1>3, IdleTask DEF Locks, Range
  <2>2. policy' # t
    BY <1>1, Mine DEF Rewriting, lockVars, Locking, Idle
  <2> QED BY <1>1, <1>3, <1>4, <2>1, <2>2, Mine DEF QuietTask, Locking, Choosing, Rewriting, lockVars
<1>7. OwnCall(t)
  BY <1>1, <1>3 DEF OwnCall, y
<1> QED BY <1>5, <1>6, <1>7, QuietMove DEF y

LEMMA ChargeStep ==
    ASSUME HostInv, NEW t \in Threads, Charge(t)
    PROVE  Sound
<1> DEFINE x == task[t]
           y == task'[t]
<1>1. /\ TaskShape(x) /\ Phased(x) /\ DOMAIN task = Threads /\ policy = t
  BY Mine DEF Charge, Locking
<1>2. /\ UNCHANGED <<diskVars, cells, recVars>> /\ residents' = residents
      /\ x.pc = "charge" /\ x.op # "trim" /\ x.batch = <<>> /\ x.dests = <<>>
  BY <1>1 DEF Charge, catVars, Phased, Choosing
<1>3. CASE Fits(x.bytes, Headroom(x.bytes))
  <2>1. Granted(t)
    BY <1>3 DEF Charge
  <2> QED BY <1>2, <2>1, GrantStep
<1>4. CASE ~Fits(x.bytes, Headroom(x.bytes))
  <2>1. task' = [task EXCEPT ![t].pc = "evict"] /\ policy' = policy /\ recLock' = recLock
    BY <1>4 DEF Charge, lockVars
  <2>2. /\ y.op = x.op /\ y.rec = x.rec /\ y.batch = x.batch /\ y.dests = x.dests /\ y.pc = "evict"
        /\ TaskShape(y) /\ DOMAIN task' = Threads /\ \A s \in Threads \ {t} : Rests(s)
    BY <1>1, <2>1 DEF TaskShape, Pcs, Rests
  <2> HIDE DEF y
  <2>3. Phased(y)
    BY <1>1, <1>2, <2>2 DEF Phased, Choosing
  <2> QED BY <1>1, <1>2, <2>1, <2>2, <2>3, GoesOn DEF y, Locking, Choosing
<1> QED BY <1>3, <1>4

LEMMA TrimTestStep ==
    ASSUME HostInv, NEW t \in Threads, TrimTest(t)
    PROVE  Sound
<1> DEFINE x == task[t]
           y == task'[t]
<1>1. /\ TaskShape(x) /\ Phased(x) /\ DOMAIN task = Threads /\ policy = t
  BY Mine DEF TrimTest, Locking
<1>2. /\ UNCHANGED <<diskVars, cells, recVars>> /\ residents' = residents
      /\ x.pc = "trim" /\ x.op = "trim" /\ x.batch = <<>> /\ x.dests = <<>>
  BY <1>1 DEF TrimTest, catVars, Phased, Choosing
<1>3. CASE ~(charged > x.bytes)
  <2>1. Leave(t)
    BY <1>3 DEF TrimTest
  <2> QED BY <1>2, <2>1, LeaveStep DEF Locking
<1>4. CASE charged > x.bytes
  <2>1. task' = [task EXCEPT ![t].pc = "evict"] /\ policy' = policy /\ recLock' = recLock
    BY <1>4 DEF TrimTest, lockVars
  <2>2. /\ y.op = x.op /\ y.rec = x.rec /\ y.batch = x.batch /\ y.dests = x.dests /\ y.pc = "evict"
        /\ TaskShape(y) /\ DOMAIN task' = Threads /\ \A s \in Threads \ {t} : Rests(s)
    BY <1>1, <2>1 DEF TaskShape, Pcs, Rests
  <2> HIDE DEF y
  <2>3. Phased(y)
    BY <1>1, <1>2, <2>2 DEF Phased, Choosing
  <2> QED BY <1>1, <1>2, <2>1, <2>2, <2>3, GoesOn DEF y, Locking, Choosing
<1> QED BY <1>3, <1>4

LEMMA SpuriousWakeStep ==
    ASSUME HostInv, NEW t \in Threads, SpuriousWake(t)
    PROVE  Sound
<1> DEFINE x == task[t]
           y == task'[t]
<1>1. /\ TaskShape(x) /\ Phased(x) /\ DOMAIN task = Threads /\ policy # t
  BY Mine DEF SpuriousWake, Locking
<1>2. /\ UNCHANGED <<diskVars, cells, recVars, recLock>> /\ residents' = residents
      /\ policy' = policy /\ task' = [task EXCEPT ![t].pc = "woken"]
      /\ x.pc = "wait" /\ x.batch = <<>> /\ x.dests = <<>>
  BY <1>1 DEF SpuriousWake, catVars, lockVars, Phased, Choosing
<1>3. /\ y.op = x.op /\ y.rec = x.rec /\ y.batch = x.batch /\ y.dests = x.dests /\ y.pc = "woken"
      /\ TaskShape(y) /\ DOMAIN task' = Threads /\ \A s \in Threads \ {t} : Rests(s)
  BY <1>1, <1>2 DEF TaskShape, Pcs, Rests
<1> HIDE DEF y
<1>4. Phased(y)
  BY <1>1, <1>2, <1>3 DEF Phased, Choosing
<1> QED BY <1>1, <1>2, <1>3, <1>4, GoesOn DEF y, Locking, Choosing

LEMMA RelockStep ==
    ASSUME HostInv, NEW t \in Threads, Relock(t)
    PROVE  Sound
<1> DEFINE x == task[t]
           y == task'[t]
<1>1. /\ TaskShape(x) /\ Phased(x) /\ DOMAIN task = Threads
  BY Mine
<1>2. /\ UNCHANGED <<diskVars, cells, recVars, recLock>> /\ residents' = residents
      /\ policy = None /\ policy' = t /\ task' = [task EXCEPT ![t].pc = "charge"]
      /\ x.pc = "woken" /\ x.batch = <<>> /\ x.dests = <<>>
  BY <1>1 DEF Relock, catVars, Phased, Choosing
<1>3. /\ y.op = x.op /\ y.rec = x.rec /\ y.batch = x.batch /\ y.dests = x.dests /\ y.pc = "charge"
      /\ TaskShape(y) /\ DOMAIN task' = Threads /\ \A s \in Threads \ {t} : Rests(s)
  BY <1>1, <1>2 DEF TaskShape, Pcs, Rests
<1> HIDE DEF y
<1>4. Phased(y)
  BY <1>1, <1>2, <1>3 DEF Phased, Choosing
<1>5. policy' = policy \/ {policy, policy'} \subseteq {t, None}
  BY <1>2
<1> QED BY <1>1, <1>2, <1>3, <1>4, <1>5, GoesOn DEF y, Locking, Choosing

LEMMA EvictStartStep ==
    ASSUME HostInv, NEW t \in Threads, EvictStart(t)
    PROVE  Sound
<1> DEFINE x == task[t]
           y == task'[t]
<1>1. /\ TaskShape(x) /\ Phased(x) /\ DOMAIN task = Threads /\ policy = t
      /\ residents \in Seq(Records) /\ Len(residents) \in Nat
  BY Mine DEF EvictStart, Locking
<1>2. /\ UNCHANGED <<diskVars, cells, recVars, recLock>> /\ residents' = residents
      /\ policy' = policy
      /\ x.pc = "evict" /\ x.batch = <<>> /\ x.dests = <<>>
  BY <1>1 DEF EvictStart, catVars, lockVars, Phased, Choosing
<1>3. /\ y.op = x.op /\ y.rec = x.rec /\ y.batch = x.batch /\ y.dests = x.dests /\ y.pc = "scan"
      /\ y.left = Len(residents)
      /\ TaskShape(y) /\ DOMAIN task' = Threads /\ \A s \in Threads \ {t} : Rests(s)
  <2>1. PICK n : n = Min({BatchBytes, RamCapacity - charged})
    OBVIOUS
  <2>2. task' = [task EXCEPT ![t].pc = "scan", ![t].left = Len(residents), ![t].room = n]
    BY <2>1 DEF EvictStart
  <2>3. PICK k \in Nat : k = Len(residents)
    BY <1>1
  <2>4. y = [x EXCEPT !.pc = "scan", !.left = k, !.room = n] /\ DOMAIN task' = Threads
    BY <1>1, <2>2, <2>3
  <2>5. \A s \in Threads \ {t} : Rests(s)
    BY <1>1, <2>2 DEF Rests
  <2>6. /\ y.op = x.op /\ y.rec = x.rec /\ y.batch = x.batch /\ y.dests = x.dests /\ y.pc = "scan"
        /\ y.left = k /\ TaskShape(y)
    BY <1>1, <2>4 DEF TaskShape, Pcs
  <2> QED BY <2>3, <2>4, <2>5, <2>6
<1> HIDE DEF y
<1>4. Phased(y)
  BY <1>1, <1>2, <1>3 DEF Phased, Choosing
<1> QED BY <1>1, <1>2, <1>3, <1>4, GoesOn DEF y, Locking, Choosing

\* The catalog with its first entry gone, or moved to the end.
LEMMA CatalogTurned ==
    ASSUME residents \in Seq(Records), Len(residents) > 0
    PROVE  /\ Head(residents) \in Records
           /\ Tail(residents) \in Seq(Records) /\ Len(Tail(residents)) = Len(residents) - 1
           /\ Rotated \in Seq(Records) /\ Len(Rotated) = Len(residents)
<1>1. residents # <<>>
  OBVIOUS
<1>2. /\ Head(residents) \in Records /\ Tail(residents) \in Seq(Records)
      /\ Len(Tail(residents)) = Len(residents) - 1
  BY <1>1
<1> QED BY <1>2 DEF Rotated

LEMMA ScanPastStep ==
    ASSUME HostInv, NEW t \in Threads, ScanPast(t)
    PROVE  Sound
<1> DEFINE x == task[t]
           y == task'[t]
<1>1. /\ TaskShape(x) /\ Phased(x) /\ DOMAIN task = Threads /\ policy = t
      /\ residents \in Seq(Records) /\ x.left <= Len(residents)
  BY Mine DEF ScanPast, Locking
<1>2. /\ UNCHANGED <<diskVars, cells, recVars, recLock>> /\ policy' = policy
      /\ x.pc = "scan" /\ x.left > 0 /\ x.left \in Nat
  BY <1>1 DEF ScanPast, lockVars, TaskShape
<1>3. \/ /\ residents' = Tail(residents) \/ residents' = Rotated
         /\ task' = [task EXCEPT ![t].left = @ - 1]
      \/ /\ residents' = residents
         /\ task' = [task EXCEPT ![t].left = 0]
  BY DEF ScanPast
<1>4. \E k \in Nat : k <= Len(residents') /\ task' = [task EXCEPT ![t].left = k]
  <2>1. CASE residents' = residents /\ task' = [task EXCEPT ![t].left = 0]
    <3>1. 0 \in Nat /\ 0 <= Len(residents')
      BY <1>1, <2>1
    <3> QED BY <3>1, <2>1
  <2>2. CASE /\ residents' = Tail(residents) \/ residents' = Rotated
             /\ task' = [task EXCEPT ![t].left = @ - 1]
    <3>1. Len(residents) > 0 /\ Len(residents) \in Nat
      BY <1>1, <1>2
    <3>2. x.left - 1 \in Nat /\ x.left - 1 <= Len(residents')
      BY <1>1, <1>2, <2>2, <3>1, CatalogTurned
    <3>3. task' = [task EXCEPT ![t].left = x.left - 1]
      BY <2>2
    <3> QED BY <3>2, <3>3
  <2> QED BY <1>3, <2>1, <2>2
<1>5. residents' \in Seq(Records)
  <2>1. Len(residents) > 0
    BY <1>1, <1>2
  <2> QED BY <1>1, <1>3, <2>1, CatalogTurned
<1>6. PICK k \in Nat : k <= Len(residents') /\ task' = [task EXCEPT ![t].left = k]
  BY <1>4
<1>7. /\ y.op = x.op /\ y.rec = x.rec /\ y.batch = x.batch /\ y.dests = x.dests /\ y.pc = "scan"
      /\ y.left = k
      /\ TaskShape(y) /\ DOMAIN task' = Threads /\ \A s \in Threads \ {t} : Rests(s)
  BY <1>1, <1>2, <1>6 DEF TaskShape, Pcs, Rests
<1> HIDE DEF y
<1>8. Phased(y)
  BY <1>1, <1>2, <1>7 DEF Phased, Choosing
<1> QED BY <1>1, <1>2, <1>5, <1>6, <1>7, <1>8, GoesOn DEF y, Locking, Choosing

LEMMA ScanEndStep ==
    ASSUME HostInv, NEW t \in Threads, ScanEnd(t)
    PROVE  Sound
<1> DEFINE x == task[t]
           y == task'[t]
<1>1. /\ TaskShape(x) /\ Phased(x) /\ DOMAIN task = Threads /\ policy = t
      /\ residents \in Seq(Records) /\ x.pc = "scan"
  BY Mine DEF ScanEnd, Locking
<1>2. CASE x.batch = <<>>
  <2>1. /\ NothingEvicted(t) /\ x.dests = <<>>
    BY <1>1, <1>2 DEF ScanEnd, Phased, TaskShape, Choosing
  <2>2. UNCHANGED <<diskVars, cells, recVars>> /\ residents' = residents
    BY <2>1 DEF NothingEvicted, catVars
  <2>3. CASE x.op # "trim" /\ Granted(t)
    BY <1>1, <1>2, <2>2, <2>3, GrantStep
  <2>4. CASE Leave(t)
    BY <1>1, <1>2, <2>1, <2>2, <2>4, LeaveStep DEF Locking
  <2>5. CASE /\ x.op # "trim" /\ task' = [task EXCEPT ![t].pc = "wait"]
             /\ policy' = None /\ recLock' = recLock
    <3>1. /\ y.op = x.op /\ y.rec = x.rec /\ y.batch = x.batch /\ y.dests = x.dests /\ y.pc = "wait"
          /\ TaskShape(y) /\ DOMAIN task' = Threads /\ \A s \in Threads \ {t} : Rests(s)
      BY <1>1, <2>5 DEF TaskShape, Pcs, Rests
    <3> HIDE DEF y
    <3>2. Phased(y)
      BY <1>1, <1>2, <2>1, <2>5, <3>1 DEF Phased, Choosing
    <3>3. policy' # t /\ (policy' = policy \/ {policy, policy'} \subseteq {t, None})
      BY <1>1, <2>5, Constants
    <3> QED BY <1>1, <2>2, <2>5, <3>1, <3>2, <3>3, Constants, GoesOn DEF y, Locking, Choosing
  <2> QED BY <2>1, <2>3, <2>4, <2>5 DEF NothingEvicted
<1>3. CASE x.batch # <<>>
  <2>1. /\ UNCHANGED <<diskVars, cells, recVars, recLock>> /\ residents' = residents
        /\ policy' = None /\ task' = [task EXCEPT ![t].pc = "write", ![t].next = 1]
    BY <1>3 DEF ScanEnd
  <2>2. /\ y.op = x.op /\ y.rec = x.rec /\ y.batch = x.batch /\ y.dests = x.dests /\ y.pc = "write"
        /\ y.next = 1
        /\ TaskShape(y) /\ DOMAIN task' = Threads /\ \A s \in Threads \ {t} : Rests(s)
    BY <1>1, <2>1 DEF TaskShape, Pcs, Rests
  <2>3. 1 \in DOMAIN x.batch
    BY <1>1, <1>3 DEF TaskShape
  <2> HIDE DEF y
  <2>4. Phased(y)
    BY <1>1, <2>2, <2>3 DEF Phased, Choosing
  <2>5. policy' # t /\ {policy, policy'} \subseteq {t, None}
    BY <1>1, <2>1, Constants
  <2> QED BY <1>1, <2>1, <2>2, <2>4, <2>5, GoesOn DEF y, Locking, Choosing
<1> QED BY <1>2, <1>3

LEMMA AbortStep ==
    ASSUME HostInv, NEW t \in Threads, Abort(t)
    PROVE  Sound
<1> DEFINE x == task[t]
           y == task'[t]
<1>1. /\ TaskShape(x) /\ Phased(x) /\ DOMAIN task = Threads
  BY Mine
<1>2. /\ UNCHANGED <<diskVars, cells, recVars, recLock>> /\ residents' = residents
      /\ policy = None /\ policy' = t /\ x.pc = "abort"
      /\ task' = Notifying(t, "unwind", x.dests, FALSE)
  BY DEF Abort
<1>3. /\ y = [x EXCEPT !.pc = "unwind", !.dests = x.dests, !.ok = FALSE]
      /\ DOMAIN task' = Threads /\ \A s \in Threads \ {t} : Rests(s)
  BY <1>2 DEF Notifying, Rests
<1>4. /\ y.op = x.op /\ y.rec = x.rec /\ y.batch = x.batch /\ y.dests = x.dests /\ y.pc = "unwind"
      /\ TaskShape(y)
  BY <1>1, <1>3 DEF TaskShape, Pcs
<1> HIDE DEF y
<1>5. Phased(y)
  BY <1>1, <1>2, <1>4 DEF Phased, Choosing
<1>6. policy' = policy \/ {policy, policy'} \subseteq {t, None}
  BY <1>2
<1> QED BY <1>1, <1>2, <1>3, <1>4, <1>5, <1>6, GoesOn DEF y, Locking, Choosing

LEMMA UnwindDoneStep ==
    ASSUME HostInv, NEW t \in Threads, UnwindDone(t)
    PROVE  Sound
<1> DEFINE x == task[t]
           y == task'[t]
<1>1. /\ TaskShape(x) /\ Phased(x) /\ DOMAIN task = Threads /\ policy = t
      /\ UNCHANGED <<diskVars, cells, recVars>> /\ residents' = residents
      /\ x.pc = "unwind" /\ x.batch = <<>> /\ x.dests = <<>>
  BY Mine DEF UnwindDone, Locking, catVars
<1>2. CASE ~x.ok
  <2>1. Leave(t)
    BY <1>2 DEF UnwindDone
  <2> QED BY <1>1, <2>1, LeaveStep DEF Locking
<1>3. CASE x.ok
  <2>1. /\ policy' = policy /\ recLock' = recLock
        /\ task' = [task EXCEPT ![t].pc = IF x.op = "trim" THEN "trim" ELSE "charge"]
    BY <1>3 DEF UnwindDone, lockVars
  <2>2. /\ y.op = x.op /\ y.rec = x.rec /\ y.batch = x.batch /\ y.dests = x.dests
        /\ y.pc = IF x.op = "trim" THEN "trim" ELSE "charge"
        /\ TaskShape(y) /\ DOMAIN task' = Threads /\ \A s \in Threads \ {t} : Rests(s)
    BY <1>1, <2>1 DEF TaskShape, Pcs, Rests
  <2> HIDE DEF y
  <2>3. Phased(y)
    BY <1>1, <2>2 DEF Phased, Choosing
  <2>4. y.pc = "trim" \/ y.pc = "charge"
    BY <2>2
  <2> QED BY <1>1, <2>1, <2>2, <2>3, <2>4, GoesOn DEF y, Locking, Choosing
<1> QED BY <1>2, <1>3

LEMMA ReadBackStep ==
    ASSUME HostInv, NEW t \in Threads, ReadBack(t)
    PROVE  Sound
<1> DEFINE x == task[t]
           y == task'[t]
<1>1. /\ TaskShape(x) /\ Phased(x) /\ DOMAIN task = Threads /\ policy # t
      /\ x.rec # None => x.rec \in Records /\ (x.pc # "lock" => disk[x.rec] # None)
  BY Mine DEF ReadBack, Locking
<1>2. /\ UNCHANGED <<diskVars, cells, recVars, recLock>> /\ residents' = residents
      /\ policy' = policy /\ x.pc = "read" /\ x.op = "rewrite" /\ x.rec # None
      /\ x.batch = <<>> /\ x.dests = <<>>
  BY <1>1 DEF ReadBack, catVars, lockVars, Phased, Choosing
<1>3. OnDisk(x.rec) \in Values /\ OnDisk(x.rec) = Read(cells, disk[x.rec], Size[x.rec])
  <2>1. PICK r \in Records : r = x.rec
    BY <1>1, <1>2
  <2>2. OnDisk(r) \in Values /\ OnDisk(r) = Read(cells, disk[r], Size[r])
    BY <1>1, <1>2, <2>1, VisibleIs, OnDiskIs
  <2> QED BY <2>1, <2>2
<1>4. PICK v \in Values : v = OnDisk(x.rec)
  BY <1>3
<1>5. task' = [task EXCEPT ![t].pc = "install", ![t].data = v]
  BY <1>4 DEF ReadBack
<1>6. /\ y.op = x.op /\ y.rec = x.rec /\ y.batch = x.batch /\ y.dests = x.dests /\ y.pc = "install"
      /\ y.data = v
      /\ TaskShape(y) /\ DOMAIN task' = Threads /\ \A s \in Threads \ {t} : Rests(s)
  BY <1>1, <1>5 DEF TaskShape, Pcs, Rests
<1> HIDE DEF y
<1>7. Phased(y)
  BY <1>1, <1>2, <1>6 DEF Phased, Choosing
<1>8. y.data = Read(cells, disk[y.rec], Size[y.rec])
  BY <1>3, <1>4, <1>6
<1> QED BY <1>1, <1>2, <1>6, <1>7, <1>8, GoesOn DEF y, Locking, Choosing

LEMMA ReadFailsStep ==
    ASSUME HostInv, NEW t \in Threads, ReadFails(t)
    PROVE  Sound
<1> DEFINE x == task[t]
           y == task'[t]
<1>1. /\ TaskShape(x) /\ Phased(x) /\ DOMAIN task = Threads /\ policy # t
      /\ \A r \in Records : recLock[r] = t <=> r \in Locks(x)
      /\ x.rec # None => x.rec \in Records
      /\ policy \in Threads \cup {None}
      /\ recLock \in [Records -> Threads \cup {None}]
      /\ residents \in Seq(Records)
      /\ \A r \in Records : recLock[r] # None => pins[r] = 0
  BY Mine DEF ReadFails, Locking
<1>2. /\ UNCHANGED <<diskVars, cells, recVars>> /\ residents' = residents /\ policy' = policy
      /\ x.pc = "read" /\ x.rec # None /\ x.batch = <<>> /\ x.dests = <<>>
  BY <1>1 DEF ReadFails, catVars, Phased, Choosing
<1>3. y = Idle /\ DOMAIN task' = Threads /\ \A s \in Threads \ {t} : task'[s] = task[s]
  BY <1>1 DEF ReadFails
<1>4. \A r \in Records : r \in Locks(x) <=> r = x.rec
  BY <1>1, <1>2 DEF Locks, Range
<1>5. /\ recLock' \in [Records -> Threads \cup {None}]
      /\ \A r \in Records : recLock'[r] = IF r = x.rec THEN None ELSE recLock[r]
  BY <1>1, <1>2 DEF ReadFails
<1> HIDE DEF y
<1>6. Quiet(t)
  <2>1. \A r \in Records : /\ \/ recLock'[r] = recLock[r]
                              \/ recLock'[r] \in {t, None} /\ recLock[r] \in {t, None}
                           /\ recLock'[r] # None => pins[r] = 0
    BY <1>1, <1>4, <1>5
  <2>2. task'[t].batch = task[t].batch /\ task'[t].dests = task[t].dests
    BY <1>2, <1>3 DEF Idle, y
  <2> QED BY <1>1, <1>2, <1>3, <1>5, <2>1, <2>2 DEF Quiet, Rests, recVars
<1>7. QuietTask(t, y)
  <2>1. y.pc = "idle" /\ y.rec = None /\ policy' # t
    BY <1>1, <1>2, <1>3 DEF Idle
  <2>2. \A r \in Records : recLock'[r] = t <=> r \in Locks(y)
    BY <1>1, <1>3, <1>4, <1>5, IdleTask, Constants
  <2> QED BY <1>3, <2>1, <2>2, IdleTask DEF QuietTask, Locking, Choosing
<1>8. OwnCall(t)
  BY <1>3 DEF OwnCall, Idle, y
<1> QED BY <1>6, <1>7, <1>8, QuietMove DEF y

-----------------------------------------------------------------------------
(* Steps that change records or extents                                     *)

\* A thread that becomes idle has given everything up.
LEMMA IdleSafe ==
    ASSUME NEW t, task'[t] = Idle, policy' # t, \A r \in Records : recLock'[r] # t
    PROVE  TaskInv(t)'
<1>1. PICK y : y = task'[t]
  OBVIOUS
<1>2. /\ y.rec = None /\ y.pc = "idle" /\ y.batch = <<>> /\ y.dests = <<>>
      /\ TaskShape(y) /\ Phased(y) /\ \A r \in Records : r \notin Locks(y)
  <2>1. y = Idle
    BY <1>1
  <2>2. y.rec = None /\ y.pc = "idle" /\ y.batch = <<>> /\ y.dests = <<>>
    BY <2>1 DEF Idle
  <2> QED BY <2>1, <2>2, IdleTask
<1>3. /\ y.pc # "install" /\ y.pc \notin Choosing /\ y.pc \notin Locking /\ y.pc # "scan"
      /\ \A i \in DOMAIN y.dests : FALSE
  BY <1>2 DEF Choosing, Locking
<1>4. TaskSafe(t)'
  BY <1>1, <1>2, <1>3, TaskSafeNext
<1>5. LocksSafe(t)'
  BY <1>1, <1>2, <1>3 DEF LocksSafe
<1> QED BY <1>1, <1>2, <1>4, <1>5 DEF TaskInv

\* What is asked of a step that is framed.
LEMMA FramedStep ==
    ASSUME HostInv, NEW t, NEW R, NEW o, Frame(t, R, o),
           HostTypes', DiskInv', Apart',
           t \in Threads => TaskInv(t)',
           \A r \in Records : RecordSafe(r)',
           KV!Next \/ UNCHANGED KV!recordVars,
           LeasesHold
    PROVE  Sound
<1>1. \A s \in Threads \ {t} : TaskInv(s)'
  BY OthersKept
<1>2. \A s \in Threads : TaskInv(s)'
  BY <1>1
<1> QED BY <1>2 DEF HostInv, Sound

\* What the frame says of a record that it leaves alone.
LEMMA FrameKeeps ==
    ASSUME HostInv, NEW t, NEW R, NEW o, Frame(t, R, o), NEW r \in Records, r \notin R,
           Alive(r)' <=> Alive(r), recLock'[r] # None => pins'[r] = 0
    PROVE  /\ RecordSafe(r)'
           /\ (InUse(r)' <=> InUse(r)) => Visible(r)' = Visible(r)
<1>1. /\ ram'[r] = ram[r] /\ disk'[r] = disk[r] /\ (disk[r] # None => disk[r] # o) /\ Spares(o)
      /\ r \in sealed => r \in sealed'
  BY DEF Frame
<1>2. RecordSafe(r)' /\ (disk[r] # None => OnDisk(r)' = OnDisk(r))
  BY <1>1, RecordKept
<1> QED BY <1>1, <1>2, VisibleKept

\* A record nobody has locked is not relied on by a batch.
LEMMA FreeRecord ==
    ASSUME HostInv, NEW s \in Threads, NEW r \in Records, recLock[r] # s, task[s].rec # r
    PROVE  r \notin Relies(task[s])
<1>1. recLock[r] = s <=> r \in Locks(task[s])
  BY DEF HostInv, TaskInv, LocksSafe
<1> QED BY <1>1 DEF Locks, Relies

LEMMA RewriteLockStep ==
    ASSUME HostInv, NEW t \in Threads, RewriteLock(t)
    PROVE  Sound
<1> DEFINE x == task[t]
           y == task'[t]
           r == task[t].rec
<1>1. /\ TaskShape(x) /\ Phased(x) /\ DOMAIN task = Threads
      /\ \A q \in Records : recLock[q] = t <=> q \in Locks(x)
      /\ x.rec # None => x.rec \in held /\ x.rec \in Records
      /\ policy = None /\ recLock \in [Records -> Threads \cup {None}]
      /\ residents \in Seq(Records)
      /\ \A q \in Records : recLock[q] # None => pins[q] = 0
      /\ \A s \in Threads \ {t} : task[s].rec = x.rec => x.rec = None
  BY Mine DEF RewriteLock
<1>2. /\ x.pc = "lock" /\ x.op = "rewrite" /\ x.rec # None /\ r \in held /\ r \in Records
      /\ recLock[r] = None
      /\ x.batch = <<>> /\ x.dests = <<>>
      /\ UNCHANGED <<diskVars, cells>> /\ residents' = residents
      /\ held' = held /\ pins' = pins /\ readers' = readers /\ disk' = disk
  BY <1>1 DEF RewriteLock, catVars, Phased, Choosing
<1>3. \A q \in Records : q \notin Locks(x) /\ recLock[q] # t
  BY <1>1, <1>2 DEF Locks, Range
<1>4. CASE task' = [task EXCEPT ![t] = Idle] /\ UNCHANGED <<lockVars, sealed, ram>>
  <2>1. y = Idle /\ DOMAIN task' = Threads /\ \A s \in Threads \ {t} : task'[s] = task[s]
    BY <1>1, <1>4
  <2>2. Quiet(t)
    BY <1>1, <1>2, <1>4, <2>1 DEF Quiet, Rests, lockVars, Idle
  <2> HIDE DEF y
  <2>3. QuietTask(t, y)
    <3>1. y.pc = "idle" /\ y.rec = None /\ policy' # t
      BY <1>1, <1>4, <2>1, Constants DEF Idle, lockVars
    <3>2. \A q \in Records : recLock'[q] = t <=> q \in Locks(y)
      BY <1>3, <1>4, <2>1, IdleTask DEF lockVars
    <3> QED BY <2>1, <3>1, <3>2, IdleTask DEF QuietTask, Locking, Choosing
  <2>4. OwnCall(t)
    BY <2>1 DEF OwnCall, Idle, y
  <2> QED BY <2>2, <2>3, <2>4, QuietMove DEF y
<1>5. CASE /\ pins[r] = 0 /\ ram[r] = None
           /\ policy' = t /\ recLock' = [recLock EXCEPT ![r] = t]
           /\ task' = [task EXCEPT ![t].pc = "charge"]
           /\ UNCHANGED <<sealed, ram>>
  <2>1. /\ y.op = x.op /\ y.rec = x.rec /\ y.batch = x.batch /\ y.dests = x.dests /\ y.pc = "charge"
        /\ TaskShape(y) /\ DOMAIN task' = Threads /\ \A s \in Threads \ {t} : task'[s] = task[s]
    BY <1>1, <1>5 DEF TaskShape, Pcs
  <2> HIDE DEF y
  <2>2. /\ recLock' \in [Records -> Threads \cup {None}]
        /\ \A q \in Records : recLock'[q] = IF q = r THEN t ELSE recLock[q]
    BY <1>1, <1>2, <1>5
  <2>3. Quiet(t)
    <3>1. \A q \in Records : /\ \/ recLock'[q] = recLock[q]
                                \/ recLock'[q] \in {t, None} /\ recLock[q] \in {t, None}
                             /\ recLock'[q] # None => pins[q] = 0
      BY <1>1, <1>2, <1>5, <2>2
    <3>2. \A s \in Threads \ {t} : policy' = s <=> policy = s
      BY <1>1, <1>5, Constants
    <3>3. task'[t].batch = task[t].batch /\ task'[t].dests = task[t].dests
      BY <2>1 DEF y
    <3> QED BY <1>1, <1>2, <1>5, <2>1, <2>2, <3>1, <3>2, <3>3 DEF Quiet, Rests
  <2>4. QuietTask(t, y)
    <3>1. Phased(y)
      BY <1>1, <1>2, <2>1 DEF Phased, Choosing
    <3>2. \A q \in Records : recLock'[q] = t <=> q \in Locks(y)
      BY <1>2, <1>3, <2>1, <2>2 DEF Locks, Range
    <3>3. disk[r] # None
      <4>1. PICK q \in Records : q = r
        BY <1>2
      <4>2. Alive(q) /\ RecordSafe(q)
        BY <1>2, <4>1 DEF Alive, HostInv
      <4> QED BY <1>5, <4>1, <4>2 DEF RecordSafe
    <3> QED BY <1>2, <1>5, <2>1, <3>1, <3>2, <3>3 DEF QuietTask, Locking, Choosing
  <2>5. OwnCall(t)
    BY <1>1, <2>1 DEF OwnCall, y
  <2> QED BY <2>3, <2>4, <2>5, QuietMove DEF y
<1>6. CASE /\ pins[r] = 0 /\ readers[r] = 0 /\ ram[r] # None
           /\ task' = [task EXCEPT ![t] = Idle] /\ sealed' = sealed \ {r}
           /\ \E v \in Values : ram' = [ram EXCEPT ![r] = v]
           /\ UNCHANGED lockVars
  <2>1. y = Idle /\ DOMAIN task' = Threads /\ \A s \in Threads \ {t} : task'[s] = task[s]
    BY <1>1, <1>6
  <2>2. PICK q \in Records : q = r
    BY <1>2
  <2>3. PICK v \in Values : ram' = [ram EXCEPT ![q] = v]
    BY <1>6, <2>2
  <2> HIDE DEF y
  <2>4. /\ ram \in [Records -> Values \cup {None}] /\ ram'[q] = v
        /\ \A p \in Records : p # q => ram'[p] = ram[p]
        /\ q \in held /\ pins[q] = 0 /\ readers[q] = 0 /\ ram[q] # None /\ recLock[q] = None
        /\ policy' = policy /\ recLock' = recLock /\ sealed' = sealed \ {q}
    BY <1>2, <1>6, <2>2, <2>3 DEF HostInv, HostTypes, lockVars
  <2>5. Frame(t, {q}, None)
    <3>1. \A o : Spares(o)
      BY <1>2, NothingTouched
    <3>2. \A s \in Threads \ {t} : /\ TaskShape(task[s]) /\ q \notin Relies(task[s])
                                   /\ task[s].rec # None => task[s].rec \in held'
      BY <1>1, <1>2, <2>2, <2>4, FreeRecord, Mine, Constants
    <3>3. \A s \in Threads : \A i \in DOMAIN task[s].dests : task[s].dests[i] # None
      BY Mine, Constants DEF TaskShape
    <3> QED BY <1>1, <1>2, <2>1, <2>4, <3>1, <3>2, <3>3 DEF Frame, Rests
  <2>6. HostTypes'
    BY <1>2, <2>1, <2>3, <2>4 DEF HostInv, HostTypes
  <2>7. DiskInv'
    BY <1>2, NothingTouched DEF HostInv
  <2>8. Apart'
    BY <1>2, <2>1, ApartKept DEF Idle, y
  <2>9. TaskInv(t)'
    BY <1>1, <1>3, <2>1, <2>4, IdleSafe, Constants DEF y
  <2>10. \A p \in Records : /\ Alive(p)' <=> Alive(p)
                            /\ InUse(p)' <=> InUse(p)
                            /\ recLock'[p] # None => pins'[p] = 0
    <3>1. \A s \in Threads : task'[s].batch = task[s].batch
      BY <1>2, <2>1 DEF Idle, y
    <3> QED BY <1>1, <1>2, <2>4, <3>1, BatchedKept DEF Alive, InUse
  <2>11. \A p \in Records : p # q => RecordSafe(p)' /\ Visible(p)' = Visible(p)
    BY <2>5, <2>10, FrameKeeps
  <2>12. disk[q] = None /\ v # None /\ InUse(q) /\ Alive(q)
    BY <2>4, Constants DEF HostInv, RecordSafe, Alive, InUse
  <2>13. RecordSafe(q)' /\ Visible(q)' = v
    <3>1. RecordSafe(q)'
      BY <1>2, <2>4, <2>10, <2>12 DEF RecordSafe
    <3> QED BY <3>1, <1>2, <2>4, <2>12 DEF Visible
  <2>14. KV!Next
    <3>1. Visible(q) # None /\ pins[q] + readers[q] = 0
      BY <2>4, <2>12, VisibleIs
    <3>2. \A p \in Records : Visible(p)' = IF p = q THEN v ELSE Visible(p)
      BY <2>11, <2>13
    <3>3. \A p \in Records : pins'[p] + readers'[p] = pins[p] + readers[p]
      BY <1>2
    <3> QED BY <3>1, <3>2, <3>3, Writes
  <2>15. LeasesHold
    BY <1>2, <2>4 DEF LeasesHold
  <2>16. \A p \in Records : RecordSafe(p)'
    BY <2>11, <2>13
  <2> QED BY <2>5, <2>6, <2>7, <2>8, <2>9, <2>14, <2>15, <2>16, FramedStep
<1> QED BY <1>4, <1>5, <1>6 DEF RewriteLock

-----------------------------------------------------------------------------
(* Handles: calls of one step                                               *)

\* What dropping one reference of r does to the tiers; o is the extent that
\* goes with the last one.
Dropped(r, gone, o) ==
    /\ Spares(o) /\ DiskInv'
    /\ cells' \in [Cells -> Values \cup {None}]
    /\ ram' \in [Records -> Values \cup {None}] /\ disk' \in [Records -> Cells \cup {None}]
    /\ \A q \in Records : q # r \/ ~gone =>
         ram'[q] = ram[q] /\ disk'[q] = disk[q] /\ (disk[q] # None => disk[q] # o)
    /\ gone => ram'[r] = None /\ disk'[r] = None
    /\ \A s \in Threads : \A i \in DOMAIN task[s].dests : task[s].dests[i] # o

LEMMA DestroyStep ==
    ASSUME HostInv, NEW r \in Records, NEW gone \in BOOLEAN, Destroy(r, gone)
    PROVE  \E o : Dropped(r, gone, o)
<1>1. /\ DiskInv /\ Apart /\ RecordSafe(r)
      /\ cells \in [Cells -> Values \cup {None}]
      /\ ram \in [Records -> Values \cup {None}] /\ disk \in [Records -> Cells \cup {None}]
  BY DEF HostInv, HostTypes
<1>2. /\ ram' = IF gone THEN [ram EXCEPT ![r] = None] ELSE ram
      /\ disk' = IF gone THEN [disk EXCEPT ![r] = None] ELSE disk
  BY DEF Destroy
<1>3. /\ ram' \in [Records -> Values \cup {None}] /\ disk' \in [Records -> Cells \cup {None}]
      /\ \A q \in Records : q # r \/ ~gone => ram'[q] = ram[q] /\ disk'[q] = disk[q]
      /\ gone => ram'[r] = None /\ disk'[r] = None
  BY <1>1, <1>2
<1>4. CASE gone /\ disk[r] # None
  <2>1. PICK x \in UsedRanges : x.off = disk[r]
    BY <1>1, <1>4 DEF RecordSafe, Holds
  <2>2. Free(UsedAt(disk[r]))
    BY <1>4 DEF Destroy
  <2>3. UsedAt(disk[r]) = x
    BY <1>1, <2>1, UsedAtIs
  <2>4. Free(x)
    BY <2>2, <2>3
  <2>5. Spares(x.off) /\ DiskInv' /\ cells' \in [Cells -> Values \cup {None}]
    BY <1>1, <2>4, FreeSpares
  <2>6. \A q \in Records : q # r => disk[q] # x.off \/ disk[q] = None
    BY <1>1, <2>1 DEF Apart
  <2>7. \A s \in Threads : \A i \in DOMAIN task[s].dests : task[s].dests[i] # x.off
    BY <1>1, <2>1 DEF Apart
  <2>8. Dropped(r, gone, x.off)
    BY <1>3, <1>4, <2>5, <2>6, <2>7 DEF Dropped
  <2> QED BY <2>8
<1>5. CASE ~(gone /\ disk[r] # None)
  <2>1. UNCHANGED <<diskVars, cells>>
    BY <1>5 DEF Destroy
  <2>2. Spares(None) /\ DiskInv'
    BY <1>1, <2>1, NothingTouched
  <2>3. \A s \in Threads : \A i \in DOMAIN task[s].dests : task[s].dests[i] # None
    BY Mine, Constants DEF TaskShape
  <2>4. Dropped(r, gone, None)
    BY <1>1, <1>3, <2>1, <2>2, <2>3 DEF Dropped
  <2> QED BY <2>4
<1> QED BY <1>4, <1>5

\* A caller drops a handle: the record stays as it is for everybody else, and
\* for its last user it is gone.
LEMMA HandleDropped ==
    ASSUME HostInv, NEW r \in Records, NEW gone \in BOOLEAN, Destroy(r, gone),
           UNCHANGED <<policy, recLock, residents, sealed, task>>,
           held' = held \/ (OwnerIdle(r) /\ held' = held \ {r}),
           pins' \in [Records -> Nat], readers' \in [Records -> Nat],
           \A q \in Records : q # r => pins'[q] = pins[q] /\ readers'[q] = readers[q],
           pins[r] = 0 => pins'[r] = 0,
           InUse(r), gone <=> ~InUse(r)' /\ r \notin Batched
    PROVE  /\ HostInv' /\ LeasesHold
           /\ \A q \in Records : q # r => Visible(q)' = Visible(q)
           /\ InUse(r)' => Visible(r)' = Visible(r)
           /\ ~InUse(r)' => Visible(r)' = None
<1>1. PICK o : Dropped(r, gone, o)
  BY DestroyStep
<1> DEFINE R == IF gone THEN {r} ELSE {}
<1>2. /\ policy' = policy /\ recLock' = recLock /\ residents' = residents
      /\ sealed' = sealed /\ task' = task
  OBVIOUS
<1>3. \A s \in Threads : task[s].rec # None => task[s].rec \in held'
  BY Mine DEF OwnerIdle
<1>4. ASSUME gone, NEW s \in Threads PROVE r \notin Relies(task[s])
  <2>1. task[s].rec # r
    BY <1>3, <1>4, Constants DEF InUse
  <2>2. r \notin Range(task[s].batch)
    BY <1>4, BatchedIs
  <2> QED BY <2>1, <2>2 DEF Relies
<1>5. Frame(None, R, o)
  <2>1. \A q \in Records : q \notin R => q # r \/ ~gone
    OBVIOUS
  <2>2. \A s \in Threads : \A q \in R : q \notin Relies(task[s])
    BY <1>4
  <2> QED BY <1>1, <1>2, <1>3, <2>1, <2>2 DEF Frame, Dropped, Rests
<1>6. HostTypes' /\ DiskInv'
  BY <1>1, <1>2 DEF HostInv, HostTypes, Dropped
<1>7. \A q \in Records : disk'[q] \in {disk[q], None}
  BY <1>1 DEF Dropped
<1>8. Apart'
  BY <1>2, <1>7, ApartKept
<1>9. Batched' = Batched
  BY <1>2 DEF Batched
<1>10. \A q \in Records : recLock'[q] # None => pins'[q] = 0
  BY <1>2 DEF HostInv, RecordSafe
<1>11. \A q \in Records : q # r => /\ Alive(q)' <=> Alive(q)
                                   /\ InUse(q)' <=> InUse(q)
  BY <1>9 DEF Alive, InUse
<1>12. \A q \in Records : q # r => RecordSafe(q)' /\ Visible(q)' = Visible(q)
  <2>1. \A q \in Records : q # r => q \notin R
    OBVIOUS
  <2> HIDE DEF R
  <2> QED BY <2>1, <1>5, <1>10, <1>11, FrameKeeps
<1>13. /\ RecordSafe(r)'
       /\ InUse(r)' => Visible(r)' = Visible(r)
       /\ ~InUse(r)' => Visible(r)' = None
  <2>1. CASE gone
    <3>1. ~Alive(r)' /\ ~InUse(r)'
      BY <2>1, <1>9 DEF Alive, InUse
    <3>2. ram'[r] = None /\ disk'[r] = None
      BY <1>1, <2>1 DEF Dropped
    <3>3. RecordSafe(r)'
      BY <1>10, <3>1, <3>2 DEF RecordSafe
    <3> QED BY <3>1, <3>3 DEF Visible, InUse
  <2>2. CASE ~gone
    <3>1. Alive(r)' <=> Alive(r)
      BY <2>2, <1>9 DEF Alive, InUse
    <3>2. RecordSafe(r)' /\ ((InUse(r)' <=> InUse(r)) => Visible(r)' = Visible(r))
      BY <2>2, <3>1, <1>5, <1>10, FrameKeeps
    <3> QED BY <3>2 DEF Visible, InUse
  <2> QED BY <2>1, <2>2
<1>14. \A s \in Threads : TaskInv(s)'
  <2>1. \A s \in Threads : s \in Threads \ {None}
    BY Constants
  <2> HIDE DEF R
  <2> QED BY <2>1, <1>5, OthersKept
<1>15. LeasesHold
  <2>1. ASSUME NEW q \in Records, pins'[q] > 0 PROVE disk'[q] = disk[q] /\ ram'[q] = ram[q]
    <3>1. q = r => ~gone
      BY <2>1 DEF InUse
    <3> QED BY <1>1, <3>1 DEF Dropped
  <2> QED BY <2>1 DEF LeasesHold
<1> QED BY <1>6, <1>8, <1>12, <1>13, <1>14, <1>15 DEF HostInv

LEMMA UnpinStep ==
    ASSUME HostInv, NEW r \in Records, Unpin(r)
    PROVE  Sound
<1> DEFINE gone == ~(pins[r] > 1 \/ r \in held \/ readers[r] > 0 \/ r \in Batched)
<1>1. /\ Destroy(r, gone) /\ gone \in BOOLEAN
      /\ UNCHANGED <<policy, recLock, residents, sealed, task>> /\ held' = held
      /\ pins[r] > 0 /\ pins' = [pins EXCEPT ![r] = @ - 1] /\ readers' = readers
  BY DEF Unpin, lockVars, catVars
<1>2. pins \in [Records -> Nat] /\ readers \in [Records -> Nat]
  BY DEF HostInv, HostTypes
<1>3. /\ pins' \in [Records -> Nat] /\ readers' \in [Records -> Nat]
      /\ \A q \in Records : q # r => pins'[q] = pins[q] /\ readers'[q] = readers[q]
      /\ pins[r] \in Nat /\ readers[r] \in Nat /\ pins'[r] = pins[r] - 1 /\ readers'[r] = readers[r]
  BY <1>1, <1>2
<1>4. InUse(r) /\ (gone <=> ~InUse(r)' /\ r \notin Batched)
  BY <1>1, <1>3 DEF InUse
<1>5. pins[r] = 0 => pins'[r] = 0
  BY <1>1
<1> HIDE DEF gone
<1>6. /\ HostInv' /\ LeasesHold
      /\ \A q \in Records : q # r => Visible(q)' = Visible(q)
      /\ InUse(r)' => Visible(r)' = Visible(r)
      /\ ~InUse(r)' => Visible(r)' = None
  BY <1>1, <1>3, <1>4, <1>5, HandleDropped
<1>7. Visible(r)' = Visible(r) \/ (pins[r] + readers[r] = 1 /\ Visible(r)' = None)
  BY <1>1, <1>3, <1>6 DEF InUse
<1>8. \A q \in Records : pins'[q] + readers'[q] =
            IF q = r THEN (pins[q] + readers[q]) - 1 ELSE pins[q] + readers[q]
  BY <1>3
<1>9. pins[r] + readers[r] > 0
  BY <1>1, <1>3
<1>10. KV!Next
  BY <1>6, <1>7, <1>8, <1>9, Closes
<1> QED BY <1>6, <1>10 DEF Sound

LEMMA ReleaseSourceStep ==
    ASSUME HostInv, NEW r \in Records, ReleaseSource(r)
    PROVE  Sound
<1> DEFINE gone == ~(readers[r] > 1 \/ r \in held \/ pins[r] > 0 \/ r \in Batched)
<1>1. /\ Destroy(r, gone) /\ gone \in BOOLEAN
      /\ UNCHANGED <<policy, recLock, residents, sealed, task>> /\ held' = held
      /\ readers[r] > 0 /\ readers' = [readers EXCEPT ![r] = @ - 1] /\ pins' = pins
  BY DEF ReleaseSource, lockVars, catVars
<1>2. pins \in [Records -> Nat] /\ readers \in [Records -> Nat]
  BY DEF HostInv, HostTypes
<1>3. /\ pins' \in [Records -> Nat] /\ readers' \in [Records -> Nat]
      /\ \A q \in Records : q # r => pins'[q] = pins[q] /\ readers'[q] = readers[q]
      /\ pins[r] \in Nat /\ readers[r] \in Nat /\ readers'[r] = readers[r] - 1 /\ pins'[r] = pins[r]
  BY <1>1, <1>2
<1>4. InUse(r) /\ (gone <=> ~InUse(r)' /\ r \notin Batched)
  BY <1>1, <1>3 DEF InUse
<1>5. pins[r] = 0 => pins'[r] = 0
  BY <1>3
<1> HIDE DEF gone
<1>6. /\ HostInv' /\ LeasesHold
      /\ \A q \in Records : q # r => Visible(q)' = Visible(q)
      /\ InUse(r)' => Visible(r)' = Visible(r)
      /\ ~InUse(r)' => Visible(r)' = None
  BY <1>1, <1>3, <1>4, <1>5, HandleDropped
<1>7. Visible(r)' = Visible(r) \/ (pins[r] + readers[r] = 1 /\ Visible(r)' = None)
  BY <1>1, <1>3, <1>6 DEF InUse
<1>8. \A q \in Records : pins'[q] + readers'[q] =
            IF q = r THEN (pins[q] + readers[q]) - 1 ELSE pins[q] + readers[q]
  BY <1>3
<1>9. pins[r] + readers[r] > 0
  BY <1>1, <1>3
<1>10. KV!Next
  BY <1>6, <1>7, <1>8, <1>9, Closes
<1> QED BY <1>6, <1>10 DEF Sound

LEMMA DropStep ==
    ASSUME HostInv, NEW r \in Records, Drop(r)
    PROVE  Sound
<1> DEFINE gone == pins[r] = 0 /\ readers[r] = 0 /\ r \notin Batched
<1>1. /\ Destroy(r, gone) /\ gone \in BOOLEAN
      /\ UNCHANGED <<policy, recLock, residents, sealed, task>>
      /\ OwnerIdle(r) /\ r \in held /\ held' = held \ {r}
      /\ readers' = readers /\ pins' = pins
  BY DEF Drop, lockVars, catVars, OwnerIdle
<1>2. pins \in [Records -> Nat] /\ readers \in [Records -> Nat]
  BY DEF HostInv, HostTypes
<1>3. /\ pins' \in [Records -> Nat] /\ readers' \in [Records -> Nat]
      /\ \A q \in Records : q # r => pins'[q] = pins[q] /\ readers'[q] = readers[q]
      /\ pins[r] \in Nat /\ readers[r] \in Nat
  BY <1>1, <1>2
<1>4. InUse(r) /\ (gone <=> ~InUse(r)' /\ r \notin Batched)
  BY <1>1, <1>3 DEF InUse
<1>5. pins[r] = 0 => pins'[r] = 0
  BY <1>1
<1> HIDE DEF gone
<1>6. /\ HostInv' /\ LeasesHold
      /\ \A q \in Records : q # r => Visible(q)' = Visible(q)
      /\ InUse(r)' => Visible(r)' = Visible(r)
      /\ ~InUse(r)' => Visible(r)' = None
  BY <1>1, <1>3, <1>4, <1>5, HandleDropped
<1>7. \A q \in Records : pins'[q] + readers'[q] = pins[q] + readers[q]
  BY <1>1
<1>8. CASE InUse(r)'
  <2>1. UNCHANGED KV!recordVars
    BY <1>6, <1>7, <1>8, NoChange
  <2> QED BY <1>6, <2>1 DEF Sound
<1>9. CASE ~InUse(r)'
  <2>1. Visible(r) # None
    BY <1>4, VisibleIs
  <2>2. pins[r] + readers[r] = 0
    BY <1>1, <1>3, <1>9 DEF InUse
  <2>3. \A q \in Records : Visible(q)' = IF q = r THEN None ELSE Visible(q)
    BY <1>6, <1>9
  <2>4. KV!Next
    BY <2>1, <2>2, <2>3, <1>7, Forgets
  <2> QED BY <1>6, <2>4 DEF Sound
<1> QED BY <1>8, <1>9

\* A call of an owner or a reader that leaves the file alone and changes the
\* content of the records in R only.
Called(R) ==
    /\ UNCHANGED <<diskVars, cells, policy, recLock, disk, task>>
    /\ residents' = residents \/ (policy = None /\ residents' \in Seq(Records))
    /\ held \subseteq held' /\ held' \subseteq Records /\ sealed' \subseteq Records
    /\ pins' \in [Records -> Nat] /\ readers' \in [Records -> Nat]
    /\ ram' \in [Records -> Values \cup {None}]
    /\ \A r \in Records : recLock[r] # None => pins'[r] = 0
    /\ \A r \in Records : r \notin R => /\ ram'[r] = ram[r] /\ (r \in sealed => r \in sealed')
                                        /\ Alive(r)' <=> Alive(r)
    /\ \A r \in R : /\ RecordSafe(r)' /\ pins[r] = 0
                    /\ \A s \in Threads : r \notin Relies(task[s])

LEMMA CallStep ==
    ASSUME HostInv, NEW R \in SUBSET Records, Called(R)
    PROVE  /\ HostInv' /\ LeasesHold
           /\ \A r \in Records : r \notin R => ((InUse(r)' <=> InUse(r)) => Visible(r)' = Visible(r))
<1>1. DiskInv' /\ Spares(None)
  BY NothingTouched DEF HostInv, Called
<1>2. /\ disk' = disk /\ task' = task /\ policy' = policy /\ recLock' = recLock /\ cells' = cells
  BY DEF Called
<1>3. \A s \in Threads : /\ task[s].rec # None => task[s].rec \in held'
                         /\ \A i \in DOMAIN task[s].dests : task[s].dests[i] # None
  BY Mine, Constants DEF TaskShape, Called
<1>4. Frame(None, R, None)
  BY <1>1, <1>2, <1>3 DEF Frame, Rests, Called
<1>5. \A r \in Records : r \notin R => /\ RecordSafe(r)'
                                       /\ (InUse(r)' <=> InUse(r)) => Visible(r)' = Visible(r)
  BY <1>2, <1>4, FrameKeeps DEF Called
<1>6. \A s \in Threads : TaskInv(s)'
  <2>1. \A s \in Threads : s \in Threads \ {None}
    BY Constants
  <2> QED BY <2>1, <1>4, OthersKept
<1>7. HostTypes'
  BY <1>2 DEF HostInv, HostTypes, Called
<1>8. Apart'
  BY <1>2, ApartKept
<1>9. LeasesHold
  BY <1>2 DEF LeasesHold, Called
<1>10. \A r \in Records : RecordSafe(r)'
  BY <1>5 DEF Called
<1> QED BY <1>1, <1>5, <1>6, <1>7, <1>8, <1>9, <1>10 DEF HostInv

\* The types of the storage, for the calls.
LEMMA Types ==
    ASSUME HostInv
    PROVE  /\ residents \in Seq(Records)
           /\ held \subseteq Records /\ sealed \subseteq Records
           /\ pins \in [Records -> Nat] /\ readers \in [Records -> Nat]
           /\ ram \in [Records -> Values \cup {None}] /\ disk \in [Records -> Cells \cup {None}]
           /\ \A r \in Records : RecordSafe(r)
BY DEF HostInv, HostTypes

LEMMA ReleaseReservationStep ==
    ASSUME HostInv, NEW t \in Threads, ReleaseReservation(t)
    PROVE  Sound
<1>1. /\ UNCHANGED <<diskVars, cells, policy, recLock, disk, task>> /\ residents' = residents
      /\ held' = held /\ pins' = pins /\ readers' = readers /\ sealed' = sealed /\ ram' = ram
  BY DEF ReleaseReservation, lockVars, catVars, recVars
<1>2. \A r \in Records : /\ Alive(r)' <=> Alive(r)
                         /\ InUse(r)' <=> InUse(r)
                         /\ recLock[r] # None => pins'[r] = 0
  BY <1>1, Types DEF Alive, InUse, Batched, RecordSafe
<1>3a. Called({})
  BY <1>1, <1>2, Types DEF Called
<1>3. /\ HostInv' /\ LeasesHold
      /\ \A r \in Records : r \notin {} => ((InUse(r)' <=> InUse(r)) => Visible(r)' = Visible(r))
  BY <1>3a, CallStep
<1>4. UNCHANGED KV!recordVars
  BY <1>1, <1>2, <1>3, NoChange
<1> QED BY <1>3, <1>4 DEF Sound

LEMMA SealStep ==
    ASSUME HostInv, NEW q \in Records, Seal(q)
    PROVE  Sound
<1>1. /\ UNCHANGED <<diskVars, cells, policy, recLock, disk, task>> /\ residents' = residents
      /\ held' = held /\ pins' = pins /\ readers' = readers /\ ram' = ram
      /\ sealed' = sealed \cup {q}
  BY DEF Seal, lockVars, catVars
<1>2. \A r \in Records : /\ Alive(r)' <=> Alive(r)
                         /\ InUse(r)' <=> InUse(r)
                         /\ recLock[r] # None => pins'[r] = 0
  BY <1>1, Types DEF Alive, InUse, Batched, RecordSafe
<1>3a. Called({})
  BY <1>1, <1>2, Types DEF Called
<1>3. /\ HostInv' /\ LeasesHold
      /\ \A r \in Records : r \notin {} => ((InUse(r)' <=> InUse(r)) => Visible(r)' = Visible(r))
  BY <1>3a, CallStep
<1>4. UNCHANGED KV!recordVars
  BY <1>1, <1>2, <1>3, NoChange
<1> QED BY <1>3, <1>4 DEF Sound

LEMMA LeaseStep ==
    ASSUME HostInv, NEW q \in Records, Lease(q)
    PROVE  Sound
<1>1. /\ UNCHANGED <<diskVars, cells, policy, recLock, disk, task>> /\ residents' = residents
      /\ held' = held /\ readers' = readers /\ ram' = ram /\ sealed' = sealed
      /\ pins' = [pins EXCEPT ![q] = @ + 1] /\ InUse(q) /\ recLock[q] = None
  BY DEF Lease, lockVars, catVars, InUse
<1>2. /\ pins' \in [Records -> Nat] /\ pins'[q] = pins[q] + 1 /\ pins[q] \in Nat
      /\ \A r \in Records : r # q => pins'[r] = pins[r]
  BY <1>1, Types
<1>3. \A r \in Records : /\ Alive(r)' <=> Alive(r)
                         /\ InUse(r)' <=> InUse(r)
                         /\ recLock[r] # None => pins'[r] = 0
  BY <1>1, <1>2, Types DEF Alive, InUse, Batched, RecordSafe
<1>4a. Called({})
  BY <1>1, <1>2, <1>3, Types DEF Called
<1>4. /\ HostInv' /\ LeasesHold
      /\ \A r \in Records : r \notin {} => ((InUse(r)' <=> InUse(r)) => Visible(r)' = Visible(r))
  BY <1>4a, CallStep
<1>5. \A r \in Records : pins'[r] + readers'[r] =
            IF r = q THEN pins[r] + readers[r] + 1 ELSE pins[r] + readers[r]
  BY <1>1, <1>2, Types
<1>6. KV!Next
  <2>1. Visible(q) # None
    BY <1>1, VisibleIs
  <2>2. \A r \in Records : Visible(r)' = Visible(r)
    BY <1>3, <1>4
  <2> QED BY <2>1, <2>2, <1>5, Opens
<1> QED BY <1>4, <1>6 DEF Sound

LEMMA SourceStep ==
    ASSUME HostInv, NEW q \in Records, Source(q)
    PROVE  Sound
<1>1. /\ UNCHANGED <<diskVars, cells, policy, recLock, disk, task>> /\ residents' = residents
      /\ held' = held /\ pins' = pins /\ ram' = ram /\ sealed' = sealed
      /\ readers' = [readers EXCEPT ![q] = @ + 1] /\ InUse(q)
  BY DEF Source, lockVars, catVars, InUse, OwnerIdle
<1>2. /\ readers' \in [Records -> Nat] /\ readers'[q] = readers[q] + 1 /\ readers[q] \in Nat
      /\ \A r \in Records : r # q => readers'[r] = readers[r]
  BY <1>1, Types
<1>3. \A r \in Records : /\ Alive(r)' <=> Alive(r)
                         /\ InUse(r)' <=> InUse(r)
                         /\ recLock[r] # None => pins'[r] = 0
  BY <1>1, <1>2, Types DEF Alive, InUse, Batched, RecordSafe
<1>4a. Called({})
  BY <1>1, <1>2, <1>3, Types DEF Called
<1>4. /\ HostInv' /\ LeasesHold
      /\ \A r \in Records : r \notin {} => ((InUse(r)' <=> InUse(r)) => Visible(r)' = Visible(r))
  BY <1>4a, CallStep
<1>5. \A r \in Records : pins'[r] + readers'[r] =
            IF r = q THEN pins[r] + readers[r] + 1 ELSE pins[r] + readers[r]
  BY <1>1, <1>2, Types
<1>6. KV!Next
  <2>1. Visible(q) # None
    BY <1>1, VisibleIs
  <2>2. \A r \in Records : Visible(r)' = Visible(r)
    BY <1>3, <1>4
  <2> QED BY <2>1, <2>2, <1>5, Opens
<1> QED BY <1>4, <1>6 DEF Sound

LEMMA WriteStep ==
    ASSUME HostInv, NEW q \in Records, NEW v \in Values, Write(q, v)
    PROVE  Sound
<1>1. /\ UNCHANGED <<diskVars, cells, policy, recLock, disk, task>> /\ residents' = residents
      /\ held' = held /\ pins' = pins /\ readers' = readers /\ sealed' = sealed
      /\ ram' = [ram EXCEPT ![q] = v] /\ OwnerIdle(q) /\ q \in held /\ q \notin sealed
      /\ pins[q] = 0 /\ readers[q] = 0
  BY DEF Write, lockVars, catVars, OwnerIdle
<1>2. /\ ram' \in [Records -> Values \cup {None}] /\ ram'[q] = v /\ v # None
      /\ \A r \in Records : r # q => ram'[r] = ram[r]
  BY <1>1, Types, Constants
<1>3. \A r \in Records : /\ Alive(r)' <=> Alive(r)
                         /\ InUse(r)' <=> InUse(r)
                         /\ recLock[r] # None => pins'[r] = 0
  BY <1>1, Types DEF Alive, InUse, Batched, RecordSafe
<1>4. InUse(q) /\ Alive(q) /\ disk[q] = None
  BY <1>1, Types DEF InUse, Alive, RecordSafe
<1>5. RecordSafe(q)' /\ Visible(q)' = v
  <2>1. recLock'[q] # None => pins'[q] = 0
    BY <1>1, <1>3
  <2> QED BY <2>1, <1>1, <1>2, <1>3, <1>4 DEF RecordSafe, Visible
<1>6. \A s \in Threads : q \notin Relies(task[s])
  <2> SUFFICES ASSUME NEW s \in Threads PROVE q \notin Relies(task[s])
    OBVIOUS
  <2>1. task[s].rec # q
    BY <1>1 DEF OwnerIdle
  <2>2. task[s].pc \in Choosing => q \notin Range(task[s].batch)
    BY <1>1 DEF HostInv, TaskInv, TaskSafe, Range
  <2> QED BY <2>1, <2>2 DEF Relies
<1>7a. Called({q})
  BY <1>1, <1>2, <1>3, <1>5, <1>6, Types DEF Called
<1>7. /\ HostInv' /\ LeasesHold
      /\ \A r \in Records : r \notin {q} => ((InUse(r)' <=> InUse(r)) => Visible(r)' = Visible(r))
  BY <1>7a, CallStep
<1>8. KV!Next
  <2>1. Visible(q) # None /\ pins[q] + readers[q] = 0
    BY <1>1, <1>4, VisibleIs
  <2>2. \A r \in Records : Visible(r)' = IF r = q THEN v ELSE Visible(r)
    BY <1>3, <1>5, <1>7
  <2>3. \A r \in Records : pins'[r] + readers'[r] = pins[r] + readers[r]
    BY <1>1
  <2> QED BY <2>1, <2>2, <2>3, Writes
<1> QED BY <1>7, <1>8 DEF Sound

\* A registration leaves a catalog.
LEMMA Registers ==
    ASSUME NEW q \in Records, residents \in Seq(Records), Register(q)
    PROVE  residents' \in Seq(Records)
<1>1. Kept(residents, {x \in Records : Alive(x)}) \in Seq(Records)
  BY KeptTyped
<1>2. \E live \in Seq(Records) : residents' = Append(live, q)
  BY <1>1 DEF Register
<1> QED BY <1>2

LEMMA AllocateStep ==
    ASSUME HostInv, NEW t \in Threads, NEW q \in Records, NEW v \in Values, AllocateFrom(t, q, v)
    PROVE  Sound
<1>1. /\ UNCHANGED <<diskVars, cells, policy, recLock, disk, task>> /\ policy = None
      /\ held' = held \cup {q} /\ pins' = pins /\ readers' = readers /\ sealed' = sealed \ {q}
      /\ ram' = [ram EXCEPT ![q] = v] /\ ~Alive(q) /\ Register(q)
  BY DEF AllocateFrom, lockVars
<1>2. residents' \in Seq(Records)
  BY <1>1, Types, Registers
<1>3. /\ ram' \in [Records -> Values \cup {None}] /\ ram'[q] = v /\ v # None
      /\ \A r \in Records : r # q => ram'[r] = ram[r]
  BY <1>1, Types, Constants
<1>4. ~InUse(q) /\ q \notin Batched /\ disk[q] = None /\ pins[q] = 0
  BY <1>1, Types DEF InUse, Alive, RecordSafe
<1>5. Batched' = Batched
  BY <1>1 DEF Batched
<1>6. /\ \A r \in Records : recLock[r] # None => pins'[r] = 0
      /\ \A r \in Records : r # q => /\ Alive(r)' <=> Alive(r)
                                     /\ InUse(r)' <=> InUse(r)
      /\ Alive(q)' /\ InUse(q)'
  BY <1>1, <1>5, Types DEF Alive, InUse, RecordSafe
<1>7. RecordSafe(q)' /\ Visible(q)' = v
  <2>1. recLock'[q] # None => pins'[q] = 0
    BY <1>1, <1>6
  <2> QED BY <2>1, <1>1, <1>3, <1>4, <1>6 DEF RecordSafe, Visible, InUse
<1>8. \A s \in Threads : q \notin Relies(task[s])
  <2> SUFFICES ASSUME NEW s \in Threads PROVE q \notin Relies(task[s])
    OBVIOUS
  <2>1. task[s].rec # q
    BY <1>4, Mine, Constants DEF InUse
  <2>2. q \notin Range(task[s].batch)
    BY <1>4, BatchedIs
  <2> QED BY <2>1, <2>2 DEF Relies
<1>9a. Called({q})
  BY <1>1, <1>2, <1>3, <1>4, <1>6, <1>7, <1>8, Types DEF Called
<1>9. /\ HostInv' /\ LeasesHold
      /\ \A r \in Records : r \notin {q} => ((InUse(r)' <=> InUse(r)) => Visible(r)' = Visible(r))
  BY <1>9a, CallStep
<1>10. KV!Next
  <2>1. Visible(q) = None
    BY <1>4, VisibleIs
  <2>2. \A r \in Records : Visible(r)' = IF r = q THEN v ELSE Visible(r)
    BY <1>6, <1>7, <1>9
  <2>3. \A r \in Records : pins'[r] + readers'[r] = pins[r] + readers[r]
    BY <1>1
  <2> QED BY <2>1, <2>2, <2>3, Creates
<1> QED BY <1>9, <1>10 DEF Sound

-----------------------------------------------------------------------------
(* Steps of an eviction                                                     *)

\* A sequence without its first element.
LEMMA TailIs ==
    ASSUME NEW S, NEW s \in Seq(S), s # <<>>
    PROVE  /\ Head(s) \in S /\ Tail(s) \in Seq(S) /\ 1 \in DOMAIN s /\ Head(s) = s[1]
           /\ \A i \in DOMAIN Tail(s) : i + 1 \in DOMAIN s /\ Tail(s)[i] = s[i + 1] /\ i \in Nat /\ i >= 1
           /\ \A e : e \in Range(s) <=> e = Head(s) \/ e \in Range(Tail(s))
<1>1. /\ Head(s) \in S /\ Tail(s) \in Seq(S) /\ 1 \in DOMAIN s /\ Head(s) = s[1]
      /\ \A i \in DOMAIN Tail(s) : i + 1 \in DOMAIN s /\ Tail(s)[i] = s[i + 1] /\ i \in Nat /\ i >= 1
  OBVIOUS
<1>2. \A i \in DOMAIN s : i # 1 => i - 1 \in DOMAIN Tail(s) /\ Tail(s)[i - 1] = s[i]
  OBVIOUS
<1>3. ASSUME NEW e PROVE e \in Range(s) <=> e = Head(s) \/ e \in Range(Tail(s))
  <2>1. ASSUME e \in Range(s) PROVE e = Head(s) \/ e \in Range(Tail(s))
    <3>1. PICK i \in DOMAIN s : e = s[i]
      BY <2>1 DEF Range
    <3>2. CASE i = 1
      BY <1>1, <3>1, <3>2
    <3>3. CASE i # 1
      <4>1. i - 1 \in DOMAIN Tail(s) /\ Tail(s)[i - 1] = e
        BY <1>2, <3>1, <3>3
      <4> QED BY <4>1 DEF Range
    <3> QED BY <3>2, <3>3
  <2>2. e = Head(s) => e \in Range(s)
    BY <1>1 DEF Range
  <2>3. e \in Range(Tail(s)) => e \in Range(s)
    BY <1>1 DEF Range
  <2> QED BY <2>1, <2>2, <2>3
<1> QED BY <1>1, <1>3

\* The batches of two threads are apart, and apart from what they rewrite.
LEMMA BatchesApart ==
    ASSUME HostInv, NEW t \in Threads, NEW s \in Threads, s # t, NEW r \in Range(task[t].batch)
    PROVE  r \in Records /\ recLock[r] = t /\ r \notin Range(task[s].batch)
<1>1. /\ TaskShape(task[t]) /\ \A q \in Records : recLock[q] = t <=> q \in Locks(task[t])
      /\ \A q \in Records : recLock[q] = s <=> q \in Locks(task[s])
  BY Mine
<1>2. r \in Records
  BY <1>1 DEF TaskShape, Range
<1> QED BY <1>1, <1>2 DEF Locks

LEMMA UnwindExtentStep ==
    ASSUME HostInv, NEW t \in Threads, UnwindExtent(t)
    PROVE  Sound
<1> DEFINE x == task[t]
           y == task'[t]
<1>1. /\ TaskShape(x) /\ Phased(x) /\ DOMAIN task = Threads /\ policy = t
      /\ \A r \in Records : recLock[r] = t <=> r \in Locks(x)
      /\ x.rec # None => x.rec \in held /\ x.rec \in Records /\ (x.pc # "lock" => disk[x.rec] # None)
      /\ \A r \in Records : recLock[r] # None => pins[r] = 0
  BY Mine DEF UnwindExtent, Locking
<1>2. /\ x.pc = "unwind" /\ x.dests # <<>> /\ x.dests \in Seq(Cells)
      /\ UNCHANGED <<lockVars, catVars, recVars>>
      /\ Free(UsedAt(Head(x.dests)))
      /\ task' = [task EXCEPT ![t].dests = Tail(x.dests)]
  BY <1>1 DEF UnwindExtent, TaskShape
<1>3. /\ policy' = policy /\ recLock' = recLock /\ residents' = residents
      /\ held' = held /\ pins' = pins /\ readers' = readers /\ sealed' = sealed
      /\ ram' = ram /\ disk' = disk
  BY <1>2 DEF lockVars, catVars, recVars
<1>4. PICK d : d = Head(x.dests)
  OBVIOUS
<1>5. /\ d = x.dests[1] /\ 1 \in DOMAIN x.dests /\ Tail(x.dests) \in Seq(Cells)
      /\ \A i \in DOMAIN Tail(x.dests) : /\ i + 1 \in DOMAIN x.dests /\ i + 1 # 1 /\ i \in Nat
                                         /\ Tail(x.dests)[i] = x.dests[i + 1]
  BY <1>2, <1>4, TailIs
<1>6. /\ y.pc = "unwind" /\ y.op = x.op /\ y.rec = x.rec /\ y.batch = x.batch /\ y.left = x.left
      /\ y.dests = Tail(x.dests) /\ TaskShape(y) /\ DOMAIN task' = Threads
      /\ \A s \in Threads \ {t} : task'[s] = task[s]
  BY <1>1, <1>2, <1>5 DEF TaskShape
<1>7. /\ Apart /\ DiskInv /\ cells \in [Cells -> Values \cup {None}]
      /\ TaskSafe(t)
  BY DEF HostInv, HostTypes, TaskInv
<1>8. PICK e \in UsedRanges : e.off = d
  BY <1>5, <1>7 DEF TaskSafe
<1>9. UsedAt(d) = e
  BY <1>7, <1>8, UsedAtIs
<1>10. Spares(d) /\ DiskInv' /\ cells' \in [Cells -> Values \cup {None}]
  <2>1. Free(e)
    BY <1>2, <1>4, <1>9
  <2> QED BY <1>7, <1>8, <2>1, FreeSpares
<1> HIDE DEF y
<1>11. Frame(t, {}, d)
  <2>1. \A s \in Threads \ {t} : \A i \in DOMAIN task[s].dests : task[s].dests[i] # d
    BY <1>5, <1>7 DEF Apart
  <2>2. \A r \in Records : disk[r] # d
    BY <1>5, <1>7 DEF Apart
  <2>3. \A s \in Threads \ {t} : task[s].rec # None => task[s].rec \in held'
    BY <1>3, Mine
  <2> QED BY <1>3, <1>6, <1>10, <2>1, <2>2, <2>3 DEF Frame, Rests
<1>12. HostTypes'
  BY <1>3, <1>6, <1>10 DEF HostInv, HostTypes
<1>13. Apart'
  <2>1. \A s \in Threads : task'[s].rec = task[s].rec
    BY <1>6 DEF y
  <2>2. \A s \in Threads : \A i \in DOMAIN task'[s].dests :
            \/ s # t /\ i \in DOMAIN task[s].dests /\ task'[s].dests[i] = task[s].dests[i]
            \/ s = t /\ i \in Nat /\ i + 1 \in DOMAIN task[s].dests /\ task'[s].dests[i] = task[s].dests[i + 1]
    <3>1. /\ task'[t].dests = Tail(x.dests)
          /\ \A s \in Threads \ {t} : task'[s].dests = task[s].dests
      BY <1>6 DEF y
    <3> QED BY <1>5, <3>1
  <2>3. \A r \in Records, s \in Threads : \A i \in DOMAIN task'[s].dests : disk'[r] # task'[s].dests[i]
    BY <1>3, <1>7, <2>2 DEF Apart
  <2>4. \A s, u \in Threads : \A i \in DOMAIN task'[s].dests, j \in DOMAIN task'[u].dests :
            task'[s].dests[i] = task'[u].dests[j] => s = u /\ i = j
    <3> SUFFICES ASSUME NEW s \in Threads, NEW u \in Threads,
                        NEW i \in DOMAIN task'[s].dests, NEW j \in DOMAIN task'[u].dests,
                        task'[s].dests[i] = task'[u].dests[j]
                 PROVE  s = u /\ i = j
      OBVIOUS
    <3>1. s = u
      BY <1>7, <2>2 DEF Apart
    <3>2. CASE s = t
      <4>1. i \in Nat /\ j \in Nat /\ i + 1 = j + 1
        BY <1>7, <2>2, <3>1, <3>2 DEF Apart
      <4> QED BY <3>1, <4>1
    <3>3. CASE s # t
      BY <1>7, <2>2, <3>1, <3>3 DEF Apart
    <3> QED BY <3>2, <3>3
  <2> QED BY <1>3, <1>7, <2>1, <2>3, <2>4 DEF Apart
<1>14. TaskInv(t)'
  <2>1. Phased(y)
    BY <1>1, <1>2, <1>6 DEF Phased, Choosing
  <2>2. LocksSafe(t)'
    <3>1. \A r \in Records : r \in Locks(y) <=> r \in Locks(x)
      BY <1>2, <1>6 DEF Locks
    <3>2. policy' = t <=> y.pc \in Locking
      BY <1>1, <1>3, <1>6 DEF Locking
    <3>3. y.pc # "scan"
      BY <1>6
    <3>4. \A r \in Records : recLock'[r] = t <=> r \in Locks(y)
      BY <1>1, <1>3, <3>1
    <3> QED BY <3>2, <3>3, <3>4 DEF LocksSafe, y
  <2>3. TaskSafe(t)'
    <3>1. y.rec # None => y.rec \in held' /\ (y.pc # "lock" => disk'[y.rec] # None)
      BY <1>1, <1>2, <1>3, <1>6
    <3>2. ASSUME NEW i \in DOMAIN y.dests PROVE \E z \in UsedRanges' : z.off = y.dests[i]
      <4>1. i + 1 \in DOMAIN x.dests /\ y.dests[i] = x.dests[i + 1] /\ i + 1 # 1
        BY <1>5, <1>6
      <4>2. x.dests[i + 1] # d
        BY <1>5, <1>7, <4>1 DEF Apart
      <4>3. \E z \in UsedRanges : z.off = x.dests[i + 1]
        BY <1>7, <4>1 DEF TaskSafe
      <4> QED BY <1>10, <4>1, <4>2, <4>3, UsedKept
    <3>3. y = task'[t] /\ y.pc # "install" /\ y.pc \notin Choosing
      BY <1>6 DEF Choosing, y
    <3> QED BY <3>1, <3>2, <3>3, TaskSafeNext
  <2> QED BY <1>6, <2>1, <2>2, <2>3 DEF TaskInv, y
<1>15. ASSUME NEW r \in Records PROVE RecordSafe(r)' /\ Visible(r)' = Visible(r)
  <2>1. \A s \in Threads : task'[s].batch = task[s].batch
    BY <1>6 DEF y
  <2>2. /\ Alive(r)' <=> Alive(r)
        /\ InUse(r)' <=> InUse(r)
        /\ recLock'[r] # None => pins'[r] = 0
    BY <1>1, <1>3, <2>1, BatchedKept DEF Alive, InUse
  <2> QED BY <1>11, <2>2, FrameKeeps
<1>16. UNCHANGED KV!recordVars
  BY <1>3, <1>15, NoChange
<1>17. LeasesHold
  BY <1>3 DEF LeasesHold
<1> QED BY <1>10, <1>11, <1>12, <1>13, <1>14, <1>15, <1>16, <1>17, FramedStep

LEMMA UnwindRecordStep ==
    ASSUME HostInv, NEW t \in Threads, UnwindRecord(t)
    PROVE  Sound
<1> DEFINE x == task[t]
           y == task'[t]
<1>1. /\ TaskShape(x) /\ Phased(x) /\ DOMAIN task = Threads /\ policy = t
      /\ \A r \in Records : recLock[r] = t <=> r \in Locks(x)
      /\ x.rec # None => x.rec \in held /\ x.rec \in Records /\ (x.pc # "lock" => disk[x.rec] # None)
      /\ recLock \in [Records -> Threads \cup {None}]
      /\ \A r \in Records : recLock[r] # None => pins[r] = 0
  BY Mine DEF UnwindRecord, Locking
<1>2. /\ x.pc = "unwind" /\ x.dests = <<>> /\ x.batch # <<>> /\ x.batch \in Seq(Records)
      /\ recLock' = [recLock EXCEPT ![Head(x.batch)] = None]
      /\ task' = [task EXCEPT ![t].batch = Tail(x.batch)]
      /\ policy' = policy /\ residents' = residents
      /\ held' = held /\ pins' = pins /\ readers' = readers /\ sealed' = sealed
  BY <1>1 DEF UnwindRecord, TaskShape, catVars
<1>3. PICK r : r = Head(x.batch)
  OBVIOUS
<1>4. /\ r \in Records /\ r = x.batch[1] /\ 1 \in DOMAIN x.batch /\ Tail(x.batch) \in Seq(Records)
      /\ \A i \in DOMAIN Tail(x.batch) : /\ i + 1 \in DOMAIN x.batch /\ i + 1 # 1 /\ i \in Nat
                                         /\ Tail(x.batch)[i] = x.batch[i + 1]
      /\ \A q : q \in Range(x.batch) <=> q = r \/ q \in Range(Tail(x.batch))
  BY <1>2, <1>3, TailIs
<1>5. r \notin Range(Tail(x.batch)) /\ r # x.rec
  BY <1>1, <1>4 DEF Phased, Range
<1>6. /\ y.pc = "unwind" /\ y.op = x.op /\ y.rec = x.rec /\ y.dests = x.dests /\ y.left = x.left
      /\ y.batch = Tail(x.batch) /\ TaskShape(y) /\ DOMAIN task' = Threads
      /\ \A s \in Threads \ {t} : task'[s] = task[s]
  BY <1>1, <1>2, <1>4 DEF TaskShape
<1>7. /\ recLock' \in [Records -> Threads \cup {None}]
      /\ \A q \in Records : recLock'[q] = IF q = r THEN None ELSE recLock[q]
      /\ recLock[r] = t /\ pins[r] = 0
  <2>1. recLock[r] = t
    BY <1>1, <1>4 DEF Locks
  <2> QED BY <1>1, <1>2, <1>3, <1>4, <2>1, Constants
<1> DEFINE gone == ~InUse(r)
<1>8. Destroy(r, gone) /\ gone \in BOOLEAN
  BY <1>3 DEF UnwindRecord, InUse
<1> HIDE DEF y
<1>9. /\ InUse(r)' <=> InUse(r)
      /\ \A q \in Records : InUse(q)' <=> InUse(q)
      /\ \A q : q # r => (q \in Batched' <=> q \in Batched)
      /\ r \in Batched /\ r \notin Batched'
  <2>1. \A s \in Threads : s # t => task'[s].batch = task[s].batch /\ r \notin Range(task[s].batch)
    <3>1. r \in Range(x.batch)
      BY <1>4
    <3> QED BY <1>6, <3>1, BatchesApart
  <2>2. task'[t].batch = Tail(x.batch)
    BY <1>6 DEF y
  <2>3. \A q \in Records : InUse(q)' <=> InUse(q)
    BY <1>2 DEF InUse
  <2>4. \A q : q # r => (q \in Batched' <=> q \in Batched)
    BY <2>1, <2>2, <1>4, BatchedIs
  <2>5. r \in Batched /\ r \notin Batched'
    BY <2>1, <2>2, <1>4, <1>5, BatchedIs
  <2> QED BY <1>4, <2>3, <2>4, <2>5
<1>10. PICK o : Dropped(r, gone, o)
  BY <1>4, <1>8, DestroyStep
<1> DEFINE R == IF gone THEN {r} ELSE {}
<1>11. Frame(t, R, o)
  <2>1. \A q \in Records : q \notin R => q # r \/ ~gone
    OBVIOUS
  <2>2. \A s \in Threads \ {t} : task[s].rec # None => task[s].rec \in held
    BY Mine
  <2>3. \A s \in Threads \ {t} : \A q \in R : q \notin Relies(task[s])
    <3> SUFFICES ASSUME gone, NEW s \in Threads \ {t} PROVE r \notin Relies(task[s])
      OBVIOUS
    <3>1. task[s].rec # r
      BY <1>4, <2>2, Constants DEF InUse
    <3>2. recLock[r] # s
      BY <1>7
    <3> QED BY <1>4, <3>1, <3>2, FreeRecord
  <2>4. \A q \in Records : \/ recLock'[q] = recLock[q]
                           \/ recLock'[q] \in {t, None} /\ recLock[q] \in {t, None}
    BY <1>7
  <2> QED BY <1>2, <1>6, <1>10, <2>1, <2>2, <2>3, <2>4 DEF Frame, Dropped, Rests
<1>12. HostTypes' /\ DiskInv'
  BY <1>2, <1>6, <1>7, <1>10 DEF HostInv, HostTypes, Dropped
<1>13. Apart'
  <2>1. \A q \in Records : disk'[q] \in {disk[q], None}
    BY <1>10 DEF Dropped
  <2>2. \A s \in Threads : task'[s].rec = task[s].rec /\ task'[s].dests = task[s].dests
    BY <1>6 DEF y
  <2> QED BY <2>1, <2>2, ApartKept
<1>14. TaskInv(t)'
  <2>1. Phased(y)
    <3>1. \A i, j \in DOMAIN y.batch : y.batch[i] = y.batch[j] => i = j
      BY <1>1, <1>4, <1>6 DEF Phased
    <3>2. \A i \in DOMAIN y.batch : y.batch[i] # y.rec
      BY <1>1, <1>4, <1>6 DEF Phased
    <3> QED BY <1>1, <1>2, <1>6, <3>1, <3>2 DEF Phased, Choosing
  <2>2. LocksSafe(t)'
    <3>1. \A q \in Records : q \in Locks(y) <=> q \in Locks(x) /\ q # r
      BY <1>2, <1>4, <1>5, <1>6 DEF Locks
    <3>2. policy' = t <=> y.pc \in Locking
      BY <1>1, <1>2, <1>6 DEF Locking
    <3>3. y.pc # "scan"
      BY <1>6
    <3>4. \A q \in Records : recLock'[q] = t <=> q \in Locks(y)
      BY <1>1, <1>7, <3>1, Constants
    <3> QED BY <3>2, <3>3, <3>4 DEF LocksSafe, y
  <2>3. TaskSafe(t)'
    <3>1. y.rec # None => y.rec \in held' /\ (y.pc # "lock" => disk'[y.rec] # None)
      BY <1>1, <1>2, <1>5, <1>6, <1>10 DEF Dropped
    <3>2. \A i \in DOMAIN y.dests : \E z \in UsedRanges' : z.off = y.dests[i]
      BY <1>2, <1>6
    <3>3. y = task'[t] /\ y.pc # "install" /\ y.pc \notin Choosing
      BY <1>6 DEF Choosing, y
    <3> QED BY <3>1, <3>2, <3>3, TaskSafeNext
  <2> QED BY <1>6, <2>1, <2>2, <2>3 DEF TaskInv, y
<1>15. \A q \in Records : recLock'[q] # None => pins'[q] = 0
  BY <1>1, <1>2, <1>7
<1>16. \A q \in Records : q # r => RecordSafe(q)' /\ Visible(q)' = Visible(q)
  <2>1. \A q \in Records : q # r => (Alive(q)' <=> Alive(q))
    BY <1>2, <1>9 DEF Alive
  <2>2. \A q \in Records : q # r => q \notin R
    OBVIOUS
  <2> HIDE DEF R
  <2> QED BY <1>9, <1>11, <1>15, <2>1, <2>2, FrameKeeps
<1>17. RecordSafe(r)' /\ Visible(r)' = Visible(r)
  <2>1. CASE gone
    <3>1. ~Alive(r)' /\ ~InUse(r)'
      BY <2>1, <1>9 DEF Alive, InUse
    <3>2. ram'[r] = None /\ disk'[r] = None
      BY <1>10, <2>1 DEF Dropped
    <3>3. RecordSafe(r)'
      BY <1>4, <1>15, <3>1, <3>2 DEF RecordSafe
    <3> QED BY <3>1, <3>3, <2>1 DEF Visible, InUse
  <2>2. CASE ~gone
    <3>1. Alive(r)' <=> Alive(r)
      BY <2>2, <1>9 DEF Alive, InUse
    <3> QED BY <2>2, <3>1, <1>4, <1>9, <1>11, <1>15, FrameKeeps
  <2> QED BY <2>1, <2>2
<1>18. \A q \in Records : RecordSafe(q)' /\ Visible(q)' = Visible(q)
  BY <1>16, <1>17
<1>19. UNCHANGED KV!recordVars
  BY <1>2, <1>18, NoChange
<1>20. LeasesHold
  <2>1. ASSUME NEW q \in Records, pins[q] > 0 PROVE disk'[q] = disk[q] /\ ram'[q] = ram[q]
    <3>1. q = r => ~gone
      BY <2>1 DEF InUse
    <3> QED BY <1>10, <3>1 DEF Dropped
  <2> QED BY <2>1 DEF LeasesHold
<1> QED BY <1>11, <1>12, <1>13, <1>14, <1>18, <1>19, <1>20, FramedStep


\* Writing the destination of one record spares every other extent.
LEMMA WrittenSpares ==
    ASSUME HostInv, NEW t \in Threads, task[t].pc = "write",
           NEW i \in DOMAIN task[t].batch, NEW k \in 0 .. Size[task[t].batch[i]],
           cells' = Written(t, i, k), UNCHANGED diskVars
    PROVE  /\ UsedRanges' = UsedRanges /\ DiskInv'
           /\ Spares(task[t].dests[i])
           /\ cells' \in [Cells -> Values \cup {None}]
           /\ \A c \in task[t].dests[i] .. task[t].dests[i] + k - 1 : cells'[c] = ram[task[t].batch[i]]
<1> DEFINE x == task[t]
<1>1. UNCHANGED <<ranges, freeRanges, diskCharged>>
  BY DEF diskVars
<1>2. UsedRanges' = UsedRanges
  BY <1>1 DEF UsedRanges
<1>3. DiskInv /\ DiskInv'
  BY <1>1 DEF HostInv, DiskInv, DiskTypeOK, Disjoint, Covered, Coalesced, IndexInSync,
              ChargeIsUsedCells, UsedCells, UsedRanges, CellsOf, End, Key, Cells
<1>4. PICK q \in Records : q = x.batch[i]
  BY Mine DEF TaskShape
<1>5. PICK d \in Nat : d = x.dests[i]
  BY Mine, Constants DEF TaskShape, Phased, Choosing
<1>6. Holds(d, Size[q])
  BY <1>4, <1>5 DEF HostInv, TaskInv, TaskSafe, Choosing
<1>7. PICK e \in UsedRanges : e.off = d /\ e.bytes = Size[q]
  BY <1>6 DEF Holds
<1>8. PICK v : v = ram[q]
  OBVIOUS
<1>9. cells' = [c \in Cells |-> IF c \in d .. d + k - 1 THEN v ELSE cells[c]]
  BY <1>4, <1>5, <1>8, Zenon DEF Written
<1>10. /\ cells \in [Cells -> Values \cup {None}] /\ v \in Values \cup {None}
       /\ Size[q] \in Nat /\ k \in 0 .. Size[q]
  BY <1>4, <1>8, Constants DEF HostInv, HostTypes
<1>11. /\ CellsOf(e) = d .. d + Size[q] - 1 /\ CellsOf(e) \subseteq Cells
       /\ \A c \in d .. d + k - 1 : c \in CellsOf(e)
  BY <1>3, <1>7, <1>10, UsedFacts
<1>12. \A f \in UsedRanges : f.off # d => CellsOf(f) \subseteq Cells /\ CellsOf(e) \cap CellsOf(f) = {}
  BY <1>3, <1>7, UsedFacts
<1>13. Spares(d)
  BY <1>2, <1>9, <1>11, <1>12 DEF Spares
<1>14. cells' \in [Cells -> Values \cup {None}]
  BY <1>9, <1>10
<1>15. \A c \in d .. d + k - 1 : cells'[c] = v
  BY <1>9, <1>11
<1> QED BY <1>2, <1>3, <1>4, <1>5, <1>8, <1>13, <1>14, <1>15

\* A write of k cells to the destination of item i, whole unless the thread
\* goes on to abort; y is the next value of its task.
Wrote(t, i, k, y) ==
    /\ task[t].pc = "write" /\ i = task[t].next /\ k \in 0 .. Size[task[t].batch[i]]
    /\ cells' = Written(t, i, k) /\ UNCHANGED <<diskVars, lockVars, catVars, recVars>>
    /\ DOMAIN task' = Threads /\ \A s \in Threads \ {t} : task'[s] = task[s]
    /\ y = task'[t] /\ TaskShape(y) /\ Phased(y)
    /\ y.op = task[t].op /\ y.rec = task[t].rec /\ y.batch = task[t].batch /\ y.dests = task[t].dests
    /\ \/ y.pc = "abort"
       \/ /\ k = Size[task[t].batch[i]]
          /\ \/ y.pc = "publish" /\ i = Len(task[t].batch)
             \/ y.pc = "write" /\ y.next = i + 1

LEMMA WritingStep ==
    ASSUME HostInv, NEW t \in Threads, NEW i, NEW k, NEW y, Wrote(t, i, k, y)
    PROVE  Sound
<1> DEFINE x == task[t]
<1>1. /\ TaskShape(x) /\ Phased(x)
      /\ policy = t <=> x.pc \in Locking
      /\ \A r \in Records : recLock[r] = t <=> r \in Locks(x)
      /\ x.rec # None => x.rec \in held /\ x.rec \in Records /\ (x.pc # "lock" => disk[x.rec] # None)
      /\ \A r \in Records : recLock[r] # None => pins[r] = 0
  BY Mine
<1>2. /\ policy' = policy /\ recLock' = recLock /\ residents' = residents
      /\ held' = held /\ pins' = pins /\ readers' = readers /\ sealed' = sealed
      /\ ram' = ram /\ disk' = disk
  BY DEF Wrote, lockVars, catVars, recVars
<1>3. /\ x.pc = "write" /\ i = x.next /\ k \in 0 .. Size[x.batch[i]]
      /\ cells' = Written(t, i, k) /\ UNCHANGED diskVars
  BY DEF Wrote
<1>4. DOMAIN task' = Threads /\ \A s \in Threads \ {t} : task'[s] = task[s]
  BY DEF Wrote
<1>5. y = task'[t] /\ TaskShape(y) /\ Phased(y) /\ y.pc \in {"abort", "publish", "write"}
  BY DEF Wrote
<1>6. y.rec = x.rec /\ y.batch = x.batch /\ y.dests = x.dests
  BY DEF Wrote
<1>7. /\ i \in DOMAIN x.batch /\ i \in Nat /\ DOMAIN x.dests = DOMAIN x.batch
      /\ x.batch \in Seq(Records) /\ x.dests \in Seq(Cells)
  BY <1>1, <1>3 DEF Phased, Choosing, TaskShape
<1>8. PICK d : d = x.dests[i]
  OBVIOUS
<1>9. PICK q \in Records : q = x.batch[i]
  BY <1>7
<1>10. /\ UsedRanges' = UsedRanges /\ DiskInv' /\ Spares(d)
       /\ cells' \in [Cells -> Values \cup {None}]
       /\ \A c \in d .. d + k - 1 : cells'[c] = ram[q]
  BY <1>3, <1>7, <1>8, <1>9, WrittenSpares
<1>11. Apart /\ DiskInv /\ TaskSafe(t)
  BY DEF HostInv, TaskInv
<1>12. Frame(t, {}, d)
  <2>1. \A s \in Threads \ {t} : \A j \in DOMAIN task[s].dests : task[s].dests[j] # d
    BY <1>7, <1>8, <1>11 DEF Apart
  <2>2. \A r \in Records : disk[r] # d
    BY <1>7, <1>8, <1>11 DEF Apart
  <2>3. \A s \in Threads \ {t} : task[s].rec # None => task[s].rec \in held'
    BY <1>2, Mine
  <2> QED BY <1>2, <1>4, <1>10, <2>1, <2>2, <2>3 DEF Frame, Rests
<1>13. HostTypes'
  BY <1>2, <1>4, <1>10 DEF HostInv, HostTypes
<1>14. \A s \in Threads : /\ task'[s].rec = task[s].rec /\ task'[s].dests = task[s].dests
                          /\ task'[s].batch = task[s].batch
  BY <1>4, <1>5, <1>6
<1>15. Apart'
  BY <1>2, <1>14, ApartKept
<1>16. LocksSafe(t)'
  <2>1. y.pc # "lock" /\ y.pc # "scan" /\ y.pc \notin Locking /\ policy # t
    BY <1>1, <1>3, <1>5 DEF Locking
  <2>2. \A r \in Records : r \in Locks(y) <=> r \in Locks(x)
    BY <1>3, <1>6, <2>1 DEF Locks
  <2> QED BY <1>1, <1>2, <1>5, <2>1, <2>2 DEF LocksSafe
\* The items up to the one written are whole, unless the write failed.
<1>17. PICK b, ds : b = x.batch /\ ds = x.dests
  OBVIOUS
<1>18. ASSUME NEW j \in DOMAIN b
       PROVE  /\ b[j] \in sealed' /\ ram'[b[j]] # None
              /\ \E z \in UsedRanges' : z.off = ds[j] /\ z.bytes = Size[b[j]]
              /\ y.pc = "publish" \/ (y.pc = "write" /\ j < y.next) =>
                   \A c \in ds[j] .. ds[j] + Size[b[j]] - 1 : cells'[c] = ram'[b[j]]
  <2>1. /\ b[j] \in sealed /\ ram[b[j]] # None
        /\ Holds(ds[j], Size[b[j]])
        /\ j < i => Filled(ds[j], Size[b[j]], ram[b[j]])
    BY <1>3, <1>11, <1>17 DEF TaskSafe, Choosing
  <2>2. PICK o, n, v : o = ds[j] /\ n = Size[b[j]] /\ v = ram[b[j]]
    OBVIOUS
  <2>3. ASSUME y.pc = "publish" \/ (y.pc = "write" /\ j < y.next)
        PROVE  \A c \in o .. o + n - 1 : cells'[c] = v
    <3>1. /\ k = Size[x.batch[i]]
          /\ \/ y.pc = "publish" /\ i = Len(x.batch)
             \/ y.pc = "write" /\ y.next = i + 1
      BY <2>3 DEF Wrote
    <3>2. j \in Nat /\ j <= Len(x.batch)
      BY <1>7, <1>17
    <3>3. j = i \/ j < i
      BY <1>7, <2>3, <3>1, <3>2
    <3>4. CASE j = i
      BY <1>8, <1>9, <1>10, <1>17, <2>2, <3>1, <3>4
    <3>5. CASE j < i
      <4>1. o # d
        <5>1. j \in DOMAIN x.dests /\ i \in DOMAIN x.dests /\ j # i
          BY <1>7, <1>17, <3>2, <3>5
        <5> QED BY <1>8, <1>11, <1>17, <2>2, <5>1 DEF Apart
      <4>2. Holds(o, n) /\ Filled(o, n, v)
        BY <2>1, <2>2, <3>5
      <4>3. \A c \in o .. o + n - 1 : cells'[c] = cells[c]
        BY <1>10, <1>11, <4>1, <4>2, HoldsKept
      <4> QED BY <4>2, <4>3 DEF Filled
    <3> QED BY <3>3, <3>4, <3>5
  <2>4. b[j] \in sealed' /\ ram'[b[j]] # None
    BY <1>2, <2>1
  <2>5. \E z \in UsedRanges' : z.off = ds[j] /\ z.bytes = Size[b[j]]
    BY <1>10, <2>1 DEF Holds
  <2> QED BY <1>2, <2>2, <2>3, <2>4, <2>5
<1>19. TaskSafe(t)'
  <2>1. y.rec # None => y.rec \in held' /\ (y.pc # "lock" => disk'[y.rec] # None)
    BY <1>1, <1>2, <1>3, <1>6
  <2>2. \A j \in DOMAIN y.dests : \E z \in UsedRanges' : z.off = y.dests[j]
    BY <1>6, <1>10, <1>11 DEF TaskSafe
  <2>3. y.batch = b /\ y.dests = ds
    BY <1>6, <1>17
  <2>4. \A j \in DOMAIN y.batch :
             /\ y.batch[j] \in sealed' /\ ram'[y.batch[j]] # None
             /\ \E z \in UsedRanges' : z.off = y.dests[j] /\ z.bytes = Size[y.batch[j]]
             /\ y.pc = "publish" \/ (y.pc = "write" /\ j < y.next) =>
                  \A c \in y.dests[j] .. y.dests[j] + Size[y.batch[j]] - 1 : cells'[c] = ram'[y.batch[j]]
    BY <1>18, <2>3
  <2>5. y = task'[t] /\ y.pc # "install"
    BY <1>5
  <2> QED BY <2>1, <2>2, <2>4, <2>5, TaskSafeNext
<1>20. TaskInv(t)'
  BY <1>5, <1>16, <1>19 DEF TaskInv
<1>21. ASSUME NEW r \in Records PROVE RecordSafe(r)' /\ Visible(r)' = Visible(r)
  <2>1. /\ Alive(r)' <=> Alive(r)
        /\ InUse(r)' <=> InUse(r)
        /\ recLock'[r] # None => pins'[r] = 0
    BY <1>1, <1>2, <1>14, BatchedKept DEF Alive, InUse
  <2> QED BY <1>12, <2>1, FrameKeeps
<1>22. UNCHANGED KV!recordVars
  BY <1>2, <1>21, NoChange
<1>23. LeasesHold
  BY <1>2 DEF LeasesHold
<1> QED BY <1>10, <1>12, <1>13, <1>15, <1>20, <1>21, <1>22, <1>23, FramedStep

LEMMA WriteItemStep ==
    ASSUME HostInv, NEW t \in Threads, WriteItem(t)
    PROVE  Sound
<1> DEFINE x == task[t]
           y == task'[t]
           k == Size[x.batch[x.next]]
<1>1. /\ TaskShape(x) /\ Phased(x) /\ DOMAIN task = Threads /\ x.pc = "write"
  BY Mine DEF WriteItem
<1>2. /\ cells' = Written(t, x.next, k)
      /\ UNCHANGED <<diskVars, lockVars, catVars, recVars>>
  BY DEF WriteItem
<1>3. x.next \in DOMAIN x.batch /\ x.batch \in Seq(Records) /\ k \in 0 .. k
  BY <1>1, Constants DEF Phased, TaskShape
<1>4. CASE x.next < Len(x.batch)
  <2>1. task' = [task EXCEPT ![t].next = x.next + 1]
    BY <1>4 DEF WriteItem
  <2>1a. x.next + 1 \in DOMAIN x.batch /\ x.next + 1 \in Nat
    BY <1>3, <1>4
  <2>1b. PICK n \in Nat : n = x.next + 1
    BY <2>1a
  <2>2. /\ y.op = x.op /\ y.rec = x.rec /\ y.batch = x.batch /\ y.dests = x.dests /\ y.pc = "write"
        /\ y.next = x.next + 1 /\ y.next \in DOMAIN x.batch
        /\ TaskShape(y) /\ DOMAIN task' = Threads /\ \A s \in Threads \ {t} : task'[s] = task[s]
    <3>1. task' = [task EXCEPT ![t].next = n]
      BY <2>1, <2>1b
    <3> QED BY <1>1, <2>1a, <2>1b, <3>1 DEF TaskShape
  <2> HIDE DEF y
  <2>3. Phased(y)
    BY <1>1, <2>2 DEF Phased, Choosing
  <2>4. Wrote(t, x.next, k, y)
    BY <1>1, <1>2, <1>3, <2>2, <2>3 DEF Wrote, y
  <2> QED BY <2>4, WritingStep
<1>5. CASE ~(x.next < Len(x.batch))
  <2>1. task' = [task EXCEPT ![t].pc = "publish"] /\ x.next = Len(x.batch)
    BY <1>3, <1>5 DEF WriteItem
  <2>2. /\ y.op = x.op /\ y.rec = x.rec /\ y.batch = x.batch /\ y.dests = x.dests /\ y.pc = "publish"
        /\ TaskShape(y) /\ DOMAIN task' = Threads /\ \A s \in Threads \ {t} : task'[s] = task[s]
    BY <1>1, <2>1 DEF TaskShape, Pcs
  <2> HIDE DEF y
  <2>3. Phased(y)
    BY <1>1, <2>2 DEF Phased, Choosing
  <2>4. Wrote(t, x.next, k, y)
    BY <1>1, <1>2, <1>3, <2>1, <2>2, <2>3 DEF Wrote, y
  <2> QED BY <2>4, WritingStep
<1> QED BY <1>4, <1>5

LEMMA WriteFailsStep ==
    ASSUME HostInv, NEW t \in Threads, WriteFails(t)
    PROVE  Sound
<1> DEFINE x == task[t]
           y == task'[t]
<1>1. /\ TaskShape(x) /\ Phased(x) /\ DOMAIN task = Threads /\ x.pc = "write"
  BY Mine DEF WriteFails
<1>2. PICK k \in 0 .. Size[x.batch[x.next]] - 1 : cells' = Written(t, x.next, k)
  BY DEF WriteFails
<1>3. x.next \in DOMAIN x.batch /\ x.batch \in Seq(Records) /\ Size[x.batch[x.next]] \in Nat
  BY <1>1, Constants DEF Phased, TaskShape
<1>4. k \in 0 .. Size[x.batch[x.next]]
  BY <1>2, <1>3
<1>5. UNCHANGED <<diskVars, lockVars, catVars, recVars>> /\ task' = [task EXCEPT ![t].pc = "abort"]
  BY DEF WriteFails
<1>6. /\ y.op = x.op /\ y.rec = x.rec /\ y.batch = x.batch /\ y.dests = x.dests /\ y.pc = "abort"
      /\ TaskShape(y) /\ DOMAIN task' = Threads /\ \A s \in Threads \ {t} : task'[s] = task[s]
  BY <1>1, <1>5 DEF TaskShape, Pcs
<1> HIDE DEF y
<1>7. Phased(y)
  BY <1>1, <1>6 DEF Phased, Choosing
<1>8. Wrote(t, x.next, k, y)
  BY <1>1, <1>2, <1>4, <1>5, <1>6, <1>7 DEF Wrote, y
<1> QED BY <1>8, WritingStep

\* A sequence with one more element.
LEMMA AppendIs ==
    ASSUME NEW S, NEW s \in Seq(S), NEW e \in S
    PROVE  /\ Append(s, e) \in Seq(S) /\ Len(s) \in Nat /\ DOMAIN s = 1 .. Len(s)
           /\ DOMAIN Append(s, e) = 1 .. Len(s) + 1
           /\ \A i \in DOMAIN s : Append(s, e)[i] = s[i]
           /\ Append(s, e)[Len(s) + 1] = e
           /\ \A i \in DOMAIN Append(s, e) : i \in DOMAIN s \/ i = Len(s) + 1
           /\ \A d : d \in Range(Append(s, e)) <=> d = e \/ d \in Range(s)
<1>1. /\ Append(s, e) \in Seq(S) /\ Len(s) \in Nat /\ DOMAIN s = 1 .. Len(s)
      /\ DOMAIN Append(s, e) = 1 .. Len(s) + 1
      /\ \A i \in DOMAIN s : Append(s, e)[i] = s[i] /\ i \in DOMAIN Append(s, e)
      /\ Append(s, e)[Len(s) + 1] = e /\ Len(s) + 1 \in DOMAIN Append(s, e)
      /\ \A i \in DOMAIN Append(s, e) : i \in DOMAIN s \/ i = Len(s) + 1
  OBVIOUS
<1>2. PICK a : a = Append(s, e)
  OBVIOUS
<1>3. \A d : d \in Range(a) <=> d = e \/ d \in Range(s)
  BY <1>1, <1>2 DEF Range
<1> QED BY <1>1, <1>2, <1>3

LEMMA ScanTakeStep ==
    ASSUME HostInv, NEW t \in Threads, ScanTake(t)
    PROVE  Sound
<1> DEFINE x == task[t]
           y == task'[t]
<1>1. /\ TaskShape(x) /\ Phased(x) /\ DOMAIN task = Threads /\ policy = t
      /\ residents \in Seq(Records) /\ x.left <= Len(residents)
      /\ \A q \in Records : recLock[q] = t <=> q \in Locks(x)
      /\ x.rec # None => x.rec \in held /\ x.rec \in Records /\ (x.pc # "lock" => disk[x.rec] # None)
      /\ recLock \in [Records -> Threads \cup {None}]
      /\ \A q \in Records : recLock[q] # None => pins[q] = 0
  BY Mine DEF ScanTake, Locking
<1>2. PICK r : r = Head(residents)
  OBVIOUS
<1>3. PICK d : d = ReservedAt(Size[r])
  OBVIOUS
<1>4. /\ x.pc = "scan" /\ x.left > 0 /\ x.left \in Nat /\ x.batch \in Seq(Records) /\ x.dests \in Seq(Cells)
      /\ Alive(r) /\ r # x.rec /\ recLock[r] = None /\ ram[r] # None /\ r \in sealed /\ pins[r] = 0
      /\ Reserve(Size[r])
      /\ recLock' = [recLock EXCEPT ![r] = t]
      /\ residents' = Rotated
      /\ UNCHANGED <<cells, policy, recVars>>
  BY <1>1, <1>2 DEF ScanTake, MayEvict, TaskShape
<1>5. /\ policy' = policy /\ held' = held /\ pins' = pins /\ readers' = readers
      /\ sealed' = sealed /\ ram' = ram /\ disk' = disk /\ cells' = cells
  BY <1>4 DEF recVars
<1>6. r \in Records /\ residents' \in Seq(Records) /\ Len(residents') = Len(residents)
  <2>1. Len(residents) > 0
    BY <1>1, <1>4
  <2> QED BY <1>1, <1>2, <1>4, <2>1, CatalogTurned
<1>7. PICK n \in Nat \ {0} : n = Size[r]
  BY <1>6, Constants
<1>8. /\ Apart /\ DiskInv /\ TaskSafe(t) /\ \A q \in Records : RecordSafe(q)
      /\ \A s \in Threads : TaskSafe(s) /\ TaskShape(task[s])
  BY DEF HostInv, TaskInv
<1>9. /\ \A o : Spares(o)
      /\ DiskInv' /\ d \in Cells
      /\ \A e \in UsedRanges : e.off # d
      /\ \E e \in UsedRanges' : e.off = d /\ e.bytes = n
  BY <1>3, <1>4, <1>5, <1>7, <1>8, ReserveSpares
<1>10. PICK b, ds : b = Append(x.batch, r) /\ ds = Append(x.dests, d)
  OBVIOUS
<1>11. PICK k \in Nat : k <= Len(residents) /\ task' = [task EXCEPT ![t].batch = b, ![t].dests = ds, ![t].left = k]
  <2>1. task' = [task EXCEPT ![t].batch = b, ![t].dests = ds,
                   ![t].left = IF CellsSum(b) >= x.room \/ Len(b) = MaxBatch THEN 0 ELSE x.left - 1]
    BY <1>1, <1>2, <1>3, <1>10 DEF ScanTake
  <2>2. x.left - 1 \in Nat /\ x.left - 1 <= Len(residents) /\ 0 \in Nat /\ 0 <= Len(residents)
    BY <1>1, <1>4
  <2>3. CASE CellsSum(b) >= x.room \/ Len(b) = MaxBatch
    BY <2>1, <2>2, <2>3
  <2>4. CASE ~(CellsSum(b) >= x.room \/ Len(b) = MaxBatch)
    BY <2>1, <2>2, <2>4
  <2> QED BY <2>3, <2>4
<1>12. PICK m \in Nat : m = Len(x.batch)
  BY <1>4
<1>13. /\ b \in Seq(Records) /\ DOMAIN x.batch = 1 .. m /\ DOMAIN b = 1 .. m + 1
       /\ \A i \in DOMAIN x.batch : b[i] = x.batch[i]
       /\ b[m + 1] = r
       /\ \A i \in DOMAIN b : i \in DOMAIN x.batch \/ i = m + 1
       /\ \A q : q \in Range(b) <=> q = r \/ q \in Range(x.batch)
  BY <1>4, <1>6, <1>10, <1>12, AppendIs
<1>14. /\ ds \in Seq(Cells) /\ DOMAIN x.dests = 1 .. m /\ DOMAIN ds = 1 .. m + 1
       /\ \A i \in DOMAIN x.dests : ds[i] = x.dests[i]
       /\ ds[m + 1] = d
       /\ \A i \in DOMAIN ds : i \in DOMAIN x.dests \/ i = m + 1
  <2>1. DOMAIN x.dests = DOMAIN x.batch
    BY <1>1, <1>4 DEF Phased, Choosing
  <2>2. Len(x.dests) = m
    BY <1>4, <1>13, <2>1
  <2> QED BY <1>4, <1>9, <1>10, <2>2, AppendIs
<1>15. /\ y.pc = "scan" /\ y.op = x.op /\ y.rec = x.rec /\ y.batch = b /\ y.dests = ds /\ y.left = k
       /\ TaskShape(y) /\ DOMAIN task' = Threads
       /\ \A s \in Threads \ {t} : task'[s] = task[s]
  <2>1. y = [x EXCEPT !.batch = b, !.dests = ds, !.left = k] /\ DOMAIN task' = Threads
    BY <1>1, <1>11
  <2>2. /\ y.pc = "scan" /\ y.op = x.op /\ y.rec = x.rec /\ y.batch = b /\ y.dests = ds /\ y.left = k
        /\ TaskShape(y)
    <3>1. /\ TaskShape(x) /\ x.pc = "scan"
          /\ b \in Seq(Records) /\ ds \in Seq(Cells) /\ k \in Nat
      BY <1>1, <1>4, <1>13, <1>14
    <3> QED BY <2>1, <3>1 DEF TaskShape
  <2>3. \A s \in Threads \ {t} : task'[s] = task[s]
    BY <1>1, <1>11
  <2> QED BY <2>1, <2>2, <2>3
<1> HIDE DEF y
<1>16. r \notin Range(x.batch)
  <2>1. r \notin Locks(x)
    BY <1>1, <1>4, <1>6, Constants
  <2> QED BY <1>6, <2>1 DEF Locks
<1>17. /\ recLock' \in [Records -> Threads \cup {None}]
       /\ \A q \in Records : recLock'[q] = IF q = r THEN t ELSE recLock[q]
  BY <1>1, <1>4, <1>6
<1>18. Frame(t, {}, None)
  <2>1. \A s \in Threads : \A i \in DOMAIN task[s].dests : task[s].dests[i] # None
    BY <1>8, Constants DEF TaskShape
  <2>2. \A s \in Threads \ {t} : task[s].rec # None => task[s].rec \in held'
    BY <1>5, Mine
  <2>3. \A q \in Records : \/ recLock'[q] = recLock[q]
                           \/ recLock'[q] \in {t, None} /\ recLock[q] \in {t, None}
    BY <1>4, <1>17
  <2> QED BY <1>1, <1>5, <1>9, <1>15, <2>1, <2>2, <2>3 DEF Frame, Rests
<1>19. HostTypes'
  BY <1>1, <1>5, <1>6, <1>15, <1>17 DEF HostInv, HostTypes
<1>20. Apart'
  <2>1. \A s \in Threads : task'[s].rec = task[s].rec
    BY <1>15 DEF y
  <2>2. \A s \in Threads : \A i \in DOMAIN task'[s].dests :
            \/ i \in DOMAIN task[s].dests /\ task'[s].dests[i] = task[s].dests[i]
            \/ s = t /\ i = m + 1 /\ task'[s].dests[i] = d
    BY <1>14, <1>15 DEF y
  <2>3. \A s \in Threads : \A i \in DOMAIN task[s].dests : task[s].dests[i] # d
    BY <1>8, <1>9 DEF TaskSafe
  <2>4. \A q \in Records : disk[q] # d
    <3>1. \A q \in Records : disk[q] # None => \E e \in UsedRanges : e.off = disk[q]
      BY <1>8 DEF RecordSafe, Holds
    <3> QED BY <1>9, <3>1, Constants
  <2>5. \A q \in Records, s \in Threads : \A i \in DOMAIN task'[s].dests : disk'[q] # task'[s].dests[i]
    BY <1>5, <1>8, <2>2, <2>4 DEF Apart
  <2>6. \A s, u \in Threads : \A i \in DOMAIN task'[s].dests, j \in DOMAIN task'[u].dests :
            task'[s].dests[i] = task'[u].dests[j] => s = u /\ i = j
    BY <1>8, <2>2, <2>3 DEF Apart
  <2> QED BY <1>5, <1>8, <2>1, <2>5, <2>6 DEF Apart
<1>21. TaskInv(t)'
  <2>1. Phased(y)
    <3>1. \A i, j \in DOMAIN b : b[i] = b[j] => i = j
      BY <1>1, <1>13, <1>16 DEF Phased, Range
    <3>2. \A i \in DOMAIN b : b[i] # x.rec
      BY <1>1, <1>4, <1>13 DEF Phased
    <3> QED BY <1>1, <1>4, <1>13, <1>14, <1>15, <3>1, <3>2 DEF Phased, Choosing
  <2>2. LocksSafe(t)'
    <3>1. \A q \in Records : q \in Locks(y) <=> q \in Locks(x) \/ q = r
      BY <1>4, <1>13, <1>15 DEF Locks
    <3>2. policy' = t <=> y.pc \in Locking
      BY <1>1, <1>5, <1>15 DEF Locking
    <3>3. y.left <= Len(residents')
      BY <1>6, <1>11, <1>15
    <3>4. \A q \in Records : recLock'[q] = t <=> q \in Locks(y)
      BY <1>1, <1>17, <3>1
    <3> QED BY <3>2, <3>3, <3>4 DEF LocksSafe, y
  <2>3. TaskSafe(t)'
    <3>1. y.rec # None => y.rec \in held' /\ (y.pc # "lock" => disk'[y.rec] # None)
      BY <1>1, <1>4, <1>5, <1>15
    <3>2. ASSUME NEW i \in DOMAIN y.dests PROVE \E z \in UsedRanges' : z.off = y.dests[i]
      <4>1. CASE i \in DOMAIN x.dests
        <5>1. \E z \in UsedRanges : z.off = x.dests[i]
          BY <1>8, <4>1 DEF TaskSafe
        <5>2. \E z \in UsedRanges' : z.off = x.dests[i]
          BY <1>9, <5>1 DEF Spares
        <5> QED BY <1>14, <1>15, <4>1, <5>2
      <4>2. CASE i = m + 1
        BY <1>9, <1>14, <1>15, <4>2
      <4> QED BY <1>14, <1>15, <3>2, <4>1, <4>2
    <3>3. ASSUME NEW i \in DOMAIN y.batch
          PROVE  /\ y.batch[i] \in sealed' /\ ram'[y.batch[i]] # None
                 /\ \E z \in UsedRanges' : z.off = y.dests[i] /\ z.bytes = Size[y.batch[i]]
      <4>1. CASE i \in DOMAIN x.batch
        <5>1. /\ x.batch[i] \in sealed /\ ram[x.batch[i]] # None
              /\ \E z \in UsedRanges : z.off = x.dests[i] /\ z.bytes = Size[x.batch[i]]
          BY <1>4, <1>8, <4>1 DEF TaskSafe, Choosing, Holds
        <5>2. \E z \in UsedRanges' : z.off = x.dests[i] /\ z.bytes = Size[x.batch[i]]
          <6>1. PICK z \in UsedRanges : z.off = x.dests[i] /\ z.bytes = Size[x.batch[i]]
            BY <5>1
          <6>2. z.off \in Cells
            BY <1>8, UsedFacts
          <6> QED BY <1>9, <6>1, <6>2, Constants DEF Spares
        <5>3. i \in DOMAIN x.dests /\ y.batch[i] = x.batch[i] /\ y.dests[i] = x.dests[i]
          BY <1>13, <1>14, <1>15, <4>1
        <5> QED BY <1>5, <5>1, <5>2, <5>3
      <4>2. CASE i = m + 1
        BY <1>4, <1>5, <1>7, <1>9, <1>13, <1>14, <1>15, <4>2
      <4> QED BY <1>13, <1>15, <3>3, <4>1, <4>2
    <3>4. y = task'[t] /\ y.pc # "install" /\ y.pc # "publish" /\ y.pc # "write"
      BY <1>15 DEF y
    <3> QED BY <3>1, <3>2, <3>3, <3>4, TaskSafeNext
  <2> QED BY <1>15, <2>1, <2>2, <2>3 DEF TaskInv, y
<1>22. ASSUME NEW q \in Records PROVE RecordSafe(q)' /\ Visible(q)' = Visible(q)
  <2>1. q \in Batched' <=> q = r \/ q \in Batched
    <3>1. /\ task'[t].batch = b
          /\ \A s \in Threads : s # t => task'[s].batch = task[s].batch
      BY <1>15 DEF y
    <3> QED BY <1>13, <3>1, BatchedIs
  <2>2. /\ Alive(q)' <=> Alive(q)
        /\ InUse(q)' <=> InUse(q)
        /\ recLock'[q] # None => pins'[q] = 0
    BY <1>1, <1>4, <1>5, <1>17, <2>1 DEF Alive, InUse
  <2> QED BY <1>18, <2>2, FrameKeeps
<1>23. UNCHANGED KV!recordVars
  BY <1>5, <1>22, NoChange
<1>24. LeasesHold
  BY <1>5 DEF LeasesHold
<1> QED BY <1>9, <1>18, <1>19, <1>20, <1>21, <1>22, <1>23, <1>24, FramedStep

LEMMA PublishStep ==
    ASSUME HostInv, NEW t \in Threads, Publish(t)
    PROVE  Sound
<1> DEFINE x == task[t]
           y == task'[t]
           R == Range(x.batch)
           at(q) == x.dests[CHOOSE i \in DOMAIN x.batch : x.batch[i] = q]
<1>1. /\ TaskShape(x) /\ Phased(x) /\ DOMAIN task = Threads /\ policy = None
      /\ residents \in Seq(Records)
      /\ \A q \in Records : recLock[q] = t <=> q \in Locks(x)
      /\ x.rec # None => x.rec \in held /\ x.rec \in Records /\ (x.pc # "lock" => disk[x.rec] # None)
      /\ recLock \in [Records -> Threads \cup {None}]
      /\ \A q \in Records : recLock[q] # None => pins[q] = 0
  BY Mine DEF Publish
<1>2. /\ x.pc = "publish" /\ policy' = t
      /\ ram' = [q \in Records |-> IF q \in R THEN None ELSE ram[q]]
      /\ disk' = [q \in Records |-> IF q \in R THEN at(q) ELSE disk[q]]
      /\ residents' = Kept(residents, Records \ R)
      /\ task' = Notifying(t, "unwind", <<>>, TRUE)
      /\ UNCHANGED <<diskVars, cells>>
      /\ recLock' = recLock /\ held' = held /\ pins' = pins /\ readers' = readers /\ sealed' = sealed
  BY DEF Publish
<1>3. /\ Apart /\ DiskInv /\ TaskSafe(t) /\ \A q \in Records : RecordSafe(q)
      /\ ram \in [Records -> Values \cup {None}] /\ disk \in [Records -> Cells \cup {None}]
  BY DEF HostInv, HostTypes, TaskInv
<1>4. /\ UsedRanges' = UsedRanges /\ DiskInv' /\ \A o : Spares(o) /\ cells' = cells
  BY <1>2, <1>3, NothingTouched
<1>5. /\ y.pc = "unwind" /\ y.op = x.op /\ y.rec = x.rec /\ y.batch = x.batch /\ y.dests = <<>>
      /\ TaskShape(y) /\ DOMAIN task' = Threads /\ \A s \in Threads \ {t} : Rests(s)
  <2>1. y = [x EXCEPT !.pc = "unwind", !.dests = <<>>, !.ok = TRUE]
    BY <1>2 DEF Notifying
  <2>2. DOMAIN task' = Threads /\ \A s \in Threads \ {t} : Rests(s)
    BY <1>2 DEF Notifying, Rests
  <2>3. PICK e \in Seq(Cells) : e = <<>>
    <3>1. <<>> \in Seq(Cells)
      OBVIOUS
    <3> QED BY <3>1, Zenon
  <2>4. y = [x EXCEPT !.pc = "unwind", !.dests = e, !.ok = TRUE]
    BY <2>1, <2>3
  <2>5. /\ y.pc = "unwind" /\ y.op = x.op /\ y.rec = x.rec /\ y.batch = x.batch /\ y.dests = e
        /\ TaskShape(y)
    BY <1>1, <2>4 DEF TaskShape, Pcs
  <2> QED BY <2>2, <2>3, <2>5
<1> HIDE DEF y
<1>6. x.batch \in Seq(Records) /\ x.dests \in Seq(Cells) /\ DOMAIN x.dests = DOMAIN x.batch
  BY <1>1, <1>2 DEF TaskShape, Phased, Choosing
\* What was written for a record of the batch.
<1>7. ASSUME NEW q \in R
      PROVE  /\ q \in Records /\ recLock[q] = t /\ pins[q] = 0 /\ q # x.rec
             /\ q \in sealed /\ ram[q] \in Values /\ q \in Batched
             /\ \E i \in DOMAIN x.dests : x.batch[i] = q /\ at(q) = x.dests[i]
             /\ at(q) \in Cells /\ Holds(at(q), Size[q]) /\ Filled(at(q), Size[q], ram[q])
  <2>1. \E i \in DOMAIN x.batch : x.batch[i] = q
    BY <1>7 DEF Range
  <2>2. PICK i \in DOMAIN x.batch : i = CHOOSE j \in DOMAIN x.batch : x.batch[j] = q
    BY <2>1
  <2>3. x.batch[i] = q /\ at(q) = x.dests[i]
    BY <2>1, <2>2
  <2> HIDE DEF at
  <2>4. /\ q \in Records /\ at(q) \in Cells /\ i \in DOMAIN x.dests
    BY <1>6, <2>3
  <2>5. recLock[q] = t /\ pins[q] = 0 /\ q # x.rec
    <3>1. q \in Locks(x)
      BY <1>7, <2>4 DEF Locks
    <3>2. q # x.rec
      BY <1>1, <2>3 DEF Phased
    <3> QED BY <1>1, <2>4, <3>1, <3>2, Constants
  <2>6. q \in sealed /\ ram[q] # None /\ Holds(at(q), Size[q]) /\ Filled(at(q), Size[q], ram[q])
    BY <1>2, <1>3, <2>3 DEF TaskSafe, Choosing
  <2>7. ram[q] \in Values
    BY <1>3, <2>4, <2>6
  <2>8. q \in Batched
    BY <1>7, BatchedIs
  <2> QED BY <2>3, <2>4, <2>5, <2>6, <2>7, <2>8
<1> HIDE DEF at
<1>8. /\ ram' \in [Records -> Values \cup {None}] /\ disk' \in [Records -> Cells \cup {None}]
      /\ \A q \in Records : q \notin R => ram'[q] = ram[q] /\ disk'[q] = disk[q]
      /\ \A q \in R : ram'[q] = None /\ disk'[q] = at(q)
  BY <1>2, <1>3, <1>7
<1>9. Frame(t, R, None)
  <2>1. \A s \in Threads : \A i \in DOMAIN task[s].dests : task[s].dests[i] # None
    BY Mine, Constants DEF TaskShape
  <2>2. \A s \in Threads \ {t} : task[s].rec # None => task[s].rec \in held'
    BY <1>2, Mine
  <2>3. \A s \in Threads \ {t} : policy' = s <=> policy = s
    BY <1>1, <1>2, Constants
  <2>4. ASSUME NEW s \in Threads \ {t}, NEW q \in R PROVE q \notin Relies(task[s])
    <3>1. q \notin Locks(task[s])
      <4>1. q \in Records /\ recLock[q] # s
        BY <1>7
      <4> QED BY <4>1, Mine
    <3> QED BY <3>1 DEF Locks, Relies
  <2> HIDE DEF R
  <2> QED BY <1>1, <1>2, <1>4, <1>5, <1>8, <2>1, <2>2, <2>3, <2>4 DEF Frame
<1>10. HostTypes'
  <2>1. residents' \in Seq(Records)
    BY <1>1, <1>2, KeptTyped
  <2> QED BY <1>1, <1>2, <1>4, <1>5, <1>8, <2>1 DEF HostInv, HostTypes
<1>11. Apart'
  <2>1. \A s \in Threads : task'[s].rec = task[s].rec /\ task'[s].dests \in {task[s].dests, <<>>}
    <3>1. \A s \in Threads \ {t} : task'[s].rec = task[s].rec /\ task'[s].dests = task[s].dests
      BY <1>5, RestsIs, Mine
    <3> QED BY <1>5, <3>1 DEF y
  <2>2. task'[t].dests = <<>>
    BY <1>5 DEF y
  <2>3. \A s \in Threads : \A i \in DOMAIN task'[s].dests :
            s # t /\ i \in DOMAIN task[s].dests /\ task'[s].dests[i] = task[s].dests[i]
    BY <2>1, <2>2
  <2>4. \A q \in Records : \/ disk'[q] = disk[q] /\ q \notin R
                           \/ q \in R /\ \E i \in DOMAIN x.dests : x.batch[i] = q /\ disk'[q] = x.dests[i]
    BY <1>7, <1>8
  <2>5. \A i, j \in DOMAIN x.dests : x.dests[i] = x.dests[j] => i = j
    BY <1>3 DEF Apart
  <2>6. \A q \in Records, p \in Records : disk'[q] = disk'[p] => q = p \/ disk'[q] = None
    <3> SUFFICES ASSUME NEW q \in Records, NEW p \in Records, disk'[q] = disk'[p]
                 PROVE  q = p \/ disk'[q] = None
      OBVIOUS
    <3>1. CASE disk'[q] = disk[q] /\ disk'[p] = disk[p]
      BY <1>3, <3>1 DEF Apart
    <3>2. CASE \E i \in DOMAIN x.dests : x.batch[i] = q /\ disk'[q] = x.dests[i]
      <4>1. PICK i \in DOMAIN x.dests : x.batch[i] = q /\ disk'[q] = x.dests[i]
        BY <3>2
      <4>2. disk[p] # x.dests[i]
        BY <1>3, <4>1 DEF Apart
      <4>3. PICK j \in DOMAIN x.dests : x.batch[j] = p /\ disk'[p] = x.dests[j]
        BY <2>4, <4>1, <4>2
      <4> QED BY <2>5, <4>1, <4>3
    <3>3. CASE /\ disk'[q] = disk[q]
               /\ \E j \in DOMAIN x.dests : x.batch[j] = p /\ disk'[p] = x.dests[j]
      <4>1. PICK j \in DOMAIN x.dests : x.batch[j] = p /\ disk'[p] = x.dests[j]
        BY <3>3
      <4> QED BY <1>3, <3>3, <4>1 DEF Apart
    <3> QED BY <2>4, <3>1, <3>2, <3>3
  <2>7. \A q \in Records, s \in Threads : \A i \in DOMAIN task'[s].dests : disk'[q] # task'[s].dests[i]
    <3> SUFFICES ASSUME NEW q \in Records, NEW s \in Threads, NEW i \in DOMAIN task'[s].dests
                 PROVE  disk'[q] # task'[s].dests[i]
      OBVIOUS
    <3>1. s # t /\ i \in DOMAIN task[s].dests /\ task'[s].dests[i] = task[s].dests[i]
      BY <2>3
    <3>2. CASE disk'[q] = disk[q]
      BY <1>3, <3>1, <3>2 DEF Apart
    <3>3. CASE \E j \in DOMAIN x.dests : disk'[q] = x.dests[j]
      BY <1>3, <3>1, <3>3 DEF Apart
    <3> QED BY <2>4, <3>2, <3>3
  <2>8. \A s, u \in Threads : \A i \in DOMAIN task'[s].dests, j \in DOMAIN task'[u].dests :
            task'[s].dests[i] = task'[u].dests[j] => s = u /\ i = j
    BY <1>3, <2>3 DEF Apart
  <2> QED BY <1>3, <2>1, <2>6, <2>7, <2>8 DEF Apart
<1>12. TaskInv(t)'
  <2>1. Phased(y)
    BY <1>1, <1>2, <1>5 DEF Phased, Choosing
  <2>2. LocksSafe(t)'
    <3>1. \A q \in Records : q \in Locks(y) <=> q \in Locks(x)
      BY <1>2, <1>5 DEF Locks
    <3>2. policy' = t <=> y.pc \in Locking
      BY <1>2, <1>5 DEF Locking
    <3>3. y.pc # "scan"
      BY <1>5
    <3>4. \A q \in Records : recLock'[q] = t <=> q \in Locks(y)
      BY <1>1, <1>2, <3>1
    <3> QED BY <3>2, <3>3, <3>4 DEF LocksSafe, y
  <2>3. TaskSafe(t)'
    <3>1. y.rec # None => y.rec \in held' /\ (y.pc # "lock" => disk'[y.rec] # None)
      BY <1>1, <1>2, <1>5, <1>7, <1>8
    <3>2. \A i \in DOMAIN y.dests : \E z \in UsedRanges' : z.off = y.dests[i]
      BY <1>5
    <3>3. y = task'[t] /\ y.pc # "install" /\ y.pc \notin Choosing
      BY <1>5 DEF Choosing, y
    <3> QED BY <3>1, <3>2, <3>3, TaskSafeNext
  <2> QED BY <1>5, <2>1, <2>2, <2>3 DEF TaskInv, y
<1>13. \A q \in Records : /\ Alive(q)' <=> Alive(q)
                          /\ InUse(q)' <=> InUse(q)
                          /\ recLock'[q] # None => pins'[q] = 0
  <2>1. \A s \in Threads : task'[s].batch = task[s].batch
    <3>1. \A s \in Threads \ {t} : task'[s].batch = task[s].batch
      BY <1>5, RestsIs, Mine
    <3> QED BY <1>5, <3>1 DEF y
  <2> QED BY <1>1, <1>2, <2>1, BatchedKept DEF Alive, InUse
<1>14. \A q \in Records : q \notin R => RecordSafe(q)' /\ Visible(q)' = Visible(q)
  BY <1>9, <1>13, FrameKeeps
<1>15. ASSUME NEW q \in R PROVE RecordSafe(q)' /\ Visible(q)' = Visible(q)
  <2>1. /\ q \in Records /\ q \in sealed /\ ram[q] \in Values /\ ram[q] # None /\ q \in Batched
        /\ at(q) \in Cells /\ Holds(at(q), Size[q]) /\ Filled(at(q), Size[q], ram[q])
        /\ at(q) # None /\ at(q) \in Nat
    BY <1>7, <1>15, Constants
  <2>2. ram'[q] = None /\ disk'[q] = at(q) /\ Alive(q)'
    BY <1>8, <1>13, <1>15, <2>1 DEF Alive
  <2>3. PICK d \in Nat, n \in Nat \ {0}, v \in Values : d = at(q) /\ n = Size[q] /\ v = ram[q]
    BY <2>1, Constants
  <2> DEFINE f == cells'
  <2>4. (\E e \in UsedRanges' : e.off = d /\ e.bytes = n) /\ \A k \in d .. d + n - 1 : f[k] = v
    BY <1>4, <2>1, <2>3 DEF Holds, Filled
  <2> HIDE DEF f
  <2>5. RecordSafe(q)'
    <3>1. \E w \in Values : \A k \in disk'[q] .. disk'[q] + Size[q] - 1 : cells'[k] = w
      BY <2>2, <2>3, <2>4 DEF f
    <3>2. \E e \in UsedRanges' : e.off = disk'[q] /\ e.bytes = Size[q]
      BY <2>2, <2>3, <2>4
    <3> QED BY <1>2, <1>13, <2>1, <2>2, <3>1, <3>2 DEF RecordSafe, Holds, Filled
  <2>6. OnDisk(q)' = ram[q]
    <3>1. Read(f, d, n) = v
      BY <2>4, ReadIs
    <3> QED BY <2>2, <2>3, <3>1, OnDiskIs DEF f
  <2>7. Visible(q)' = Visible(q)
    BY <1>13, <2>1, <2>2, <2>6 DEF Visible, InUse
  <2> QED BY <2>5, <2>7
<1>16. \A q \in Records : RecordSafe(q)' /\ Visible(q)' = Visible(q)
  BY <1>14, <1>15
<1>17. UNCHANGED KV!recordVars
  BY <1>2, <1>16, NoChange
<1>18. LeasesHold
  BY <1>2, <1>7, <1>8 DEF LeasesHold
<1> QED BY <1>4, <1>9, <1>10, <1>11, <1>12, <1>16, <1>17, <1>18, FramedStep

LEMMA InstallStep ==
    ASSUME HostInv, NEW t \in Threads, Install(t)
    PROVE  Sound
<1> DEFINE x == task[t]
           y == task'[t]
<1>1. /\ TaskShape(x) /\ Phased(x) /\ DOMAIN task = Threads /\ policy = None
      /\ residents \in Seq(Records) /\ x.pc = "install"
      /\ \A q \in Records : recLock[q] = t <=> q \in Locks(x)
      /\ x.rec # None => x.rec \in held /\ x.rec \in Records /\ (x.pc # "lock" => disk[x.rec] # None)
      /\ recLock \in [Records -> Threads \cup {None}]
      /\ \A q \in Records : recLock[q] # None => pins[q] = 0
      /\ \A s \in Threads \ {t} : task[s].rec = x.rec => x.rec = None
  BY Mine DEF Install
<1>2. /\ x.rec # None /\ x.batch = <<>> /\ x.dests = <<>>
  BY <1>1 DEF Phased, Choosing
<1>3. PICK r \in Records : r = x.rec
  BY <1>1, <1>2
<1>4. PICK v : v = x.data
  OBVIOUS
<1>5. /\ Register(r) /\ ram' = [ram EXCEPT ![r] = v] /\ disk' = [disk EXCEPT ![r] = None]
      /\ Free(UsedAt(disk[r])) /\ sealed' = sealed \ {r} /\ recLock' = [recLock EXCEPT ![r] = None]
      /\ task' = [task EXCEPT ![t] = Idle]
      /\ policy' = policy /\ held' = held /\ pins' = pins /\ readers' = readers
  BY <1>3, <1>4 DEF Install
<1>6. /\ Apart /\ DiskInv /\ TaskSafe(t) /\ RecordSafe(r)
      /\ ram \in [Records -> Values \cup {None}] /\ disk \in [Records -> Cells \cup {None}]
      /\ cells \in [Cells -> Values \cup {None}]
  BY DEF HostInv, HostTypes, TaskInv
<1>7. PICK d : d = disk[r]
  OBVIOUS
<1>8. r \in held /\ d # None /\ Alive(r) /\ InUse(r) /\ ram[r] = None
  <2>1. r \in held /\ d # None
    BY <1>1, <1>2, <1>3, <1>7
  <2> QED BY <2>1, <1>6, <1>7 DEF Alive, InUse, RecordSafe
<1>9. Visible(r) = v /\ v \in Values /\ v # None
  <2>1. v = OnDisk(r)
    BY <1>1, <1>3, <1>4, <1>6 DEF TaskSafe
  <2>2. v \in Values
    BY <2>1, <1>7, <1>8, VisibleIs
  <2> QED BY <2>1, <2>2, <1>7, <1>8, Constants DEF Visible, InUse
<1>10. PICK e \in UsedRanges : e.off = d
  BY <1>6, <1>7, <1>8 DEF RecordSafe, Holds
<1>11. Spares(d) /\ DiskInv' /\ cells' \in [Cells -> Values \cup {None}]
  <2>1. UsedAt(d) = e
    BY <1>6, <1>10, UsedAtIs
  <2>2. Free(e)
    BY <1>5, <1>7, <2>1
  <2> QED BY <1>6, <1>10, <2>2, FreeSpares
<1>12. y = Idle /\ DOMAIN task' = Threads /\ \A s \in Threads \ {t} : task'[s] = task[s]
  BY <1>1, <1>5
<1> HIDE DEF y
<1>13. /\ ram' \in [Records -> Values \cup {None}] /\ disk' \in [Records -> Cells \cup {None}]
       /\ ram'[r] = v /\ disk'[r] = None
       /\ \A q \in Records : q # r => ram'[q] = ram[q] /\ disk'[q] = disk[q]
  BY <1>5, <1>6, <1>9
<1>14. /\ recLock' \in [Records -> Threads \cup {None}]
       /\ \A q \in Records : recLock'[q] = IF q = r THEN None ELSE recLock[q]
       /\ recLock[r] = t /\ pins[r] = 0
       /\ \A q \in Records : recLock'[q] # t
  <2>1. \A q \in Records : q \in Locks(x) <=> q = r
    BY <1>1, <1>2, <1>3 DEF Locks, Range
  <2> QED BY <1>1, <1>5, <2>1, Constants
<1>15. Frame(t, {r}, d)
  <2>1. \A s \in Threads : \A i \in DOMAIN task[s].dests : task[s].dests[i] # d
    BY <1>6, <1>7 DEF Apart
  <2>2. \A s \in Threads \ {t} : task[s].rec # None => task[s].rec \in held'
    BY <1>5, Mine
  <2>3. \A s \in Threads \ {t} : r \notin Relies(task[s])
    <3>1. \A s \in Threads \ {t} : recLock[r] # s /\ task[s].rec # r
      BY <1>1, <1>2, <1>3, <1>14
    <3> QED BY <3>1, FreeRecord
  <2>4. \A q \in Records : \/ recLock'[q] = recLock[q]
                           \/ recLock'[q] \in {t, None} /\ recLock[q] \in {t, None}
    BY <1>14
  <2>5. \A q \in Records : q # r => (disk[q] # None => disk[q] # d)
    BY <1>6, <1>7, <1>8 DEF Apart
  <2> QED BY <1>1, <1>5, <1>11, <1>12, <1>13, <2>1, <2>2, <2>3, <2>4, <2>5 DEF Frame, Rests
<1>16. HostTypes'
  <2>1. residents' \in Seq(Records)
    BY <1>1, <1>5, Registers
  <2> QED BY <1>1, <1>5, <1>11, <1>12, <1>13, <1>14, <2>1 DEF HostInv, HostTypes
<1>17. Apart'
  <2>1. \A s \in Threads : /\ task'[s].rec \in {task[s].rec, None}
                           /\ task'[s].dests \in {task[s].dests, <<>>}
    BY <1>12 DEF Idle, y
  <2>2. \A q \in Records : disk'[q] \in {disk[q], None}
    BY <1>13
  <2> QED BY <2>1, <2>2, ApartKept
<1>18. TaskInv(t)'
  <2>1. policy' # t
    BY <1>1, <1>5, Constants
  <2> QED BY <1>12, <1>14, <2>1, IdleSafe DEF y
<1>19. \A q \in Records : /\ Alive(q)' <=> Alive(q)
                          /\ InUse(q)' <=> InUse(q)
                          /\ recLock'[q] # None => pins'[q] = 0
  <2>1. \A s \in Threads : task'[s].batch = task[s].batch
    BY <1>2, <1>12 DEF Idle, y
  <2> QED BY <1>1, <1>5, <1>14, <2>1, BatchedKept DEF Alive, InUse
<1>20. \A q \in Records : q # r => RecordSafe(q)' /\ Visible(q)' = Visible(q)
  BY <1>15, <1>19, FrameKeeps
<1>21. RecordSafe(r)' /\ Visible(r)' = Visible(r)
  <2>1. RecordSafe(r)'
    BY <1>8, <1>9, <1>13, <1>19 DEF RecordSafe
  <2>2. InUse(r)'
    BY <1>8, <1>19
  <2> QED BY <2>1, <2>2, <1>9, <1>13 DEF Visible, InUse
<1>22. \A q \in Records : RecordSafe(q)' /\ Visible(q)' = Visible(q)
  BY <1>20, <1>21
<1>23. UNCHANGED KV!recordVars
  BY <1>5, <1>22, NoChange
<1>24. LeasesHold
  BY <1>13, <1>14 DEF LeasesHold
<1> QED BY <1>11, <1>15, <1>16, <1>17, <1>18, <1>22, <1>23, <1>24, FramedStep

-----------------------------------------------------------------------------
(* The specification                                                        *)

\* At the start nothing exists, and the abstract records say so too.
LEMMA InitHolds ==
    ASSUME Init
    PROVE  HostInv /\ KV!Init
<1>1. /\ DiskInit /\ cells = [c \in Cells |-> None] /\ policy = None /\ residents = <<>>
      /\ recLock = [r \in Records |-> None] /\ held = {} /\ sealed = {}
      /\ pins = [r \in Records |-> 0] /\ readers = [r \in Records |-> 0]
      /\ ram = [r \in Records |-> None] /\ disk = [r \in Records |-> None]
      /\ task = [t \in Threads |-> Idle]
  BY DEF Init
<1>2. DiskInv
  BY <1>1, EmptyFile
<1>3. HostTypes
  BY <1>1 DEF HostTypes
<1>4. \A t \in Threads : /\ task[t] = Idle /\ task[t].rec = None /\ task[t].pc = "idle"
                         /\ task[t].batch = <<>> /\ task[t].dests = <<>>
  BY <1>1 DEF Idle
<1>5. \A r : r \notin Batched
  BY <1>4, BatchedIs DEF Range
<1>6. \A r \in Records : ~Alive(r) /\ ~InUse(r) /\ ram[r] = None /\ disk[r] = None /\ recLock[r] = None
  BY <1>1, <1>5 DEF Alive, InUse
<1>7. \A r \in Records : RecordSafe(r)
  BY <1>6 DEF RecordSafe
<1>8. Apart
  BY <1>4, <1>6 DEF Apart
<1>9. ASSUME NEW t \in Threads PROVE TaskInv(t)
  <2>1. PICK x : x = task[t]
    OBVIOUS
  <2>2. /\ x = Idle /\ x.rec = None /\ x.pc = "idle" /\ x.batch = <<>> /\ x.dests = <<>>
        /\ x.pc \notin Choosing /\ x.pc \notin Locking
    BY <1>4, <2>1 DEF Choosing, Locking
  <2>3. TaskShape(x) /\ Phased(x) /\ \A r \in Records : r \notin Locks(x)
    BY <2>2, IdleTask
  <2>4. TaskSafe(t)
    BY <2>1, <2>2 DEF TaskSafe
  <2>5. LocksSafe(t)
    BY <1>1, <1>6, <2>1, <2>2, <2>3, Constants DEF LocksSafe
  <2> QED BY <2>1, <2>3, <2>4, <2>5 DEF TaskInv
<1>10. HostInv
  BY <1>2, <1>3, <1>7, <1>8, <1>9 DEF HostInv
<1>11. KV!Init
  <2>1. \A r \in Records : Visible(r) = None /\ pins[r] + readers[r] = 0
    BY <1>1, <1>6 DEF Visible, InUse
  <2> QED BY <2>1 DEF KV!Init
<1> QED BY <1>10, <1>11

\* A step that changes nothing.
LEMMA StutterStep ==
    ASSUME HostInv, UNCHANGED vars
    PROVE  Sound
<1>1. /\ UNCHANGED <<diskVars, cells, policy, recLock, disk, task>> /\ residents' = residents
      /\ held' = held /\ pins' = pins /\ readers' = readers /\ sealed' = sealed /\ ram' = ram
  BY DEF vars, lockVars, catVars, recVars
<1>2. \A r \in Records : /\ Alive(r)' <=> Alive(r)
                         /\ InUse(r)' <=> InUse(r)
                         /\ recLock[r] # None => pins'[r] = 0
  BY <1>1, Types DEF Alive, InUse, Batched, RecordSafe
<1>3. Called({})
  BY <1>1, <1>2, Types DEF Called
<1>4. /\ HostInv' /\ LeasesHold
      /\ \A r \in Records : r \notin {} => ((InUse(r)' <=> InUse(r)) => Visible(r)' = Visible(r))
  BY <1>3, CallStep
<1>5. UNCHANGED KV!recordVars
  BY <1>1, <1>2, <1>4, NoChange
<1> QED BY <1>4, <1>5 DEF Sound

\* Every step keeps the invariant, is a step of the abstract records or none,
\* and holds every lease still.
LEMMA StepHolds ==
    ASSUME HostInv, [Next]_vars
    PROVE  Sound
<1>1. CASE Calls
  <2>1. ASSUME NEW t \in Threads,
               \/ \E n \in Demands : Reserving(t, n)
               \/ \E n \in Targets : Trimming(t, n)
               \/ \E r \in Records : Rewriting(t, r)
               \/ \E r \in Records, v \in Values : AllocateFrom(t, r, v)
               \/ ReleaseReservation(t)
               \/ SpuriousWake(t)
        PROVE  Sound
    BY <2>1, ReservingStep, TrimmingStep, RewritingStep, AllocateStep, ReleaseReservationStep,
       SpuriousWakeStep
  <2>2. ASSUME NEW r \in Records,
               \/ \E v \in Values : Write(r, v)
               \/ Seal(r) \/ Lease(r) \/ Unpin(r)
               \/ Source(r) \/ ReleaseSource(r) \/ Drop(r)
        PROVE  Sound
    BY <2>2, WriteStep, SealStep, LeaseStep, UnpinStep, SourceStep, ReleaseSourceStep, DropStep
  <2> QED BY <1>1, <2>1, <2>2 DEF Calls
<1>2. ASSUME NEW t \in Threads, Work(t) PROVE Sound
  BY <1>2, ChargeStep, TrimTestStep, EvictStartStep, ScanPastStep, ScanTakeStep, ScanEndStep,
     WriteItemStep, WriteFailsStep, UnwindExtentStep, UnwindRecordStep, UnwindDoneStep,
     ReadBackStep, ReadFailsStep DEF Work
<1>3. ASSUME NEW t \in Threads, Acquire(t) PROVE Sound
  BY <1>3, RewriteLockStep, RelockStep, AbortStep, PublishStep, InstallStep DEF Acquire
<1>4. CASE UNCHANGED vars
  BY <1>4, StutterStep
<1> QED BY <1>1, <1>2, <1>3, <1>4 DEF Next

\* The inductive invariant holds of every reachable state, whatever the
\* threads do: locks, batches, records and extents are what each step of
\* host_kv_storage.cpp counts on when it has given its mutexes up.
THEOREM HostInvariant == Spec => []HostInv
<1>1. Init => HostInv
  BY InitHolds
<1>2. HostInv /\ [Next]_vars => HostInv'
  BY StepHolds DEF Sound
<1> QED BY <1>1, <1>2, PTL DEF Spec

\* The two tiers together are the records the engine was promised: eviction in
\* batches, failed writes, reading back and destruction change nothing a
\* caller sees, and no content changes under a reader.
THEOREM TiersImplementRecords == Spec => Implements
<1>1. Init => HostInv /\ KV!Init
  BY InitHolds
<1>2. HostInv /\ [Next]_vars => HostInv' /\ [KV!Next]_(KV!recordVars)
  BY StepHolds DEF Sound
<1> QED BY <1>1, <1>2, PTL DEF Spec, Implements, KV!Spec

\* While a lease is out its record stays in its tier, in place: the pointer of
\* HostKvLease::data stays good until the lease is dropped.
THEOREM LeasesAreStable == Spec => LeaseStable
<1>1. Init => HostInv
  BY InitHolds
<1>2. HostInv /\ [Next]_vars => HostInv' /\ [LeasesHold]_vars
  BY StepHolds DEF Sound
<1>3. LeasesHold => \A r \in Records : pins[r] > 0 /\ pins'[r] > 0 =>
                        disk'[r] = disk[r] /\ (ram'[r] = None <=> ram[r] = None)
  BY DEF LeasesHold
<1> QED BY <1>1, <1>2, <1>3, PTL DEF Spec, LeaseStable

\* The file under the storage stays exact: ranges partition it, and index and
\* quota agree with them, after any eviction, failure and destruction.
THEOREM FileStaysExact == Spec => []DiskInv
<1>1. HostInv => DiskInv
  BY DEF HostInv
<1> QED BY <1>1, HostInvariant, PTL

-----------------------------------------------------------------------------
(* Amounts: sums counted one by one                                         *)

\* The cells that Amount counts.
Stones(f, S) == UNION {{x} \X (1 .. f[x]) : x \in S}

\* Amounts are finite counts.
LEMMA StonesFacts ==
    ASSUME NEW S, IsFiniteSet(S), NEW f, \A x \in S : f[x] \in Nat
    PROVE  /\ IsFiniteSet(Stones(f, S)) /\ Amount(f, S) = Cardinality(Stones(f, S)) /\ Amount(f, S) \in Nat
           /\ \A p : p \in Stones(f, S) <=> \E x \in S : \E k \in 1 .. f[x] : p = <<x, k>>
<1> DEFINE row == [x \in S |-> {x} \X (1 .. f[x])]
           rows == {{x} \X (1 .. f[x]) : x \in S}
<1>1. IsFiniteSet(rows)
  <2>1. row \in Surjection(S, rows)
    BY DEF Surjection
  <2> QED BY <2>1, FS_Surjection
<1>2. ASSUME NEW T \in rows PROVE IsFiniteSet(T)
  <2>1. PICK x \in S : T = {x} \X (1 .. f[x])
    OBVIOUS
  <2>2. PICK n \in Nat : n = f[x]
    OBVIOUS
  <2>5. 1 \in Int /\ n \in Int
    OBVIOUS
  <2>3. IsFiniteSet({x}) /\ IsFiniteSet(1 .. n)
    BY <2>5, FS_Singleton, FS_Interval
  <2>4. IsFiniteSet({x} \X (1 .. n))
    BY <2>3, FS_Product
  <2> QED BY <2>1, <2>2, <2>4
<1>3. IsFiniteSet(UNION rows)
  <2> HIDE DEF rows
  <2> QED BY <1>1, <1>2, FS_UNION
<1>4. Stones(f, S) = UNION rows /\ Amount(f, S) = Cardinality(Stones(f, S))
  BY DEF Stones, Amount
<1>5. Cardinality(Stones(f, S)) \in Nat
  BY <1>3, <1>4, FS_CardinalityType
<1>6. \A p : p \in Stones(f, S) <=> \E x \in S : \E k \in 1 .. f[x] : p = <<x, k>>
  BY DEF Stones
<1> QED BY <1>3, <1>4, <1>5, <1>6

\* Nothing takes nothing, one element takes its own.
LEMMA AmountOf ==
    ASSUME NEW f, NEW x, f[x] \in Nat
    PROVE  Amount(f, {}) = 0 /\ Amount(f, {x}) = f[x]
<1>1. Stones(f, {}) = {} /\ Stones(f, {x}) = {x} \X (1 .. f[x])
  BY DEF Stones
<1>2. Amount(f, {}) = Cardinality({}) /\ Amount(f, {x}) = Cardinality({x} \X (1 .. f[x]))
  BY <1>1 DEF Amount, Stones
<1>3. PICK n \in Nat : n = f[x]
  OBVIOUS
<1>4. IsFiniteSet({x}) /\ Cardinality({x}) = 1 /\ Cardinality({}) = 0
  BY FS_Singleton, FS_EmptySet
<1>5. IsFiniteSet(1 .. n) /\ Cardinality(1 .. n) = n
  <2>1. 1 \in Int /\ n \in Int
    OBVIOUS
  <2>2. IsFiniteSet(1 .. n) /\ Cardinality(1 .. n) = IF 1 > n THEN 0 ELSE n - 1 + 1
    BY <2>1, FS_Interval
  <2> QED BY <2>2
<1>6. Cardinality({x} \X (1 .. n)) = Cardinality({x}) * Cardinality(1 .. n)
  BY <1>4, <1>5, FS_Product
<1>7. Cardinality({x} \X (1 .. n)) = n
  BY <1>4, <1>5, <1>6
<1> QED BY <1>2, <1>3, <1>4, <1>7

\* Two sets without a common element.
LEMMA AmountSplit ==
    ASSUME NEW A, NEW B, IsFiniteSet(A), IsFiniteSet(B), A \cap B = {},
           NEW f, \A x \in A \cup B : f[x] \in Nat
    PROVE  /\ Amount(f, A) \in Nat /\ Amount(f, B) \in Nat
           /\ Amount(f, A \cup B) = Amount(f, A) + Amount(f, B)
<1>1. /\ IsFiniteSet(Stones(f, A)) /\ Amount(f, A) = Cardinality(Stones(f, A)) /\ Amount(f, A) \in Nat
      /\ \A p : p \in Stones(f, A) <=> \E x \in A : \E k \in 1 .. f[x] : p = <<x, k>>
  BY StonesFacts
<1>2. /\ IsFiniteSet(Stones(f, B)) /\ Amount(f, B) = Cardinality(Stones(f, B)) /\ Amount(f, B) \in Nat
      /\ \A p : p \in Stones(f, B) <=> \E x \in B : \E k \in 1 .. f[x] : p = <<x, k>>
  BY StonesFacts
<1>3. Stones(f, A \cup B) = Stones(f, A) \cup Stones(f, B)
  BY DEF Stones
<1>4. Stones(f, A) \cap Stones(f, B) = {}
  BY <1>1, <1>2
<1>5. Cardinality(Stones(f, A) \cup Stones(f, B)) = Amount(f, A) + Amount(f, B)
  <2>1. Cardinality(Stones(f, A) \cap Stones(f, B)) = 0
    BY <1>4, FS_EmptySet
  <2>2. Cardinality(Stones(f, A) \cup Stones(f, B))
          = Cardinality(Stones(f, A)) + Cardinality(Stones(f, B)) - Cardinality(Stones(f, A) \cap Stones(f, B))
    BY <1>1, <1>2, FS_Union
  <2> QED BY <1>1, <1>2, <2>1, <2>2
<1>6. Amount(f, A \cup B) = Cardinality(Stones(f, A \cup B))
  BY DEF Amount, Stones
<1> QED BY <1>1, <1>2, <1>3, <1>5, <1>6

\* Only what the elements take counts.
LEMMA AmountSame ==
    ASSUME NEW S, NEW f, NEW g, \A x \in S : f[x] = g[x]
    PROVE  Amount(f, S) = Amount(g, S)
<1>1. Stones(f, S) = Stones(g, S)
  BY DEF Stones
<1>2. Amount(f, S) = Cardinality(Stones(f, S)) /\ Amount(g, S) = Cardinality(Stones(g, S))
  BY DEF Amount, Stones
<1> QED BY <1>1, <1>2

\* One element comes, goes or takes something else.
LEMMA AmountMove ==
    ASSUME NEW A, NEW B, IsFiniteSet(A), IsFiniteSet(B), NEW x, A \ {x} = B \ {x},
           NEW f, NEW g, \A y \in A : f[y] \in Nat, \A y \in B : g[y] \in Nat,
           \A y \in A \ {x} : f[y] = g[y]
    PROVE  /\ Amount(f, A) \in Nat /\ Amount(g, B) \in Nat
           /\ Amount(g, B) + (IF x \in A THEN f[x] ELSE 0) = Amount(f, A) + (IF x \in B THEN g[x] ELSE 0)
<1> DEFINE C == A \ {x}
<1>1. IsFiniteSet(C) /\ Amount(f, C) = Amount(g, C)
  BY FS_RemoveElement, AmountSame
<1>2. Amount(f, A) \in Nat /\ Amount(f, C) \in Nat
      /\ Amount(f, A) = Amount(f, C) + (IF x \in A THEN f[x] ELSE 0)
  <2>0. Amount(f, A) \in Nat /\ Amount(f, C) \in Nat
    BY <1>1, StonesFacts
  <2>1. CASE x \in A
    <3>1. A = C \cup {x} /\ C \cap {x} = {} /\ IsFiniteSet({x})
      BY <2>1, FS_Singleton
    <3>2. \A y \in C \cup {x} : f[y] \in Nat
      BY <2>1
    <3> HIDE DEF C
    <3>3. Amount(f, C \cup {x}) = Amount(f, C) + Amount(f, {x})
      BY <1>1, <3>1, <3>2, AmountSplit
    <3> QED BY <2>0, <2>1, <3>1, <3>2, <3>3, AmountOf
  <2>2. CASE x \notin A
    <3>1. A = C
      BY <2>2
    <3> HIDE DEF C
    <3> QED BY <2>0, <2>2, <3>1
  <2> QED BY <2>1, <2>2
<1>3. Amount(g, B) \in Nat /\ Amount(g, C) \in Nat
      /\ Amount(g, B) = Amount(g, C) + (IF x \in B THEN g[x] ELSE 0)
  <2>0. Amount(g, B) \in Nat /\ Amount(g, C) \in Nat
    BY <1>1, StonesFacts
  <2>1. CASE x \in B
    <3>1. B = C \cup {x} /\ C \cap {x} = {} /\ IsFiniteSet({x})
      BY <2>1, FS_Singleton
    <3>2. \A y \in C \cup {x} : g[y] \in Nat
      BY <2>1
    <3> HIDE DEF C
    <3>3. Amount(g, C \cup {x}) = Amount(g, C) + Amount(g, {x})
      BY <1>1, <3>1, <3>2, AmountSplit
    <3> QED BY <2>0, <2>1, <3>1, <3>2, <3>3, AmountOf
  <2>2. CASE x \notin B
    <3>1. B = C
      BY <2>2
    <3> QED BY <2>0, <2>2, <3>1
  <2> QED BY <2>1, <2>2
<1> HIDE DEF C
<1>4. (x \in A => f[x] \in Nat) /\ (x \in B => g[x] \in Nat)
  OBVIOUS
<1> QED BY <1>1, <1>2, <1>3, <1>4

\* The bytes of a batch: none, one record more, each record once.
LEMMA CellsFacts ==
    ASSUME NEW b \in Seq(Records)
    PROVE  /\ CellsSum(b) \in Nat
           /\ b = <<>> => CellsSum(b) = 0
           /\ \A r \in Records : CellsSum(Append(b, r)) = CellsSum(b) + Size[r]
<1> DEFINE f(c) == [i \in DOMAIN c |-> Size[c[i]]]
<1>1. \A c \in Seq(Records) : IsFiniteSet(DOMAIN c) /\ \A i \in DOMAIN c : f(c)[i] \in Nat
  <2> TAKE c \in Seq(Records)
  <2>1. DOMAIN c = 1 .. Len(c) /\ Len(c) \in Nat /\ \A i \in DOMAIN c : c[i] \in Records
    OBVIOUS
  <2>2. 1 \in Int /\ Len(c) \in Int
    BY <2>1
  <2>3. IsFiniteSet(1 .. Len(c))
    BY <2>2, FS_Interval
  <2> QED BY <2>1, <2>3, Constants
<1>2. \A c : CellsSum(c) = Amount(f(c), DOMAIN c)
  BY DEF CellsSum
<1>3. CellsSum(b) \in Nat
  <2>1. IsFiniteSet(DOMAIN b) /\ \A i \in DOMAIN b : f(b)[i] \in Nat
    BY <1>1
  <2> HIDE DEF f
  <2>2. Amount(f(b), DOMAIN b) \in Nat
    BY <2>1, StonesFacts
  <2> QED BY <1>2, <2>2
<1>4. ASSUME b = <<>> PROVE CellsSum(b) = 0
  <2>1. DOMAIN b = {}
    BY <1>4
  <2>2. Amount(f(b), {}) = 0
    <3>1. [i \in {0} |-> 0][0] \in Nat
      OBVIOUS
    <3>2. Amount(f(b), {}) = Amount([i \in {0} |-> 0], {})
      BY AmountSame
    <3> QED BY <3>1, <3>2, AmountOf
  <2> QED BY <1>2, <2>1, <2>2
<1>5. ASSUME NEW r \in Records PROVE CellsSum(Append(b, r)) = CellsSum(b) + Size[r]
  <2> DEFINE c == Append(b, r)
             n == Len(b) + 1
  <2>1. /\ c \in Seq(Records) /\ DOMAIN c = DOMAIN b \cup {n} /\ DOMAIN b \cap {n} = {}
        /\ c[n] = r /\ \A i \in DOMAIN b : c[i] = b[i]
    OBVIOUS
  <2>2. IsFiniteSet(DOMAIN b) /\ IsFiniteSet({n}) /\ \A i \in DOMAIN b \cup {n} : f(c)[i] \in Nat
    BY <1>1, <2>1, FS_Singleton
  <2>3. f(c)[n] = Size[r] /\ \A i \in DOMAIN b : f(c)[i] = f(b)[i]
    BY <2>1
  <2> HIDE DEF f, c, n
  <2>4. Amount(f(c), DOMAIN b \cup {n}) = Amount(f(c), DOMAIN b) + Amount(f(c), {n})
    BY <2>1, <2>2, AmountSplit
  <2>5. Amount(f(c), {n}) = Size[r]
    BY <2>2, <2>3, AmountOf
  <2>6. Amount(f(c), DOMAIN b) = Amount(f(b), DOMAIN b)
    BY <2>3, AmountSame
  <2> QED BY <1>2, <2>1, <2>4, <2>5, <2>6 DEF c
<1> QED BY <1>3, <1>4, <1>5

\* The cells of a batch are those of its records.
LEMMA CellsSumIs ==
    ASSUME NEW b \in Seq(Records), \A i, j \in DOMAIN b : b[i] = b[j] => i = j
    PROVE  CellsSum(b) = Amount(Size, Range(b)) /\ IsFiniteSet(Range(b))
<1> DEFINE f == [i \in DOMAIN b |-> Size[b[i]]]
           D == Stones(f, DOMAIN b)
           T == Stones(Size, Range(b))
           h == [p \in D |-> <<b[p[1]], p[2]>>]
<1>1. /\ DOMAIN b = 1 .. Len(b) /\ Len(b) \in Nat /\ \A i \in DOMAIN b : b[i] \in Records
      /\ Range(b) = {b[i] : i \in DOMAIN b}
  BY DEF Range
<1>2. IsFiniteSet(DOMAIN b) /\ IsFiniteSet(Range(b))
  <2>1. b \in Surjection(DOMAIN b, Range(b))
    BY <1>1 DEF Surjection
  <2> QED BY <1>1, <2>1, FS_Interval, FS_Surjection
<1>3. (\A i \in DOMAIN b : f[i] = Size[b[i]] /\ f[i] \in Nat) /\ \A r \in Range(b) : Size[r] \in Nat
  BY <1>1, Constants
<1>4. /\ IsFiniteSet(D) /\ Amount(f, DOMAIN b) = Cardinality(D)
      /\ \A p : p \in D <=> \E x \in DOMAIN b : \E k \in 1 .. f[x] : p = <<x, k>>
  <2> HIDE DEF f
  <2> QED BY <1>2, <1>3, StonesFacts
<1>5. /\ Amount(Size, Range(b)) = Cardinality(T)
      /\ \A p : p \in T <=> \E x \in Range(b) : \E k \in 1 .. Size[x] : p = <<x, k>>
  BY <1>2, <1>3, StonesFacts
<1> HIDE DEF D, T, f
<1>6. \A p \in D : p[1] \in DOMAIN b /\ p[2] \in 1 .. Size[b[p[1]]] /\ p = <<p[1], p[2]>> /\ h[p] \in T
  BY <1>1, <1>3, <1>4, <1>5
<1>7. \A p, q \in D : h[p] = h[q] => p = q
  <2> SUFFICES ASSUME NEW p \in D, NEW q \in D, h[p] = h[q] PROVE p = q
    OBVIOUS
  <2>1. b[p[1]] = b[q[1]] /\ p[2] = q[2]
    OBVIOUS
  <2>2. p[1] = q[1]
    BY <1>6, <2>1
  <2> QED BY <1>6, <2>1, <2>2
<1>8. \A y \in T : \E p \in D : h[p] = y
  <2> TAKE y \in T
  <2>1. PICK i \in DOMAIN b : \E k \in 1 .. Size[b[i]] : y = <<b[i], k>>
    BY <1>1, <1>5
  <2>3. PICK k \in 1 .. Size[b[i]] : y = <<b[i], k>>
    BY <2>1
  <2>2. <<i, k>> \in D
    BY <1>3, <1>4, <2>3
  <2> QED BY <2>3, <2>2
<1>9. h \in Bijection(D, T)
  <2> HIDE DEF h
  <2>1. h \in [D -> T]
    BY <1>6 DEF h
  <2> QED BY <1>7, <1>8, <2>1 DEF Bijection, Injection, Surjection, IsInjective
<1>10. Cardinality(T) = Cardinality(D)
  BY <1>4, <1>9, FS_Bijection DEF ExistsBijection
<1>11. CellsSum(b) = Amount(f, DOMAIN b)
  BY DEF CellsSum, f
<1> QED BY <1>2, <1>4, <1>5, <1>10, <1>11

-----------------------------------------------------------------------------
(* The catalog lists what is resident, once                                 *)

\* A list that names nothing twice.
Once(s) == \A i, j \in DOMAIN s : s[i] = s[j] => i = j

\* One entry more.
LEMMA LongerOnce ==
    ASSUME NEW S, NEW s \in Seq(S), Once(s), NEW e \in S, e \notin Range(s)
    PROVE  /\ Append(s, e) \in Seq(S) /\ Once(Append(s, e))
           /\ \A d : d \in Range(Append(s, e)) <=> d = e \/ d \in Range(s)
<1>1. PICK a : a = Append(s, e)
  OBVIOUS
<1>2. /\ a \in Seq(S) /\ Len(s) \in Nat /\ DOMAIN s = 1 .. Len(s)
      /\ \A i \in DOMAIN s : a[i] = s[i]
      /\ a[Len(s) + 1] = e
      /\ \A i \in DOMAIN a : i \in DOMAIN s \/ i = Len(s) + 1
      /\ \A d : d \in Range(a) <=> d = e \/ d \in Range(s)
  BY <1>1, AppendIs
<1>3. \A i \in DOMAIN s : s[i] # e
  BY DEF Range
<1>4. Once(a)
  BY <1>2, <1>3 DEF Once
<1> QED BY <1>1, <1>2, <1>4

\* The first entry taken away, and put last.
LEMMA TurnedOnce ==
    ASSUME NEW S, NEW s \in Seq(S), Once(s), s # <<>>
    PROVE  /\ Head(s) \in S /\ Tail(s) \in Seq(S) /\ Once(Tail(s)) /\ Head(s) \notin Range(Tail(s))
           /\ \A e : e \in Range(s) <=> e = Head(s) \/ e \in Range(Tail(s))
           /\ Once(Append(Tail(s), Head(s)))
           /\ \A e : e \in Range(Append(Tail(s), Head(s))) <=> e \in Range(s)
<1>1. /\ Head(s) \in S /\ Tail(s) \in Seq(S) /\ 1 \in DOMAIN s /\ Head(s) = s[1]
      /\ \A i \in DOMAIN Tail(s) : i + 1 \in DOMAIN s /\ Tail(s)[i] = s[i + 1] /\ i \in Nat /\ i >= 1
      /\ \A e : e \in Range(s) <=> e = Head(s) \/ e \in Range(Tail(s))
  BY TailIs
<1>2. PICK b : b = Tail(s)
  OBVIOUS
<1>3. PICK h : h = Head(s)
  OBVIOUS
<1>4. Once(b)
  <2> SUFFICES ASSUME NEW i \in DOMAIN b, NEW j \in DOMAIN b, b[i] = b[j] PROVE i = j
    BY DEF Once
  <2>1. i + 1 = j + 1 /\ i \in Nat /\ j \in Nat
    BY <1>1, <1>2 DEF Once
  <2> QED BY <2>1
<1>5. h \notin Range(b)
  <2> SUFFICES ASSUME NEW i \in DOMAIN b, b[i] = h PROVE FALSE
    BY DEF Range
  <2>1. i + 1 = 1 /\ i \in Nat /\ i >= 1
    BY <1>1, <1>2, <1>3 DEF Once
  <2> QED BY <2>1
<1>6. /\ Once(Append(b, h))
      /\ \A e : e \in Range(Append(b, h)) <=> e = h \/ e \in Range(b)
  BY <1>1, <1>2, <1>3, <1>4, <1>5, LongerOnce
<1> QED BY <1>1, <1>2, <1>3, <1>4, <1>5, <1>6

\* What stays of a list that names nothing twice.
LEMMA KeptFacts ==
    ASSUME NEW S, NEW s \in Seq(S), Once(s), NEW keep
    PROVE  /\ Kept(s, keep) \in Seq(S) /\ Once(Kept(s, keep))
           /\ \A e : e \in Range(Kept(s, keep)) <=> e \in Range(s) /\ e \in keep
<1>1. PICK upTo : /\ Kept(s, keep) = upTo[Len(s)] /\ upTo[0] = <<>>
                  /\ \A i \in 1 .. Len(s) : upTo[i] = IF s[i] \in keep THEN Append(upTo[i - 1], s[i]) ELSE upTo[i - 1]
  BY KeptSteps
<1> DEFINE n == Len(s)
           good(i) == /\ upTo[i] \in Seq(S) /\ Once(upTo[i])
                      /\ \A e : e \in Range(upTo[i]) <=> (\E j \in 1 .. i : s[j] = e) /\ e \in keep
<1>2. n \in Nat /\ DOMAIN s = 1 .. n /\ \A i \in 1 .. n : s[i] \in S
  OBVIOUS
<1>3. \A i \in 1 .. n : upTo[i] = IF s[i] \in keep THEN Append(upTo[i - 1], s[i]) ELSE upTo[i - 1]
  BY <1>1
<1>4. Kept(s, keep) = upTo[n]
  BY <1>1
<1> HIDE DEF n
<1>6. \A i \in 0 .. n : good(i)
  <2> DEFINE bad == {i \in 0 .. n : ~good(i)}
  <2> SUFFICES ASSUME bad # {} PROVE FALSE
    OBVIOUS
  <2>1. bad \in SUBSET Nat
    BY <1>2
  <2>2. PICK m \in bad : \A k \in bad : m <= k
    <3> HIDE DEF bad
    <3> QED
      BY <2>1, LeastNat
  <2>3. CASE m = 0
    <3>1. <<>> \in Seq(S) /\ Once(<<>>) /\ \A e : e \notin Range(<<>>)
      BY DEF Once, Range
    <3>2. good(0)
      BY <1>1, <3>1
    <3> QED
      BY <2>2, <2>3, <3>2
  <2>4. CASE m # 0
    <3>1. m - 1 \in 0 .. n /\ m \in 1 .. n /\ ~(m <= m - 1)
      BY <1>2, <2>2, <2>4
    <3>2. good(m - 1) /\ s[m] \in S
      BY <1>2, <2>2, <3>1
    <3>3. \A e : (\E j \in 1 .. m : s[j] = e) <=> e = s[m] \/ \E j \in 1 .. m - 1 : s[j] = e
      <4>1. \A j \in 1 .. m : j = m \/ j \in 1 .. m - 1
        BY <3>1
      <4>2. m \in 1 .. m /\ \A j \in 1 .. m - 1 : j \in 1 .. m
        BY <3>1
      <4> QED BY <4>1, <4>2
    <3>4. ~\E j \in 1 .. m - 1 : s[j] = s[m]
      <4>1. ASSUME NEW j \in 1 .. m - 1 PROVE s[j] # s[m]
        <5>1. j \in 1 .. n /\ m \in 1 .. n /\ j # m
          BY <1>2, <3>1
        <5> QED BY <1>2, <5>1 DEF Once
      <4> QED BY <4>1
    <3>5. PICK p : p = upTo[m - 1]
      OBVIOUS
    <3>6. PICK q : q = upTo[m]
      OBVIOUS
    <3>7. /\ p \in Seq(S) /\ Once(p)
          /\ \A e : e \in Range(p) <=> (\E j \in 1 .. m - 1 : s[j] = e) /\ e \in keep
      BY <3>2, <3>5
    <3>8. q = IF s[m] \in keep THEN Append(p, s[m]) ELSE p
      BY <1>3, <3>1, <3>5, <3>6
    <3>9. /\ q \in Seq(S) /\ Once(q)
          /\ \A e : e \in Range(q) <=> (\E j \in 1 .. m : s[j] = e) /\ e \in keep
      <4>1. CASE s[m] \notin keep
        BY <3>3, <3>7, <3>8, <4>1
      <4>2. CASE s[m] \in keep
        <5>1. s[m] \notin Range(p)
          BY <3>4, <3>7
        <5>2. /\ q \in Seq(S) /\ Once(q)
              /\ \A e : e \in Range(q) <=> e = s[m] \/ e \in Range(p)
          BY <3>2, <3>7, <3>8, <4>2, <5>1, LongerOnce
        <5> QED BY <3>3, <3>7, <4>2, <5>2
      <4> QED BY <4>1, <4>2
    <3>10. good(m)
      BY <3>6, <3>9
    <3> QED
      BY <2>2, <3>10
  <2> QED
    BY <2>3, <2>4
<1>7. good(n)
  <2>1. n \in 0 .. n
    BY <1>2
  <2> HIDE DEF good
  <2> QED BY <1>6, <2>1
<1>8. \A e : e \in Range(s) <=> \E j \in 1 .. n : s[j] = e
  BY <1>2 DEF Range
<1> QED
  BY <1>4, <1>7, <1>8

-----------------------------------------------------------------------------
\* The catalog lists the resident records, each once; expired ones may linger.
Catalogued ==
    /\ Once(residents)
    /\ \A r \in Records : Alive(r) => (ram[r] # None <=> r \in Range(residents))

\* A step that leaves the catalog and the tiers of living records alone.
LEMMA CatalogKept ==
    ASSUME Catalogued, residents' = residents,
           \A r \in Records : Alive(r)' => Alive(r) /\ (ram'[r] = None <=> ram[r] = None)
    PROVE  Catalogued'
BY DEF Catalogued

\* A record is registered that the catalog does not list.
LEMMA CatalogLonger ==
    ASSUME Catalogued, residents \in Seq(Records), NEW q \in Records, q \notin Range(residents), Register(q),
           Alive(q)' => ram'[q] # None,
           \A r \in Records : r # q => (Alive(r)' => Alive(r) /\ (ram'[r] = None <=> ram[r] = None))
    PROVE  Catalogued'
<1>1. PICK live \in Seq(Records) : /\ residents' = Append(live, q) /\ Once(live)
                                   /\ \A e \in Records : Alive(e) => (e \in Range(live) <=> e \in Range(residents))
                                   /\ q \notin Range(live)
  <2> DEFINE all == {x \in Records : Alive(x)}
  <2>1. /\ Kept(residents, all) \in Seq(Records) /\ Once(Kept(residents, all))
        /\ \A e : e \in Range(Kept(residents, all)) <=> e \in Range(residents) /\ e \in all
    <3> HIDE DEF all
    <3> QED BY KeptFacts DEF Catalogued
  <2>2. residents' \in {Append(residents, q), Append(Kept(residents, all), q)}
    BY DEF Register
  <2>3. CASE residents' = Append(residents, q)
    BY <2>3 DEF Catalogued
  <2>4. CASE residents' = Append(Kept(residents, all), q)
    <3>1. PICK k \in Seq(Records) : k = Kept(residents, all)
      BY <2>1
    <3>2. \A e \in Records : Alive(e) => e \in all
      OBVIOUS
    <3> QED BY <2>1, <2>4, <3>1, <3>2
  <2> QED BY <2>2, <2>3, <2>4
<1>2. /\ Once(Append(live, q))
      /\ \A d : d \in Range(Append(live, q)) <=> d = q \/ d \in Range(live)
  BY <1>1, LongerOnce
<1>3. Once(residents') /\ \A d : d \in Range(residents') <=> d = q \/ d \in Range(live)
  BY <1>1, <1>2
<1>4. ASSUME NEW r \in Records, Alive(r)' PROVE ram'[r] # None <=> r \in Range(residents')
  <2>1. CASE r = q
    BY <1>3, <1>4, <2>1
  <2>2. CASE r # q
    BY <1>1, <1>3, <1>4, <2>2 DEF Catalogued
  <2> QED BY <2>1, <2>2
<1> QED BY <1>3, <1>4 DEF Catalogued

-----------------------------------------------------------------------------
(* The budget: who has charged what                                         *)

\* What a thread in x has charged beside its reservation: the packing buffer
\* while it is written, the bytes a rewrite reads back.
Packs(x) == IF x.pc = "write" /\ Len(x.batch) > 1 THEN CellsSum(x.batch) ELSE 0
Reads(x) == IF x.pc \in {"read", "install"} THEN x.bytes ELSE 0
Stake(t) == IF t \in Threads THEN resv[t] + Packs(task[t]) + Reads(task[t]) ELSE 0

Resident == {r \in Records : ram[r] # None}
Residing == Amount(Size, Resident)

Reservations == resv \in [Threads -> 0 .. RamCapacity]

\* What a thread counts on for the room of its batch.
Budgeted(t) ==
    LET x == task[t] IN
    /\ x.op = "reserve" => resv[t] = 0
    /\ x.op = "rewrite" => x.bytes = Size[x.rec]
    /\ x.pc = "scan" => x.room \in Int /\ charged + x.room <= RamCapacity /\ (Packed(t) => Total(t) <= x.room)

\* Every extent in use is that of a cold record or a destination.
NoLeak ==
    \A x \in UsedRanges :
        \/ \E r \in Records : disk[r] = x.off
        \/ \E t \in Threads : \E i \in DOMAIN task[t].dests : task[t].dests[i] = x.off

Counted ==
    /\ charged \in 0 .. RamCapacity /\ registrations \in 0 .. PurgeEvery - 1 /\ moving \subseteq Records
    /\ Reservations
    /\ ChargeExact

BudgetInv == Counted /\ (\A t \in Threads : Budgeted(t)) /\ Catalogued /\ NoLeak

\* Stakes are natural numbers.
LEMMA StakesAre ==
    ASSUME NEW x, TaskShape(x)
    PROVE  Packs(x) \in Nat /\ Reads(x) \in Nat
<1>1. x.batch \in Seq(Records) /\ x.bytes \in Nat
  BY DEF TaskShape
<1>2. CellsSum(x.batch) \in Nat
  BY <1>1, CellsFacts
<1> QED BY <1>1, <1>2 DEF Packs, Reads

\* A thread that rests keeps its stake.
LEMMA RestsStake ==
    ASSUME NEW s, Rests(s), TaskShape(task[s])
    PROVE  /\ Packs(task'[s]) = Packs(task[s]) /\ Reads(task'[s]) = Reads(task[s])
           /\ task'[s].op = task[s].op /\ task'[s].rec = task[s].rec /\ task'[s].bytes = task[s].bytes
           /\ task'[s].batch = task[s].batch /\ task'[s].room = task[s].room /\ task'[s].dests = task[s].dests
           /\ (task'[s].pc = task[s].pc \/ (task[s].pc = "wait" /\ task'[s].pc = "woken"))
<1>1. CASE task'[s] = task[s]
  BY <1>1
<1>2. CASE task[s].pc = "wait" /\ task'[s] = [task[s] EXCEPT !.pc = "woken"]
  <2>1. /\ task'[s].op = task[s].op /\ task'[s].rec = task[s].rec /\ task'[s].bytes = task[s].bytes
        /\ task'[s].batch = task[s].batch /\ task'[s].room = task[s].room /\ task'[s].dests = task[s].dests
        /\ task'[s].pc = "woken"
    BY <1>2 DEF TaskShape
  <2> QED BY <1>2, <2>1 DEF Packs, Reads
<1> QED BY <1>1, <1>2 DEF Rests

\* The charge of the threads, when one of them moves.
LEMMA ThreadsCharge ==
    ASSUME HostInv, HostInv', Reservations, Reservations', NEW t,
           \A s \in Threads \ {t} : Rests(s) /\ resv'[s] = resv[s]
    PROVE  \E a, b \in Nat : /\ ChargeExact <=> charged = a + Residing
                             /\ ChargeExact' <=> charged' = b + Residing'
                             /\ b + Stake(t) = a + Stake(t)'
<1> DEFINE W == {s \in Threads : task[s].pc = "write" /\ Packed(s)}
           V == {s \in Threads : task'[s].pc = "write" /\ Packed(s)'}
           R == {s \in Threads : task[s].pc \in {"read", "install"}}
           Q == {s \in Threads : task'[s].pc \in {"read", "install"}}
           fw == [s \in Threads |-> Total(s)]
           fv == [s \in Threads |-> Total(s)']
           fr == [s \in Threads |-> task[s].bytes]
           fq == [s \in Threads |-> task'[s].bytes]
           in == t \in Threads
<1>0. \A s \in Threads : TaskShape(task[s]) /\ TaskShape(task'[s])
  BY DEF HostInv, TaskInv
<1>1. \A s \in Threads : /\ task[s].batch \in Seq(Records) /\ task'[s].batch \in Seq(Records)
                         /\ task[s].bytes \in Nat /\ task'[s].bytes \in Nat
                         /\ Total(s) \in Nat /\ Total(s)' \in Nat
                         /\ Total(s) = CellsSum(task[s].batch) /\ Total(s)' = CellsSum(task'[s].batch)
                         /\ (Packed(s) <=> Len(task[s].batch) > 1) /\ (Packed(s)' <=> Len(task'[s].batch) > 1)
  <2> TAKE s \in Threads
  <2>1. /\ task[s].batch \in Seq(Records) /\ task'[s].batch \in Seq(Records)
        /\ task[s].bytes \in Nat /\ task'[s].bytes \in Nat
    BY <1>0 DEF TaskShape
  <2>2. CellsSum(task[s].batch) \in Nat /\ CellsSum(task'[s].batch) \in Nat
    BY <2>1, CellsFacts
  <2>3. /\ Total(s) = CellsSum(task[s].batch) /\ Total(s)' = CellsSum(task'[s].batch)
        /\ (Packed(s) <=> Len(task[s].batch) > 1) /\ (Packed(s)' <=> Len(task'[s].batch) > 1)
    BY DEF Total, Packed
  <2> QED BY <2>1, <2>2, <2>3
<1>2. ASSUME NEW s \in Threads \ {t}
      PROVE  /\ task'[s].batch = task[s].batch /\ task'[s].bytes = task[s].bytes
             /\ (task'[s].pc = task[s].pc \/ (task[s].pc = "wait" /\ task'[s].pc = "woken"))
  BY <1>0, <1>2, RestsStake
<1>3. /\ IsFiniteSet(W) /\ IsFiniteSet(V) /\ IsFiniteSet(R) /\ IsFiniteSet(Q) /\ IsFiniteSet(Threads)
  BY FiniteAssumption, FS_Subset
<1>4. W \ {t} = V \ {t} /\ R \ {t} = Q \ {t}
  BY <1>1, <1>2
<1>5. /\ \A s \in W : fw[s] \in Nat
      /\ \A s \in V : fv[s] \in Nat
      /\ \A s \in W \ {t} : fw[s] = fv[s]
      /\ \A s \in R : fr[s] \in Nat
      /\ \A s \in Q : fq[s] \in Nat
      /\ \A s \in R \ {t} : fr[s] = fq[s]
      /\ \A s \in Threads : resv[s] \in Nat /\ resv'[s] \in Nat
      /\ \A s \in Threads \ {t} : resv[s] = resv'[s]
  <2>1. \A s \in Threads : resv[s] \in Nat /\ resv'[s] \in Nat
    BY BudgetAssumption DEF Reservations
  <2> QED BY <1>1, <1>2, <2>1
<1>6. /\ t \in W => fw[t] = Packs(task[t])
      /\ in /\ t \notin W => Packs(task[t]) = 0
      /\ t \in V => fv[t] = Packs(task'[t])
      /\ in /\ t \notin V => Packs(task'[t]) = 0
      /\ t \in R => fr[t] = Reads(task[t])
      /\ in /\ t \notin R => Reads(task[t]) = 0
      /\ t \in Q => fq[t] = Reads(task'[t])
      /\ in /\ t \notin Q => Reads(task'[t]) = 0
  BY <1>1 DEF Packs, Reads
<1>7. /\ ChargeExact <=> charged = Amount(resv, Threads) + Residing + Amount(fw, W) + Amount(fr, R)
      /\ ChargeExact' <=> charged' = Amount(resv', Threads) + Residing' + Amount(fv, V) + Amount(fq, Q)
  BY DEF ChargeExact, Residing, Resident, Amount
<1>8. in => Stake(t) = resv[t] + Packs(task[t]) + Reads(task[t]) /\ Stake(t)' = resv'[t] + Packs(task'[t]) + Reads(task'[t])
  BY DEF Stake, Packs, Reads, CellsSum, Amount
<1>9. ~in => Stake(t) = 0 /\ Stake(t)' = 0 /\ t \notin W /\ t \notin V /\ t \notin R /\ t \notin Q
  BY DEF Stake
<1> HIDE DEF W, V, R, Q, fw, fv, fr, fq
<1>10. /\ Amount(fw, W) \in Nat /\ Amount(fv, V) \in Nat
       /\ Amount(fv, V) + (IF t \in W THEN fw[t] ELSE 0) = Amount(fw, W) + (IF t \in V THEN fv[t] ELSE 0)
  BY <1>3, <1>4, <1>5, AmountMove
<1>11. /\ Amount(fr, R) \in Nat /\ Amount(fq, Q) \in Nat
       /\ Amount(fq, Q) + (IF t \in R THEN fr[t] ELSE 0) = Amount(fr, R) + (IF t \in Q THEN fq[t] ELSE 0)
  BY <1>3, <1>4, <1>5, AmountMove
<1>12. /\ Amount(resv, Threads) \in Nat /\ Amount(resv', Threads) \in Nat
       /\ Amount(resv', Threads) + (IF in THEN resv[t] ELSE 0) = Amount(resv, Threads) + (IF in THEN resv'[t] ELSE 0)
  <2>1. PICK g, T : g = resv' /\ T = Threads
    OBVIOUS
  <2>2. /\ Amount(resv, Threads) \in Nat /\ Amount(g, T) \in Nat
        /\ Amount(g, T) + (IF t \in Threads THEN resv[t] ELSE 0) = Amount(resv, Threads) + (IF t \in T THEN g[t] ELSE 0)
    <3>1. /\ IsFiniteSet(T) /\ Threads \ {t} = T \ {t}
          /\ \A y \in Threads : resv[y] \in Nat
          /\ \A y \in T : g[y] \in Nat
          /\ \A y \in Threads \ {t} : resv[y] = g[y]
      BY <1>3, <1>5, <2>1
    <3> QED BY <1>3, <3>1, AmountMove
  <2> QED BY <2>1, <2>2
<1>13. /\ Residing \in Nat /\ Residing' \in Nat
  <2>1. IsFiniteSet(Resident) /\ IsFiniteSet(Resident') /\ \A r \in Records : Size[r] \in Nat
    BY FiniteAssumption, FS_Subset, Constants DEF Resident
  <2>2. Amount(Size, Resident) \in Nat /\ Amount(Size, Resident') \in Nat
    <3>1. \A r \in Resident \cup Resident' : Size[r] \in Nat
      BY Constants DEF Resident
    <3> QED BY <2>1, <3>1, StonesFacts
  <2> QED BY <2>2 DEF Residing, Amount
<1> DEFINE a == Amount(resv, Threads) + Amount(fw, W) + Amount(fr, R)
           b == Amount(resv', Threads) + Amount(fv, V) + Amount(fq, Q)
<1>14. a \in Nat /\ b \in Nat
  BY <1>10, <1>11, <1>12
<1>15. /\ ChargeExact <=> charged = a + Residing
       /\ ChargeExact' <=> charged' = b + Residing'
  BY <1>7, <1>10, <1>11, <1>12, <1>13
<1>16. b + Stake(t) = a + Stake(t)'
  <2>1. CASE in
    <3>1. Packs(task[t]) \in Nat /\ Reads(task[t]) \in Nat /\ Packs(task'[t]) \in Nat /\ Reads(task'[t]) \in Nat
      BY <1>0, <2>1, StakesAre
    <3>2. /\ Amount(fv, V) + Packs(task[t]) = Amount(fw, W) + Packs(task'[t])
          /\ Amount(fq, Q) + Reads(task[t]) = Amount(fr, R) + Reads(task'[t])
          /\ Amount(resv', Threads) + resv[t] = Amount(resv, Threads) + resv'[t]
          /\ resv[t] \in Nat /\ resv'[t] \in Nat
      BY <1>5, <1>6, <1>10, <1>11, <1>12, <2>1
    <3> QED BY <1>8, <1>10, <1>11, <1>12, <2>1, <3>1, <3>2
  <2>2. CASE ~in
    BY <1>9, <1>10, <1>11, <1>12, <2>2
  <2> QED BY <2>1, <2>2
<1> QED BY <1>14, <1>15, <1>16

\* The counter is exact after a step of t that moves it by what t gives and
\* takes, and by the sizes of the records that leave RAM and come.
LEMMA ChargeMoves ==
    ASSUME HostInv, HostInv', Counted, Reservations', NEW t,
           \A s \in Threads \ {t} : Rests(s) /\ resv'[s] = resv[s],
           NEW out \in Nat, NEW come \in Nat, Residing' + out = Residing + come,
           charged' \in Int, charged' + Stake(t) + out = charged + Stake(t)' + come
    PROVE  ChargeExact' /\ charged' >= 0
<1>1. PICK a \in Nat, b \in Nat : /\ ChargeExact <=> charged = a + Residing
                                  /\ ChargeExact' <=> charged' = b + Residing'
                                  /\ b + Stake(t) = a + Stake(t)'
  BY ThreadsCharge DEF Counted
<1>2. /\ Residing \in Nat /\ Residing' \in Nat
  <2>1. IsFiniteSet(Resident) /\ IsFiniteSet(Resident')
    BY FiniteAssumption, FS_Subset DEF Resident
  <2>2. \A r \in Resident \cup Resident' : Size[r] \in Nat
    BY Constants DEF Resident
  <2>3. Amount(Size, Resident) \in Nat /\ Amount(Size, Resident') \in Nat
    BY <2>1, <2>2, StonesFacts
  <2> QED BY <2>3 DEF Residing, Amount
<1>3. Stake(t) \in Nat /\ Stake(t)' \in Nat
  <2>1. CASE t \in Threads
    <3>1. TaskShape(task[t]) /\ TaskShape(task'[t]) /\ resv[t] \in Nat /\ resv'[t] \in Nat
      BY <2>1, BudgetAssumption DEF HostInv, TaskInv, Counted, Reservations
    <3>2. Packs(task[t]) \in Nat /\ Reads(task[t]) \in Nat /\ Packs(task'[t]) \in Nat /\ Reads(task'[t]) \in Nat
      BY <3>1, StakesAre
    <3>3. Stake(t) = resv[t] + Packs(task[t]) + Reads(task[t]) /\ Stake(t)' = resv'[t] + Packs(task'[t]) + Reads(task'[t])
      BY <2>1 DEF Stake, Packs, Reads, CellsSum, Amount
    <3> QED BY <3>1, <3>2, <3>3
  <2>2. CASE t \notin Threads
    BY <2>2 DEF Stake
  <2> QED BY <2>1, <2>2
<1>4. charged = a + Residing
  BY <1>1 DEF Counted
<1>5. charged' = b + Residing'
  <2>1. PICK c \in Int, d \in Int : c = charged' /\ d = charged
    BY <1>2, <1>4
  <2>2. PICK e \in Nat, f \in Nat : e = Stake(t) /\ f = Stake(t)'
    BY <1>3
  <2>3. PICK g \in Nat, h \in Nat : g = Residing /\ h = Residing'
    BY <1>2
  <2>4. h + out = g + come
    BY <2>3
  <2>5. c + e + out = d + f + come
    BY <2>1, <2>2
  <2>6. b + e = a + f
    BY <1>1, <2>2
  <2>7. d = a + g
    BY <1>4, <2>1, <2>3
  <2>8. c = b + h
    BY <2>4, <2>5, <2>6, <2>7
  <2> QED BY <2>1, <2>3, <2>8
<1>6. ChargeExact'
  BY <1>1, <1>5
<1>7. charged' >= 0
  <2>1. PICK h \in Nat : h = Residing'
    BY <1>2
  <2>2. b + h >= 0
    OBVIOUS
  <2> QED BY <1>5, <2>1, <2>2
<1> QED BY <1>6, <1>7

\* What leaves and enters RAM, when only the tier of r changes.
LEMMA ResidingMoves ==
    ASSUME NEW r \in Records, \A q \in Records \ {r} : (ram'[q] = None <=> ram[q] = None)
    PROVE  Residing' + (IF ram[r] # None THEN Size[r] ELSE 0) = Residing + (IF ram'[r] # None THEN Size[r] ELSE 0)
<1>1. IsFiniteSet(Resident) /\ IsFiniteSet(Resident')
  BY FiniteAssumption, FS_Subset DEF Resident
<1>2. \A q \in Resident \cup Resident' : Size[q] \in Nat
  BY Constants DEF Resident
<1>3. Resident \ {r} = Resident' \ {r} /\ (r \in Resident <=> ram[r] # None) /\ (r \in Resident' <=> ram'[r] # None)
  BY DEF Resident
<1>4. Amount(Size, Resident') + (IF r \in Resident THEN Size[r] ELSE 0)
        = Amount(Size, Resident) + (IF r \in Resident' THEN Size[r] ELSE 0)
  BY <1>1, <1>2, <1>3, AmountMove
<1>5. Residing' = Amount(Size, Resident') /\ Residing = Amount(Size, Resident)
  BY DEF Residing, Amount
<1> QED BY <1>3, <1>4, <1>5

\* A step that leaves every record in its tier.
LEMMA ResidingSame ==
    ASSUME \A q \in Records : (ram'[q] = None <=> ram[q] = None)
    PROVE  Residing' = Residing /\ Residing \in Nat
<1>1. Resident = Resident' /\ IsFiniteSet(Resident) /\ \A q \in Resident : Size[q] \in Nat
  BY FiniteAssumption, FS_Subset, Constants DEF Resident
<1>2. Amount(Size, Resident) \in Nat
  BY <1>1, StonesFacts
<1> QED BY <1>1, <1>2 DEF Residing, Amount

\* The others' room is not taken: only the holder of the catalog lock charges.
LEMMA OthersBudgeted ==
    ASSUME HostInv, BudgetInv, HostInv', NEW t, NEW s \in Threads \ {t}, Rests(s), resv'[s] = resv[s],
           charged' \in Int, charged' <= charged \/ policy = t
    PROVE  Budgeted(s)'
<1>1. /\ TaskShape(task[s]) /\ (policy = s <=> task[s].pc \in Locking) /\ Budgeted(s)
      /\ charged \in Int /\ RamCapacity \in Int
  BY BudgetAssumption DEF HostInv, TaskInv, LocksSafe, BudgetInv, Counted
<1>2. /\ task'[s].op = task[s].op /\ task'[s].rec = task[s].rec /\ task'[s].bytes = task[s].bytes
      /\ task'[s].batch = task[s].batch /\ task'[s].room = task[s].room
      /\ (task'[s].pc = task[s].pc \/ (task[s].pc = "wait" /\ task'[s].pc = "woken"))
  BY <1>1, RestsStake
<1>3. Packed(s)' = Packed(s) /\ Total(s)' = Total(s)
  BY <1>2 DEF Packed, Total, CellsSum, Amount
<1>4. ASSUME task'[s].pc = "scan"
      PROVE  task'[s].room \in Int /\ charged' + task'[s].room <= RamCapacity /\ (Packed(s)' => Total(s)' <= task'[s].room)
  <2>1. task[s].pc = "scan" /\ policy = s
    BY <1>1, <1>2, <1>4 DEF Locking
  <2>2. charged' <= charged
    BY <2>1
  <2>3. task[s].room \in Int /\ charged + task[s].room <= RamCapacity /\ (Packed(s) => Total(s) <= task[s].room)
    BY <1>1, <2>1 DEF Budgeted
  <2> QED BY <1>1, <1>2, <1>3, <2>2, <2>3
<1> QED BY <1>1, <1>2, <1>4 DEF Budgeted

-----------------------------------------------------------------------------
(* Steps that move no charge, and steps that end a call                     *)

\* What is asked of t, said of its next task.
LEMMA BudgetedNext ==
    ASSUME NEW t, NEW y, y = task'[t], y.op = "reserve" => resv'[t] = 0, y.op = "rewrite" => y.bytes = Size[y.rec],
           y.pc = "scan" => y.room \in Int /\ charged' + y.room <= RamCapacity /\ (Len(y.batch) > 1 => CellsSum(y.batch) <= y.room)
    PROVE  Budgeted(t)'
<1>1. Packed(t)' = (Len(y.batch) > 1) /\ Total(t)' = CellsSum(y.batch)
  BY DEF Packed, Total, CellsSum, Amount
<1> QED BY <1>1 DEF Budgeted

\* No extent comes, and none loses its owner.
LEMMA NothingLeaks ==
    ASSUME NoLeak, UNCHANGED diskVars, \A r \in Records : disk'[r] = disk[r],
           \A s \in Threads : task'[s].dests = task[s].dests
    PROVE  NoLeak'
<1>1. UsedRanges' = UsedRanges
  BY DEF diskVars, UsedRanges
<1> QED BY <1>1 DEF NoLeak

\* A step of t, or of an owner when t is None, after which every record is in
\* its tier and its place in the catalog.
Calm(t) ==
    /\ UNCHANGED diskVars
    /\ residents' = residents /\ registrations' = registrations /\ moving' \subseteq Records
    /\ \A r \in Records : /\ disk'[r] = disk[r] /\ (ram'[r] = None <=> ram[r] = None)
                          /\ Alive(r)' => Alive(r)
    /\ \A s \in Threads \ {t} : Rests(s) /\ resv'[s] = resv[s]
    /\ Reservations'
    /\ charged' \in Int /\ charged' <= RamCapacity /\ (charged' <= charged \/ policy = t)
    /\ charged' + Stake(t) = charged + Stake(t)'
    /\ t \in Threads => task'[t].dests = task[t].dests /\ Budgeted(t)'

\* A calm step keeps the books.
LEMMA CalmBooks ==
    ASSUME HostInv, HostInv', BudgetInv, NEW t, Calm(t)
    PROVE  BudgetInv'
<1>1. \A s \in Threads : task'[s].dests = task[s].dests
  <2> TAKE s \in Threads
  <2>1. CASE s = t
    BY <2>1 DEF Calm
  <2>2. CASE s # t
    BY <2>2, RestsStake DEF Calm, HostInv, TaskInv
  <2> QED BY <2>1, <2>2
<1>2. NoLeak'
  BY <1>1, NothingLeaks DEF Calm, BudgetInv
<1>3. Catalogued'
  BY CatalogKept DEF Calm, BudgetInv
<1>4. \A s \in Threads : Budgeted(s)'
  <2> TAKE s \in Threads
  <2>1. CASE s = t
    BY <2>1 DEF Calm
  <2>2. CASE s # t
    BY <2>2, OthersBudgeted DEF Calm
  <2> QED BY <2>1, <2>2
<1>5. Counted'
  <2>1. Residing' = Residing /\ Residing \in Nat
    BY ResidingSame DEF Calm
  <2>2. PICK z \in Nat : z = 0
    OBVIOUS
  <2>3. Residing' + z = Residing + z
    BY <2>1, <2>2
  <2>4. charged' + Stake(t) + z = charged + Stake(t)' + z
    <3>1. charged \in Int /\ charged' \in Int /\ Stake(t) \in Int /\ Stake(t)' \in Int
      <4>1. CASE t \in Threads
        <5>1. TaskShape(task[t]) /\ TaskShape(task'[t]) /\ resv[t] \in Int /\ resv'[t] \in Int
          BY <4>1 DEF HostInv, TaskInv, Reservations, Calm, BudgetInv, Counted
        <5>2. Packs(task[t]) \in Nat /\ Reads(task[t]) \in Nat /\ Packs(task'[t]) \in Nat /\ Reads(task'[t]) \in Nat
          BY <5>1, StakesAre
        <5>3. Stake(t) = resv[t] + Packs(task[t]) + Reads(task[t]) /\ Stake(t)' = resv'[t] + Packs(task'[t]) + Reads(task'[t])
          BY <4>1 DEF Stake, Packs, Reads, CellsSum, Amount
        <5> QED BY <5>1, <5>2, <5>3 DEF Calm, BudgetInv, Counted
      <4>2. CASE t \notin Threads
        BY <4>2 DEF Stake, Calm, BudgetInv, Counted
      <4> QED BY <4>1, <4>2
    <3> QED BY <2>2, <3>1 DEF Calm
  <2>5. ChargeExact' /\ charged' >= 0
    BY <2>2, <2>3, <2>4, ChargeMoves DEF Calm, BudgetInv
  <2>6. charged' \in 0 .. RamCapacity
    BY <2>5, BudgetAssumption DEF Calm
  <2> QED BY <2>5, <2>6 DEF Counted, Calm, BudgetInv
<1> QED BY <1>2, <1>3, <1>4, <1>5 DEF BudgetInv

\* A step of t that touches no record and no extent.
LEMMA StillBooks ==
    ASSUME HostInv, HostInv', BudgetInv, NEW t \in Threads, UNCHANGED <<diskVars, recVars>>,
           residents' = residents, registrations' = registrations, moving' \subseteq Records,
           \A s \in Threads \ {t} : Rests(s) /\ resv'[s] = resv[s],
           Reservations', NEW x, x = task[t], NEW y, y = task'[t], y.batch = x.batch, y.dests = x.dests,
           charged' \in Int, charged' <= RamCapacity, charged' <= charged \/ policy = t,
           charged' + resv[t] + Packs(x) + Reads(x) = charged + resv'[t] + Packs(y) + Reads(y),
           Budgeted(t)'
    PROVE  BudgetInv'
<1>1. held' = held /\ pins' = pins /\ readers' = readers /\ ram' = ram /\ disk' = disk
  BY DEF recVars
<1>2. \A s \in Threads : task'[s].batch = task[s].batch
  <2> TAKE s \in Threads
  <2>2. CASE s # t
    BY <2>2, RestsStake DEF HostInv, TaskInv
  <2> QED BY <2>2
<1>3. \A r \in Records : Alive(r)' <=> Alive(r)
  BY <1>1, <1>2, BatchedKept DEF Alive
<1>4. charged' + Stake(t) = charged + Stake(t)'
  <2>1. TaskShape(x) /\ TaskShape(y) /\ resv[t] \in Int /\ resv'[t] \in Int
    BY DEF HostInv, TaskInv, Reservations, BudgetInv, Counted
  <2>2. Packs(x) \in Nat /\ Reads(x) \in Nat /\ Packs(y) \in Nat /\ Reads(y) \in Nat
    BY <2>1, StakesAre
  <2>3. Stake(t) = resv[t] + Packs(x) + Reads(x) /\ Stake(t)' = resv'[t] + Packs(y) + Reads(y)
    BY DEF Stake, Packs, Reads, CellsSum, Amount
  <2>4. charged \in Int
    BY DEF BudgetInv, Counted
  <2> QED BY <2>1, <2>2, <2>3, <2>4
<1>5. Calm(t)
  BY <1>1, <1>3, <1>4 DEF Calm
<1> QED BY <1>5, CalmBooks

\* What the books say of one thread and of the counter.
LEMMA MyBooks ==
    ASSUME HostInv, BudgetInv, NEW t \in Threads
    PROVE  LET x == task[t] IN
           /\ charged \in Int /\ charged <= RamCapacity /\ charged >= 0 /\ RamCapacity \in Int /\ moving \subseteq Records
           /\ resv[t] \in Int /\ resv[t] >= 0
           /\ x.op = "reserve" => resv[t] = 0
           /\ x.op = "rewrite" => x.bytes = Size[x.rec]
           /\ TaskShape(x) /\ Phased(x) /\ DOMAIN task = Threads
           /\ Packs(x) \in Nat /\ Reads(x) \in Nat /\ x.bytes \in Nat
           /\ \A s \in Threads : resv[s] \in 0 .. RamCapacity
           /\ policy = t <=> x.pc \in Locking
<1>1. TaskShape(task[t]) /\ Phased(task[t]) /\ DOMAIN task = Threads /\ (policy = t <=> task[t].pc \in Locking)
  BY Mine
<1>2. Packs(task[t]) \in Nat /\ Reads(task[t]) \in Nat /\ task[t].bytes \in Nat
  BY <1>1, StakesAre DEF TaskShape
<1>3. Budgeted(t) /\ charged \in 0 .. RamCapacity /\ moving \subseteq Records /\ RamCapacity \in Int
      /\ \A s \in Threads : resv[s] \in 0 .. RamCapacity
  BY BudgetAssumption DEF BudgetInv, Counted, Reservations
<1> QED BY <1>1, <1>2, <1>3 DEF Budgeted

\* A step of t that charges and returns nothing.
LEMMA MovesOn ==
    ASSUME HostInv, HostInv', BudgetInv, NEW t \in Threads, UNCHANGED <<diskVars, recVars, charged, resv>>,
           residents' = residents, registrations' = registrations, moving' \subseteq Records,
           \A s \in Threads \ {t} : Rests(s),
           NEW x, x = task[t], NEW y, y = task'[t], y.batch = x.batch, y.dests = x.dests,
           y.op = "none" \/ (y.op = x.op /\ y.bytes = x.bytes /\ y.rec = x.rec),
           Packs(y) + Reads(y) = Packs(x) + Reads(x), y.pc # "scan"
    PROVE  BudgetInv'
<1>1. /\ charged \in Int /\ charged <= RamCapacity /\ resv[t] \in Int
      /\ x.op = "reserve" => resv[t] = 0
      /\ x.op = "rewrite" => x.bytes = Size[x.rec]
      /\ Packs(x) \in Int /\ Reads(x) \in Int
  BY MyBooks
<1>2. Packs(y) \in Int /\ Reads(y) \in Int
  BY StakesAre DEF HostInv, TaskInv
<1>3. Budgeted(t)'
  BY <1>1, BudgetedNext
<1>4. Reservations'
  BY DEF BudgetInv, Counted, Reservations
<1>5. charged' = charged /\ resv' = resv
  OBVIOUS
<1>6. charged' + resv[t] + Packs(x) + Reads(x) = charged + resv'[t] + Packs(y) + Reads(y)
  BY <1>1, <1>2, <1>5
<1> QED BY <1>1, <1>3, <1>4, <1>5, <1>6, StillBooks

\* A long operation is left.
LEMMA LeaveBooks ==
    ASSUME HostInv, HostInv', BudgetInv, NEW t \in Threads, Leave(t), task[t].pc \in Locking,
           task[t].batch = <<>>, task[t].dests = <<>>, UNCHANGED <<diskVars, recVars, charged, catVars>>
    PROVE  BudgetInv'
<1> DEFINE x == task[t]
           y == task'[t]
<1>1. TaskShape(x) /\ DOMAIN task = Threads /\ moving \subseteq Records
  BY MyBooks
<1>2. y = Idle /\ \A s \in Threads \ {t} : Rests(s)
  BY <1>1 DEF Leave, Rests
<1>3. y.batch = x.batch /\ y.dests = x.dests /\ y.op = "none" /\ y.pc = "idle"
  BY <1>2 DEF Idle
<1>4. Packs(y) = 0 /\ Reads(y) = 0 /\ Packs(x) = 0 /\ Reads(x) = 0
  BY <1>3 DEF Packs, Reads, Locking
<1>5. residents' = residents /\ registrations' = registrations /\ moving' \subseteq Records /\ resv' = resv
  BY <1>1 DEF catVars, Leave
<1> HIDE DEF x, y
<1> QED BY <1>2, <1>3, <1>4, <1>5, MovesOn DEF x, y

\* A charge is granted.
LEMMA GrantBooks ==
    ASSUME HostInv, HostInv', BudgetInv, NEW t \in Threads, Granted(t), task[t].pc \in {"charge", "scan"},
           task[t].op # "trim", task[t].batch = <<>>, task[t].dests = <<>>,
           UNCHANGED <<diskVars, recVars, catVars>>, NEW h \in Nat, Fits(task[t].bytes, h)
    PROVE  BudgetInv'
<1> DEFINE x == task[t]
           y == task'[t]
<1>1. /\ charged \in Int /\ charged <= RamCapacity /\ charged >= 0 /\ RamCapacity \in Int /\ moving \subseteq Records
      /\ resv[t] \in Int /\ (x.op = "reserve" => resv[t] = 0)
      /\ x.op = "rewrite" => x.bytes = Size[x.rec]
      /\ TaskShape(x) /\ Phased(x) /\ DOMAIN task = Threads /\ x.bytes \in Nat
      /\ \A s \in Threads : resv[s] \in 0 .. RamCapacity
      /\ policy = t
  BY MyBooks DEF Locking
<1>2. charged' = charged + x.bytes /\ charged' <= RamCapacity /\ charged' \in Int /\ x.bytes \in 0 .. RamCapacity
  BY <1>1 DEF Granted, Fits
<1>3. residents' = residents /\ registrations' = registrations /\ moving' \subseteq Records
  BY <1>1 DEF catVars
<1>4. Packs(x) = 0 /\ Reads(x) = 0 /\ (x.op = "reserve" \/ x.op = "rewrite")
  BY <1>1 DEF Packs, Reads, Phased, TaskShape
<1>5. Reservations
  BY DEF BudgetInv, Counted
<1>6. CASE x.op = "reserve"
  <2>1. resv' = [resv EXCEPT ![t] = x.bytes] /\ task' = [task EXCEPT ![t] = Idle]
    BY <1>6 DEF Granted
  <2>2. y = Idle /\ \A s \in Threads \ {t} : Rests(s)
    BY <1>1, <2>1 DEF Rests
  <2>3. y.batch = x.batch /\ y.dests = x.dests /\ y.op = "none" /\ y.pc = "idle"
    BY <2>2 DEF Idle
  <2>4. Packs(y) = 0 /\ Reads(y) = 0
    BY <2>3 DEF Packs, Reads
  <2>5. Reservations' /\ resv'[t] = x.bytes /\ \A s \in Threads \ {t} : resv'[s] = resv[s]
    BY <1>2, <1>5, <2>1 DEF Reservations
  <2> HIDE DEF x, y
  <2>6. Budgeted(t)'
    BY <2>3, BudgetedNext DEF y
  <2>7. charged' + resv[t] + Packs(x) + Reads(x) = charged + resv'[t] + Packs(y) + Reads(y)
    BY <1>1, <1>2, <1>4, <1>6, <2>4, <2>5
  <2> QED BY <1>1, <1>2, <1>3, <2>2, <2>3, <2>5, <2>6, <2>7, StillBooks DEF x, y
<1>7. CASE x.op = "rewrite"
  <2>1. resv' = resv /\ task' = [task EXCEPT ![t].pc = "read"]
    BY <1>7 DEF Granted
  <2>2. /\ \A s \in Threads \ {t} : Rests(s)
        /\ y.batch = x.batch /\ y.dests = x.dests /\ y.op = x.op /\ y.pc = "read" /\ y.rec = x.rec /\ y.bytes = x.bytes
    BY <1>1, <2>1 DEF Rests, TaskShape
  <2>3. Packs(y) = 0 /\ Reads(y) = x.bytes /\ resv'[t] = resv[t]
    BY <2>1, <2>2 DEF Packs, Reads
  <2> HIDE DEF x, y
  <2>4. Budgeted(t)'
    BY <1>1, <1>7, <2>2, BudgetedNext DEF y
  <2>5. charged' + resv[t] + Packs(x) + Reads(x) = charged + resv'[t] + Packs(y) + Reads(y)
    BY <1>1, <1>2, <1>4, <2>3
  <2>6. Reservations' /\ \A s \in Threads \ {t} : resv'[s] = resv[s]
    BY <1>5, <2>1 DEF Reservations
  <2> QED BY <1>1, <1>2, <1>3, <2>2, <2>4, <2>5, <2>6, StillBooks DEF x, y
<1> QED BY <1>4, <1>6, <1>7

-----------------------------------------------------------------------------
(* The books after each step: the loops of reserve and trim                 *)

-----------------------------------------------------------------------------
(* The books over steps that move no record                                 *)

\* The catalog, the reservations and the counter are left alone.
LEMMA SameBooks ==
    ASSUME BudgetInv, UNCHANGED catVars
    PROVE  residents' = residents /\ registrations' = registrations /\ moving' \subseteq Records
BY DEF catVars, BudgetInv, Counted

\* A call of reserve has charged nothing yet.
LEMMA ReservingBooks ==
    ASSUME HostInv, HostInv', BudgetInv, NEW t \in Threads, NEW n \in Demands, Reserving(t, n)
    PROVE  BudgetInv'
<1> DEFINE x == task[t]
           y == task'[t]
<1>1. x = Idle /\ DOMAIN task = Threads /\ resv[t] = 0 /\ UNCHANGED <<diskVars, recVars, charged, resv, catVars>>
  BY MyBooks DEF Reserving
<1>2. y = [Idle EXCEPT !.pc = "charge", !.op = "reserve", !.bytes = n] /\ \A s \in Threads \ {t} : Rests(s)
  BY <1>1 DEF Reserving, Rests
<1>3. y.batch = x.batch /\ y.dests = x.dests /\ y.op = "reserve" /\ y.pc = "charge" /\ x.pc = "idle"
  BY <1>1, <1>2 DEF Idle
<1>4. Packs(y) = 0 /\ Reads(y) = 0 /\ Packs(x) = 0 /\ Reads(x) = 0
  BY <1>3 DEF Packs, Reads
<1> HIDE DEF x, y
<1>5. Budgeted(t)' /\ resv' = resv /\ charged' = charged
  BY <1>1, <1>3, BudgetedNext DEF y
<1>6. Reservations' /\ charged \in Int /\ charged <= RamCapacity /\ resv[t] \in Int
  BY <1>5, MyBooks DEF BudgetInv, Counted, Reservations
<1>7. charged' + resv[t] + Packs(x) + Reads(x) = charged + resv'[t] + Packs(y) + Reads(y)
  BY <1>4, <1>5, <1>6
<1>8. /\ residents' = residents /\ registrations' = registrations /\ moving' \subseteq Records
      /\ \A s \in Threads \ {t} : Rests(s) /\ resv'[s] = resv[s]
      /\ charged' \in Int /\ charged' <= RamCapacity /\ charged' <= charged
  BY <1>1, <1>2, <1>5, <1>6, SameBooks
<1> QED BY <1>1, <1>3, <1>5, <1>6, <1>7, <1>8, StillBooks DEF x, y

\* A call of trim charges nothing.
LEMMA TrimmingBooks ==
    ASSUME HostInv, HostInv', BudgetInv, NEW t \in Threads, NEW n \in Targets, Trimming(t, n)
    PROVE  BudgetInv'
<1> DEFINE x == task[t]
           y == task'[t]
<1>1. x = Idle /\ DOMAIN task = Threads /\ UNCHANGED <<diskVars, recVars, charged, resv, catVars>>
  BY MyBooks DEF Trimming
<1>2. y = [Idle EXCEPT !.pc = "trim", !.op = "trim", !.bytes = n] /\ \A s \in Threads \ {t} : Rests(s)
  BY <1>1 DEF Trimming, Rests
<1>3. y.batch = x.batch /\ y.dests = x.dests /\ y.op = "trim" /\ y.pc = "trim" /\ x.pc = "idle"
  BY <1>1, <1>2 DEF Idle
<1>4. Packs(y) = 0 /\ Reads(y) = 0 /\ Packs(x) = 0 /\ Reads(x) = 0
  BY <1>3 DEF Packs, Reads
<1> HIDE DEF x, y
<1>5. Budgeted(t)' /\ resv' = resv /\ charged' = charged
  BY <1>1, <1>3, BudgetedNext DEF y
<1>6. Reservations' /\ charged \in Int /\ charged <= RamCapacity /\ resv[t] \in Int
  BY <1>5, MyBooks DEF BudgetInv, Counted, Reservations
<1>7. charged' + resv[t] + Packs(x) + Reads(x) = charged + resv'[t] + Packs(y) + Reads(y)
  BY <1>4, <1>5, <1>6
<1>8. /\ residents' = residents /\ registrations' = registrations /\ moving' \subseteq Records
      /\ \A s \in Threads \ {t} : Rests(s) /\ resv'[s] = resv[s]
      /\ charged' \in Int /\ charged' <= RamCapacity /\ charged' <= charged
  BY <1>1, <1>2, <1>5, <1>6, SameBooks
<1> QED BY <1>1, <1>3, <1>5, <1>6, <1>7, <1>8, StillBooks DEF x, y

\* A rewrite starts with the size of its record.
LEMMA RewritingBooks ==
    ASSUME HostInv, HostInv', BudgetInv, NEW t \in Threads, NEW r \in Records, Rewriting(t, r)
    PROVE  BudgetInv'
<1> DEFINE x == task[t]
           y == task'[t]
<1>1. x = Idle /\ DOMAIN task = Threads /\ UNCHANGED <<diskVars, recVars, charged, resv, catVars>>
  BY MyBooks DEF Rewriting
<1>2. y = [Idle EXCEPT !.pc = "lock", !.op = "rewrite", !.rec = r, !.bytes = Size[r]] /\ \A s \in Threads \ {t} : Rests(s)
  BY <1>1 DEF Rewriting, Rests
<1>3. y.batch = x.batch /\ y.dests = x.dests /\ y.op = "rewrite" /\ y.pc = "lock" /\ y.bytes = Size[y.rec] /\ x.pc = "idle"
  BY <1>1, <1>2 DEF Idle
<1>4. Packs(y) = 0 /\ Reads(y) = 0 /\ Packs(x) = 0 /\ Reads(x) = 0
  BY <1>3 DEF Packs, Reads
<1> HIDE DEF x, y
<1>5. Budgeted(t)' /\ resv' = resv /\ charged' = charged
  BY <1>1, <1>3, BudgetedNext DEF y
<1>6. Reservations' /\ charged \in Int /\ charged <= RamCapacity /\ resv[t] \in Int
  BY <1>5, MyBooks DEF BudgetInv, Counted, Reservations
<1>7. charged' + resv[t] + Packs(x) + Reads(x) = charged + resv'[t] + Packs(y) + Reads(y)
  BY <1>4, <1>5, <1>6
<1>8. /\ residents' = residents /\ registrations' = registrations /\ moving' \subseteq Records
      /\ \A s \in Threads \ {t} : Rests(s) /\ resv'[s] = resv[s]
      /\ charged' \in Int /\ charged' <= RamCapacity /\ charged' <= charged
  BY <1>1, <1>2, <1>5, <1>6, SameBooks
<1> QED BY <1>1, <1>3, <1>5, <1>6, <1>7, <1>8, StillBooks DEF x, y

\* The head of the loop of reserve_locked.
LEMMA ChargeBooks ==
    ASSUME HostInv, HostInv', BudgetInv, NEW t \in Threads, Charge(t)
    PROVE  BudgetInv'
<1> DEFINE x == task[t]
           y == task'[t]
<1>1. /\ TaskShape(x) /\ Phased(x) /\ DOMAIN task = Threads /\ x.pc = "charge" /\ x.op # "trim"
      /\ UNCHANGED <<diskVars, recVars, catVars>> /\ x.batch = <<>> /\ x.dests = <<>>
  BY MyBooks DEF Charge, Phased, Choosing
<1>2. CASE Fits(x.bytes, Headroom(x.bytes))
  <2>1. Headroom(x.bytes) \in Nat /\ Granted(t)
    BY <1>2, BudgetAssumption DEF Charge, Headroom
  <2> QED BY <1>1, <1>2, <2>1, GrantBooks
<1>3. CASE ~Fits(x.bytes, Headroom(x.bytes))
  <2>1. task' = [task EXCEPT ![t].pc = "evict"] /\ UNCHANGED <<charged, resv>>
    BY <1>3 DEF Charge
  <2>2. /\ y.op = x.op /\ y.rec = x.rec /\ y.bytes = x.bytes /\ y.batch = x.batch /\ y.dests = x.dests /\ y.pc = "evict"
        /\ \A s \in Threads \ {t} : Rests(s)
    BY <1>1, <2>1 DEF TaskShape, Rests
  <2>3. Packs(y) = 0 /\ Reads(y) = 0 /\ Packs(x) = 0 /\ Reads(x) = 0
    BY <1>1, <2>2 DEF Packs, Reads
  <2> HIDE DEF x, y
  <2> QED BY <1>1, <2>1, <2>2, <2>3, SameBooks, MovesOn DEF x, y
<1> QED BY <1>2, <1>3

\* The head of the loop of trim.
LEMMA TrimTestBooks ==
    ASSUME HostInv, HostInv', BudgetInv, NEW t \in Threads, TrimTest(t)
    PROVE  BudgetInv'
<1> DEFINE x == task[t]
           y == task'[t]
<1>1. /\ TaskShape(x) /\ Phased(x) /\ DOMAIN task = Threads /\ x.pc = "trim"
      /\ UNCHANGED <<diskVars, recVars, charged, catVars>> /\ x.batch = <<>> /\ x.dests = <<>>
  BY MyBooks DEF TrimTest, Phased, Choosing
<1>2. CASE ~(charged > x.bytes)
  <2>1. Leave(t)
    BY <1>2 DEF TrimTest
  <2> QED BY <1>1, <2>1, LeaveBooks DEF Locking
<1>3. CASE charged > x.bytes
  <2>1. task' = [task EXCEPT ![t].pc = "evict"] /\ UNCHANGED resv
    BY <1>3 DEF TrimTest
  <2>2. /\ y.op = x.op /\ y.rec = x.rec /\ y.bytes = x.bytes /\ y.batch = x.batch /\ y.dests = x.dests /\ y.pc = "evict"
        /\ \A s \in Threads \ {t} : Rests(s)
    BY <1>1, <2>1 DEF TaskShape, Rests
  <2>3. Packs(y) = 0 /\ Reads(y) = 0 /\ Packs(x) = 0 /\ Reads(x) = 0
    BY <1>1, <2>2 DEF Packs, Reads
  <2> HIDE DEF x, y
  <2> QED BY <1>1, <2>1, <2>2, <2>3, SameBooks, MovesOn DEF x, y
<1> QED BY <1>2, <1>3

\* A wait that ends for no reason.
LEMMA SpuriousWakeBooks ==
    ASSUME HostInv, HostInv', BudgetInv, NEW t \in Threads, SpuriousWake(t)
    PROVE  BudgetInv'
<1> DEFINE x == task[t]
           y == task'[t]
<1>1. /\ TaskShape(x) /\ DOMAIN task = Threads /\ x.pc = "wait" /\ task' = [task EXCEPT ![t].pc = "woken"]
      /\ UNCHANGED <<diskVars, recVars, charged, resv, catVars>>
  BY MyBooks DEF SpuriousWake
<1>2. /\ y.op = x.op /\ y.rec = x.rec /\ y.bytes = x.bytes /\ y.batch = x.batch /\ y.dests = x.dests /\ y.pc = "woken"
      /\ \A s \in Threads \ {t} : Rests(s)
  BY <1>1 DEF TaskShape, Rests
<1>3. Packs(y) = 0 /\ Reads(y) = 0 /\ Packs(x) = 0 /\ Reads(x) = 0
  BY <1>1, <1>2 DEF Packs, Reads
<1> HIDE DEF x, y
<1> QED BY <1>1, <1>2, <1>3, SameBooks, MovesOn DEF x, y

\* A woken thread takes the catalog lock again.
LEMMA RelockBooks ==
    ASSUME HostInv, HostInv', BudgetInv, NEW t \in Threads, Relock(t)
    PROVE  BudgetInv'
<1> DEFINE x == task[t]
           y == task'[t]
<1>1. /\ TaskShape(x) /\ DOMAIN task = Threads /\ x.pc = "woken" /\ task' = [task EXCEPT ![t].pc = "charge"]
      /\ UNCHANGED <<diskVars, recVars, charged, resv, catVars>>
  BY MyBooks DEF Relock
<1>2. /\ y.op = x.op /\ y.rec = x.rec /\ y.bytes = x.bytes /\ y.batch = x.batch /\ y.dests = x.dests /\ y.pc = "charge"
      /\ \A s \in Threads \ {t} : Rests(s)
  BY <1>1 DEF TaskShape, Rests
<1>3. Packs(y) = 0 /\ Reads(y) = 0 /\ Packs(x) = 0 /\ Reads(x) = 0
  BY <1>1, <1>2 DEF Packs, Reads
<1> HIDE DEF x, y
<1> QED BY <1>1, <1>2, <1>3, SameBooks, MovesOn DEF x, y

\* The room of a batch is what is free now: the smaller of the buffer and the
\* rest of the budget.
LEMMA EvictStartBooks ==
    ASSUME HostInv, HostInv', BudgetInv, NEW t \in Threads, EvictStart(t)
    PROVE  BudgetInv'
<1> DEFINE x == task[t]
           y == task'[t]
           m == Min({BatchBytes, RamCapacity - charged})
<1>1. /\ TaskShape(x) /\ Phased(x) /\ DOMAIN task = Threads /\ x.pc = "evict" /\ x.batch = <<>>
      /\ task' = [task EXCEPT ![t].pc = "scan", ![t].left = Len(residents), ![t].room = m]
      /\ UNCHANGED <<diskVars, recVars, charged, resv, catVars>>
  BY MyBooks DEF EvictStart, Phased, Choosing
<1>2. /\ y.op = x.op /\ y.rec = x.rec /\ y.bytes = x.bytes /\ y.batch = x.batch /\ y.dests = x.dests /\ y.pc = "scan"
      /\ y.room = m /\ \A s \in Threads \ {t} : Rests(s)
  BY <1>1 DEF TaskShape, Rests
<1>3. Packs(y) = 0 /\ Reads(y) = 0 /\ Packs(x) = 0 /\ Reads(x) = 0
  BY <1>1, <1>2 DEF Packs, Reads
<1>4. /\ charged \in Int /\ charged <= RamCapacity /\ RamCapacity \in Int /\ resv[t] \in Int
      /\ x.op = "reserve" => resv[t] = 0
      /\ x.op = "rewrite" => x.bytes = Size[x.rec]
  BY MyBooks
<1>5. m \in Int /\ charged + m <= RamCapacity
  <2>1. m = CHOOSE k \in {BatchBytes, RamCapacity - charged} : \A j \in {BatchBytes, RamCapacity - charged} : k <= j
    BY DEF Min
  <2>2. BatchBytes \in Int /\ RamCapacity - charged \in Int
    BY <1>4, BudgetAssumption
  <2>3. PICK a \in Int, b \in Int : a = BatchBytes /\ b = RamCapacity - charged
    BY <2>2
  <2>4. \E k \in {a, b} : \A j \in {a, b} : k <= j
    OBVIOUS
  <2>5. m \in {a, b} /\ \A j \in {a, b} : m <= j
    BY <2>1, <2>3, <2>4
  <2> QED BY <1>4, <2>3, <2>5
<1>6. ~(Len(y.batch) > 1)
  BY <1>1, <1>2
<1> HIDE DEF x, y, m
<1>8. Reservations' /\ resv' = resv /\ charged' = charged
  BY <1>1 DEF BudgetInv, Counted, Reservations
<1>7. Budgeted(t)'
  <2>1. /\ y.op = "reserve" => resv'[t] = 0
        /\ y.op = "rewrite" => y.bytes = Size[y.rec]
        /\ y.room \in Int /\ charged' + y.room <= RamCapacity
    BY <1>2, <1>4, <1>5, <1>8
  <2> QED BY <1>6, <2>1, BudgetedNext DEF y
<1>9. charged' + resv[t] + Packs(x) + Reads(x) = charged + resv'[t] + Packs(y) + Reads(y)
  BY <1>3, <1>4, <1>8
<1>10. /\ residents' = residents /\ registrations' = registrations /\ moving' \subseteq Records
       /\ \A s \in Threads \ {t} : Rests(s) /\ resv'[s] = resv[s]
       /\ charged' \in Int /\ charged' <= RamCapacity /\ charged' <= charged
  BY <1>1, <1>2, <1>4, <1>8, SameBooks
<1>11. UNCHANGED <<diskVars, recVars>> /\ y.batch = x.batch /\ y.dests = x.dests
  BY <1>1, <1>2
<1> QED BY <1>7, <1>8, <1>9, <1>10, <1>11, StillBooks DEF x, y

\* The batch is unwound.
LEMMA UnwindDoneBooks ==
    ASSUME HostInv, HostInv', BudgetInv, NEW t \in Threads, UnwindDone(t)
    PROVE  BudgetInv'
<1> DEFINE x == task[t]
           y == task'[t]
<1>1. /\ TaskShape(x) /\ DOMAIN task = Threads /\ x.pc = "unwind"
      /\ UNCHANGED <<diskVars, recVars, charged, catVars>> /\ x.batch = <<>> /\ x.dests = <<>>
  BY MyBooks DEF UnwindDone
<1>2. CASE ~x.ok
  <2>1. Leave(t)
    BY <1>2 DEF UnwindDone
  <2> QED BY <1>1, <2>1, LeaveBooks DEF Locking
<1>3. CASE x.ok
  <2>1. task' = [task EXCEPT ![t].pc = IF x.op = "trim" THEN "trim" ELSE "charge"] /\ UNCHANGED resv
    BY <1>3 DEF UnwindDone
  <2>2. /\ y.op = x.op /\ y.rec = x.rec /\ y.bytes = x.bytes /\ y.batch = x.batch /\ y.dests = x.dests
        /\ y.pc # "scan" /\ y.pc # "write" /\ y.pc # "read" /\ y.pc # "install"
        /\ \A s \in Threads \ {t} : Rests(s)
    BY <1>1, <2>1 DEF TaskShape, Rests
  <2>3. Packs(y) = 0 /\ Reads(y) = 0 /\ Packs(x) = 0 /\ Reads(x) = 0
    BY <1>1, <2>2 DEF Packs, Reads
  <2> HIDE DEF x, y
  <2>4. /\ residents' = residents /\ registrations' = registrations /\ moving' \subseteq Records
        /\ UNCHANGED <<diskVars, recVars, charged, resv>>
    BY <1>1, <2>1, SameBooks
  <2>5. Packs(y) + Reads(y) = Packs(x) + Reads(x)
    BY <2>3
  <2> QED BY <2>2, <2>4, <2>5, MovesOn DEF x, y
<1> QED BY <1>2, <1>3

\* The bytes are read back.
LEMMA ReadBackBooks ==
    ASSUME HostInv, HostInv', BudgetInv, NEW t \in Threads, ReadBack(t)
    PROVE  BudgetInv'
<1> DEFINE x == task[t]
           y == task'[t]
<1>1. /\ TaskShape(x) /\ DOMAIN task = Threads /\ x.pc = "read"
      /\ task' = [task EXCEPT ![t].pc = "install", ![t].data = OnDisk(x.rec)]
      /\ UNCHANGED <<diskVars, recVars, charged, resv, catVars>>
  BY MyBooks DEF ReadBack
<1>2. /\ y.op = x.op /\ y.rec = x.rec /\ y.bytes = x.bytes /\ y.batch = x.batch /\ y.dests = x.dests /\ y.pc = "install"
      /\ \A s \in Threads \ {t} : Rests(s)
  BY <1>1 DEF TaskShape, Rests
<1>3. Packs(y) = 0 /\ Packs(x) = 0 /\ Reads(x) = Reads(y)
  BY <1>1, <1>2 DEF Packs, Reads
<1>4. Packs(y) + Reads(y) = Packs(x) + Reads(x)
  BY <1>3
<1> HIDE DEF x, y
<1> QED BY <1>1, <1>2, <1>4, SameBooks, MovesOn DEF x, y

\* A failed read returns its charge.
LEMMA ReadFailsBooks ==
    ASSUME HostInv, HostInv', BudgetInv, NEW t \in Threads, ReadFails(t)
    PROVE  BudgetInv'
<1> DEFINE x == task[t]
           y == task'[t]
<1>1. /\ TaskShape(x) /\ Phased(x) /\ DOMAIN task = Threads /\ x.pc = "read" /\ x.batch = <<>> /\ x.dests = <<>>
      /\ charged' = charged - x.bytes /\ task' = [task EXCEPT ![t] = Idle]
      /\ UNCHANGED <<diskVars, recVars, resv, catVars>>
  BY MyBooks DEF ReadFails, Phased, Choosing
<1>2. y = Idle /\ \A s \in Threads \ {t} : Rests(s)
  BY <1>1 DEF Rests
<1>3. y.batch = x.batch /\ y.dests = x.dests /\ y.op = "none" /\ y.pc = "idle"
  BY <1>1, <1>2 DEF Idle
<1>4. Packs(y) = 0 /\ Reads(y) = 0 /\ Packs(x) = 0 /\ Reads(x) = x.bytes
  BY <1>1, <1>3 DEF Packs, Reads
<1>5. charged \in Int /\ charged <= RamCapacity /\ RamCapacity \in Int /\ resv[t] \in Int /\ x.bytes \in Nat
  BY MyBooks
<1> HIDE DEF x, y
<1>6. Budgeted(t)' /\ resv' = resv
  BY <1>1, <1>3, BudgetedNext DEF y
<1>7. Reservations' /\ charged' \in Int /\ charged' <= charged /\ charged' <= RamCapacity
  BY <1>1, <1>5, <1>6 DEF BudgetInv, Counted, Reservations
<1>8. charged' + resv[t] + Packs(x) + Reads(x) = charged + resv'[t] + Packs(y) + Reads(y)
  BY <1>1, <1>4, <1>5, <1>6
<1> QED BY <1>1, <1>2, <1>3, <1>6, <1>7, <1>8, SameBooks, StillBooks DEF x, y

-----------------------------------------------------------------------------
(* The books: the scan, the writes and the calls                            *)

\* The packing buffer is charged for the duration of the writes; the scan left
\* room for it.
LEMMA ScanEndBooks ==
    ASSUME HostInv, HostInv', BudgetInv, NEW t \in Threads, ScanEnd(t)
    PROVE  BudgetInv'
<1> DEFINE x == task[t]
           y == task'[t]
<1>1. /\ TaskShape(x) /\ Phased(x) /\ DOMAIN task = Threads /\ x.pc = "scan" /\ policy = t
      /\ charged \in Int /\ charged <= RamCapacity /\ RamCapacity \in Int /\ moving \subseteq Records
      /\ resv[t] \in Int
      /\ x.op = "reserve" => resv[t] = 0
      /\ x.op = "rewrite" => x.bytes = Size[x.rec]
  BY MyBooks DEF ScanEnd, Locking
<1>2. CASE x.batch = <<>>
  <2>1. NothingEvicted(t) /\ x.dests = <<>>
    BY <1>1, <1>2 DEF ScanEnd, Phased, TaskShape, Choosing
  <2>2. UNCHANGED <<diskVars, recVars, catVars>>
    BY <2>1 DEF NothingEvicted
  <2>3. CASE x.op # "trim" /\ Fits(x.bytes, 0) /\ Granted(t)
    <3>1. 0 \in Nat
      OBVIOUS
    <3> QED BY <1>1, <1>2, <2>1, <2>2, <2>3, <3>1, GrantBooks
  <2>4. CASE UNCHANGED charged /\ Leave(t)
    BY <1>1, <1>2, <2>1, <2>2, <2>4, LeaveBooks DEF Locking
  <2>5. CASE task' = [task EXCEPT ![t].pc = "wait"] /\ UNCHANGED <<charged, resv>>
    <3>1. /\ y.op = x.op /\ y.rec = x.rec /\ y.bytes = x.bytes /\ y.batch = x.batch /\ y.dests = x.dests /\ y.pc = "wait"
          /\ \A s \in Threads \ {t} : Rests(s)
      BY <1>1, <2>5 DEF TaskShape, Rests
    <3>2. Packs(y) = 0 /\ Reads(y) = 0 /\ Packs(x) = 0 /\ Reads(x) = 0
      BY <1>1, <3>1 DEF Packs, Reads
    <3>3. /\ residents' = residents /\ registrations' = registrations /\ moving' \subseteq Records
          /\ UNCHANGED <<diskVars, recVars, charged, resv>> /\ Packs(y) + Reads(y) = Packs(x) + Reads(x)
      BY <2>2, <2>5, <3>2, SameBooks
    <3> HIDE DEF x, y
    <3> QED BY <3>1, <3>3, MovesOn DEF x, y
  <2> QED BY <2>1, <2>3, <2>4, <2>5 DEF NothingEvicted
<1>3. CASE x.batch # <<>>
  <2>1. /\ charged' = IF Packed(t) THEN charged + Total(t) ELSE charged
        /\ moving' = moving \cup Range(x.batch)
        /\ task' = [task EXCEPT ![t].pc = "write", ![t].next = 1]
        /\ UNCHANGED <<diskVars, recVars, resv>> /\ residents' = residents /\ registrations' = registrations
    BY <1>3 DEF ScanEnd
  <2>2. /\ y.op = x.op /\ y.rec = x.rec /\ y.bytes = x.bytes /\ y.batch = x.batch /\ y.dests = x.dests /\ y.pc = "write"
        /\ \A s \in Threads \ {t} : Rests(s)
    BY <1>1, <2>1 DEF TaskShape, Rests
  <2>3. moving' \subseteq Records
    <3>1. \A i \in DOMAIN x.batch : x.batch[i] \in Records
      BY <1>1 DEF TaskShape
    <3> QED BY <1>1, <2>1, <3>1 DEF Range
  <2>4. x.room \in Int /\ charged + x.room <= RamCapacity /\ (Packed(t) => Total(t) <= x.room)
    BY <1>1 DEF BudgetInv, Budgeted
  <2>5. Total(t) = CellsSum(x.batch) /\ (Packed(t) <=> Len(x.batch) > 1) /\ CellsSum(x.batch) \in Nat
    <3>1. x.batch \in Seq(Records)
      BY <1>1 DEF TaskShape
    <3>2. CellsSum(x.batch) \in Nat
      BY <3>1, CellsFacts
    <3> QED BY <3>2 DEF Total, Packed
  <2>6. Packs(x) = 0 /\ Reads(x) = 0 /\ Reads(y) = 0 /\ Packs(y) = IF Packed(t) THEN Total(t) ELSE 0
    BY <1>1, <2>2, <2>5 DEF Packs, Reads
  <2>7. PICK k \in Nat : k = (IF Packed(t) THEN Total(t) ELSE 0) /\ charged' = charged + k /\ charged + k <= RamCapacity
    <3>1. CASE Packed(t)
      <4>1. PICK k \in Nat : k = Total(t)
        BY <2>5
      <4>2. charged + k <= RamCapacity
        BY <1>1, <2>4, <3>1, <4>1
      <4> QED BY <2>1, <3>1, <4>1, <4>2
    <3>2. CASE ~Packed(t)
      BY <1>1, <2>1, <3>2
    <3> QED BY <3>1, <3>2
  <2> HIDE DEF x, y
  <2>8. Budgeted(t)' /\ Reservations' /\ resv' = resv
    <3>1. resv' = resv
      BY <2>1
    <3>2. Reservations'
      BY <3>1 DEF BudgetInv, Counted, Reservations
    <3>3. y.pc # "scan" /\ (y.op = "reserve" => resv'[t] = 0) /\ (y.op = "rewrite" => y.bytes = Size[y.rec])
      BY <1>1, <2>2, <3>1
    <3>4. Budgeted(t)'
      BY <3>3, BudgetedNext DEF y
    <3> QED BY <3>1, <3>2, <3>4
  <2>9. charged' + resv[t] + Packs(x) + Reads(x) = charged + resv'[t] + Packs(y) + Reads(y)
    BY <1>1, <2>6, <2>7, <2>8
  <2>10. charged' \in Int /\ charged' <= RamCapacity
    BY <1>1, <2>7
  <2>11. \A s \in Threads \ {t} : Rests(s) /\ resv'[s] = resv[s]
    BY <2>2, <2>8
  <2>12. y.batch = x.batch /\ y.dests = x.dests /\ UNCHANGED <<diskVars, recVars>> /\ residents' = residents /\ registrations' = registrations
    BY <2>1, <2>2
  <2> QED BY <1>1, <2>3, <2>8, <2>9, <2>10, <2>11, <2>12, StillBooks DEF x, y
<1> QED BY <1>2, <1>3

\* The packing buffer goes after the last write, or the failed one.
LEMMA ScratchGoes ==
    ASSUME HostInv, HostInv', BudgetInv, NEW t \in Threads, task[t].pc = "write", NEW p, p \in {"publish", "abort"},
           charged' = ScratchReleased(t), task' = [task EXCEPT ![t].pc = p],
           UNCHANGED <<diskVars, catVars, recVars, resv>>
    PROVE  BudgetInv'
<1> DEFINE x == task[t]
           y == task'[t]
<1>1. /\ TaskShape(x) /\ DOMAIN task = Threads
      /\ charged \in Int /\ charged <= RamCapacity /\ RamCapacity \in Int
      /\ resv[t] \in Int
      /\ x.op = "reserve" => resv[t] = 0
      /\ x.op = "rewrite" => x.bytes = Size[x.rec]
  BY MyBooks
<1>2. /\ y.op = x.op /\ y.rec = x.rec /\ y.bytes = x.bytes /\ y.batch = x.batch /\ y.dests = x.dests /\ y.pc = p
      /\ \A s \in Threads \ {t} : Rests(s)
  BY <1>1 DEF TaskShape, Rests
<1>3. Total(t) = CellsSum(x.batch) /\ (Packed(t) <=> Len(x.batch) > 1) /\ CellsSum(x.batch) \in Nat
  <2>1. x.batch \in Seq(Records)
    BY <1>1 DEF TaskShape
  <2>2. CellsSum(x.batch) \in Nat
    BY <2>1, CellsFacts
  <2> QED BY <2>2 DEF Total, Packed
<1>4. Packs(y) = 0 /\ Reads(x) = 0 /\ Reads(y) = 0 /\ Packs(x) = IF Packed(t) THEN Total(t) ELSE 0
  BY <1>2, <1>3 DEF Packs, Reads
<1>5. PICK k \in Nat : k = (IF Packed(t) THEN Total(t) ELSE 0) /\ charged' = charged - k
  <2>1. CASE Packed(t)
    BY <1>3, <2>1 DEF ScratchReleased
  <2>2. CASE ~Packed(t)
    BY <1>1, <2>2 DEF ScratchReleased
  <2> QED BY <2>1, <2>2
<1> HIDE DEF x, y
<1>6. resv' = resv
  OBVIOUS
<1>7. Reservations'
  BY <1>6 DEF BudgetInv, Counted, Reservations
<1>8. Budgeted(t)'
  <2>1. y.pc # "scan" /\ (y.op = "reserve" => resv'[t] = 0) /\ (y.op = "rewrite" => y.bytes = Size[y.rec])
    BY <1>1, <1>2, <1>6
  <2> QED BY <2>1, BudgetedNext DEF y
<1>9. charged' + resv[t] + Packs(x) + Reads(x) = charged + resv'[t] + Packs(y) + Reads(y)
  BY <1>1, <1>4, <1>5, <1>6
<1>10. charged' \in Int /\ charged' <= RamCapacity /\ charged' <= charged
  BY <1>1, <1>5
<1>11. /\ residents' = residents /\ registrations' = registrations /\ moving' \subseteq Records
       /\ \A s \in Threads \ {t} : Rests(s) /\ resv'[s] = resv[s]
  BY <1>2, <1>6, SameBooks
<1>12. y.batch = x.batch /\ y.dests = x.dests /\ UNCHANGED <<diskVars, recVars>>
  BY <1>2
<1> QED BY <1>7, <1>8, <1>9, <1>10, <1>11, <1>12, StillBooks DEF x, y

\* One record is written, and the last one drops the packing buffer.
LEMMA WriteItemBooks ==
    ASSUME HostInv, HostInv', BudgetInv, NEW t \in Threads, WriteItem(t)
    PROVE  BudgetInv'
<1> DEFINE x == task[t]
           y == task'[t]
<1>1. TaskShape(x) /\ DOMAIN task = Threads /\ x.pc = "write" /\ UNCHANGED <<diskVars, catVars, recVars, resv>>
  BY MyBooks DEF WriteItem
<1>2. CASE task' = [task EXCEPT ![t].next = x.next + 1] /\ UNCHANGED charged
  <2>1. /\ y.op = x.op /\ y.rec = x.rec /\ y.bytes = x.bytes /\ y.batch = x.batch /\ y.dests = x.dests /\ y.pc = "write"
        /\ \A s \in Threads \ {t} : Rests(s)
    BY <1>1, <1>2 DEF TaskShape, Rests
  <2>2. Packs(y) + Reads(y) = Packs(x) + Reads(x)
    BY <1>1, <2>1 DEF Packs, Reads
  <2>3. /\ residents' = residents /\ registrations' = registrations /\ moving' \subseteq Records
        /\ UNCHANGED <<diskVars, recVars, charged, resv>>
    BY <1>1, <1>2, SameBooks
  <2> HIDE DEF x, y
  <2> QED BY <2>1, <2>2, <2>3, MovesOn DEF x, y
<1>3. CASE task' = [task EXCEPT ![t].pc = "publish"] /\ charged' = ScratchReleased(t)
  BY <1>1, <1>3, ScratchGoes
<1> QED BY <1>2, <1>3 DEF WriteItem

\* A failed write drops the packing buffer too.
LEMMA WriteFailsBooks ==
    ASSUME HostInv, HostInv', BudgetInv, NEW t \in Threads, WriteFails(t)
    PROVE  BudgetInv'
<1>1. /\ task[t].pc = "write" /\ UNCHANGED <<diskVars, catVars, recVars, resv>>
      /\ task' = [task EXCEPT ![t].pc = "abort"] /\ charged' = ScratchReleased(t)
  BY DEF WriteFails
<1> QED BY <1>1, ScratchGoes

\* The batch is given up.
LEMMA AbortBooks ==
    ASSUME HostInv, HostInv', BudgetInv, NEW t \in Threads, Abort(t)
    PROVE  BudgetInv'
<1> DEFINE x == task[t]
           y == task'[t]
<1>1. TaskShape(x) /\ moving \subseteq Records
  BY MyBooks
<1>2. /\ x.pc = "abort" /\ task' = Notifying(t, "unwind", x.dests, FALSE) /\ moving' = moving \ Range(x.batch)
      /\ UNCHANGED <<diskVars, recVars, charged, resv>> /\ residents' = residents /\ registrations' = registrations
  BY DEF Abort
<1>3. y = [x EXCEPT !.pc = "unwind", !.dests = x.dests, !.ok = FALSE] /\ \A s \in Threads \ {t} : Rests(s)
  BY <1>2 DEF Notifying, Rests
<1>4. y.op = x.op /\ y.rec = x.rec /\ y.bytes = x.bytes /\ y.batch = x.batch /\ y.dests = x.dests /\ y.pc = "unwind"
  BY <1>1, <1>3 DEF TaskShape
<1>5. Packs(y) + Reads(y) = Packs(x) + Reads(x)
  BY <1>2, <1>4 DEF Packs, Reads
<1>6. moving' \subseteq Records
  BY <1>1, <1>2
<1> HIDE DEF x, y
<1> QED BY <1>2, <1>3, <1>4, <1>5, <1>6, MovesOn DEF x, y

\* A call of an owner or a reader that returns and takes nothing.
LEMMA CallBooks ==
    ASSUME HostInv, HostInv', BudgetInv, UNCHANGED <<diskVars, charged, catVars, disk, resv, task>>,
           \A r \in Records : (ram'[r] = None <=> ram[r] = None) /\ (Alive(r)' => Alive(r))
    PROVE  BudgetInv'
<1>1. Stake(None) = 0 /\ Stake(None)' = 0 /\ None \notin Threads
  BY Constants DEF Stake
<1>2. charged \in Int /\ charged <= RamCapacity /\ charged' = charged /\ resv' = resv
  BY DEF BudgetInv, Counted
<1>3. Reservations'
  BY <1>2 DEF BudgetInv, Counted, Reservations
<1>4. charged' + Stake(None) = charged + Stake(None)'
  BY <1>1, <1>2
<1>5. \A s \in Threads \ {None} : Rests(s)
  BY DEF Rests
<1>6. residents' = residents /\ registrations' = registrations /\ moving' \subseteq Records
  BY SameBooks
<1>7. Calm(None)
  BY <1>1, <1>2, <1>3, <1>4, <1>5, <1>6 DEF Calm
<1> QED BY <1>7, CalmBooks

\* The owner writes.
LEMMA WriteBooks ==
    ASSUME HostInv, HostInv', BudgetInv, NEW r \in Records, NEW v \in Values, Write(r, v)
    PROVE  BudgetInv'
<1>1. /\ r \in held /\ r \notin sealed /\ ram' = [ram EXCEPT ![r] = v]
      /\ UNCHANGED <<diskVars, charged, catVars, disk, resv, task, held, pins, readers>>
  BY DEF Write, OwnerIdle
<1>2. ram \in [Records -> Values \cup {None}] /\ RecordSafe(r) /\ Alive(r)
  BY <1>1, Types DEF Alive
<1>3. ram[r] # None /\ v # None
  BY <1>1, <1>2, Constants DEF RecordSafe
<1>4. \A q \in Records : (ram'[q] = None <=> ram[q] = None) /\ (Alive(q)' => Alive(q))
  BY <1>1, <1>2, <1>3 DEF Alive, Batched
<1> QED BY <1>1, <1>4, CallBooks

\* The owner seals.
LEMMA SealBooks ==
    ASSUME HostInv, HostInv', BudgetInv, NEW r \in Records, Seal(r)
    PROVE  BudgetInv'
<1>1. UNCHANGED <<diskVars, charged, catVars, disk, resv, task, held, pins, readers, ram>>
  BY DEF Seal
<1>2. \A q \in Records : (ram'[q] = None <=> ram[q] = None) /\ (Alive(q)' => Alive(q))
  BY <1>1 DEF Alive, Batched
<1> QED BY <1>1, <1>2, CallBooks

\* A lease is taken.
LEMMA LeaseBooks ==
    ASSUME HostInv, HostInv', BudgetInv, NEW r \in Records, Lease(r)
    PROVE  BudgetInv'
<1>1. /\ r \in held \/ readers[r] > 0
      /\ pins' = [pins EXCEPT ![r] = @ + 1]
      /\ UNCHANGED <<diskVars, charged, catVars, disk, resv, task, held, readers, ram>>
  BY DEF Lease
<1>2. pins \in [Records -> Nat]
  BY Types
<1>3. \A q \in Records : (ram'[q] = None <=> ram[q] = None) /\ (Alive(q)' => Alive(q))
  BY <1>1, <1>2 DEF Alive, Batched
<1> QED BY <1>1, <1>3, CallBooks

\* A source is taken.
LEMMA SourceBooks ==
    ASSUME HostInv, HostInv', BudgetInv, NEW r \in Records, Source(r)
    PROVE  BudgetInv'
<1>1. /\ r \in held \/ readers[r] > 0
      /\ readers' = [readers EXCEPT ![r] = @ + 1]
      /\ UNCHANGED <<diskVars, charged, catVars, disk, resv, task, held, pins, ram>>
  BY DEF Source, OwnerIdle
<1>2. readers \in [Records -> Nat]
  BY Types
<1>3. \A q \in Records : (ram'[q] = None <=> ram[q] = None) /\ (Alive(q)' => Alive(q))
  BY <1>1, <1>2 DEF Alive, Batched
<1> QED BY <1>1, <1>3, CallBooks

\* The rest of a reservation is returned.
LEMMA ReleaseReservationBooks ==
    ASSUME HostInv, HostInv', BudgetInv, NEW t \in Threads, ReleaseReservation(t)
    PROVE  BudgetInv'
<1> DEFINE x == task[t]
           y == task'[t]
<1>1. /\ x = Idle /\ charged' = charged - resv[t] /\ resv' = [resv EXCEPT ![t] = 0] /\ y = x
      /\ UNCHANGED <<diskVars, catVars, recVars>> /\ task' = task
  BY DEF ReleaseReservation
<1>2. x.pc = "idle" /\ x.op = "none"
  BY <1>1 DEF Idle
<1>3. Packs(x) = 0 /\ Reads(x) = 0 /\ Packs(y) = 0 /\ Reads(y) = 0
  BY <1>1, <1>2 DEF Packs, Reads
<1>4. /\ charged \in Int /\ charged <= RamCapacity /\ RamCapacity \in Int /\ resv[t] \in Int /\ resv[t] >= 0
  BY MyBooks
<1>5. Reservations' /\ resv'[t] = 0 /\ \A s \in Threads \ {t} : resv'[s] = resv[s]
  BY <1>1, BudgetAssumption DEF BudgetInv, Counted, Reservations
<1> HIDE DEF x, y
<1>6. Budgeted(t)'
  BY <1>1, <1>2, BudgetedNext DEF y
<1>7. charged' + resv[t] + Packs(x) + Reads(x) = charged + resv'[t] + Packs(y) + Reads(y)
  BY <1>1, <1>3, <1>4, <1>5
<1>8. /\ residents' = residents /\ registrations' = registrations /\ moving' \subseteq Records
      /\ \A s \in Threads \ {t} : Rests(s) /\ resv'[s] = resv[s]
  BY <1>1, <1>5, SameBooks DEF Rests
<1>9. charged' \in Int /\ charged' <= RamCapacity /\ charged' <= charged /\ UNCHANGED <<diskVars, recVars>>
  BY <1>1, <1>4
<1> QED BY <1>1, <1>5, <1>6, <1>7, <1>8, <1>9, StillBooks DEF x, y

\* Both mutexes are taken, or the call ends.
LEMMA RewriteLockBooks ==
    ASSUME HostInv, HostInv', BudgetInv, NEW t \in Threads, RewriteLock(t)
    PROVE  BudgetInv'
<1> DEFINE x == task[t]
           y == task'[t]
           r == x.rec
<1>1. /\ TaskShape(x) /\ Phased(x) /\ DOMAIN task = Threads /\ x.pc = "lock"
      /\ UNCHANGED <<diskVars, charged, resv, catVars, held, pins, readers, disk>>
  BY MyBooks DEF RewriteLock
<1>2. x.batch = <<>> /\ x.dests = <<>> /\ r \in Records
  BY <1>1 DEF Phased, TaskShape, Choosing
<1>3. /\ residents' = residents /\ registrations' = registrations /\ moving' \subseteq Records
      /\ Packs(x) = 0 /\ Reads(x) = 0
  BY <1>1, SameBooks DEF Packs, Reads
<1>4. CASE task' = [task EXCEPT ![t] = Idle]
  <2>1. y = Idle /\ \A s \in Threads \ {t} : Rests(s)
    BY <1>1, <1>4 DEF Rests
  <2>2. y.batch = x.batch /\ y.dests = x.dests /\ y.op = "none" /\ y.pc = "idle"
    BY <1>2, <2>1 DEF Idle
  <2>3. Packs(y) = 0 /\ Reads(y) = 0
    BY <2>2 DEF Packs, Reads
  <2>4. \A q \in Records : ram'[q] = None <=> ram[q] = None
    <3>1. CASE ram' = ram
      BY <3>1
    <3>2. CASE ram[r] # None /\ \E v \in Values : ram' = [ram EXCEPT ![r] = v]
      BY <1>2, <3>2, Types, Constants
    <3> QED BY <3>1, <3>2 DEF RewriteLock
  <2> HIDE DEF x, y, r
  <2>5. \A s \in Threads : task'[s].batch = task[s].batch
    <3> TAKE s \in Threads
    <3>1. CASE s = t
      BY <2>2, <3>1 DEF x, y
    <3>2. CASE s # t
      BY <2>1, <3>2, RestsStake DEF HostInv, TaskInv
    <3> QED BY <3>1, <3>2
  <2>6. \A q \in Records : Alive(q)' => Alive(q)
    BY <1>1, <2>5, BatchedKept DEF Alive
  <2>7. /\ charged \in Int /\ charged <= RamCapacity /\ charged' = charged /\ resv[t] \in Int /\ resv' = resv
    BY <1>1, MyBooks
  <2>8. Reservations'
    BY <2>7 DEF BudgetInv, Counted, Reservations
  <2>9. Budgeted(t)'
    BY <2>2, BudgetedNext DEF y
  <2>10. Stake(t) = resv[t] + Packs(x) + Reads(x) /\ Stake(t)' = resv'[t] + Packs(y) + Reads(y)
    BY DEF Stake, Packs, Reads, CellsSum, Amount, x, y
  <2>11. charged' + Stake(t) = charged + Stake(t)'
    BY <1>3, <2>3, <2>7, <2>10
  <2>12. UNCHANGED diskVars /\ disk' = disk
    BY <1>1
  <2>13. Calm(t)
    BY <1>3, <2>1, <2>2, <2>4, <2>6, <2>7, <2>8, <2>9, <2>11, <2>12 DEF Calm, x, y
  <2> QED BY <2>13, CalmBooks
<1>5. CASE task' = [task EXCEPT ![t].pc = "charge"] /\ UNCHANGED <<sealed, ram>>
  <2>1. /\ y.op = x.op /\ y.rec = x.rec /\ y.bytes = x.bytes /\ y.batch = x.batch /\ y.dests = x.dests /\ y.pc = "charge"
        /\ \A s \in Threads \ {t} : Rests(s)
    BY <1>1, <1>5 DEF TaskShape, Rests
  <2>2. Packs(y) = 0 /\ Reads(y) = 0
    BY <2>1 DEF Packs, Reads
  <2>3. UNCHANGED <<diskVars, recVars, charged, resv>> /\ Packs(y) + Reads(y) = Packs(x) + Reads(x)
    BY <1>1, <1>3, <1>5, <2>2 DEF recVars
  <2> HIDE DEF x, y
  <2> QED BY <1>3, <2>1, <2>3, MovesOn DEF x, y
<1> QED BY <1>4, <1>5 DEF RewriteLock

-----------------------------------------------------------------------------
(* The books: records that come                                             *)

-----------------------------------------------------------------------------
(* The books over steps that move records and extents                       *)

\* The rests of the other threads, and what t leaves behind.
Alone(t) ==
    /\ \A s \in Threads \ {t} : Rests(s) /\ resv'[s] = resv[s]
    /\ Reservations'
    /\ charged' \in Int /\ charged' <= charged
    /\ registrations' \in 0 .. PurgeEvery - 1 /\ moving' \subseteq Records
    /\ t \in Threads => Budgeted(t)'

\* A step of one thread, when residence and stake move together.
LEMMA BooksClose ==
    ASSUME HostInv, HostInv', BudgetInv, NEW t, Alone(t),
           NEW out \in Nat, NEW come \in Nat, Residing' + out = Residing + come,
           charged' + Stake(t) + out = charged + Stake(t)' + come,
           Catalogued', NoLeak'
    PROVE  BudgetInv'
<1>1. \A s \in Threads : Budgeted(s)'
  <2> TAKE s \in Threads
  <2>1. CASE s = t
    BY <2>1 DEF Alone
  <2>2. CASE s # t
    BY <2>2, OthersBudgeted DEF Alone
  <2> QED BY <2>1, <2>2
<1>2. ChargeExact' /\ charged' >= 0
  BY ChargeMoves DEF Alone, BudgetInv
<1>3. charged' \in 0 .. RamCapacity
  BY <1>2, BudgetAssumption DEF Alone, BudgetInv, Counted
<1>4. Counted'
  BY <1>2, <1>3 DEF Counted, Alone
<1> QED BY <1>1, <1>4 DEF BudgetInv

\* A thread's stake, spelled out.
LEMMA MyStake ==
    ASSUME HostInv, HostInv', Reservations, Reservations', NEW t \in Threads
    PROVE  /\ Stake(t) = resv[t] + Packs(task[t]) + Reads(task[t])
           /\ Stake(t)' = resv'[t] + Packs(task'[t]) + Reads(task'[t])
           /\ resv[t] \in Nat /\ Packs(task[t]) \in Nat /\ Reads(task[t]) \in Nat
           /\ resv'[t] \in Nat /\ Packs(task'[t]) \in Nat /\ Reads(task'[t]) \in Nat
           /\ Stake(t) \in Nat /\ Stake(t)' \in Nat
<1>1. TaskShape(task[t]) /\ TaskShape(task'[t]) /\ resv[t] \in Nat /\ resv'[t] \in Nat
  BY BudgetAssumption DEF HostInv, TaskInv, Reservations
<1>2. Packs(task[t]) \in Nat /\ Reads(task[t]) \in Nat /\ Packs(task'[t]) \in Nat /\ Reads(task'[t]) \in Nat
  BY <1>1, StakesAre
<1>3. Stake(t) = resv[t] + Packs(task[t]) + Reads(task[t]) /\ Stake(t)' = resv'[t] + Packs(task'[t]) + Reads(task'[t])
  BY DEF Stake, Packs, Reads, CellsSum, Amount
<1> QED BY <1>1, <1>2, <1>3

\* Registrations are counted up to the next purge.
LEMMA RegistersCount ==
    ASSUME registrations \in 0 .. PurgeEvery - 1, NEW q, Register(q)
    PROVE  registrations' \in 0 .. PurgeEvery - 1
<1>1. PICK n \in Nat \ {0} : n = PurgeEvery
  BY BudgetAssumption
<1>2. registrations' = IF registrations + 1 = n THEN 0 ELSE registrations + 1
  BY <1>1 DEF Register
<1> QED BY <1>1, <1>2

\* A new record takes its bytes from the reservation.
LEMMA AllocateBooks ==
    ASSUME HostInv, HostInv', BudgetInv, NEW t \in Threads, NEW q \in Records, NEW v \in Values, AllocateFrom(t, q, v)
    PROVE  BudgetInv'
<1>1. /\ task[t] = Idle /\ ~Alive(q) /\ q \notin Range(residents) /\ Size[q] <= resv[t] /\ Register(q)
      /\ UNCHANGED diskVars /\ charged' = charged /\ moving' = moving
      /\ held' = held \cup {q} /\ pins' = pins /\ readers' = readers
      /\ ram' = [ram EXCEPT ![q] = v] /\ resv' = [resv EXCEPT ![t] = @ - Size[q]]
      /\ disk' = disk /\ task' = task
  BY DEF AllocateFrom
<1>2. /\ residents \in Seq(Records) /\ ram \in [Records -> Values \cup {None}] /\ RecordSafe(q)
      /\ ram[q] = None /\ v # None
  BY <1>1, Types, Constants DEF RecordSafe
<1>3. ram'[q] # None /\ \A r \in Records : r # q => ram'[r] = ram[r]
  BY <1>1, <1>2
<1>4. Catalogued'
  <2>1. Batched' = Batched
    BY <1>1 DEF Batched
  <2>2. \A r \in Records : r # q => (Alive(r)' => Alive(r) /\ (ram'[r] = None <=> ram[r] = None))
    BY <1>1, <1>3, <2>1 DEF Alive
  <2>3. Alive(q)' => ram'[q] # None
    BY <1>3
  <2> QED BY <1>1, <1>2, <2>2, <2>3, CatalogLonger DEF BudgetInv
<1>5. NoLeak'
  BY <1>1, NothingLeaks DEF BudgetInv
<1>6. PICK n \in Nat : n = Size[q]
  BY Constants
<1>7. Reservations /\ charged \in Int /\ registrations \in 0 .. PurgeEvery - 1 /\ moving \subseteq Records
  BY DEF BudgetInv, Counted
<1>8. Reservations' /\ resv'[t] = resv[t] - n /\ \A s \in Threads \ {t} : resv'[s] = resv[s]
  <2>1. resv[t] \in 0 .. RamCapacity /\ resv[t] - n \in 0 .. RamCapacity
    BY <1>1, <1>6, <1>7, BudgetAssumption DEF Reservations
  <2> QED BY <1>1, <1>6, <1>7, <2>1 DEF Reservations
<1>9. Budgeted(t)'
  <2>1. PICK y : y = task'[t]
    OBVIOUS
  <2>2. y.op = "none" /\ y.pc = "idle"
    BY <1>1, <2>1 DEF Idle
  <2> QED BY <2>1, <2>2, BudgetedNext
<1>10. Alone(t)
  <2>1. registrations' \in 0 .. PurgeEvery - 1
    BY <1>1, <1>7, RegistersCount
  <2> QED BY <1>1, <1>7, <1>8, <1>9, <2>1 DEF Alone, Rests
<1>11. PICK z \in Nat : z = 0
  OBVIOUS
<1>12. Residing' + z = Residing + n
  <2>1. Residing' + (IF ram[q] # None THEN Size[q] ELSE 0) = Residing + (IF ram'[q] # None THEN Size[q] ELSE 0)
    BY <1>3, ResidingMoves
  <2> QED BY <1>2, <1>3, <1>6, <1>11, <2>1
<1>13. charged' + Stake(t) + z = charged + Stake(t)' + n
  <2>1. /\ Stake(t) = resv[t] + Packs(task[t]) + Reads(task[t])
        /\ Stake(t)' = resv'[t] + Packs(task'[t]) + Reads(task'[t])
        /\ resv[t] \in Nat /\ Packs(task[t]) \in Nat /\ Reads(task[t]) \in Nat
    BY <1>7, <1>8, MyStake
  <2>2. task'[t] = task[t]
    BY <1>1
  <2> QED BY <1>1, <1>7, <1>8, <1>11, <2>1, <2>2
<1> QED BY <1>4, <1>5, <1>10, <1>12, <1>13, BooksClose

\* One entry of the catalog is looked at and not taken.
LEMMA ScanPastBooks ==
    ASSUME HostInv, HostInv', BudgetInv, NEW t \in Threads, ScanPast(t)
    PROVE  BudgetInv'
<1> DEFINE x == task[t]
           y == task'[t]
<1>1. /\ TaskShape(x) /\ DOMAIN task = Threads /\ x.pc = "scan" /\ x.left > 0 /\ x.left \in Nat
      /\ residents \in Seq(Records) /\ x.left <= Len(residents)
  BY Mine DEF ScanPast, TaskShape
<1>2. residents # <<>>
  BY <1>1
<1>3. PICK r \in Records : r = Head(residents)
  BY <1>1, <1>2
<1>4. /\ UNCHANGED diskVars /\ charged' = charged /\ registrations' = registrations /\ moving' = moving
      /\ held' = held /\ pins' = pins /\ readers' = readers /\ ram' = ram /\ disk' = disk /\ resv' = resv
      /\ \E k : task' = [task EXCEPT ![t].left = k]
      /\ \/ Stale(t, r) /\ residents' = Tail(residents)
         \/ residents' = Rotated
         \/ residents' = residents
  BY <1>3 DEF ScanPast, recVars
<1>5. /\ y.op = x.op /\ y.rec = x.rec /\ y.bytes = x.bytes /\ y.batch = x.batch /\ y.dests = x.dests /\ y.pc = x.pc
      /\ y.room = x.room /\ \A s \in Threads \ {t} : task'[s] = task[s]
  BY <1>1, <1>4 DEF TaskShape
<1>6. Packs(y) = Packs(x) /\ Reads(y) = Reads(x)
  BY <1>5 DEF Packs, Reads
<1> HIDE DEF x, y
<1>7. \A s \in Threads : task'[s].batch = task[s].batch /\ task'[s].dests = task[s].dests
  BY <1>5 DEF x, y
<1>8. \A q \in Records : Alive(q)' <=> Alive(q)
  BY <1>4, <1>7, BatchedKept DEF Alive
<1>9. NoLeak'
  BY <1>4, <1>7, NothingLeaks DEF BudgetInv
<1>10. Catalogued'
  <2>1. Catalogued
    BY DEF BudgetInv
  <2>2. /\ Once(Tail(residents))
        /\ \A e : e \in Range(residents) <=> e = r \/ e \in Range(Tail(residents))
        /\ Once(Rotated)
        /\ \A e : e \in Range(Rotated) <=> e \in Range(residents)
    BY <1>1, <1>2, <1>3, <2>1, TurnedOnce DEF Catalogued, Rotated
  <2>3. CASE Stale(t, r) /\ residents' = Tail(residents)
    <3>1. ~Alive(r) \/ ram[r] = None
      BY <2>3 DEF Stale
    <3>2. r \in Range(residents)
      BY <2>2
    <3>3. ~Alive(r)
      BY <2>1, <3>1, <3>2 DEF Catalogued
    <3> QED BY <1>4, <1>8, <2>1, <2>2, <2>3, <3>3 DEF Catalogued
  <2>4. CASE residents' = Rotated
    BY <1>4, <1>8, <2>1, <2>2, <2>4 DEF Catalogued
  <2>5. CASE residents' = residents
    BY <1>4, <1>8, <2>1, <2>5 DEF Catalogued
  <2> QED BY <1>4, <2>3, <2>4, <2>5
<1>11. /\ charged \in Int /\ Reservations /\ registrations \in 0 .. PurgeEvery - 1 /\ moving \subseteq Records
       /\ Budgeted(t)
  BY DEF BudgetInv, Counted
<1>12. Budgeted(t)'
  <2>1. /\ y.op = "reserve" => resv'[t] = 0
        /\ y.op = "rewrite" => y.bytes = Size[y.rec]
        /\ y.room \in Int /\ charged' + y.room <= RamCapacity /\ (Len(y.batch) > 1 => CellsSum(y.batch) <= y.room)
    BY <1>1, <1>4, <1>5, <1>11 DEF Budgeted, Packed, Total, x
  <2> QED BY <2>1, BudgetedNext DEF y
<1>13. Reservations'
  BY <1>4, <1>11 DEF Reservations
<1>14. Alone(t)
  BY <1>4, <1>5, <1>11, <1>12, <1>13 DEF Alone, Rests
<1>15. PICK z \in Nat : z = 0
  OBVIOUS
<1>16. Residing' + z = Residing + z
  BY <1>4, ResidingSame
<1>17. charged' + Stake(t) + z = charged + Stake(t)' + z
  <2>1. /\ Stake(t) = resv[t] + Packs(x) + Reads(x)
        /\ Stake(t)' = resv'[t] + Packs(y) + Reads(y)
    BY <1>11, <1>13, MyStake DEF x, y
  <2>2. resv'[t] = resv[t]
    BY <1>4
  <2>3. Stake(t)' = Stake(t)
    BY <1>6, <2>1, <2>2
  <2> QED BY <1>4, <2>3
<1> QED BY <1>9, <1>10, <1>14, <1>16, <1>17, BooksClose

\* A new extent is the only one that comes.
LEMMA ReserveComes ==
    ASSUME NEW n \in Nat, Reserve(n), NEW x \in UsedRanges'
    PROVE  x \in UsedRanges \/ x.off = ReservedAt(n)
<1> DEFINE key == BestFit(n)
           tail == IF key.bytes > n THEN {Entry(key.off + n, key.bytes - n, FALSE)} ELSE {}
<1>1. ranges' = (ranges \ {Entry(key.off, key.bytes, FALSE)}) \cup {Entry(key.off, n, TRUE)} \cup tail
  BY DEF Reserve
<1>2. x \in ranges' /\ x.used
  BY DEF UsedRanges
<1>3. x \notin tail
  BY <1>2 DEF Entry
<1>4. CASE x \in ranges
  BY <1>2, <1>4 DEF UsedRanges
<1>5. CASE x = Entry(key.off, n, TRUE)
  BY <1>5 DEF Entry, ReservedAt
<1> HIDE DEF tail
<1> QED BY <1>1, <1>2, <1>3, <1>4, <1>5

\* A record joins the batch: there is room for it.
LEMMA ScanTakeBooks ==
    ASSUME HostInv, HostInv', BudgetInv, NEW t \in Threads, ScanTake(t)
    PROVE  BudgetInv'
<1> DEFINE x == task[t]
           y == task'[t]
<1>1. /\ TaskShape(x) /\ Phased(x) /\ DOMAIN task = Threads /\ x.pc = "scan" /\ x.left > 0 /\ x.left \in Nat
      /\ residents \in Seq(Records) /\ x.left <= Len(residents)
      /\ x.batch \in Seq(Records) /\ x.dests \in Seq(Cells)
  BY Mine DEF ScanTake, TaskShape
<1>2. residents # <<>>
  BY <1>1
<1>3. PICK r \in Records : r = Head(residents)
  BY <1>1, <1>2
<1>4. PICK n \in Nat : n = Size[r]
  BY Constants
<1>5. PICK d : d = ReservedAt(n)
  OBVIOUS
<1>6. PICK b, ds : b = Append(x.batch, r) /\ ds = Append(x.dests, d)
  OBVIOUS
<1>7. /\ charged' = charged /\ registrations' = registrations /\ moving' = moving
      /\ held' = held /\ pins' = pins /\ readers' = readers /\ ram' = ram /\ disk' = disk /\ resv' = resv
      /\ \E k : task' = [task EXCEPT ![t].batch = b, ![t].dests = ds, ![t].left = k]
      /\ residents' = Rotated /\ Reserve(n) /\ Alive(r) /\ ~TooBig(t, r)
  BY <1>3, <1>4, <1>5, <1>6 DEF ScanTake, recVars, MayEvict
<1>8. d \in Cells /\ \A e \in UsedRanges' : e \in UsedRanges \/ e.off = d
  <2>1. DiskInv /\ UNCHANGED cells
    BY DEF HostInv, ScanTake
  <2>2. n \in Nat \ {0}
    BY <1>4, Constants
  <2> QED BY <1>5, <1>7, <2>1, <2>2, ReserveSpares, ReserveComes
<1>9. /\ y.op = x.op /\ y.rec = x.rec /\ y.bytes = x.bytes /\ y.batch = b /\ y.dests = ds /\ y.pc = x.pc
      /\ y.room = x.room /\ \A s \in Threads \ {t} : task'[s] = task[s]
  BY <1>1, <1>7 DEF TaskShape
<1>10. Packs(y) = 0 /\ Reads(y) = 0 /\ Packs(x) = 0 /\ Reads(x) = 0
  BY <1>1, <1>9 DEF Packs, Reads
<1>11. /\ b \in Seq(Records) /\ \A q : q \in Range(b) <=> q = r \/ q \in Range(x.batch)
       /\ CellsSum(b) = CellsSum(x.batch) + n /\ CellsSum(x.batch) \in Nat
  BY <1>1, <1>4, <1>6, AppendIs, CellsFacts
<1>12. /\ \A i \in DOMAIN x.dests : i \in DOMAIN ds /\ ds[i] = x.dests[i]
       /\ \E i \in DOMAIN ds : ds[i] = d
  <2>1. PICK q \in Seq(Cells) : q = x.dests
    BY <1>1
  <2>2. ds = Append(q, d)
    BY <1>6, <2>1
  <2> HIDE DEF x
  <2>3. Len(q) + 1 \in DOMAIN ds /\ ds[Len(q) + 1] = d /\ \A i \in DOMAIN q : i \in DOMAIN ds /\ ds[i] = q[i]
    BY <1>8, <2>2
  <2> QED BY <2>1, <2>3
<1>13. x.batch = <<>> => Len(b) = 1
  BY <1>3, <1>6
<1>14. /\ x.op = "reserve" => resv[t] = 0
       /\ x.op = "rewrite" => x.bytes = Size[x.rec]
       /\ x.room \in Int /\ charged + x.room <= RamCapacity
       /\ x.batch # <<>> => ~(n > x.room - CellsSum(x.batch))
  BY <1>1, <1>4, <1>7 DEF BudgetInv, Budgeted, TooBig, Total
<1> HIDE DEF x, y
<1>15. \A q \in Records : Alive(q)' => Alive(q)
  <2>1. \A q : q \in Batched' => q \in Batched \/ q = r
    <3> SUFFICES ASSUME NEW q, q \in Batched' PROVE q \in Batched \/ q = r
      OBVIOUS
    <3>1. PICK s \in Threads : q \in Range(task'[s].batch)
      BY BatchedIs
    <3>2. CASE s = t
      BY <1>9, <1>11, <3>1, <3>2, BatchedIs DEF x, y
    <3>3. CASE s # t
      BY <1>9, <3>1, <3>3, BatchedIs
    <3> QED BY <3>2, <3>3
  <2> QED BY <1>7, <2>1 DEF Alive
<1>16. NoLeak'
  <2> SUFFICES ASSUME NEW e \in UsedRanges'
               PROVE  \/ \E q \in Records : disk'[q] = e.off
                      \/ \E s \in Threads : \E i \in DOMAIN task'[s].dests : task'[s].dests[i] = e.off
    BY DEF NoLeak
  <2>1. CASE e.off = d
    BY <1>9, <1>12, <2>1 DEF y
  <2>2. CASE e \in UsedRanges
    <3>1. CASE \E q \in Records : disk[q] = e.off
      BY <1>7, <3>1
    <3>2. ASSUME NEW s \in Threads, NEW i \in DOMAIN task[s].dests, task[s].dests[i] = e.off
          PROVE  \E j \in DOMAIN task'[s].dests : task'[s].dests[j] = e.off
      <4>1. CASE s = t
        BY <1>9, <1>12, <3>2, <4>1 DEF x, y
      <4>2. CASE s # t
        BY <1>9, <3>2, <4>2
      <4> QED BY <4>1, <4>2
    <3> QED BY <2>2, <3>1, <3>2 DEF BudgetInv, NoLeak
  <2> QED BY <1>8, <2>1, <2>2
<1>17. Catalogued'
  <2>1. Catalogued
    BY DEF BudgetInv
  <2>2. Once(Rotated) /\ \A e : e \in Range(Rotated) <=> e \in Range(residents)
    BY <1>1, <1>2, <2>1, TurnedOnce DEF Catalogued, Rotated
  <2> QED BY <1>7, <1>15, <2>1, <2>2 DEF Catalogued
<1>18. charged \in Int /\ Reservations /\ registrations \in 0 .. PurgeEvery - 1 /\ moving \subseteq Records
  BY DEF BudgetInv, Counted
<1>19. Budgeted(t)'
  <2>1. ASSUME Len(b) > 1 PROVE CellsSum(b) <= x.room
    <3>1. x.batch # <<>>
      BY <1>13, <2>1
    <3>2. PICK k \in Nat, m \in Int : k = CellsSum(x.batch) /\ m = x.room
      BY <1>11, <1>14
    <3>3. ~(n > m - k)
      BY <1>14, <3>1, <3>2
    <3>4. k + n <= m
      BY <3>3
    <3> QED BY <1>11, <3>2, <3>4
  <2>2. /\ y.op = "reserve" => resv'[t] = 0
        /\ y.op = "rewrite" => y.bytes = Size[y.rec]
        /\ y.room \in Int /\ charged' + y.room <= RamCapacity /\ (Len(y.batch) > 1 => CellsSum(y.batch) <= y.room)
    BY <1>7, <1>9, <1>14, <2>1
  <2> QED BY <2>2, BudgetedNext DEF y
<1>20. Reservations'
  BY <1>7, <1>18 DEF Reservations
<1>21. Alone(t)
  <2>1. charged' \in Int /\ charged' <= charged /\ registrations' \in 0 .. PurgeEvery - 1 /\ moving' \subseteq Records /\ resv' = resv
    BY <1>7, <1>18
  <2>2. \A s \in Threads \ {t} : Rests(s)
    BY <1>9 DEF Rests
  <2> QED BY <1>19, <1>20, <2>1, <2>2 DEF Alone
<1>22. PICK z \in Nat : z = 0
  OBVIOUS
<1>23. Residing' + z = Residing + z
  BY <1>7, ResidingSame
<1>24. charged' + Stake(t) + z = charged + Stake(t)' + z
  <2>1. /\ Stake(t) = resv[t] + Packs(x) + Reads(x)
        /\ Stake(t)' = resv'[t] + Packs(y) + Reads(y)
    BY <1>18, <1>20, MyStake DEF x, y
  <2>2. resv'[t] = resv[t]
    BY <1>7
  <2>3. Stake(t)' = Stake(t)
    BY <1>10, <2>1, <2>2
  <2> QED BY <1>7, <2>3
<1> QED BY <1>16, <1>17, <1>21, <1>23, <1>24, BooksClose

-----------------------------------------------------------------------------
(* The books: records that go                                               *)

\* A dropped extent is the only one that goes.
LEMMA ReleaseLeaves ==
    ASSUME DiskInv, NEW x \in UsedRanges, Release(x), NEW e \in UsedRanges'
    PROVE  e \in UsedRanges /\ e.off # x.off
<1>1. ranges' = (ranges \ (FreeBefore(x) \cup FreeAfter(x) \cup {x})) \cup {Merged(x)}
  BY DEF Release
<1>2. e \in ranges' /\ e.used /\ ~Merged(x).used
  BY DEF UsedRanges, Merged, Entry
<1>3. e \in ranges /\ e # x
  BY <1>1, <1>2
<1>4. e \in UsedRanges
  BY <1>2, <1>3 DEF UsedRanges
<1> QED BY <1>3, <1>4, UsedFacts

\* One reference of r goes, with what it keeps alive.
LEMMA DestroyBooks ==
    ASSUME HostInv, HostInv', BudgetInv, NEW r \in Records, NEW gone \in BOOLEAN, Destroy(r, gone), NEW t,
           UNCHANGED <<catVars, resv>>, \A s \in Threads \ {t} : Rests(s), t \in Threads => Budgeted(t)',
           Stake(t) \in Int, Stake(t)' = Stake(t), \A s \in Threads : task'[s].dests = task[s].dests,
           \A q \in Records : q # r \/ ~gone => (Alive(q)' => Alive(q))
    PROVE  BudgetInv'
<1>1. /\ DiskInv /\ Apart /\ RecordSafe(r) /\ RecordSafe(r)'
      /\ ram \in [Records -> Values \cup {None}] /\ disk \in [Records -> Cells \cup {None}]
  BY DEF HostInv, HostTypes
<1>2. /\ ram' = IF gone THEN [ram EXCEPT ![r] = None] ELSE ram
      /\ disk' = IF gone THEN [disk EXCEPT ![r] = None] ELSE disk
      /\ charged' = IF gone /\ ram[r] # None THEN charged - Size[r] ELSE charged
  BY DEF Destroy
<1>3. /\ \A q \in Records : q # r \/ ~gone => ram'[q] = ram[q] /\ disk'[q] = disk[q]
      /\ gone => ram'[r] = None /\ disk'[r] = None
  BY <1>1, <1>2
<1>4. gone => ~Alive(r)'
  BY <1>1, <1>3 DEF RecordSafe
<1>5. /\ charged \in Int /\ Reservations /\ registrations \in 0 .. PurgeEvery - 1 /\ moving \subseteq Records
      /\ Catalogued /\ NoLeak
  BY DEF BudgetInv, Counted
<1>6. Catalogued'
  <2>1. residents' = residents
    BY DEF catVars
  <2>2. \A q \in Records : Alive(q)' => Alive(q) /\ (ram'[q] = None <=> ram[q] = None)
    BY <1>3, <1>4
  <2> QED BY <1>5, <2>1, <2>2, CatalogKept
<1>7. NoLeak'
  <2>1. CASE gone /\ disk[r] # None
    <3>1. PICK x \in UsedRanges : x.off = disk[r]
      BY <1>1, <2>1 DEF RecordSafe, Holds
    <3>2. UsedAt(disk[r]) = x
      BY <1>1, <3>1, UsedAtIs
    <3>3. Release(x)
      BY <2>1, <3>2 DEF Destroy, Free
    <3> SUFFICES ASSUME NEW e \in UsedRanges'
                 PROVE  \/ \E q \in Records : disk'[q] = e.off
                        \/ \E s \in Threads : \E i \in DOMAIN task'[s].dests : task'[s].dests[i] = e.off
      BY DEF NoLeak
    <3>4. e \in UsedRanges /\ e.off # disk[r]
      BY <1>1, <3>1, <3>3, ReleaseLeaves
    <3>5. CASE \E q \in Records : disk[q] = e.off
      BY <1>3, <3>4, <3>5
    <3>6. CASE \E s \in Threads : \E i \in DOMAIN task[s].dests : task[s].dests[i] = e.off
      BY <3>6
    <3> QED BY <1>5, <3>4, <3>5, <3>6 DEF NoLeak
  <2>2. CASE ~(gone /\ disk[r] # None)
    <3>1. UNCHANGED diskVars /\ \A q \in Records : disk'[q] = disk[q]
      BY <1>3, <2>2 DEF Destroy
    <3> QED BY <1>5, <3>1, NothingLeaks
  <2> QED BY <2>1, <2>2
<1>8. PICK out \in Nat : out = (IF gone /\ ram[r] # None THEN Size[r] ELSE 0) /\ charged' = charged - out
  <2>1. Size[r] \in Nat
    BY Constants
  <2>2. CASE gone /\ ram[r] # None
    BY <1>2, <2>1, <2>2
  <2>3. CASE ~(gone /\ ram[r] # None)
    BY <1>2, <1>5, <2>3
  <2> QED BY <2>2, <2>3
<1>9. PICK z \in Nat : z = 0
  OBVIOUS
<1>10. Residing \in Nat /\ Residing' \in Nat
  <2>1. IsFiniteSet(Resident) /\ IsFiniteSet(Resident') /\ \A q \in Resident \cup Resident' : Size[q] \in Nat
    BY FiniteAssumption, FS_Subset, Constants DEF Resident
  <2>2. Amount(Size, Resident) \in Nat /\ Amount(Size, Resident') \in Nat
    BY <2>1, StonesFacts
  <2> QED BY <2>2 DEF Residing, Amount
<1>11. Residing' + out = Residing + z
  <2>1. CASE gone
    <3>1. Residing' + (IF ram[r] # None THEN Size[r] ELSE 0) = Residing + (IF ram'[r] # None THEN Size[r] ELSE 0)
      BY <1>3, ResidingMoves
    <3> QED BY <1>3, <1>8, <1>9, <2>1, <3>1
  <2>2. CASE ~gone
    <3>1. Residing' = Residing
      BY <1>3, <2>2, ResidingSame
    <3> QED BY <1>8, <1>9, <2>2, <3>1
  <2> QED BY <2>1, <2>2
<1>12. Alone(t)
  <2>1. charged' \in Int /\ charged' <= charged
    BY <1>5, <1>8
  <2>2. registrations' \in 0 .. PurgeEvery - 1 /\ moving' \subseteq Records /\ resv' = resv
    BY <1>5 DEF catVars
  <2>3. Reservations'
    BY <1>5, <2>2 DEF Reservations
  <2> QED BY <2>1, <2>2, <2>3 DEF Alone
<1>13. charged' + Stake(t) + out = charged + Stake(t)' + z
  BY <1>5, <1>8, <1>9
<1> QED BY <1>6, <1>7, <1>11, <1>12, <1>13, BooksClose

\* The same of a caller, who has nothing at stake.
LEMMA CallerDestroys ==
    ASSUME HostInv, HostInv', BudgetInv, NEW r \in Records, NEW gone \in BOOLEAN, Destroy(r, gone),
           UNCHANGED <<catVars, resv, task>>, \A q \in Records : Alive(q)' => Alive(q)
    PROVE  BudgetInv'
<1>1. None \notin Threads /\ Stake(None) = 0 /\ Stake(None)' = 0
  BY Constants DEF Stake
<1>2. /\ \A s \in Threads \ {None} : Rests(s)
      /\ \A s \in Threads : task'[s].dests = task[s].dests
  BY DEF Rests
<1>3. Stake(None) \in Int /\ Stake(None)' = Stake(None)
  BY <1>1
<1>4. None \in Threads => Budgeted(None)'
  BY <1>1
<1> QED BY <1>2, <1>3, <1>4, DestroyBooks

\* A lease is dropped.
LEMMA UnpinBooks ==
    ASSUME HostInv, HostInv', BudgetInv, NEW r \in Records, Unpin(r)
    PROVE  BudgetInv'
<1> DEFINE gone == ~(pins[r] > 1 \/ r \in held \/ readers[r] > 0 \/ r \in Batched)
<1>1. /\ Destroy(r, gone) /\ UNCHANGED <<catVars, resv, task, held, readers>>
      /\ pins[r] > 0 /\ pins' = [pins EXCEPT ![r] = @ - 1] /\ pins \in [Records -> Nat]
  BY Types DEF Unpin
<1>2. \A q \in Records : Alive(q)' => Alive(q)
  BY <1>1 DEF Alive, Batched
<1>3. gone \in BOOLEAN
  OBVIOUS
<1> HIDE DEF gone
<1> QED BY <1>1, <1>2, <1>3, CallerDestroys

\* A source is dropped.
LEMMA ReleaseSourceBooks ==
    ASSUME HostInv, HostInv', BudgetInv, NEW r \in Records, ReleaseSource(r)
    PROVE  BudgetInv'
<1> DEFINE gone == ~(readers[r] > 1 \/ r \in held \/ pins[r] > 0 \/ r \in Batched)
<1>1. /\ Destroy(r, gone) /\ UNCHANGED <<catVars, resv, task, held, pins>>
      /\ readers[r] > 0 /\ readers' = [readers EXCEPT ![r] = @ - 1] /\ readers \in [Records -> Nat]
  BY Types DEF ReleaseSource
<1>2. \A q \in Records : Alive(q)' => Alive(q)
  BY <1>1 DEF Alive, Batched
<1>3. gone \in BOOLEAN
  OBVIOUS
<1> HIDE DEF gone
<1> QED BY <1>1, <1>2, <1>3, CallerDestroys

\* The owner drops its record.
LEMMA DropBooks ==
    ASSUME HostInv, HostInv', BudgetInv, NEW r \in Records, Drop(r)
    PROVE  BudgetInv'
<1> DEFINE gone == pins[r] = 0 /\ readers[r] = 0 /\ r \notin Batched
<1>1. Destroy(r, gone) /\ UNCHANGED <<catVars, resv, task, pins, readers>> /\ held' = held \ {r}
  BY DEF Drop
<1>2. \A q \in Records : Alive(q)' => Alive(q)
  BY <1>1 DEF Alive, Batched
<1>3. gone \in BOOLEAN
  OBVIOUS
<1> HIDE DEF gone
<1> QED BY <1>1, <1>2, <1>3, CallerDestroys

\* A record of the batch is let go.
LEMMA UnwindRecordBooks ==
    ASSUME HostInv, HostInv', BudgetInv, NEW t \in Threads, UnwindRecord(t)
    PROVE  BudgetInv'
<1> DEFINE x == task[t]
           y == task'[t]
           r == Head(x.batch)
           gone == ~(r \in held \/ pins[r] > 0 \/ readers[r] > 0)
<1>1. /\ TaskShape(x) /\ DOMAIN task = Threads
      /\ resv[t] \in Int /\ (x.op = "reserve" => resv[t] = 0)
      /\ x.op = "rewrite" => x.bytes = Size[x.rec]
  BY MyBooks
<1>2. /\ x.pc = "unwind" /\ x.batch \in Seq(Records) /\ x.batch # <<>>
      /\ task' = [task EXCEPT ![t].batch = Tail(x.batch)] /\ Destroy(r, gone)
      /\ UNCHANGED <<catVars, resv, held, pins, readers>>
  BY <1>1 DEF UnwindRecord, TaskShape
<1>3. r \in Records /\ \A e : e \in Range(x.batch) <=> e = r \/ e \in Range(Tail(x.batch))
  BY <1>2, TailIs
<1>4. /\ y.op = x.op /\ y.rec = x.rec /\ y.bytes = x.bytes /\ y.batch = Tail(x.batch) /\ y.dests = x.dests /\ y.pc = "unwind"
      /\ \A s \in Threads \ {t} : task'[s] = task[s]
  BY <1>1, <1>2 DEF TaskShape
<1>5. Packs(x) = 0 /\ Reads(x) = 0 /\ Packs(y) = 0 /\ Reads(y) = 0
  BY <1>2, <1>4 DEF Packs, Reads
<1>6. gone \in BOOLEAN
  OBVIOUS
<1> HIDE DEF x, y, r, gone
<1>7. \A q \in Records : Alive(q)' => Alive(q)
  <2>1. \A q : q \in Batched' => q \in Batched
    <3> SUFFICES ASSUME NEW q, q \in Batched' PROVE q \in Batched
      OBVIOUS
    <3>1. PICK s \in Threads : q \in Range(task'[s].batch)
      BY BatchedIs
    <3>2. CASE s = t
      BY <1>3, <1>4, <3>1, <3>2, BatchedIs DEF x, y
    <3>3. CASE s # t
      BY <1>4, <3>1, <3>3, BatchedIs
    <3> QED BY <3>2, <3>3
  <2> QED BY <1>2, <2>1 DEF Alive
<1>8. Stake(t) \in Int /\ Stake(t)' = Stake(t)
  <2>1. Stake(t) = resv[t] + Packs(x) + Reads(x) /\ Stake(t)' = resv'[t] + Packs(y) + Reads(y)
    BY DEF Stake, Packs, Reads, CellsSum, Amount, x, y
  <2>2. resv'[t] = resv[t]
    BY <1>2
  <2> QED BY <1>1, <1>5, <2>1, <2>2
<1>9. Budgeted(t)'
  <2>1. y.pc # "scan" /\ (y.op = "reserve" => resv'[t] = 0) /\ (y.op = "rewrite" => y.bytes = Size[y.rec])
    BY <1>1, <1>2, <1>4
  <2> QED BY <2>1, BudgetedNext DEF y
<1>10. \A s \in Threads : task'[s].dests = task[s].dests
  BY <1>4 DEF x, y
<1>11. \A s \in Threads \ {t} : Rests(s)
  BY <1>4 DEF Rests
<1> QED BY <1>2, <1>3, <1>6, <1>7, <1>8, <1>9, <1>10, <1>11, DestroyBooks

\* A private extent of a failed write goes.
LEMMA UnwindExtentBooks ==
    ASSUME HostInv, HostInv', BudgetInv, NEW t \in Threads, UnwindExtent(t)
    PROVE  BudgetInv'
<1> DEFINE x == task[t]
           y == task'[t]
<1>1. /\ TaskShape(x) /\ DOMAIN task = Threads
      /\ resv[t] \in Int /\ (x.op = "reserve" => resv[t] = 0)
      /\ x.op = "rewrite" => x.bytes = Size[x.rec]
  BY MyBooks
<1>2. PICK d : d = Head(x.dests)
  OBVIOUS
<1>3. /\ x.pc = "unwind" /\ x.dests \in Seq(Cells) /\ x.dests # <<>>
      /\ task' = [task EXCEPT ![t].dests = Tail(x.dests)] /\ Free(UsedAt(d))
      /\ UNCHANGED <<charged, catVars, recVars, resv>>
  BY <1>1, <1>2 DEF UnwindExtent, TaskShape
<1>4. d = x.dests[1] /\ 1 \in DOMAIN x.dests
      /\ \A i \in DOMAIN x.dests : i = 1 \/ (i - 1 \in DOMAIN Tail(x.dests) /\ Tail(x.dests)[i - 1] = x.dests[i])
  BY <1>2, <1>3
<1>5. /\ y.op = x.op /\ y.rec = x.rec /\ y.bytes = x.bytes /\ y.batch = x.batch /\ y.dests = Tail(x.dests) /\ y.pc = "unwind"
      /\ \A s \in Threads \ {t} : task'[s] = task[s]
  BY <1>1, <1>3 DEF TaskShape
<1>6. Packs(x) = 0 /\ Reads(x) = 0 /\ Packs(y) = 0 /\ Reads(y) = 0
  BY <1>3, <1>5 DEF Packs, Reads
<1>7. PICK e \in UsedRanges : e.off = d /\ Release(e)
  <2>1. DiskInv /\ TaskSafe(t)
    BY DEF HostInv, TaskInv
  <2>2. PICK e \in UsedRanges : e.off = d
    BY <1>4, <2>1 DEF TaskSafe
  <2> QED BY <1>3, <2>1, <2>2, UsedAtIs DEF Free
<1>8. /\ residents' = residents /\ registrations' = registrations /\ moving' = moving
      /\ held' = held /\ pins' = pins /\ readers' = readers /\ ram' = ram /\ disk' = disk
      /\ charged' = charged /\ resv' = resv
  BY <1>3 DEF catVars, recVars
<1> HIDE DEF x, y
<1>9. NoLeak'
  <2> SUFFICES ASSUME NEW u \in UsedRanges'
               PROVE  \/ \E q \in Records : disk'[q] = u.off
                      \/ \E s \in Threads : \E i \in DOMAIN task'[s].dests : task'[s].dests[i] = u.off
    BY DEF NoLeak
  <2>1. u \in UsedRanges /\ u.off # d
    BY <1>7, ReleaseLeaves DEF HostInv
  <2>2. CASE \E q \in Records : disk[q] = u.off
    BY <1>8, <2>2
  <2>3. ASSUME NEW s \in Threads, NEW i \in DOMAIN task[s].dests, task[s].dests[i] = u.off
        PROVE  \E j \in DOMAIN task'[s].dests : task'[s].dests[j] = u.off
    <3>1. CASE s = t
      <4>1. i # 1
        BY <1>4, <2>1, <2>3, <3>1 DEF x
      <4>2. i - 1 \in DOMAIN Tail(x.dests) /\ Tail(x.dests)[i - 1] = u.off
        BY <1>4, <2>3, <3>1, <4>1 DEF x
      <4> QED BY <1>5, <3>1, <4>2 DEF y
    <3>2. CASE s # t
      BY <1>5, <2>3, <3>2
    <3> QED BY <3>1, <3>2
  <2> QED BY <2>1, <2>2, <2>3 DEF BudgetInv, NoLeak
<1>10. Catalogued'
  <2>1. \A s \in Threads : task'[s].batch = task[s].batch
    BY <1>5 DEF x, y
  <2>2. \A q \in Records : Alive(q)' <=> Alive(q)
    BY <1>8, <2>1, BatchedKept DEF Alive
  <2> QED BY <1>8, <2>2, CatalogKept DEF BudgetInv
<1>11. charged \in Int /\ Reservations /\ registrations \in 0 .. PurgeEvery - 1 /\ moving \subseteq Records
  BY DEF BudgetInv, Counted
<1>12. Budgeted(t)'
  <2>1. y.pc # "scan" /\ (y.op = "reserve" => resv'[t] = 0) /\ (y.op = "rewrite" => y.bytes = Size[y.rec])
    BY <1>1, <1>5, <1>8
  <2> QED BY <2>1, BudgetedNext DEF y
<1>13. Reservations'
  BY <1>8, <1>11 DEF Reservations
<1>14. Alone(t)
  BY <1>5, <1>8, <1>11, <1>12, <1>13 DEF Alone, Rests
<1>15. PICK z \in Nat : z = 0
  OBVIOUS
<1>16. Residing' + z = Residing + z
  BY <1>8, ResidingSame
<1>17. charged' + Stake(t) + z = charged + Stake(t)' + z
  <2>1. Stake(t) = resv[t] + Packs(x) + Reads(x) /\ Stake(t)' = resv'[t] + Packs(y) + Reads(y)
    BY <1>11, <1>13, MyStake DEF x, y
  <2>2. Stake(t)' = Stake(t)
    BY <1>6, <1>8, <2>1
  <2> QED BY <1>8, <2>2
<1> QED BY <1>9, <1>10, <1>14, <1>16, <1>17, BooksClose

-----------------------------------------------------------------------------
(* The books: installing and publishing                                     *)

\* The bytes read back become the resident record.
LEMMA InstallBooks ==
    ASSUME HostInv, HostInv', BudgetInv, NEW t \in Threads, Install(t)
    PROVE  BudgetInv'
<1> DEFINE x == task[t]
           y == task'[t]
<1>0. PICK r \in Records : r = x.rec
  BY Mine DEF Install, Phased, Choosing
<1>1. /\ TaskShape(x) /\ Phased(x) /\ DOMAIN task = Threads /\ x.pc = "install"
      /\ x.op = "rewrite" /\ x.batch = <<>> /\ x.dests = <<>> /\ r \in Records /\ r \in held /\ disk[r] # None
  BY <1>0, Mine DEF Install, Phased, Choosing
<1>2. /\ Register(r) /\ ram' = [ram EXCEPT ![r] = x.data] /\ disk' = [disk EXCEPT ![r] = None]
      /\ Free(UsedAt(disk[r])) /\ task' = [task EXCEPT ![t] = Idle]
      /\ charged' = charged /\ moving' = moving /\ held' = held /\ pins' = pins /\ readers' = readers /\ resv' = resv
  BY <1>0 DEF Install
<1>3. y = Idle /\ \A s \in Threads \ {t} : task'[s] = task[s]
  BY <1>1, <1>2
<1>4. y.batch = x.batch /\ y.dests = x.dests /\ y.op = "none" /\ y.pc = "idle"
  BY <1>1, <1>3 DEF Idle
<1>5. /\ DiskInv /\ RecordSafe(r) /\ RecordSafe(r)' /\ residents \in Seq(Records)
      /\ ram \in [Records -> Values \cup {None}] /\ disk \in [Records -> Cells \cup {None}]
  <2>1. \A q \in Records : RecordSafe(q)
    BY DEF HostInv
  <2>2. \A q \in Records : RecordSafe(q)'
    BY DEF HostInv
  <2>3. DiskInv
    BY DEF HostInv
  <2> QED BY <1>1, <2>1, <2>2, <2>3, Types
<1>6. /\ disk'[r] = None /\ \A q \in Records : q # r => disk'[q] = disk[q] /\ ram'[q] = ram[q]
  BY <1>1, <1>2, <1>5
<1>7. Alive(r) /\ Alive(r)' /\ ram[r] = None /\ ram'[r] # None
  <2>1. Alive(r)
    BY <1>1 DEF Alive
  <2>2. r \in held'
    BY <1>1, <1>2
  <2>3. Alive(r)'
    BY <2>2 DEF Alive
  <2> QED BY <1>1, <1>5, <1>6, <2>1, <2>3 DEF RecordSafe
<1>8. PICK n \in Nat : n = Size[r]
  BY <1>1, Constants
<1>9. /\ charged \in Int /\ Reservations /\ registrations \in 0 .. PurgeEvery - 1 /\ moving \subseteq Records
      /\ Catalogued /\ NoLeak /\ x.bytes = n
  BY <1>0, <1>1, <1>8 DEF BudgetInv, Counted, Budgeted
<1>10. Packs(x) = 0 /\ Reads(x) = n /\ Packs(y) = 0 /\ Reads(y) = 0
  BY <1>1, <1>4, <1>9 DEF Packs, Reads
<1> HIDE DEF x, y
<1>11. \A s \in Threads : task'[s].batch = task[s].batch /\ task'[s].dests = task[s].dests
  BY <1>3, <1>4 DEF x, y
<1>12. \A q \in Records : Alive(q)' <=> Alive(q)
  BY <1>2, <1>11, BatchedKept DEF Alive
<1>13. Catalogued'
  <2>1. r \notin Range(residents)
    BY <1>1, <1>7, <1>9 DEF Catalogued
  <2>2. \A q \in Records : r # q => (Alive(q)' => Alive(q) /\ (ram'[q] = None <=> ram[q] = None))
    BY <1>6, <1>12
  <2>3. Alive(r)' => ram'[r] # None
    BY <1>7
  <2> QED BY <1>1, <1>2, <1>5, <1>9, <2>1, <2>2, <2>3, CatalogLonger
<1>14. NoLeak'
  <2>1. PICK e \in UsedRanges : e.off = disk[r] /\ Release(e)
    <3>1. PICK e \in UsedRanges : e.off = disk[r]
      BY <1>1, <1>5 DEF RecordSafe, Holds
    <3> QED BY <1>2, <1>5, <3>1, UsedAtIs DEF Free
  <2> SUFFICES ASSUME NEW u \in UsedRanges'
               PROVE  \/ \E q \in Records : disk'[q] = u.off
                      \/ \E s \in Threads : \E i \in DOMAIN task'[s].dests : task'[s].dests[i] = u.off
    BY DEF NoLeak
  <2>2. u \in UsedRanges /\ u.off # disk[r]
    BY <1>5, <2>1, ReleaseLeaves
  <2>3. CASE \E q \in Records : disk[q] = u.off
    BY <1>6, <2>2, <2>3
  <2>4. CASE \E s \in Threads : \E i \in DOMAIN task[s].dests : task[s].dests[i] = u.off
    BY <1>11, <2>4
  <2> QED BY <1>9, <2>2, <2>3, <2>4 DEF NoLeak
<1>15. Reservations'
  BY <1>2, <1>9 DEF Reservations
<1>16. Alone(t)
  <2>1. registrations' \in 0 .. PurgeEvery - 1
    BY <1>2, <1>9, RegistersCount
  <2>2. Budgeted(t)'
    BY <1>4, BudgetedNext DEF y
  <2> QED BY <1>2, <1>3, <1>9, <1>15, <2>1, <2>2 DEF Alone, Rests
<1>17. PICK z \in Nat : z = 0
  OBVIOUS
<1>18. Residing' + z = Residing + n
  <2>1. Residing' + (IF ram[r] # None THEN Size[r] ELSE 0) = Residing + (IF ram'[r] # None THEN Size[r] ELSE 0)
    BY <1>1, <1>6, ResidingMoves
  <2> QED BY <1>7, <1>8, <1>17, <2>1
<1>19. charged' + Stake(t) + z = charged + Stake(t)' + n
  <2>1. Stake(t) = resv[t] + Packs(x) + Reads(x) /\ Stake(t)' = resv'[t] + Packs(y) + Reads(y) /\ resv[t] \in Nat
    BY <1>9, <1>15, MyStake DEF x, y
  <2>2. resv'[t] = resv[t]
    BY <1>2
  <2>3. Stake(t) = resv[t] + n /\ Stake(t)' = resv[t]
    BY <1>10, <2>1, <2>2
  <2> QED BY <1>2, <1>9, <1>17, <2>1, <2>3
<1> QED BY <1>13, <1>14, <1>16, <1>18, <1>19, BooksClose

\* RAM of the batch is returned, its extents become the records'.
LEMMA PublishBooks ==
    ASSUME HostInv, HostInv', BudgetInv, NEW t \in Threads, Publish(t)
    PROVE  BudgetInv'
<1> DEFINE x == task[t]
           y == task'[t]
           B == Range(x.batch)
           place(r) == x.dests[CHOOSE i \in DOMAIN x.batch : x.batch[i] = r]
<1>1. /\ TaskShape(x) /\ Phased(x) /\ DOMAIN task = Threads
      /\ resv[t] \in Int /\ (x.op = "reserve" => resv[t] = 0)
      /\ x.op = "rewrite" => x.bytes = Size[x.rec]
  BY MyBooks
<1>2. /\ x.pc = "publish" /\ task' = Notifying(t, "unwind", <<>>, TRUE)
      /\ ram' = [r \in Records |-> IF r \in B THEN None ELSE ram[r]]
      /\ disk' = [r \in Records |-> IF r \in B THEN place(r) ELSE disk[r]]
      /\ charged' = charged - Total(t) /\ residents' = Kept(residents, Records \ B) /\ moving' = moving \ B
      /\ UNCHANGED diskVars /\ registrations' = registrations /\ held' = held /\ pins' = pins /\ readers' = readers
      /\ resv' = resv
  BY DEF Publish
<1>3. y = [x EXCEPT !.pc = "unwind", !.dests = <<>>, !.ok = TRUE] /\ \A s \in Threads \ {t} : Rests(s)
  BY <1>2 DEF Notifying, Rests
<1>4. y.op = x.op /\ y.rec = x.rec /\ y.bytes = x.bytes /\ y.batch = x.batch /\ y.pc = "unwind"
  BY <1>1, <1>3 DEF TaskShape
<1>5. Packs(x) = 0 /\ Reads(x) = 0 /\ Packs(y) = 0 /\ Reads(y) = 0
  BY <1>2, <1>4 DEF Packs, Reads
<1>6. /\ x.batch \in Seq(Records) /\ \A i, j \in DOMAIN x.batch : x.batch[i] = x.batch[j] => i = j
      /\ DOMAIN x.dests = DOMAIN x.batch
  BY <1>1, <1>2 DEF TaskShape, Phased, Choosing
<1>7. \A i \in DOMAIN x.batch : x.batch[i] \in Records
  BY <1>6
<1>8. B \subseteq Records
  BY <1>7 DEF Range
<1>9. \A i \in DOMAIN x.batch : x.batch[i] \in B /\ place(x.batch[i]) = x.dests[i]
  BY <1>6 DEF Range
<1>10. \A r \in B : ram[r] # None
  <2>1. TaskSafe(t)
    BY DEF HostInv, TaskInv
  <2>2. \A i \in DOMAIN x.batch : ram[x.batch[i]] # None
    BY <1>2, <2>1 DEF TaskSafe, Choosing
  <2> QED BY <2>2 DEF Range
<1>11. PICK out \in Nat : out = Total(t) /\ out = Amount(Size, B)
  <2>1. CellsSum(x.batch) = Amount(Size, B) /\ CellsSum(x.batch) \in Nat
    BY <1>6, CellsSumIs, CellsFacts
  <2> QED BY <2>1 DEF Total
<1> HIDE DEF x, y, B, place
<1>12. \A s \in Threads : task'[s].batch = task[s].batch
  <2> TAKE s \in Threads
  <2>1. CASE s = t
    BY <1>4, <2>1 DEF x, y
  <2>2. CASE s # t
    BY <1>3, <2>2, RestsStake DEF HostInv, TaskInv
  <2> QED BY <2>1, <2>2
<1>13. \A q \in Records : Alive(q)' <=> Alive(q)
  BY <1>2, <1>12, BatchedKept DEF Alive
<1>14. /\ charged \in Int /\ Reservations /\ registrations \in 0 .. PurgeEvery - 1 /\ moving \subseteq Records
       /\ Catalogued /\ NoLeak /\ residents \in Seq(Records)
  BY Types DEF BudgetInv, Counted
<1>15. Catalogued'
  <2>1. /\ Once(residents')
        /\ \A e : e \in Range(residents') <=> e \in Range(residents) /\ e \in Records \ B
    BY <1>2, <1>14, KeptFacts DEF Catalogued
  <2>2. \A q \in Records : ram'[q] # None <=> ram[q] # None /\ q \notin B
    BY <1>2
  <2> QED BY <1>13, <1>14, <2>1, <2>2 DEF Catalogued
<1>16. NoLeak'
  <2> SUFFICES ASSUME NEW u \in UsedRanges'
               PROVE  \/ \E q \in Records : disk'[q] = u.off
                      \/ \E s \in Threads : \E i \in DOMAIN task'[s].dests : task'[s].dests[i] = u.off
    BY DEF NoLeak
  <2>1. u \in UsedRanges
    BY <1>2 DEF diskVars, UsedRanges
  <2>2. ASSUME NEW q \in Records, disk[q] = u.off PROVE disk'[q] = u.off
    <3>1. RecordSafe(q) /\ disk[q] # None
      <4>1. u.off \in Cells
        BY <2>1, UsedFacts DEF HostInv
      <4> QED BY <2>2, <4>1, Types, Constants
    <3>2. ram[q] = None
      BY <3>1 DEF RecordSafe
    <3> QED BY <1>2, <1>10, <2>2, <3>2
  <2>3. ASSUME NEW s \in Threads, NEW i \in DOMAIN task[s].dests, task[s].dests[i] = u.off
        PROVE  \/ \E q \in Records : disk'[q] = u.off
               \/ \E j \in DOMAIN task'[s].dests : task'[s].dests[j] = u.off
    <3>1. CASE s = t
      <4>1. i \in DOMAIN x.batch /\ x.dests[i] = u.off
        BY <1>6, <2>3, <3>1 DEF x
      <4>2. disk'[x.batch[i]] = u.off
        BY <1>2, <1>7, <1>9, <4>1
      <4> QED BY <1>7, <4>1, <4>2
    <3>2. CASE s # t
      <4>1. task'[s].dests = task[s].dests
        BY <1>3, <3>2, RestsStake DEF HostInv, TaskInv
      <4> QED BY <2>3, <4>1
    <3> QED BY <3>1, <3>2
  <2> QED BY <1>14, <2>1, <2>2, <2>3 DEF NoLeak
<1>17. Reservations'
  BY <1>2, <1>14 DEF Reservations
<1>18. charged' \in Int /\ charged' <= charged /\ charged' = charged - out
  BY <1>2, <1>11, <1>14
<1>19. Alone(t)
  <2>1. y.pc # "scan" /\ (y.op = "reserve" => resv'[t] = 0) /\ (y.op = "rewrite" => y.bytes = Size[y.rec])
    BY <1>1, <1>2, <1>4
  <2>2. Budgeted(t)'
    BY <2>1, BudgetedNext DEF y
  <2>3. registrations' \in 0 .. PurgeEvery - 1 /\ moving' \subseteq Records /\ resv' = resv
    BY <1>2, <1>14
  <2> QED BY <1>3, <1>17, <1>18, <2>2, <2>3 DEF Alone
<1>20. PICK z \in Nat : z = 0
  OBVIOUS
<1>21. Residing' + out = Residing + z
  <2>1. Resident = Resident' \cup B /\ Resident' \cap B = {}
    BY <1>2, <1>8, <1>10 DEF Resident
  <2>2. IsFiniteSet(Resident') /\ IsFiniteSet(B) /\ \A q \in Resident' \cup B : Size[q] \in Nat
    BY <1>8, FiniteAssumption, FS_Subset, Constants DEF Resident
  <2>3. PICK R : R = Resident'
    OBVIOUS
  <2>4. Amount(Size, R) \in Nat /\ Amount(Size, R \cup B) = Amount(Size, R) + Amount(Size, B)
    BY <2>1, <2>2, <2>3, AmountSplit
  <2>5. Residing' = Amount(Size, R) /\ Residing = Amount(Size, R \cup B)
    BY <2>1, <2>3 DEF Residing, Amount
  <2> QED BY <1>11, <1>20, <2>4, <2>5
<1>22. charged' + Stake(t) + out = charged + Stake(t)' + z
  <2>1. Stake(t) = resv[t] + Packs(x) + Reads(x) /\ Stake(t)' = resv'[t] + Packs(y) + Reads(y) /\ Stake(t) \in Nat
    BY <1>14, <1>17, MyStake DEF x, y
  <2>2. Stake(t)' = Stake(t)
    BY <1>2, <1>5, <2>1
  <2> QED BY <1>14, <1>18, <1>20, <2>1, <2>2
<1> QED BY <1>15, <1>16, <1>19, <1>21, <1>22, BooksClose

\* The books open empty.
LEMMA BooksOpen ==
    ASSUME Init
    PROVE  BudgetInv
<1>1. /\ DiskInit /\ charged = 0 /\ residents = <<>> /\ registrations = 0 /\ moving = {}
      /\ ram = [r \in Records |-> None] /\ disk = [r \in Records |-> None]
      /\ resv = [t \in Threads |-> 0] /\ task = [t \in Threads |-> Idle]
  BY DEF Init
<1>2. HostInv
  BY InitHolds
<1>3. \A t \in Threads : task[t].pc = "idle" /\ task[t].op = "none" /\ resv[t] = 0
  BY <1>1 DEF Idle
<1>4. UsedRanges = {}
  BY <1>1 DEF DiskInit, UsedRanges, Entry
<1>5. NoLeak
  BY <1>4 DEF NoLeak
<1>6. Catalogued
  <2>1. \A r \in Records : ~Alive(r)
    <3>1. \A r \in Records : pins[r] = 0 /\ readers[r] = 0 /\ r \notin held
      BY DEF Init
    <3>2. \A t \in Threads : task[t].batch = <<>>
      BY <1>1 DEF Idle
    <3>3. \A r : r \notin Batched
      BY <3>2, BatchedIs DEF Range
    <3> QED BY <3>1, <3>3 DEF Alive
  <2>2. Once(residents)
    BY <1>1 DEF Once
  <2> QED BY <2>1, <2>2 DEF Catalogued
<1>7. \A t \in Threads : Budgeted(t)
  BY <1>3 DEF Budgeted
<1>8. ChargeExact
  <2>1. {r \in Records : ram[r] # None} = {}
    BY <1>1
  <2>2. {t \in Threads : task[t].pc = "write" /\ Packed(t)} = {} /\ {t \in Threads : task[t].pc \in {"read", "install"}} = {}
    BY <1>3
  <2>3. \A f : Amount(f, {}) = 0
    <3> TAKE f
    <3>1. Amount(f, {}) = Cardinality({})
      <4>1. UNION {{x} \X (1 .. f[x]) : x \in {}} = {}
        OBVIOUS
      <4> QED BY <4>1 DEF Amount
    <3> QED BY <3>1, FS_EmptySet
  <2>4. Amount(resv, Threads) = 0
    <3>1. \A t \in Threads : 1 .. resv[t] = {}
      BY <1>3
    <3>2. UNION {{x} \X (1 .. resv[x]) : x \in Threads} = {}
      BY <3>1
    <3> QED BY <3>2, FS_EmptySet DEF Amount
  <2>7. /\ charged = 0 /\ Amount(resv, Threads) = 0
        /\ Amount(Size, {r \in Records : ram[r] # None}) = 0
    BY <1>1, <2>1, <2>3, <2>4
  <2>8. Amount([t \in Threads |-> Total(t)], {t \in Threads : task[t].pc = "write" /\ Packed(t)}) = 0
    BY <2>2, <2>3
  <2>9. Amount([t \in Threads |-> task[t].bytes], {t \in Threads : task[t].pc \in {"read", "install"}}) = 0
    BY <2>2, <2>3
  <2>10. 0 + 0 + 0 + 0 = 0
    OBVIOUS
  <2> QED BY <2>7, <2>8, <2>9, <2>10, Zenon DEF ChargeExact
<1>9. Counted
  <2>1. resv \in [Threads -> 0 .. RamCapacity] /\ charged \in 0 .. RamCapacity /\ registrations \in 0 .. PurgeEvery - 1
    BY <1>1, BudgetAssumption
  <2> QED BY <1>1, <1>8, <2>1 DEF Counted, Reservations
<1> QED BY <1>5, <1>6, <1>7, <1>9 DEF BudgetInv

\* Every step keeps the books.
LEMMA BooksStep ==
    ASSUME HostInv, HostInv', BudgetInv, [Next]_vars
    PROVE  BudgetInv'
<1>1. CASE Calls
  <2>1. ASSUME NEW t \in Threads,
               \/ \E n \in Demands : Reserving(t, n)
               \/ \E n \in Targets : Trimming(t, n)
               \/ \E r \in Records : Rewriting(t, r)
               \/ \E r \in Records, v \in Values : AllocateFrom(t, r, v)
               \/ ReleaseReservation(t)
               \/ SpuriousWake(t)
        PROVE  BudgetInv'
    BY <2>1, ReservingBooks, TrimmingBooks, RewritingBooks, AllocateBooks, ReleaseReservationBooks, SpuriousWakeBooks
  <2>2. ASSUME NEW r \in Records,
               \/ \E v \in Values : Write(r, v)
               \/ Seal(r) \/ Lease(r) \/ Unpin(r)
               \/ Source(r) \/ ReleaseSource(r) \/ Drop(r)
        PROVE  BudgetInv'
    BY <2>2, WriteBooks, SealBooks, LeaseBooks, UnpinBooks, SourceBooks, ReleaseSourceBooks, DropBooks
  <2> QED BY <1>1, <2>1, <2>2 DEF Calls
<1>2. ASSUME NEW t \in Threads, Work(t) PROVE BudgetInv'
  BY <1>2, ChargeBooks, TrimTestBooks, EvictStartBooks, ScanPastBooks, ScanTakeBooks, ScanEndBooks,
     WriteItemBooks, WriteFailsBooks, UnwindExtentBooks, UnwindRecordBooks, UnwindDoneBooks,
     ReadBackBooks, ReadFailsBooks DEF Work
<1>3. ASSUME NEW t \in Threads, Acquire(t) PROVE BudgetInv'
  BY <1>3, RewriteLockBooks, RelockBooks, AbortBooks, PublishBooks, InstallBooks DEF Acquire
<1>4. CASE UNCHANGED vars
  <2>1. /\ UNCHANGED <<diskVars, charged, catVars, disk, resv, task>>
        /\ held' = held /\ pins' = pins /\ readers' = readers /\ ram' = ram /\ task' = task
    BY <1>4 DEF vars, recVars
  <2>2. \A r \in Records : (ram'[r] = None <=> ram[r] = None) /\ (Alive(r)' => Alive(r))
    BY <2>1 DEF Alive, Batched
  <2> QED BY <2>1, <2>2, CallBooks
<1> QED BY <1>1, <1>2, <1>3, <1>4 DEF Next

-----------------------------------------------------------------------------
(* What the books say                                                       *)

\* The owners of extents, each with its offset and its size.
Owners ==
    {<<disk[r], Size[r], r>> : r \in {q \in Records : disk[q] # None}}
    \cup UNION {{<<task[t].dests[i], Size[task[t].batch[i]], task[t].batch[i]>> : i \in DOMAIN task[t].dests} :
                t \in {s \in Threads : task[s].pc # "unwind"}}

\* Extents in use are finitely many.
LEMMA UsedFinite ==
    ASSUME DiskInv
    PROVE  IsFiniteSet(UsedRanges)
<1> DEFINE offs == {x.off : x \in UsedRanges}
           at == [o \in offs |-> UsedAt(o)]
<1>1. offs \subseteq Cells
  BY UsedFacts
<1>2. IsFiniteSet(offs)
  BY <1>1, CellsOfFile, FS_Subset
<1>3. \A x \in UsedRanges : UsedAt(x.off) = x
  BY UsedAtIs
<1>4. at \in Surjection(offs, UsedRanges)
  BY <1>3 DEF Surjection
<1> QED BY <1>2, <1>4, FS_Surjection

\* Owners and extents in use go together one to one.
LEMMA ExtentsAreExact ==
    ASSUME HostInv, NoLeak, \A t \in Threads : task[t].pc # "unwind" \/ task[t].dests = <<>>
    PROVE  /\ {<<o[1], o[2]>> : o \in Owners} = {<<x.off, x.bytes>> : x \in UsedRanges}
           /\ Cardinality(Owners) = Cardinality(UsedRanges)
<1>1. \A o : o \in Owners <=>
         \/ \E r \in Records : disk[r] # None /\ o = <<disk[r], Size[r], r>>
         \/ \E t \in Threads : /\ task[t].pc # "unwind"
                               /\ \E i \in DOMAIN task[t].dests :
                                    o = <<task[t].dests[i], Size[task[t].batch[i]], task[t].batch[i]>>
  BY DEF Owners
<1>2. DiskInv /\ Apart
  BY DEF HostInv
<1>3. ASSUME NEW r \in Records, disk[r] # None
      PROVE  \E e \in UsedRanges : e.off = disk[r] /\ e.bytes = Size[r]
  BY <1>3, Types DEF RecordSafe, Holds
<1>4. ASSUME NEW t \in Threads, NEW i \in DOMAIN task[t].dests
      PROVE  \E e \in UsedRanges : e.off = task[t].dests[i] /\ e.bytes = Size[task[t].batch[i]]
  <2>1. TaskShape(task[t]) /\ Phased(task[t]) /\ TaskSafe(t)
    BY DEF HostInv, TaskInv
  <2>2. task[t].dests # <<>>
    BY <1>4
  <2>3. task[t].pc \in Choosing /\ i \in DOMAIN task[t].batch
    BY <1>4, <2>1, <2>2 DEF Phased
  <2> QED BY <2>1, <2>3 DEF TaskSafe, Holds
<1>5. \A o \in Owners : \E e \in UsedRanges : o[1] = e.off /\ o[2] = e.bytes
  BY <1>1, <1>3, <1>4
<1>6. \A o, p \in Owners : o[1] = p[1] => o = p
  <2> SUFFICES ASSUME NEW o \in Owners, NEW p \in Owners, o[1] = p[1] PROVE o = p
    OBVIOUS
  <2>1. CASE \E r \in Records : disk[r] # None /\ o = <<disk[r], Size[r], r>>
    <3>1. PICK r \in Records : disk[r] # None /\ o = <<disk[r], Size[r], r>>
      BY <2>1
    <3>2. CASE \E s \in Records : disk[s] # None /\ p = <<disk[s], Size[s], s>>
      <4>1. PICK s \in Records : disk[s] # None /\ p = <<disk[s], Size[s], s>>
        BY <3>2
      <4>2. r = s
        BY <1>2, <3>1, <4>1 DEF Apart
      <4> QED BY <3>1, <4>1, <4>2
    <3>3. CASE \E t \in Threads : \E i \in DOMAIN task[t].dests :
                  p = <<task[t].dests[i], Size[task[t].batch[i]], task[t].batch[i]>>
      BY <1>2, <3>1, <3>3 DEF Apart
    <3> QED BY <1>1, <3>2, <3>3
  <2>2. CASE \E t \in Threads : \E i \in DOMAIN task[t].dests :
                o = <<task[t].dests[i], Size[task[t].batch[i]], task[t].batch[i]>>
    <3>0. PICK t \in Threads : \E i \in DOMAIN task[t].dests :
             o = <<task[t].dests[i], Size[task[t].batch[i]], task[t].batch[i]>>
      BY <2>2
    <3>1. PICK i \in DOMAIN task[t].dests :
             o = <<task[t].dests[i], Size[task[t].batch[i]], task[t].batch[i]>>
      BY <3>0
    <3>2. CASE \E s \in Records : disk[s] # None /\ p = <<disk[s], Size[s], s>>
      BY <1>2, <3>1, <3>2 DEF Apart
    <3>3. CASE \E u \in Threads : \E j \in DOMAIN task[u].dests :
                  p = <<task[u].dests[j], Size[task[u].batch[j]], task[u].batch[j]>>
      <4>0. PICK u \in Threads : \E j \in DOMAIN task[u].dests :
               p = <<task[u].dests[j], Size[task[u].batch[j]], task[u].batch[j]>>
        BY <3>3
      <4>1. PICK j \in DOMAIN task[u].dests :
               p = <<task[u].dests[j], Size[task[u].batch[j]], task[u].batch[j]>>
        BY <4>0
      <4>2. t = u /\ i = j
        BY <1>2, <3>1, <4>1 DEF Apart
      <4> QED BY <3>1, <4>1, <4>2
    <3> QED BY <1>1, <3>2, <3>3
  <2> QED BY <1>1, <2>1, <2>2
<1>7. ASSUME NEW e \in UsedRanges PROVE \E o \in Owners : o[1] = e.off /\ o[2] = e.bytes
  <2>1. \A x \in UsedRanges : x.off = e.off => x = e
    BY <1>2, UsedFacts
  <2>2. \E o \in Owners : o[1] = e.off
    <3>1. CASE \E r \in Records : disk[r] = e.off
      <4>1. PICK r \in Records : disk[r] = e.off
        BY <3>1
      <4>2. disk[r] # None
        BY <1>2, <4>1, UsedFacts, Constants
      <4>3. <<disk[r], Size[r], r>> \in Owners
        BY <1>1, <4>2
      <4> QED BY <4>1, <4>3
    <3>2. CASE \E t \in Threads : \E i \in DOMAIN task[t].dests : task[t].dests[i] = e.off
      <4>0. PICK t \in Threads : \E i \in DOMAIN task[t].dests : task[t].dests[i] = e.off
        BY <3>2
      <4>1. PICK i \in DOMAIN task[t].dests : task[t].dests[i] = e.off
        BY <4>0
      <4>2. task[t].pc # "unwind"
        BY <4>1
      <4>3. <<task[t].dests[i], Size[task[t].batch[i]], task[t].batch[i]>> \in Owners
        BY <1>1, <4>2
      <4> QED BY <4>1, <4>3
    <3> QED BY <3>1, <3>2 DEF NoLeak
  <2> QED BY <1>5, <2>1, <2>2
<1> HIDE DEF Owners
<1>8. {<<o[1], o[2]>> : o \in Owners} = {<<x.off, x.bytes>> : x \in UsedRanges}
  <2>1. ASSUME NEW o \in Owners PROVE <<o[1], o[2]>> \in {<<x.off, x.bytes>> : x \in UsedRanges}
    BY <1>5
  <2>2. ASSUME NEW x \in UsedRanges PROVE <<x.off, x.bytes>> \in {<<o[1], o[2]>> : o \in Owners}
    BY <1>7
  <2> QED BY <2>1, <2>2
<1>9. Cardinality(Owners) = Cardinality(UsedRanges)
  <2> DEFINE owner == [e \in UsedRanges |-> CHOOSE o \in Owners : o[1] = e.off]
  <2>1. \A e \in UsedRanges : owner[e] \in Owners /\ owner[e][1] = e.off
    BY <1>7
  <2>2. \A e, x \in UsedRanges : e.off = x.off => e = x
    BY <1>2, UsedFacts
  <2>3. owner \in [UsedRanges -> Owners]
    BY <2>1
  <2> HIDE DEF owner
  <2>4. \A e, x \in UsedRanges : owner[e] = owner[x] => e = x
    BY <2>1, <2>2
  <2>5. ASSUME NEW o \in Owners PROVE \E e \in UsedRanges : owner[e] = o
    BY <1>5, <1>6, <2>1
  <2>6. owner \in Bijection(UsedRanges, Owners)
    BY <2>3, <2>4, <2>5 DEF Bijection, Injection, Surjection, IsInjective
  <2> QED BY <1>2, <2>6, UsedFinite, FS_Bijection DEF ExistsBijection
<1> QED BY <1>8, <1>9

\* A catalog without repetitions names a record once or not at all.
LEMMA NamedOnce ==
    ASSUME HostInv, Catalogued
    PROVE  CatalogExact
<1> SUFFICES ASSUME NEW r \in Records, Alive(r)
             PROVE  Cardinality({i \in DOMAIN residents : residents[i] = r}) = IF ram[r] # None THEN 1 ELSE 0
  BY DEF CatalogExact
<1>1. PICK named : named = {i \in DOMAIN residents : residents[i] = r}
  OBVIOUS
<1>2. ram[r] # None <=> r \in Range(residents)
  BY DEF Catalogued
<1>3. CASE r \in Range(residents)
  <2>1. PICK i \in DOMAIN residents : residents[i] = r
    BY <1>3 DEF Range
  <2>2. \A j \in DOMAIN residents : residents[j] = r => j = i
    BY <2>1 DEF Catalogued, Once
  <2>3. named = {i}
    BY <1>1, <2>1, <2>2
  <2>4. Cardinality(named) = 1
    BY <2>3, FS_Singleton
  <2> QED BY <1>1, <1>2, <1>3, <2>4
<1>4. CASE r \notin Range(residents)
  <2>1. named = {}
    BY <1>1, <1>4 DEF Range
  <2>2. Cardinality(named) = 0
    BY <2>1, FS_EmptySet
  <2> QED BY <1>1, <1>2, <1>4, <2>2
<1> QED BY <1>3, <1>4

\* What the budget's invariant says of the bookkeeping.
LEMMA BooksSay ==
    ASSUME HostInv, BudgetInv
    PROVE  RecordsExact /\ PackingFits
<1>1. Counted /\ Catalogued /\ NoLeak /\ \A t \in Threads : Budgeted(t)
  BY DEF BudgetInv
<1>2. TypeOK
  <2>1. \A t \in Threads : task[t].pc \in Pcs
    BY DEF HostInv, TaskInv, TaskShape
  <2>2. \A t \in Threads : resv[t] \in 0 .. RamCapacity
    BY <1>1 DEF Counted, Reservations
  <2>3. HostTypes
    BY DEF HostInv
  <2> QED BY <1>1, <2>1, <2>2, <2>3 DEF TypeOK, HostTypes, Counted
<1>3. ChargeExact
  BY <1>1 DEF Counted
<1>4. ExtentsExact
  BY <1>1, ExtentsAreExact DEF ExtentsExact, Owners
<1>5. CatalogExact
  BY <1>1, NamedOnce
<1>6. PackingFits
  <2> SUFFICES ASSUME NEW t \in Threads, task[t].pc = "scan", Packed(t)
               PROVE  Fits(Total(t), 0)
    BY DEF PackingFits
  <2>1. task[t].room \in Int /\ charged + task[t].room <= RamCapacity /\ Total(t) <= task[t].room
    BY <1>1 DEF Budgeted
  <2>2. charged \in Int /\ RamCapacity \in Int
    BY <1>1, BudgetAssumption DEF Counted
  <2>3. Total(t) \in Nat
    <3>1. task[t].batch \in Seq(Records)
      BY DEF HostInv, TaskInv, TaskShape
    <3> QED BY <3>1, CellsFacts DEF Total
  <2>4. PICK a \in Nat, b \in Int, c \in Int, d \in Int : a = Total(t) /\ b = task[t].room /\ c = charged /\ d = RamCapacity
    BY <2>1, <2>2, <2>3
  <2>5. a + 0 <= d - c
    BY <2>1, <2>4
  <2> QED BY <2>4, <2>5 DEF Fits
<1> QED BY <1>2, <1>3, <1>4, <1>5, <1>6 DEF RecordsExact

\* The stronger invariant, inductive together with HostInv: who has charged
\* what, how much room a batch may count on, and who owns every extent.
THEOREM BooksInvariant == Spec => [](HostInv /\ BudgetInv)
<1>1. Init => HostInv /\ BudgetInv
  BY InitHolds, BooksOpen
<1>2. HostInv /\ BudgetInv /\ [Next]_vars => HostInv' /\ BudgetInv'
  BY StepHolds, BooksStep DEF Sound
<1> QED BY <1>1, <1>2, PTL DEF Spec

\* Whatever fails and in whatever order threads evict, abort, read back and
\* destroy: the charge is the sum of what is alive, every extent has one owner,
\* and the catalog lists what is resident, once.
THEOREM BooksAreExact == Spec => []RecordsExact
<1>1. HostInv /\ BudgetInv => RecordsExact
  BY BooksSay
<1> QED BY <1>1, BooksInvariant, PTL

\* The packing buffer of a batch always fits beside what is charged: the throw
\* of evict_batch for a batch over the RAM capacity is unreachable.
THEOREM BatchesFit == Spec => []PackingFits
<1>1. HostInv /\ BudgetInv => PackingFits
  BY BooksSay
<1> QED BY <1>1, BooksInvariant, PTL
=============================================================================
