-------------------------- MODULE MemorySessionProofs --------------------------
(***************************************************************************)
(* The working-set transaction (kvmem/src/host/memory_contract.cpp over    *)
(* NativeBackend and NativeTransfer of src/adapter/llama-memory-kvmem.cpp) *)
(* loses no row, for every block size, history length, number of device    *)
(* pages and host records, and whatever fails: SessionExact, HistoryKept,  *)
(* ViewComplete and PlanKept of MemorySession.                             *)
(***************************************************************************)
EXTENDS MemorySession, KvContentProofs, FiniteSetTheorems

-----------------------------------------------------------------------------
(* The invariant                                                            *)

\* Rows of block i among the first n, and among the completed rows.
Filled(i, n) ==
    IF n <= FirstRow(i) THEN 0
    ELSE IF n - FirstRow(i) < BlockTokens THEN n - FirstRow(i) ELSE BlockTokens
RowsIn(i) == Filled(i, Len(rows))

SessionTypes ==
    /\ phase \in {"Idle", "Published", "Invalid", "Detached"} \cup Moving
    /\ transfer \in {"none", "armed", "destructive"}
    /\ transfer = "none" <=> phase \notin Moving
    /\ transfer = "none" <=> plan = NoPlan
    /\ device \in [Blocks -> Seq(Rows)] /\ host \in [Blocks -> Seq(Rows)]
    /\ view \subseteq Blocks
    /\ replay \in Nat \cup {NoReplay}
    /\ reserved <= MaxTokens
    /\ \A k \in 1 .. Len(rows) : rows[k] # NoRow

\* A block with a page has a cell for each completed row, which holds that row
\* or nothing; the packed copy has the first completed rows, but for those its
\* page lacks; and a block without a page has all of them in its packed copy.
CopiesTrue ==
    \A i \in Blocks :
        /\ device[i] = <<>> \/ Len(device[i]) = RowsIn(i)
        /\ \A k \in 1 .. Len(device[i]) : device[i][k] \in {NoRow, rows[FirstRow(i) + k]}
        /\ Len(host[i]) <= RowsIn(i)
        /\ \A k \in 1 .. Len(host[i]) :
               \/ host[i][k] = rows[FirstRow(i) + k]
               \/ host[i][k] = NoRow /\ k \in 1 .. Len(device[i]) /\ device[i][k] = NoRow
        /\ device[i] = <<>> => Len(host[i]) = RowsIn(i)

\* The rows a replay may compute again are on the device and in no packed copy.
ReplaySafe ==
    replay # NoReplay =>
        /\ transfer = "none"
        /\ \A i \in Touched(replay, Len(rows)) : device[i] # <<>>
        /\ \A i \in Blocks : \A k \in 1 .. Len(host[i]) : FirstRow(i) + k <= replay

ViewOnDevice == transfer # "destructive" => \A i \in view : device[i] # <<>>

\* What the plan of a transaction still means, whatever the engine did since: a
\* truncation shortens the copies and the history alike.
PlanSafe ==
    phase \in Moving =>
        /\ plan.selected \subseteq Blocks /\ plan.evict \subseteq Blocks
        /\ plan.spill \subseteq plan.evict /\ plan.restore \subseteq plan.selected
        /\ plan.evict \cap plan.selected = {}
        /\ \A i \in Blocks :
             /\ \A k \in 1 .. Len(device[i]) : device[i][k] = rows[FirstRow(i) + k]
             /\ \A k \in 1 .. Len(host[i]) : host[i][k] = rows[FirstRow(i) + k]
        /\ phase \in {"Prepared", "Spilling"} =>
             /\ \A i \in plan.spill : Len(device[i]) = RowsIn(i)
             /\ \A i \in plan.evict \ plan.spill : Len(host[i]) = RowsIn(i)
        /\ phase # "Ready" => \A i \in plan.restore : Len(host[i]) = RowsIn(i)
        /\ \A i \in plan.selected \ plan.restore : Len(device[i]) = RowsIn(i)
        /\ phase = "Ready" => \A i \in plan.selected : Len(device[i]) = RowsIn(i)

\* What it means while it is current: no call has moved the stamp.
PlanCurrent ==
    phase \in Moving =>
        /\ plan.expected.history \in Nat /\ plan.expected.history <= stamp.history
        /\ Current =>
             /\ plan.selected \subseteq Accepted
             /\ \A i \in plan.selected : plan.bytes[i] = BlockRows(i)
             /\ Cardinality(plan.selected) + ReserveBlocks <= DeviceBlocks
             /\ phase \in {"Prepared", "Spilling"} =>
                    Cardinality(OnHost \cup plan.spill) <= HostBlocks

SessionInv ==
    /\ ContentInv /\ SessionTypes /\ CopiesTrue /\ ReplaySafe /\ ViewOnDevice
    /\ PlanSafe /\ PlanCurrent

-----------------------------------------------------------------------------
(* Rows, blocks and copies                                                  *)

LEMMA BlockNumbers ==
  ASSUME NEW i \in Blocks
  PROVE  i \in Nat \ {0} /\ FirstRow(i) \in Nat /\ BlockTokens \in Nat \ {0}
  <1>1. BlocksOf(MaxTokens) \in Nat /\ BlockTokens \in Nat \ {0}
    BY BlocksNat, ContentAssumption
  <1>2. i \in Nat \ {0}
    BY <1>1 DEF Blocks
  <1> QED
    BY <1>1, <1>2, FirstRowNat

\* Block i holds some of the first n rows.
LEMMA BlockStarts ==
  ASSUME NEW i \in Nat \ {0}, NEW n \in Nat
  PROVE  i <= BlocksOf(n) <=> FirstRow(i) < n
  <1> DEFINE m == n + BlockTokens - 1
             q == m \div BlockTokens
  <1>1. BlockTokens \in Nat \ {0} /\ m \in Nat
    BY ContentAssumption
  <1>2. FirstRow(i) \in Nat /\ FirstRow(i) + BlockTokens = i * BlockTokens
    BY FirstRowNat
  <1>3. q \in Nat /\ m % BlockTokens \in 0 .. (BlockTokens - 1)
        /\ m = q * BlockTokens + (m % BlockTokens)
    BY <1>1, Division, Zenon
  <1>4. q = BlocksOf(n) /\ m = n + BlockTokens - 1
    BY DEF BlocksOf
  <1> HIDE DEF m, q
  <1>5. ASSUME i <= q PROVE FirstRow(i) < n
    <2>1. i * BlockTokens <= q * BlockTokens /\ q * BlockTokens \in Nat /\ i * BlockTokens \in Nat
      BY <1>1, <1>3, <1>5, ProductMonotone
    <2> QED
      BY <2>1, <1>1, <1>2, <1>3, <1>4
  <1>6. ASSUME FirstRow(i) < n PROVE i <= BlocksOf(n)
    <2>1. 1 \in 1 .. BlockTokens /\ FirstRow(i) < FirstRow(i) + 1 /\ FirstRow(i) + 1 <= n
      BY <1>1, <1>2, <1>6
    <2> QED
      BY <2>1, <1>2, RowInTouchedBlock
  <1> QED
    BY <1>4, <1>5, <1>6

\* Block i lies wholly before row n.
LEMMA BlockEnds ==
  ASSUME NEW i \in Nat \ {0}, NEW n \in Nat
  PROVE  n \div BlockTokens < i <=> n < FirstRow(i) + BlockTokens
  <1> DEFINE q == n \div BlockTokens
  <1>1. BlockTokens \in Nat \ {0}
    BY ContentAssumption
  <1>2. FirstRow(i) \in Nat /\ FirstRow(i) + BlockTokens = i * BlockTokens
    BY FirstRowNat
  <1>3. q \in Nat /\ n % BlockTokens \in 0 .. (BlockTokens - 1)
        /\ n = q * BlockTokens + (n % BlockTokens)
    BY <1>1, Division, Zenon
  <1> HIDE DEF q
  <1>4. ASSUME q < i PROVE n < i * BlockTokens
    <2>1. (q + 1) * BlockTokens <= i * BlockTokens /\ i * BlockTokens \in Nat
      BY <1>1, <1>3, <1>4, ProductMonotone
    <2>2. (q + 1) * BlockTokens = q * BlockTokens + BlockTokens /\ q * BlockTokens \in Nat
      BY <1>1, <1>3, SMT
    <2> QED
      BY <2>1, <2>2, <1>1, <1>3
  <1>5. ASSUME i <= q PROVE i * BlockTokens <= n
    <2>1. i * BlockTokens <= q * BlockTokens /\ q * BlockTokens \in Nat /\ i * BlockTokens \in Nat
      BY <1>1, <1>3, <1>5, ProductMonotone
    <2> QED
      BY <2>1, <1>1, <1>3
  <1>6. i * BlockTokens \in Nat
    BY <1>1, ProductMonotone
  <1> QED
    BY <1>2, <1>3, <1>4, <1>5, <1>6 DEF q

LEMMA TouchedIs ==
  ASSUME NEW i \in Blocks, NEW begin \in Nat, NEW end \in Nat
  PROVE  i \in Touched(begin, end) <=> begin < FirstRow(i) + BlockTokens /\ FirstRow(i) < end
  BY BlockNumbers, BlockStarts, BlockEnds DEF Touched

LEMMA FilledNat ==
  ASSUME NEW i \in Blocks, NEW n \in Nat
  PROVE  /\ Filled(i, n) \in 0 .. BlockTokens
         /\ FirstRow(i) < n => Filled(i, n) > 0 /\ FirstRow(i) + Filled(i, n) <= n
         /\ n <= FirstRow(i) => Filled(i, n) = 0
  BY BlockNumbers DEF Filled

LEMMA RowsInIs ==
  ASSUME ContentInv, NEW i \in Blocks
  PROVE  /\ RowsIn(i) \in Nat
         /\ \A k \in 1 .. RowsIn(i) : FirstRow(i) + k \in 1 .. Len(rows)
         /\ Len(rows) <= FirstRow(i) => RowsIn(i) = 0
  <1>1. Len(rows) \in Nat /\ FirstRow(i) \in Nat /\ BlockTokens \in Nat \ {0}
    BY BlockNumbers DEF ContentInv, TypeOK
  <1> QED
    BY <1>1 DEF RowsIn, Filled

\* Accepted rows are completed rows, block by block.
LEMMA AcceptedIs ==
  ASSUME ContentInv, reserved <= MaxTokens, NEW i \in Accepted
  PROVE  /\ i \in Blocks
         /\ FirstRow(i) < stamp.frontier
         /\ ValidTokens(i) \in 1 .. RowsIn(i)
         /\ FirstRow(i) + ValidTokens(i) <= stamp.frontier
         /\ ValidTokens(i) = Filled(i, stamp.frontier)
  <1>1. /\ stamp.frontier \in Nat /\ Len(rows) \in Nat /\ stamp.frontier <= Len(rows)
        /\ stamp.frontier <= MaxTokens /\ MaxTokens \in Nat
    BY StampFields, ContentAssumption DEF ContentInv, TypeOK, Certified
  <1>2. /\ BlocksOf(stamp.frontier) <= BlocksOf(MaxTokens)
        /\ BlocksOf(stamp.frontier) \in Nat /\ BlocksOf(MaxTokens) \in Nat
    BY <1>1, BlocksMonotone, BlocksNat
  <1>3. i \in Blocks /\ i \in Nat \ {0} /\ i <= BlocksOf(stamp.frontier)
    BY <1>2 DEF Accepted, Blocks
  <1>4. FirstRow(i) < stamp.frontier
    BY <1>1, <1>3, BlockStarts
  <1>5. FirstRow(i) \in Nat /\ BlockTokens \in Nat \ {0}
    BY <1>3, BlockNumbers
  <1> QED
    BY <1>1, <1>3, <1>4, <1>5 DEF ValidTokens, RowsIn, Filled

LEMMA HoldsIs ==
  ASSUME ContentInv, reserved <= MaxTokens, NEW i \in Accepted, NEW copy \in Seq(Rows)
  PROVE  Holds(copy, i) <=> /\ ValidTokens(i) <= Len(copy)
                           /\ \A k \in 1 .. ValidTokens(i) : copy[k] = rows[FirstRow(i) + k]
  <1> DEFINE n == ValidTokens(i)
             f == FirstRow(i)
  <1>0. i \in Blocks /\ ValidTokens(i) \in 1 .. RowsIn(i) /\ f + n <= stamp.frontier
    BY AcceptedIs
  <1>1. n \in Nat /\ f \in Nat /\ f + n <= Len(rows) /\ Len(rows) \in Nat /\ rows \in Seq(Rows)
    <2>1. f \in Nat /\ n \in Nat
      BY <1>0, BlockNumbers
    <2> QED
      BY <1>0, <2>1, StampFields DEF ContentInv, TypeOK, Certified
  <1>2. Holds(copy, i) <=> n <= Len(copy) /\ SubSeq(copy, 1, n) = SubSeq(rows, f + 1, f + n)
    BY AcceptedIs DEF Holds, BlockRows
  <1> HIDE DEF n, f
  <1>3. SubSeq(rows, f + 1, f + n) = [k \in 1 .. n |-> rows[f + k]]
    BY <1>1, SMT
  <1>4. ASSUME n <= Len(copy) PROVE SubSeq(copy, 1, n) = [k \in 1 .. n |-> copy[k]]
    BY <1>1, <1>4, SMT
  <1> QED
    BY <1>1, <1>2, <1>3, <1>4 DEF n, f

LEMMA ShortenedIs ==
  ASSUME NEW copy \in Seq(Rows), NEW n \in Nat
  PROVE  /\ Shortened(copy, n) \in Seq(Rows)
         /\ Len(Shortened(copy, n)) = IF n < Len(copy) THEN n ELSE Len(copy)
         /\ \A k \in 1 .. Len(Shortened(copy, n)) : Shortened(copy, n)[k] = copy[k]
  BY DEF Shortened

LEMMA EmptyCopy == ASSUME NEW copy \in Seq(Rows) PROVE copy = <<>> <=> Len(copy) = 0
  OBVIOUS

-----------------------------------------------------------------------------
(* Calls that move the ledger only                                          *)

LEMMA LedgerOnly ==
  ASSUME SessionInv, ContentInv', reserved' <= MaxTokens, rows' = rows, UNCHANGED sessionVars,
         stamp.history <= stamp'.history, phase \in Moving => ~Current'
  PROVE  SessionInv'
  <1>1. SessionTypes'
    BY DEF SessionInv, SessionTypes, sessionVars
  <1>2. CopiesTrue'
    BY DEF SessionInv, CopiesTrue, RowsIn, Filled, FirstRow, sessionVars
  <1>3. ReplaySafe' /\ ViewOnDevice'
    BY DEF SessionInv, ReplaySafe, ViewOnDevice, Touched, FirstRow, BlocksOf, sessionVars
  <1>4. PlanSafe'
    BY DEF SessionInv, PlanSafe, RowsIn, Filled, FirstRow, sessionVars
  <1>5. PlanCurrent'
    <2>1. stamp.history \in Nat /\ stamp'.history \in Nat
      BY StampFields DEF SessionInv, ContentInv, TypeOK, Stamps
    <2> QED
      BY <2>1 DEF SessionInv, PlanCurrent, sessionVars
  <1> QED
    BY <1>1, <1>2, <1>3, <1>4, <1>5 DEF SessionInv

LEMMA ReserveSafe ==
  ASSUME SessionInv, NEW end \in Nat, EngineReserve(end)
  PROVE  SessionInv'
  <1>1. ContentInv'
    BY ReserveKeeps DEF EngineReserve, SessionInv
  <1>2. phase \notin Moving
    BY DEF SessionInv, SessionTypes, EngineReserve
  <1>3. stamp.history <= stamp'.history
    BY StampFields DEF SessionInv, ContentInv, TypeOK, Stamps, EngineReserve, Reserve
  <1>4. reserved' <= MaxTokens /\ rows' = rows
    BY DEF EngineReserve, Reserve
  <1> QED
    BY <1>1, <1>2, <1>3, <1>4, LedgerOnly DEF EngineReserve

LEMMA AcceptSafe ==
  ASSUME SessionInv, NEW end \in Nat, EngineAccept(end)
  PROVE  SessionInv'
  <1>1. ContentInv'
    BY AcceptKeeps DEF EngineAccept, SessionInv
  <1>2. phase \notin Moving
    BY DEF SessionInv, SessionTypes, EngineAccept
  <1>3. stamp.history <= stamp'.history
    BY StampFields DEF SessionInv, ContentInv, TypeOK, Stamps, EngineAccept, Accept
  <1>4. reserved' <= MaxTokens /\ rows' = rows
    BY DEF EngineAccept, Accept, SessionInv, SessionTypes
  <1> QED
    BY <1>1, <1>2, <1>3, <1>4, LedgerOnly DEF EngineAccept

\* A plan made before the history moved on is not current any more.
LEMMA HistoryMoved ==
  ASSUME SessionInv, phase \in Moving, plan' = plan, stamp'.history = stamp.history + 1
  PROVE  ~Current'
  <1>1. stamp.history \in Nat
    BY StampFields DEF SessionInv, ContentInv
  <1>2. plan.expected.history \in Nat /\ plan.expected.history <= stamp.history
    BY DEF SessionInv, PlanCurrent
  <1>3. stamp' # plan.expected
    BY <1>1, <1>2
  <1> QED
    BY <1>3 DEF Current

LEMMA ChangeExecutionSafe ==
  ASSUME SessionInv, EngineChangeExecution
  PROVE  SessionInv'
  <1>1. ContentInv' /\ stamp'.history = stamp.history + 1 /\ stamp.history \in Nat
    BY StampMoveKeeps, StampFields
       DEF EngineChangeExecution, SessionInv, ChangeExecution, ContentInv, TypeOK, Stamps
  <1>2. reserved' <= MaxTokens /\ rows' = rows /\ UNCHANGED sessionVars /\ plan' = plan
    BY DEF EngineChangeExecution, ChangeExecution, SessionInv, SessionTypes, sessionVars
  <1>3. stamp.history <= stamp'.history
    BY <1>1
  <1> QED
    BY <1>1, <1>2, <1>3, HistoryMoved, LedgerOnly

LEMMA InvalidatedIs ==
  ASSUME ContentInv, Invalidate
  PROVE  ~stamp'.valid /\ stamp'.history = stamp.history /\ stamp'.frontier = stamp.frontier
  BY DEF Invalidate, ContentInv, TypeOK, Stamps

LEMMA InvalidateSafe ==
  ASSUME SessionInv, Invalidate, UNCHANGED sessionVars
  PROVE  SessionInv'
  <1>1. ContentInv' /\ ~stamp'.valid /\ stamp'.history = stamp.history /\ stamp.history \in Nat
    BY InvalidateKeeps, InvalidatedIs, StampFields DEF SessionInv, ContentInv
  <1>2. reserved' <= MaxTokens /\ rows' = rows /\ ~Current'
    BY <1>1 DEF Invalidate, SessionInv, SessionTypes, Current
  <1> QED
    BY <1>1, <1>2, LedgerOnly

LEMMA ReplayEndsSafe ==
  ASSUME SessionInv, EngineReplayEnds
  PROVE  SessionInv'
  <1> USE DEF EngineReplayEnds, contentVars
  <1>1. ContentInv'
    BY DEF SessionInv, ContentInv, TypeOK, Certified, BlocksOf
  <1>2. SessionTypes'
    BY DEF SessionInv, SessionTypes
  <1>3. CopiesTrue'
    BY DEF SessionInv, CopiesTrue, RowsIn, Filled, FirstRow
  <1>4. ReplaySafe' /\ ViewOnDevice'
    BY DEF SessionInv, ReplaySafe, ViewOnDevice
  <1>5. PlanSafe'
    BY DEF SessionInv, PlanSafe, RowsIn, Filled, FirstRow
  <1>6. PlanCurrent'
    BY DEF SessionInv, PlanCurrent, Current, Accepted, BlockRows, FirstRow, ValidTokens, BlocksOf,
           ReserveBlocks, OnHost
  <1> QED
    BY <1>1, <1>2, <1>3, <1>4, <1>5, <1>6 DEF SessionInv

-----------------------------------------------------------------------------
(* A conversation that starts from nothing                                  *)

LEMMA EmptySafe ==
  ASSUME ContentInv', rows' = <<>>, reserved' = 0, device' = NoCopies, host' = NoCopies, view' = {},
         replay' = NoReplay, transfer' = "none", plan' = NoPlan,
         phase' \in {"Idle", "Published", "Invalid", "Detached"}
  PROVE  SessionInv'
  <1>0. phase' \notin Moving
    BY DEF Moving
  <1>1. SessionTypes'
    <2>1. NoCopies \in [Blocks -> Seq(Rows)]
      BY DEF NoCopies
    <2>2. 0 <= MaxTokens
      BY ContentAssumption
    <2> QED
      BY <1>0, <2>1, <2>2 DEF SessionTypes
  <1>2. CopiesTrue'
    <2> SUFFICES ASSUME NEW i \in Blocks
                 PROVE  Filled(i, 0) = 0 /\ NoCopies[i] = <<>>
      BY DEF CopiesTrue, RowsIn, Filled, FirstRow
    <2> QED
      BY FilledNat, BlockNumbers DEF NoCopies
  <1>3. ReplaySafe' /\ ViewOnDevice'
    BY DEF ReplaySafe, ViewOnDevice
  <1>4. PlanSafe' /\ PlanCurrent'
    BY <1>0 DEF PlanSafe, PlanCurrent
  <1> QED
    BY <1>1, <1>2, <1>3, <1>4 DEF SessionInv

LEMMA SettledPhases ==
  ASSUME SessionInv, transfer = "none"
  PROVE  phase \in {"Idle", "Published", "Invalid", "Detached"} /\ plan = NoPlan
  BY DEF SessionInv, SessionTypes

LEMMA EmptiedSafe == ASSUME SessionInv, EngineReset PROVE SessionInv'
  <1>1. ContentInv'
    BY ResetKeeps DEF EngineReset, SessionInv
  <1>2. rows' = <<>> /\ reserved' = 0
    BY DEF EngineReset, Reset
  <1> QED
    BY <1>1, <1>2, SettledPhases, EmptySafe DEF EngineReset

LEMMA LoseEverythingKeeps == ASSUME ContentInv, LoseEverything PROVE ContentInv'
  <1>1. stamp' \in Stamps /\ stamp'.frontier = 0
    BY StampFields DEF ContentInv, TypeOK, LoseEverything, Stamps
  <1>2. versions' = <<>> /\ rows' = <<>> /\ reserved' = 0 /\ evaluated' = 0 /\ leases' = RevokeAll
    BY DEF LoseEverything
  <1>3. leases' \in [Leases -> Grants]
    BY <1>2, RevokeTyped DEF ContentInv
  <1>4. TypeOK'
    BY <1>1, <1>2, <1>3 DEF TypeOK
  <1>5. BlocksOf(0)' = 0
    BY NoBlocks DEF BlocksOf
  <1>6. Certified'
    BY <1>1, <1>2, <1>5 DEF Certified
  <1> QED
    BY <1>4, <1>6 DEF ContentInv

-----------------------------------------------------------------------------
(* Rows that the engine computes                                            *)

LEMMA NoPlanNoDuty == ASSUME phase' \notin Moving PROVE PlanSafe' /\ PlanCurrent'
  BY DEF PlanSafe, PlanCurrent

LEMMA ComputedRows ==
  ASSUME ContentInv, NEW begin \in Nat, NEW end \in Nat, NEW accepted \in BOOLEAN,
         Complete(begin, end, accepted)
  PROVE  /\ rows' \in Seq(Rows)
         /\ Len(rows') = IF end < Len(rows) THEN Len(rows) ELSE end
         /\ \A k \in 1 .. Len(rows') :
                IF begin < k /\ k <= end THEN rows'[k] # NoRow ELSE rows'[k] = rows[k]
  <1> DEFINE rev == stamp.history + 1
             n == IF end < Len(rows) THEN Len(rows) ELSE end
  <1>1. rev \in Nat /\ rev # 0 /\ rows' = Computed(begin, end, rev) /\ begin <= stamp.frontier
    BY StampFields DEF Complete, ContentInv
  <1> HIDE DEF rev
  <1>2. rows' \in Seq(Rows) /\ Len(rows') = n
    BY <1>1, ComputedIs
  <1>3. ASSUME NEW k \in 1 .. n
        PROVE  IF begin < k /\ k <= end THEN rows'[k] # NoRow ELSE rows'[k] = rows[k]
    <2>1. CASE begin < k /\ k <= end
      <3>1. rows'[k].by = rev
        BY <1>1, <2>1 DEF Computed
      <3> QED
        BY <1>1, <2>1, <3>1 DEF NoRow
    <2>2. CASE ~(begin < k /\ k <= end)
      BY <1>1, <2>2 DEF Computed
    <2> QED
      BY <2>1, <2>2
  <1> QED
    BY <1>2, <1>3

LEMMA WrittenIs ==
  ASSUME device \in [Blocks -> Seq(Rows)], NEW begin \in Nat, NEW end \in Nat, begin < end,
         NEW rs \in Seq(Rows), end <= Len(rs), NEW i \in Blocks
  PROVE  /\ Written(begin, end, rs)[i] \in Seq(Rows)
         /\ i \notin Touched(begin, end) => Written(begin, end, rs)[i] = device[i]
         /\ i \in Touched(begin, end) =>
              /\ Len(Written(begin, end, rs)[i]) =
                    IF Filled(i, end) < Len(device[i]) THEN Len(device[i]) ELSE Filled(i, end)
              /\ \A k \in 1 .. Len(Written(begin, end, rs)[i]) :
                    Written(begin, end, rs)[i][k] =
                      IF begin < FirstRow(i) + k /\ FirstRow(i) + k <= end THEN rs[FirstRow(i) + k]
                      ELSE IF k \in 1 .. Len(device[i]) THEN device[i][k] ELSE NoRow
  <1> DEFINE f == FirstRow(i)
             last == IF end < i * BlockTokens THEN end ELSE i * BlockTokens
             size == IF last - f < Len(device[i]) THEN Len(device[i]) ELSE last - f
             cell(k) == IF begin < f + k /\ f + k <= end THEN rs[f + k]
                        ELSE IF k \in 1 .. Len(device[i]) THEN device[i][k] ELSE NoRow
             page == [k \in 1 .. size |-> cell(k)]
  <1>1. /\ f \in Nat /\ BlockTokens \in Nat \ {0} /\ f + BlockTokens = i * BlockTokens
        /\ device[i] \in Seq(Rows) /\ DOMAIN device[i] = 1 .. Len(device[i]) /\ Len(device[i]) \in Nat
    <2>1. i \in Nat \ {0} /\ BlockTokens \in Nat \ {0}
      BY BlockNumbers
    <2>2. FirstRow(i) \in Nat /\ FirstRow(i) + BlockTokens = i * BlockTokens
      BY <2>1, FirstRowNat
    <2>3. device[i] \in Seq(Rows) /\ DOMAIN device[i] = 1 .. Len(device[i]) /\ Len(device[i]) \in Nat
      OBVIOUS
    <2> QED
      BY <2>1, <2>2, <2>3
  <1>2. Written(begin, end, rs)[i] = IF i \notin Touched(begin, end) THEN device[i] ELSE page
    BY <1>1 DEF Written
  <1>3. ASSUME i \in Touched(begin, end)
        PROVE  /\ size = IF Filled(i, end) < Len(device[i]) THEN Len(device[i]) ELSE Filled(i, end)
               /\ size \in Nat
    <2>1. f < end
      BY <1>3, TouchedIs
    <2> HIDE DEF f
    <2>2. last - f = IF end - f < BlockTokens THEN end - f ELSE BlockTokens
      BY <1>1, <2>1
    <2>3. Filled(i, end) = last - f
      BY <1>1, <2>1, <2>2 DEF Filled, f
    <2> QED
      BY <1>1, <2>1, <2>3
  <1> HIDE DEF size
  <1>4. ASSUME NEW k \in 1 .. size, size \in Nat PROVE cell(k) \in Rows
    <2> HIDE DEF f
    <2>1. CASE begin < f + k /\ f + k <= end
      BY <1>1, <1>4, <2>1
    <2>2. CASE ~(begin < f + k /\ f + k <= end)
      <3>1. NoRow \in Rows
        BY DEF NoRow, Rows
      <3> QED
        BY <1>1, <1>4, <2>2, <3>1
    <2> QED
      BY <2>1, <2>2
  <1> HIDE DEF cell
  <1>5. ASSUME size \in Nat
        PROVE  /\ page \in Seq(Rows) /\ Len(page) = size
               /\ \A k \in 1 .. Len(page) : page[k] = cell(k)
    BY <1>4, <1>5
  <1> HIDE DEF page
  <1> QED
    BY <1>1, <1>2, <1>3, <1>5 DEF cell

\* Writing computed rows keeps the copies true: rows that are computed again are
\* in no packed copy.
LEMMA WriteKeepsCopies ==
  ASSUME SessionInv, NEW begin \in Nat, NEW end \in Nat, NEW accepted \in BOOLEAN,
         Complete(begin, end, accepted), device' = Written(begin, end, rows'), host' = host,
         \/ begin = Len(rows)
         \/ replay # NoReplay /\ replay <= begin /\ end <= Len(rows)
  PROVE  /\ device' \in [Blocks -> Seq(Rows)]
         /\ CopiesTrue'
         /\ \A i \in Blocks : device'[i] = <<>> => device[i] = <<>> /\ i \notin Touched(begin, end)
         /\ \A k \in 1 .. Len(rows') : rows'[k] # NoRow
  <1> DEFINE n == Len(rows)
             n1 == Len(rows')
  <1>1. /\ device \in [Blocks -> Seq(Rows)] /\ host \in [Blocks -> Seq(Rows)]
        /\ rows \in Seq(Rows) /\ n \in Nat /\ begin < end /\ replay \in Nat \cup {NoReplay}
    BY DEF SessionInv, SessionTypes, ContentInv, TypeOK, Complete
  <1>2. /\ rows' \in Seq(Rows) /\ n1 \in Nat /\ n1 = IF end < n THEN n ELSE end
        /\ \A k \in 1 .. n1 :
                IF begin < k /\ k <= end THEN rows'[k] # NoRow ELSE rows'[k] = rows[k]
    BY ComputedRows DEF SessionInv
  <1> HIDE DEF n, n1
  <1>3. end <= n1 /\ end <= Len(rows')
    BY <1>1, <1>2 DEF n1
  <1>4. \A k \in 1 .. n1 : rows'[k] # NoRow
    BY <1>1, <1>2 DEF SessionInv, SessionTypes, n
  <1> DEFINE w == Written(begin, end, rows')
  <1>5. \A i \in Blocks :
         /\ w[i] \in Seq(Rows)
         /\ i \notin Touched(begin, end) => w[i] = device[i]
         /\ i \in Touched(begin, end) =>
              /\ Len(w[i]) = IF Filled(i, end) < Len(device[i]) THEN Len(device[i]) ELSE Filled(i, end)
              /\ \A k \in 1 .. Len(w[i]) :
                    w[i][k] = IF begin < FirstRow(i) + k /\ FirstRow(i) + k <= end THEN rows'[FirstRow(i) + k]
                              ELSE IF k \in 1 .. Len(device[i]) THEN device[i][k] ELSE NoRow
    <2> SUFFICES ASSUME NEW i \in Blocks
                 PROVE  /\ w[i] \in Seq(Rows)
                        /\ i \notin Touched(begin, end) => w[i] = device[i]
                        /\ i \in Touched(begin, end) =>
                             /\ Len(w[i]) = IF Filled(i, end) < Len(device[i]) THEN Len(device[i]) ELSE Filled(i, end)
                             /\ \A k \in 1 .. Len(w[i]) :
                                   w[i][k] = IF begin < FirstRow(i) + k /\ FirstRow(i) + k <= end THEN rows'[FirstRow(i) + k]
                                             ELSE IF k \in 1 .. Len(device[i]) THEN device[i][k] ELSE NoRow
      OBVIOUS
    <2> DEFINE rs == rows'
    <2>1. rs \in Seq(Rows) /\ end <= Len(rs)
      BY <1>2, <1>3
    <2>3. device \in [Blocks -> Seq(Rows)] /\ begin < end
      BY <1>1
    <2> HIDE DEF rs, w
    <2>2. /\ Written(begin, end, rs)[i] \in Seq(Rows)
          /\ i \notin Touched(begin, end) => Written(begin, end, rs)[i] = device[i]
          /\ i \in Touched(begin, end) =>
               /\ Len(Written(begin, end, rs)[i]) =
                     IF Filled(i, end) < Len(device[i]) THEN Len(device[i]) ELSE Filled(i, end)
               /\ \A k \in 1 .. Len(Written(begin, end, rs)[i]) :
                     Written(begin, end, rs)[i][k] =
                       IF begin < FirstRow(i) + k /\ FirstRow(i) + k <= end THEN rs[FirstRow(i) + k]
                       ELSE IF k \in 1 .. Len(device[i]) THEN device[i][k] ELSE NoRow
      BY <2>1, <2>3, WrittenIs, SMTT(60)
    <2> QED
      BY <2>2, Zenon DEF rs, w
  <1>6. w = [i \in Blocks |-> w[i]]
    BY DEF Written
  <1> HIDE DEF w
  <1>7. device' \in [Blocks -> Seq(Rows)] /\ device' = w
    BY <1>5, <1>6 DEF w
  <1>8. ASSUME NEW i \in Blocks
        PROVE  /\ w[i] = <<>> \/ Len(w[i]) = Filled(i, n1)
               /\ \A k \in 1 .. Len(w[i]) : w[i][k] \in {NoRow, rows'[FirstRow(i) + k]}
               /\ Len(host[i]) <= Filled(i, n1)
               /\ \A k \in 1 .. Len(host[i]) :
                     \/ host[i][k] = rows'[FirstRow(i) + k]
                     \/ host[i][k] = NoRow /\ k \in 1 .. Len(w[i]) /\ w[i][k] = NoRow
               /\ w[i] = <<>> => Len(host[i]) = Filled(i, n1)
               /\ w[i] = <<>> => device[i] = <<>> /\ i \notin Touched(begin, end)
    <2> DEFINE f == FirstRow(i)
               old == device[i]
               new == w[i]
               packed == host[i]
               touched == i \in Touched(begin, end)
               was == Filled(i, n)
               is == Filled(i, n1)
               put == Filled(i, end)
    <2>1. /\ old \in Seq(Rows) /\ new \in Seq(Rows) /\ packed \in Seq(Rows)
          /\ f \in Nat /\ BlockTokens \in Nat \ {0}
      BY <1>1, <1>5, BlockNumbers
    <2>2. /\ old = <<>> \/ Len(old) = was
          /\ \A k \in 1 .. Len(old) : old[k] \in {NoRow, rows[f + k]}
          /\ Len(packed) <= was
          /\ \A k \in 1 .. Len(packed) :
                 packed[k] = rows[f + k] \/ (packed[k] = NoRow /\ k \in 1 .. Len(old) /\ old[k] = NoRow)
          /\ old = <<>> => Len(packed) = was
      BY DEF SessionInv, CopiesTrue, RowsIn, n
    <2>3. touched <=> begin < f + BlockTokens /\ f < end
      <3>1. i \in Touched(begin, end) <=> begin < FirstRow(i) + BlockTokens /\ FirstRow(i) < end
        BY TouchedIs, Zenon
      <3> QED
        BY <3>1
    <2>4. /\ was = IF n <= f THEN 0 ELSE IF n - f < BlockTokens THEN n - f ELSE BlockTokens
          /\ is = IF n1 <= f THEN 0 ELSE IF n1 - f < BlockTokens THEN n1 - f ELSE BlockTokens
          /\ put = IF end <= f THEN 0 ELSE IF end - f < BlockTokens THEN end - f ELSE BlockTokens
      BY DEF Filled
    <2>5. ASSUME replay # NoReplay, replay <= begin, end <= n, touched PROVE old # <<>>
      <3>1. replay \in Nat
        BY <1>1, <2>5
      <3>2. replay < f + BlockTokens /\ f < n
        BY <1>1, <2>1, <2>3, <2>5, <3>1
      <3>3. n \in Nat
        BY <1>1
      <3>4. i \in Touched(replay, n) <=> replay < FirstRow(i) + BlockTokens /\ FirstRow(i) < n
        BY <3>1, <3>3, TouchedIs, Zenon
      <3>5. i \in Touched(replay, n)
        BY <3>2, <3>4
      <3> QED
        BY <2>5, <3>5 DEF SessionInv, ReplaySafe, n
    <2>6. replay # NoReplay => \A k \in 1 .. Len(packed) : f + k <= replay
      BY DEF SessionInv, ReplaySafe
    <2>7. begin = n \/ (replay # NoReplay /\ replay <= begin /\ end <= n)
      BY DEF n
    <2>8. /\ ~touched => new = old
          /\ touched =>
              /\ Len(new) = IF put < Len(old) THEN Len(old) ELSE put
              /\ \A k \in 1 .. Len(new) :
                    new[k] = IF begin < f + k /\ f + k <= end THEN rows'[f + k]
                             ELSE IF k \in 1 .. Len(old) THEN old[k] ELSE NoRow
      BY <1>5
    <2>9. Len(old) \in Nat /\ Len(new) \in Nat /\ Len(packed) \in Nat
          /\ (old = <<>> <=> Len(old) = 0) /\ (new = <<>> <=> Len(new) = 0)
      BY <2>1, EmptyCopy
    <2> HIDE DEF f, old, new, packed, touched, was, is, put
    <2>10. touched => Len(new) = is /\ Len(new) > 0
      <3> SUFFICES ASSUME touched PROVE Len(new) = is /\ Len(new) > 0
        OBVIOUS
      <3>1. put > 0 /\ put <= is /\ put \in Nat /\ is \in Nat
        <4>1. begin < f + BlockTokens /\ f < end
          BY <2>3
        <4>2. end \in Nat /\ n1 \in Nat /\ end <= n1
          BY <1>1, <1>2
        <4> QED
          BY <2>1, <2>4, <4>1, <4>2
      <3>2. CASE begin = n
        <4>1. is = put /\ Len(old) <= put
          BY <1>1, <1>2, <2>1, <2>2, <2>3, <2>4, <2>9, <3>2
        <4> QED
          BY <2>8, <2>9, <3>1, <4>1
      <3>3. CASE replay # NoReplay /\ replay <= begin /\ end <= n
        <4>1. Len(old) = was
          BY <2>2, <2>5, <3>3
        <4>2. is = was
          BY <1>1, <1>2, <2>1, <2>4, <3>3
        <4> QED
          BY <2>8, <2>9, <3>1, <4>1, <4>2
      <3> QED
        BY <2>7, <3>2, <3>3
    <2>11. ~touched => is = was /\ new = old
      <3>1. CASE ~touched /\ begin = n
        <4>1. n1 = end /\ (end <= f \/ f + BlockTokens <= n)
          BY <1>1, <1>2, <2>1, <2>3, <3>1
        <4> QED
          BY <1>1, <1>2, <2>1, <2>4, <2>8, <3>1, <4>1
      <3>2. CASE end <= n
        BY <1>1, <1>2, <2>4, <2>8, <3>2
      <3> QED
        BY <2>7, <3>1, <3>2
    <2>12. was <= is
      BY <1>1, <1>2, <2>1, <2>4
    <2>13. \A k \in 1 .. was : f + k \in 1 .. n /\ f + k \in 1 .. n1 /\ k <= BlockTokens
      BY <1>1, <1>2, <2>1, <2>4
    <2>14. ASSUME NEW k \in 1 .. Len(new) PROVE new[k] \in {NoRow, rows'[f + k]}
      <3>1. CASE touched /\ begin < f + k /\ f + k <= end
        BY <2>8, <3>1
      <3>2. CASE touched /\ ~(begin < f + k /\ f + k <= end)
        <4>1. CASE k \in 1 .. Len(old)
          <5>1. new[k] = old[k] /\ old[k] \in {NoRow, rows[f + k]} /\ k \in 1 .. was
            BY <2>2, <2>8, <2>9, <3>2, <4>1
          <5>2. rows'[f + k] = rows[f + k]
            BY <1>2, <2>13, <3>2, <5>1
          <5> QED
            BY <5>1, <5>2
        <4>2. CASE k \notin 1 .. Len(old)
          BY <2>8, <3>2, <4>2
        <4> QED
          BY <4>1, <4>2
      <3>3. CASE ~touched
        <4>1. k \in 1 .. was /\ new[k] = old[k] /\ old[k] \in {NoRow, rows[f + k]}
          BY <2>2, <2>9, <2>11, <3>3
        <4>2. ~(begin < f + k /\ f + k <= end)
          BY <1>1, <2>1, <2>3, <2>13, <3>3, <4>1
        <4>3. rows'[f + k] = rows[f + k]
          BY <1>2, <2>13, <4>1, <4>2
        <4> QED
          BY <4>1, <4>3
      <3> QED
        BY <3>1, <3>2, <3>3
    <2>15. ASSUME NEW k \in 1 .. Len(packed)
           PROVE  packed[k] = rows'[f + k] \/ (packed[k] = NoRow /\ k \in 1 .. Len(new) /\ new[k] = NoRow)
      <3>1. k \in 1 .. was
        BY <2>2, <2>4, <2>9
      <3>2. f + k <= begin
        <4>1. CASE begin = n
          BY <2>13, <3>1, <4>1, <1>1
        <4>2. CASE replay # NoReplay /\ replay <= begin
          <5>1. f + k <= replay /\ replay \in Nat
            BY <1>1, <2>6, <4>2
          <5> QED
            BY <4>2, <5>1, <2>1
        <4> QED
          BY <2>7, <4>1, <4>2
      <3>3. rows'[f + k] = rows[f + k]
        BY <1>1, <1>2, <2>13, <3>1, <3>2
      <3>4. ASSUME k \in 1 .. Len(old), old[k] = NoRow PROVE k \in 1 .. Len(new) /\ new[k] = NoRow
        <4>1. CASE touched
          <5>1. k \in 1 .. Len(new)
            BY <2>2, <2>9, <2>10, <2>12, <3>1, <3>4, <4>1
          <5>2. ~(begin < f + k)
            BY <1>1, <2>1, <2>9, <3>2, <3>4
          <5>3. new[k] = old[k]
            BY <2>8, <3>4, <4>1, <5>1, <5>2
          <5> QED
            BY <3>4, <5>1, <5>3
        <4>2. CASE ~touched
          BY <2>11, <3>4, <4>2
        <4> QED
          BY <4>1, <4>2
      <3> QED
        BY <2>2, <3>3, <3>4
    <2>16. /\ new = <<>> \/ Len(new) = is
           /\ Len(packed) <= is
           /\ new = <<>> => Len(packed) = is
           /\ new = <<>> => old = <<>> /\ ~touched
      <3>1. /\ was \in Nat /\ is \in Nat
        BY <1>1, <1>2, <2>1, <2>4
      <3> QED
        BY <2>2, <2>9, <2>10, <2>11, <2>12, <3>1
    <2> QED
      BY <2>14, <2>15, <2>16 DEF f, old, new, packed, touched, was, is, put
  <1>9. CopiesTrue'
    BY <1>7, <1>8 DEF CopiesTrue, RowsIn, Filled, FirstRow, n1
  <1> QED
    BY <1>4, <1>7, <1>8, <1>9 DEF n1

LEMMA CompleteSafe ==
  ASSUME SessionInv, NEW end \in Nat, NEW accepted \in BOOLEAN, EngineComplete(end, accepted)
  PROVE  SessionInv'
  <1>1. /\ Complete(evaluated, end, accepted) /\ device' = Written(evaluated, end, rows')
        /\ view' = view \cup Touched(evaluated, end)
        /\ UNCHANGED <<phase, plan, transfer, host, replay>>
        /\ transfer = "none" /\ replay = NoReplay
    BY DEF EngineComplete
  <1>2. evaluated \in Nat /\ evaluated = Len(rows)
    BY DEF SessionInv, ContentInv, TypeOK, Certified
  <1>3. ContentInv'
    BY <1>1, <1>2, CompleteKeeps DEF SessionInv
  <1>4. /\ device' \in [Blocks -> Seq(Rows)]
        /\ CopiesTrue'
        /\ \A i \in Blocks : device'[i] = <<>> => device[i] = <<>> /\ i \notin Touched(evaluated, end)
        /\ \A k \in 1 .. Len(rows') : rows'[k] # NoRow
    BY <1>1, <1>2, WriteKeepsCopies
  <1>5. SessionTypes'
    <2>1. reserved' <= MaxTokens /\ view' \subseteq Blocks
      BY <1>1 DEF Complete, SessionInv, SessionTypes, Touched
    <2> QED
      BY <1>1, <1>4, <2>1 DEF SessionInv, SessionTypes
  <1>6. ReplaySafe'
    BY <1>1 DEF ReplaySafe
  <1>7. ViewOnDevice'
    <2>1. \A i \in view' : i \in Blocks /\ (i \in Touched(evaluated, end) \/ device[i] # <<>>)
      BY <1>1 DEF SessionInv, SessionTypes, ViewOnDevice, Touched
    <2> QED
      BY <1>4, <2>1 DEF ViewOnDevice
  <1>8. PlanSafe' /\ PlanCurrent'
    BY <1>1, NoPlanNoDuty DEF SessionInv, SessionTypes
  <1> QED
    BY <1>3, <1>4, <1>5, <1>6, <1>7, <1>8 DEF SessionInv

LEMMA RecomputeSafe ==
  ASSUME SessionInv, NEW begin \in Nat, NEW end \in Nat, EngineRecompute(begin, end)
  PROVE  SessionInv'
  <1>1. /\ Complete(begin, end, TRUE) /\ device' = Written(begin, end, rows')
        /\ UNCHANGED <<phase, plan, transfer, host, view, replay>>
        /\ transfer = "none" /\ replay # NoReplay /\ replay <= begin /\ end <= Len(rows)
    BY DEF EngineRecompute, SessionInv, ContentInv, Certified
  <1>2. ContentInv'
    BY <1>1, CompleteKeeps DEF SessionInv
  <1>3. /\ device' \in [Blocks -> Seq(Rows)]
        /\ CopiesTrue'
        /\ \A i \in Blocks : device'[i] = <<>> => device[i] = <<>>
        /\ \A k \in 1 .. Len(rows') : rows'[k] # NoRow
    BY <1>1, WriteKeepsCopies
  <1>4. Len(rows') = Len(rows)
    <2>1. Len(rows') = IF end < Len(rows) THEN Len(rows) ELSE end
      BY <1>1, ComputedRows DEF SessionInv
    <2> QED
      BY <1>1, <2>1 DEF SessionInv, ContentInv, TypeOK
  <1>5. SessionTypes'
    <2>1. reserved' <= MaxTokens
      BY <1>1 DEF Complete, SessionInv, SessionTypes
    <2> QED
      BY <1>1, <1>3, <2>1 DEF SessionInv, SessionTypes
  <1>6. ReplaySafe'
    <2>1. Touched(replay, Len(rows))' = Touched(replay, Len(rows))
      BY <1>1, <1>4 DEF Touched, BlocksOf
    <2>2. \A i \in Touched(replay, Len(rows)) : i \in Blocks
      BY DEF Touched
    <2> QED
      BY <1>1, <1>3, <2>1, <2>2 DEF SessionInv, ReplaySafe, FirstRow
  <1>7. ViewOnDevice'
    BY <1>1, <1>3 DEF SessionInv, SessionTypes, ViewOnDevice
  <1>8. PlanSafe' /\ PlanCurrent'
    BY <1>1, NoPlanNoDuty DEF SessionInv, SessionTypes
  <1> QED
    BY <1>2, <1>3, <1>5, <1>6, <1>7, <1>8 DEF SessionInv

-----------------------------------------------------------------------------
(* Copies that the engine makes and drops                                   *)

LEMMA SpilledIs ==
  ASSUME SessionTypes, NEW done \in SUBSET Blocks
  PROVE  /\ Spilled(done) \in [Blocks -> Seq(Rows)]
         /\ \A i \in Blocks : Spilled(done)[i] = IF i \in done THEN device[i] ELSE host[i]
  BY DEF SessionTypes, Spilled

\* Copies of pages keep the copies true.
LEMMA SpillKeepsCopies ==
  ASSUME SessionInv, NEW done \in SUBSET Blocks, host' = Spilled(done), device' = device, rows' = rows,
         \A i \in done : Len(device[i]) = RowsIn(i)
  PROVE  CopiesTrue'
  <1>1. \A i \in Blocks : host'[i] = IF i \in done THEN device[i] ELSE host[i]
    BY SpilledIs DEF SessionInv
  <1>2. ASSUME NEW i \in Blocks
        PROVE  /\ Len(host'[i]) <= RowsIn(i)
               /\ \A k \in 1 .. Len(host'[i]) :
                     \/ host'[i][k] = rows[FirstRow(i) + k]
                     \/ host'[i][k] = NoRow /\ k \in 1 .. Len(device[i]) /\ device[i][k] = NoRow
               /\ device[i] = <<>> => Len(host'[i]) = RowsIn(i)
    <2>1. RowsIn(i) \in Nat
      BY FilledNat, BlockNumbers DEF RowsIn, SessionInv, ContentInv, TypeOK
    <2>2. CASE i \in done
      BY <1>1, <2>1, <2>2 DEF SessionInv, CopiesTrue
    <2>3. CASE i \notin done
      BY <1>1, <2>3 DEF SessionInv, CopiesTrue
    <2> QED
      BY <2>2, <2>3
  <1>3. \A i \in Blocks : RowsIn(i)' = RowsIn(i) /\ FirstRow(i)' = FirstRow(i)
    BY DEF RowsIn, Filled, FirstRow
  <1>4. \A i \in Blocks :
          /\ device[i] = <<>> \/ Len(device[i]) = RowsIn(i)
          /\ \A k \in 1 .. Len(device[i]) : device[i][k] \in {NoRow, rows[FirstRow(i) + k]}
    BY DEF SessionInv, CopiesTrue
  <1> QED
    BY <1>2, <1>3, <1>4 DEF CopiesTrue

LEMMA HarvestSafe ==
  ASSUME SessionInv, NEW i \in Blocks, EngineHarvest(i)
  PROVE  SessionInv'
  <1>1. /\ transfer = "none" /\ replay = NoReplay /\ device[i] # <<>> /\ host' = Spilled({i})
        /\ UNCHANGED <<contentVars, phase, plan, transfer, device, view, replay>>
    BY DEF EngineHarvest, Resident
  <1>2. ContentInv'
    BY <1>1 DEF SessionInv, ContentInv, TypeOK, Certified, BlocksOf, contentVars
  <1>3. SessionTypes'
    <2>1. host' \in [Blocks -> Seq(Rows)]
      <3>1. {i} \in SUBSET Blocks
        OBVIOUS
      <3> QED
        BY <1>1, <3>1, SpilledIs DEF SessionInv
    <2> QED
      BY <1>1, <2>1 DEF SessionInv, SessionTypes, contentVars
  <1>4. CopiesTrue'
    <2>1. rows' = rows /\ device' = device
      BY <1>1 DEF contentVars
    <2>2. \A j \in {i} : Len(device[j]) = RowsIn(j)
      BY <1>1 DEF SessionInv, CopiesTrue
    <2> QED
      BY <1>1, <2>1, <2>2, SpillKeepsCopies
  <1>5. ReplaySafe' /\ ViewOnDevice'
    BY <1>1 DEF SessionInv, ReplaySafe, ViewOnDevice
  <1>6. PlanSafe' /\ PlanCurrent'
    BY <1>1, NoPlanNoDuty DEF SessionInv, SessionTypes
  <1> QED
    BY <1>2, <1>3, <1>4, <1>5, <1>6 DEF SessionInv

\* A replay drops the packed rows it may compute again, and the pages have them.
LEMMA ReplaySafeStep ==
  ASSUME SessionInv, NEW begin \in Nat, EngineReplay(begin)
  PROVE  SessionInv'
  <1> DEFINE keep(i) == IF begin > FirstRow(i) THEN begin - FirstRow(i) ELSE 0
  <1>1. /\ transfer = "none" /\ ChangeExecution /\ replay' = begin
        /\ \A i \in Touched(begin, Len(rows)) : device[i] # <<>>
        /\ host' = [i \in Blocks |-> Shortened(host[i], keep(i))]
        /\ UNCHANGED <<phase, plan, transfer, device, view>>
    BY DEF EngineReplay, SessionInv, ContentInv, Certified
  <1>2. ContentInv' /\ rows' = rows /\ reserved' = reserved
    BY <1>1, StampMoveKeeps DEF SessionInv, ChangeExecution
  <1>3. \A i \in Blocks :
          /\ host'[i] \in Seq(Rows)
          /\ Len(host'[i]) = IF keep(i) < Len(host[i]) THEN keep(i) ELSE Len(host[i])
          /\ \A k \in 1 .. Len(host'[i]) : host'[i][k] = host[i][k]
    <2> TAKE i \in Blocks
    <2>1. keep(i) \in Nat /\ host[i] \in Seq(Rows)
      BY BlockNumbers DEF SessionInv, SessionTypes
    <2>2. host'[i] = Shortened(host[i], keep(i))
      BY <1>1
    <2> HIDE DEF keep
    <2> QED
      BY <2>1, <2>2, ShortenedIs
  <1>4. SessionTypes'
    <2>1. host' \in [Blocks -> Seq(Rows)]
      BY <1>1, <1>3
    <2> QED
      BY <1>1, <1>2, <2>1 DEF SessionInv, SessionTypes
  <1>5. ASSUME NEW i \in Blocks
        PROVE  /\ Len(host'[i]) <= RowsIn(i)
               /\ \A k \in 1 .. Len(host'[i]) :
                     \/ host'[i][k] = rows[FirstRow(i) + k]
                     \/ host'[i][k] = NoRow /\ k \in 1 .. Len(device[i]) /\ device[i][k] = NoRow
               /\ device[i] = <<>> => Len(host'[i]) = RowsIn(i)
               /\ \A k \in 1 .. Len(host'[i]) : FirstRow(i) + k <= begin
    <2>1. /\ RowsIn(i) \in 0 .. BlockTokens /\ FirstRow(i) \in Nat /\ BlockTokens \in Nat \ {0}
          /\ Len(rows) \in Nat /\ Len(rows) <= FirstRow(i) => RowsIn(i) = 0
      BY FilledNat, BlockNumbers DEF RowsIn, SessionInv, ContentInv, TypeOK
    <2>2. /\ Len(host[i]) <= RowsIn(i) /\ Len(host[i]) \in Nat
          /\ \A k \in 1 .. Len(host[i]) :
                \/ host[i][k] = rows[FirstRow(i) + k]
                \/ host[i][k] = NoRow /\ k \in 1 .. Len(device[i]) /\ device[i][k] = NoRow
          /\ device[i] = <<>> => Len(host[i]) = RowsIn(i)
      BY DEF SessionInv, CopiesTrue, SessionTypes
    <2>3. device[i] = <<>> => FirstRow(i) + BlockTokens <= begin \/ Len(rows) <= FirstRow(i)
      BY <1>1, <2>1, TouchedIs
    <2>4. /\ keep(i) \in Nat
          /\ FirstRow(i) + BlockTokens <= begin => keep(i) >= BlockTokens
          /\ \A k \in 1 .. keep(i) : FirstRow(i) + k <= begin
      BY <2>1
    <2>5. /\ Len(host'[i]) = IF keep(i) < Len(host[i]) THEN keep(i) ELSE Len(host[i])
          /\ \A k \in 1 .. Len(host'[i]) : host'[i][k] = host[i][k]
      BY <1>3
    <2> HIDE DEF keep
    <2>6. Len(host'[i]) <= RowsIn(i) /\ (device[i] = <<>> => Len(host'[i]) = RowsIn(i))
      BY <2>1, <2>2, <2>3, <2>4, <2>5
    <2>7. \A k \in 1 .. Len(host'[i]) : k \in 1 .. Len(host[i]) /\ k \in 1 .. keep(i)
      BY <2>2, <2>4, <2>5
    <2> QED
      BY <2>2, <2>4, <2>5, <2>6, <2>7
  <1>6. CopiesTrue'
    <2>1. \A i \in Blocks : RowsIn(i)' = RowsIn(i) /\ FirstRow(i)' = FirstRow(i) /\ device'[i] = device[i]
      BY <1>1, <1>2 DEF RowsIn, Filled, FirstRow
    <2>2. \A i \in Blocks :
            /\ device[i] = <<>> \/ Len(device[i]) = RowsIn(i)
            /\ \A k \in 1 .. Len(device[i]) : device[i][k] \in {NoRow, rows[FirstRow(i) + k]}
      BY DEF SessionInv, CopiesTrue
    <2> QED
      BY <1>2, <1>5, <2>1, <2>2 DEF CopiesTrue
  <1>7. ReplaySafe'
    BY <1>1, <1>2, <1>5 DEF ReplaySafe, Touched, BlocksOf, FirstRow
  <1>8. ViewOnDevice'
    BY <1>1 DEF SessionInv, ViewOnDevice
  <1>9. PlanSafe' /\ PlanCurrent'
    BY <1>1, NoPlanNoDuty DEF SessionInv, SessionTypes
  <1> QED
    BY <1>2, <1>4, <1>6, <1>7, <1>8, <1>9 DEF SessionInv

-----------------------------------------------------------------------------
(* Truncation, also under a plan that it makes stale                        *)

LEMMA TruncateSafe ==
  ASSUME SessionInv, NEW end \in Nat, EngineTruncate(end)
  PROVE  SessionInv'
  <1> DEFINE keep(i) == IF end > FirstRow(i) THEN end - FirstRow(i) ELSE 0
             short(copies) == [i \in Blocks |-> Shortened(copies[i], keep(i))]
             n == Len(rows)
             n1 == Len(rows')
  <1>1. /\ Truncate(end) /\ device' = short(device) /\ host' = short(host)
        /\ view' = {i \in view : keep(i) > 0}
        /\ UNCHANGED <<phase, plan, transfer, replay>>
        /\ replay = NoReplay
    BY DEF EngineTruncate
  <1>2. ContentInv'
    BY <1>1, TruncateKeeps DEF SessionInv
  <1>3. /\ rows' = SubSeq(rows, 1, IF n < end THEN n ELSE end)
        /\ reserved' = end /\ end < reserved /\ stamp'.history = stamp.history + 1
    BY <1>1 DEF Truncate, SessionInv, ContentInv, TypeOK, Stamps
  <1>4. /\ n \in Nat /\ n1 \in Nat /\ n1 = (IF n < end THEN n ELSE end)
        /\ \A k \in 1 .. n1 : rows'[k] = rows[k]
    <2>1. rows \in Seq(Rows)
      BY DEF SessionInv, ContentInv, TypeOK
    <2> QED
      BY <1>3, <2>1
  <1>5. ASSUME NEW i \in Blocks
        PROVE  /\ device'[i] \in Seq(Rows) /\ host'[i] \in Seq(Rows)
               /\ Len(device'[i]) = IF keep(i) < Len(device[i]) THEN keep(i) ELSE Len(device[i])
               /\ Len(host'[i]) = IF keep(i) < Len(host[i]) THEN keep(i) ELSE Len(host[i])
               /\ \A k \in 1 .. Len(device'[i]) : device'[i][k] = device[i][k]
               /\ \A k \in 1 .. Len(host'[i]) : host'[i][k] = host[i][k]
    <2>1. keep(i) \in Nat /\ host[i] \in Seq(Rows) /\ device[i] \in Seq(Rows)
      BY BlockNumbers DEF SessionInv, SessionTypes
    <2>2. device'[i] = Shortened(device[i], keep(i)) /\ host'[i] = Shortened(host[i], keep(i))
      BY <1>1
    <2> HIDE DEF keep
    <2> QED
      BY <2>1, <2>2, ShortenedIs
  \* What is left of block i.
  <1>6. ASSUME NEW i \in Blocks
        PROVE  /\ keep(i) \in Nat /\ RowsIn(i) \in Nat
               /\ RowsIn(i)' = IF keep(i) < RowsIn(i) THEN keep(i) ELSE RowsIn(i)
               /\ \A k \in 1 .. RowsIn(i)' : rows'[FirstRow(i) + k] = rows[FirstRow(i) + k]
    <2>1. FirstRow(i) \in Nat /\ BlockTokens \in Nat \ {0}
      BY BlockNumbers
    <2> DEFINE f == FirstRow(i)
               was == Filled(i, n)
               is == Filled(i, n1)
    <2>2. RowsIn(i) = was /\ RowsIn(i)' = is
      BY DEF RowsIn, Filled, FirstRow
    <2>3. /\ was = IF n <= f THEN 0 ELSE IF n - f < BlockTokens THEN n - f ELSE BlockTokens
          /\ is = IF n1 <= f THEN 0 ELSE IF n1 - f < BlockTokens THEN n1 - f ELSE BlockTokens
          /\ keep(i) = IF end > f THEN end - f ELSE 0
          /\ f \in Nat
      BY <2>1 DEF Filled
    <2>4. \A k \in 1 .. is : f + k \in 1 .. n1
      <3> HIDE DEF n, n1, f, was, is, keep
      <3> QED
        BY <1>4, <2>1, <2>3
    <2>5. keep(i) \in Nat /\ was \in Nat /\ is = IF keep(i) < was THEN keep(i) ELSE was
      <3> HIDE DEF n, n1, f, was, is, keep
      <3> QED
        BY <1>4, <2>1, <2>3
    <2>6. \A k \in 1 .. is : rows'[f + k] = rows[f + k]
      BY <1>4, <2>4
    <2> HIDE DEF was, is, keep
    <2> QED
      BY <2>2, <2>5, <2>6
  <1> HIDE DEF keep, n, n1
  <1>7. \A i \in Blocks :
          /\ Len(device[i]) \in Nat /\ Len(host[i]) \in Nat
          /\ (device[i] = <<>> <=> Len(device[i]) = 0)
          /\ (device'[i] = <<>> <=> Len(device'[i]) = 0)
    BY <1>5, EmptyCopy DEF SessionInv, SessionTypes
  <1>8. SessionTypes'
    <2>1. device' \in [Blocks -> Seq(Rows)] /\ host' \in [Blocks -> Seq(Rows)]
      BY <1>1, <1>5
    <2>2. reserved' <= MaxTokens
      BY <1>3, ContentAssumption DEF SessionInv, SessionTypes, ContentInv, TypeOK
    <2>3. \A k \in 1 .. Len(rows') : rows'[k] # NoRow
      BY <1>4 DEF SessionInv, SessionTypes, n, n1
    <2> QED
      BY <1>1, <2>1, <2>2, <2>3 DEF SessionInv, SessionTypes
  <1>9. CopiesTrue'
    <2> SUFFICES ASSUME NEW i \in Blocks
                 PROVE  /\ device'[i] = <<>> \/ Len(device'[i]) = RowsIn(i)'
                        /\ \A k \in 1 .. Len(device'[i]) : device'[i][k] \in {NoRow, rows'[FirstRow(i) + k]}
                        /\ Len(host'[i]) <= RowsIn(i)'
                        /\ \A k \in 1 .. Len(host'[i]) :
                              \/ host'[i][k] = rows'[FirstRow(i) + k]
                              \/ host'[i][k] = NoRow /\ k \in 1 .. Len(device'[i]) /\ device'[i][k] = NoRow
                        /\ device'[i] = <<>> => Len(host'[i]) = RowsIn(i)'
      BY DEF CopiesTrue, FirstRow
    <2>1. /\ device[i] = <<>> \/ Len(device[i]) = RowsIn(i)
          /\ \A k \in 1 .. Len(device[i]) : device[i][k] \in {NoRow, rows[FirstRow(i) + k]}
          /\ Len(host[i]) <= RowsIn(i)
          /\ \A k \in 1 .. Len(host[i]) :
                 \/ host[i][k] = rows[FirstRow(i) + k]
                 \/ host[i][k] = NoRow /\ k \in 1 .. Len(device[i]) /\ device[i][k] = NoRow
          /\ device[i] = <<>> => Len(host[i]) = RowsIn(i)
      BY DEF SessionInv, CopiesTrue
    <2> DEFINE is == RowsIn(i)'
    <2>2. /\ keep(i) \in Nat /\ RowsIn(i) \in Nat /\ is = IF keep(i) < RowsIn(i) THEN keep(i) ELSE RowsIn(i)
          /\ \A k \in 1 .. is : rows'[FirstRow(i) + k] = rows[FirstRow(i) + k]
      BY <1>6
    <2>3. /\ Len(device'[i]) = IF keep(i) < Len(device[i]) THEN keep(i) ELSE Len(device[i])
          /\ Len(host'[i]) = IF keep(i) < Len(host[i]) THEN keep(i) ELSE Len(host[i])
          /\ \A k \in 1 .. Len(device'[i]) : device'[i][k] = device[i][k]
          /\ \A k \in 1 .. Len(host'[i]) : host'[i][k] = host[i][k]
      BY <1>5
    <2> HIDE DEF is
    <2>4. /\ device'[i] = <<>> \/ Len(device'[i]) = is
          /\ Len(host'[i]) <= is
          /\ device'[i] = <<>> => Len(host'[i]) = is
      BY <1>7, <2>1, <2>2, <2>3
    <2>5. ASSUME NEW k \in 1 .. Len(device'[i]) PROVE device'[i][k] \in {NoRow, rows'[FirstRow(i) + k]}
      <3>1. k \in 1 .. is /\ k \in 1 .. Len(device[i])
        BY <1>7, <2>2, <2>3, <2>4
      <3> QED
        BY <2>1, <2>2, <2>3, <3>1
    <2>6. ASSUME NEW k \in 1 .. Len(host'[i])
          PROVE  \/ host'[i][k] = rows'[FirstRow(i) + k]
                 \/ host'[i][k] = NoRow /\ k \in 1 .. Len(device'[i]) /\ device'[i][k] = NoRow
      <3>1. k \in 1 .. is /\ k \in 1 .. Len(host[i]) /\ host'[i][k] = host[i][k]
        BY <1>7, <2>2, <2>3, <2>4
      <3>2. rows'[FirstRow(i) + k] = rows[FirstRow(i) + k]
        BY <2>2, <3>1
      <3>3. ASSUME k \in 1 .. Len(device[i]), device[i][k] = NoRow
            PROVE  k \in 1 .. Len(device'[i]) /\ device'[i][k] = NoRow
        <4>1. k \in 1 .. Len(device'[i])
          BY <1>7, <2>2, <2>3, <3>1, <3>3
        <4> QED
          BY <2>3, <3>3, <4>1
      <3> QED
        BY <2>1, <3>1, <3>2, <3>3
    <2> QED
      BY <2>4, <2>5, <2>6 DEF is
  <1>10. ReplaySafe'
    BY <1>1 DEF ReplaySafe
  <1>11. ViewOnDevice'
    <2> SUFFICES ASSUME transfer # "destructive", NEW i \in view, keep(i) > 0
                 PROVE  device'[i] # <<>>
      BY <1>1 DEF ViewOnDevice
    <2>1. i \in Blocks /\ device[i] # <<>>
      BY DEF SessionInv, SessionTypes, ViewOnDevice
    <2> QED
      BY <1>5, <1>6, <1>7, <2>1
  <1>12. PlanSafe'
    <2> SUFFICES ASSUME phase \in Moving PROVE PlanSafe'
      BY <1>1 DEF PlanSafe
    <2>1. \A i \in Blocks :
            /\ Len(device[i]) = RowsIn(i) => Len(device'[i]) = RowsIn(i)'
            /\ Len(host[i]) = RowsIn(i) => Len(host'[i]) = RowsIn(i)'
      BY <1>5, <1>6
    <2>2. ASSUME NEW i \in Blocks
          PROVE  /\ \A k \in 1 .. Len(device'[i]) : device'[i][k] = rows'[FirstRow(i) + k]
                 /\ \A k \in 1 .. Len(host'[i]) : host'[i][k] = rows'[FirstRow(i) + k]
      <3>1. /\ \A k \in 1 .. Len(device[i]) : device[i][k] = rows[FirstRow(i) + k]
            /\ \A k \in 1 .. Len(host[i]) : host[i][k] = rows[FirstRow(i) + k]
        BY DEF SessionInv, PlanSafe
      <3>2. Len(device'[i]) <= RowsIn(i)' /\ Len(host'[i]) <= RowsIn(i)' /\ RowsIn(i)' \in Nat
            /\ Len(device'[i]) \in Nat /\ Len(host'[i]) \in Nat
            /\ Len(device'[i]) <= Len(device[i]) /\ Len(host'[i]) <= Len(host[i])
        BY <1>5, <1>6, <1>7, <1>9 DEF CopiesTrue
      <3>3. /\ \A k \in 1 .. Len(device'[i]) : k \in 1 .. RowsIn(i)' /\ k \in 1 .. Len(device[i])
            /\ \A k \in 1 .. Len(host'[i]) : k \in 1 .. RowsIn(i)' /\ k \in 1 .. Len(host[i])
        BY <1>7, <3>2
      <3> QED
        BY <1>5, <1>6, <3>1, <3>3
    <2>3. /\ plan.selected \subseteq Blocks /\ plan.evict \subseteq Blocks
          /\ plan.spill \subseteq plan.evict /\ plan.restore \subseteq plan.selected
          /\ plan.evict \cap plan.selected = {}
          /\ phase \in {"Prepared", "Spilling"} =>
             /\ \A i \in plan.spill : Len(device[i]) = RowsIn(i)
             /\ \A i \in plan.evict \ plan.spill : Len(host[i]) = RowsIn(i)
          /\ phase # "Ready" => \A i \in plan.restore : Len(host[i]) = RowsIn(i)
          /\ \A i \in plan.selected \ plan.restore : Len(device[i]) = RowsIn(i)
          /\ phase = "Ready" => \A i \in plan.selected : Len(device[i]) = RowsIn(i)
      BY DEF SessionInv, PlanSafe
    <2>4. /\ phase \in {"Prepared", "Spilling"} =>
             /\ \A i \in plan.spill : Len(device'[i]) = RowsIn(i)'
             /\ \A i \in plan.evict \ plan.spill : Len(host'[i]) = RowsIn(i)'
          /\ phase # "Ready" => \A i \in plan.restore : Len(host'[i]) = RowsIn(i)'
          /\ \A i \in plan.selected \ plan.restore : Len(device'[i]) = RowsIn(i)'
          /\ phase = "Ready" => \A i \in plan.selected : Len(device'[i]) = RowsIn(i)'
      BY <2>1, <2>3
    <2> QED
      BY <1>1, <2>2, <2>3, <2>4 DEF PlanSafe, FirstRow
  <1>13. PlanCurrent'
    <2> SUFFICES ASSUME phase \in Moving PROVE PlanCurrent'
      BY <1>1 DEF PlanCurrent
    <2>1. ~Current'
      BY <1>1, <1>3, HistoryMoved
    <2>2. plan.expected.history \in Nat /\ plan.expected.history <= stamp'.history
      BY <1>3, StampFields DEF SessionInv, PlanCurrent, ContentInv
    <2> QED
      BY <1>1, <2>1, <2>2 DEF PlanCurrent
  <1> QED
    BY <1>2, <1>8, <1>9, <1>10, <1>11, <1>12, <1>13 DEF SessionInv

-----------------------------------------------------------------------------
(* The steps of a transaction                                               *)

LEMMA SameLedger == ASSUME ContentInv, UNCHANGED contentVars PROVE ContentInv'
  BY DEF ContentInv, TypeOK, Certified, BlocksOf, contentVars

LEMMA SameCopies ==
  ASSUME CopiesTrue, rows' = rows, device' = device, host' = host
  PROVE  CopiesTrue'
  BY DEF CopiesTrue, RowsIn, Filled, FirstRow

\* What a plan takes for granted when nothing waits for acceptance.
LEMMA PlanStarts ==
  ASSUME SessionInv, evaluated = stamp.frontier, NEW selected \in SUBSET Accepted,
         Admissible(selected)
  PROVE  /\ \A i \in Blocks :
              /\ \A k \in 1 .. Len(device[i]) : device[i][k] = rows[FirstRow(i) + k]
              /\ \A k \in 1 .. Len(host[i]) : host[i][k] = rows[FirstRow(i) + k]
         /\ \A i \in Resident : Len(device[i]) = RowsIn(i)
         /\ \A i \in OnHost : Len(host[i]) = RowsIn(i)
         /\ \A i \in Accepted \ Resident : Len(host[i]) = RowsIn(i)
         /\ Accepted \subseteq Blocks
  <1> DEFINE n == stamp.frontier
  <1>1. /\ n \in Nat /\ Len(rows) = n /\ reserved <= MaxTokens /\ ContentInv
        /\ device \in [Blocks -> Seq(Rows)] /\ host \in [Blocks -> Seq(Rows)]
        /\ \A k \in 1 .. Len(rows) : rows[k] # NoRow
    BY StampFields DEF SessionInv, SessionTypes, ContentInv, Certified
  <1>2. \A i \in Accepted : i \in Blocks /\ ValidTokens(i) = RowsIn(i) /\ RowsIn(i) \in Nat
    <2> TAKE i \in Accepted
    <2>1. i \in Blocks /\ ValidTokens(i) = Filled(i, n)
      BY <1>1, AcceptedIs
    <2> QED
      BY <1>1, <2>1, RowsInIs DEF RowsIn
  <1>3. \A i \in Blocks :
          /\ device[i] = <<>> \/ Len(device[i]) = RowsIn(i)
          /\ \A k \in 1 .. Len(device[i]) : device[i][k] \in {NoRow, rows[FirstRow(i) + k]}
          /\ Len(host[i]) <= RowsIn(i)
          /\ \A k \in 1 .. Len(host[i]) :
                 \/ host[i][k] = rows[FirstRow(i) + k]
                 \/ host[i][k] = NoRow /\ k \in 1 .. Len(device[i]) /\ device[i][k] = NoRow
          /\ device[i] = <<>> => Len(host[i]) = RowsIn(i)
    BY DEF SessionInv, CopiesTrue
  <1>4. \A i \in Resident : Len(device[i]) = RowsIn(i)
    BY <1>2, <1>3 DEF Resident
  <1>5. \A i \in OnHost : Len(host[i]) = RowsIn(i)
    BY <1>1, <1>2, <1>3 DEF OnHost
  <1>6. \A i \in Accepted \ Resident : Len(host[i]) = RowsIn(i)
    BY <1>2, <1>3 DEF Resident
  <1>7. ASSUME NEW i \in Blocks
        PROVE  /\ \A k \in 1 .. Len(device[i]) : device[i][k] = rows[FirstRow(i) + k]
               /\ \A k \in 1 .. Len(host[i]) : host[i][k] = rows[FirstRow(i) + k]
    <2>1. /\ FirstRow(i) \in Nat /\ i \in Nat \ {0} /\ RowsIn(i) \in Nat
          /\ \A k \in 1 .. RowsIn(i) : FirstRow(i) + k \in 1 .. Len(rows)
      BY <1>1, BlockNumbers, RowsInIs
    <2>2. CASE i \in Accepted
      <3>1. \A k \in 1 .. Len(device[i]) : device[i][k] = rows[FirstRow(i) + k]
        <4>1. CASE device[i] = <<>>
          BY <4>1
        <4>2. CASE device[i] # <<>>
          <5>1. Holds(device[i], i) /\ device[i] \in Seq(Rows)
            BY <1>1, <2>2, <4>2 DEF Admissible, Resident
          <5>2. \A k \in 1 .. ValidTokens(i) : device[i][k] = rows[FirstRow(i) + k]
            BY <1>1, <2>2, <5>1, HoldsIs
          <5>3. Len(device[i]) = ValidTokens(i)
            BY <1>2, <1>3, <2>2, <4>2
          <5> QED
            BY <5>2, <5>3
        <4> QED
          BY <4>1, <4>2
      <3>2. ASSUME NEW k \in 1 .. Len(host[i]) PROVE host[i][k] = rows[FirstRow(i) + k]
        <4>1. k \in 1 .. RowsIn(i)
          BY <1>1, <1>3, <2>1
        <4>2. rows[FirstRow(i) + k] # NoRow
          BY <1>1, <2>1, <4>1
        <4> QED
          BY <1>3, <3>1, <4>2
      <3> QED
        BY <3>1, <3>2
    <2>3. CASE i \notin Accepted
      <3>1. ~(i <= BlocksOf(n)) /\ BlocksOf(n) \in Nat
        <4>1. BlocksOf(n) \in Nat /\ Accepted = 1 .. BlocksOf(n)
          BY <1>1, BlocksNat DEF Accepted
        <4> QED
          BY <2>1, <2>3, <4>1
      <3>2. n <= FirstRow(i)
        BY <1>1, <2>1, <3>1, BlockStarts
      <3>3. RowsIn(i) = 0
        BY <1>1, <3>2, RowsInIs
      <3>4. Len(device[i]) = 0 /\ Len(host[i]) = 0
        BY <1>1, <1>3, <3>3
      <3> QED
        BY <3>4
    <2> QED
      BY <2>2, <2>3
  <1> QED
    BY <1>2, <1>4, <1>5, <1>6, <1>7

LEMMA PrepareSafe ==
  ASSUME SessionInv, NEW selected \in SUBSET Blocks, Prepare(selected)
  PROVE  SessionInv'
  <1>1. /\ selected \subseteq Accepted /\ Admissible(selected) /\ evaluated = stamp.frontier
        /\ replay = NoReplay /\ transfer' = "armed" /\ phase' = "Prepared"
        /\ UNCHANGED <<contentVars, device, host, view, replay>>
    BY DEF Prepare, Picks
  <1>2. /\ plan'.selected = selected /\ plan'.expected = stamp
        /\ plan'.evict = Resident \ selected
        /\ plan'.spill = {i \in Resident \ selected : i \notin OnHost}
        /\ plan'.restore = selected \ Resident
        /\ plan'.bytes = [i \in selected |-> BlockRows(i)]
        /\ plan' # NoPlan
    BY DEF Prepare, NoPlan
  <1>3. /\ rows' = rows /\ device' = device /\ host' = host /\ stamp' = stamp /\ reserved' = reserved
        /\ view' = view /\ replay' = replay
    BY <1>1 DEF contentVars
  <1>4. ContentInv'
    BY <1>1, SameLedger DEF SessionInv
  <1>5. SessionTypes'
    BY <1>1, <1>2, <1>3 DEF SessionInv, SessionTypes, Moving
  <1>6. CopiesTrue'
    BY <1>3, SameCopies DEF SessionInv
  <1>7. ReplaySafe' /\ ViewOnDevice'
    <2>2. transfer # "destructive"
      BY DEF Prepare
    <2> QED
      BY <1>1, <1>3, <2>2 DEF SessionInv, ReplaySafe, ViewOnDevice
  <1>8. /\ \A i \in Blocks :
              /\ \A k \in 1 .. Len(device[i]) : device[i][k] = rows[FirstRow(i) + k]
              /\ \A k \in 1 .. Len(host[i]) : host[i][k] = rows[FirstRow(i) + k]
        /\ \A i \in Resident : Len(device[i]) = RowsIn(i)
        /\ \A i \in OnHost : Len(host[i]) = RowsIn(i)
        /\ \A i \in Accepted \ Resident : Len(host[i]) = RowsIn(i)
        /\ Accepted \subseteq Blocks
    BY <1>1, PlanStarts
  <1>9. PlanSafe'
    <2>1. /\ Resident \subseteq Accepted
          /\ \A i \in Resident \ selected : i \in OnHost \/ i \in plan'.spill
      BY <1>2 DEF Resident
    <2>2. /\ plan'.selected \subseteq Blocks /\ plan'.evict \subseteq Blocks
          /\ plan'.spill \subseteq plan'.evict /\ plan'.restore \subseteq plan'.selected
          /\ plan'.evict \cap plan'.selected = {}
      BY <1>1, <1>2, <1>8, <2>1
    <2>3. /\ \A i \in plan'.spill : Len(device[i]) = RowsIn(i)
          /\ \A i \in plan'.evict \ plan'.spill : Len(host[i]) = RowsIn(i)
          /\ \A i \in plan'.restore : Len(host[i]) = RowsIn(i)
          /\ \A i \in plan'.selected \ plan'.restore : Len(device[i]) = RowsIn(i)
      BY <1>1, <1>2, <1>8, <2>1
    <2> QED
      BY <1>1, <1>3, <1>8, <2>2, <2>3 DEF PlanSafe, RowsIn, Filled, FirstRow
  <1>10. PlanCurrent'
    <2>1. stamp.history \in Nat /\ stamp.history <= stamp.history
      BY StampFields DEF SessionInv, ContentInv
    <2>2. /\ Accepted' = Accepted /\ OnHost' = OnHost /\ ReserveBlocks' = ReserveBlocks
          /\ \A i \in Accepted : BlockRows(i)' = BlockRows(i)
      BY <1>3 DEF Accepted, OnHost, ReserveBlocks, BlockRows, ValidTokens, FirstRow, BlocksOf
    <2>3. OnHost \cup plan'.spill = OnHost \cup (Resident \ selected)
      BY <1>2
    <2>4. /\ Cardinality(selected) + ReserveBlocks <= DeviceBlocks
          /\ Cardinality(OnHost \cup plan'.spill) <= HostBlocks
      BY <1>1, <2>3, Zenon DEF Admissible
    <2>5. \A i \in selected : plan'.bytes[i] = BlockRows(i)'
      BY <1>1, <1>2, <2>2
    <2> QED
      BY <1>1, <1>2, <1>3, <2>1, <2>2, <2>4, <2>5 DEF PlanCurrent
  <1> QED
    BY <1>4, <1>5, <1>6, <1>7, <1>9, <1>10 DEF SessionInv

LEMMA StartSpillSafe == ASSUME SessionInv, StartSpill PROVE SessionInv'
  <1>1. /\ phase = "Prepared" /\ phase' = "Spilling" /\ plan' = plan /\ transfer' = transfer
        /\ device' = device /\ host' = host /\ view' = view /\ replay' = replay
        /\ UNCHANGED contentVars
    BY DEF StartSpill
  <1>2. ContentInv'
    BY <1>1, SameLedger DEF SessionInv
  <1>3. rows' = rows /\ reserved' = reserved /\ stamp' = stamp
    BY <1>1 DEF contentVars
  <1>4. SessionTypes'
    BY <1>1, <1>3 DEF SessionInv, SessionTypes, Moving
  <1>5. CopiesTrue'
    BY <1>1, <1>3, SameCopies DEF SessionInv
  <1>6. ReplaySafe' /\ ViewOnDevice'
    BY <1>1, <1>3 DEF SessionInv, ReplaySafe, ViewOnDevice, Touched, FirstRow, BlocksOf
  <1>7. PlanSafe'
    BY <1>1, <1>3 DEF SessionInv, PlanSafe, RowsIn, Filled, FirstRow, Moving
  <1>8. PlanCurrent'
    BY <1>1, <1>3 DEF SessionInv, PlanCurrent, Current, Accepted, BlockRows, FirstRow, ValidTokens,
                      BlocksOf, ReserveBlocks, OnHost, Moving
  <1> QED
    BY <1>2, <1>4, <1>5, <1>6, <1>7, <1>8 DEF SessionInv

\* Pages are freed only when their rows are in packed copies.
LEMMA StartRestoreSafe == ASSUME SessionInv, StartRestore PROVE SessionInv'
  <1>1. /\ phase = "Spilling" /\ phase' = "Restoring" /\ plan' = plan /\ transfer' = "destructive"
        /\ host' = Spilled(plan.spill) /\ device' = Freed(plan.evict)
        /\ view' = view /\ replay' = replay /\ UNCHANGED contentVars /\ Current
    BY DEF StartRestore
  <1>2. ContentInv' /\ rows' = rows /\ reserved' = reserved /\ stamp' = stamp
    BY <1>1, SameLedger DEF SessionInv, contentVars
  <1>3. /\ plan.selected \subseteq Blocks /\ plan.evict \subseteq Blocks
        /\ plan.spill \subseteq plan.evict /\ plan.restore \subseteq plan.selected
        /\ plan.evict \cap plan.selected = {}
        /\ \A i \in Blocks :
             /\ \A k \in 1 .. Len(device[i]) : device[i][k] = rows[FirstRow(i) + k]
             /\ \A k \in 1 .. Len(host[i]) : host[i][k] = rows[FirstRow(i) + k]
        /\ \A i \in plan.spill : Len(device[i]) = RowsIn(i)
        /\ \A i \in plan.evict \ plan.spill : Len(host[i]) = RowsIn(i)
        /\ \A i \in plan.restore : Len(host[i]) = RowsIn(i)
        /\ \A i \in plan.selected \ plan.restore : Len(device[i]) = RowsIn(i)
    BY <1>1 DEF SessionInv, PlanSafe, Moving
  <1>4. /\ host' \in [Blocks -> Seq(Rows)] /\ device' \in [Blocks -> Seq(Rows)]
        /\ \A i \in Blocks : host'[i] = IF i \in plan.spill THEN device[i] ELSE host[i]
        /\ \A i \in Blocks : device'[i] = IF i \in plan.evict THEN <<>> ELSE device[i]
    <2>1. plan.spill \in SUBSET Blocks
      BY <1>3
    <2> QED
      BY <1>1, <2>1, SpilledIs DEF SessionInv, SessionTypes, Freed
  <1>5. replay = NoReplay
    BY <1>1 DEF SessionInv, SessionTypes, ReplaySafe, Moving
  <1>6. SessionTypes'
    BY <1>1, <1>2, <1>4 DEF SessionInv, SessionTypes, Moving
  <1>7. \A i \in Blocks :
          /\ \A k \in 1 .. Len(device'[i]) : device'[i][k] = rows[FirstRow(i) + k]
          /\ \A k \in 1 .. Len(host'[i]) : host'[i][k] = rows[FirstRow(i) + k]
    BY <1>3, <1>4
  <1>8. \A i \in Blocks :
          /\ device[i] = <<>> \/ Len(device[i]) = RowsIn(i)
          /\ Len(host[i]) <= RowsIn(i)
          /\ device[i] = <<>> => Len(host[i]) = RowsIn(i)
          /\ RowsIn(i) \in Nat
    BY RowsInIs DEF SessionInv, CopiesTrue
  <1>9. \A i \in Blocks :
          /\ device'[i] = <<>> \/ Len(device'[i]) = RowsIn(i)
          /\ Len(host'[i]) <= RowsIn(i)
          /\ device'[i] = <<>> => Len(host'[i]) = RowsIn(i)
    <2> TAKE i \in Blocks
    <2>1. CASE i \in plan.spill
      <3>1. device'[i] = <<>> /\ host'[i] = device[i] /\ Len(device[i]) = RowsIn(i)
        BY <1>3, <1>4, <2>1
      <3> QED
        BY <1>8, <3>1
    <2>2. CASE i \in plan.evict \ plan.spill
      <3>1. device'[i] = <<>> /\ host'[i] = host[i] /\ Len(host[i]) = RowsIn(i)
        BY <1>3, <1>4, <2>2
      <3> QED
        BY <1>8, <3>1
    <2>3. CASE i \notin plan.evict
      BY <1>3, <1>4, <1>8, <2>3
    <2> QED
      BY <2>1, <2>2, <2>3
  <1>10. CopiesTrue'
    BY <1>2, <1>7, <1>9 DEF CopiesTrue, RowsIn, Filled, FirstRow
  <1>11. ReplaySafe' /\ ViewOnDevice'
    BY <1>1, <1>5 DEF ReplaySafe, ViewOnDevice
  <1>12. PlanSafe'
    <2>1. /\ \A i \in plan.restore : Len(host'[i]) = RowsIn(i)
          /\ \A i \in plan.selected \ plan.restore : Len(device'[i]) = RowsIn(i)
      BY <1>3, <1>4
    <2> QED
      BY <1>1, <1>2, <1>3, <1>7, <2>1 DEF PlanSafe, RowsIn, Filled, FirstRow
  <1>13. PlanCurrent'
    BY <1>1, <1>2 DEF SessionInv, PlanCurrent, Current, Accepted, BlockRows, FirstRow, ValidTokens,
                      BlocksOf, ReserveBlocks, Moving
  <1> QED
    BY <1>2, <1>6, <1>10, <1>11, <1>12, <1>13 DEF SessionInv

LEMMA FinishRestoreSafe == ASSUME SessionInv, FinishRestore PROVE SessionInv'
  <1>1. /\ phase = "Restoring" /\ phase' = "Ready" /\ plan' = plan /\ transfer' = transfer
        /\ device' = [i \in Blocks |-> IF i \in plan.restore THEN host[i] ELSE device[i]]
        /\ host' = host /\ view' = view /\ replay' = replay /\ UNCHANGED contentVars
    BY DEF FinishRestore
  <1>2. ContentInv' /\ rows' = rows /\ reserved' = reserved /\ stamp' = stamp
    BY <1>1, SameLedger DEF SessionInv, contentVars
  <1>3. /\ plan.selected \subseteq Blocks /\ plan.evict \subseteq Blocks
        /\ plan.spill \subseteq plan.evict /\ plan.restore \subseteq plan.selected
        /\ plan.evict \cap plan.selected = {}
        /\ \A i \in Blocks :
             /\ \A k \in 1 .. Len(device[i]) : device[i][k] = rows[FirstRow(i) + k]
             /\ \A k \in 1 .. Len(host[i]) : host[i][k] = rows[FirstRow(i) + k]
        /\ \A i \in plan.restore : Len(host[i]) = RowsIn(i)
        /\ \A i \in plan.selected \ plan.restore : Len(device[i]) = RowsIn(i)
    BY <1>1 DEF SessionInv, PlanSafe, Moving
  <1>4. /\ device' \in [Blocks -> Seq(Rows)]
        /\ \A i \in Blocks : device'[i] = IF i \in plan.restore THEN host[i] ELSE device[i]
    BY <1>1 DEF SessionInv, SessionTypes
  <1>5. /\ replay = NoReplay /\ phase' \in Moving /\ phase \in Moving
        /\ phase' \in {"Idle", "Published", "Invalid", "Detached"} \cup Moving
    BY <1>1 DEF SessionInv, SessionTypes, ReplaySafe, Moving
  <1>6. SessionTypes'
    BY <1>1, <1>2, <1>4, <1>5 DEF SessionInv, SessionTypes
  <1>7. \A i \in Blocks :
          /\ \A k \in 1 .. Len(device'[i]) : device'[i][k] = rows[FirstRow(i) + k]
          /\ device'[i] = <<>> \/ Len(device'[i]) = RowsIn(i)
          /\ Len(host[i]) <= RowsIn(i)
          /\ device'[i] = <<>> => Len(host[i]) = RowsIn(i)
    <2> TAKE i \in Blocks
    <2>1. /\ device[i] = <<>> \/ Len(device[i]) = RowsIn(i)
          /\ Len(host[i]) <= RowsIn(i)
          /\ device[i] = <<>> => Len(host[i]) = RowsIn(i)
      BY DEF SessionInv, CopiesTrue
    <2>2. CASE i \in plan.restore
      BY <1>3, <1>4, <2>1, <2>2
    <2>3. CASE i \notin plan.restore
      BY <1>3, <1>4, <2>1, <2>3
    <2> QED
      BY <2>2, <2>3
  <1>8. CopiesTrue'
    BY <1>1, <1>2, <1>3, <1>7 DEF CopiesTrue, RowsIn, Filled, FirstRow
  <1>9. ReplaySafe' /\ ViewOnDevice'
    <2>1. \A i \in Blocks : device'[i] = <<>> => device[i] = <<>> \/ i \in plan.restore
      BY <1>4
    <2>2. transfer # "destructive" => \A i \in view : device'[i] # <<>>
      <3> SUFFICES ASSUME transfer # "destructive", NEW i \in view PROVE device'[i] # <<>>
        OBVIOUS
      <3>1. i \in Blocks /\ device[i] # <<>> /\ device[i] \in Seq(Rows) /\ host[i] \in Seq(Rows)
        BY DEF SessionInv, SessionTypes, ViewOnDevice
      <3>2. Len(device[i]) = RowsIn(i) /\ Len(device[i]) # 0
        BY <3>1, EmptyCopy DEF SessionInv, CopiesTrue
      <3>3. i \in plan.restore => Len(device'[i]) # 0
        BY <1>3, <1>4, <3>1, <3>2
      <3> QED
        BY <1>4, <3>1, <3>3
    <2> QED
      BY <1>1, <1>5, <2>2 DEF ReplaySafe, ViewOnDevice
  <1>10. PlanSafe'
    <2>1. \A i \in plan.selected : Len(device'[i]) = RowsIn(i)
      BY <1>3, <1>4
    <2> QED
      BY <1>1, <1>2, <1>3, <1>7, <2>1 DEF PlanSafe, RowsIn, Filled, FirstRow
  <1>11. PlanCurrent'
    BY <1>1, <1>2, <1>5 DEF SessionInv, PlanCurrent, Current, Accepted, BlockRows, FirstRow, ValidTokens,
                      BlocksOf, ReserveBlocks
  <1> QED
    BY <1>2, <1>6, <1>8, <1>9, <1>10, <1>11 DEF SessionInv

LEMMA PublishSafe == ASSUME SessionInv, PublishView PROVE SessionInv'
  <1>1. /\ phase = "Ready" /\ Current /\ Publish(plan.expected) /\ view' = plan.selected
        /\ transfer' = "none" /\ plan' = NoPlan /\ phase' = "Published"
        /\ device' = device /\ host' = host /\ replay' = replay
    BY DEF PublishView
  <1>2. /\ stamp' = [stamp EXCEPT !.view = @ + 1] /\ stamp = plan.expected
        /\ rows' = rows /\ reserved' = reserved
    BY <1>1 DEF Publish
  <1>3. ContentInv'
    <2>1. Publish(stamp)
      BY <1>1, <1>2 DEF Publish
    <2> QED
      BY <2>1, StampMoveKeeps DEF SessionInv
  <1>4. /\ plan.selected \subseteq Accepted /\ plan.selected \subseteq Blocks
        /\ \A i \in plan.selected : Len(device[i]) = RowsIn(i)
    BY <1>1 DEF SessionInv, PlanSafe, PlanCurrent, Moving
  <1>5. SessionTypes'
    BY <1>1, <1>2, <1>4 DEF SessionInv, SessionTypes, Moving
  <1>6. CopiesTrue'
    BY <1>1, <1>2, SameCopies DEF SessionInv
  <1>7. ReplaySafe'
    BY <1>1 DEF SessionInv, SessionTypes, ReplaySafe, Moving
  <1>8. ViewOnDevice'
    <2> SUFFICES ASSUME NEW i \in plan.selected PROVE device[i] # <<>>
      BY <1>1 DEF ViewOnDevice
    <2>1. ValidTokens(i) \in 1 .. RowsIn(i)
      BY <1>4, AcceptedIs DEF SessionInv, SessionTypes
    <2>2. Len(device[i]) # 0 /\ device[i] \in Seq(Rows)
      BY <1>4, <2>1 DEF SessionInv, SessionTypes
    <2> QED
      BY <2>2, EmptyCopy
  <1>9. PlanSafe' /\ PlanCurrent'
    BY <1>1, NoPlanNoDuty DEF Moving
  <1> QED
    BY <1>3, <1>5, <1>6, <1>7, <1>8, <1>9 DEF SessionInv

\* However a transaction ends, each block keeps a complete copy, or the whole
\* history is given up.
LEMMA EndSafe ==
  ASSUME SessionInv, NEW next \in {"Idle", "Published", "Invalid", "Detached"}, EndTransfer(next)
  PROVE  SessionInv'
  <1>1. PICK drained \in BOOLEAN :
          LET dead == Lost(drained) \/ ~stamp.valid \/ phase = "Invalid"
          IN  /\ drained \/ transfer # "none"
              /\ IF Lost(drained) THEN LoseEverything
                 ELSE /\ IF dead \/ next = "Invalid" THEN Invalidate ELSE UNCHANGED contentVars
                      /\ \E done \in Arrived : host' = Spilled(done)
                      /\ UNCHANGED <<device, view, replay>>
              /\ transfer' = "none" /\ plan' = NoPlan
              /\ phase' = IF dead /\ next # "Detached" THEN "Invalid" ELSE next
    BY DEF EndTransfer
  <1>2. /\ transfer' = "none" /\ plan' = NoPlan
        /\ phase' \in {"Idle", "Published", "Invalid", "Detached"}
    BY <1>1
  <1>3. phase' \notin Moving
    BY <1>2 DEF Moving
  <1>4. CASE Lost(drained)
    <2>1. LoseEverything
      BY <1>1, <1>4
    <2>2. ContentInv'
      BY <2>1, LoseEverythingKeeps DEF SessionInv
    <2> QED
      BY <1>2, <2>1, <2>2, EmptySafe DEF LoseEverything
  <1>5. CASE ~Lost(drained)
    <2>1. /\ Invalidate \/ UNCHANGED contentVars
          /\ device' = device /\ view' = view /\ replay' = replay
          /\ transfer # "destructive"
      BY <1>1, <1>5 DEF Lost
    <2>2. PICK done \in Arrived : host' = Spilled(done)
      BY <1>1, <1>5
    <2>3. ContentInv' /\ rows' = rows /\ reserved' = reserved
      BY <2>1, InvalidateKeeps, SameLedger DEF SessionInv, Invalidate, contentVars
    <2>4. /\ done \in SUBSET Blocks
          /\ \A i \in done : Len(device[i]) = RowsIn(i)
          /\ done # {} => phase = "Spilling"
      BY <2>2 DEF Arrived, SessionInv, PlanSafe, Moving
    <2>5. host' \in [Blocks -> Seq(Rows)]
      BY <2>2, <2>4, SpilledIs DEF SessionInv
    <2>6. SessionTypes'
      BY <1>2, <1>3, <2>1, <2>3, <2>5 DEF SessionInv, SessionTypes
    <2>7. CopiesTrue'
      BY <2>1, <2>2, <2>3, <2>4, SpillKeepsCopies
    <2>8. ReplaySafe'
      <3>1. ASSUME replay # NoReplay PROVE host' = host
        <4>1. done = {}
          BY <2>4, <3>1 DEF SessionInv, SessionTypes, ReplaySafe, Moving
        <4>2. host = [i \in Blocks |-> host[i]]
          BY DEF SessionInv, SessionTypes
        <4> QED
          BY <2>2, <4>1, <4>2 DEF Spilled
      <3> QED
        BY <1>2, <2>1, <2>3, <3>1 DEF SessionInv, ReplaySafe, Touched, FirstRow, BlocksOf
    <2>9. ViewOnDevice'
      BY <1>2, <2>1 DEF SessionInv, ViewOnDevice
    <2> QED
      BY <1>3, <2>3, <2>6, <2>7, <2>8, <2>9, NoPlanNoDuty DEF SessionInv
  <1> QED
    BY <1>4, <1>5

LEMMA NewSessionSafe == ASSUME SessionInv, NewSession PROVE SessionInv'
  <1>1. /\ phase \notin Moving /\ phase' = "Idle"
        /\ Invalidate \/ UNCHANGED contentVars
        /\ UNCHANGED <<plan, transfer, device, host, view, replay>>
    BY DEF NewSession, Moving
  <1>2. ContentInv' /\ rows' = rows /\ reserved' = reserved
    BY <1>1, InvalidateKeeps, SameLedger DEF SessionInv, Invalidate, contentVars
  <1>3. SessionTypes'
    BY <1>1, <1>2 DEF SessionInv, SessionTypes, Moving
  <1>4. CopiesTrue'
    BY <1>1, <1>2, SameCopies DEF SessionInv
  <1>5. ReplaySafe' /\ ViewOnDevice'
    BY <1>1, <1>2 DEF SessionInv, ReplaySafe, ViewOnDevice, Touched, FirstRow, BlocksOf
  <1>6. PlanSafe' /\ PlanCurrent'
    BY <1>1, NoPlanNoDuty DEF Moving
  <1> QED
    BY <1>2, <1>3, <1>4, <1>5, <1>6 DEF SessionInv

-----------------------------------------------------------------------------
(* Every step                                                               *)

LEMMA AbortSafe == ASSUME SessionInv, Abort \/ Disconnect \/ PublishRefused PROVE SessionInv'
  <1>1. Resting \in {"Idle", "Published", "Invalid", "Detached"}
    BY DEF Resting
  <1>2. EndTransfer(Resting) \/ EndTransfer("Detached") \/ EndTransfer("Invalid")
    BY DEF Abort, Disconnect, PublishRefused
  <1> QED
    BY <1>1, <1>2, EndSafe

LEMMA SessionStep == ASSUME SessionInv, Session PROVE SessionInv'
  <1>1. CASE \E selected \in SUBSET Blocks : Prepare(selected)
    BY <1>1, PrepareSafe
  <1>2. CASE Advance
    BY <1>2, StartSpillSafe, StartRestoreSafe, FinishRestoreSafe DEF Advance
  <1>3. CASE AdvanceStale \/ CopyFails \/ PublishRefused \/ Abort \/ Disconnect
    BY <1>3, AbortSafe DEF AdvanceStale, CopyFails
  <1>4. CASE PublishView \/ NewSession
    BY <1>4, PublishSafe, NewSessionSafe
  <1> QED
    BY <1>1, <1>2, <1>3, <1>4 DEF Session

LEMMA EngineStep == ASSUME SessionInv, Engine PROVE SessionInv'
  <1>0. 0 .. MaxTokens \subseteq Nat /\ 1 .. MaxTokens \subseteq Nat
    BY ContentAssumption
  <1>1. CASE EngineChangeExecution \/ EngineReset
    BY <1>1, ChangeExecutionSafe, EmptiedSafe
  <1>2. ASSUME NEW end \in 0 .. MaxTokens, EngineReserve(end) \/ EngineAccept(end) \/ EngineTruncate(end)
        PROVE  SessionInv'
    BY <1>0, <1>2, ReserveSafe, AcceptSafe, TruncateSafe
  <1>3. ASSUME NEW end \in 1 .. MaxTokens, NEW accepted \in BOOLEAN, EngineComplete(end, accepted)
        PROVE  SessionInv'
    BY <1>0, <1>3, CompleteSafe
  <1>4. ASSUME NEW begin \in 0 .. MaxTokens, EngineReplay(begin) PROVE SessionInv'
    BY <1>0, <1>4, ReplaySafeStep
  <1>5. ASSUME NEW begin \in 0 .. MaxTokens, NEW end \in 0 .. MaxTokens, EngineRecompute(begin, end)
        PROVE  SessionInv'
    BY <1>0, <1>5, RecomputeSafe
  <1> QED
    BY <1>1, <1>2, <1>3, <1>4, <1>5 DEF Engine

LEMMA StepSafe == ASSUME SessionInv, [SNext]_vars PROVE SessionInv'
  <1>1. CASE Engine
    BY <1>1, EngineStep
  <1>2. CASE EngineInvalidate
    BY <1>2, InvalidateSafe DEF EngineInvalidate
  <1>3. CASE EngineReplayEnds
    BY <1>3, ReplayEndsSafe
  <1>4. ASSUME NEW i \in Blocks, EngineHarvest(i) PROVE SessionInv'
    BY <1>4, HarvestSafe
  <1>5. CASE Session
    BY <1>5, SessionStep
  <1>6. CASE UNCHANGED vars
    <2>1. UNCHANGED contentVars /\ UNCHANGED sessionVars
      BY <1>6 DEF vars
    <2>2. ContentInv'
      BY <2>1, SameLedger DEF SessionInv
    <2> QED
      BY <2>1, <2>2 DEF SessionInv, SessionTypes, CopiesTrue, ReplaySafe, ViewOnDevice, PlanSafe, PlanCurrent,
            RowsIn, Filled, FirstRow, Touched, BlocksOf, Current, Accepted, BlockRows, ValidTokens,
            ReserveBlocks, OnHost, contentVars, sessionVars
  <1> QED
    BY <1>1, <1>2, <1>3, <1>4, <1>5, <1>6 DEF SNext

LEMMA SessionInitially == ASSUME SInit PROVE SessionInv
  <1>1. ContentInv
    BY ContentInitially DEF SInit
  <1>2. /\ rows = <<>> /\ reserved = 0 /\ phase = "Idle" /\ plan = NoPlan /\ transfer = "none"
        /\ device = NoCopies /\ host = NoCopies /\ view = {} /\ replay = NoReplay
    BY DEF SInit, Init
  <1>3. phase \notin Moving
    BY <1>2 DEF Moving
  <1>4. NoCopies \in [Blocks -> Seq(Rows)] /\ 0 <= MaxTokens /\ \A i \in Blocks : NoCopies[i] = <<>>
    BY ContentAssumption DEF NoCopies
  <1>5. SessionTypes
    BY <1>2, <1>3, <1>4 DEF SessionTypes
  <1>6. \A i \in Blocks : RowsIn(i) = 0
    BY <1>1, <1>2, RowsInIs, BlockNumbers
  <1>7. CopiesTrue
    BY <1>2, <1>4, <1>6 DEF CopiesTrue
  <1>8. ReplaySafe /\ ViewOnDevice /\ PlanSafe /\ PlanCurrent
    BY <1>2, <1>3 DEF ReplaySafe, ViewOnDevice, PlanSafe, PlanCurrent
  <1> QED
    BY <1>1, <1>5, <1>7, <1>8 DEF SessionInv

\* The invariant of the transaction: what each copy is worth, in every phase and
\* after every failure.
THEOREM SessionInvariant == SSpec => []SessionInv
  <1>1. SInit => SessionInv
    BY SessionInitially
  <1>2. SessionInv /\ [SNext]_vars => SessionInv'
    BY StepSafe
  <1> QED
    BY <1>1, <1>2, PTL DEF SSpec

-----------------------------------------------------------------------------
(* What follows                                                             *)

\* A page without a gap has the accepted rows of its block.
LEMMA PageHolds ==
  ASSUME SessionInv, NEW i \in Accepted, device[i] # <<>>
  PROVE  Holds(device[i], i) \/ Gap(i)
  <1>1. /\ i \in Blocks /\ device[i] \in Seq(Rows) /\ ContentInv /\ reserved <= MaxTokens
        /\ ValidTokens(i) \in 1 .. RowsIn(i)
    BY AcceptedIs DEF SessionInv, SessionTypes
  <1>2. /\ Len(device[i]) = RowsIn(i) /\ RowsIn(i) \in Nat
        /\ \A k \in 1 .. Len(device[i]) : device[i][k] \in {NoRow, rows[FirstRow(i) + k]}
    BY <1>1, RowsInIs DEF SessionInv, CopiesTrue
  <1>3. \A k \in 1 .. ValidTokens(i) : k \in 1 .. Len(device[i])
    BY <1>1, <1>2
  <1>4. CASE \E k \in 1 .. Len(device[i]) : device[i][k] = NoRow
    BY <1>1, <1>4 DEF Gap
  <1>5. CASE \A k \in 1 .. Len(device[i]) : device[i][k] # NoRow
    <2>1. \A k \in 1 .. ValidTokens(i) : device[i][k] = rows[FirstRow(i) + k]
      BY <1>2, <1>3, <1>5
    <2>2. ValidTokens(i) <= Len(device[i])
      BY <1>1, <1>2
    <2> QED
      BY <1>1, <2>1, <2>2, HoldsIs
  <1> QED
    BY <1>4, <1>5

\* A transfer and its plan exist exactly while the session moves, and what a
\* ready transfer restored under a current plan are the rows of the history.
THEOREM TransfersAreExact == SSpec => []SessionExact
  <1>1. SessionInv => SessionExact
    <2> SUFFICES ASSUME SessionInv PROVE SessionExact
      OBVIOUS
    <2>1. ASSUME phase = "Ready", Current, NEW i \in plan.selected PROVE Holds(device[i], i)
      <3>1. /\ i \in Accepted /\ i \in Blocks /\ Len(device[i]) = RowsIn(i)
            /\ \A k \in 1 .. Len(device[i]) : device[i][k] = rows[FirstRow(i) + k]
        BY <2>1 DEF SessionInv, PlanSafe, PlanCurrent, Moving
      <3>2. ValidTokens(i) \in 1 .. RowsIn(i) /\ RowsIn(i) \in Nat /\ device[i] \in Seq(Rows)
        BY <3>1, AcceptedIs, RowsInIs DEF SessionInv, SessionTypes
      <3>3. /\ ValidTokens(i) <= Len(device[i])
            /\ \A k \in 1 .. ValidTokens(i) : device[i][k] = rows[FirstRow(i) + k]
        BY <3>1, <3>2
      <3> QED
        BY <3>1, <3>2, <3>3, HoldsIs DEF SessionInv, SessionTypes
    <2> QED
      BY <2>1 DEF SessionInv, SessionTypes, SessionExact
  <1> QED
    BY <1>1, SessionInvariant, PTL

\* No accepted row is lost while the session is valid: each block is complete
\* and current on the device or on the host, whatever a failure, a stale plan or
\* an abort in the middle of a transfer left behind.
THEOREM NoRowIsLost == SSpec => []HistoryKept
  <1>1. SessionInv => HistoryKept
    <2> SUFFICES ASSUME SessionInv, NEW i \in Accepted
                 PROVE  Holds(device[i], i) \/ Holds(host[i], i) \/ Gap(i)
      BY DEF HistoryKept
    <2>1. CASE device[i] # <<>>
      BY <2>1, PageHolds
    <2>2. CASE device[i] = <<>>
      <3>1. /\ i \in Blocks /\ host[i] \in Seq(Rows) /\ ContentInv /\ reserved <= MaxTokens
            /\ ValidTokens(i) \in 1 .. RowsIn(i)
        BY AcceptedIs DEF SessionInv, SessionTypes
      <3>2. /\ Len(host[i]) = RowsIn(i) /\ RowsIn(i) \in Nat
            /\ \A k \in 1 .. Len(host[i]) : host[i][k] = rows[FirstRow(i) + k]
        BY <2>2, <3>1, RowsInIs DEF SessionInv, CopiesTrue
      <3>3. /\ ValidTokens(i) <= Len(host[i])
            /\ \A k \in 1 .. ValidTokens(i) : host[i][k] = rows[FirstRow(i) + k]
        BY <3>1, <3>2
      <3> QED
        BY <3>1, <3>3, HoldsIs
    <2> QED
      BY <2>1, <2>2
  <1> QED
    BY <1>1, SessionInvariant, PTL

\* Outside the destructive part of a transfer what the attention reads is on the
\* device: an abort that keeps the view keeps its pages.
THEOREM ViewStaysComplete == SSpec => []ViewComplete
  <1>1. SessionInv => ViewComplete
    BY PageHolds DEF SessionInv, ViewOnDevice, ViewComplete
  <1> QED
    BY <1>1, SessionInvariant, PTL

\* Only a spill that completed begins to restore, and only a publication
\* publishes.
LEMMA PhaseSteps ==
  ASSUME SessionInv, SNext
  PROVE  /\ phase = "Spilling" /\ phase' = "Restoring" => StartRestore
         /\ phase = "Ready" /\ phase' = "Published" => PublishView
  <1>1. CASE Engine
    <2>1. phase' = phase
      BY <1>1 DEF Engine, EngineChangeExecution, EngineReset, EngineReserve, EngineAccept, EngineTruncate,
                  EngineComplete, EngineReplay, EngineRecompute, sessionVars
    <2> QED
      BY <2>1
  <1>2. CASE EngineInvalidate \/ EngineReplayEnds \/ \E i \in Blocks : EngineHarvest(i)
    <2>1. phase' = phase
      BY <1>2 DEF EngineInvalidate, EngineReplayEnds, EngineHarvest, sessionVars
    <2> QED
      BY <2>1
  <1>3. CASE Session
    <2>1. ASSUME NEW next \in {"Idle", "Invalid", "Detached"}, EndTransfer(next)
          PROVE  phase' \in {"Idle", "Invalid", "Detached"}
      BY <2>1 DEF EndTransfer
    <2>2. CASE AdvanceStale \/ CopyFails \/ Abort
      <3>1. EndTransfer(Resting)
        BY <2>2 DEF AdvanceStale, CopyFails, Abort
      <3>2. phase \in {"Spilling", "Ready"} => Resting = "Idle"
        BY DEF Resting
      <3>3. phase \in {"Spilling", "Ready"} => phase' \in {"Idle", "Invalid", "Detached"}
        BY <2>1, <3>1, <3>2
      <3> QED
        BY <3>3
    <2>3. CASE Disconnect \/ PublishRefused
      <3>1. phase' \in {"Idle", "Invalid", "Detached"}
        BY <2>1, <2>3 DEF Disconnect, PublishRefused
      <3> QED
        BY <3>1
    <2>4. CASE (\E selected \in SUBSET Blocks : Prepare(selected)) \/ NewSession
      BY <2>4 DEF Prepare, NewSession
    <2>5. CASE Advance
      <3>1. CASE StartSpill \/ FinishRestore
        <4>1. phase' \notin {"Restoring", "Published"}
          BY <3>1 DEF StartSpill, FinishRestore
        <4> QED
          BY <4>1
      <3>2. CASE StartRestore
        <4>1. phase # "Ready"
          BY <3>2 DEF StartRestore
        <4> QED
          BY <3>2, <4>1
      <3> QED
        BY <2>5, <3>1, <3>2 DEF Advance
    <2>6. CASE PublishView
      <3>1. phase # "Spilling"
        BY <2>6 DEF PublishView
      <3> QED
        BY <2>6, <3>1
    <2> QED
      BY <1>3, <2>2, <2>3, <2>4, <2>5, <2>6 DEF Session
  <1> QED
    BY <1>1, <1>2, <1>3 DEF SNext

LEMMA SpillFits == ASSUME SessionInv, StartRestore PROVE Cardinality(OnHost') <= HostBlocks
  <1>1. /\ host' = Spilled(plan.spill) /\ UNCHANGED contentVars /\ phase = "Spilling" /\ Current
    BY DEF StartRestore
  <1>2. /\ plan.spill \subseteq Blocks
        /\ Cardinality(OnHost \cup plan.spill) <= HostBlocks
    BY <1>1 DEF SessionInv, PlanSafe, PlanCurrent, Moving
  <1>3. IsFiniteSet(Blocks) /\ Accepted \subseteq Blocks
    <2>1. BlocksOf(MaxTokens) \in Nat
      BY BlocksNat, ContentAssumption
    <2>2. IsFiniteSet(Blocks)
      BY <2>1, FS_Interval DEF Blocks
    <2> QED
      BY <2>2, AcceptedIs DEF SessionInv, SessionTypes
  <1>4. OnHost \cup plan.spill \in SUBSET Blocks
    BY <1>2, <1>3 DEF OnHost
  <1>5. IsFiniteSet(OnHost \cup plan.spill) /\ Cardinality(OnHost \cup plan.spill) \in Nat
    BY <1>3, <1>4, FS_Subset, FS_CardinalityType
  <1>6. OnHost' \subseteq OnHost \cup plan.spill
    <2>1. Accepted' = Accepted /\ \A i \in Accepted : ValidTokens(i)' = ValidTokens(i)
      BY <1>1 DEF Accepted, ValidTokens, FirstRow, BlocksOf, contentVars
    <2>2. \A i \in Blocks : host'[i] = IF i \in plan.spill THEN device[i] ELSE host[i]
      BY <1>1, <1>2, SpilledIs DEF SessionInv
    <2> SUFFICES ASSUME NEW i \in OnHost' PROVE i \in OnHost \cup plan.spill
      OBVIOUS
    <2>3. i \in Accepted /\ Len(host'[i]) >= ValidTokens(i)
      BY <2>1 DEF OnHost
    <2> QED
      BY <1>3, <2>2, <2>3 DEF OnHost
  <1>7. Cardinality(OnHost') <= Cardinality(OnHost \cup plan.spill) /\ Cardinality(OnHost') \in Nat
    BY <1>5, <1>6, FS_Subset, FS_CardinalityType
  <1> QED
    BY <1>2, <1>5, <1>7, SessionAssumption

LEMMA PublicationKept ==
  ASSUME SessionInv, PublishView
  PROVE  /\ \A i \in plan.selected : BlockRows(i)' = plan.bytes[i]
         /\ (Cardinality(view) + ReserveBlocks <= DeviceBlocks)'
  <1>1. phase = "Ready" /\ Current /\ Publish(plan.expected) /\ view' = plan.selected
    BY DEF PublishView
  <1>2. /\ \A i \in plan.selected : plan.bytes[i] = BlockRows(i)
        /\ Cardinality(plan.selected) + ReserveBlocks <= DeviceBlocks
    BY <1>1 DEF SessionInv, PlanCurrent, Moving
  <1>3. rows' = rows /\ reserved' = reserved /\ stamp'.frontier = stamp.frontier
    BY <1>1 DEF Publish, SessionInv, ContentInv, TypeOK, Stamps
  <1>4. /\ \A i \in plan.selected : BlockRows(i)' = BlockRows(i)
        /\ ReserveBlocks' = ReserveBlocks
    BY <1>3 DEF BlockRows, ValidTokens, FirstRow, ReserveBlocks, BlocksOf
  <1> QED
    BY <1>1, <1>2, <1>4

\* What is done is what was planned: the spilled blocks fit in the host budget,
\* and at the publication every block has the rows the plan saw and the pages
\* set aside for reserved rows are free.
THEOREM PlansAreKept == SSpec => PlanKept
  <1> DEFINE Kept ==
               /\ phase = "Spilling" /\ phase' = "Restoring" => Cardinality(OnHost') <= HostBlocks
               /\ phase = "Ready" /\ phase' = "Published" =>
                    /\ \A i \in plan.selected : BlockRows(i)' = plan.bytes[i]
                    /\ (Cardinality(view) + ReserveBlocks <= DeviceBlocks)'
  <1>1. SessionInv /\ [SNext]_vars => [Kept]_vars
    <2>1. ASSUME SessionInv, SNext PROVE Kept
      BY <2>1, PhaseSteps, SpillFits, PublicationKept
    <2> QED
      BY <2>1
  <1>2. PlanKept <=> [][Kept]_vars
    BY DEF PlanKept
  <1> HIDE DEF Kept
  <1> QED
    BY <1>1, <1>2, SessionInvariant, PTL DEF SSpec

===============================================================================
