---------------------------- MODULE MemorySession ----------------------------
(***************************************************************************)
(* The working-set transaction: MemorySession (kvmem/src/host/             *)
(* memory_contract.cpp) over the ledger KvContent and the transfer of the  *)
(* llama adapter (NativeBackend and NativeTransfer,                        *)
(* src/adapter/llama-memory-kvmem.cpp).                                    *)
(*                                                                         *)
(* A transaction spills the blocks that leave the device, frees them,      *)
(* restores the blocks that come in and then publishes the new view.  Its  *)
(* owner calls prepare, advance, publish and abort from the engine thread; *)
(* between two calls the engine may change the history, and every backend  *)
(* call may fail.  The copies are the rows themselves, so that what a copy *)
(* is worth is decided by its bytes and not by the version it is filed     *)
(* under.                                                                  *)
(***************************************************************************)
EXTENDS KvContent

CONSTANTS
    DeviceBlocks,   \* pool of native pages
    HostBlocks      \* records the host payload budget admits

ASSUME SessionAssumption == DeviceBlocks \in Nat \ {0} /\ HostBlocks \in Nat

VARIABLES
    phase,      \* phase_
    plan,       \* plan_
    transfer,   \* transfer_: "none", "armed", or "destructive" once pages were freed
    device,     \* rows each block holds on the device; <<>> when it has no page
    host,       \* rows of the completed packed copy of each block; <<>> for none
    view,       \* blocks the attention reads
    replay      \* replay_: first row that may be computed again, or NoReplay

sessionVars == <<phase, plan, transfer, device, host, view, replay>>
vars == <<contentVars, sessionVars>>

Blocks == 1 .. BlocksOf(MaxTokens)
NoPlan == [selected |-> {}]
NoReplay == -1
NoCopies == [i \in Blocks |-> <<>>]

\* What a cell of the pool reads as when no row was put into it.
NoRow == [token |-> 0, by |-> 0]

\* A copy is complete and current when it starts with the accepted rows.
Holds(copy, i) ==
    Len(copy) >= ValidTokens(i) /\ SubSeq(copy, 1, ValidTokens(i)) = BlockRows(i)

Resident == {i \in Accepted : device[i] # <<>>}
OnHost == {i \in Accepted : Len(host[i]) >= ValidTokens(i)}

\* Device pages new rows will need (reserved_blocks - committed_blocks).
ReserveBlocks == BlocksOf(reserved) - BlocksOf(stamp.frontier)

SInit ==
    /\ Init
    /\ phase = "Idle" /\ plan = NoPlan /\ transfer = "none"
    /\ device = NoCopies /\ host = NoCopies /\ view = {}
    /\ replay = NoReplay

-----------------------------------------------------------------------------
(* Ending a transfer                                                        *)

\* conv_reset_to_empty followed by invalidate.
LoseEverything ==
    /\ stamp' = [stamp EXCEPT !.incarnation = @ + 1, !.history = @ + 1, !.execution = @ + 1,
                              !.view = @ + 1, !.valid = FALSE, !.frontier = 0]
    /\ reserved' = 0 /\ evaluated' = 0 /\ versions' = <<>> /\ rows' = <<>>
    /\ leases' = RevokeAll
    /\ device' = NoCopies /\ host' = NoCopies /\ view' = {} /\ replay' = NoReplay

\* An abort that forgets that pages were freed.
LostByCopiesOnly(drained) == ~drained

\* The pages of a transfer that was never destructive hold the old view still.
\* Draining the copies may fail, which makes the abort destructive as well.
Lost(drained) == transfer = "destructive" \/ ~drained

\* Spilled blocks whose copy had reached the host when the transfer ended.
Arrived == SUBSET (IF phase = "Spilling" THEN plan.spill ELSE {})

\* The copies of the blocks of done reach the host.
Spilled(done) == [i \in Blocks |-> IF i \in done THEN device[i] ELSE host[i]]

\* MemorySession::abort; a session that is invalid, or whose engine is,
\* invalidates the engine once more.
EndTransfer(next) ==
    \E drained \in BOOLEAN :
        LET dead == Lost(drained) \/ ~stamp.valid \/ phase = "Invalid"
        IN  /\ drained \/ transfer # "none"
            /\ IF Lost(drained) THEN LoseEverything
               ELSE /\ IF dead \/ next = "Invalid" THEN Invalidate ELSE UNCHANGED contentVars
                    /\ \E done \in Arrived : host' = Spilled(done)
                    /\ UNCHANGED <<device, view, replay>>
            /\ transfer' = "none" /\ plan' = NoPlan
            /\ phase' = IF dead /\ next # "Detached" THEN "Invalid" ELSE next

\* Where a session that stays usable is after abort.
Resting == IF phase = "Published" THEN "Published" ELSE "Idle"

Abort == phase # "Detached" /\ EndTransfer(Resting)

\* disconnect: abort, then let go of the backend.
Disconnect == phase # "Detached" /\ EndTransfer("Detached")

\* The session object ends (its destructor aborts) and the engine makes the
\* next one.
NewSession ==
    /\ phase \in {"Published", "Invalid", "Detached"}
    /\ IF phase = "Invalid" THEN Invalidate ELSE UNCHANGED contentVars
    /\ phase' = "Idle"
    /\ UNCHANGED <<plan, transfer, device, host, view, replay>>

-----------------------------------------------------------------------------
(* Planning                                                                 *)

\* A plan that counts only the host copies that exist.
AdmissibleForgetsSpill(selected) ==
    /\ \A i \in Resident : Holds(device[i], i)
    /\ \A i \in Accepted \ Resident : i \in OnHost
    /\ Cardinality(selected) + ReserveBlocks <= DeviceBlocks
    /\ Cardinality(OnHost) <= HostBlocks

\* What plan_working_set and NativeBackend::snapshot refuse.
Admissible(selected) ==
    /\ \A i \in Resident : Holds(device[i], i)
    /\ \A i \in Accepted \ Resident : i \in OnHost
    /\ Cardinality(selected) + ReserveBlocks <= DeviceBlocks
    /\ Cardinality(OnHost \cup (Resident \ selected)) <= HostBlocks

\* The adapter restores whole blocks only: a tail that will be appended to has
\* to be resident already.
Restorable(restore) ==
    \A i \in restore : ValidTokens(i) = BlockTokens \/ reserved = stamp.frontier

\* What the callers ask for: a detach selects nothing, an attach what was resident
\* when the store was detached; every other pick keeps the sink and what else the
\* scores and the image groups leave room for, not always the newest block.
Picks == {s \in SUBSET Accepted : s = {} \/ view = {} \/ 1 \in s}

\* prepare and prepare_reselect with a current stamp, never during a replay
\* (prepare_working_set, conv_swap_supported).  A refusal, by the plan or by
\* the backend, leaves the session as it was.
Prepare(selected) ==
    /\ phase \in {"Idle", "Published"} /\ stamp.valid /\ transfer = "none"
    /\ replay = NoReplay
    /\ selected \in Picks /\ evaluated = stamp.frontier
    /\ Admissible(selected) /\ Restorable(selected \ Resident)
    /\ plan' = [selected |-> selected, expected |-> stamp,
                evict |-> Resident \ selected,
                spill |-> {i \in Resident \ selected : i \notin OnHost},
                restore |-> selected \ Resident,
                bytes |-> [i \in selected |-> BlockRows(i)]]
    /\ transfer' = "armed" /\ phase' = "Prepared"
    /\ UNCHANGED <<contentVars, device, host, view, replay>>

\* require_current.
Current == stamp.valid /\ stamp = plan.expected

-----------------------------------------------------------------------------
(* advance and publish                                                      *)

\* start_spill.
StartSpill ==
    /\ phase = "Prepared" /\ Current
    /\ phase' = "Spilling"
    /\ UNCHANGED <<contentVars, plan, transfer, device, host, view, replay>>

\* The pages of the blocks that leave are free for others.
Freed(gone) == [i \in Blocks |-> IF i \in gone THEN <<>> ELSE device[i]]

\* poll answers that the spill is complete: start_restore follows at once.
StartRestore ==
    /\ phase = "Spilling" /\ Current
    /\ host' = Spilled(plan.spill) /\ device' = Freed(plan.evict)
    /\ transfer' = "destructive" /\ phase' = "Restoring"
    /\ UNCHANGED <<contentVars, plan, view, replay>>

\* A restore that copies nothing.
FinishRestoreEmpty ==
    /\ phase = "Restoring" /\ Current
    /\ phase' = "Ready"
    /\ UNCHANGED <<contentVars, plan, transfer, device, host, view, replay>>

\* poll answers that the restore is complete.
FinishRestore ==
    /\ phase = "Restoring" /\ Current
    /\ device' = [i \in Blocks |-> IF i \in plan.restore THEN host[i] ELSE device[i]]
    /\ phase' = "Ready"
    /\ UNCHANGED <<contentVars, plan, transfer, host, view, replay>>

\* An advance that goes on waiting under a stale plan.
StaleWaits == phase \in {"Prepared", "Spilling", "Restoring"} /\ ~stamp.valid /\ Abort

\* advance finds the plan stale.
AdvanceStale == phase \in {"Prepared", "Spilling", "Restoring", "Ready"} /\ ~Current /\ Abort

\* A copy fails, or cannot be started.
CopyFails == phase \in {"Prepared", "Spilling", "Restoring"} /\ Current /\ Abort

Advance == StartSpill \/ StartRestore \/ FinishRestore

\* publish, when NativeTransfer::publish accepts every restored row.
PublishView ==
    /\ phase = "Ready" /\ Current
    /\ \A i \in plan.selected : Holds(device[i], i)
    /\ Publish(plan.expected)
    /\ view' = plan.selected
    /\ transfer' = "none" /\ plan' = NoPlan /\ phase' = "Published"
    /\ UNCHANGED <<device, host, replay>>

\* The engine refuses the view half way: failed(true).
PublishRefused == phase = "Ready" /\ Current /\ EndTransfer("Invalid")

-----------------------------------------------------------------------------
(* The engine between two calls of the session                              *)

\* The first n rows of a copy.
Shortened(copy, n) == SubSeq(copy, 1, IF n < Len(copy) THEN n ELSE Len(copy))

\* The engine evaluates the attached conversation only: a detached one has no
\* block on the device.
Attached == stamp.frontier = 0 \/ view # {}

\* prepare_ubatches: rows up to end are reserved.
EngineReserve(end) == transfer = "none" /\ Attached /\ Reserve(end) /\ UNCHANGED sessionVars

\* Blocks with a row in [begin, end).
Touched(begin, end) == {i \in Blocks : begin \div BlockTokens < i /\ i <= BlocksOf(end)}

\* The device once the rows (begin, end] of rs are written to their cells.  A
\* block that had no page gets a fresh one, whose other cells are empty.
Written(begin, end, rs) ==
    [i \in Blocks |->
        IF i \notin Touched(begin, end) THEN device[i]
        ELSE LET last == IF end < i * BlockTokens THEN end ELSE i * BlockTokens
                 size == IF last - FirstRow(i) < Len(device[i]) THEN Len(device[i]) ELSE last - FirstRow(i)
             IN  [k \in 1 .. size |->
                     IF begin < FirstRow(i) + k /\ FirstRow(i) + k <= end THEN rs[FirstRow(i) + k]
                     ELSE IF k \in DOMAIN device[i] THEN device[i][k] ELSE NoRow]]

\* A graph appends rows: harvest_pending completes them.  prepare_working_set
\* found each touched block on the device or gave it a free page; the rows an
\* open tail block already has are not copied into that page.
EngineComplete(end, accepted) ==
    LET touched == Touched(evaluated, end)
    IN  /\ transfer = "none" /\ replay = NoReplay /\ Attached
        /\ Cardinality({i \in Blocks : device[i] # <<>>} \cup touched) <= DeviceBlocks
        /\ Complete(evaluated, end, accepted)
        /\ device' = Written(evaluated, end, rows')
        /\ view' = view \cup touched
        /\ UNCHANGED <<phase, plan, transfer, host, replay>>

\* harvest_full_blocks_async: a full accepted block is packed on the host.
EngineHarvest(i) ==
    /\ transfer = "none" /\ stamp.valid /\ replay = NoReplay
    /\ i \in Resident /\ device[i][1] # NoRow /\ FirstRow(i) + BlockTokens <= stamp.frontier
    /\ i \notin OnHost
    /\ host' = Spilled({i})
    /\ UNCHANGED <<contentVars, phase, plan, transfer, device, view, replay>>

\* A replay that keeps the packed rows.
EngineReplayKeepsCopies(begin) ==
    /\ transfer = "none" /\ replay = NoReplay
    /\ evaluated = stamp.frontier /\ begin < stamp.frontier
    /\ \A i \in Touched(begin, evaluated) : device[i] # <<>>
    /\ ChangeExecution
    /\ replay' = begin
    /\ UNCHANGED <<phase, plan, transfer, device, host, view>>

\* set_replay(true) once the query blocks are on the device (the driver looks):
\* packed rows that will be computed again are dropped.
EngineReplay(begin) ==
    /\ transfer = "none" /\ replay = NoReplay
    /\ evaluated = stamp.frontier /\ begin < stamp.frontier
    /\ \A i \in Touched(begin, evaluated) : device[i] # <<>>
    /\ ChangeExecution
    /\ replay' = begin
    /\ host' = [i \in Blocks |-> Shortened(host[i], IF begin > FirstRow(i) THEN begin - FirstRow(i) ELSE 0)]
    /\ UNCHANGED <<phase, plan, transfer, device, view>>

\* A batch of the replay computes rows again.
EngineRecompute(begin, end) ==
    /\ transfer = "none" /\ replay # NoReplay
    /\ replay <= begin /\ end <= evaluated
    /\ Complete(begin, end, TRUE)
    /\ device' = Written(begin, end, rows')
    /\ UNCHANGED <<phase, plan, transfer, host, view, replay>>

\* set_replay(false), also when the replay is cancelled half way.
EngineReplayEnds ==
    /\ replay # NoReplay /\ replay' = NoReplay
    /\ UNCHANGED <<contentVars, phase, plan, transfer, device, host, view>>

EngineAccept(end) == transfer = "none" /\ Accept(end) /\ UNCHANGED sessionVars

\* truncate_cached shortens the ledger, the packed copies and the device rows.
EngineTruncate(end) ==
    LET keep(i) == IF end > FirstRow(i) THEN end - FirstRow(i) ELSE 0
        short(copies) == [i \in Blocks |-> Shortened(copies[i], keep(i))]
    IN  /\ replay = NoReplay /\ Attached
        /\ Truncate(end)
        /\ device' = short(device) /\ host' = short(host)
        /\ view' = {i \in view : keep(i) > 0}
        /\ UNCHANGED <<phase, plan, transfer, replay>>

EngineChangeExecution == ChangeExecution /\ UNCHANGED sessionVars

EngineInvalidate == stamp.valid /\ Invalidate /\ UNCHANGED sessionVars

\* conv_reset_to_empty: a fresh conversation.
EngineReset ==
    /\ transfer = "none" /\ Reset
    /\ device' = NoCopies /\ host' = NoCopies /\ view' = {} /\ replay' = NoReplay
    /\ UNCHANGED <<phase, plan, transfer>>

Engine ==
    /\ stamp.history < MaxRevision
    /\ \/ EngineChangeExecution \/ EngineReset
       \/ \E end \in 0 .. MaxTokens : EngineReserve(end) \/ EngineAccept(end) \/ EngineTruncate(end)
       \/ \E end \in 1 .. MaxTokens, accepted \in BOOLEAN : EngineComplete(end, accepted)
       \/ \E begin \in 0 .. MaxTokens : EngineReplay(begin)
       \/ \E begin, end \in 0 .. MaxTokens : EngineRecompute(begin, end)

Session ==
    \/ stamp.view < MaxView /\ \E selected \in SUBSET Blocks : Prepare(selected)
    \/ Advance \/ AdvanceStale \/ CopyFails \/ PublishView \/ PublishRefused
    \/ Abort \/ Disconnect \/ NewSession

SNext == \/ Engine \/ EngineInvalidate \/ EngineReplayEnds
         \/ \E i \in Blocks : EngineHarvest(i)
         \/ Session

SSpec == SInit /\ [][SNext]_vars

\* run_native_transaction calls advance until the session is ready or throws,
\* and then publish; the copies of the engine end.
FairSpec == SSpec /\ WF_vars(Advance \/ AdvanceStale \/ PublishView)

-----------------------------------------------------------------------------
(* Properties                                                               *)

Moving == {"Prepared", "Spilling", "Restoring", "Ready"}

\* A transfer and its plan exist exactly while the session is moving, so that
\* none is left behind by a failure; and when the transfer is ready and its plan
\* still current, the rows it restored are the rows of the history: the check of
\* the engine's publish is met.
SessionExact ==
    /\ phase \in {"Idle", "Published", "Invalid", "Detached"} \cup Moving
    /\ transfer \in {"none", "armed", "destructive"}
    /\ transfer = "none" <=> phase \notin Moving
    /\ transfer = "none" <=> plan = NoPlan
    /\ view \subseteq Blocks /\ DOMAIN device = Blocks /\ DOMAIN host = Blocks
    /\ phase = "Ready" /\ Current => \A i \in plan.selected : Holds(device[i], i)

\* A block that was appended to while it was not on the device: its page has the
\* new rows only (see ResidentComplete).
Gap(i) == \E k \in DOMAIN device[i] : device[i][k] = NoRow

\* No accepted row is lost: as long as the session is valid, each block is
\* complete and current on the device or on the host, in the middle of a
\* transfer as well.  Of a block with a gap the older rows are in its packed
\* copy only, and a replay from inside it drops them before it computes them
\* again: nothing more is true of it.
HistoryKept ==
    stamp.valid => \A i \in Accepted :
        Holds(device[i], i) \/ Holds(host[i], i) \/ Gap(i)

\* Outside the destructive part of a transfer everything the attention reads
\* is on the device: an abort that promises the previous view keeps it.
ViewComplete ==
    stamp.valid /\ transfer # "destructive" =>
        \A i \in view \cap Accepted : Gap(i) \/ Holds(device[i], i)

\* What NativeBackend::snapshot requires of the engine ("resident KV has a
\* position/coverage gap"): a block on the device has all its accepted rows
\* there.  A truncation inside a block that a retrieval had left out, followed
\* by an append, is where the engine does not keep it.
ResidentComplete ==
    stamp.valid /\ transfer # "destructive" => \A i \in Resident : Holds(device[i], i)

\* What is done is what was planned.  The blocks a transaction spills fit in the
\* host payload budget beside the copies that are there; at the publication
\* every block still has the rows it had when the plan was made, and the pages
\* the plan set aside for reserved rows are free.
PlanKept ==
    [][/\ phase = "Spilling" /\ phase' = "Restoring" => Cardinality(OnHost') <= HostBlocks
       /\ phase = "Ready" /\ phase' = "Published" =>
            /\ \A i \in plan.selected : BlockRows(i)' = plan.bytes[i]
            /\ (Cardinality(view) + ReserveBlocks <= DeviceBlocks)']_vars

\* A transaction ends, whatever the engine does in between.
TransactionEnds == transfer # "none" ~> transfer = "none"

===============================================================================
