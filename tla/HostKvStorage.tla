---------------------------- MODULE HostKvStorage ----------------------------
(***************************************************************************)
(* The tiered host KV storage (kvmem/src/host/host_kv_storage.cpp) with a  *)
(* spill file: RAM budget, records, leases, sources, reservations and the  *)
(* batched eviction to disk, under any interleaving of several threads.    *)
(*                                                                         *)
(* A record is identified by the HostKvAllocation object behind it.  Its   *)
(* content is one value; on disk the value fills every cell of the         *)
(* record's extent, so a torn or foreign write shows.  Sizes are in cells. *)
(*                                                                         *)
(* Mutexes: `policy' is the catalog lock, recLock[r] the tier lock of one  *)
(* record.  The account mutex and the file mutex guard single steps and    *)
(* need no variable.  A thread runs one of three long operations, reserve, *)
(* rewrite (the slow path of writable_data) and trim; the others take one  *)
(* step.                                                                   *)
(***************************************************************************)
EXTENDS SpillFile, Sequences, SequencesExt, FiniteSetsExt

CONSTANTS
    Threads,        \* engine lanes, CPU workers, server threads
    Records,        \* allocations that may exist at once
    Size,           \* cells of each record
    Values,         \* contents a record may have
    RamCapacity,    \* H, the host budget
    BatchBytes,     \* write_batch_bytes, the packing buffer
    MaxBatch,       \* record locks one eviction may hold (64)
    PurgeEvery,     \* registrations between two purges of the catalog (64)
    Demands,        \* sizes callers reserve
    Targets,        \* residency targets callers trim to
    MaxHandles,     \* bound: leases, and sources, alive on one record
    None            \* no thread, no value, no extent, no record

ASSUME SizeAssumption    == Size \in [Records -> Nat \ {0}]
ASSUME BudgetAssumption  == /\ RamCapacity \in Nat /\ BatchBytes \in Nat \ {0}
                            /\ MaxBatch \in Nat \ {0} /\ PurgeEvery \in Nat \ {0}
                            /\ MaxHandles \in Nat
ASSUME FiniteAssumption  == IsFiniteSet(Threads) /\ IsFiniteSet(Records)
ASSUME DemandAssumption  == Demands \subseteq 1 .. RamCapacity /\ Targets \subseteq Nat
ASSUME NoneAssumption    == /\ None \notin Threads \cup Records \cup Values \cup Nat
                            /\ Values # {}

VARIABLES
    cells,          \* content of every cell of the spill file
    charged,        \* HostKvAccount.charged
    policy,         \* holder of the catalog lock
    residents,      \* catalog of resident records, eviction candidates first
    registrations,  \* registrations since the last purge
    relocating,     \* HostKvAccount.relocating: records being written out
    moving,         \* records whose own relocating flag is set
    recLock,        \* holder of each record's tier lock
    held,           \* records whose owner still has its HostKvRecord
    pins, readers,  \* outstanding leases and sources
    sealed,         \* sealed records
    ram, disk,      \* content in RAM; offset of the extent
    resv,           \* HostKvReservation.remaining_ of each thread
    task            \* the operation each thread is in

recVars   == <<held, pins, readers, sealed, ram, disk>>
catVars   == <<residents, registrations, relocating, moving>>
lockVars  == <<policy, recLock>>
vars == <<diskVars, cells, charged, lockVars, catVars, recVars, resv, task>>

Idle == [pc |-> "idle", op |-> "none", rec |-> None, bytes |-> 0, left |-> 0,
         room |-> 0, batch |-> <<>>, dests |-> <<>>, next |-> 1,
         data |-> None, ok |-> TRUE]

Init ==
    /\ DiskInit
    /\ cells = [c \in Cells |-> None]
    /\ charged = 0
    /\ policy = None
    /\ residents = <<>> /\ registrations = 0 /\ relocating = 0 /\ moving = {}
    /\ recLock = [r \in Records |-> None]
    /\ held = {} /\ sealed = {}
    /\ pins = [r \in Records |-> 0] /\ readers = [r \in Records |-> 0]
    /\ ram = [r \in Records |-> None] /\ disk = [r \in Records |-> None]
    /\ resv = [t \in Threads |-> 0]
    /\ task = [t \in Threads |-> Idle]

-----------------------------------------------------------------------------
(* Reference counting                                                       *)

Batched == UNION {Range(task[t].batch) : t \in Threads}

\* The shared_ptr count of the allocation is not zero.
Alive(r) == r \in held \/ pins[r] > 0 \/ readers[r] > 0 \/ r \in Batched

\* No long operation of the owner is running on r: the owner of a record
\* serializes its own calls.
OwnerIdle(r) == r \in held /\ \A t \in Threads : task[t].rec # r

\* An extent handle is dropped.  Nothing may read a free cell, so its content
\* is forgotten.
Free(x) ==
    /\ Release(x)
    /\ cells' = [c \in Cells |-> IF c \in CellsOf(x) THEN None ELSE cells[c]]

\* A destructor that forgets the extent.
DestroyKeepsExtent(r, gone) ==
    /\ charged' = IF gone /\ ram[r] # None THEN charged - Size[r] ELSE charged
    /\ ram' = IF gone THEN [ram EXCEPT ![r] = None] ELSE ram
    /\ disk' = IF gone THEN [disk EXCEPT ![r] = None] ELSE disk
    /\ UNCHANGED <<diskVars, cells>>

\* Effects of dropping one reference of r when `gone' says it was the last:
\* ~HostKvAllocation returns the RAM charge and drops the extent handle.
Destroy(r, gone) ==
    /\ charged' = IF gone /\ ram[r] # None THEN charged - Size[r] ELSE charged
    /\ ram' = IF gone THEN [ram EXCEPT ![r] = None] ELSE ram
    /\ disk' = IF gone THEN [disk EXCEPT ![r] = None] ELSE disk
    /\ IF gone /\ disk[r] # None THEN Free(UsedAt(disk[r]))
       ELSE UNCHANGED <<diskVars, cells>>

-----------------------------------------------------------------------------
(* The account                                                              *)

Headroom(n) ==
    IF RamCapacity >= 2 * BatchBytes /\ n <= RamCapacity - BatchBytes
    THEN BatchBytes ELSE 0

\* try_charge(n, h) would succeed.
Fits(n, h) == n + h <= RamCapacity - charged

\* The entries of a catalog that stay, in their order.
Kept(s, keep) ==
    LET upTo[i \in 0 .. Len(s)] == IF i = 0 THEN <<>>
                                   ELSE IF s[i] \in keep THEN Append(upTo[i - 1], s[i])
                                   ELSE upTo[i - 1]
    IN  upTo[Len(s)]

\* register_resident: append, after a purge of expired entries when it is due.
Register(r) ==
    LET purge == registrations + 1 = PurgeEvery
        live  == IF purge THEN Kept(residents, {x \in Records : Alive(x)}) ELSE residents
    IN  /\ residents' = Append(live, r)
        /\ registrations' = IF purge THEN 0 ELSE registrations + 1

-----------------------------------------------------------------------------
(* Handles: calls of one step                                               *)

\* HostKvReservation::allocate: turn part of the reservation into a record.
\* The catalog lock is taken for the registration only.
AllocateFrom(t, r, v) ==
    /\ task[t] = Idle /\ policy = None
    /\ ~Alive(r) /\ r \notin Range(residents)      \* a new object
    /\ Size[r] <= resv[t]
    /\ Register(r)
    /\ held' = held \cup {r} /\ sealed' = sealed \ {r}
    /\ ram' = [ram EXCEPT ![r] = v]
    /\ resv' = [resv EXCEPT ![t] = @ - Size[r]]
    /\ UNCHANGED <<diskVars, cells, charged, lockVars, relocating, moving, pins,
                   readers, disk, task>>

\* ~HostKvReservation.
ReleaseReservation(t) ==
    /\ task[t] = Idle /\ resv[t] > 0
    /\ charged' = charged - resv[t]
    /\ resv' = [resv EXCEPT ![t] = 0]
    /\ UNCHANGED <<diskVars, cells, lockVars, catVars, recVars, task>>

\* writable_data, fast path, and the write itself.  A resident unsealed record
\* cannot be evicted, so the pointer stays good until the owner seals the
\* record, and later writes through it take no lock.  The owner takes no lease
\* while it writes.
Write(r, v) ==
    /\ OwnerIdle(r) /\ r \notin sealed
    /\ pins[r] = 0 /\ readers[r] = 0
    /\ ram' = [ram EXCEPT ![r] = v]
    /\ UNCHANGED <<diskVars, cells, charged, lockVars, catVars, held, pins,
                   readers, sealed, disk, resv, task>>

\* HostKvRecord::seal takes no lock.
Seal(r) ==
    /\ OwnerIdle(r) /\ r \notin sealed
    /\ sealed' = sealed \cup {r}
    /\ UNCHANGED <<diskVars, cells, charged, lockVars, catVars, held, pins,
                   readers, ram, disk, resv, task>>

Lease(r) ==
    /\ (r \in held \/ readers[r] > 0) /\ recLock[r] = None
    /\ pins[r] < MaxHandles
    /\ pins' = [pins EXCEPT ![r] = @ + 1]
    /\ UNCHANGED <<diskVars, cells, charged, lockVars, catVars, held, readers,
                   sealed, ram, disk, resv, task>>

\* ~HostKvLease: the pin first, then the reference.
Unpin(r) ==
    /\ pins[r] > 0
    /\ pins' = [pins EXCEPT ![r] = @ - 1]
    /\ Destroy(r, ~(pins[r] > 1 \/ r \in held \/ readers[r] > 0 \/ r \in Batched))
    /\ UNCHANGED <<lockVars, catVars, held, readers, sealed,
                   resv, task>>

\* HostKvRecord::source (the owner's call, on a sealed record, without a lock)
\* or a copy of a source.
Source(r) ==
    /\ \/ OwnerIdle(r) /\ r \in sealed
       \/ readers[r] > 0
    /\ readers[r] < MaxHandles
    /\ readers' = [readers EXCEPT ![r] = @ + 1]
    /\ UNCHANGED <<diskVars, cells, charged, lockVars, catVars, held, pins,
                   sealed, ram, disk, resv, task>>

\* ~HostKvSource.
ReleaseSource(r) ==
    /\ readers[r] > 0
    /\ readers' = [readers EXCEPT ![r] = @ - 1]
    /\ Destroy(r, ~(readers[r] > 1 \/ r \in held \/ pins[r] > 0 \/ r \in Batched))
    /\ UNCHANGED <<lockVars, catVars, held, pins, sealed, resv,
                   task>>

\* The owner drops its HostKvRecord.
Drop(r) ==
    /\ OwnerIdle(r)
    /\ held' = held \ {r}
    /\ Destroy(r, pins[r] = 0 /\ readers[r] = 0 /\ r \notin Batched)
    /\ UNCHANGED <<lockVars, catVars, pins, readers, sealed, resv, task>>

-----------------------------------------------------------------------------
(* Starting a long operation: each takes the catalog lock                   *)

\* HostKvStorage::reserve.  A demand over RamCapacity throws at once.
Reserving(t, n) ==
    /\ task[t] = Idle /\ resv[t] = 0 /\ policy = None
    /\ policy' = t
    /\ task' = [task EXCEPT ![t].pc = "charge", ![t].op = "reserve", ![t].bytes = n]
    /\ UNCHANGED <<diskVars, cells, charged, recLock, catVars, recVars, resv>>

\* HostKvStorage::trim.
Trimming(t, n) ==
    /\ task[t] = Idle /\ policy = None
    /\ policy' = t
    /\ task' = [task EXCEPT ![t].pc = "trim", ![t].op = "trim", ![t].bytes = n]
    /\ UNCHANGED <<diskVars, cells, charged, recLock, catVars, recVars, resv>>

\* writable_data, first lock: sealed or cold, and nobody reads it now.
Rewriting(t, r) ==
    /\ task[t] = Idle
    /\ OwnerIdle(r) /\ recLock[r] = None
    /\ pins[r] = 0 /\ readers[r] = 0
    /\ ram[r] = None \/ r \in sealed
    /\ task' = [task EXCEPT ![t].pc = "lock", ![t].op = "rewrite", ![t].rec = r,
                            ![t].bytes = Size[r]]
    /\ UNCHANGED <<diskVars, cells, charged, lockVars, catVars, recVars, resv>>

\* A rewrite that does not look for readers again.
RewriteLockUnchecked(t) ==
    LET r == task[t].rec
    IN  /\ task[t].pc = "lock" /\ policy = None /\ recLock[r] = None
        /\ IF ram[r] # None
           THEN /\ task' = [task EXCEPT ![t] = Idle]
                /\ sealed' = sealed \ {r}
                /\ \E v \in Values : ram' = [ram EXCEPT ![r] = v]
                /\ UNCHANGED lockVars
           ELSE /\ policy' = t /\ recLock' = [recLock EXCEPT ![r] = t]
                /\ task' = [task EXCEPT ![t].pc = "charge"]
                /\ UNCHANGED <<sealed, ram>>
        /\ UNCHANGED <<diskVars, cells, charged, catVars, held, pins, readers,
                       disk, resv>>

\* writable_data, std::lock of both mutexes and the second test for readers.
\* A record that is still resident is written through the pointer returned.
RewriteLock(t) ==
    LET r == task[t].rec
    IN  /\ task[t].pc = "lock" /\ policy = None /\ recLock[r] = None
        /\ \/ /\ pins[r] > 0 \/ readers[r] > 0                   \* Pending
              /\ task' = [task EXCEPT ![t] = Idle]
              /\ UNCHANGED <<lockVars, sealed, ram>>
           \/ /\ pins[r] = 0 /\ readers[r] = 0 /\ ram[r] # None  \* still resident
              /\ task' = [task EXCEPT ![t] = Idle]
              /\ sealed' = sealed \ {r}
              /\ \E v \in Values : ram' = [ram EXCEPT ![r] = v]
              /\ UNCHANGED lockVars
           \/ /\ pins[r] = 0 /\ readers[r] = 0 /\ ram[r] = None  \* cold
              /\ policy' = t /\ recLock' = [recLock EXCEPT ![r] = t]
              /\ task' = [task EXCEPT ![t].pc = "charge"]
              /\ UNCHANGED <<sealed, ram>>
        /\ UNCHANGED <<diskVars, cells, charged, catVars, held, pins, readers,
                       disk, resv>>

-----------------------------------------------------------------------------
(* reserve_locked                                                           *)

\* Leave the operation; the catalog lock, and for a rewrite the tier lock of
\* its record, are given up by unwinding.
Leave(t) ==
    /\ task' = [task EXCEPT ![t] = Idle]
    /\ policy' = None
    /\ recLock' = IF task[t].op = "rewrite"
                  THEN [recLock EXCEPT ![task[t].rec] = None] ELSE recLock
    /\ UNCHANGED resv

\* The charge is taken: a reserve returns its reservation, a rewrite gives up
\* the catalog lock and goes on to read its bytes back.
Granted(t) ==
    /\ charged' = charged + task[t].bytes
    /\ policy' = None
    /\ UNCHANGED recLock
    /\ IF task[t].op = "reserve"
       THEN /\ resv' = [resv EXCEPT ![t] = task[t].bytes]
            /\ task' = [task EXCEPT ![t] = Idle]
       ELSE /\ task' = [task EXCEPT ![t].pc = "read"]
            /\ UNCHANGED resv

\* The head of the loop of reserve_locked.
Charge(t) ==
    /\ task[t].pc = "charge"
    /\ IF Fits(task[t].bytes, Headroom(task[t].bytes))
       THEN Granted(t)
       ELSE /\ task' = [task EXCEPT ![t].pc = "evict"]
            /\ UNCHANGED <<charged, lockVars, resv>>
    /\ UNCHANGED <<diskVars, cells, catVars, recVars>>

\* The head of the loop of trim.
TrimTest(t) ==
    /\ task[t].pc = "trim"
    /\ IF charged > task[t].bytes
       THEN /\ task' = [task EXCEPT ![t].pc = "evict"]
            /\ UNCHANGED <<lockVars, resv>>
       ELSE Leave(t)
    /\ UNCHANGED <<diskVars, cells, charged, catVars, recVars>>

\* evict_batch found nothing it could write.  A throw for lack of disk room is
\* caught by reserve_locked; with a relocation in flight nothing is thrown.
NothingEvicted(t) ==
    /\ IF task[t].op # "trim" /\ Fits(task[t].bytes, 0)
       THEN Granted(t)
       ELSE /\ UNCHANGED charged
            /\ IF task[t].op # "trim" /\ relocating > 0
               THEN /\ task' = [task EXCEPT ![t].pc = "wait"]
                    /\ policy' = None
                    /\ UNCHANGED <<recLock, resv>>
               ELSE Leave(t)
    /\ UNCHANGED <<diskVars, cells, catVars, recVars>>

\* relocation_finished.wait may return without a notification.
SpuriousWake(t) ==
    /\ task[t].pc = "wait"
    /\ task' = [task EXCEPT ![t].pc = "woken"]
    /\ UNCHANGED <<diskVars, cells, charged, lockVars, catVars, recVars, resv>>

\* The waiter has the catalog lock again.
Relock(t) ==
    /\ task[t].pc = "woken" /\ policy = None
    /\ policy' = t
    /\ task' = [task EXCEPT ![t].pc = "charge"]
    /\ UNCHANGED <<diskVars, cells, charged, recLock, catVars, recVars, resv>>

-----------------------------------------------------------------------------
(* evict_batch                                                              *)

\* The cells that the elements of S take when x takes f[x], counted one by one.
Amount(f, S) == Cardinality(UNION {{x} \X (1 .. f[x]) : x \in S})

CellsSum(rs) == Amount([i \in DOMAIN rs |-> Size[rs[i]]], DOMAIN rs)
Total(t) == CellsSum(task[t].batch)
Packed(t) == Len(task[t].batch) > 1

EvictStart(t) ==
    /\ task[t].pc = "evict"
    /\ task' = [task EXCEPT ![t].pc = "scan", ![t].left = Len(residents),
                            ![t].room = Min({BatchBytes, RamCapacity - charged})]
    /\ UNCHANGED <<diskVars, cells, charged, lockVars, catVars, recVars, resv>>

Rotated == Append(Tail(residents), Head(residents))

\* A scan that does not look at the pins.
MayEvictPinned(t, r) ==
    /\ Alive(r) /\ r # task[t].rec /\ r \notin moving
    /\ recLock[r] = None
    /\ ram[r] # None
    /\ r \in sealed

MayEvict(t, r) ==
    /\ Alive(r) /\ r # task[t].rec /\ r \notin moving
    /\ recLock[r] = None
    /\ ram[r] # None
    /\ r \in sealed /\ pins[r] = 0

\* Expired, or cold and free to look at: the entry is erased.
Stale(t, r) ==
    \/ ~Alive(r)
    \/ r # task[t].rec /\ r \notin moving /\ recLock[r] = None /\ ram[r] = None

\* A scan that packs whatever it meets.
TooBigNever(t, r) == FALSE

\* A packed batch never outgrows the packing buffer.
TooBig(t, r) == task[t].batch # <<>> /\ Size[r] > task[t].room - Total(t)

\* One iteration of the scan that takes no record.
ScanPast(t) ==
    LET r == Head(residents)
    IN  /\ task[t].pc = "scan" /\ task[t].left > 0
        /\ \/ /\ Stale(t, r)
              /\ residents' = Tail(residents)
              /\ task' = [task EXCEPT ![t].left = @ - 1]
           \/ /\ ~Stale(t, r) /\ ~MayEvict(t, r)
              /\ residents' = Rotated
              /\ task' = [task EXCEPT ![t].left = @ - 1]
           \/ /\ MayEvict(t, r) /\ TooBig(t, r)
              /\ task' = [task EXCEPT ![t].left = 0]
              /\ UNCHANGED residents
           \/ /\ MayEvict(t, r) /\ ~TooBig(t, r) /\ ~CanReserve(Size[r])
              /\ residents' = Rotated
              /\ task' = [task EXCEPT ![t].left = @ - 1]
        /\ UNCHANGED <<diskVars, cells, charged, lockVars, registrations,
                       relocating, moving, recVars, resv>>

\* One iteration that adds the record to the batch, with a private extent.
ScanTake(t) ==
    LET r     == Head(residents)
        batch == Append(task[t].batch, r)
    IN  /\ task[t].pc = "scan" /\ task[t].left > 0
        /\ MayEvict(t, r) /\ ~TooBig(t, r)
        /\ Reserve(Size[r])
        /\ recLock' = [recLock EXCEPT ![r] = t]
        /\ residents' = Rotated
        /\ task' = [task EXCEPT
                      ![t].batch = batch,
                      ![t].dests = Append(@, ReservedAt(Size[r])),
                      ![t].left = IF \/ CellsSum(batch) >= task[t].room
                                     \/ Len(batch) = MaxBatch
                                  THEN 0 ELSE @ - 1]
        /\ UNCHANGED <<cells, charged, policy, registrations, relocating, moving,
                       recVars, resv>>

\* After the scan: the packing buffer is charged too, the records are marked
\* and the catalog lock is given up for the duration of the writes.
ScanEnd(t) ==
    /\ task[t].pc = "scan" /\ task[t].left = 0
    /\ \/ task[t].batch = <<>> /\ NothingEvicted(t)
       \/ /\ task[t].batch # <<>>
          /\ charged' = IF Packed(t) THEN charged + Total(t) ELSE charged
          /\ moving' = moving \cup Range(task[t].batch)
          /\ relocating' = relocating + Len(task[t].batch)
          /\ policy' = None
          /\ task' = [task EXCEPT ![t].pc = "write", ![t].next = 1]
          /\ UNCHANGED <<diskVars, cells, recLock, residents, registrations,
                         recVars, resv>>

\* The first k cells of the i-th destination receive the i-th record.
Written(t, i, k) ==
    [c \in Cells |-> IF c \in task[t].dests[i] .. task[t].dests[i] + k - 1
                     THEN ram[task[t].batch[i]] ELSE cells[c]]

\* The packing buffer is gone.
ScratchReleased(t) == IF Packed(t) THEN charged - Total(t) ELSE charged

WriteItem(t) ==
    LET i == task[t].next
    IN  /\ task[t].pc = "write"
        /\ cells' = Written(t, i, Size[task[t].batch[i]])
        /\ IF i < Len(task[t].batch)
           THEN /\ task' = [task EXCEPT ![t].next = i + 1]
                /\ UNCHANGED charged
           ELSE /\ task' = [task EXCEPT ![t].pc = "publish"]
                /\ charged' = ScratchReleased(t)
        /\ UNCHANGED <<diskVars, lockVars, catVars, recVars, resv>>

\* pwrite fails after any prefix.
WriteFails(t) ==
    LET i == task[t].next
    IN  /\ task[t].pc = "write"
        /\ \E k \in 0 .. Size[task[t].batch[i]] - 1 : cells' = Written(t, i, k)
        /\ charged' = ScratchReleased(t)
        /\ task' = [task EXCEPT ![t].pc = "abort"]
        /\ UNCHANGED <<diskVars, lockVars, catVars, recVars, resv>>

\* Next task of every thread when t moves on to pc and wakes all the waiters.
Notifying(t, pc, dests, ok) ==
    [s \in Threads |->
        IF s = t THEN [task[t] EXCEPT !.pc = pc, !.dests = dests, !.ok = ok]
        ELSE IF task[s].pc = "wait" THEN [task[s] EXCEPT !.pc = "woken"]
        ELSE task[s]]

\* A failed write that wakes nobody.
AbortSilent(t) ==
    /\ task[t].pc = "abort" /\ policy = None
    /\ policy' = t
    /\ moving' = moving \ Range(task[t].batch)
    /\ relocating' = relocating - Len(task[t].batch)
    /\ task' = [task EXCEPT ![t].pc = "unwind", ![t].ok = FALSE]
    /\ UNCHANGED <<diskVars, cells, charged, recLock, residents, registrations,
                   recVars, resv>>

\* The write failed: the candidates stay where they are and waiters are woken.
Abort(t) ==
    /\ task[t].pc = "abort" /\ policy = None
    /\ policy' = t
    /\ moving' = moving \ Range(task[t].batch)
    /\ relocating' = relocating - Len(task[t].batch)
    /\ task' = Notifying(t, "unwind", task[t].dests, FALSE)
    /\ UNCHANGED <<diskVars, cells, charged, recLock, residents, registrations,
                   recVars, resv>>

\* The extents become the only copies; RAM is returned.
Publish(t) ==
    LET batch == task[t].batch
    IN  /\ task[t].pc = "publish" /\ policy = None
        /\ policy' = t
        /\ ram' = [r \in Records |-> IF r \in Range(batch) THEN None ELSE ram[r]]
        /\ disk' = [r \in Records |->
                       IF r \in Range(batch)
                       THEN task[t].dests[CHOOSE i \in DOMAIN batch : batch[i] = r]
                       ELSE disk[r]]
        /\ charged' = charged - Total(t)
        /\ residents' = Kept(residents, Records \ Range(batch))
        /\ moving' = moving \ Range(batch)
        /\ relocating' = relocating - Len(batch)
        /\ task' = Notifying(t, "unwind", <<>>, TRUE)
        /\ UNCHANGED <<diskVars, cells, recLock, registrations, held, pins,
                       readers, sealed, resv>>

\* Leaving evict_batch: private extents of a failed write go first, then each
\* record's lock and reference.
UnwindExtent(t) ==
    /\ task[t].pc = "unwind" /\ task[t].dests # <<>>
    /\ Free(UsedAt(Head(task[t].dests)))
    /\ task' = [task EXCEPT ![t].dests = Tail(@)]
    /\ UNCHANGED <<charged, lockVars, catVars, recVars, resv>>

UnwindRecord(t) ==
    LET r == Head(task[t].batch)
    IN  /\ task[t].pc = "unwind" /\ task[t].dests = <<>> /\ task[t].batch # <<>>
        /\ recLock' = [recLock EXCEPT ![r] = None]
        /\ task' = [task EXCEPT ![t].batch = Tail(@)]
        /\ Destroy(r, ~(r \in held \/ pins[r] > 0 \/ readers[r] > 0))
        /\ UNCHANGED <<policy, catVars, held, pins, readers, sealed,
                       resv>>

\* Back in the loop of reserve_locked or trim, or out with the I/O error.
UnwindDone(t) ==
    /\ task[t].pc = "unwind" /\ task[t].dests = <<>> /\ task[t].batch = <<>>
    /\ IF task[t].ok
       THEN /\ task' = [task EXCEPT ![t].pc = IF task[t].op = "trim"
                                              THEN "trim" ELSE "charge"]
            /\ UNCHANGED <<lockVars, resv>>
       ELSE Leave(t)
    /\ UNCHANGED <<diskVars, cells, charged, catVars, recVars>>

-----------------------------------------------------------------------------
(* writable_data, the cold path after reserve_locked                        *)

\* What a read of r's extent returns: its value, unless some cell differs.
OnDisk(r) ==
    LET got == {cells[c] : c \in disk[r] .. disk[r] + Size[r] - 1}
    IN  IF Cardinality(got) = 1 THEN CHOOSE v \in got : TRUE ELSE None

ReadBack(t) ==
    /\ task[t].pc = "read"
    /\ task' = [task EXCEPT ![t].pc = "install", ![t].data = OnDisk(task[t].rec)]
    /\ UNCHANGED <<diskVars, cells, charged, lockVars, catVars, recVars, resv>>

\* The read fails: the charge goes back and the call unwinds.
ReadFails(t) ==
    /\ task[t].pc = "read"
    /\ charged' = charged - task[t].bytes
    /\ task' = [task EXCEPT ![t] = Idle]
    /\ recLock' = [recLock EXCEPT ![task[t].rec] = None]
    /\ UNCHANGED <<diskVars, cells, policy, catVars, recVars, resv>>

Install(t) ==
    LET r == task[t].rec
    IN  /\ task[t].pc = "install" /\ policy = None
        /\ Register(r)
        /\ ram' = [ram EXCEPT ![r] = task[t].data]
        /\ disk' = [disk EXCEPT ![r] = None]
        /\ Free(UsedAt(disk[r]))
        /\ sealed' = sealed \ {r}
        /\ recLock' = [recLock EXCEPT ![r] = None]
        /\ task' = [task EXCEPT ![t] = Idle]
        /\ UNCHANGED <<charged, policy, relocating, moving, held, pins,
                       readers, resv>>

-----------------------------------------------------------------------------

\* Steps of a long operation that wait for no mutex ...
Work(t) ==
    \/ Charge(t) \/ TrimTest(t)
    \/ EvictStart(t) \/ ScanPast(t) \/ ScanTake(t) \/ ScanEnd(t)
    \/ WriteItem(t) \/ WriteFails(t)
    \/ UnwindExtent(t) \/ UnwindRecord(t) \/ UnwindDone(t)
    \/ ReadBack(t) \/ ReadFails(t)

\* ... and those that do.
Acquire(t) == RewriteLock(t) \/ Relock(t) \/ Abort(t) \/ Publish(t) \/ Install(t)

\* What the engine may ask for.
Calls ==
    \/ \E t \in Threads :
        \/ \E n \in Demands : Reserving(t, n)
        \/ \E n \in Targets : Trimming(t, n)
        \/ \E r \in Records : Rewriting(t, r)
        \/ \E r \in Records, v \in Values : AllocateFrom(t, r, v)
        \/ ReleaseReservation(t)
        \/ SpuriousWake(t)
    \/ \E r \in Records :
        \/ \E v \in Values : Write(r, v)
        \/ Seal(r) \/ Lease(r) \/ Unpin(r)
        \/ Source(r) \/ ReleaseSource(r) \/ Drop(r)

Next == Calls \/ \E t \in Threads : Work(t) \/ Acquire(t)

Spec == Init /\ [][Next]_vars

\* A thread inside the storage keeps running, and a mutex is not refused to
\* the same thread for ever.  Nothing obliges a caller to make a call.
Fairness == \A t \in Threads : WF_vars(Work(t)) /\ SF_vars(Acquire(t))

FairSpec == Spec /\ Fairness

-----------------------------------------------------------------------------
(* Properties                                                               *)

Pcs == {"idle", "lock", "charge", "trim", "evict", "scan", "write", "abort",
        "publish", "unwind", "wait", "woken", "read", "install"}

\* Shape of the variables.
TypeOK ==
    /\ cells \in [Cells -> Values \cup {None}]
    /\ charged \in 0 .. RamCapacity
    /\ policy \in Threads \cup {None}
    /\ residents \in Seq(Records) /\ registrations \in 0 .. PurgeEvery - 1
    /\ moving \subseteq Records
    /\ recLock \in [Records -> Threads \cup {None}]
    /\ held \subseteq Records /\ sealed \subseteq Records
    /\ ram \in [Records -> Values \cup {None}]
    /\ disk \in [Records -> Cells \cup {None}]
    /\ \A t \in Threads : task[t].pc \in Pcs /\ resv[t] \in 0 .. RamCapacity

\* The budget counter is exactly what is alive: reservations, resident
\* records, packing buffers being written and rewrites being read back.  No
\* path, failed or not, leaks or returns a charge twice.
ChargeExact ==
    charged = Amount(resv, Threads)
            + Amount(Size, {r \in Records : ram[r] # None})
            + Amount([t \in Threads |-> Total(t)],
                     {t \in Threads : task[t].pc = "write" /\ Packed(t)})
            + Amount([t \in Threads |-> task[t].bytes],
                     {t \in Threads : task[t].pc \in {"read", "install"}})

\* Every extent of the file belongs to one cold record or to one destination
\* of a write in flight, with the size of the record: no path, failed or not,
\* leaks an extent or lets two records share one.
ExtentsExact ==
    LET Owned == {<<disk[r], Size[r], r>> : r \in {q \in Records : disk[q] # None}}
                 \cup UNION {{<<task[t].dests[i], Size[task[t].batch[i]], task[t].batch[i]>> :
                                i \in DOMAIN task[t].dests} :
                             t \in {s \in Threads : task[s].pc # "unwind"}}
    IN  (\A t \in Threads : task[t].pc # "unwind" \/ task[t].dests = <<>>) =>
            /\ {<<o[1], o[2]>> : o \in Owned} = {<<x.off, x.bytes>> : x \in UsedRanges}
            /\ Cardinality(Owned) = Cardinality(UsedRanges)

\* While a lease is out, the tier under it does not move: the pointer data()
\* returned stays valid and a read never straddles a relocation.
LeaseStable ==
    [][\A r \in Records : pins[r] > 0 /\ pins'[r] > 0 =>
            disk'[r] = disk[r] /\ (ram'[r] = None <=> ram[r] = None)]_vars

\* The catalog lists every resident record once and no cold one: a resident
\* record missing from it would never be evicted again, and a record listed
\* twice would be written to two extents.
CatalogExact ==
    \A r \in Records : Alive(r) =>
        Cardinality({i \in DOMAIN residents : residents[i] = r})
            = (IF ram[r] # None THEN 1 ELSE 0)

\* The bookkeeping of the two tiers is exact at every step of every path:
\* typing, the budget, extents and catalog together.
RecordsExact == TypeOK /\ ChargeExact /\ ExtentsExact /\ CatalogExact

\* The throw "KV batch staging exceeds RAM capacity" is unreachable: a batch
\* chosen by the scan always fits beside what is charged.
PackingFits ==
    \A t \in Threads :
        task[t].pc = "scan" /\ task[t].left = 0 /\ Packed(t) => Fits(Total(t), 0)

\* What a reader sees of a record.
Visible(r) ==
    IF r \in held \/ pins[r] > 0 \/ readers[r] > 0
    THEN IF ram[r] # None THEN ram[r]
         ELSE IF disk[r] # None THEN OnDisk(r) ELSE None
    ELSE None

\* Eviction, failed writes, reading back and destruction are invisible: the
\* tiers together behave as records that only their owner changes, and never
\* under a reader.
KV == INSTANCE KvRecords WITH value <- [r \in Records |-> Visible(r)],
                              users <- [r \in Records |-> pins[r] + readers[r]]
Implements == KV!Spec

\* Every thread that sleeps on relocation_finished is woken, and the catalog
\* lock, dropped, retaken and waited on inside one loop, always comes back.
Progress ==
    /\ \A t \in Threads : []<>(task[t].pc # "wait")
    /\ []<>(policy = None)

=============================================================================
