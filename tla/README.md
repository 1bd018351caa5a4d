# Verification of the KVMem memory core

TLA+ models of the part of kvmem-llama.cpp that decides where key/value rows
are, who may touch them and when, the TLC runs that check them on small
instances, and the theorems TLAPS proves about them for every value of the
constants. Paths are relative to the repository root.

## The system

KVMem lets a llama.cpp context hold more tokens than fit on the device. Rows of
K and V are grouped in blocks; a working set of blocks is on the device, the
others are packed in host RAM or in a spill file. A server shares a few
execution lanes among many conversations, and keeps the ones not on a lane
parked in memory or in session files.

| Component | State | Operations | Talks to |
|---|---|---|---|
| Spill file (`kvmem/src/host/spill_io.cpp`) | address map of ranges, best-fit index, quota | reserve, release of an extent, read, write | host storage |
| Tiered host storage (`kvmem/src/host/host_kv_storage.cpp`) | RAM budget, catalog of resident records, tier locks, leases | reserve, allocate, write, seal, lease, source, rewrite, trim, eviction | spill file, every thread that keeps KV |
| Storage I/O queue (`spill_io.cpp`) | job queue, limits, tickets, completion epoch | submit, cancel, wait, wait_for_completion, destroy | worker threads, leases of records |
| Lane pool (`tools/kvmem-lane-pool.h`) | queue of tickets, busy lanes and their keys | enqueue, wait_turn, acquire, release | server request threads |
| Content ledger (`kvmem/src/host/kv_content.cpp`) | stamp, frontiers, block versions, prefix leases | reserve, complete, accept, truncate, reset, invalidate, publish | adapter, sessions |
| Working-set transaction (`kvmem/src/host/memory_contract.cpp`) | phase, plan, transfer | prepare, advance, publish, abort, disconnect | ledger, adapter backend |
| Llama adapter (`src/adapter/`) | device pages, capture pipe, packed rows, replay | snapshot, start_spill, start_restore, publish, harvest, set_replay, truncate, swap | everything above |
| Lane conversations (`tools/kvmem-lane-conversations.h`) | catalog of conversations, resident owner of each lane | pin, select, attach, finish, reserve_payload | lane pool, adapter |
| Raw KV store (`kvmem/src/host/raw_kv_store.cpp`) | packed layers of each block, means, flush thread | append, harvest, flush, truncate, clear | NVMe file |
| Runtime and tiers (`kvmem/src/host/kvmem_runtime.cpp`) | tier of every block, pinned and NVMe slots, prefetches | prepare, spill, admit, stage_out, stage_in, truncate | block store, device backend |
| Block selection (`kvmem_store.cpp`, `mean_key_retrieval.cpp`) | block scores, LRFU history | selection under a budget | runtime |
| Prefix checkpoints (`prefix_checkpoint.cpp`) | catalog of checkpoints | insert, best anchor, drop | driver |
| Conversation store and transfer (`tools/kvmem-conversation-store.h`, `kvmem-session-*.h`) | table of stores, session files | select, evict, save, restore | driver |
| Driver (`tools/llama-kvmem-driver.cpp`) | the turn, its rollback, the payloads parked beside the stores | begin request, prefill, query replay, generate, commit, roll back | adapter, stores |
| MTP follower (`llama-memory-kvmem-mtp.cpp`, under `tools/kvmem-spec.cpp`) | cells of the draft cache in the trunk's slots, its own packed rows, taint of a slot | fill from target, harvest, stage-out, layout, follow a retrieval, swap its mirror | adapter |

What is hard here: several threads over one RAM budget with I/O outside the
lock; a history that moves while a plan made from it is being carried out;
copies trusted by a version number; raw pointers and leases whose owner may
leave; a worker that adds captured rows to sums while the engine resets them;
failures of every write, read and allocation; request threads that disconnect
anywhere; a turn that may fail between any two calls after text, rows or
recurrent state moved.

What makes each component correct:

- *spill file*: ranges partition the file, both indexes and the quota agree, a
  request is refused only when no hole fits;
- *host storage*: to the engine it is a set of records that only their owner
  changes; the budget and the extents are exact on every path; nobody sleeps
  for ever;
- *I/O queue*: limits are exact, cancellation is final, a finished job has let
  go of its leases, no wake-up is lost, destruction drains;
- *lane pool*: one handler per lane, one turn per conversation, arrival order,
  no dangling ticket, no blocked queue;
- *ledger*: a version names bytes, a stamp names a history, an honoured lease
  names a prefix, nothing is certified before it is computed;
- *transaction*: no accepted row is lost, what is published is what was
  planned, an abort that promises the old view keeps it;
- *capture*: means, query sum and packed copies are those of the accepted rows;
- *raw store and tiers*: a block always has a current copy somewhere, a flush
  never writes rows that are being changed, every call returns;
- *slots and draft follower*: a slot has one block, a label is in the cell of its row
  and the row under it is that row in both caches; a view that was remembered or
  promised is there;
- *lane conversations*: a lane has one owner, a conversation one place, a turn
  starts on the rows of its history, the quota holds when a turn ends;
- *driver*: table, payloads, files and pool name each other's stores; a turn
  runs on its own text; a failed turn gives back the prefix it began from.

## Modules

| Module | Models | Correspondence |
|---|---|---|
| `SpillFile` | extents of one file | `ranges` is the address map, `freeRanges` the `(bytes, offset)` set; `Reserve` and `Release` are `SpillFile::reserve` and `SpillFileState::release` |
| `KvRecords` | what the host storage promises | abstract records with a value and users |
| `HostKvStorage` (`MCHostKvStorage`) | the tiered storage over `SpillFile` | one variable per field of `HostKvAccount`, `HostKvRecord`, `HostKvAllocation`; a thread is in one of three long operations (`task`), each step ends where the code releases or waits for a mutex or does I/O |
| `StorageIoQueue` (`MCStorageIoQueue`) | the queue, its workers and callers | a worker walks the statements of `Impl::run`; a caller polls, waits on a ticket or on the epoch |
| `LanePool` (`MCLanePool`) | the pool under the request handler of the server | a request goes new, turn, preparing, acquiring, running, ended; a ticket's destructor is `DropTicket` |
| `KvContent` | the ledger | one action per method; `rows` (a ghost of what the engine computed) and what every lease was granted for give the versions something to be right about |
| `KvContentHistory` | an observer that keeps descriptors, bytes and a stamp | |
| `MemorySession` | `MemorySession` over `KvContent`, with `NativeBackend` and `NativeTransfer` of the adapter, and the engine between two calls | `phase`, `plan` and `transfer` are the members; `device` and `host` hold the rows themselves, so a copy is judged by its bytes |
| `CapturePipe` | capture of K and Q, the harvest worker, the decode mean, packing, replay | one action per stretch of the engine thread between two waits; the worker's steps beside it |
| `DraftFollower` | the slots of the device, the trunk and the draft cache that follows it, under decodes, drafts, retrievals, exchanges and truncations | an action is one call of the engine; a cell has the row it is labelled with and the row whose K and V it holds; `look` and `kept` are what somebody remembers of the attention or was promised |
| `RawKvStore` | host mirror of one layer and its writer thread | `blocks`, `layers`, `queue`, the batch in flight and the NVMe slots; a caller that waits for a flush is `call` |
| `BlockTiers` | residency under a plan | `store` is `KvMemStore::blocks_`; the bytes of a slot are a block id and the version they were copied from |
| `LaneConversations` | the catalog under concurrent requests, over `StoreSwap` | one action per stretch under the catalog mutex; `older` is the order of `entry::used`, kept as a relation; `StoreSwap` lists every outcome of `swap_conv` |
| `StoreTable` | choice of a store, eviction order, checkpoints | pure operators |
| `DriverTurn` | one request on the attached conversation | one action per call that may fail; `rollback` is `mm_rollback` |
| `DriverStores` (`MCDriverStores`) | the conversations of one lane, in memory and with session files | EXTENDS `DriverTurn`: attach first, then the turn |
| `KvContentProofs`, `LanePoolProofs`, `StorageIoQueueProofs`, `MemorySessionProofs`, `RawKvStoreProofs`, `HostKvStorageProofs`, `BlockTiersProofs`, `LaneConversationsProofs` | theorems | see below |

`HostKvStorage` EXTENDS `SpillFile` (its reserve and release are steps of the
storage) and INSTANCEs `KvRecords` for the refinement; `MemorySession` and
`KvContentHistory` EXTEND `KvContent`, and so do their proofs: a step of the
transaction is a step of the ledger or leaves it alone, and what is proved of
the ledger is used there.

An operator beside a definition that no action uses ("Mutant: ..." or "A ... that
...") is a faulty variant of it: a run's property is violated when the variant
replaces the definition, which shows that the property can fail.

### Abstractions

- Sizes are cells: an extent of *n* bytes is *n* cells. Alignment and byte
  counters are left out. A record's content is one value written in each of its
  cells, so that a torn, foreign or stale extent reads as something else.
- A record is identified by its allocation object; the catalog's list of weak
  pointers is a sequence of records, and "expired" is "not alive".
- The account mutex and the file mutex protect single steps; the policy mutex
  and each record's tier mutex are variables because they are held across steps.
- In `MemorySession` the copies of a spill or of a restore are one step each,
  with any subset of them done when a transfer is cut off. Layout validation,
  checkpoint identity and the ranking of blocks are left out: the selected set is
  any set of accepted blocks that keeps the sink of a conversation with a view
  (an image group may crowd out the newest block, `constrain_media`; an attach
  restages whatever was resident).
- In `RawKvStore` a row is the number of the write that produced it; in
  `CapturePipe` the number of the decode call; in `DriverTurn` a token and the
  turn that evaluated it. A wrong, old or doubly counted row shows as such.
- In `DraftFollower` a transaction of `MemorySession` is one step that succeeds or
  empties the conversation; whether pressure arises is a choice; the draft mirror
  is always there; rows are text rows on one device. What an unlabelled cell
  holds counts as stale.
- In `BlockTiers` a failed write leaves its slot as it was or mixed (`Mixed`); a
  failed read changes nothing but the plan. `spoiled` collects the ids a failed
  write concerned: the victim whose copy was to move and the block that took its
  slot. The store is emptied (`conv_reset_to_empty`) or truncated behind it, and
  the ids come back with other rows while the tables may still name the old ones.
- `StoreSwap` abstracts a store to the history its rows belong to. In
  `LaneConversations` a failing turn restores, clears, or clears the tokens alone
  (the rollback may throw in between); a step that follows a handover whose
  `switching` mark was taken away (see Findings) works on dangling references in
  the code and is not modelled. `llama_driver_clear` throws in the flush it begins
  with, when nothing has changed, or at its end (`llama-kvmem-driver.cpp:657-690`):
  the clears of an attach, of its repair and of a quota victim
  (`FinishThrows`) therefore happen or do not, and so does the clear before a
  prefill in `DriverTurn`.
- In `CapturePipe` a refused staging allocation lets the engine read the tensors
  before the graph is awaited (`Refused`, `early`); a device error between the copies of
  a submission (`llama-memory-kvmem.cpp:3217-3254`), which leaves the positions of
  a micro-batch already popped for the reader that follows (line 3361), is left out.
- In `DraftFollower` an append under pressure may happen whenever the working set
  leaves room; the code forbids it in turns that keep a selection, so the model
  allows more of it.
- `Max...` constants bound counters so that TLC ends; every one is marked
  "bound" where it is declared. In the proofs they are any numbers.

## Runs

| Run | Question | Bounds and why they are enough |
|---|---|---|
| `HostPacking` | Do budget, extents, catalog and leases stay exact, and does the storage implement `KvRecords`, with two threads packing two records into one write and every write and read failing? | 4 cells of RAM (the packing headroom exists), 2 of disk, one lease and one source per record: a batch of two, a rewrite against an eviction and a reader against both |
| `HostLive` | Does the staging buffer of a packed write fit, is every waiter woken and the catalog lock given back? | two records of different sizes that a batch packs when the headroom is whole (6 cells of RAM, batches of 3) and must not pack when the other thread holds a part of it; demands and trims that need the other thread's record |
| `IoQueue` | Exact limits and outcomes, no lost wake-up, a destructor that drains and joins | three jobs, one as large as the byte limit; two workers, one caller that polls and sleeps |
| `LanePool` | Exclusive lanes, kept turns, arrival order, live tickets, progress | two requests of one conversation and one of none that only one of the two lanes suits; each may disconnect, be rejected and prepare again |
| `Session` | Does a transaction publish what it planned and lose nothing, whatever the engine does between two calls? | three blocks of two rows on two pages and two host records: every selection evicts; open tails, blocks left out and truncated inside, replays from inside a block |
| `SessionGap` | Does every block on the device hold all its accepted rows? (violated, see Findings) | the same |
| `RawStore` | Are rows and means the last ones written, does a flush exclude the owner's changes, does every call return? | two blocks of two tokens, two NVMe slots, one fault; all three families of writers |
| `BlockTiers` | Does a slot have one owner, and every block a current copy where the table says? | four blocks, one slot in each lower tier, two on the device: every admission evicts twice, and a displaced block's NVMe backing is displaced in turn; one read or write of NVMe fails, and what it left behind meets a truncated or emptied store |
| `Lanes` | Catalog flags, claims, the rows a turn starts on, the quota | two lanes, two requests, two histories, one client id, both kinds of limit, failed swaps, repairs and clears, one handler that gives up |
| `Driver` | Table, payloads, rollback, replay and caps over memory and session files | prompts of at most three rows, three turns, two stores, one failure anywhere |
| `Follower` | Are slots, labels, contents and packed rows of the trunk and of the draft cache those of the history; is a remembered view still there; does a turn that keeps its selection find its slots beside a complete view? | two slots, five rows in blocks of two, decodes and drafts of up to two rows: three blocks for two slots, an open tail, every truncation, blocks that come back in the trunk only |
| `Capture` | Are means, query sum and packed copies those of the accepted rows, and does the worker give every slot back? | five rows in blocks of two, micro-batches of two, four decode calls in two turns, one refused allocation |

Deadlock is checked for `HostPacking` and `HostLive`, whose systems never stop.
The others may stop: every job submitted, every request ended, or a bound
reached.

### Properties worth reading

- `Implements` (`HostKvStorage`): through evictions, failed writes, torn writes,
  cold rewrites and destruction, what a reader sees of a record changes only by
  its owner's write and never while somebody reads. It covers the case where a
  reader arrives between the first and the second test of `writable_data`.
- `PackingFits` (proved): the scan of `evict_batch` reads the headroom once and charges
  later; the charge cannot fail because the policy mutex is held in between and
  only releases can touch the account, apart from charges that keep the headroom.
- `RefusedOnlyWhenFull`: coalescing and best fit are complete, not only sound.
- `NamesHistory`, `PrefixKept` (proved; the ledger's methods run in `Session`): the revisions of the ledger are never reused for
  other bytes, although truncation and replay shorten and rewrite a block under
  the same number.
- `HistoryKept`: in the middle of a transfer every accepted block is complete
  and current on the device or on the host. The exception it makes, `Gap`, is the
  cold tail of the finding below; a replay from inside such a block drops its
  packed rows before it computes them again, so nothing more is true of it.
- `PlanKept`: between `prepare` and `publish` the engine may do anything; if the
  plan is still accepted, its rows are the planned ones, what it spills fits in
  the host budget and the pages for reserved rows are free.
- `CellsExact` (`DraftFollower`): the trunk tests the first cell of a slot before it
  copies, the follower its own first cell, its own packed rows and a taint; a
  layout moves the cells of both, a pressure plan restores the trunk alone. What
  is labelled is nevertheless the row it is labelled with.
- `PromiseHolds`: after `can_append` said yes no later row of the turn is refused,
  and `commit_resident` does not throw (`llama-kvmem-driver.cpp:1391`).
- `MeansExact` (`CapturePipe`): a row reaches its block's mean by the prefill
  capture, the decode mean or an accepted draft, and by one of them only.
- `QueryExact` (`CapturePipe`): every evaluated row of this request's query is in the
  sum, exactly once, whether the prefill, the replay or both evaluated it and
  whatever the worker had in hand when the request began. Not counted is a row
  alone in its micro-batch, for which no Q is captured; a reuse of a graph with
  another capture and a refused allocation are excepted (`strayed`, see Findings).
- `ArrivalOrder` (`LanePool`, proved): a request is sent back to prepare its input and
  comes again, others disconnect from the middle of the queue, and yet nobody who
  waits for a lane is overtaken on a lane that suits him by a later arrival.
- `SlotsExact`, `ActiveIsLast`, `ResidentBytes` (`BlockTiers`, proved): after a failed
  write the tables name blocks that know nothing of it (see Findings). The
  properties say how far the damage goes: to the ids of that write (`spoiled`),
  never to a GPU slot, to another block or to its bytes, however the ids are
  given out again.
- `FlushExcludesMutation` (`RawKvStore`): a batch being written holds pointers
  into buffers; no step of the owner changes those rows meanwhile.
- `OwnersExact`, `RowsBacked` (`LaneConversations`): after any outcome of a swap,
  of its repair and of an abandoned turn, flags and places of the catalog agree;
  a parked history has its rows, and a lane never spells one history over the
  rows of another.
- `QuotaAfterFinish` (`LaneConversations`): `enforce_sessions` may not clear a lane
  whose mutex is taken, and yet ends within the limit, unless the clear of a victim
  throws.
- `AbortKeepsPrefix`, `OnOwnText`, `PayloadsBacked` (`DriverStores`): a turn that
  fails restores text, rows and recurrent state together, or gives all up.
- `Progress`, `QueueDrains`, `TransactionEnds`, `CallsReturn`, `Harvested`: the
  liveness that the condition variables are there for.

### Fairness

- `HostLive`: a thread inside the storage keeps running (weak fairness of its
  steps), and a mutex is not refused to the same thread for ever (strong fairness
  of the acquiring steps). Nothing makes a caller call.
- `IoQueue`: workers and callers inside a call keep running. Submission,
  cancellation and destruction are free; the timeout of `wait_for_completion` is
  left out so that the wake-up alone must be enough.
- `LanePool`: handlers keep running, preparations and generations end. The wait
  of the pool is a loop over a timed wait, so no notification is assumed.
- `Session`: `run_native_transaction` calls `advance` until the session is ready
  or throws and then publishes, and copies end. Nothing is assumed of the engine.
- `RawStore`: the writer thread and a caller inside a call keep running.

The action properties of the other runs need none.

## Theorems

For every value of the constants, checked by TLAPS. Each module proves an
inductive invariant and then the properties of the runs from it; where the
property is an action property, from the invariant before the step.

- `HostKvStorageProofs`, the file (`DiskInv`). Typing alone is not inductive, nor is
  disjointness: `release` merges by address and needs the ranges disjoint;
  `reserve` picks an index entry and needs the index in sync with the map; the
  quota needs the merged cells counted (`SameRange`, `CellsOfRange`,
  `MergedRange`); coalescing needs the neighbours to be the only ones. The
  invariant is their conjunction, kept by `ReserveStep` and `ReleaseStep`. From it
  `RefusalExact`: a hole of *n* cells lies in one free range, because adjacent
  free ranges are merged, so the index finds it. Assumed: a file of at least one
  cell.
- `KvContentProofs`. `ContentInv` is typing and the order of the frontiers
  (accepted rows are evaluated, evaluated rows are reserved, versions cover the
  reserved blocks), one lemma per method over facts of integer division;
  `Certified` follows. `LeasesNamePrefixes` adds `LeaseInv`: what a valid lease was
  granted for is accepted and unchanged, because every step that shortens or
  rewrites it ends the lease or the stamp's generation.
- `KvContentProofs`, the history. What an observer kept stays true: `Preserves` says of
  one step that a block whose version it leaves alone has the same bytes, and
  that a version shown once is never shown again for others; `KeptInv` carries
  it over all later steps.
- `LanePoolProofs`. `PoolInv` is the types, `LanesHeld` (busy lanes and handlers in
  bijection, keys those of the handler), `QueueExact` (the queue holds the
  waiting tickets once each) and `OldestOnly` (who prepares or runs is the oldest
  of its conversation). Removal from the middle of the queue keeps the order of
  the rest (`SelectSeq` facts proved as lemmas). `ArrivalsOK`, on top of it, says that
  the queue is in the order of arrival (`earlier`) and that who waits for a lane is
  ready; `AdmittedInOrder` follows: whoever the scan of `acquire` finds first has no
  admissible request before it, and who is no longer in the queue has left.
- `StorageIoQueueProofs`. `QueueInv`: `WorkersHold` (a job is in the hands of one
  worker), `QueuedOnce`, `Stages` (status against place), `Outcomes`, and
  `LimitsExact`, counters against the cells pinned by the jobs held. A sum over
  jobs is taken as the cardinality of a set of cells, `Pinned`, so that it can
  be reasoned about without induction.
- `MemorySessionProofs`. `SessionInv` is `ContentInv` with
  `CopiesTrue` (a page has a cell for each completed row of its block, holding
  that row or nothing; a packed copy is a prefix of the completed rows; a block
  without a page is wholly packed), `ReplaySafe` (rows due for replay lie beyond
  what packed copies are trusted for), `ViewOnDevice`, `PlanSafe` and
  `PlanCurrent` (what the plan recorded is still so while its stamp is accepted;
  once the history moved the stamp is not). A step of the engine is a step of the
  ledger, so the proofs reuse what the ledger's lemmas say of versions. From it:
  `TransfersAreExact`, `NoRowIsLost`, `ViewStaysComplete`, `PlansAreKept`.
- `RawKvStoreProofs`. `StoreInv` joins `QueueSafe` (queue and batch together hold
  each marked part once, marked parts are in RAM and placed, the slab is a copy of
  the batch, a thread that ended left nothing), `RowsSafe`, `MeansSafe`, `OpSafe`
  (a write that continues has full blocks behind it and stands where the claimed
  rows end) and `SavedSafe` (a checkpoint is the mean of the first rows of a block
  that has not been cut below them). `RowsCurrent` alone is not inductive: a write
  that starts in the middle of a block keeps the rows below it only because they
  are claimed. Positions are compared as block and offset by a few lemmas of
  integer division; one call of `Flush` is one lemma (`FlushIs`), one block of a write
  is taken apart in `ChunkIs`, `ChunkBlocks` and `ChunkTruth`. From it:
  `RowsAreCurrent`, `MeansAreExact`, `FlushExcludes`. Assumed besides the sizes:
  the mark for absent rows is no array of rows.
- `HostKvStorageProofs`, the tiers (`HostInv`). The refinement of `KvRecords` by the two tiers, for any
  number of threads. Neither the refinement nor `LeaseStable` is inductive: an
  eviction picks its batch under the catalog lock, gives that lock up for the
  writes and publishes later, and only the tier locks it keeps say that the
  records are still the ones it wrote. `HostInv` therefore says of each thread
  where in its operation it may be (`Phased`), which locks it holds there
  (`LocksSafe`), and what it relies on between two of them (`TaskSafe`: the records
  of a batch are sealed and resident, each destination is an extent of the size
  of its record, a destination already written is filled with the content still
  in RAM, the record of a rewrite is held and cold and what was read back is what
  is on disk); of each record, that it is in exactly one tier while alive and
  that its extent is whole and of one content (`RecordSafe`); and that no extent
  has two owners (`Apart`). `Frame` says once what a step of one thread must leave
  alone for all others to keep what they rely on (`OthersKept`); each action then
  has a lemma `<Action>Step` that shows `Sound`: the invariant afterwards, a step of
  the abstract records or none, leases held. Steps of the file use the lemmas
  of the file through `ReserveSpares` and `FreeSpares`. From it:
  `TiersImplementRecords`, `LeasesAreStable`, `FileStaysExact`. The catalog is left
  open in this invariant except for its type: nothing a caller sees depends on
  its order. `Kept`, the entries of a catalog that stay, is written as a
  recursive function so that the type of what it returns can be proved
  (`KeptSteps`, `KeptTyped`, by a least counterexample).
- `HostKvStorageProofs`, the books (`BudgetInv`, on top of `HostInv`). What
  `RecordsExact` says of the charge, the extents and the catalog, and
  `PackingFits`, are about other threads as much as about the one that steps:
  `Budgeted` says that the room a scan read at its start is still there
  (`charged + room <= RamCapacity`) while only the holder of the catalog lock may
  charge, that a call of reserve holds no reservation yet and that a rewrite
  charges the size of its record; `NoLeak` that each used extent is a cold record's
  or a destination's; `Catalogued` that the catalog repeats nothing and lists the
  resident records among the living. `Stake` is what one thread has charged.
  `Calm` steps move no record between tiers and leave the catalog (`CalmBooks`);
  `BooksClose` is for the steps where residence, stakes and charge move together
  (allocation, publishing, installing, destruction). Each action has a
  lemma `<Action>Books`. A sum is taken as a number of cells counted one by one
  (`Amount`, the cardinality of a union), so that it splits and moves by the facts
  on finite sets without induction (`AmountSplit`, `AmountMove`). Assumed
  besides the sizes: finitely many threads and records. From it:
  `BooksAreExact`, `BatchesFit`.
- `BlockTiersProofs` (`TiersInv`). None of the three properties is inductive. A
  block may still name an NVMe slot that another block's spill took in the same
  `stage_out` (`prev_nvme`), so `Backings` speaks from the table's side: a slot the
  table gives to a block is the slot the block names, with its bytes. `Marked`
  ties the tier of a block to its slots (`SSD` only after a backing and without a
  pinned copy), `Pins` and `Named` the pinned table to the blocks both ways, `GpuOK` counts
  each GPU slot once among free, queued and held, and `PlanOK` keeps a plan
  about blocks that exist: what `stage_in` reads from the prefetch buffer was
  read for that block. `Belongs` and `Current` say whose bytes and how new. Each
  part is stated for the ids outside `spoiled`: a failed write moves tables that the
  blocks are not told of (`SpillBroken`), and what is left must be shown to stay
  harmless to every other id while slots, truncations and the emptying of the
  store follow; `Named` alone comes back for all ids once the store is emptied. A
  spill is taken apart by table (`PlaceIs`, `TouchedOK`, `ReleasedIs`), then by step
  (`SpillIs`, `VictimIs`, `DisplacedIs`, `StagedToCpuIs`, `StagedToNvmeIs`), each
  lemma for any state parts, so that the two spills of one `stage_out` use the same
  one; `Promoted` and `GpuTaken` do the same for the way up. `Without`, a list
  without some blocks, is a recursive function; `WithoutFacts` proves by a least
  counterexample that it keeps exactly the others, once each. From it:
  `SlotsAreExact`, `ActiveCopyIsLast`, `ResidentsHoldTheirOwn`.

- `LaneConversationsProofs` (`IInv`). `PhasesExact` says of each request how its
  operation record stands at each point of its handler (its lane, its entry, the
  outgoing one, whether they differ). While every handover keeps its mark
  (`HandoverProtected`), `LanesOwned`, `ClaimsExact` and `OrderExact` are the parts
  of `OwnersExact`; `HandsExact` says what the two entries of a swap have to do
  with the lane in the middle of it, and `CommittedHeld` what an idle entry is
  believed to hold. `SameHistory` and `KeysUnique` (with `KeysClaimed`: two requests
  of one client id are never on lanes together) need no marks. `QuotaAfterFinish` is
  not inductive: a finish could face entries it may not evict. `QuotaHeld` says
  that the entries it may be denied (not busy, with a history, on a lane or
  switching) fit the limit by themselves: an entry joins them by a finish only,
  which ends within the limit, or by one whose clear throws, which adds none
  (`FinishThrowsFacts`: the handler forgets what the turn settled); from it `QuotaRoom` finds
  the victims the loop needs, and `OldestCount` (the *n* oldest of at least *n*
  entries of an order are *n*) says that evicting the excess leaves the limit. Each
  action has a lemma. From it: `OwnersTheorem`, `RowsTheorem`, `QuotaTheorem`, and
  `VictimsTheorem`: the `logic_error` of `enforce_sessions`
  (`kvmem-lane-conversations.h:483`) is never thrown. Ages are an order
  between entries instead of a counter, so that "the oldest" needs no sorting and
  the proof no recursion. Assumed: lanes are 1..*n*, no more than the entries and
  the total limit allow.

Assumptions are the named ASSUMEs of the modules: block sizes, capacities and
bounds are natural numbers, positive where the code requires it. Nothing else is
taken without proof.

Only model-checked, and why:

- liveness (`Progress`, `QueueDrains`, `TransactionEnds`, `CallsReturn`,
  `Harvested`, the fairness conjuncts): beyond the prover, with ENABLED;
- the means of `CapturePipe`: folds with an operator parameter decide the
  contents of bags;
- `DriverStores`: sorting by LRU order (`SetToSortSeq`, `CHOOSE` over permutations)
  is inside its actions;
- `CellsExact`, `ViewKept`, `PromiseHolds` of `DraftFollower`: their arguments go
  through choices of slots for sets of blocks and have not been written down.

## Findings

- `SessionGap`: a block that a retrieval or a pressure pick left out is truncated
  inside and appended to. `prepare_working_set` (`llama-memory-kvmem.cpp:2420`)
  gives the open tail a fresh page without restoring the rows it already has,
  and from then on every transaction of the conversation fails in
  `NativeBackend::snapshot` (line 5721, "resident KV has a position/coverage
  gap"); under pressure `NativeBackend::prepare` refuses the plan instead (line
  5837, "append requires a resident partial tail"). A selection whose sink and
  last image group fill the budget drops the tail without a truncation
  (`llama-kvmem-driver.cpp:1420-1430`). `HistoryKept` and `ViewComplete` therefore
  except such blocks; a replay from inside one drops its packed rows as well, and
  `harvest_gpu_v` looks at a page's first cell only (near line 3690).

Seen while modelling, without a run of their own:

- `~RawKvStore` (`raw_kv_store.cpp:146`) sets `stop_io_` and notifies without the
  mutex; a writer that has just tested the flag sleeps behind the notification
  and the join never returns, although `raw_kv_store.hpp:160` says that clear and
  destruction drain the worker. `CallsReturn` names this one order as its
  exception.
- `kvmem-lane-conversations.h:287`: `finish` clears the outgoing entry's flag even
  when another lane has taken that entry since the attach (comment at 202-203),
  and `at()` throws when it was erased.
- When a store arrives without its rows and its repair (`llama_driver_clear`,
  `kvmem-lane-conversations.h:181`) throws, the lane keeps the incoming
  `cached_tokens` over an emptied table. A later request that takes this lane for
  another entry and leaves before its attach (`llama-kvmem-server.cpp:1978`) lets
  `finish` (line 267) publish these tokens as what the lane's entry holds, although
  docs/multi-lane-conversations.md promises to "commit a usable prefix or clear a
  failed restore into a cache miss". The `stored >= lcp` test of the prefill and the
  checks of a multimodal restore find it out, so that rows are evaluated again;
  `RowsBacked` therefore speaks of tokens for an entry on its lane, and of rows
  only that they are not another history's.
- A write to NVMe that fails (`kvmem_runtime.cpp:244`) throws after
  `place_block_evicting` of both tiers. The pinned table then names a block whose
  `cpu_slot` is unset and the NVMe table one whose `nvme_slot` is; the displaced
  block still says it has a pinned copy. `truncate_to` and `conv_reset_to_empty`
  release only what the blocks claim (lines 98-104), so that the slots of those ids
  stay taken until the same ids are staged out again; and with a smaller store the
  leaked id is past the end of `store_.blocks()` when it is displaced (line 303; the
  setters beside it test the id, this read does not). The model ignores what
  that read returns, as the setter after it does. `SlotsExact` and its
  neighbours except exactly these ids.
- `start_prefetch` reads the NVMe backing of a block ahead although its active copy is
  a newer pinned one, and `stage_in` prefers what was read (`kvmem_runtime.cpp:347`),
  while `kvmem_store.hpp:49` says of a clean slot that it "contains the current spill
  bytes". The owner writes the rows again from its packed mirror. `ResidentBytes`
  excepts such blocks (`older`), so that it does not speak for that line.
- `harvest_pending_impl` reads the tensors of a graph before it awaits it when the
  staging allocation is refused (`llama-memory-kvmem.cpp:3360-3368`): the rows then
  added to a mean or to the query sum may be those of the graph before.
- `kvmem_runtime.cpp:287` may drop an NVMe backing that the comment near
  `kvmem_store.hpp:43` says a promoted block keeps.
- The legacy text path of `llama_driver_finish` (`llama-kvmem-driver.cpp:1113`)
  leaves without the rollback the default path does.
- A block that a pressure plan restored is in the trunk only; the history may then
  be cut inside it and appended to. Its first draft cell stays unlabelled and its
  packed draft rows are fewer than its rows: `follow_retrieval` asks for one packed
  row, `write_block_to_gpu` of the follower labels all cells and copies none
  (`llama-memory-kvmem-mtp.cpp:561`), so that the draft layer attends to what the
  slot held, although the comment at `llama-memory-kvmem-mtp.h:162` rules that out.
  The target verifies every draft, so only their acceptance suffers. `CellsExact`
  says nothing of the contents of such blocks (`torn`).
- `capture_can_reuse` (`llama-memory-kvmem.cpp:2653`) ignores whether the graph
  has the K capture unless a decode mean is wanted; one-row prefill micro-batches
  are never captured although `mean_tokens` counts them; the text path truncates
  inside a block without restoring the mean; after a refused staging allocation
  the engine shares its position counter with the worker.

## Not modelled, and the plan

1. Block selection policy: scores, mandatory blocks and the LRFU history
   under a budget, against a reference definition.
2. NVMe tier details (`nvme_kv_tier.hpp`: overlay and read-only files) and the
   exclusive mode of the store.
3. The chunks of session files with a crash between two steps
   (`kvmem-session-*.h`).
4. Media rows in the follower, a conversation without a draft mirror, the legacy
   text path.
5. Copies between several devices.

Left out for good: device copies and kernels, numerics (rope, quantisation),
parsing, chat formatting, streaming and the web interface, vendored patches and
build scripts. They keep no state the properties are about. The RAM-only mode of
the host storage takes no lock and shares nothing.
