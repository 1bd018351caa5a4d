----------------------------- MODULE BlockTiers -----------------------------
(***************************************************************************)
(* The residency of a conversation's blocks (KvMemRuntime over KvMemStore, *)
(* PinnedKvTier and NvmeKvTier): blocks move between GPU slots, pinned     *)
(* host slots and NVMe slots under a plan that is prepared, spilled and    *)
(* admitted in three calls of one owner.  Both lower tiers evict their     *)
(* least recently used block, and a promoted block keeps its NVMe backing  *)
(* (the store's inclusive mode, the only one the product configures).      *)
(*                                                                         *)
(* The bytes of a block are the pair of its id and the version of its rows *)
(* they were copied from, so a copy that is old or another block's shows;  *)
(* version 0 is a block of which some rows were never written.  Slots are  *)
(* numbered from 1; 0 is the code's -1.                                    *)
(*                                                                         *)
(* A write to NVMe may fail after both tiers gave a slot away for it and   *)
(* before the store is told: the tables then name blocks that know nothing *)
(* of it, and go on naming them when the store is emptied and its ids are  *)
(* given to other blocks (an id past the end of the store is ignored by    *)
(* its setters).                                                           *)
(***************************************************************************)
EXTENDS Naturals, Sequences, FiniteSets

CONSTANTS
    MaxBlocks,   \* bound: blocks of the conversation
    BlockRows,   \* rows of a full block (block_tokens)
    GpuSlots, CpuSlots, NvmeSlots,
    MaxVersion,  \* bound: rewrites of rows on the GPU
    MaxFaults    \* bound: failing NVMe reads and writes

ASSUME TiersAssumption ==
    /\ {MaxBlocks, BlockRows, GpuSlots} \subseteq Nat \ {0}
    /\ {CpuSlots, NvmeSlots, MaxVersion, MaxFaults} \subseteq Nat

VARIABLES
    store,     \* KvMemStore::blocks_, with the version of the rows (ghost)
    gpu,       \* slot -> bytes it holds
    free,      \* the backend's free_slots_
    cpu, nvme, \* the two tiers: block -> slot, recency, bytes by slot
    plan,      \* native_plan_, the prefetched buffers and the queued frees
    phase,     \* how far the owner took the plan; pending_ is phase # "idle"
    version, faults,
    spoiled    \* ghost: the ids a failed write concerned

vars == <<store, gpu, free, cpu, nvme, plan, phase, version, faults, spoiled>>

NoBytes == <<0, 0>>
Torn(b) == <<b, 0>>
\* What a failed write leaves in its slot: a part of what it held, a part of
\* what it was to hold.
Mixed == <<MaxBlocks + 1, 0>>
Ids == 1 .. Len(store)
NoPlan == [in |-> {}, out |-> {}, selected |-> {}, prefetch |-> <<>>, frees |-> {}]
Tier(map, lru, bytes) == [map |-> map, lru |-> lru, bytes |-> bytes]
EmptyTier(n) == Tier(<<>>, <<>>, [i \in 1 .. n |-> NoBytes])

\* KvMemBlock: tier names the active copy; v, kept and older are ghosts (the
\* version of the rows, the bytes the block last left the GPU with, and whether
\* a read ahead of its NVMe backing passed over a newer pinned copy).
NewBlock(n, slot, v) ==
    [n |-> n, tier |-> "GPU", gpu |-> slot, cpu |-> 0, nvme |-> 0, clean |-> FALSE,
     v |-> v, kept |-> NoBytes, older |-> FALSE]

Init ==
    /\ store = <<>> /\ gpu = [i \in 1 .. GpuSlots |-> NoBytes] /\ free = 1 .. GpuSlots
    /\ cpu = EmptyTier(CpuSlots) /\ nvme = EmptyTier(NvmeSlots)
    /\ plan = NoPlan /\ phase = "idle" /\ version = 0 /\ faults = 0
    /\ spoiled = {}

\* The lowest of a set of block ids: plans are walked in ascending order.
First(S) == CHOOSE x \in S : \A y \in S : x <= y

-----------------------------------------------------------------------------
(***************************************************************************)
(* The slot tables of the two tiers.                                       *)
(***************************************************************************)
Used(t) == {t.map[b] : b \in DOMAIN t.map}
Vacant(t) == DOMAIN t.bytes \ Used(t)
Forget(f, S) == [x \in DOMAIN f \ S |-> f[x]]
Assign(f, b, s) == [x \in DOMAIN f \cup {b} |-> IF x = b THEN s ELSE f[x]]

\* What is left of a recency list without the blocks of S, in its order.
Without(s, S) ==
    LET upTo[i \in 0 .. Len(s)] == IF i = 0 THEN <<>>
                                   ELSE IF s[i] \in S THEN upTo[i - 1] ELSE Append(upTo[i - 1], s[i])
    IN  upTo[Len(s)]
Touched(t, b) == Tier(t.map, Append(Without(t.lru, {b}), b), t.bytes)
Written(t, s, x) == Tier(t.map, t.lru, [t.bytes EXCEPT ![s] = x])

\* place_block_evicting: the slot given, and the block displaced from it.  Which
\* of the vacant slots is given is never observed.
PlaceEvicting(t, b) ==
    IF b \in DOMAIN t.map THEN [tier |-> Touched(t, b), slot |-> t.map[b], victim |-> 0]
    ELSE IF Vacant(t) # {}
    THEN LET s == CHOOSE s \in Vacant(t) : TRUE IN
         [tier |-> Touched(Tier(Assign(t.map, b, s), t.lru, t.bytes), b), slot |-> s, victim |-> 0]
    ELSE IF t.lru = <<>> THEN [tier |-> t, slot |-> 0, victim |-> 0]
    ELSE LET w == Head(t.lru)
             s == t.map[w] IN
         [tier |-> Touched(Tier(Assign(Forget(t.map, {w}), b, s), Without(t.lru, {w}), t.bytes), b),
          slot |-> s, victim |-> w]

\* Mutant: a release that forgets to give the slots back.
ReleasedKeepsSlot(t, S) == Tier(t.map, Without(t.lru, S), t.bytes)

\* release_block of every block of S.
Released(t, S) == Tier(Forget(t.map, S), Without(t.lru, S), t.bytes)

-----------------------------------------------------------------------------
(***************************************************************************)
(* Stage-out.  "m" is the part of the state a spill changes.               *)
(***************************************************************************)
Parts(st, c, nv) == [store |-> st, cpu |-> c, nvme |-> nv]

\* set_block_ssd_backing: of the block a spill displaced, and of the spilled one.
Unbacked(st, b, w) ==
    [i \in DOMAIN st |-> IF i # b /\ i = w THEN [st[i] EXCEPT !.nvme = 0, !.clean = FALSE] ELSE st[i]]
Backed(st, b, slot) ==
    [i \in DOMAIN st |-> IF i = b THEN [st[i] EXCEPT !.nvme = slot, !.clean = TRUE] ELSE st[i]]

\* Mutant: a spill that takes a block's slot and writes nothing into it.
SpilledUnwritten(m, b, bytes) ==
    LET p == PlaceEvicting(m.nvme, b) IN
    IF p.slot = 0 THEN m
    ELSE Parts(Backed(Unbacked(m.store, b, p.victim), b, p.slot), m.cpu, p.tier)

\* spill_bytes_to_nvme: the displaced block loses its backing and keeps its tier.
SpilledToNvme(m, b, bytes) ==
    LET p == PlaceEvicting(m.nvme, b) IN
    IF p.slot = 0 THEN m
    ELSE Parts(Backed(Unbacked(m.store, b, p.victim), b, p.slot),
               m.cpu, Written(p.tier, p.slot, bytes))

\* The same when write_slot throws: the table has moved and the displaced block
\* was told, the spilled one was not; x is what the write left in the slot.
SpillBroken(m, b, x) ==
    LET p == PlaceEvicting(m.nvme, b) IN
    Parts(Unbacked(m.store, b, p.victim), m.cpu, Written(p.tier, p.slot, x))

\* Mutant: the displaced block is neither spilled nor told of the loss.
CpuVictimUntold(m, w, slot) == m

\* The tier of a block that lost its pinned copy.
TierLeft(x) == IF x.tier = "CPU" /\ x.nvme # 0 THEN "SSD" ELSE x.tier
Unpinned(st, w) ==
    [i \in DOMAIN st |-> IF i = w THEN [st[i] EXCEPT !.cpu = 0, !.tier = TierLeft(st[i])] ELSE st[i]]

\* The part of stage_out that moves a displaced CPU copy on to NVMe.
CpuVictimMoved(m, w, slot) ==
    LET s == SpilledToNvme(m, w, m.cpu.bytes[slot])
    IN  Parts(Unpinned(s.store, w), s.cpu, s.nvme)

\* stage_out with a pinned tier.  prevNvme is the slot read on entry: a victim's
\* spill may have given that slot away before it is written back.
StagedToCpu(m, b, bytes) ==
    LET prevNvme == m.store[b].nvme
        p == PlaceEvicting(m.cpu, b)
        s == IF p.victim = 0 THEN m ELSE CpuVictimMoved(m, p.victim, p.slot)
        back == IF prevNvme # 0 THEN prevNvme ELSE s.store[b].nvme
    IN Parts([s.store EXCEPT ![b] = [@ EXCEPT !.tier = "CPU", !.gpu = 0, !.cpu = p.slot,
                                              !.kept = bytes, !.nvme = back]],
             Written(p.tier, p.slot, bytes), s.nvme)

\* stage_out without one: straight to NVMe, or dropped when there is no tier.
StagedToNvme(m, b, bytes) ==
    LET s == SpilledToNvme(m, b, bytes)
        tier == IF NvmeSlots > 0 THEN "SSD" ELSE "CPU"
    IN Parts([s.store EXCEPT ![b] = [@ EXCEPT !.tier = tier, !.gpu = 0, !.cpu = 0, !.kept = bytes]],
             s.cpu, s.nvme)

-----------------------------------------------------------------------------
(***************************************************************************)
(* Rows come and go.                                                       *)
(***************************************************************************)
Room == IF store = <<>> THEN 0 ELSE BlockRows - store[Len(store)].n
AnyFree == CHOOSE s \in free : TRUE

Appending == phase \in {"idle", "stuck"} /\ version < MaxVersion /\ version' = version + 1

\* register_append with prepare_working_set's placement, one block at a time (a
\* batch over several blocks is several of these, and a batch that finds no slot
\* is undone by truncate_to): rows for the tail block.  A tail that is not on
\* the GPU gets a fresh slot, and its older rows are not copied into it.
AppendToTail(n) ==
    LET tail == Len(store)
        slot == IF store[tail].gpu # 0 THEN store[tail].gpu ELSE AnyFree
        whole == store[tail].gpu # 0 /\ gpu[slot] = <<tail, store[tail].v>>
        grown == [store[tail] EXCEPT !.n = @ + n, !.v = version + 1, !.gpu = slot, !.tier = "GPU"]
    IN /\ Appending /\ store # <<>> /\ n <= Room
       /\ store[tail].gpu = 0 => free # {}
       /\ store' = [store EXCEPT ![tail] = grown]
       /\ gpu' = [gpu EXCEPT ![slot] = IF whole THEN <<tail, version + 1>> ELSE Torn(tail)]
       /\ free' = free \ {slot}
       /\ UNCHANGED <<cpu, nvme, plan, phase, faults, spoiled>>

\* The first rows of a new block.
AppendBlock(n) ==
    LET slot == AnyFree IN
    /\ Appending /\ Room = 0 /\ Len(store) < MaxBlocks /\ free # {}
    /\ store' = Append(store, NewBlock(n, slot, version + 1))
    /\ gpu' = [gpu EXCEPT ![slot] = <<Len(store) + 1, version + 1>>]
    /\ free' = free \ {slot}
    /\ UNCHANGED <<cpu, nvme, plan, phase, faults, spoiled>>

\* write_block_to_gpu: the owner puts the rows of its packed mirror into the
\* slot of a resident block.
WritePacked(b) ==
    /\ phase = "idle" /\ b \in Ids /\ store[b].gpu # 0
    /\ gpu' = [gpu EXCEPT ![store[b].gpu] = <<b, store[b].v>>]
    /\ store' = [store EXCEPT ![b].older = FALSE]
    /\ UNCHANGED <<free, cpu, nvme, plan, phase, version, faults, spoiled>>

\* truncate_to, to cut rows of a block behind full blocks: blocks past the
\* position go with their slots; the block the position cuts keeps its copies
\* and its backing.
TruncateTo(full, cut) ==
    LET keep == full + (IF cut > 0 THEN 1 ELSE 0)
        gone == (keep + 1) .. Len(store)
    IN /\ phase \in {"idle", "stuck"}
       /\ full < Len(store) /\ cut < store[full + 1].n
       /\ store' = [i \in 1 .. keep |-> IF i = full + 1 THEN [store[i] EXCEPT !.n = cut] ELSE store[i]]
       /\ cpu' = Released(cpu, {b \in gone : store[b].cpu # 0})
       /\ nvme' = Released(nvme, {b \in gone : store[b].nvme # 0})
       /\ free' = free \cup ({store[b].gpu : b \in gone} \ {0})
       /\ plan' = [plan EXCEPT !.prefetch = <<>>]
       /\ UNCHANGED <<gpu, phase, version, faults, spoiled>>

-----------------------------------------------------------------------------
(***************************************************************************)
(* The plan: prepare, spill, admit.                                        *)
(***************************************************************************)
Resident == {b \in Ids : store[b].gpu # 0}
\* The NVMe backings start_prefetch reads ahead, whatever other copy there is.
Prefetched(in) == {b \in in : NvmeSlots > 0 /\ (store[b].nvme # 0 \/ store[b].tier = "SSD")}
\* The orders in which the reads of S may refresh their blocks.
Orders(S) == {f \in [1 .. Cardinality(S) -> S] :
                 {f[i] : i \in DOMAIN f} = S /\ \A i, j \in DOMAIN f : f[i] = f[j] => i = j}

\* prepare_native_selection: the delta between the residents and the selection,
\* and one asynchronous read for each incoming block with a backing.  A read
\* takes its slot from the tier's own table and refreshes the block's recency
\* there, in whatever order the reader threads run.
Prepare(selected) ==
    LET in == selected \ Resident
        reads == Prefetched(in)
        found == reads \cap DOMAIN nvme.map
    IN /\ phase = "idle"
       /\ plan' = [selected |-> selected, frees |-> {}, in |-> in, out |-> Resident \ selected,
                   prefetch |-> [b \in reads |->
                       IF b \in found THEN nvme.bytes[nvme.map[b]] ELSE NoBytes]]
       /\ \E order \in Orders(found) :
              nvme' = Tier(nvme.map, Without(nvme.lru, found) \o order, nvme.bytes)
       /\ store' = [b \in Ids |-> IF b \in reads /\ store[b].cpu # 0
                                  THEN [store[b] EXCEPT !.older = TRUE] ELSE store[b]]
       /\ phase' = "prepared"
       /\ UNCHANGED <<gpu, free, cpu, version, faults, spoiled>>

\* A read found no slot for its block: wait_prefetch throws out of
\* spill_outgoing and the plan stays pending.
ReadMissing == \E b \in DOMAIN plan.prefetch : b \notin DOMAIN nvme.map

\* spill_outgoing, up to its loop.
SpillOutgoing ==
    /\ phase = "prepared" /\ ~ReadMissing
    /\ phase' = "spilled"
    /\ UNCHANGED <<store, gpu, free, cpu, nvme, plan, version, faults, spoiled>>

SpillThrows ==
    /\ phase = "prepared"
    /\ \/ ReadMissing /\ UNCHANGED faults
       \/ plan.prefetch # <<>> /\ faults < MaxFaults /\ faults' = faults + 1
    /\ phase' = "stuck"
    /\ UNCHANGED <<store, gpu, free, cpu, nvme, plan, version, spoiled>>

\* stage_out of the next block of the plan.
StageOut ==
    /\ phase = "spilled" /\ plan.out # {}
    /\ LET b == First(plan.out)
           bytes == gpu[store[b].gpu]
           m == Parts(store, cpu, nvme)
           s == IF CpuSlots > 0 THEN StagedToCpu(m, b, bytes) ELSE StagedToNvme(m, b, bytes)
       IN /\ store' = s.store /\ cpu' = s.cpu /\ nvme' = s.nvme
          /\ plan' = [plan EXCEPT !.out = @ \ {b}, !.frees = @ \cup {store[b].gpu}]
    /\ UNCHANGED <<gpu, free, phase, version, faults, spoiled>>

\* stage_out of the next block throws out of spill_outgoing, in a write to NVMe.
\* Without a pinned tier the write is the block's own; with one it is that of the
\* copy the block displaces, and the pinned tier has given its slot to the block.
StageOutThrows ==
    /\ phase = "spilled" /\ plan.out # {} /\ NvmeSlots > 0 /\ faults < MaxFaults
    /\ LET b == First(plan.out)
           pinned == PlaceEvicting(cpu, b)
           moved == IF CpuSlots > 0 THEN pinned.victim ELSE b
           slot == PlaceEvicting(nvme, moved).slot
           m == Parts(store, IF CpuSlots > 0 THEN pinned.tier ELSE cpu, nvme)
       IN /\ moved # 0
          /\ \E x \in {nvme.bytes[slot], Mixed} :
                 LET s == SpillBroken(m, moved, x)
                 IN  store' = s.store /\ cpu' = s.cpu /\ nvme' = s.nvme
          /\ spoiled' = spoiled \cup {b, moved}
    /\ phase' = "stuck" /\ faults' = faults + 1
    /\ UNCHANGED <<gpu, free, plan, version>>

\* admit_incoming starts: the slots queued by stage_out join the pool.
FreedFirst ==
    /\ phase = "spilled" /\ plan.out = {} /\ plan.frees # {}
    /\ free' = free \cup plan.frees
    /\ plan' = [plan EXCEPT !.frees = {}]
    /\ UNCHANGED <<store, gpu, cpu, nvme, phase, version, faults, spoiled>>

Admitting == phase = "spilled" /\ plan.out = {} /\ plan.frees = {}

\* Where stage_in takes a block's bytes from: the prefetched buffer before the
\* pinned copy before a late NVMe read.  With none of them nothing is copied: the
\* rows are the owner's to write, from its packed mirror.
Source(b) ==
    IF b \in DOMAIN plan.prefetch THEN plan.prefetch[b]
    ELSE IF store[b].cpu # 0 THEN cpu.bytes[store[b].cpu]
    ELSE IF b \in DOMAIN nvme.map /\ (store[b].nvme # 0 \/ store[b].tier = "SSD")
    THEN nvme.bytes[nvme.map[b]]
    ELSE NoBytes
LateRead(b) ==
    /\ b \notin DOMAIN plan.prefetch /\ store[b].cpu = 0 /\ NvmeSlots > 0
    /\ store[b].nvme # 0 \/ store[b].tier = "SSD"

StageIn ==
    /\ Admitting /\ plan.in # {} /\ free # {}
    /\ LET b == First(plan.in)
           slot == AnyFree
           placed == [store[b] EXCEPT !.cpu = 0, !.tier = "GPU", !.gpu = slot]
       IN /\ LateRead(b) => b \in DOMAIN nvme.map
          /\ gpu' = [gpu EXCEPT ![slot] = Source(b)]
          /\ free' = free \ {slot}
          /\ cpu' = IF store[b].cpu # 0 THEN Released(cpu, {b}) ELSE cpu
          /\ nvme' = IF LateRead(b) THEN Touched(nvme, b) ELSE nvme
          /\ store' = [store EXCEPT ![b] = placed]
          /\ plan' = [plan EXCEPT !.in = @ \ {b}]
    /\ UNCHANGED <<phase, version, faults, spoiled>>

\* admit_incoming throws: the next block's late read fails, and the destination
\* slot is given back.  (A selection never exceeds the slot pool.)
AdmitThrows ==
    /\ Admitting /\ plan.in # {} /\ LateRead(First(plan.in))
    /\ \/ First(plan.in) \notin DOMAIN nvme.map /\ UNCHANGED faults
       \/ faults < MaxFaults /\ faults' = faults + 1
    /\ phase' = "stuck"
    /\ UNCHANGED <<store, gpu, free, cpu, nvme, plan, version, spoiled>>

\* The end of admit_incoming: commit_resident_selection wants the GPU blocks to
\* be exactly the selection (which then is the working set).
Admitted ==
    /\ Admitting /\ plan.in = {}
    /\ Resident = plan.selected
    /\ plan' = NoPlan /\ phase' = "idle"
    /\ UNCHANGED <<store, gpu, free, cpu, nvme, version, faults, spoiled>>

\* conv_reset_to_empty after a failed drain or attach: the plan is discarded,
\* the block table emptied and the whole slot pool rebuilt.
ResetToEmpty ==
    /\ phase = "stuck"
    /\ plan' = NoPlan /\ phase' = "idle" /\ store' = <<>> /\ free' = 1 .. GpuSlots
    /\ cpu' = Released(cpu, {b \in Ids : store[b].cpu # 0})
    /\ nvme' = Released(nvme, {b \in Ids : store[b].nvme # 0})
    /\ UNCHANGED <<gpu, version, faults, spoiled>>

\* What the owner selects: no more than the pool holds, and a non-empty
\* selection keeps an open tail.
Selections == {s \in SUBSET Ids : Cardinality(s) <= GpuSlots /\
                 (s # {} /\ store[Len(store)].n < BlockRows => Len(store) \in s)}
Next ==
    \/ \E n \in 1 .. BlockRows : AppendToTail(n) \/ AppendBlock(n)
    \/ \E b \in Ids : WritePacked(b)
    \/ \E full \in 0 .. MaxBlocks, cut \in 0 .. BlockRows : TruncateTo(full, cut)
    \/ \E s \in Selections : Prepare(s)
    \/ SpillOutgoing \/ SpillThrows \/ StageOut \/ StageOutThrows \/ FreedFirst
    \/ StageIn \/ AdmitThrows \/ Admitted
    \/ ResetToEmpty

Spec == Init /\ [][Next]_vars

-----------------------------------------------------------------------------
(***************************************************************************)
(* Properties.                                                             *)
(***************************************************************************)
Injective(f) == \A x, y \in DOMAIN f : f[x] = f[y] => x = y
Listed(s) == {s[i] : i \in DOMAIN s}

\* Every GPU slot is free, queued to be freed, or held by exactly one block; a
\* slot of either lower tier belongs to one id; and the tables say of each block
\* what the block says of itself.  A failed write may break the latter for the
\* ids it concerned and, whatever plans, truncations and displacements follow,
\* for no other: a slot is lost only to such an id.  And once the store has been
\* emptied behind it, whoever says he has a pinned copy has one again
\* (kvmem_runtime.cpp stage_out, stage_in, truncate_to).
SlotsExact ==
    LET pinned == {b \in Ids : store[b].cpu # 0} IN
    /\ \A b, c \in Resident : store[b].gpu = store[c].gpu => b = c
    /\ {store[b].gpu : b \in Resident} \cap (free \cup plan.frees) = {}
    /\ free \cap plan.frees = {}
    /\ {store[b].gpu : b \in Resident} \cup free \cup plan.frees = 1 .. GpuSlots
    /\ Injective(cpu.map) /\ Listed(cpu.lru) = DOMAIN cpu.map
    /\ Injective(nvme.map) /\ Listed(nvme.lru) = DOMAIN nvme.map
    /\ \A b \in pinned : b \notin spoiled \/ phase # "stuck" =>
           b \in DOMAIN cpu.map /\ cpu.map[b] = store[b].cpu
    /\ DOMAIN cpu.map \subseteq pinned \cup spoiled
    /\ \A b \in DOMAIN nvme.map \ spoiled : b \in Ids /\ store[b].nvme = nvme.map[b]

\* The active lower-tier copy of a block is what the block last left the GPU
\* with, through every displacement from one tier to the next, also past a
\* failed write of other blocks ("tier" in kvmem_store.hpp's KvMemBlock,
\* spill_bytes_to_nvme).
ActiveIsLast ==
    \A b \in Ids \ spoiled :
        /\ store[b].tier = "CPU" /\ store[b].cpu # 0 => cpu.bytes[store[b].cpu] = store[b].kept
        /\ store[b].tier = "SSD" /\ b \in DOMAIN nvme.map =>
               nvme.bytes[nvme.map[b]] = store[b].kept

\* A resident block's slot waits for the owner to write it or holds the newest
\* rows of that block, all of them unless rows were appended to it in a fresh
\* slot; older rows of it only if they were read ahead past a newer pinned copy,
\* and another block's only after a failed write that concerned its id
\* (start_prefetch, stage_out, stage_in).
ResidentBytes ==
    \A b \in Resident \ spoiled :
        LET held == gpu[store[b].gpu] IN
        held # NoBytes => held[1] = b /\ (store[b].older \/ held[2] \in {0, store[b].v})
=============================================================================
