---------------------------- MODULE DraftFollower ----------------------------
(***************************************************************************)
(* The slots of the device and the two caches that live in them: the trunk *)
(* (src/adapter/llama-memory-kvmem.cpp) and the cache of the multi-token   *)
(* prediction head that follows it (llama-memory-kvmem-mtp.cpp), under the *)
(* speculative loop (tools/kvmem-spec.cpp).                                *)
(*                                                                         *)
(* The follower has no slots of its own.  It labels the cells of the slots *)
(* the trunk gave to a block, keeps its own packed copies on the host, and *)
(* is told of every stage-out, layout, retrieval and exchange; a pressure  *)
(* plan restores the trunk alone.  Whoever remembers a view of the         *)
(* attention trusts it while the attention epoch stands still.             *)
(*                                                                         *)
(* All of it runs on the engine thread: an action is one call of the       *)
(* engine, with the transaction of MemorySession inside it.  A transfer    *)
(* that fails half way empties the conversation, which is Reset.           *)
(***************************************************************************)
EXTENDS Integers, Sequences, FiniteSets, SequencesExt

CONSTANTS
    BlockTokens,    \* rows of a block
    Slots,          \* n_slots_
    MaxRows,        \* bound on the rows of the conversation
    MaxDraft        \* bound on the rows of a decode

ASSUME FollowerAssumption ==
    /\ BlockTokens \in Nat \ {0} /\ Slots \in Nat \ {0} /\ MaxRows \in Nat \ {0}
    /\ MaxDraft \in 1 .. BlockTokens

VARIABLES
    pool,   \* what the engine holds of the attached conversation, see Empty
    look,   \* the attention view someone remembers, while its epoch is current
    kept    \* the rows the engine was promised to decode without a retrieval

vars == <<pool, look, kept>>

Cache == {"trunk", "draft"}
SlotIds == 0 .. Slots - 1
Offsets == 0 .. BlockTokens - 1
Rows == 0 .. MaxRows - 1
Blocks == 0 .. (MaxRows - 1) \div BlockTokens
NoSlot == -1
NoRow == -1
NoLook == [blocks |-> {}]

\* Nothing is promised.  A promise is for the rows from .. end - 1, and for resident
\* blocks in the order of the history if it is canonical.
NoPromise == [from |-> 0, end |-> 0, canonical |-> FALSE]

\* The K and V of a row no longer in the history, or of another conversation.
\* Otherwise they are named by the row they were computed for.
Stale == -1

\* A cell without a label.  It holds whatever was in it, which nobody may count on.
Blank == [row |-> NoRow, kv |-> Stale]

First(b) == b * BlockTokens
BlockOf(row) == row \div BlockTokens

\* n_tokens of a block when n rows are counted.
Tokens(b, n) == IF n <= First(b) THEN 0 ELSE IF n - First(b) < BlockTokens THEN n - First(b) ELSE BlockTokens

RowsOf(b, n) == First(b) .. First(b) + Tokens(b, n) - 1
Catalog(p) == {b \in Blocks : First(b) < p.rows}
Resident(p) == {b \in Blocks : p.slot[b] # NoSlot}

\* Position of b among the blocks of S, from 0, and S in that order.
Rank(S, b) == Cardinality({i \in S : i < b})
InOrder(S) == SetToSortSeq(S, <)

\* reset_slots: the lowest slot not below k is handed out first.
AllFree(k) == [i \in 1 .. Slots - k |-> Slots - i]

Empty(tainted) ==
    [rows |-> 0,                                    \* total_tokens
     slot |-> [b \in Blocks |-> NoSlot],            \* gpu_slot
     free |-> AllFree(0),                           \* free_slots_; the last is next
     cell |-> [c \in Cache |-> [s \in SlotIds |-> [o \in Offsets |-> Blank]]],
     packed |-> [c \in Cache |-> [b \in Blocks |-> <<>>]],  \* packed rows on the host
     tainted |-> tainted,                           \* slot_tainted_
     torn |-> {},       \* blocks appended to while the follower had no rows of theirs
     moved |-> FALSE]   \* ++attention_epoch_ since the call began

Init == pool = Empty({}) /\ look = NoLook /\ kept = NoPromise

-----------------------------------------------------------------------------
(* Cells and copies                                                         *)

Moved(p) == [p EXCEPT !.moved = TRUE]

\* gpu_kv_already_resident and slot_holds look at the first cell only.
Starts(p, c, b) == p.slot[b] # NoSlot /\ p.cell[c][p.slot[b]][0].row = First(b)

\* gpu_kv_complete and native_cells_complete: the rows of b among the first n.
Complete(p, c, b, n) ==
    p.slot[b] # NoSlot /\ \A r \in RowsOf(b, n) : p.cell[c][p.slot[b]][r - First(b)].row = r

Used(p, c) == {<<s, o>> \in SlotIds \X Offsets : p.cell[c][s][o].row # NoRow}

\* seq_rm_logical on the caches of cs.
Unlabelled(p, cs, gone) ==
    [p EXCEPT !.cell = [c \in Cache |-> [s \in SlotIds |-> [o \in Offsets |->
        IF c \in cs /\ p.cell[c][s][o].row \in gone THEN Blank
        ELSE p.cell[c][s][o]]]]]

\* Rows from n on have no K and V any more, wherever a copy of them is left.
Outdated(p, n) ==
    LET now(kv) == IF kv >= n THEN Stale ELSE kv
    IN  [p EXCEPT
            !.cell = [c \in Cache |-> [s \in SlotIds |-> [o \in Offsets |->
                [p.cell[c][s][o] EXCEPT !.kv = now(@)]]]],
            !.packed = [c \in Cache |-> [b \in Blocks |->
                [i \in DOMAIN p.packed[c][b] |-> now(p.packed[c][b][i])]]]]

\* truncate_to and invalidate_packed_from of the two mirrors.
Unpacked(p, n) ==
    [p EXCEPT !.packed = [c \in Cache |-> [b \in Blocks |->
        IF Tokens(b, n) < Len(p.packed[c][b]) THEN SubSeq(p.packed[c][b], 1, Tokens(b, n)) ELSE p.packed[c][b]]]]

\* The graph of cache c computes the rows from .. to - 1 in their cells.
Computed(p, c, from, to) ==
    [p EXCEPT !.cell[c] = [s \in SlotIds |-> [o \in Offsets |->
        LET here == {r \in from .. to - 1 : p.slot[BlockOf(r)] = s /\ r % BlockTokens = o}
        IN  IF here = {} THEN p.cell[c][s][o] ELSE LET r == CHOOSE r \in here : TRUE IN [row |-> r, kv |-> r]]]]

\* A harvest that takes a block for packed as soon as one row of it is.
HarvestedOnce(p, c, S) ==
    [p EXCEPT !.packed[c] = [b \in Blocks |->
        IF b \in S /\ Starts(p, c, b) /\ p.packed[c][b] = <<>>
        THEN [i \in 1 .. Tokens(b, p.rows) |-> p.cell[c][p.slot[b]][i - 1].kv]
        ELSE p.packed[c][b]]]

\* harvest_gpu_v, and harvest_k and harvest_v of the follower: pack the blocks
\* of S that are not packed as far as they go.
Harvested(p, c, S) ==
    [p EXCEPT !.packed[c] = [b \in Blocks |->
        IF b \in S /\ Starts(p, c, b) /\ Len(p.packed[c][b]) < Tokens(b, p.rows)
        THEN [i \in 1 .. Tokens(b, p.rows) |-> p.cell[c][p.slot[b]][i - 1].kv]
        ELSE p.packed[c][b]]]

\* occupy_in for the blocks of S: their cells are labelled, not written.
Occupied(p, c, S) ==
    [p EXCEPT !.cell[c] = [s \in SlotIds |-> [o \in Offsets |->
        LET here == {b \in S : p.slot[b] = s /\ o < Tokens(b, p.rows)}
        IN  IF here = {} THEN p.cell[c][s][o]
            ELSE [p.cell[c][s][o] EXCEPT !.row = First(CHOOSE b \in here : TRUE) + o]]]]

\* write_block_to_gpu of either cache for the blocks of S: label, then copy what
\* the mirror has if it has all of the block; a whole block clears the taint.
Restored(p, c, S) ==
    LET q == Occupied(p, c, S)
        whole == {b \in S : Len(p.packed[c][b]) >= Tokens(b, p.rows)}
        from(s, o) == {b \in whole : p.slot[b] = s /\ o < Tokens(b, p.rows)}
    IN  [q EXCEPT
            !.cell[c] = [s \in SlotIds |-> [o \in Offsets |->
                IF from(s, o) = {} THEN q.cell[c][s][o]
                ELSE [q.cell[c][s][o] EXCEPT !.kv = p.packed[c][CHOOSE b \in from(s, o) : TRUE][o + 1]]]],
            !.tainted = IF c = "trunk" THEN @
                        ELSE @ \ {p.slot[b] : b \in {w \in whole : Tokens(w, p.rows) = BlockTokens}},
            !.moved = @ \/ S # {}]

-----------------------------------------------------------------------------
(* The slot pool                                                            *)

\* admit_incoming: one slot for each block of S, in order.
Admitted(p, S) ==
    [p EXCEPT !.slot = [b \in Blocks |-> IF b \in S THEN p.free[Len(p.free) - Rank(S, b)] ELSE @[b]],
              !.free = SubSeq(@, 1, Len(@) - Cardinality(S))]

\* The slots of the blocks of order are free again.
Released(p, order) ==
    [p EXCEPT !.free = @ \o [k \in DOMAIN order |-> p.slot[order[k]]],
              !.slot = [b \in Blocks |-> IF b \in ToSet(order) THEN NoSlot ELSE @[b]]]

\* apply_plan_to_kv: both caches are packed, then their labels removed, then the
\* slots change hands.
Staged(p, selected) ==
    LET out == Resident(p) \ selected
        in == selected \ Resident(p)
        packed == Harvested(Harvested(p, "trunk", out), "draft", out)
        bare == Unlabelled(packed, Cache, UNION {RowsOf(b, p.rows) : b \in out})
        q == Admitted(Released(bare, InOrder(out)), in)
    IN  IF out \cup in = {} THEN q ELSE Moved(q)

\* Whether a transaction over the first n rows is accepted: NativeBackend's
\* snapshot and prepare, and the plan of MemorySession.
Plannable(p, selected, n) ==
    /\ \A b \in Blocks : Tokens(b, n) > 0 =>
          IF p.slot[b] # NoSlot THEN Complete(p, "trunk", b, n)
          ELSE Len(p.packed["trunk"][b]) >= Tokens(b, n)
    /\ \A b \in selected \ Resident(p) : Tokens(b, n) \in {0, Tokens(b, p.rows)}
    /\ Cardinality(selected) <= Slots

\* NativeTransfer::publish: the selected rows are there and no others.
Publishable(p, selected, n) ==
    /\ \A b \in selected : Tokens(b, n) > 0 => Complete(p, "trunk", b, n)
    /\ Cardinality(Used(p, "trunk")) = Cardinality(UNION {RowsOf(b, n) : b \in selected})

\* layout_gpu_slots_by_orig_pos finds the resident blocks in order already.
Sorted(p) == \A b \in Resident(p) : p.slot[b] = Rank(Resident(p), b)

\* The K and V that the blocks of from[c] carry to their slots in order.  The copy
\* of the follower, layout_d2d, may fail (~copied).
Carried(p, from, copied) ==
    LET all == Resident(p)
        at(c, s, o) == {b \in from[c] : Rank(all, b) = s /\ o < Tokens(b, p.rows)}
    IN  [c \in Cache |-> [s \in SlotIds |-> [o \in Offsets |->
            IF at(c, s, o) = {} \/ (c = "draft" /\ ~copied) THEN Blank
            ELSE [row |-> NoRow, kv |-> p.cell[c][p.slot[CHOOSE b \in at(c, s, o) : TRUE]][o].kv]]]]

\* The layout: block number k of the working set moves to slot k.  The trunk rows
\* of a block that starts in its slot are copied, those of another come from the
\* mirror.  The follower's rows are copied beside the trunk's where it has them;
\* where it has not, or the copy fails, they are left to follow_retrieval.
ArrangedAs(p, copied) ==
    LET all == Resident(p)
        trunk == {b \in all : Starts(p, "trunk", b)}
        draft == {b \in trunk : Starts(p, "draft", b)}
        moved == [p EXCEPT
            !.slot = [b \in Blocks |-> IF b \in all THEN Rank(all, b) ELSE NoSlot],
            !.free = AllFree(Cardinality(all)),
            !.cell = Carried(p, [c \in Cache |-> IF c = "trunk" THEN trunk ELSE draft], copied)]
    IN  Restored(Occupied(Occupied(moved, "trunk", trunk), "draft", IF copied THEN draft ELSE {}),
                 "trunk", all \ trunk)

\* A layout that does not tell who remembers a view.
ArrangedQuietly(p, copied) == ArrangedAs(p, copied)

Arranged(p, copied) == Moved(ArrangedAs(p, copied))

\* follow_retrieval: a block the follower does not start in its slot is written
\* from its mirror if any row of it is packed, and otherwise labelled unless the
\* slot may hold another conversation's rows.
Followed(p) ==
    LET missing == {b \in Resident(p) : ~Starts(p, "draft", b)}
        mirrored == {b \in missing : p.packed["draft"][b] # <<>>}
    IN  Occupied(Restored(p, "draft", mirrored), "draft",
                 {b \in missing \ mirrored : p.slot[b] \notin p.tainted})

-----------------------------------------------------------------------------
(* The calls                                                                *)

Becomes(q, promise) ==
    /\ kept' = promise
    /\ pool' = [q EXCEPT !.moved = FALSE]
    /\ look' = IF q.moved THEN NoLook ELSE look

\* conv_reset_to_empty: slots and mirrors are those of a new conversation.
Lost(p) == Moved(Empty(p.tainted))

\* What a retrieval or an attach leaves is shown to the next call as it is.
Shown(q) == [from |-> q.rows, end |-> q.rows, canonical |-> TRUE]

Reset == pool.rows > 0 /\ Becomes(Lost(pool), NoPromise)

\* apply_native_selection.
Retrieved(p, selected, copied) ==
    LET staged == Staged(p, selected)
        q == Harvested(staged, "draft", Resident(staged))
    IN  Followed(IF Sorted(q) THEN Restored(q, "trunk", {b \in selected \ Resident(p) : ~Starts(q, "trunk", b)})
                 ELSE Arranged(q, copied))

\* apply_selection with a selection just previewed: it keeps the newest block.
Retrieve(selected, copied) ==
    /\ selected \subseteq Catalog(pool) /\ BlockOf(pool.rows - 1) \in selected
    /\ Plannable(pool, selected, pool.rows)
    /\ LET q == Retrieved(pool, selected, copied)
           next == IF Publishable(q, selected, pool.rows) THEN q ELSE Lost(pool)
       IN  Becomes(next, Shown(next))

\* prepare_working_set registered rows up to end.
Registered(end) == [pool EXCEPT !.rows = end]
Incoming(end) == BlockOf(pool.rows) .. BlockOf(end - 1)

\* llama_decode of the target and then of the draft model (process) for the new
\* rows; slot_for_orig_pos takes the follower to the cells of the trunk.
Decoded(q, begin, end) ==
    LET tail == {b \in Blocks : First(b) < begin /\ begin < First(b) + BlockTokens /\ ~Starts(q, "draft", b)}
    IN  [Computed(Computed(q, "trunk", begin, end), "draft", begin, end) EXCEPT !.torn = @ \cup tail]

\* keep_selected and pin_working_set: a promise lasts while the turn decodes its rows.
Within(end) == IF end <= kept.end THEN kept ELSE NoPromise

\* A decode that finds its slots free: no pressure, or the working set is pinned.
AppendFits(end) ==
    LET need == Incoming(end) \ Resident(pool)
    IN  /\ Cardinality(need) <= Len(pool.free)
        /\ Becomes(Decoded(Admitted(Registered(end), need), pool.rows, end), Within(end))

\* No slot is left for one of the blocks: the rows are given back, and the slots
\* of the blocks that had none of the rows kept.
AppendRefused(end) ==
    LET need == Incoming(end) \ Resident(pool)
        tail == {b \in need : First(b) < pool.rows}
    IN  /\ Cardinality(need) > Len(pool.free)
        /\ Becomes(IF pool.free = <<>> THEN pool ELSE Admitted(pool, tail), NoPromise)

\* The rows before the new ones are staged for pressure: blocks leave, others
\* may come back, in the trunk only.
AppendPressed(end, selected) ==
    LET q == Registered(end)
        staged == Staged(q, selected)
        restore == {b \in selected \ Resident(q) : Tokens(b, pool.rows) > 0}
        next == Restored(staged, "trunk", restore)
    IN  /\ end > kept.end
        /\ Incoming(end) \subseteq selected /\ selected \subseteq Catalog(q)
        /\ Plannable(q, selected, pool.rows)
        /\ Becomes(IF Publishable(next, selected, pool.rows) THEN Decoded(next, pool.rows, end) ELSE Lost(pool), NoPromise)

Decode(end) == AppendFits(end) \/ AppendRefused(end) \/ \E selected \in SUBSET Blocks : AppendPressed(end, selected)

\* Where the draft model puts a row that the trunk does not have yet: in the last
\* block if it is on the device, else in the slot that will be given out next.
Peeked(r) ==
    LET last == BlockOf(pool.rows - 1)
    IN  IF BlockOf(r) = last /\ pool.slot[last] # NoSlot THEN pool.slot[last]
        ELSE IF pool.free = <<>> THEN NoSlot ELSE Last(pool.free)

\* common_speculative_draft decodes the rows up to end in the draft model.
Sketched(end) ==
    [pool EXCEPT !.cell["draft"] = [s \in SlotIds |-> [o \in Offsets |->
        LET here == {r \in pool.rows .. end - 1 : Peeked(r) = s /\ r % BlockTokens = o}
        IN  IF here = {} THEN @[s][o] ELSE [row |-> CHOOSE r \in here : TRUE, kv |-> Stale]]]]

\* The drafts are removed before the target verifies them.
Speculate(end) ==
    /\ pool.rows > 0 /\ \A r \in pool.rows .. end - 1 : Peeked(r) # NoSlot
    /\ Becomes(Moved(Unlabelled(Sketched(end), {"draft"}, {r \in Rows : r >= pool.rows})), Within(end))

\* remove_logical on both contexts and truncate_cached: rejected drafts, and the
\* return to a checkpoint.
Retract(n) ==
    LET gone == Reverse(InOrder({b \in Resident(pool) : First(b) >= n}))
        bare == Unlabelled(pool, Cache, {r \in Rows : r >= n})
        q == Released(Unpacked(Outdated(bare, n), n), gone)
    IN  /\ n < pool.rows
        /\ Becomes([q EXCEPT !.rows = n, !.torn = {b \in @ : First(b) < n}, !.moved = TRUE], IF n >= kept.from THEN kept ELSE NoPromise)

\* The query is computed again from row n after a retrieval that kept its blocks:
\* the packed rows and labels from n on go first (set_replay).
Replay(n) ==
    LET bare == Unlabelled(Unpacked(Outdated(pool, n), n), Cache, {r \in Rows : r >= n})
        q == Decoded(bare, n, pool.rows)
    IN  /\ n < pool.rows /\ BlockOf(n) .. BlockOf(pool.rows - 1) \subseteq Resident(pool)
        /\ Becomes([q EXCEPT !.torn = {b \in @ : First(b) < n}, !.moved = TRUE], NoPromise)

\* detach_conv: every block is staged out; the other conversation then uses all
\* slots.
Detached(p) ==
    LET q == Staged(p, {})
    IN  [q EXCEPT !.free = AllFree(0), !.tainted = SlotIds, !.moved = TRUE,
                  !.cell = Empty({}).cell]

\* attach_conv of what detach_conv left: the same blocks come back in order, the
\* trunk from its mirror and the follower from its own (restore_attached).
Attached(p, resident) ==
    LET q == Staged(p, resident)
    IN  Followed(Restored(q, "trunk", {b \in resident : ~Starts(q, "trunk", b)}))

\* Two swap_conv: the conversation leaves the device and returns.
Exchange ==
    LET resident == Resident(pool)
        away == Detached(pool)
        back == Attached(away, resident)
        sound == /\ Plannable(pool, {}, pool.rows)
                 /\ \A b \in resident : Len(away.packed["trunk"][b]) >= Tokens(b, pool.rows)
                 /\ Plannable(away, resident, pool.rows) /\ Publishable(back, resident, pool.rows)
        next == IF sound THEN back ELSE Lost(away)
    IN  pool.rows > 0 /\ Becomes(next, Shown(next))

\* attention_view: every resident block is complete in both caches and nothing
\* else is labelled.
Valid(p) ==
    \A c \in Cache :
        /\ \A b \in Resident(p) : Complete(p, c, b, p.rows)
        /\ Cardinality(Used(p, c)) = Cardinality(UNION {RowsOf(b, p.rows) : b \in Resident(p)})

Look ==
    /\ Valid(pool) /\ pool.rows > 0
    /\ look' = [blocks |-> Resident(pool), rows |-> pool.rows, slot |-> pool.slot]
    /\ UNCHANGED <<pool, kept>>

\* Rounds the last block down.
CanAppendWholeBlocks(end) ==
    LET needed == {b \in Blocks : pool.rows \div BlockTokens <= b /\ First(b) + BlockTokens <= end} \ Resident(pool)
    IN  /\ Valid(pool)
        /\ pool.rows % BlockTokens # 0 => Complete(pool, "trunk", BlockOf(pool.rows), pool.rows)
        /\ Cardinality(needed) <= Len(pool.free)

\* can_append: the rows up to end fit beside a complete view.  When it is to have all
\* the history it has to be canonical too, now and when it is committed.
CanAppend(end) ==
    LET needed == {b \in Blocks : pool.rows \div BlockTokens <= b /\ First(b) < end} \ Resident(pool)
    IN  /\ Valid(pool)
        /\ pool.rows % BlockTokens # 0 => Complete(pool, "trunk", BlockOf(pool.rows), pool.rows)
        /\ Cardinality(needed) <= Len(pool.free)

\* The driver keeps the selection instead of retrieving again (keep_selected).
Keep(end) ==
    /\ CanAppend(end)
    /\ kept' = [from |-> pool.rows, end |-> end, canonical |-> FALSE]
    /\ UNCHANGED <<pool, look>>

Ends == {end \in pool.rows + 1 .. pool.rows + MaxDraft : end <= MaxRows}

Next ==
    \/ \E end \in Ends : Decode(end) \/ Speculate(end)
    \/ \E n \in 0 .. MaxRows : Retract(n) \/ Replay(n)
    \/ \E selected \in SUBSET Blocks, copied \in BOOLEAN : Retrieve(selected, copied)
    \/ \E end \in pool.rows .. MaxRows : Keep(end)
    \/ Exchange \/ Reset \/ Look

Spec == Init /\ [][Next]_vars

-----------------------------------------------------------------------------
(* Properties                                                               *)

\* Every slot is free or held by one block; a label is in the cell of its row, and
\* that row exists; the K and V under it, and those packed on the host, are the
\* row's own in both caches.  Nothing is said of the contents of a torn block: a
\* pressure plan had restored it in the trunk only, the history was cut inside it,
\* and it was appended to.
CellsExact ==
    LET held == {pool.slot[b] : b \in Resident(pool)}
    IN  /\ held \cup ToSet(pool.free) = SlotIds /\ held \cap ToSet(pool.free) = {}
        /\ Cardinality(held) = Cardinality(Resident(pool)) /\ Len(pool.free) = Cardinality(ToSet(pool.free))
        /\ Resident(pool) \subseteq Catalog(pool)
        /\ \A c \in Cache, s \in SlotIds, o \in Offsets :
              LET x == pool.cell[c][s][o]
              IN  x.row # NoRow => /\ x.row < pool.rows /\ x.row % BlockTokens = o
                                   /\ pool.slot[BlockOf(x.row)] = s
                                   /\ x.kv = x.row \/ BlockOf(x.row) \in pool.torn
        /\ \A c \in Cache, b \in Blocks \ pool.torn : \A i \in DOMAIN pool.packed[c][b] :
              pool.packed[c][b][i] = First(b) + i - 1 /\ First(b) + i <= pool.rows

\* While its epoch is current a remembered view is there: the same rows are
\* complete in the same slots of both caches, and every block that became resident
\* since is new.  A view taken now then has no other row of that time, which is what
\* commit_unchanged needs to skip the replay.
ViewKept ==
    look # NoLook =>
        /\ \A b \in look.blocks : /\ pool.slot[b] = look.slot[b]
                                  /\ \A c \in Cache : Complete(pool, c, b, look.rows)
        /\ Valid(pool) => \A b \in Resident(pool) \ look.blocks : First(b) >= look.rows

\* Whoever is promised a view has it.  What a retrieval or an attach leaves is
\* complete in both caches and in order, although the caches test the first cells of
\* their own slots and restore from mirrors of their own.  When can_append let the
\* turn keep its selection, every row up to the promised end finds its slot, and the
\* view the turn then commits (commit_resident) is complete, through drafts and
\* rejected drafts.
PromiseHolds ==
    kept # NoPromise =>
        /\ Valid(pool)
        /\ kept.canonical => Sorted(pool)
        /\ \A end \in pool.rows + 1 .. kept.end : Cardinality(Incoming(end) \ Resident(pool)) <= Len(pool.free)

===============================================================================
