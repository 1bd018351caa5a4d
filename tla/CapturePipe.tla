----------------------------- MODULE CapturePipe -----------------------------
(***************************************************************************)
(* How the K and Q of evaluated rows reach the host (the harvest half of   *)
(* adapter/llama-memory-kvmem.cpp).  While a graph runs, the engine hands  *)
(* the capture tensors of each micro-batch to one of two device-to-host    *)
(* slots; a worker adds what has landed to the ordered means of the blocks *)
(* and to the query sum.  After the working set is pinned, the engine adds *)
(* the K of accepted rows itself (the decode mean).  Full blocks are       *)
(* packed through a stage-out slab, and blocks that leave the device must  *)
(* have their packed copy first.                                           *)
(*                                                                         *)
(* The engine runs the turns of the driver: resume from a checkpoint,      *)
(* prefill, select, replay the query, decode with or without drafts.  One  *)
(* layer; a value of a row is the number of the decode call it came from.  *)
(***************************************************************************)
EXTENDS Integers, FiniteSets, Bags, SequencesExt

CONSTANTS
    Rows,      \* bound: rows of the conversation
    BT,        \* block_tokens
    UB,        \* n_ubatch
    MaxCalls,  \* bound: llama_decode calls
    MaxTurns,  \* bound: requests
    MaxFaults  \* bound: refused staging allocations

ASSUME CaptureAssumption ==
    /\ {Rows, BT, UB} \subseteq Nat \ {0}
    /\ {MaxCalls, MaxTurns, MaxFaults} \subseteq Nat

VARIABLES
    at,      \* where the engine is in a request
    turn,    \* the request: query, first row to replay, last row of the prompt
    mode,    \* retrieval_pinned_, replay_, speculative_evaluation_, query_frozen_,
             \* multi_gpu_ (captures are then read in place)
    text,    \* rows in the store, accepted frontier, value of each row
    call,    \* micro-batches still to run, and pos_queue_
    graph,   \* the last graph: its width and the captures it has
    cap,     \* rows held by the capture tensors (pending_capture_)
    slots, nxt, \* CaptureD2hPipe
    work,    \* HarvestWorker: queue, stop, and the slot it commits
    curPos,  \* cur_pos_
    means,   \* block -> mean_tokens and k_sum
    qsum,    \* q_sum_
    decode,  \* the decode mean: its first row and its rows
    draft,   \* decode_mean_pending_pos_, and speculative_span_
    packed,  \* block -> packed K/V rows on the host
    away,    \* blocks with no device slot
    slab,    \* harvest_gpu_queued_, and the batch on its way
    base, saved, kept, \* checkpoints (rollback, latest) and the saved query
    first,   \* ghost: the value of a row its block's mean must hold
    strayed, \* ghost: a capture went where no comment of the code expects it
    used     \* calls, requests and faults so far

vars == <<at, turn, mode, text, call, graph, cap, slots, nxt, work, curPos, means,
          qsum, decode, draft, packed, away, slab, base, saved, kept, first, strayed, used>>
pipe == <<slots, nxt, work, curPos>>
points == <<base, saved, kept>>

Row == 0 .. Rows - 1
Block(p) == p \div BT
Blocks == 0 .. Block(Rows - 1)
Least(a, b) == IF a < b THEN a ELSE b
Most(a, b) == IF a > b THEN a ELSE b
RowsOf(u) == u[1] .. u[1] + u[2] - 1   \* a micro-batch is <<first row, width>>

NoMean == [n |-> 0, sum |-> EmptyBag]
NoPack == [n |-> 0, rows |-> [o \in 0 .. BT - 1 |-> 0]]
NoSlot == [inflight |-> FALSE, landed |-> FALSE, pos |-> <<0, 0>>, q |-> FALSE, k |-> FALSE,
           items |-> <<>>]
NoTurn == [query |-> {}, from |-> 0, end |-> 0]
NoPoint == [row |-> 0, mean |-> NoMean]
NoQuery == [rows |-> {}, sum |-> EmptyBag]
NoSlab == [queued |-> {}, sent |-> {}]
NoDecode == [pos0 |-> 0, items |-> <<>>]
NoDraft == <<0, 0>>

Init ==
    /\ at = "idle" /\ turn = NoTurn
    /\ mode \in [pinned : {FALSE}, replay : {FALSE}, drafting : {FALSE}, frozen : {FALSE},
                 multi : BOOLEAN]
    /\ text = [total |-> 0, end |-> 0, val |-> [p \in Row |-> 0]]
    /\ call = [todo |-> <<>>, posq |-> <<>>]
    /\ graph = [w |-> 0, q |-> FALSE, k |-> FALSE] /\ cap = <<>>
    /\ slots = [s \in {1, 2} |-> NoSlot] /\ nxt = 1
    /\ work = [queue |-> <<>>, slot |-> 0, step |-> "wait", stop |-> FALSE]
    /\ curPos = <<0, 0>>
    /\ means = [b \in Blocks |-> NoMean] /\ qsum = EmptyBag
    /\ decode = NoDecode /\ draft = NoDraft
    /\ packed = [b \in Blocks |-> NoPack] /\ away = {} /\ slab = NoSlab
    /\ base = NoPoint /\ saved = NoPoint /\ kept = NoQuery
    /\ first = [p \in Row |-> 0] /\ strayed = FALSE
    /\ used = [calls |-> 0, turns |-> 0, faults |-> 0]

-----------------------------------------------------------------------------
(***************************************************************************)
(* The means of RawKvStore.                                                *)
(***************************************************************************)
\* add_mean_f32 over the blocks of a run of rows that starts at pos0.
Added(m, pos0, items) ==
    [b \in Blocks |->
        LET mine == {i \in 1 .. Len(items) : Block(pos0 + i - 1) = b}
            offsets == {(pos0 + i - 1) % BT : i \in mine}
            count == 1 + CHOOSE o \in offsets : \A o2 \in offsets : o2 <= o IN
        IF mine = {} THEN m[b]
        ELSE [n |-> IF 0 \in offsets THEN Cardinality(mine) ELSE Most(m[b].n, count),
              sum |-> (IF 0 \in offsets THEN EmptyBag ELSE m[b].sum)
                      (+) SetToBag({items[i] : i \in mine})]]

\* decode_mean_flush, on a decode mean d and means m.
Flushed(d, m) == IF d.items = <<>> THEN m ELSE Added(m, d.pos0, d.items)

\* decode_mean_commit of rows at pos0 on: a new block flushes the old one, a
\* full block flushes itself.  Returns the decode mean and the means.
Accumulated(pos0, items) ==
    FoldLeft(
        LAMBDA acc, i :
            LET p == pos0 + i - 1
                new == acc.d.items = <<>> \/ Block(acc.d.pos0) # Block(p)
                m == IF new THEN Flushed(acc.d, acc.m) ELSE acc.m
                d == IF new THEN [pos0 |-> p, items |-> <<items[i]>>]
                     ELSE [acc.d EXCEPT !.items = Append(@, items[i])] IN
            IF (d.pos0 % BT) + Len(d.items) >= BT THEN [d |-> NoDecode, m |-> Flushed(d, m)]
            ELSE [d |-> d, m |-> m],
        [d |-> decode, m |-> means], [i \in 1 .. Len(items) |-> i])

\* RawKvStore::truncate_to: a mean of more rows than are left is dropped.
CutMeans(m, row) ==
    [b \in Blocks |-> IF b * BT >= row \/ (b = Block(row) /\ m[b].n > row % BT) THEN NoMean ELSE m[b]]
\* invalidate_packed_from, and the packed half of truncate_to.
CutPacked(pk, row) ==
    [b \in Blocks |-> [pk[b] EXCEPT !.n = Least(@, Most(0, row - b * BT))]]

\* mean_checkpoint and restore_mean_checkpoint.
TailPoint(m, row) == [row |-> row, mean |-> IF row % BT = 0 THEN NoMean ELSE m[Block(row)]]
WithTail(m, point) == IF point.row % BT = 0 THEN m ELSE [m EXCEPT ![Block(point.row)] = point.mean]

-----------------------------------------------------------------------------
(***************************************************************************)
(* Packed copies.                                                          *)
(***************************************************************************)
\* Rows of a block the copy may hold: accepted ones only.
Packable(b, t) == Least(BT, Most(0, Least(t.total, t.end) - b * BT))

\* has_k_gpu / has_v_gpu and the queued flags.
Wanting(b, t) == b \notin slab.queued /\ Packable(b, t) > packed[b].n

Copy(b, t) == <<b, [i \in 1 .. Packable(b, t) |-> t.val[b * BT + i - 1]]>>

\* write_layer_k_gpu / write_layer_v_gpu of a batch of copies.
Written(pk, batch) ==
    [b \in Blocks |->
        IF \E c \in batch : c[1] = b
        THEN LET rows == (CHOOSE c \in batch : c[1] = b)[2] IN
             [n |-> Most(pk[b].n, Len(rows)),
              rows |-> [o \in 0 .. BT - 1 |-> IF o < Len(rows) THEN rows[o + 1] ELSE pk[b].rows[o]]]
        ELSE pk[b]]

\* Mutant: the batch on its way is forgotten.
CommittedNew(out, t) == Written(packed, {Copy(b, t) : b \in {x \in out : Wanting(x, t)}})

\* harvest_gpu_v_commit, after the blocks of out were enqueued.
Committed(out, t) ==
    Written(packed, slab.sent \cup {Copy(b, t) : b \in {x \in out : Wanting(x, t)}})

\* harvest_full_blocks_async on the rows t: the last batch lands as the next is
\* submitted.  With several devices the copies are read at once.
PackFull(t) ==
    LET full == {b \in Blocks \ away : (b + 1) * BT <= t.end /\ Wanting(b, t)}
        batch == {Copy(b, t) : b \in full} IN
    IF mode.pinned \/ mode.replay \/ full = {} THEN UNCHANGED <<packed, slab>>
    ELSE /\ packed' = Written(packed, IF mode.multi THEN batch ELSE slab.sent)
         /\ slab' = [queued |-> slab.queued \cup full, sent |-> IF mode.multi THEN {} ELSE batch]

-----------------------------------------------------------------------------
(***************************************************************************)
(* The worker, and the copy engine of the device.                          *)
(***************************************************************************)
\* Mutant: the flush looks at the queue only.
QueueEmpty == work.queue = <<>>

\* The wait of harvest_flush.
Drained == work.queue = <<>> /\ \A s \in {1, 2} : ~slots[s].inflight

\* The snapshot of the capture tensors lands in the slot: it reads what the
\* tensors hold when the copy runs.
Land(s) ==
    /\ slots[s].inflight /\ ~slots[s].landed
    /\ slots' = [slots EXCEPT ![s].landed = TRUE, ![s].items = cap]
    /\ UNCHANGED <<at, turn, mode, text, call, graph, cap, nxt, work, curPos, means, qsum, decode,
                   draft, packed, away, slab, points, first, strayed, used>>

workRest == <<at, turn, mode, text, call, graph, cap, nxt, decode, draft, packed, away, slab,
              points, first, strayed, used>>

\* harvest_loop: a slot is taken, its copy awaited, its rows become cur_pos_.
Take ==
    /\ work.step = "wait" /\ work.queue # <<>>
    /\ slots[Head(work.queue)].landed
    /\ work' = [work EXCEPT !.queue = Tail(@), !.slot = Head(work.queue), !.step = "q"]
    /\ curPos' = slots[Head(work.queue)].pos
    /\ UNCHANGED <<slots, means, qsum, workRest>>

\* query_contains, and the part of a run of rows that is added to q_sum_.
InQuery(p) == ~mode.frozen /\ p \in turn.query
QueryRows(pos, items) ==
    SetToBag({items[i] : i \in {j \in 1 .. Least(pos[2], Len(items)) : InQuery(pos[1] + j - 1)}})

\* d2h_commit: the Q of the slot, then its K, then the slot is free again.
AddQ ==
    /\ work.step = "q"
    /\ qsum' = IF slots[work.slot].q THEN qsum (+) QueryRows(curPos, slots[work.slot].items) ELSE qsum
    /\ work' = [work EXCEPT !.step = "k"]
    /\ UNCHANGED <<slots, curPos, means, workRest>>

AddK ==
    /\ work.step = "k"
    /\ means' = IF slots[work.slot].k THEN Added(means, curPos[1], slots[work.slot].items) ELSE means
    /\ work' = [work EXCEPT !.step = "free"]
    /\ UNCHANGED <<slots, curPos, qsum, workRest>>

\* Mutant: the slot is given back after the last of the queue only.
FreeSlotLast ==
    /\ work.step = "free"
    /\ slots' = IF work.queue = <<>> THEN [slots EXCEPT ![work.slot] = NoSlot] ELSE slots
    /\ work' = [work EXCEPT !.step = "wait", !.slot = 0]
    /\ UNCHANGED <<curPos, means, qsum, workRest>>

\* harvest_loop: the slot is free, its waiters are told.
FreeSlot ==
    /\ work.step = "free"
    /\ slots' = [slots EXCEPT ![work.slot] = NoSlot]
    /\ work' = [work EXCEPT !.step = "wait", !.slot = 0]
    /\ UNCHANGED <<curPos, means, qsum, workRest>>

\* harvest_loop leaves once it is told to stop and has nothing queued.
WorkerExit ==
    /\ work.step = "wait" /\ work.queue = <<>> /\ work.stop
    /\ work' = [work EXCEPT !.step = "gone"]
    /\ UNCHANGED <<slots, curPos, means, qsum, workRest>>

-----------------------------------------------------------------------------
(***************************************************************************)
(* A decode call: prepare_ubatches, then one graph per micro-batch.        *)
(***************************************************************************)
WantMean == (mode.pinned \/ mode.drafting) /\ ~mode.replay
WantPrefill == ~mode.pinned /\ ~mode.replay /\ ~mode.drafting
\* Mutant: the rows of the query are captured again when they are replayed.
NeedQAgain(u) == ~mode.frozen /\ ~mode.drafting /\ \E p \in RowsOf(u) : InQuery(p)

NeedQ(u) == /\ ~mode.pinned /\ ~mode.frozen /\ ~mode.drafting
            /\ \E p \in RowsOf(u) : InQuery(p)

\* What a graph of the micro-batch registers when it is built.
Built(u) == [w |-> u[2],
             q |-> u[2] > 1 /\ NeedQ(u),
             k |-> IF u[2] > 1 THEN WantPrefill \/ WantMean ELSE WantMean]

\* capture_can_reuse, for a graph of the same shape.
CanReuse(u) == graph.w = u[2] /\ (WantMean => graph.k) /\ NeedQ(u) = graph.q

\* Micro-batches of n rows from row s on.
Split(s, n) ==
    [i \in 1 .. (n + UB - 1) \div UB |->
        <<s + (i - 1) * UB, Least(UB, n - (i - 1) * UB)>>]

\* prepare_ubatches.  A batch that rewrites rows first drains the writers and
\* takes the packed copies back; before the working set is pinned, blocks may
\* leave the device for the new rows.
Prepare(s, n, out) ==
    LET t == [text EXCEPT !.total = Most(@, s + n)]
        rewrites == s < text.total
        incoming == {Block(p) : p \in s .. s + n - 1} IN
    /\ call.todo = <<>> /\ used.calls < MaxCalls /\ s + n <= Rows
    /\ out \subseteq {b \in Blocks \ (away \cup incoming) : b * BT < text.total}
    /\ mode.pinned => out = {}
    /\ rewrites => Drained
    /\ packed' = LET pk == IF rewrites \/ out # {} THEN Committed(out, text) ELSE packed IN
                 IF rewrites THEN CutPacked(pk, s) ELSE pk
    /\ slab' = IF rewrites \/ out # {} THEN NoSlab ELSE slab
    /\ away' = (away \cup out) \ incoming
    /\ text' = t
    /\ call' = [todo |-> Split(s, n), posq |-> Split(s, n)]
    /\ used' = [used EXCEPT !.calls = @ + 1]
    /\ UNCHANGED <<graph, cap, pipe, means, qsum, decode, draft, points, first, strayed>>

\* A graph runs: it may start only when the last snapshot of the tensors it
\* overwrites was taken (the event the compute stream waits for).
Compute(u, reuse) ==
    /\ \A s \in {1, 2} : slots[s].inflight => slots[s].landed
    /\ reuse => CanReuse(u)
    /\ graph' = IF reuse THEN graph ELSE Built(u)
    /\ cap' = [i \in 1 .. u[2] |-> <<u[1] + i - 1, used.calls>>]
    /\ text' = [text EXCEPT !.val = [p \in Row |-> IF p \in RowsOf(u) THEN used.calls ELSE @[p]],
                            !.end = IF mode.drafting THEN @ ELSE Most(@, u[1] + u[2])]
    /\ first' = IF mode.drafting \/ ~Built(u).k THEN first
                ELSE [p \in Row |-> IF p \in RowsOf(u) THEN used.calls ELSE first[p]]
    /\ PackFull(text')
    /\ UNCHANGED <<at, turn, mode, away, points>>

Stray(u, reuse) == reuse /\ graph.k # Built(u).k
Popped == [call EXCEPT !.todo = Tail(@), !.posq = Tail(@)]
NotPopped == [call EXCEPT !.todo = Tail(@)]
Captured == graph'.q \/ graph'.k

\* harvest_pending_impl with a capture pipe: the slot next in turn is awaited
\* and gets the positions of the micro-batch.
Submit(u, reuse) ==
    /\ call.todo # <<>> /\ u = Head(call.todo) /\ ~WantMean /\ ~mode.multi
    /\ ~slots[nxt].inflight
    /\ Compute(u, reuse) /\ Captured /\ call.posq # <<>>
    /\ slots' = [slots EXCEPT ![nxt] = [inflight |-> TRUE, landed |-> FALSE, pos |-> Head(call.posq),
                                        q |-> graph'.q, k |-> graph'.k, items |-> <<>>]]
    /\ work' = [work EXCEPT !.queue = Append(@, nxt)]
    /\ nxt' = 3 - nxt
    /\ call' = Popped
    /\ strayed' = (strayed \/ Stray(u, reuse))
    /\ UNCHANGED <<curPos, means, qsum, decode, draft, used>>

\* The staging allocation is refused: the engine reads the tensors itself,
\* through the same cur_pos_ the worker uses.  early: it reads what they held
\* before, as the graph is awaited only afterwards.
Refused(u, reuse, early) ==
    /\ call.todo # <<>> /\ u = Head(call.todo) /\ ~WantMean /\ ~mode.multi
    /\ used.faults < MaxFaults /\ ~slots[nxt].inflight
    /\ Compute(u, reuse) /\ Captured /\ call.posq # <<>>
    /\ curPos' = Head(call.posq)
    /\ LET items == IF early THEN [i \in DOMAIN cap' |-> <<cap'[i][1], 0>>] ELSE cap' IN
       /\ qsum' = IF graph'.q THEN qsum (+) QueryRows(curPos', items) ELSE qsum
       /\ means' = IF graph'.k THEN Added(means, curPos'[1], items) ELSE means
    /\ call' = Popped
    /\ used' = [used EXCEPT !.faults = @ + 1]
    /\ strayed' = (strayed \/ Stray(u, reuse) \/ ~Drained \/ early)
    /\ UNCHANGED <<slots, nxt, work, decode, draft>>

\* The same with several devices: the graph is awaited and read in place.
ReadInPlace(u, reuse) ==
    /\ call.todo # <<>> /\ u = Head(call.todo) /\ ~WantMean /\ mode.multi
    /\ Compute(u, reuse) /\ Captured /\ call.posq # <<>>
    /\ curPos' = Head(call.posq)
    /\ qsum' = IF graph'.q THEN qsum (+) QueryRows(curPos', cap') ELSE qsum
    /\ means' = IF graph'.k THEN Added(means, curPos'[1], cap') ELSE means
    /\ call' = Popped
    /\ strayed' = (strayed \/ Stray(u, reuse))
    /\ UNCHANGED <<slots, nxt, work, decode, draft, used>>

\* Nothing captured: the pipe is drained and the positions stay queued.
NoCapture(u, reuse) ==
    /\ call.todo # <<>> /\ u = Head(call.todo) /\ ~WantMean /\ Drained
    /\ Compute(u, reuse) /\ ~(Captured /\ call.posq # <<>>)
    /\ call' = NotPopped
    /\ strayed' = (strayed \/ Stray(u, reuse))
    /\ UNCHANGED <<pipe, means, qsum, decode, draft, used>>

\* decode_mean_ingest: one accepted row is added at once, the rows of a draft
\* wait for the verdict.
Ingest(u, reuse) ==
    /\ call.todo # <<>> /\ u = Head(call.todo) /\ WantMean
    /\ Compute(u, reuse)
    /\ LET taken == Captured /\ call.posq # <<>>
           now == taken /\ graph'.k /\ u[2] = 1 /\ ~mode.drafting
           new == Accumulated(Head(call.posq)[1], cap') IN
       /\ call' = IF taken THEN Popped ELSE NotPopped
       /\ draft' = IF now \/ (taken /\ ~graph'.k) THEN NoDraft
                   ELSE IF taken THEN Head(call.posq) ELSE draft
       /\ decode' = IF now THEN new.d ELSE decode
       /\ means' = IF now THEN new.m ELSE means
    /\ UNCHANGED <<pipe, qsum, strayed, used>>

Evaluate ==
    \E reuse \in BOOLEAN : LET u == Head(call.todo) IN
        \/ Submit(u, reuse) \/ ReadInPlace(u, reuse)
        \/ \E early \in BOOLEAN : Refused(u, reuse, early)
        \/ NoCapture(u, reuse) \/ Ingest(u, reuse)

\* A decode call of the engine, which goes on in phase.
Step(s, n, out, phase) ==
    Prepare(s, n, out) /\ at' = phase /\ UNCHANGED <<turn, mode>>

-----------------------------------------------------------------------------
(***************************************************************************)
(* The engine: one request of the driver.                                  *)
(***************************************************************************)
\* truncate_cached(row) on rows t, means m and ghost f: what is left.
Cut(t, m, f, row) ==
    IF row >= t.total
    THEN [text |-> t, means |-> m, first |-> f, packed |-> packed, away |-> away, slab |-> slab,
          saved |-> saved, kept |-> kept]
    ELSE [text |-> [total |-> row, end |-> Least(t.end, row),
                    val |-> [p \in Row |-> IF p < row THEN t.val[p] ELSE 0]],
          means |-> CutMeans(m, row),
          first |-> [p \in Row |-> IF p < row THEN f[p] ELSE 0],
          packed |-> CutPacked(Committed({}, t), row),
          away |-> {b \in away : b * BT < row}, slab |-> NoSlab,
          saved |-> IF saved.row > row THEN NoPoint ELSE saved,
          kept |-> IF \E p \in kept.rows : p >= row THEN NoQuery ELSE kept]

\* multimodal_restore with truncation, of a checkpoint.
Restored(point) ==
    LET c == Cut(text, Flushed(decode, means), first, point.row) IN
    [c EXCEPT !.means = WithTail(@, point)]

Put(c) ==
    /\ text' = c.text /\ means' = c.means /\ first' = c.first /\ packed' = c.packed
    /\ away' = c.away /\ slab' = c.slab

\* llama_driver_clear: every row, mean and copy is forgotten.
Cleared ==
    [text |-> [total |-> 0, end |-> 0, val |-> [p \in Row |-> 0]],
     means |-> [b \in Blocks |-> NoMean], first |-> [p \in Row |-> 0],
     packed |-> [b \in Blocks |-> NoPack], away |-> {}, slab |-> NoSlab,
     saved |-> NoPoint, kept |-> NoQuery]

\* begin_cached_turn, then set_query when the query of the kept state is asked again.
Begun(same) == IF same THEN kept.sum ELSE EmptyBag

\* run_prefill_multimodal up to its first decode call: from the saved
\* checkpoint or from nothing.  same: the kept query is used again.
StartTurn(resume, from, end, query, same) ==
    LET c == IF resume THEN Restored(saved) ELSE Cleared
        point == IF resume THEN saved ELSE NoPoint IN
    /\ at = "idle" /\ Drained /\ used.turns < MaxTurns
    /\ resume => saved.row > 0
    /\ point.row <= from /\ from <= end /\ point.row < end
    /\ same => c.kept # NoQuery /\ query = kept.rows
    /\ ~same => query \subseteq from .. end - 1
    /\ Put(c) /\ saved' = c.saved /\ kept' = c.kept /\ base' = point
    /\ decode' = NoDecode /\ draft' = NoDraft
    /\ qsum' = Begun(same)
    /\ mode' = [mode EXCEPT !.pinned = FALSE, !.drafting = FALSE, !.replay = FALSE, !.frozen = same]
    /\ turn' = [query |-> query, from |-> from, end |-> end]
    /\ call' = [call EXCEPT !.todo = <<>>]
    /\ at' = "prefix"
    /\ used' = [used EXCEPT !.turns = @ + 1]
    /\ UNCHANGED <<graph, cap, pipe, strayed>>

\* The rows before the query, then the query: multimodal_decode_span.
PrefillPrefix(out) ==
    /\ at = "prefix" /\ text.end < turn.from
    /\ Step(text.end, turn.from - text.end, out, "prefix")

\* The checkpoint of the query, and its first pass.
Checkpoint(remember) ==
    /\ at = "prefix" /\ text.end = turn.from /\ call.todo = <<>> /\ Drained
    /\ saved' = IF remember THEN TailPoint(Flushed(decode, means), text.end) ELSE saved
    /\ means' = Flushed(decode, means) /\ decode' = NoDecode
    /\ at' = "query"
    /\ UNCHANGED <<turn, mode, text, call, graph, cap, pipe, qsum, draft, packed, away, slab, base,
                   kept, first, strayed, used>>

PrefillQuery(out) ==
    /\ at = "query" /\ text.end < turn.end
    /\ Step(text.end, turn.end - text.end, out, "query")

PrefillDone == at = "query" /\ text.end = turn.end /\ call.todo = <<>>

\* apply_selection: the blocks of out leave the device, the others are staged
\* in.  A replay then restores the query checkpoint and takes back the packed
\* copies from the query on (set_replay); it needs those blocks on the device.
Select(out, replay) ==
    LET pk == Committed(out, text) IN
    /\ PrefillDone /\ ~mode.frozen /\ turn.from < turn.end /\ ~mode.pinned /\ Drained
    /\ out \subseteq {b \in Blocks : b * BT < text.total}
    /\ replay => \A b \in out : b < Block(turn.from)
    /\ packed' = IF replay THEN CutPacked(pk, turn.from) ELSE pk
    /\ slab' = NoSlab /\ away' = out
    /\ mode' = [mode EXCEPT !.pinned = TRUE, !.replay = replay]
    /\ at' = IF replay THEN "replay" ELSE at
    /\ UNCHANGED <<turn, text, call, graph, cap, pipe, means, qsum, decode, draft, points, first,
                   strayed, used>>

ReplayQuery ==
    /\ at = "replay"
    /\ Step(turn.from, turn.end - turn.from, {}, "replayed")

\* The prompt is evaluated: query and checkpoint are saved, the set is pinned.
Ready(remember) ==
    /\ PrefillDone \/ (at = "replayed" /\ call.todo = <<>>)
    /\ Drained
    /\ kept' = IF ~mode.frozen /\ turn.query # {} /\ BagCardinality(qsum) = Cardinality(turn.query)
               THEN [rows |-> turn.query, sum |-> qsum]
               ELSE IF mode.frozen THEN kept ELSE NoQuery
    /\ saved' = IF remember THEN TailPoint(Flushed(decode, means), text.end) ELSE saved
    /\ means' = Flushed(decode, means) /\ decode' = NoDecode
    /\ mode' = [mode EXCEPT !.pinned = TRUE, !.replay = FALSE]
    /\ at' = "decode"
    /\ UNCHANGED <<turn, text, call, graph, cap, pipe, qsum, draft, packed, away, slab, base, first,
                   strayed, used>>

DecodeOne == at = "decode" /\ ~mode.drafting /\ Step(text.end, 1, {}, "decode")

\* begin_speculative_evaluation, then a batch of rows to verify.
DecodeDraft(n) ==
    /\ at = "decode" /\ ~mode.drafting /\ text.total = text.end
    /\ Prepare(text.end, n, {})
    /\ mode' = [mode EXCEPT !.drafting = TRUE] /\ UNCHANGED <<at, turn>>

\* The rows of the draft that the verdict keeps.
Accepted(k) == Least(k, draft[2])

\* commit_speculative(k), then truncate_cached at the accepted frontier.
CommitDraft(k) ==
    LET n == Accepted(k)
        items == SubSeq(cap, 1, n)
        new == Accumulated(draft[1], items)
        to == text.end + k
        f == [p \in Row |-> IF draft[1] <= p /\ p < draft[1] + k THEN cap[p - draft[1] + 1][2]
                            ELSE first[p]]
        c == Cut([text EXCEPT !.end = to], new.m, f, to) IN
    /\ mode.drafting /\ call.todo = <<>> /\ draft # NoDraft /\ k \in 1 .. draft[2]
    /\ to < text.total => Drained
    /\ Put(c) /\ saved' = c.saved /\ kept' = c.kept
    /\ decode' = new.d /\ draft' = NoDraft
    /\ mode' = [mode EXCEPT !.drafting = FALSE]
    /\ UNCHANGED <<at, turn, call, graph, cap, pipe, qsum, base, strayed, used>>

\* The draft is thrown away (stop, or a host checkpoint to go back to).
AbandonDraft ==
    LET c == Cut(text, means, first, text.end) IN
    /\ mode.drafting /\ call.todo = <<>> /\ Drained
    /\ Put(c) /\ saved' = c.saved /\ kept' = c.kept
    /\ draft' = NoDraft /\ mode' = [mode EXCEPT !.drafting = FALSE]
    /\ UNCHANGED <<at, turn, call, graph, cap, pipe, qsum, decode, base, strayed, used>>

\* The answer is complete: the decode mean joins its block.
EndTurn ==
    /\ at = "decode" /\ ~mode.drafting /\ call.todo = <<>>
    /\ means' = Flushed(decode, means) /\ decode' = NoDecode
    /\ at' = "idle"
    /\ UNCHANGED <<turn, mode, text, call, graph, cap, pipe, qsum, draft, packed, away, slab, points,
                   first, strayed, used>>

\* llama_driver_finish of a request that was not committed: back to its base.
Fail ==
    LET c == Restored(base) IN
    /\ at \notin {"idle", "gone"} /\ Drained
    /\ Put(c) /\ saved' = base /\ kept' = NoQuery /\ base' = base
    /\ decode' = NoDecode /\ draft' = NoDraft /\ qsum' = EmptyBag
    /\ mode' = [mode EXCEPT !.pinned = FALSE, !.replay = FALSE, !.drafting = FALSE, !.frozen = FALSE]
    /\ turn' = NoTurn /\ call' = [call EXCEPT !.todo = <<>>] /\ at' = "idle"
    /\ UNCHANGED <<graph, cap, pipe, strayed, used>>

\* The adapter is destroyed: the worker is told to stop and joined.
Destroy ==
    /\ at = "idle"
    /\ work' = [work EXCEPT !.stop = TRUE] /\ at' = "gone"
    /\ UNCHANGED <<turn, mode, text, call, graph, cap, slots, nxt, curPos, means, qsum, decode, draft,
                   packed, away, slab, points, first, strayed, used>>

Queries(from, end) == {from .. last - 1 : last \in from .. end}

Engine ==
    \/ \E resume, same \in BOOLEAN, end \in 1 .. Rows - 1 : \E from \in 0 .. end :
          \E query \in IF same THEN {kept.rows} ELSE Queries(from, end) :
             StartTurn(resume, from, end, query, same)
    \/ \E out \in {o \in SUBSET Blocks : Cardinality(o) <= 1} :
          PrefillPrefix(out) \/ PrefillQuery(out) \/ \E replay \in BOOLEAN : Select(out, replay)
    \/ \E remember \in BOOLEAN : Checkpoint(remember) \/ Ready(remember)
    \/ Evaluate \/ ReplayQuery \/ DecodeOne
    \/ \E n \in 1 .. UB : DecodeDraft(n) \/ CommitDraft(n)
    \/ AbandonDraft \/ EndTurn \/ Fail \/ Destroy

Worker == Take \/ AddQ \/ AddK \/ FreeSlot \/ WorkerExit

Next == Engine \/ Worker \/ \E s \in {1, 2} : Land(s)

\* The copy engine and the worker thread keep running.
Spec == Init /\ [][Next]_vars /\ WF_vars(Worker) /\ \A s \in {1, 2} : WF_vars(Land(s))

-----------------------------------------------------------------------------
\* Nothing is under way.
Settled == Drained /\ ~strayed /\ call.todo = <<>>

\* Once the worker has nothing left and no decode mean is open, the mean of a
\* block is the sum of exactly its captured rows, each once and with the value
\* of its accepted evaluation: no draft that was refused, no row of an
\* abandoned request, nothing twice (mean-K of RawKvStore).
MeansExact ==
    Settled /\ decode = NoDecode /\ ~mode.drafting =>
        \A b \in Blocks :
            means[b].sum = SetToBag({<<p, first[p]>> : p \in {x \in Row :
                                        Block(x) = b /\ x < text.total /\ first[x] # 0}})

\* The row shares its micro-batch of the prefill with another: Q is captured by
\* graphs of several rows only.
InCompany(p) ==
    Least(UB, turn.end - turn.from - UB * ((p - turn.from) \div UB)) > 1

\* The rows of this request's query the sum must have by now.
QueryDue ==
    IF mode.frozen THEN turn.query ELSE {p \in turn.query : p < text.end /\ InCompany(p)}

\* Once the worker has nothing left, the query sum counts every evaluated row of
\* this request's query, each exactly once, whatever calls evaluated it (the
\* prefill, its replay) and whatever the worker had in hand when the request
\* began; until the replay, with the values of this request's prefill.  The one
\* row that is not counted is a last row alone in its micro-batch (q_sum_).
QueryExact ==
    Settled =>
        /\ {e[1] : e \in BagToSet(qsum)} = QueryDue
        /\ BagCardinality(qsum) = Cardinality(QueryDue)
        /\ at = "query" /\ ~mode.frozen => \A e \in BagToSet(qsum) : e[2] = text.val[e[1]]

\* A packed row is what the device holds for it, and a block without a device
\* slot has every accepted row packed (packed_complete).
PackedCurrent ==
    ~mode.drafting /\ call.todo = <<>> =>
        \A b \in Blocks :
            /\ \A o \in 0 .. packed[b].n - 1 : packed[b].rows[o] = text.val[b * BT + o]
            /\ b \in away => packed[b].n >= Packable(b, text)

\* A slot the engine filled is given back, and the worker ends once told to
\* (harvest_wait_slot, harvest_worker_stop).
Harvested ==
    /\ \A s \in {1, 2} : slots[s].inflight ~> ~slots[s].inflight
    /\ at = "gone" ~> work.step = "gone"
=============================================================================
