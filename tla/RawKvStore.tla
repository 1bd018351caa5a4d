------------------------------ MODULE RawKvStore ------------------------------
(***************************************************************************)
(* The host copy of attention KV by logical block (host/raw_kv_store.cpp), *)
(* one layer of it: rows of two parts, K and V, ordered means, and the     *)
(* writer thread that moves full blocks to the legacy NVMe file.           *)
(*                                                                         *)
(* One owner thread calls the store; the harvest worker only adds means.   *)
(* A store is used with one family of writers: packed GPU rows (the        *)
(* product; K stays in RAM), FP16 rows, or opaque K rows (tests).  A call  *)
(* keeps mu_ over its blocks except while it waits for a flush.            *)
(* A row is the number of the write that produced it, 0 when blank.        *)
(***************************************************************************)
EXTENDS Integers, FiniteSets, Sequences, SequencesExt

CONSTANTS
    NB, BT,     \* blocks, tokens of a block
    Slots,      \* slots of the NVMe file
    MaxWrites,  \* bound: blocks written; the last call may write one more
    MaxFaults,  \* bound: failed I/O calls and refused allocations
    None

Part == {"K", "V"}
Blocks == 0 .. NB - 1
Offsets == 0 .. BT - 1

\* None is no array of rows.
ASSUME StoreAssumption == /\ NB \in Nat \ {0} /\ BT \in Nat \ {0}
                          /\ Slots \in Nat /\ MaxWrites \in Nat /\ MaxFaults \in Nat
                          /\ None \notin [Offsets -> Nat]

VARIABLES
    family,     \* the writers this store is used with
    blk,        \* blocks_: Blocks -> LayerBlk
    size,       \* blocks_.size()
    placed,     \* keys of the NVMe tier that have a slot
    q, batch,   \* q_, and the batch of the writer thread (inflight_)
    slab,       \* the writer's copy of the batch
    ioError,    \* io_error_
    io,         \* where the writer thread is
    stop,       \* stop_io_
    mu,         \* who keeps mu_ between steps
    op,         \* the owner's call
    saved,      \* the mean checkpoint the owner keeps
    \* history, for the properties
    truth,      \* last row written at each position of a part
    meanTruth,  \* last contribution to the mean at each position
    written, faults,
    lost        \* block parts whose read-back failed

vars == <<family, blk, size, placed, q, batch, slab, ioError, io, stop, mu,
          op, saved, truth, meanTruth, written, faults, lost>>
mem == <<blk, size, placed>>
queue == <<q, batch, slab, ioError>>
control == <<io, stop, mu>>
hist == <<truth, meanTruth, written, faults, lost>>

Positions == 0 .. NB * BT - 1
Blank == [o \in Offsets |-> 0]
FreshPart == [ram |-> None, tokens |-> 0, nvme |-> None, flushing |-> FALSE]
Fresh == [n |-> 0, meanTokens |-> 0, sum |-> {}, part |-> [p \in Part |-> FreshPart]]
Idle == [kind |-> "idle", pos |-> 0, end |-> 0]
NoMean == [pos |-> 0, tokens |-> 0, sum |-> {}]

Init ==
    /\ family \in {"packed", "f16", "rows"}
    /\ blk = [b \in Blocks |-> Fresh] /\ size = 0
    /\ placed = {}
    /\ q = <<>> /\ batch = <<>> /\ slab = <<>> /\ ioError = FALSE
    /\ io = "wait" /\ stop = FALSE /\ mu = "free"
    /\ op = Idle /\ saved = NoMean
    /\ truth = [p \in Part |-> [i \in Positions |-> 0]]
    /\ meanTruth = [i \in Positions |-> 0]
    /\ written = 0 /\ faults = 0 /\ lost = {}

Least(a, b) == IF a < b THEN a ELSE b
Most(a, b) == IF a > b THEN a ELSE b
NextWrite == written + 1

\* The valid count of a part: its own for packed rows, n_tokens otherwise.
Claimed(b, p) == IF family = "packed" THEN blk[b].part[p].tokens ELSE blk[b].n

\* What a copy_* call returns rows from: RAM, else the slot of the key (nvme
\* holds its rows while *_on_nvme is set).
Content(b, p) == LET x == blk[b].part[p] IN IF x.ram # None THEN x.ram ELSE x.nvme

\* Rows of a part exist up to here without a gap.
Length(p) == LET full == {i \in 1 .. size : \A b \in 0 .. i - 2 : Claimed(b, p) = BT}
             IN IF size = 0 THEN 0
                ELSE LET last == CHOOSE i \in full : \A j \in full : j <= i
                     IN (last - 1) * BT + Claimed(last - 1, p)

MeanLength == LET has == {b \in Blocks : b < size /\ blk[b].meanTokens > 0}
              IN IF has = {} THEN 0
                 ELSE LET last == CHOOSE b \in has : \A c \in has : c <= b
                      IN last * BT + blk[last].meanTokens

-----------------------------------------------------------------------------
(* Means: the sum is the set of contributions, one per token.               *)

\* add_mean_f32 on a block.
AddMean(x, off, take, w) ==
    LET rows == {<<o, w>> : o \in off .. off + take - 1}
    IN [x EXCEPT !.sum = IF off = 0 THEN rows ELSE @ \cup rows,
                 !.meanTokens = IF off = 0 THEN take ELSE Most(@, off + take)]

\* capture_mean_f16: the mean of the K rows, when they are FP16 and in RAM.
CaptureMean(x) ==
    IF family # "f16" \/ x.part["K"].ram = None \/ x.n = 0 THEN x
    ELSE [x EXCEPT !.sum = {<<o, x.part["K"].ram[o]>> : o \in 0 .. x.n - 1},
                   !.meanTokens = x.n]

-----------------------------------------------------------------------------
(* Writes and the flush queue                                               *)

\* K rows of a packed store are RAM only.
Flushable(p) == family # "packed" \/ p = "V"
Full(x, p) == Flushable(p) /\ x.n >= BT /\ x.part[p].ram # None
              /\ x.part[p].nvme = None /\ ~x.part[p].flushing

\* A flush that does not mark what it queued.
FlushUnmarked(st, b, p) ==
    IF st.thrown \/ ~Full(st.x, p) THEN st
    ELSE IF ioError \/ (<<b, p>> \notin st.placed /\ Cardinality(st.placed) = Slots)
         THEN [st EXCEPT !.thrown = TRUE]
    ELSE [st EXCEPT !.q = Append(@, <<b, p>>), !.placed = @ \cup {<<b, p>>}]

\* maybe_flush_k, maybe_flush_v and enqueue_flush on a block just written:
\* st is [x, q, placed, thrown].
Flush(st, b, p) ==
    IF st.thrown \/ ~Full(st.x, p) THEN st
    ELSE IF ioError THEN [st EXCEPT !.thrown = TRUE]
    ELSE IF <<b, p>> \notin st.placed /\ Cardinality(st.placed) = Slots
         THEN [st EXCEPT !.thrown = TRUE]
    ELSE [st EXCEPT !.x.part[p].flushing = TRUE,
                    !.q = Append(@, <<b, p>>), !.placed = @ \cup {<<b, p>>}]

\* The rows a partial write starts from: those in RAM, else read back from the
\* file (the result of the read is not looked at), else blank.
Base(b, p, readOk) ==
    IF blk[b].part[p].ram # None THEN blk[b].part[p].ram
    ELSE IF blk[b].part[p].nvme # None /\ readOk THEN blk[b].part[p].nvme ELSE Blank

\* The rows of one block in one write call.
Put(b, p, off, take, readOk) ==
    [blk[b].part[p] EXCEPT
        !.ram = [o \in Offsets |-> IF o \in off .. off + take - 1 THEN NextWrite
                                   ELSE Base(b, p, readOk)[o]],
        !.nvme = None, !.tokens = Most(@, off + take)]

Parts(kind) == CASE kind = "k_gpu" -> {"K"} [] kind = "v_gpu" -> {"V"}
                 [] kind = "k_rows" -> {"K"} [] OTHER -> {"K", "V"}
Kinds == CASE family = "packed" -> {"k_gpu", "v_gpu"}
           [] family = "f16" -> {"tokens", "tokens_f16"}
           [] OTHER -> {"k_rows"}

MayTake == mu \in {"free", "owner"}
MayFail == faults < MaxFaults
Finish == op' = Idle /\ mu' = "free"

\* n_tokens covers n rows of a block; a part keeps at most n of its rows.
Covering(x, n) == [x EXCEPT !.n = Most(@, n)]
Shortened(x, n) == [x EXCEPT !.tokens = Least(@, n)]

\* The mean a writer keeps beside its rows.
WriteMean(kind, x, off, take) ==
    CASE kind = "tokens" -> AddMean(x, off, take, NextWrite)
      [] kind = "tokens_f16" -> CaptureMean(x)
      [] OTHER -> x

\* A rewrite adds to the sum of a block again, so tokens are only appended.
BeginWrite(kind, pos, end) ==
    /\ op = Idle /\ ~stop /\ kind \in Kinds /\ pos < end /\ written < MaxWrites + (end - pos) \div (BT + 1)
    /\ \A p \in Parts(kind) :
         IF kind = "tokens" THEN pos = Length(p) ELSE pos <= Length(p)
    /\ op' = [kind |-> kind, pos |-> pos, end |-> end]
    /\ UNCHANGED <<family, mem, queue, control, saved, hist>>

\* One block of a write_layer_* call, under mu_.  A full tier and a sticky writer
\* error are thrown after the rows are in RAM, and end the call.
WriteChunk(kind, readOk) ==
    LET b == op.pos \div BT
        off == op.pos % BT
        take == Least(op.end - op.pos, BT - off)
        ps == Parts(kind)
        read == {p \in ps : blk[b].part[p].ram = None /\ blk[b].part[p].nvme # None}
        rows == [blk[b] EXCEPT
                    !.part = [p \in Part |-> IF p \in ps THEN Put(b, p, off, take, readOk)
                                             ELSE @[p]],
                    !.n = Most(@, off + take)]
        x == WriteMean(kind, rows, off, take)
        st0 == [x |-> x, q |-> q, placed |-> placed, thrown |-> FALSE]
        st1 == IF "K" \in ps THEN Flush(st0, b, "K") ELSE st0
        st == IF "V" \in ps THEN Flush(st1, b, "V") ELSE st1
    IN
    /\ op.kind = kind /\ MayTake
    /\ \A p \in ps : ~blk[b].part[p].flushing
    /\ readOk \/ (read # {} /\ MayFail)
    /\ written' = NextWrite
    /\ blk' = [blk EXCEPT ![b] = st.x] /\ size' = Most(size, b + 1)
    /\ q' = st.q /\ placed' = st.placed
    /\ io' = IF st.q # q /\ io = "asleep" THEN "wait" ELSE io
    /\ truth' = [p \in Part |-> [i \in Positions |->
                    IF p \in ps /\ i \in op.pos .. op.pos + take - 1 THEN NextWrite
                    ELSE truth[p][i]]]
    /\ meanTruth' = [i \in Positions |->
                    IF kind \in {"tokens", "tokens_f16"}
                       /\ i \in op.pos .. op.pos + take - 1 THEN NextWrite
                    ELSE meanTruth[i]]
    /\ IF readOk THEN UNCHANGED <<faults, lost>>
       ELSE /\ faults' = faults + 1 /\ lost' = lost \cup {<<b, p>> : p \in read}
    /\ IF st.thrown \/ op.pos + take = op.end THEN Finish
       ELSE op' = [op EXCEPT !.pos = @ + take] /\ mu' = "owner"
    /\ UNCHANGED <<family, batch, slab, ioError, stop, saved>>

WriteLayerTokens(readOk) == WriteChunk("tokens", readOk)
WriteLayerTokensF16(readOk) == WriteChunk("tokens_f16", readOk)
WriteLayerKRows(readOk) == WriteChunk("k_rows", readOk)
WriteLayerVGpu(readOk) == WriteChunk("v_gpu", readOk)
WriteLayerKGpu == WriteChunk("k_gpu", TRUE)

\* cv_.wait inside a call releases the mutex until a batch is published.
WriteWaits ==
    /\ op.kind \in Kinds /\ mu = "owner"
    /\ \E p \in Parts(op.kind) : blk[op.pos \div BT].part[p].flushing
    /\ mu' = "free"
    /\ UNCHANGED <<family, mem, queue, io, stop, op, saved, hist>>

\* Shared payload storage refuses memory for a record: the call ends before
\* it changes the block.
WriteRefused ==
    /\ op.kind \in {"k_gpu", "v_gpu"} /\ MayTake /\ MayFail
    /\ \A p \in Parts(op.kind) : LET x == blk[op.pos \div BT].part[p]
                                 IN ~x.flushing /\ (x.ram = None \/ x.tokens = BT)
    /\ faults' = faults + 1 /\ Finish
    /\ UNCHANGED <<family, mem, queue, io, stop, saved, truth, meanTruth, written, lost>>

\* write_layer_mean_k by the harvest worker, or write_layer_mean_sum: it does
\* not wait, and moves n_tokens ahead of the rows.
WriteMeanK(take) ==
    LET b == MeanLength \div BT
        off == MeanLength % BT
    IN
    /\ family = "packed" /\ ~stop /\ mu = "free" /\ written < MaxWrites
    /\ op.kind # "restore"
    /\ b \in Blocks /\ take \in 1 .. BT - off
    /\ written' = NextWrite
    /\ blk' = [blk EXCEPT ![b] = AddMean(Covering(blk[b], off + take), off, take, NextWrite)]
    /\ size' = Most(size, b + 1)
    /\ meanTruth' = [i \in Positions |->
            IF i \in MeanLength .. MeanLength + take - 1 THEN NextWrite ELSE meanTruth[i]]
    /\ UNCHANGED <<family, placed, queue, control, op, saved, truth, faults, lost>>

-----------------------------------------------------------------------------
(* Calls that wait for the writer thread                                    *)

\* Later contributions than pos are no longer in the block after a truncation,
\* so the mean of a tail is restored from the checkpoint taken at its end.
Restorable(pos) == pos % BT = 0 \/ saved.pos = pos

BeginCall(kind, pos) ==
    /\ op = Idle /\ ~stop /\ kind \in {"truncate", "invalidate", "clear", "copy", "wait"}
    /\ kind = "truncate" /\ family # "f16" => Restorable(pos)
    /\ kind \in {"clear", "wait"} => pos = 0
    /\ kind = "copy" => pos < size
    /\ op' = [kind |-> kind, pos |-> pos, end |-> pos]
    /\ UNCHANGED <<family, mem, queue, control, saved, hist>>

Drained == q = <<>> /\ batch = <<>> /\ mu = "free"

\* wait_writes, also as the first thing truncate_to and invalidate_packed_from
\* do: it throws the writer's error when the queue is drained.
WaitWrites ==
    /\ op.kind \in {"wait", "truncate", "invalidate"} /\ Drained
    /\ op.kind = "wait" \/ ioError
    /\ op' = Idle
    /\ UNCHANGED <<family, mem, queue, control, saved, hist>>

\* A truncation that shortens the count of the mean and keeps its sum.
TailKeepsSum(b, tail, readOk) ==
    [blk[b] EXCEPT !.n = Least(@, tail), !.meanTokens = Least(@, tail),
                   !.part = [p \in Part |-> Shortened(@[p], tail)]]

\* The last block after truncate_to keeps tail rows of each part; a mean that
\* covers more is dropped, and made again from FP16 rows, which come back to RAM.
TailOf(b, tail, readOk) ==
    LET cut == [blk[b] EXCEPT !.n = Least(@, tail),
                    !.part = [p \in Part |-> Shortened(@[p], tail)]]
        k == cut.part["K"]
        back == IF family = "f16" /\ k.ram = None /\ k.nvme # None
                THEN [cut EXCEPT !.part["K"].nvme = None,
                                 !.part["K"].ram = IF readOk THEN k.nvme ELSE None]
                ELSE cut
    IN IF cut.meanTokens <= tail THEN cut
       ELSE CaptureMean([back EXCEPT !.sum = {}, !.meanTokens = 0])

Truncate(readOk) ==
    LET keep == (op.pos + BT - 1) \div BT
        tail == op.pos % BT
    IN
    /\ op.kind = "truncate" /\ Drained /\ ~ioError
    /\ readOk \/ (family = "f16" /\ MayFail /\ tail # 0 /\ keep = size
                  /\ blk[keep - 1].part["K"].nvme # None)
    /\ size' = Least(size, keep)
    /\ blk' = [b \in Blocks |-> IF b >= keep THEN Fresh
                                ELSE IF b = keep - 1 /\ keep <= size /\ tail # 0
                                     THEN TailOf(b, tail, readOk)
                                ELSE blk[b]]
    /\ IF readOk THEN UNCHANGED <<faults, lost>>
       ELSE faults' = faults + 1 /\ lost' = lost \cup {<<keep - 1, "K">>}
    /\ truth' = [p \in Part |-> [i \in Positions |-> IF i < op.pos THEN truth[p][i] ELSE 0]]
    /\ meanTruth' = [i \in Positions |-> IF i < op.pos THEN meanTruth[i] ELSE 0]
    /\ saved' = IF saved.pos > op.pos THEN NoMean ELSE saved
    /\ op' = IF family = "packed" /\ tail # 0 THEN [op EXCEPT !.kind = "restore"] ELSE Idle
    /\ UNCHANGED <<family, placed, queue, control, written>>

\* mean_checkpoint, taken by the owner while the tail ends at pos.
MeanCheckpoint ==
    /\ op = Idle /\ ~stop /\ mu = "free" /\ family = "packed"
    /\ MeanLength % BT # 0 /\ saved.pos # MeanLength
    /\ LET x == blk[MeanLength \div BT]
       IN saved' = [pos |-> MeanLength, tokens |-> x.meanTokens, sum |-> x.sum]
    /\ UNCHANGED <<family, mem, queue, control, op, hist>>

\* restore_mean_checkpoint, which follows the truncation to its position.
RestoreMean ==
    LET b == op.pos \div BT
    IN
    /\ op.kind = "restore" /\ mu = "free"
    /\ blk' = [blk EXCEPT ![b].meanTokens = saved.tokens, ![b].sum = saved.sum]
    /\ size' = Most(size, b + 1) /\ op' = Idle
    /\ UNCHANGED <<family, placed, queue, control, saved, hist>>

\* invalidate_packed_from.
InvalidatePacked ==
    LET first == op.pos \div BT
    IN
    /\ op.kind = "invalidate" /\ Drained /\ ~ioError
    /\ blk' = [b \in Blocks |->
          IF b >= size \/ b < first THEN blk[b]
          ELSE [blk[b] EXCEPT !.part = [p \in Part |->
                  Shortened(@[p], IF b = first THEN op.pos % BT ELSE 0)]]]
    /\ op' = Idle
    /\ UNCHANGED <<family, size, placed, queue, control, saved, hist>>

\* clear also forgets the writer's error.
Clear ==
    /\ op.kind = "clear" /\ Drained
    /\ blk' = [b \in Blocks |-> Fresh] /\ size' = 0
    /\ placed' = {} /\ ioError' = FALSE /\ saved' = NoMean /\ op' = Idle
    /\ truth' = [p \in Part |-> [i \in Positions |-> 0]]
    /\ meanTruth' = [i \in Positions |-> 0] /\ lost' = {}
    /\ UNCHANGED <<family, q, batch, slab, control, written, faults>>

\* copy_k, copy_v, copy_k_rows, copy_v_gpu wait for the block's own flush.
CopyRows ==
    /\ op.kind = "copy" /\ mu = "free"
    /\ \A p \in Part : ~blk[op.pos \div BT].part[p].flushing
    /\ op' = Idle
    /\ UNCHANGED <<family, mem, queue, control, saved, hist>>

-----------------------------------------------------------------------------
(* io_loop                                                                  *)

\* The head of the loop, under mu_: take the queue, leave, or test the
\* condition of the wait as false.
IoTest ==
    /\ io = "wait" /\ mu = "free"
    /\ IF q # <<>> THEN /\ batch' = q /\ q' = <<>> /\ io' = "copy" /\ UNCHANGED mu
       ELSE /\ io' = IF stop THEN "ended" ELSE "tested"
            /\ mu' = IF stop THEN mu ELSE "io"
            /\ UNCHANGED <<q, batch>>
    /\ UNCHANGED <<family, mem, slab, ioError, stop, op, saved, hist>>

\* The wait itself: from here a notification is received.
IoSleep ==
    /\ io = "tested" /\ io' = "asleep" /\ mu' = "free"
    /\ UNCHANGED <<family, mem, queue, stop, op, saved, hist>>

\* The batch is copied from the blocks' own buffers, without mu_.
IoCopy ==
    /\ io = "copy"
    /\ slab' = [i \in DOMAIN batch |-> blk[batch[i][1]].part[batch[i][2]].ram]
    /\ io' = "write"
    /\ UNCHANGED <<family, mem, q, batch, ioError, stop, mu, op, saved, hist>>

InBatch(b, p) == <<b, p>> \in Range(batch)
Landed(b, p) == [blk[b].part[p] EXCEPT !.flushing = FALSE, !.ram = None,
                    !.nvme = slab[CHOOSE i \in DOMAIN batch : batch[i] = <<b, p>>]]

\* Failed writes: rows freed all the same, and a mark that stays.
RefusedFrees(b, p) == [blk[b].part[p] EXCEPT !.flushing = FALSE, !.ram = None, !.nvme = Blank]
RefusedStaysMarked(b, p) == blk[b].part[p]

Refused(b, p) == [blk[b].part[p] EXCEPT !.flushing = FALSE]

\* The slab is written, then the batch published under mu_ and everybody
\* notified.  After a failure every later batch fails, until clear.
IoPublish(ok) ==
    /\ io = "write" /\ mu = "free"
    /\ ok => ~ioError
    /\ ~ok => ioError \/ MayFail
    /\ ioError' = ~ok
    /\ faults' = IF ok \/ ioError THEN faults ELSE faults + 1
    /\ blk' = [b \in Blocks |-> [blk[b] EXCEPT !.part = [p \in Part |->
                  IF ~InBatch(b, p) THEN @[p]
                  ELSE IF ok THEN Landed(b, p) ELSE Refused(b, p)]]]
    /\ batch' = <<>> /\ slab' = <<>> /\ io' = "wait"
    /\ UNCHANGED <<family, size, placed, q, stop, mu, op, saved, truth, meanTruth, written, lost>>

\* ~RawKvStore sets stop_io_, notifies without mu_, and joins.
Destroy ==
    /\ op = Idle /\ ~stop
    /\ stop' = TRUE /\ op' = [Idle EXCEPT !.kind = "notify"]
    /\ UNCHANGED <<family, mem, queue, io, mu, saved, hist>>

DestroyNotify ==
    /\ op.kind = "notify" /\ op' = [Idle EXCEPT !.kind = "join"]
    /\ io' = IF io = "asleep" THEN "wait" ELSE io
    /\ UNCHANGED <<family, mem, queue, stop, mu, saved, hist>>

Destroyed ==
    /\ op.kind = "join" /\ io = "ended" /\ op' = [Idle EXCEPT !.kind = "gone"]
    /\ UNCHANGED <<family, mem, queue, control, saved, hist>>

-----------------------------------------------------------------------------

OwnerStep == \/ \E ok \in BOOLEAN : \/ WriteLayerTokens(ok) \/ WriteLayerTokensF16(ok)
                                   \/ WriteLayerKRows(ok) \/ WriteLayerVGpu(ok) \/ Truncate(ok)
             \/ WriteLayerKGpu \/ WriteWaits \/ WriteRefused \/ WaitWrites \/ RestoreMean
             \/ InvalidatePacked \/ Clear \/ CopyRows \/ DestroyNotify \/ Destroyed
IoStep == IoTest \/ IoSleep \/ IoCopy \/ \E ok \in BOOLEAN : IoPublish(ok)

Next ==
    \/ \E pos \in Positions, end \in 1 .. NB * BT : \E kind \in Kinds : BeginWrite(kind, pos, end)
    \/ \E pos \in Positions : \E kind \in {"truncate", "invalidate", "clear", "copy", "wait"} :
         BeginCall(kind, pos)
    \/ \E take \in 1 .. BT : WriteMeanK(take)
    \/ MeanCheckpoint \/ Destroy \/ OwnerStep \/ IoStep

Spec == Init /\ [][Next]_vars

\* The owner and the writer thread run whenever they can.
FairSpec == Spec /\ WF_vars(OwnerStep) /\ WF_vars(IoStep)

-----------------------------------------------------------------------------
(* Properties                                                               *)

\* A part is marked flushing exactly while one job for it is queued or in the
\* batch, its rows are still in RAM, and after the store is gone nothing is
\* left that the writer thread could touch.
FlushMarked ==
    /\ \A b \in Blocks, p \in Part :
        /\ Cardinality({i \in DOMAIN q : q[i] = <<b, p>>})
             + Cardinality({i \in DOMAIN batch : batch[i] = <<b, p>>})
             = (IF blk[b].part[p].flushing THEN 1 ELSE 0)
        /\ blk[b].part[p].flushing => blk[b].part[p].ram # None /\ <<b, p>> \in placed
    /\ op.kind = "gone" => q = <<>> /\ batch = <<>>

\* A row the store claims is the last one written at its position, whether it
\* is in RAM or went to the file, whatever failed: only a read-back that
\* failed leaves a blank one.  And the marks that guard the buffers are exact.
RowsCurrent ==
    /\ FlushMarked
    /\ \A b \in 0 .. size - 1, p \in Part :
        Content(b, p) # None =>
            \A o \in 0 .. Claimed(b, p) - 1 :
                \/ Content(b, p)[o] = truth[p][b * BT + o]
                \/ Content(b, p)[o] = 0 /\ <<b, p>> \in lost

\* The mean of a block is the mean of exactly the tokens it counts, each with
\* its last value, also after a truncation inside the block.
MeanExact ==
    op.kind # "restore" =>
        \A b \in 0 .. size - 1 :
            <<b, "K">> \in lost \/
            blk[b].sum = {<<o, meanTruth[b * BT + o]>> : o \in 0 .. blk[b].meanTokens - 1}

\* While the writer may read a block's buffer without the mutex, nobody else
\* changes or frees it.
FlushExcludesMutation ==
    [][\A b \in Blocks, p \in Part :
         InBatch(b, p) /\ <<b, p>> \in Range(batch')
            => blk'[b].part[p].ram = blk[b].part[p].ram]_vars

\* Every call that waits for the writer returns, also after a write failed, and
\* so does the destructor, except in one order: it sets the stop flag and
\* notifies without the mutex, and a writer that has just found the flag unset
\* and the queue empty goes to sleep behind the notification, for ever.
CallsReturn ==
    op.kind \notin {"idle", "gone"} ~>
        op.kind \in {"idle", "gone"} \/ (op.kind = "join" /\ io = "asleep" /\ q = <<>>)

===============================================================================
