----------------------------- MODULE DriverTurn -----------------------------
(***************************************************************************)
(* One request on the conversation attached to an execution context        *)
(* (llama-kvmem-driver.cpp, the default path run_prefill_multimodal):      *)
(* restore the nearest checkpoint of the shared prefix, prefill the rest,  *)
(* replay the query over the retrieved rows, generate, and commit, or roll *)
(* back to the checkpoint the turn started from.                           *)
(*                                                                         *)
(* A row of the store is a token and the turn that evaluated it; the       *)
(* recurrent state is the rows it was computed from, or Garbage after a    *)
(* restore that failed half way.  The MTP draft is off.                    *)
(***************************************************************************)
EXTENDS StoreTable, TLC

CONSTANTS
    Prompts,     \* [text, media, query]: tokens, image groups, query rows
    Tokens,      \* tokens a model may generate
    Clients,     \* client ids
    MaxNew,      \* bound: generated tokens of a turn
    MaxTurns,    \* bound: requests in all
    MaxFaults,   \* bound: calls that fail and clients that leave
    None, Garbage

VARIABLES
    rows,        \* the attached store's rows
    recur,       \* the recurrent state of the context
    car,         \* the payload of the attached conversation
    turn,        \* the request being served
    rollback,    \* mm_rollback, or None when mm_committed
    turns, faults

turnVars == <<rows, recur, car, turn, rollback, turns, faults>>

Toks(content) == [k \in DOMAIN content |-> content[k].tok]
Upto(content, n) == SubSeq(content, 1, Min({n, Len(content)}))

\* What llama_driver_swap_conversation exchanges: the cached text, the
\* checkpoints, the row and the checkpoint the context is at, the captured
\* query and the length of the last answer.
Blank == [text |-> <<>>, ckpts |-> <<>>, live |-> 0, at |-> None, query |-> None, gen |-> 0]

Resting == [pc |-> "idle", prompt |-> None, client |-> NoClient, reset |-> FALSE, base |-> None, lcp |-> 0,
            asked |-> None, gen |-> <<>>, reused |-> FALSE, pending |-> None, start |-> <<>>]

Fault(happens) == faults' = faults + (IF happens THEN 1 ELSE 0) /\ faults' <= MaxFaults

\* llama_kvmem_tail_mean_valid: the checkpoint's prefix is of this history.
Valid == {c \in ToSet(car.ckpts) : IsPrefix(c.data.prefix, rows) /\ Len(c.data.prefix) = c.row}

EvalEnd == Len(turn.prompt.text)
Query(base) == Min({EvalEnd, Max({base, turn.prompt.query[1]} \cup {g[2] : g \in turn.prompt.media})})

\* llama_driver_clear: the attached store and its payload.
Clear == rows' = <<>> /\ recur' = <<>> /\ car' = Blank

-----------------------------------------------------------------------------
(***************************************************************************)
(* multimodal_restore and llama_driver_finish.                             *)
(***************************************************************************)
Live(c) == car.at = c.data /\ car.live = c.row

\* The recurrent state is read back unless it is the live one, the rows past
\* the checkpoint go, and the marks name it.
RestoredTo(c, truncate) ==
    [rows |-> IF truncate THEN Upto(rows, c.row) ELSE rows,
     recur |-> IF Live(c) THEN recur ELSE c.data.recur,
     car |-> [car EXCEPT !.live = c.row, !.at = c.data]]

\* It throws at once, in the recurrent copy, or on the rows (after the copy;
\* with the store cut or not).  The marks are then still the old ones.
RestoreFails(c, truncate) ==
    LET after == RestoredTo(c, truncate) IN
    {[rows |-> rows, recur |-> recur, car |-> car],
     [rows |-> rows, recur |-> IF Live(c) THEN recur ELSE Garbage, car |-> car],
     [rows |-> rows, recur |-> after.recur, car |-> car],
     [rows |-> after.rows, recur |-> after.recur, car |-> car]}

Put(s) == rows' = s.rows /\ recur' = s.recur /\ car' = s.car

\* The attached state as a value, which a failing step leaves changed.
Now == [rows |-> rows, recur |-> recur, car |-> car]

\* Mutant: the rows of the failed turn stay in the store.
FinishedUncut(s, back) ==
    [rows |-> s.rows, recur |-> back.data.recur,
     car |-> [s.car EXCEPT !.live = back.row, !.at = back.data, !.query = None, !.text = back.text,
                !.ckpts = Remember(s.car.ckpts, back)]]

\* llama_driver_finish on an uncommitted turn that left s.
Finished(s, back) ==
    LET at == s.car.at = back.data /\ s.car.live = back.row IN
    [rows |-> Upto(s.rows, back.row), recur |-> IF at THEN s.recur ELSE back.data.recur,
     car |-> [s.car EXCEPT !.live = back.row, !.at = back.data, !.query = None, !.text = back.text,
                !.ckpts = Remember(s.car.ckpts, back)]]

\* When the rollback fails too nothing is kept; even the clear may fail, which
\* leaves the rows beside an empty payload.
FinishCleared(s) ==
    {[rows |-> <<>>, recur |-> <<>>, car |-> Blank],
     [s EXCEPT !.car.text = <<>>, !.car.ckpts = <<>>, !.car.at = None, !.car.live = 0]}

\* A turn fails leaving s, with a checkpoint to go back to.
Fails(s, back) ==
    /\ \E hard \in BOOLEAN :
        /\ faults' = faults + (IF hard THEN 2 ELSE 1) /\ faults' <= MaxFaults
        /\ \E end \in IF hard \/ ~IsPrefix(back.data.prefix, s.rows) THEN FinishCleared(s)
                      ELSE {Finished(s, back)} : Put(end)
    /\ rollback' = None /\ turn' = Resting

-----------------------------------------------------------------------------
(***************************************************************************)
(* run_prefill_multimodal.                                                 *)
(***************************************************************************)
Selected ==
    Nearest(car.ckpts, RestoreLimit(CommonPrefix(car.text, turn.prompt.text), car.live, EvalEnd), Valid)

\* An explicit reset empties the conversation first (mm_reset_requested).
\* Without a checkpoint the request is a cache miss: all is cleared and the
\* empty state is the checkpoint the turn may roll back to.
Miss == turn.reset \/ Selected = <<>>
StartEmpty == [row |-> 0, data |-> [prefix |-> <<>>, recur |-> <<>>], why |-> {}]

PrefillStart ==
    LET base == IF Miss THEN StartEmpty ELSE Selected[1]
        text == IF Miss THEN <<>> ELSE SubSeq(car.text, 1, base.row) IN
    /\ turn.pc = "mapped"
    /\ rollback' = base @@ [text |-> text]
    /\ IF Miss THEN /\ rows' = <<>> /\ recur' = <<>>
                    /\ car' = [Blank EXCEPT !.at = StartEmpty.data]
               ELSE Put(RestoredTo(base, TRUE))
    /\ turn' = [turn EXCEPT !.pc = "prefix", !.base = base.row,
                 !.lcp = IF turn.reset THEN 0 ELSE CommonPrefix(car.text, turn.prompt.text), !.reset = FALSE,
                 !.asked = IF Miss THEN None ELSE car.query]
    /\ UNCHANGED <<turns, faults>>

\* The clear of a miss, or its checkpoint of the empty state, throws: nothing
\* is to be rolled back yet.
PrefillNotStarted ==
    /\ turn.pc = "mapped" /\ Miss /\ Fault(TRUE)
    /\ \/ Clear
       \/ UNCHANGED <<rows, recur, car>>
    /\ turn' = Resting
    /\ UNCHANGED <<rollback, turns>>

\* The restore throws with the rollback set: finish tries it again.
PrefillRestoreFails ==
    LET base == Selected[1] IN
    /\ turn.pc = "mapped" /\ ~Miss
    /\ \E s \in RestoreFails(base, TRUE) : Fails(s, base @@ [text |-> SubSeq(car.text, 1, base.row)])
    /\ UNCHANGED turns

\* The rows one decoded span adds, and the recurrent state that reads them.
Evaluated(from, to) == [k \in 1..(to - from) |-> [tok |-> turn.prompt.text[from + k], turn |-> turns]]
Extended(r, more) == IF r = Garbage THEN Garbage ELSE r \o more

\* An image is preceded by a checkpoint of its own.
Boundaries(from, to) == {g[1] : g \in turn.prompt.media} \cap from..(to - 1)

\* n rows from a row on: every decode takes the live mark away and advances
\* the live row.
Decoded(from, n) ==
    [rows |-> rows \o Evaluated(from, from + n), recur |-> Extended(recur, Evaluated(from, from + n)),
     car |-> IF n = 0 THEN car ELSE [car EXCEPT !.live = from + n, !.at = None]]

\* multimodal_checkpoint in a state s: shared with the live one.
TakenFrom(s, row) ==
    IF s.car.at # None /\ s.car.live = row THEN s.car.at ELSE [prefix |-> Upto(s.rows, row), recur |-> s.recur]

Marked(s, row, why) ==
    LET data == TakenFrom(s, row) IN
    [s EXCEPT !.car.at = data, !.car.ckpts = Remember(@, [row |-> row, data |-> data, why |-> why])]

\* multimodal_decode_span.
Spanned(from, n) ==
    LET image(b) == [row |-> b, data |-> TakenFrom(Decoded(from, b - from), b), why |-> {"media"}] IN
    [Decoded(from, n) EXCEPT
        !.car.ckpts = FoldLeft(LAMBDA acc, b : Remember(acc, image(b)), @,
                               SetToSortSeq(Boundaries(from, from + n), <))]

\* A poll, a decode or a checkpoint on the way fails after some of the rows,
\* never inside an image.
CutAt(from, to) == {n \in 0..(to - from) : \A g \in turn.prompt.media : ~(g[1] < from + n /\ from + n < g[2])}

\* The reused prefix up to the anchor.  The anchor's checkpoint is optional.
PrefillPrefix ==
    LET anchor == Anchor(turn.base, turn.lcp, Query(turn.base), turn.prompt.media)
        done   == Spanned(turn.base, anchor - turn.base) IN
    /\ turn.pc = "prefix"
    /\ \/ /\ \E taken \in BOOLEAN :
               /\ Fault(~taken /\ anchor > 0)
               /\ Put(IF anchor > 0 /\ taken THEN Marked(done, anchor, {"anchor"}) ELSE done)
          /\ turn' = [turn EXCEPT !.pc = "query", !.lcp = anchor]
          /\ UNCHANGED rollback
       \/ \E n \in CutAt(turn.base, anchor) : n < anchor - turn.base /\ Fails(Spanned(turn.base, n), rollback)
    /\ UNCHANGED turns

\* The query captured for an earlier turn may be asked again: its text is part
\* of the reused prefix.  Whether the window allows it is the adapter's answer.
MayReuse ==
    /\ turn.asked # None /\ IsPrefix(turn.asked, turn.prompt.text)
    /\ turn.base >= Len(turn.asked) /\ turn.prompt.query[2] = Len(turn.asked)

PrefillToQuery ==
    LET query == Query(turn.base)
        done  == Spanned(turn.lcp, query - turn.lcp) IN
    /\ turn.pc = "query"
    /\ \/ /\ Put(Marked(done, query, {"query"}))
          /\ \E reused \in IF MayReuse THEN BOOLEAN ELSE {FALSE} :
               turn' = [turn EXCEPT !.pc = "suffix", !.lcp = query, !.reused = reused,
                                    !.pending = IF reused THEN turn.asked ELSE None]
          /\ UNCHANGED <<rollback, faults>>
       \/ \E n \in CutAt(turn.lcp, query) : Fails(Spanned(turn.lcp, n), rollback)
    /\ UNCHANGED turns

\* The first pass over the query.  Then the selection is kept, found unchanged,
\* or applied, and the query replayed unless its rows do not fit.
PrefillSuffix ==
    LET query == turn.lcp IN
    /\ turn.pc = "suffix"
    /\ \/ /\ Put(Spanned(query, EvalEnd - query))
          /\ \E replay \in IF turn.reused \/ query = EvalEnd THEN {FALSE} ELSE BOOLEAN :
               turn' = [turn EXCEPT !.pc = IF replay THEN "replay" ELSE "accept"]
          /\ UNCHANGED <<rollback, faults>>
       \/ \E n \in CutAt(query, EvalEnd) : Fails(Spanned(query, n), rollback)
    /\ UNCHANGED turns

QueryCheckpoint == CHOOSE c \in ToSet(car.ckpts) : c.row = turn.lcp

\* Mutant: the query is replayed on the recurrent state that has read it.
ReplayUnrestored ==
    /\ turn.pc = "replay"
    /\ rows' = rows /\ recur' = Extended(recur, SubSeq(rows, turn.lcp + 1, EvalEnd))
    /\ car' = [car EXCEPT !.live = EvalEnd, !.at = None]
    /\ turn' = [turn EXCEPT !.pc = "accept"]
    /\ UNCHANGED <<rollback, turns, faults>>

\* The query again over the new working set: the rows stay, the recurrent
\* state goes back to the query's checkpoint and reads them once more.
Replay ==
    LET c == QueryCheckpoint
        s == RestoredTo(c, FALSE) IN
    /\ turn.pc = "replay"
    /\ \/ /\ rows' = rows /\ recur' = Extended(s.recur, SubSeq(rows, c.row + 1, EvalEnd))
          /\ car' = [s.car EXCEPT !.live = EvalEnd, !.at = IF EvalEnd > c.row THEN None ELSE @]
          /\ turn' = [turn EXCEPT !.pc = "accept"]
          /\ UNCHANGED <<rollback, faults>>
       \/ \E failed \in RestoreFails(c, FALSE) : Fails(failed, rollback)
       \/ \E n \in 0..(EvalEnd - c.row - 1) :
            Fails([s EXCEPT !.recur = Extended(@, SubSeq(rows, c.row + 1, c.row + n)),
                            !.car.live = c.row + n, !.car.at = IF n > 0 THEN None ELSE @], rollback)
    /\ UNCHANGED turns

\* The round is accepted and the end of the prompt remembered.  A query this
\* turn captured whole is kept for the next ones.  The handler then forgets the
\* live checkpoint, so that nothing generated is taken for it.
Accept ==
    LET captured == turn.prompt.query[1] >= turn.base /\ turn.prompt.query[2] <= EvalEnd IN
    /\ turn.pc = "accept"
    /\ \/ /\ Put([Marked(Now, EvalEnd, {}) EXCEPT !.car.at = None])
          /\ \E saved \in IF captured /\ ~turn.reused THEN BOOLEAN ELSE {FALSE} :
               turn' = [turn EXCEPT !.pc = "generate",
                          !.pending = IF saved THEN SubSeq(turn.prompt.text, 1, turn.prompt.query[2]) ELSE @]
          /\ UNCHANGED <<rollback, faults>>
       \/ Fails(Now, rollback)
    /\ UNCHANGED turns

-----------------------------------------------------------------------------
(***************************************************************************)
(* The answer, and llama_driver_commit.                                    *)
(***************************************************************************)
\* One token: sampled, decoded, delivered.  A decode that fails, or a client
\* that left, ends the turn.
Generate ==
    /\ turn.pc = "generate"
    /\ \/ /\ Len(turn.gen) < MaxNew
          /\ \E t \in Tokens :
               LET row == [tok |-> t, turn |-> turns] IN
               /\ rows' = Append(rows, row) /\ recur' = Extended(recur, <<row>>)
               /\ car' = [car EXCEPT !.live = Len(rows) + 1, !.at = None]
               /\ turn' = [turn EXCEPT !.gen = Append(@, t)]
          /\ UNCHANGED <<rollback, faults>>
       \/ Fails(Now, rollback)
    /\ UNCHANGED turns

\* The payload a committed turn leaves.
Committed ==
    LET live == Len(rows)
        s    == [Now EXCEPT !.car.live = live] IN
    [Marked(s, live, {}).car EXCEPT !.text = turn.prompt.text \o turn.gen, !.gen = Len(turn.gen),
                                    !.query = turn.pending]

\* multimodal_commit's checkpoint throws: the text is already the new one, and
\* finish takes it back.
CommitFails ==
    /\ turn.pc = "generate"
    /\ Fails([Now EXCEPT !.car.live = Len(rows), !.car.gen = Len(turn.gen),
                         !.car.text = turn.prompt.text \o turn.gen], rollback)
    /\ UNCHANGED turns

Turn ==
    \/ PrefillStart \/ PrefillNotStarted \/ PrefillRestoreFails
    \/ PrefillPrefix \/ PrefillToQuery \/ PrefillSuffix \/ Replay \/ Accept
    \/ Generate \/ CommitFails
=============================================================================
