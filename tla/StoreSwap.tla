----------------------------- MODULE StoreSwap -----------------------------
(***************************************************************************)
(* What the adapter does to one execution context when a conversation's    *)
(* host store is exchanged for another's (llama_memory_kvmem::swap_conv):  *)
(* the attached store is drained and moved out, the parked one is moved in *)
(* and restaged.  A store is abstracted to the history its rows belong to. *)
(***************************************************************************)
CONSTANT NoRows   \* the history of an empty store

\* table: the block table and host mirror; cells: the rows on the GPU;
\* stale: host_mirror_stale_; held: a replay or a prepared plan left open.
Empty == [table |-> NoRows, cells |-> NoRows, stale |-> FALSE, held |-> "no"]
Holding(history) == [Empty EXCEPT !.table = history, !.cells = history]

\* reset_policy empties the table and the mark; only a plan left open survives.
Cleared(e) == [Empty EXCEPT !.held = IF e.held = "plan" THEN "plan" ELSE "no"]

CanDrain(e) == e.held = "no" /\ ~e.stale

\* A store that cannot be drained is cleared before it is moved out.
Drainable(e) == IF CanDrain(e) THEN e ELSE Cleared(e)

\* The second attempt of the reset may fail too: the table then reads full
\* beside empty cells, and the mark says so.
ResetToEmpty(e) ==
    {Empty, [e EXCEPT !.cells = NoRows, !.stale = TRUE, !.held = "no"]}

\* The drain fails: neither store changes hands.  A plan left open always
\* fails it (the detach prepares a plan of its own).
DrainFails(e, parked) ==
    {[outcome |-> "throw", engine |-> x, parked |-> parked] : x \in ResetToEmpty(Drainable(e))}

\* Moved in, but its packed rows are missing or the restaging fails.
AttachMisses(e, parked) ==
    {[outcome |-> "miss", engine |-> x, parked |-> Drainable(e).table] :
        x \in ResetToEmpty(Holding(parked))}

Attaches(e, parked) ==
    IF parked = NoRows THEN {}
    ELSE {[outcome |-> "in", engine |-> Holding(parked), parked |-> Drainable(e).table]}

\* Every outcome of swap_conv: the engine after it, and the store handed back.
SwapConv(e, parked) ==
    DrainFails(e, parked) \cup
    IF Drainable(e).held = "plan" THEN {} ELSE AttachMisses(e, parked) \cup Attaches(e, parked)
=============================================================================
