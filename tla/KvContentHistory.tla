--------------------------- MODULE KvContentHistory ---------------------------
(***************************************************************************)
(* KvContent beside somebody who once looked at it and compares later: the *)
(* host copy of a block that is trusted while its version is current       *)
(* (plan_working_set, memory_contract.cpp), a plan that is trusted while   *)
(* the stamp is (MemorySession::require_current), a checkpoint.            *)
(***************************************************************************)
EXTENDS KvContent

VARIABLE kept   \* what the observer remembers, none at first

Nothing == [taken |-> FALSE]

HInit == Init /\ kept = Nothing

Remember ==
    /\ stamp.valid /\ ~kept.taken /\ stamp.frontier > 0
    /\ kept' = [taken |-> TRUE, stamp |-> stamp, rows |-> SubSeq(rows, 1, stamp.frontier),
                blocks |-> [i \in Accepted |-> Descriptor(i)],
                bytes |-> [i \in Accepted |-> BlockRows(i)]]
    /\ UNCHANGED contentVars

HNext == Remember \/ (Next /\ UNCHANGED kept)

HSpec == HInit /\ [][HNext]_<<contentVars, kept>>

-----------------------------------------------------------------------------
(* Properties                                                               *)

\* What the ledger hands out names the history.  Whoever kept a copy under a
\* descriptor that block() still returns holds the rows the block has now, and
\* while the stamp is the one a plan expects, every accepted row is the one the
\* plan was made for.
NamesHistory ==
    /\ kept.taken /\ stamp.valid =>
        \A i \in Accepted \cap DOMAIN kept.blocks :
            Descriptor(i) = kept.blocks[i] => BlockRows(i) = kept.bytes[i]
    /\ kept.taken /\ stamp = kept.stamp => SubSeq(rows, 1, stamp.frontier) = kept.rows

===============================================================================
