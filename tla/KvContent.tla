------------------------------ MODULE KvContent ------------------------------
(***************************************************************************)
(* The content ledger of one conversation (kvmem/src/host/kv_content.cpp). *)
(* It certifies which rows of KV the engine has completed and accepted,    *)
(* gives every block a content version and the whole history a stamp, and  *)
(* leases logical prefixes to checkpoints.                                 *)
(*                                                                         *)
(* The class is used from one thread at engine-safe boundaries, so a step  *)
(* is one call.  A call whose check throws changes nothing and is no step. *)
(*                                                                         *)
(* rows is what the ledger speaks of: for each row the engine computed,    *)
(* the token it stands for and the evaluation that computed it.  Both are  *)
(* named by the revision of their completion, which no other evaluation    *)
(* has.  A row below the frontier keeps its token when it is computed      *)
(* again, as the header requires of execution replay.                      *)
(***************************************************************************)
EXTENDS Integers, Sequences, FiniteSets

CONSTANTS
    BlockTokens,
    MaxTokens,      \* bound for UINT32_MAX
    MaxRevision,    \* bound: history revisions a run may reach
    MaxView,        \* bound: publications stop at this view version
    Leases          \* holders of prefix leases (checkpoints)

ASSUME ContentAssumption ==
    /\ BlockTokens \in Nat \ {0}
    /\ MaxTokens \in Nat
    /\ MaxRevision \in Nat \ {0} /\ MaxView \in Nat

VARIABLES
    stamp,      \* stamp_
    reserved,   \* reserved_
    evaluated,  \* evaluated_
    versions,   \* versions_, by block; 0 when the block has no completed row
    leases,     \* what each holder was granted, and valid_ of its lease
    rows        \* the completed rows

contentVars == <<stamp, reserved, evaluated, versions, leases, rows>>

NoLease == [valid |-> FALSE, incarnation |-> 0, tokens |-> <<>>]

\* The constructor ends in reset.
Init ==
    /\ stamp = [valid |-> TRUE, incarnation |-> 1, history |-> 1, view |-> 1,
                execution |-> 1, frontier |-> 0]
    /\ reserved = 0 /\ evaluated = 0 /\ versions = <<>> /\ rows = <<>>
    /\ leases = [h \in Leases |-> NoLease]

\* Blocks that hold n rows, the last one perhaps in part.
BlocksOf(n) == (n + BlockTokens - 1) \div BlockTokens

\* versions_.resize.
Resized(n) ==
    [i \in 1 .. BlocksOf(n) |-> IF i \in DOMAIN versions THEN versions[i] ELSE 0]

\* versions_ is indexed from 1 here: entry i is block i - 1.
FirstRow(i) == (i - 1) * BlockTokens
ValidTokens(i) ==
    IF stamp.frontier - FirstRow(i) < BlockTokens THEN stamp.frontier - FirstRow(i) ELSE BlockTokens

\* Blocks of the accepted history, and block(id) for one of them.
Accepted == 1 .. BlocksOf(stamp.frontier)
Descriptor(i) ==
    [incarnation |-> stamp.incarnation, block |-> i, tokens |-> ValidTokens(i), version |-> versions[i]]

\* The bytes such a descriptor names.
BlockRows(i) == SubSeq(rows, FirstRow(i) + 1, FirstRow(i) + ValidTokens(i))

\* The logical prefix of n rows.
Prefix(n) == [k \in 1 .. n |-> rows[k].token]

\* revoke_prefixes(keep): what has been granted beyond keep is lost for good.
Revoke(keep) ==
    [h \in Leases |-> IF Len(leases[h].tokens) > keep THEN [leases[h] EXCEPT !.valid = FALSE]
                      ELSE leases[h]]

\* revoke_prefixes(0, true).
RevokeAll == [h \in Leases |-> [leases[h] EXCEPT !.valid = FALSE]]

\* contains(prefix).
Contains(h) ==
    /\ stamp.valid /\ leases[h].valid
    /\ leases[h].incarnation = stamp.incarnation
    /\ Len(leases[h].tokens) <= stamp.frontier

-----------------------------------------------------------------------------

\* reset.
Reset ==
    /\ stamp' = [stamp EXCEPT !.incarnation = @ + 1, !.history = @ + 1, !.execution = @ + 1,
                              !.view = @ + 1, !.valid = TRUE, !.frontier = 0]
    /\ reserved' = 0 /\ evaluated' = 0 /\ versions' = <<>> /\ rows' = <<>>
    /\ leases' = RevokeAll

\* invalidate.
Invalidate ==
    /\ stamp' = [stamp EXCEPT !.valid = FALSE]
    /\ leases' = RevokeAll
    /\ UNCHANGED <<reserved, evaluated, versions, rows>>

\* prefix(end), kept by holder h.  A lease the holder had before is dropped.
Grant(h, end) ==
    /\ stamp.valid /\ end <= stamp.frontier
    /\ leases' = [Revoke(stamp.frontier) EXCEPT
                    ![h] = [valid |-> TRUE, incarnation |-> stamp.incarnation, tokens |-> Prefix(end)]]
    /\ UNCHANGED <<stamp, reserved, evaluated, versions, rows>>

\* reserve(end): new blocks have no version.
Reserve(end) ==
    /\ stamp.valid /\ reserved <= end /\ end <= MaxTokens
    /\ versions' = Resized(end)
    /\ stamp' = IF reserved = end THEN stamp ELSE [stamp EXCEPT !.history = @ + 1]
    /\ reserved' = end
    /\ UNCHANGED <<evaluated, leases, rows>>

\* The rows after [begin, end) was computed under revision rev.
Computed(begin, end, rev) ==
    [k \in 1 .. (IF end < Len(rows) THEN Len(rows) ELSE end) |->
        IF begin < k /\ k <= end
        THEN [token |-> IF k <= stamp.frontier THEN rows[k].token ELSE rev, by |-> rev]
        ELSE rows[k]]

\* A completion that marks the last block only.
CompleteTailOnly(begin, end, accepted) ==
    /\ stamp.valid /\ begin <= stamp.frontier /\ begin < end /\ end <= reserved
    /\ LET rev == stamp.history + 1
       IN  /\ versions' = [versions EXCEPT ![BlocksOf(end)] = rev]
           /\ rows' = Computed(begin, end, rev)
           /\ evaluated' = IF end < evaluated THEN evaluated ELSE end
           /\ stamp' = [stamp EXCEPT !.history = rev,
                            !.frontier = IF accepted /\ end > @ THEN end ELSE @]
    /\ UNCHANGED <<reserved, leases>>

\* complete(begin, end, accepted), after the completion fence of the graph.
Complete(begin, end, accepted) ==
    /\ stamp.valid /\ begin <= stamp.frontier /\ begin < end /\ end <= reserved
    /\ LET rev == stamp.history + 1
       IN  /\ versions' = [i \in DOMAIN versions |->
                            IF begin \div BlockTokens < i /\ i <= BlocksOf(end) THEN rev ELSE versions[i]]
           /\ rows' = Computed(begin, end, rev)
           /\ evaluated' = IF end < evaluated THEN evaluated ELSE end
           /\ stamp' = [stamp EXCEPT !.history = rev,
                            !.frontier = IF accepted /\ end > @ THEN end ELSE @]
    /\ UNCHANGED <<reserved, leases>>

\* An acceptance that looks at reserved rows.
AcceptAnything(end) ==
    /\ stamp.valid /\ stamp.frontier <= end /\ end <= reserved
    /\ stamp' = [stamp EXCEPT !.frontier = end,
                              !.history = IF end = stamp.frontier THEN @ ELSE @ + 1]
    /\ UNCHANGED <<reserved, evaluated, versions, leases, rows>>

\* accept(end): speculative rows join the history.
Accept(end) ==
    /\ stamp.valid /\ stamp.frontier <= end /\ end <= evaluated
    /\ stamp' = [stamp EXCEPT !.frontier = end,
                              !.history = IF end = stamp.frontier THEN @ ELSE @ + 1]
    /\ UNCHANGED <<reserved, evaluated, versions, leases, rows>>

\* A truncation that revokes nothing.
TruncateKeepsLeases(end) ==
    /\ end < reserved
    /\ LET rev == stamp.history + 1
           partial == end % BlockTokens # 0 /\ end <= stamp.frontier
           atMost(n) == IF n < end THEN n ELSE end
       IN  /\ stamp' = [stamp EXCEPT !.history = rev, !.execution = @ + 1, !.frontier = atMost(@)]
           /\ reserved' = end /\ evaluated' = atMost(evaluated)
           /\ versions' = [i \in DOMAIN Resized(end) |->
                            IF partial /\ i = BlocksOf(end) THEN rev ELSE Resized(end)[i]]
           /\ rows' = SubSeq(rows, 1, atMost(Len(rows)))
    /\ UNCHANGED leases

\* truncate(end).  It does not ask whether the session is valid.
Truncate(end) ==
    /\ end < reserved
    /\ LET rev == stamp.history + 1
           partial == end % BlockTokens # 0 /\ end <= stamp.frontier
           atMost(n) == IF n < end THEN n ELSE end
       IN  /\ stamp' = [stamp EXCEPT !.history = rev, !.execution = @ + 1, !.frontier = atMost(@)]
           /\ reserved' = end /\ evaluated' = atMost(evaluated)
           /\ versions' = [i \in DOMAIN Resized(end) |->
                            IF partial /\ i = BlocksOf(end) THEN rev ELSE Resized(end)[i]]
           /\ rows' = SubSeq(rows, 1, atMost(Len(rows)))
    /\ leases' = Revoke(end)

\* change_execution.
ChangeExecution ==
    /\ stamp' = [stamp EXCEPT !.history = @ + 1, !.execution = @ + 1]
    /\ UNCHANGED <<reserved, evaluated, versions, leases, rows>>

\* publish(expected, next) with next = expected and the next view version.
Publish(expected) ==
    /\ stamp = expected
    /\ stamp' = [stamp EXCEPT !.view = @ + 1]
    /\ UNCHANGED <<reserved, evaluated, versions, leases, rows>>

Edit ==
    /\ stamp.history < MaxRevision
    /\ \/ Reset \/ ChangeExecution
       \/ \E end \in 0 .. MaxTokens : Reserve(end) \/ Accept(end) \/ Truncate(end)
       \/ \E begin, end \in 0 .. MaxTokens, accepted \in BOOLEAN : Complete(begin, end, accepted)

Next ==
    \/ Edit
    \/ Invalidate
    \/ stamp.view < MaxView /\ Publish(stamp)
    \/ \E h \in Leases, end \in 0 .. MaxTokens : Grant(h, end)

Spec == Init /\ [][Next]_contentVars

-----------------------------------------------------------------------------
(* Properties                                                               *)

Stamps == [valid : BOOLEAN, incarnation : Nat, history : Nat, view : Nat, execution : Nat,
           frontier : Nat]
Rows == [token : Nat, by : Nat]
Grants == [valid : BOOLEAN, incarnation : Nat, tokens : Seq(Nat)]

\* Shape of the variables.
TypeOK ==
    /\ stamp \in Stamps
    /\ reserved \in Nat /\ evaluated \in Nat
    /\ versions \in Seq(Nat)
    /\ rows \in Seq(Rows)
    /\ leases \in [Leases -> Grants]

\* The ledger never certifies what the engine has not computed: accepted rows
\* are evaluated, evaluated rows are reserved, and every block that holds one
\* has a version, so block() never refuses a block of the accepted history.
Certified ==
    /\ stamp.frontier <= evaluated /\ evaluated <= reserved
    /\ evaluated = Len(rows)
    /\ Len(versions) = BlocksOf(reserved)
    /\ \A i \in 1 .. BlocksOf(evaluated) : versions[i] \in 1 .. stamp.history

\* A prefix lease that the ledger still honours names the rows that are there:
\* truncation through it, reset and invalidation revoke it for good, even when
\* the history grows back; append and replay do not.
PrefixKept == \A h \in Leases : Contains(h) => leases[h].tokens = Prefix(Len(leases[h].tokens))

===============================================================================
