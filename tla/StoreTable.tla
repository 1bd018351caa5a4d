----------------------------- MODULE StoreTable -----------------------------
(***************************************************************************)
(* The choice of the conversation a request continues                      *)
(* (kvmem-conversation-store.h), and the catalog of checkpoints a          *)
(* conversation may be resumed from (prefix_checkpoint).  Pure operators.  *)
(*                                                                         *)
(* A match: [id, lcp, rows, live, gen, at, bytes, used, client], where at  *)
(* is the set of rows it has a checkpoint for.                             *)
(***************************************************************************)
EXTENDS Naturals, Sequences, FiniteSets, SequencesExt, FiniteSetsExt

CONSTANTS
    Slack,       \* rows a continuation may drop beside its last answer (64)
    Kept,        \* CheckpointLimits::count
    NoClient

\* The rows both texts begin with.
CommonPrefix(a, b) ==
    Max({0} \cup {n \in 1..Min({Len(a), Len(b)}) : SubSeq(a, 1, n) = SubSeq(b, 1, n)})

\* lru_order: least recently used first, ties by id.
LruOrder(used) ==
    SetToSortSeq(DOMAIN used, LAMBDA i, j : used[i] < used[j] \/ (used[i] = used[j] /\ i < j))

-----------------------------------------------------------------------------
(***************************************************************************)
(* kvmem_store_select: the conversation with the longest resumable prefix  *)
(* whose unmatched tail is no more than its last answer; else none (0).    *)
(***************************************************************************)
\* At least one prompt row is always evaluated (no MTP draft).
RestoreLimit(lcp, live, end) == Min({lcp, live, IF end = 0 THEN 0 ELSE end - 1})

Keep(m, end) == Max({0} \cup {r \in m.at : r <= RestoreLimit(m.lcp, m.live, end)})

Continues(m) == m.rows <= m.lcp + m.gen + Slack

Candidates(matches, client) ==
    LET bound == {m \in matches : client # NoClient /\ m.client = client} IN
    IF bound # {} THEN bound ELSE matches

Selection(matches, client, end) ==
    LET able == {m \in Candidates(matches, client) : Keep(m, end) > 0 /\ Continues(m)}
        better(m, n) == Keep(m, end) > Keep(n, end) \/ (Keep(m, end) = Keep(n, end) /\ m.used > n.used) IN
    IF able = {} THEN 0 ELSE (CHOOSE m \in able : \A n \in able \ {m} : ~better(n, m)).id

\* Mutant: the store about to be opened is not counted.
EvictionsUncounted(matches, target, attached, maxStores, maxBytes) ==
    LET order == LruOrder([i \in {m.id : m \in matches} \ {target, attached} |-> 0])
        over  == IF Cardinality(matches) > maxStores THEN 1 ELSE 0 IN
    SubSeq(order, 1, over)

\* kvmem_store_plan_evictions: the count cap first, then the byte cap, least
\* recently used first; never the target nor the attached conversation.
PlanEvictions(matches, target, attached, maxStores, maxBytes) ==
    LET of(i)   == CHOOSE m \in matches : m.id = i
        order   == LruOrder([i \in {m.id : m \in matches} \ {target, attached} |-> of(i).used])
        live    == Cardinality(matches) + (IF target = 0 THEN 1 ELSE 0)
        total(k) == FoldSet(LAMBDA m, n : n + m.bytes, 0, {m \in matches : m.id \notin {order[j] : j \in 1..k}})
        room(k) == live - k <= maxStores /\ (maxBytes # 0 => total(k) <= maxBytes)
        enough  == {k \in 0..Len(order) : room(k)} IN
    SubSeq(order, 1, IF enough = {} THEN Len(order) ELSE Min(enough))

-----------------------------------------------------------------------------
(***************************************************************************)
(* CheckpointCatalog.  A record: [row, data, why], why a set of purposes.  *)
(***************************************************************************)
\* select: the record nearest below the limit whose data is still valid; a
\* sequence of none or one.
Nearest(records, limit, valid) ==
    LET able == SelectSeq(records, LAMBDA c : c.row <= limit /\ c \in valid) IN
    IF able = <<>> THEN <<>>
    ELSE <<CHOOSE c \in ToSet(able) : \A d \in ToSet(able) : d.row <= c.row>>

Priority(c) == IF "anchor" \in c.why THEN 3 ELSE IF c.why # {} THEN 2 ELSE 1

\* retain_checkpoints, without a byte cap: the anchor, then the rows an input
\* ends at, then the rest; of equals the longest.
Retained(records) ==
    LET before(i, j) == \/ Priority(records[i]) > Priority(records[j])
                        \/ Priority(records[i]) = Priority(records[j]) /\
                              (records[i].row > records[j].row \/ (records[i].row = records[j].row /\ i < j))
        kept == {i \in DOMAIN records : Cardinality({j \in DOMAIN records : before(j, i)}) < Kept} IN
    [k \in 1..Cardinality(kept) |-> records[SetToSortSeq(kept, <)[k]]]

\* remember: a new frontier replaces every record at or past it, takes over the
\* purposes of its row, and is the only anchor.
Remember(records, new) ==
    LET here  == {c \in ToSet(records) : c.row = new.row}
        taken == [new EXCEPT !.why = @ \cup UNION {c.why : c \in here}]
        below == SelectSeq(records, LAMBDA c : c.row < new.row)
        plain == [k \in DOMAIN below |->
                    IF "anchor" \in taken.why THEN [below[k] EXCEPT !.why = @ \ {"anchor"}] ELSE below[k]] IN
    Retained(Append(plain, taken))

\* prefix_anchor: the reused prefix, cut to a row that splits no image.
Anchor(base, lcp, query, groups) ==
    LET wanted == Max({base, Min({lcp, query})})
        inside(a) == {g \in groups : g[1] < a /\ a < g[2]} IN
    IF inside(wanted) = {} THEN wanted ELSE Min({g[1] : g \in inside(wanted)})
=============================================================================
