------------------------- MODULE LaneConversations -------------------------
(***************************************************************************)
(* The catalog of conversations behind the server's lanes                  *)
(* (kvmem_lane_conversations): every lane runs one request at a time on    *)
(* the conversation resident on it, and a request may exchange that        *)
(* conversation for a parked one.  The catalog mutex covers each action;   *)
(* between two actions of a request the other lanes run.                   *)
(*                                                                         *)
(* A history is the conversation it belongs to: a request for c extends an *)
(* entry whose committed history is c.  A client id is independent of the  *)
(* history, as clients may send any text under any id.  The pool's queue   *)
(* order is LanePool's; here a queued request may be chosen in any order.  *)
(***************************************************************************)
EXTENDS Naturals, FiniteSets, TLC

CONSTANTS
    Requests, Histories, Keys,
    Lanes,        \* 1..n
    MaxEntries,   \* bound: catalog entries alive at once
    Limit,        \* --kvmem-sessions, inactive histories
    TotalLimit,   \* --kvmem-conversations, stores in all (the older option)
    Budget,       \* payload_budget_ in stores
    DiskModes,    \* the modes that run with a spill file
    MaxArrivals,  \* bound: requests in all
    MaxFaults,    \* bound: requests that leave or fail after their selection
    Modes,        \* subset of {"inactive", "total"}
    NoRows, NoKey

ASSUME LanesAssumption ==
    /\ {MaxEntries, Limit, TotalLimit, Budget, MaxArrivals, MaxFaults} \subseteq Nat
    /\ \E n \in 0..MaxEntries : Lanes = 1..n /\ n <= TotalLimit
    /\ Modes \subseteq {"inactive", "total"} /\ NoRows \notin Histories /\ NoKey \notin Keys

VARIABLES
    mode,      \* inactive_limit_, fixed at start
    entries,   \* entries_
    older,     \* the order of entry::used: the first of a pair was used before the second
    resident,  \* resident_
    engine,    \* the execution context of a lane
    tokens,    \* the history ServerState::cached_tokens spells
    op,        \* per request: its handler, its operation and its reference
    arrivals, faults

vars == <<mode, entries, older, resident, engine, tokens, op, arrivals, faults>>
catalog == <<entries, older, resident>>
lanes == <<engine, tokens>>

Fault(happens) == faults' = faults + (IF happens THEN 1 ELSE 0) /\ faults' <= MaxFaults

INSTANCE StoreSwap

Ids == 1..MaxEntries

\* An entry: committed is what selection believes, payload and parked what a
\* detached conversation keeps (tokens and host store), frozen its demotion.
NewEntry(lane) ==
    [lane |-> lane, busy |-> FALSE, switching |-> FALSE, key |-> NoKey, committed |-> NoRows,
     payload |-> NoRows, parked |-> NoRows, frozen |-> FALSE, reserved |-> FALSE]

Away == [pc |-> "away", want |-> NoRows, key |-> NoKey, reset |-> FALSE, ref |-> 0, pinned |-> FALSE,
         lane |-> 0, id |-> 0, out |-> 0, fresh |-> FALSE, added |-> FALSE, attached |-> FALSE, ready |-> FALSE]

Init ==
    /\ mode \in Modes
    /\ resident = [l \in Lanes |-> l] /\ entries = [i \in Lanes |-> NewEntry(i)]
    /\ older = {p \in Lanes \X Lanes : p[1] < p[2]}
    /\ engine = [l \in Lanes |-> Empty] /\ tokens = [l \in Lanes |-> NoRows]
    /\ op = [r \in Requests |-> Away] /\ arrivals = 0 /\ faults = 0

-----------------------------------------------------------------------------
Disk == mode \in DiskModes

\* Pins protect an entry from enforce_bytes and reserve_payload only.
View == <<mode, catalog, lanes, arrivals, faults,
          [r \in Requests |-> IF mode = "total" \/ Disk THEN op[r]
                             ELSE [op[r] EXCEPT !.ref = 0, !.pinned = FALSE]]>>

Symmetry == Permutations(Requests) \cup Permutations(Histories)

Known == DOMAIN entries
Leased == {op[r].lane : r \in {x \in Requests : op[x].lane # 0}}
Eligible(i) ==
    /\ ~entries[i].busy /\ ~entries[i].switching
    /\ entries[i].lane \notin Leased
Protected(i) ==
    \E r \in Requests : op[r].pinned /\ (op[r].ref = i \/ (op[r].key # NoKey /\ op[r].key = entries[i].key))

Erased(f, gone) == [i \in DOMAIN f \ gone |-> f[i]]

\* The n entries of S used least recently.
Oldest(n, S, order) == {i \in S : Cardinality({j \in S : <<j, i>> \in order}) < n}
Among(S, order) == {p \in order : p[1] \in S /\ p[2] \in S}

\* plan_locked: an entry that continues the wanted history, among those of the
\* client id when there is one; 0 when only a fresh store will do.
Named(o) == {i \in Known : o.key # NoKey /\ entries[i].key = o.key}
Plans(o) ==
    LET best == {i \in IF Named(o) # {} THEN Named(o) ELSE Known : entries[i].committed = o.want} IN
    IF o.reset \/ best = {} THEN {0} ELSE best

\* The handler registers the client id, previews a plan and pins its entry (one
\* step: nothing of the catalog is used in between).
Arrive(r, want, key, reset) ==
    LET here == [Away EXCEPT !.pc = "queued", !.want = want, !.key = key, !.reset = reset, !.pinned = TRUE] IN
    /\ op[r].pc = "away" /\ arrivals < MaxArrivals
    /\ arrivals' = arrivals + 1
    /\ \E i \in Plans(here) : op' = [op EXCEPT ![r] = [here EXCEPT !.ref = i]]
    /\ UNCHANGED <<mode, catalog, lanes, faults>>

GiveUp(r) ==
    /\ op[r].pc = "queued" /\ op' = [op EXCEPT ![r] = Away]
    /\ UNCHANGED <<mode, arrivals, catalog, lanes, faults>>

\* The entry select settles on: the plan's, the client id's, an empty one, at
\* the total limit the least recently used, else a new one (0).
Blank == {i \in Known : entries[i].key = NoKey /\ entries[i].committed = NoRows /\ Eligible(i)}
OldestFree == Oldest(1, {i \in Known : Eligible(i) /\ ~Protected(i)}, older)

Settled(r, plan) ==
    IF plan # 0 THEN {plan}
    ELSE IF Named(op[r]) # {} THEN Named(op[r])
    ELSE IF Blank # {} THEN Blank
    ELSE IF mode = "total" /\ Cardinality(Known) >= TotalLimit THEN OldestFree
    ELSE {0}

\* Mutant: an entry in use is taken as well.
ChosenBusy(r, plan) == Settled(r, plan)

Chosen(r, plan) == {i \in Settled(r, plan) : i = 0 \/ Eligible(i)}

\* A new id is the least that names nothing (the code's ids never repeat).
FreeIds == Ids \ (Known \cup UNION {{op[r].id, op[r].out, op[r].ref} : r \in Requests})
NewIds == {i \in FreeIds : \A j \in FreeIds : i <= j}

IdleLanes == {l \in Lanes \ Leased : ~entries[resident[l]].busy /\ ~entries[resident[l]].switching}

\* select with reserve set, under the pool's mutex and the catalog's; asking
\* for missing media first (-2) changes nothing and is left to LanePool.
Select(r) ==
    /\ op[r].pc = "queued"
    /\ op[r].key # NoKey => \A x \in Requests : op[x].lane # 0 => op[x].key # op[r].key
    /\ \E plan \in Plans(op[r]) : \E old \in Chosen(r, plan) :
         LET home == IF old = 0 THEN 0 ELSE entries[old].lane IN
         /\ \E l \in IF home # 0 THEN {home} ELSE IdleLanes :
            \E i \in IF old # 0 THEN {old} ELSE NewIds :
              LET added == [x \in Known \cup {i} |-> IF x \in Known THEN entries[x] ELSE NewEntry(0)]
                  taken == [added EXCEPT ![i].busy = TRUE] IN
              /\ entries' = IF i = resident[l] THEN taken
                            ELSE [taken EXCEPT ![resident[l]].switching = TRUE]
              /\ older' = IF old # 0 THEN older ELSE older \cup ({i} \X Known)
              /\ op' = [op EXCEPT ![r] = [@ EXCEPT !.pc = "leased", !.lane = l, !.id = i,
                           !.out = resident[l], !.fresh = (plan = 0), !.added = (old = 0), !.reset = FALSE]]
    /\ UNCHANGED <<mode, arrivals, resident, lanes, faults>>

-----------------------------------------------------------------------------
(***************************************************************************)
(* attach.  The two bundles and payloads are exchanged without the catalog *)
(* mutex; only busy and switching keep the others away from both entries.  *)
(***************************************************************************)
Failed(r) == op' = [op EXCEPT ![r] = [@ EXCEPT !.pc = "done", !.want = NoRows]]

\* The client left before the attach, a demoted payload cannot be read back, or
\* the store of a fresh turn cannot be cleared.
NotAttached(r) ==
    /\ op[r].pc = "leased" /\ Failed(r) /\ Fault(TRUE)
    /\ UNCHANGED <<mode, arrivals, catalog, lanes>>

AttachSame(r) ==
    LET o == op[r] IN
    /\ o.pc = "leased" /\ o.id = o.out
    /\ engine' = [engine EXCEPT ![o.lane] = IF o.fresh THEN Cleared(@) ELSE @]
    /\ tokens' = [tokens EXCEPT ![o.lane] = IF o.fresh THEN NoRows ELSE @]
    /\ op' = [op EXCEPT ![r] = [@ EXCEPT !.pc = "swapped", !.fresh = FALSE]]
    /\ UNCHANGED <<mode, arrivals, catalog, faults>>

\* The incoming store as the swap finds it: restored, or reset for a fresh turn.
Incoming(o) == IF o.fresh THEN NoRows ELSE entries[o.id].parked

\* Mutant: a failed swap leaves the two payloads exchanged.
ThrowsExchanged(r, swap) ==
    LET o == op[r] IN
    /\ swap.outcome = "throw" /\ Fault(TRUE)
    /\ engine' = [engine EXCEPT ![o.lane] = swap.engine]
    /\ tokens' = [tokens EXCEPT ![o.lane] = entries[o.id].payload]
    /\ entries' = [entries EXCEPT ![o.id] = [@ EXCEPT !.parked = Incoming(o), !.frozen = FALSE]]
    /\ Failed(r) /\ UNCHANGED <<mode, arrivals, older, resident>>

\* The payloads are exchanged back; a lane that lost its rows is cleared, and
\* that repair may fail as well.
Throws(r, swap) ==
    LET o == op[r]
        rowless == swap.engine.table = NoRows /\ tokens[o.lane] # NoRows IN
    /\ swap.outcome = "throw" /\ Fault(TRUE)
    /\ \E clear \in {rowless, FALSE} :
         /\ engine' = [engine EXCEPT ![o.lane] = IF clear THEN Cleared(swap.engine) ELSE swap.engine]
         /\ tokens' = [tokens EXCEPT ![o.lane] = IF clear THEN NoRows ELSE @]
    /\ entries' = [entries EXCEPT ![o.id] = [@ EXCEPT !.parked = Incoming(o), !.frozen = FALSE,
                                               !.payload = IF o.fresh THEN NoRows ELSE entries[o.id].payload]]
    /\ Failed(r) /\ UNCHANGED <<mode, arrivals, older, resident>>

\* A store that arrived without its rows: nothing of its payload may be kept.
Lost(swap, came) == swap.outcome = "miss" /\ came # NoRows

\* The owners are published as soon as the stores have changed hands; a store
\* that could not be restaged is cleared, and that repair may fail as well.
Hands(r, swap) ==
    LET o == op[r]
        came == IF o.fresh THEN NoRows ELSE entries[o.id].payload IN
    /\ swap.outcome # "throw" /\ Fault(swap.outcome = "miss" /\ Incoming(o) # NoRows)
    /\ \E repaired \in IF Lost(swap, came) THEN BOOLEAN ELSE {TRUE} :
         LET clear == Lost(swap, came) /\ repaired IN
         /\ engine' = [engine EXCEPT ![o.lane] = IF clear THEN Cleared(swap.engine) ELSE swap.engine]
         /\ tokens' = [tokens EXCEPT ![o.lane] = IF clear THEN NoRows ELSE came]
         /\ entries' = [entries EXCEPT
              ![o.id] = [@ EXCEPT !.lane = o.lane, !.parked = NoRows, !.payload = NoRows, !.frozen = FALSE],
              ![o.out] = [@ EXCEPT !.lane = 0, !.parked = swap.parked,
                            !.payload = IF repaired /\ swap.parked = NoRows THEN NoRows ELSE tokens[o.lane]]]
         /\ op' = [op EXCEPT ![r] = [@ EXCEPT !.attached = TRUE, !.fresh = FALSE, !.added = FALSE,
                                     !.pc = IF repaired THEN "swapped" ELSE "done"]]
    /\ resident' = [resident EXCEPT ![o.lane] = o.id]
    /\ UNCHANGED <<mode, arrivals, older>>

AttachOther(r) ==
    /\ op[r].pc = "leased" /\ op[r].id # op[r].out
    /\ \E swap \in SwapConv(engine[op[r].lane], Incoming(op[r])) : Throws(r, swap) \/ Hands(r, swap)

\* The catalog is told: the client id, what the outgoing entry still holds.
\* Over a byte cap with a spill file, its payload is demoted first, switching
\* keeping it (demote_attachments).
Publish(r) ==
    LET o == op[r]
        mine == [entries EXCEPT ![o.id].key = o.key] IN
    /\ o.pc = "swapped"
    /\ \E demote \in IF mode = "total" /\ Disk /\ o.id # o.out THEN BOOLEAN ELSE {FALSE} :
         /\ entries' = IF o.id = o.out THEN mine
                       ELSE [mine EXCEPT ![o.out] = [@ EXCEPT !.lane = 0, !.committed = entries[o.out].payload,
                               !.switching = demote]]
         /\ op' = [op EXCEPT ![r] = [@ EXCEPT !.pc = IF demote THEN "demoting" ELSE "attached",
                                     !.attached = TRUE, !.ready = ~demote]]
    /\ UNCHANGED <<mode, arrivals, older, resident, lanes, faults>>

Demoted(r) ==
    LET o == op[r] IN
    /\ o.pc = "demoting"
    /\ \E frozen \in BOOLEAN :
         entries' = [entries EXCEPT ![o.out] = [@ EXCEPT !.frozen = frozen, !.switching = FALSE]]
    /\ op' = [op EXCEPT ![r] = [@ EXCEPT !.pc = "attached", !.ready = TRUE]]
    /\ UNCHANGED <<mode, arrivals, older, resident, lanes, faults>>

-----------------------------------------------------------------------------
(***************************************************************************)
(* reserve_payload: room for the turn in the shared budget, taken from the *)
(* least recently used parked stores.  A refusal keeps what it evicted.    *)
(***************************************************************************)
Stored(i) == IF entries[i].lane = 0 THEN entries[i].parked # NoRows ELSE engine[entries[i].lane].table # NoRows
Charged(i) == Stored(i) \/ entries[i].reserved
Idle(i) == ~entries[i].busy /\ ~entries[i].switching

Blanked(e) == [e EXCEPT !.parked = NoRows, !.payload = NoRows, !.frozen = FALSE,
                        !.committed = NoRows, !.key = NoKey]

\* Prefill, generation and llama_driver_finish: the turn is committed, or the
\* rollback restores the rows there were, or it fails too and clears them, or
\* clears the tokens only.  A failure may leave a plan open.
Turn(e, history, want) ==
    LET opened(x) == {x, [x EXCEPT !.held = "plan"]} IN
    {[engine |-> IF e.stale THEN [e EXCEPT !.table = want] ELSE Holding(want), tokens |-> want, failed |-> FALSE]}
    \cup [engine : opened(e), tokens : {history}, failed : {TRUE}]
    \cup [engine : opened(Cleared(e)) \cup opened(e), tokens : {NoRows}, failed : {TRUE}]

\* The turn runs with the room reserved; the reference of a streamed request is
\* dropped before it, as its handler has returned.
Serve(r) ==
    LET o == op[r]
        others  == Cardinality({i \in Known \ {o.id} : Charged(i)})
        victims == {i \in Known \ {o.id} : entries[i].lane = 0 /\ Idle(i) /\ ~Protected(i) /\ Stored(i)}
        short   == IF ~Disk \/ others < Budget THEN 0 ELSE others + 1 - Budget
        gone    == Oldest(short, victims, older)
        left    == [i \in Known \ (gone \ {o.out}) |-> IF i \in gone THEN Blanked(entries[i]) ELSE entries[i]] IN
    /\ o.pc = "attached"
    /\ older' = Among(DOMAIN left, older)
    /\ IF short > Cardinality(victims)
       THEN /\ entries' = left /\ Failed(r)
            /\ UNCHANGED <<lanes, faults>>
       ELSE /\ entries' = [left EXCEPT ![o.id].reserved = Disk]
            /\ \E t \in Turn(engine[o.lane], tokens[o.lane], o.want) :
                 /\ engine' = [engine EXCEPT ![o.lane] = t.engine]
                 /\ tokens' = [tokens EXCEPT ![o.lane] = t.tokens]
                 /\ Fault(t.failed)
            /\ \E streamed \in BOOLEAN :
                 op' = [op EXCEPT ![r] = [@ EXCEPT !.pc = "done", !.want = NoRows, !.pinned = ~streamed]]
    /\ UNCHANGED <<mode, arrivals, resident>>

-----------------------------------------------------------------------------
(***************************************************************************)
(* finish, under the catalog mutex.                                        *)
(***************************************************************************)
\* What the entry the lane ended on is worth, and the flags given back.
Settle(r) ==
    LET o == op[r]
        active == IF o.attached THEN o.id ELSE o.out
        held == [entries EXCEPT ![active] = [@ EXCEPT !.reserved = FALSE, !.switching = FALSE,
                    !.committed = IF o.attached /\ ~o.ready THEN NoRows ELSE tokens[o.lane]]]
        kept == IF ~o.attached /\ o.added THEN Erased(held, {o.id}) ELSE [held EXCEPT ![o.id].busy = FALSE] IN
    IF o.ready THEN kept
    ELSE [i \in DOMAIN kept |-> IF i = o.id \/ (o.attached /\ i = o.out)
                                THEN [kept[i] EXCEPT !.committed = NoRows] ELSE kept[i]]

Retained(e) == {i \in DOMAIN e : ~e[i].busy /\ e[i].committed # NoRows}

\* enforce_sessions: histories evicted oldest first; one resident on another
\* lane only if that lane's mutex is free.
Evictable(e, r) ==
    {i \in Retained(e) : ~e[i].switching /\ (e[i].lane \in {0, op[r].lane} \/ e[i].lane \notin Leased)}

\* Mutant: the loop stops one history too early.
ExcessOffByOne(e) == IF mode = "inactive" /\ Cardinality(Retained(e)) > Limit + 1
                     THEN Cardinality(Retained(e)) - Limit - 1 ELSE 0

Excess(e) == IF mode = "inactive" /\ Cardinality(Retained(e)) > Limit
             THEN Cardinality(Retained(e)) - Limit ELSE 0

Rowless(e) == {i \in DOMAIN e : e[i].lane = 0 /\ ~e[i].busy /\ ~e[i].switching /\ e[i].committed = NoRows}

Forgotten(e, gone) ==
    [i \in {x \in DOMAIN e : x \notin gone \/ e[x].lane # 0} |->
        IF i \in gone THEN [e[i] EXCEPT !.committed = NoRows, !.key = NoKey] ELSE e[i]]

\* enforce_bytes: parked stores until the byte cap holds, which is any number
\* of the oldest.
Parked(e) ==
    {i \in DOMAIN e : e[i].lane = 0 /\ ~e[i].busy /\ ~e[i].switching /\ ~Protected(i) /\ ~(Disk /\ e[i].frozen)}

\* entries_.at(op.outgoing) throws when another lane has erased that entry; the
\* handler then forgets what the turn just settled and enforces no quota.
Unnamed(r, e) ==
    LET o == op[r] IN
    [i \in DOMAIN e |-> CASE i = o.id -> [e[i] EXCEPT !.busy = FALSE, !.reserved = FALSE,
                                          !.committed = IF o.attached \/ i = o.out THEN NoRows ELSE @]
                          [] i = o.out /\ i # o.id ->
                               [e[i] EXCEPT !.switching = FALSE, !.committed = NoRows, !.busy = @ /\ o.attached]
                          [] OTHER -> e[i]]

\* The lane's entry becomes the last used.
Touched(i) == Among(Known \ {i}, older) \cup ((Known \ {i}) \X {i})

\* The entry the lane ended on, and the catalog without this request's marks.
Active(r) == IF op[r].attached THEN op[r].id ELSE op[r].out
Calm(r) == [Settle(r) EXCEPT ![op[r].out].switching = FALSE]

\* The lanes of evicted entries are emptied.
Wipe(ls) ==
    /\ engine' = [l \in Lanes |-> IF l \in ls THEN Cleared(engine[l]) ELSE engine[l]]
    /\ tokens' = [l \in Lanes |-> IF l \in ls THEN NoRows ELSE tokens[l]]

Finish(r) ==
    LET o == op[r]
        order == Touched(Active(r))
        calm == Calm(r)
        old == Evictable(calm, r)
        gone == Oldest(Excess(calm), old, order)
        left == Forgotten(calm, gone) IN
    /\ o.pc = "done"
    /\ IF o.out \notin Known THEN entries' = Unnamed(r, Settle(r)) /\ UNCHANGED lanes
       ELSE /\ Wipe({calm[i].lane : i \in gone} \ {0})
            /\ IF Excess(calm) > Cardinality(old) THEN entries' = Unnamed(r, left)
               ELSE LET rest == IF mode = "inactive" THEN Erased(left, Rowless(left)) ELSE left
                        spare == Parked(rest) IN
                    \E n \in IF mode = "total" THEN 0..Cardinality(spare) ELSE {0} :
                       entries' = Erased(rest, Oldest(n, spare, order))
    /\ older' = Among(DOMAIN entries', order)
    /\ op' = [op EXCEPT ![r].pc = "release"]
    /\ UNCHANGED <<mode, arrivals, resident, faults>>

\* llama_driver_clear of a victim on a lane throws, in the flush it begins with:
\* the older victims are gone, and the handler forgets what the turn settled.
FinishThrows(r) ==
    LET calm == Calm(r)
        order == Touched(Active(r))
        old == Evictable(calm, r) IN
    /\ op[r].pc = "done" /\ op[r].out \in Known
    /\ \E n \in 1 .. Excess(calm) :
         LET gone == Oldest(n - 1, old, order) IN
         /\ \E i \in Oldest(n, old, order) \ gone : calm[i].lane # 0
         /\ Wipe({calm[i].lane : i \in gone} \ {0})
         /\ entries' = Unnamed(r, Forgotten(calm, gone))
    /\ older' = Among(DOMAIN entries', order)
    /\ op' = [op EXCEPT ![r].pc = "release"]
    /\ Fault(TRUE) /\ UNCHANGED <<mode, arrivals, resident>>

\* The lease, then the lane's mutex and at last the reference are given back.
Release(r) ==
    /\ op[r].pc = "release" /\ op' = [op EXCEPT ![r] = Away]
    /\ UNCHANGED <<mode, arrivals, catalog, lanes, faults>>

HandingOver(r) ==
    /\ op[r].pc \in {"leased", "swapped", "demoting"} \/ (op[r].pc = "done" /\ ~op[r].ready)
    /\ op[r].id # op[r].out

\* While an attach runs, switching keeps its outgoing entry (the catalog's comment on
\* demote_attachments): nobody else takes it, drops it or clears the mark.
HandoverProtected ==
    \A r \in Requests : HandingOver(r) => op[r].out \in Known /\ entries[op[r].out].switching

\* What follows a handover without its mark works on dangling references, and
\* is not modelled.
Next ==
    HandoverProtected /\ \E r \in Requests :
        \/ \E want \in Histories, key \in Keys \cup {NoKey}, reset \in BOOLEAN : Arrive(r, want, key, reset)
        \/ GiveUp(r) \/ Select(r) \/ NotAttached(r) \/ AttachSame(r) \/ AttachOther(r)
        \/ Publish(r) \/ Demoted(r) \/ Serve(r) \/ Finish(r) \/ FinishThrows(r) \/ Release(r)

Spec == Init /\ [][Next]_vars

-----------------------------------------------------------------------------
(***************************************************************************)
(* Properties.                                                             *)
(***************************************************************************)
Holder(r) == op[r].pc \in {"leased", "swapped", "demoting", "attached", "done"}

KeysUnique == \A i, j \in Known : i # j /\ entries[i].key = entries[j].key => entries[i].key = NoKey

LanesOwned ==
    /\ \A l \in Lanes : resident[l] \in Known /\ entries[resident[l]].lane = l
    /\ \A i \in Known : entries[i].lane # 0 => resident[entries[i].lane] = i

ClaimsExact ==
    /\ \A i \in Known : entries[i].busy <=> (\E r \in Requests : Holder(r) /\ op[r].id = i)
    /\ \A r, x \in Requests : r # x /\ Holder(r) /\ Holder(x) => op[r].id # op[x].id /\ op[r].lane # op[x].lane
    /\ \A i \in Known : entries[i].switching => \E r \in Requests : HandingOver(r) /\ op[r].out = i

OrderExact ==
    /\ older \subseteq Known \X Known
    /\ \A i, j \in Known : <<i, j>> \in older <=> i # j /\ <<j, i>> \notin older
    /\ \A i, j, k \in Known : <<i, j>> \in older /\ <<j, k>> \in older => <<i, k>> \in older

\* Every lane has one resident entry that knows it, an entry is busy for the
\* one request that holds it, switching marks only the entry a handover moves out,
\* the entries are in one order of use, and a client id names at most one entry
\* (select, attach and every path of finish).
OwnersExact == KeysUnique /\ (HandoverProtected => LanesOwned /\ ClaimsExact /\ OrderExact)

\* The tokens a lane spells and the rows it holds are of one history, where there
\* are both: a store and a payload change hands together or not at all.
SameHistory ==
    \A l \in Lanes :
        /\ NoRows \notin {tokens[l], engine[l].table} => tokens[l] = engine[l].table
        /\ engine[l].cells = engine[l].table \/ engine[l].stale

CommittedHeld ==
    \A i \in Known : Idle(i) /\ entries[i].committed # NoRows =>
        LET e == entries[i] IN
        IF e.lane = 0 THEN e.parked = e.committed /\ e.payload = e.committed
        ELSE tokens[e.lane] = e.committed

\* What selection believes an idle entry holds is what is there: parked, rows and
\* tokens of that history; on its lane, the tokens, and no rows of another
\* history, whatever failed on the way (a request may give up before its attach on
\* a lane whose repair has failed: finish then publishes tokens without rows, and
\* the prefill finds none).
RowsBacked == SameHistory /\ (HandoverProtected => CommittedHeld)

\* A finish leaves no more inactive histories than the limit, whatever lane mutexes
\* were held when it looked for victims, unless the clear of a victim throws
\* (enforce_sessions).
QuotaAfterFinish ==
    [][\A r \in Requests :
          mode = "inactive" /\ op[r].pc = "done" /\ op'[r].pc = "release" /\ op[r].out \in Known /\ faults' = faults
            => Cardinality(Retained(entries')) <= Limit]_vars

\* The entry a request moved out stays in the catalog, if only as an empty node,
\* until that request's finish, which names it again (comment in
\* reserve_payload).
OutgoingNamed ==
    \A r \in Requests : op[r].attached /\ op[r].pc \in {"attached", "done"} => op[r].out \in Known
=============================================================================
