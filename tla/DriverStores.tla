---------------------------- MODULE DriverStores ----------------------------
(***************************************************************************)
(* The conversations of one lane: the driver's table of host stores, the   *)
(* payloads parked beside them and the adapter's pool of stores            *)
(* (llama_driver_begin_request, conversation_commit, the store calls),   *)
(* with, in disk mode, the idle ones demoted to session files              *)
(* (llama_driver_begin_disk_request, session_balance).  A request first    *)
(* picks and attaches a conversation, then runs DriverTurn on it.          *)
(*                                                                         *)
(* The bytes of a conversation are its rows.  File sizes are left out: how *)
(* many idle sessions a balance demotes or evicts is any number it might   *)
(* be, in the code's order.                                                *)
(***************************************************************************)
EXTENDS DriverTurn

CONSTANTS
    MaxStores,   \* --kvmem-conversations
    MaxBytes,    \* --kvmem-conversations-gb, in rows; 0 is no cap
    Resetters    \* bound: the client ids that come with cache_reset

ASSUME StoresAssumption == MaxStores \in Nat /\ MaxStores > 1 /\ MaxBytes \in Nat /\ Kept \in Nat /\ Kept > 1

VARIABLES
    disk,       \* session files are on
    table,      \* conv_table: id -> [store, bytes, used]
    conv,       \* conv: id -> its client id, parked payload and placement
    active,     \* conv_active, 0 for none
    pool,       \* the adapter's stores: handle -> rows while parked
    attached,   \* the adapter's active handle, 0 for none
    nextId, clock

vars == <<turnVars, disk, table, conv, active, pool, attached, nextId, clock>>
stores == <<disk, table, conv, active, pool, attached, nextId, clock>>

\* Where a parked payload is: in use ("hot"), frozen but all in memory, part in
\* files, or all in files.  Whatever is not hot is cold to the adapter.
NewConversation == [client |-> NoClient, kept |-> Blank, place |-> "hot", invalid |-> FALSE]

Init ==
    /\ disk \in BOOLEAN
    /\ table = (1 :> [store |-> 1, bytes |-> 0, used |-> 0]) /\ conv = (1 :> NewConversation)
    /\ active = 1 /\ pool = (1 :> <<>>) /\ attached = 1 /\ nextId = 2 /\ clock = 0
    /\ rows = <<>> /\ recur = <<>> /\ car = Blank /\ turn = Resting /\ rollback = None
    /\ turns = 0 /\ faults = 0

-----------------------------------------------------------------------------
Without(f, gone) == [i \in DOMAIN f \ gone |-> f[i]]
Used(t) == [i \in DOMAIN t |-> t[i].used]

\* A step's working copy of everything it may change.
All == [rows |-> rows, recur |-> recur, car |-> car, table |-> table, conv |-> conv,
        active |-> active, pool |-> pool, attached |-> attached, clock |-> clock, nextId |-> nextId]

Become(s) ==
    /\ rows' = s.rows /\ recur' = s.recur /\ car' = s.car /\ table' = s.table /\ conv' = s.conv
    /\ active' = s.active /\ pool' = s.pool /\ attached' = s.attached
    /\ clock' = s.clock /\ nextId' = s.nextId

ClearedIn(s) == [s EXCEPT !.rows = <<>>, !.recur = <<>>, !.car = Blank]

\* llama_kvmem_store_rows, for any handle of the pool.
RowsOf(s, store) == IF store = s.attached THEN s.rows ELSE s.pool[store]
Touched(s, id) == [s EXCEPT !.clock = @ + 1, !.table[id].used = s.clock + 1]

Payload(s, id) == IF id = s.active THEN s.car ELSE s.conv[id].kept

\* conversation_match: what a conversation could be resumed at.  A payload that
\* is being deleted matches nothing.
Match(s, id, prompt) ==
    LET p == Payload(s, id) IN
    IF s.conv[id].invalid
    THEN [id |-> id, lcp |-> 0, rows |-> 0, live |-> 0, gen |-> 0, at |-> {}, bytes |-> 0, used |-> 0,
          client |-> NoClient]
    ELSE [id |-> id, lcp |-> CommonPrefix(p.text, prompt.text), rows |-> Len(p.text), live |-> p.live,
          gen |-> p.gen, at |-> {c.row : c \in ToSet(p.ckpts)}, bytes |-> s.table[id].bytes,
          used |-> s.table[id].used, client |-> s.conv[id].client]

Matches(s, prompt) == {Match(s, id, prompt) : id \in DOMAIN s.table}

\* Mutant: the row is dropped and the adapter's store stays.
EvictedRowOnly(s, id) == [s EXCEPT !.table = Without(@, {id}), !.conv = Without(@, {id})]

\* A session whose file or store cannot be removed keeps its row, marked invalid.
EvictRefused(s, id) ==
    IF s.conv[id].place = "hot" THEN s ELSE [s EXCEPT !.conv[id].invalid = TRUE]

\* llama_kvmem_store_destroy: not the attached store, nor one it does not know.
Destroyable(s, store) == store \in DOMAIN s.pool \ {s.attached}

\* conversation_evict of a parked conversation: its files, its store, its row;
\* a store the adapter refuses to destroy keeps its row.
Evicted(s, id) ==
    IF ~Destroyable(s, s.table[id].store) THEN EvictRefused(s, id)
    ELSE [s EXCEPT !.table = Without(@, {id}), !.conv = Without(@, {id}),
                   !.pool = Without(@, {s.table[id].store})]

EvictAll(s, ids) == FoldSeq(LAMBDA id, acc : Evicted(acc, id), s, ids)

\* llama_driver_swap_conversation: the attached payload and an entry's.
Exchanged(s, id) == [s EXCEPT !.car = s.conv[id].kept, !.conv[id].kept = s.car]

\* llama_driver_drop_conversation: only the client id is kept.
Dropped(s, id) == [s EXCEPT !.conv[id] = [NewConversation EXCEPT !.client = s.conv[id].client]]

-----------------------------------------------------------------------------
(***************************************************************************)
(* The pool: llama_kvmem_store_switch.  (StoreSwap has the exchange inside *)
(* the adapter; a repair that fails as well is left to it.)                *)
(***************************************************************************)
\* The attached store keeps its rows when it can be drained, else loses them.
Drains(s) == {s.rows, <<>>}

\* It throws before anything changed hands: the attached store is at best what
\* it was.  An emptied store takes the recurrent state with it.
SwitchFails(s) == {s, [s EXCEPT !.rows = <<>>, !.recur = <<>>]}

\* It changes hands; the rows that arrive are restaged, or cleared.
Switched(s, store) ==
    {[s EXCEPT !.attached = store, !.rows = came, !.pool[store] = <<>>,
               !.recur = IF came = <<>> THEN <<>> ELSE @,
               !.pool[s.attached] = left] : came \in {s.pool[store], <<>>}, left \in Drains(s)}

Intact(s, t) == /\ t.rows = s.pool[t.attached]
                /\ t.pool[s.attached] = s.rows

-----------------------------------------------------------------------------
(***************************************************************************)
(* llama_driver_begin_request, without session files.                      *)
(***************************************************************************)
\* Mutant: the outgoing store's rows are not looked at after the switch.
SettledTrusting(s, out, id) ==
    LET in == [Exchanged(s, id) EXCEPT !.active = id, !.car.at = None] IN
    IF s.rows = <<>> /\ (in.car.live > 0 \/ in.car.text # <<>>) THEN ClearedIn(in) ELSE in

\* After a switch from out to id: the payload of a store that arrived or was
\* left without its rows is dropped.
SettledIn(s, out, id) ==
    LET in   == [Exchanged(s, id) EXCEPT !.active = id, !.car.at = None]
        here == IF s.rows = <<>> /\ (in.car.live > 0 \/ in.car.text # <<>>) THEN ClearedIn(in) ELSE in IN
    IF RowsOf(s, s.table[out].store) = <<>> /\ here.conv[out].kept.text # <<>> THEN Dropped(here, out) ELSE here

\* A switch that failed: the outgoing payload is back, or gone with its rows.
SettledBack(s) == IF s.rows = <<>> /\ s.car.text # <<>> THEN ClearedIn(s) ELSE s

\* The states a switch to id may leave, with the number of faults in each.
SwitchTo(s, id) ==
    LET out == s.active
        store == s.table[id].store
        gone == Exchanged(s, out) IN
    {[s |-> SettledIn(t, out, id), id |-> id, faults |-> IF Intact(gone, t) THEN 0 ELSE 1] :
        t \in Switched(gone, store)}
    \cup {[s |-> SettledBack(Exchanged(t, out)), id |-> out, faults |-> 1] : t \in SwitchFails(gone)}

\* A store for a conversation of its own, or, when the adapter has none left,
\* the least recently used one, cleared once it is attached.
Opened(s) ==
    LET id == s.nextId
        new == [s EXCEPT !.nextId = @ + 1, !.table = @ @@ (id :> [store |-> id, bytes |-> 0, used |-> 0]),
                         !.conv = @ @@ (id :> NewConversation), !.pool = @ @@ (id :> <<>>)]
        others == LruOrder(Used(Without(s.table, {s.active}))) IN
    {[s |-> new, id |-> id, reuse |-> FALSE, faults |-> 0],
     [s |-> s, id |-> IF others = <<>> THEN s.active ELSE others[1], reuse |-> others # <<>>, faults |-> 1]}

Arrive ==
    /\ turn.pc = "idle" /\ turns < MaxTurns
    /\ turns' = turns + 1 /\ UNCHANGED <<rollback, disk>>

Planned(s, prompt, target) ==
    PlanEvictions(Matches(s, prompt), target, s.active, MaxStores, MaxBytes)

Mapped(prompt, client, reset, store) ==
    [Resting EXCEPT !.pc = "reserve", !.prompt = prompt, !.client = client, !.reset = reset, !.start = store]

Begin(prompt, client, reset) ==
    LET chosen == Selection(Matches(All, prompt), client, Len(prompt.text))
        lean   == EvictAll(All, Planned(All, prompt, chosen))
        picks  == IF chosen # 0 THEN {[s |-> lean, id |-> chosen, reuse |-> FALSE, faults |-> 0]} ELSE Opened(lean) IN
    /\ ~disk /\ Arrive
    /\ \E pick \in picks :
         \E end \in IF pick.id = active THEN {[s |-> pick.s, id |-> active, faults |-> 0]} ELSE SwitchTo(pick.s, pick.id) :
           LET ready == IF pick.reuse /\ end.id = pick.id THEN ClearedIn(end.s) ELSE end.s IN
           /\ faults' = faults + pick.faults + end.faults /\ faults' <= MaxFaults
           /\ Become(Touched(ready, end.id))
           /\ turn' = Mapped(prompt, client, reset, ready.rows)

-----------------------------------------------------------------------------
(***************************************************************************)
(* Session files: what is idle may be frozen and moved out of memory.      *)
(* An outcome: [s, end, faults], end being "ok", "error" or "corrupt".     *)
(***************************************************************************)
Idle(s, target) == LruOrder(Used(Without(s.table, {target, s.active})))
First(seq, k) == {seq[j] : j \in 1..k}
Placed(s, ids, place) == [s EXCEPT !.conv = [i \in DOMAIN @ |-> IF i \in ids THEN [@[i] EXCEPT !.place = place] ELSE @[i]]]
Outcome(s, end, n) == [s |-> s, end |-> end, faults |-> n]

\* session_freeze: only a detached store; the adapter will not attach it again
\* before it is thawed.
Frozen(s, ids) == Placed(s, {i \in ids : s.conv[i].place = "hot"}, "frozen")

\* The planned victims go one by one; a file that cannot be removed ends it.
EvictSessions(s, victims) ==
    {Outcome(EvictAll(s, victims), "ok", 0)}
    \cup {Outcome(EvictRefused(EvictAll(s, SubSeq(victims, 1, j - 1)), victims[j]), "error", 1) : j \in 1..Len(victims)}

\* The transfer: all of it, or stopped anywhere.  The restored session is
\* thawed only when it is whole.
Transfer(s, outgoing, target) ==
    LET in == {target} \cap DOMAIN s.conv
        coming == {i \in in : s.conv[i].place # "hot"} IN
    {Outcome(Placed(Placed(s, outgoing, "disk"), coming, "hot"), "ok", 0)}
    \cup {Outcome(Placed(Placed(s, outgoing, to), coming, from), end, 1) :
            to \in {"frozen", "part", "disk"}, from \in {"part", "disk"},
            end \in {"error"} \cup (IF coming # {} THEN {"corrupt"} ELSE {})}

\* session_balance.
Balance(s, target) ==
    LET idle == Idle(s, target) IN
    UNION {LET cold == Frozen(s, First(idle, k))
               outgoing == {i \in First(idle, k) : ~cold.conv[i].invalid /\ cold.conv[i].place # "disk"} IN
           {Outcome(cold, "error", 1)} \cup
           UNION {LET victims == SelectSeq(SubSeq(idle, 1, j),
                                    LAMBDA i : i \in outgoing \/ cold.conv[i].place \in {"part", "disk"}) IN
                  UNION {IF gone.end # "ok" THEN {gone}
                         ELSE Transfer(gone.s, outgoing \cap DOMAIN gone.s.conv, target) :
                         gone \in EvictSessions(cold, victims)} :
                  j \in 0..Len(idle)} :
           k \in 0..Len(idle)}

\* session_make_room: room for a hot or a new session is worth no failure.
MakeRoom(s, target) == {[o EXCEPT !.end = "ok"] : o \in Balance(s, target)}

\* llama_kvmem_store_park: the attached conversation is put away, what is left
\* of it, and nothing is attached; or it fails and its payload comes back.
ParkOutcomes(s) ==
    LET out == s.active
        store == s.table[out].store
        gone == Exchanged(s, out)
        away(left) == [gone EXCEPT !.pool[store] = left, !.rows = <<>>, !.recur = <<>>, !.attached = 0,
                                   !.active = 0, !.car.at = None, !.table[out].bytes = Len(left)] IN
    {Outcome(IF left = <<>> THEN Dropped(away(left), out) ELSE away(left), "ok", IF left = s.rows THEN 0 ELSE 1) :
        left \in Drains(s)}
    \cup {Outcome(SettledBack(Exchanged(t, out)), "error", 1) : t \in SwitchFails(gone)}

\* Then the count cap, least recently used first, over what can be removed.
MakeCount(s, target) ==
    LET over == Cardinality(DOMAIN s.table) + (IF target = 0 THEN 1 ELSE 0)
        excess == IF over > MaxStores THEN over - MaxStores ELSE 0
        idle == Idle(s, target)
        step(acc, id) ==
            UNION {IF Cardinality(DOMAIN s.table \ DOMAIN o.s.table) >= excess THEN {o}
                   ELSE {[o EXCEPT !.s = Evicted(o.s, id)]} \cup
                        (IF o.s.conv[id].place = "hot" THEN {}
                         ELSE {[o EXCEPT !.s = EvictRefused(o.s, id), !.faults = @ + 1]}) : o \in acc}
        tried == FoldLeft(step, {Outcome(s, "ok", 0)}, idle) IN
    {[o EXCEPT !.end = IF Cardinality(DOMAIN s.table \ DOMAIN o.s.table) < excess THEN "error" ELSE "ok"] : o \in tried}

\* The target's payload is brought back, or room is made beside it; a corrupt
\* one is evicted and the request becomes a cache miss.
Restored(s, target) ==
    LET first == IF target = 0 \/ s.conv[target].place = "hot" THEN MakeRoom(s, target) ELSE Balance(s, target)
        retry(o) == {[o2 EXCEPT !.faults = @ + o.faults] : o2 \in Balance(Evicted(o.s, target), 0)} IN
    {o @@ [target |-> target] : o \in {x \in first : x.end # "corrupt"}}
    \cup UNION {{o2 @@ [target |-> 0] : o2 \in retry(o)} \cup
                {[o EXCEPT !.s = EvictRefused(@, target), !.end = "error", !.faults = @ + 1] @@ [target |-> target]} :
                o \in {x \in first : x.end = "corrupt"}}

\* A store of its own when it needs one, and the switch from nothing.
AttachTo(s, target) ==
    LET id == IF target = 0 THEN s.nextId ELSE target
        new == IF target # 0 THEN s
               ELSE [s EXCEPT !.nextId = @ + 1, !.table = @ @@ (id :> [store |-> id, bytes |-> 0, used |-> 0]),
                              !.conv = @ @@ (id :> NewConversation), !.pool = @ @@ (id :> <<>>)]
        store == new.table[id].store
        in(came) == [Exchanged([new EXCEPT !.rows = came, !.attached = store, !.pool[store] = <<>>], id)
                        EXCEPT !.active = id, !.car.at = None] IN
    IF id = s.active THEN {Outcome(Touched(s, id), "ok", 0)}
    ELSE {Outcome(Touched(IF came = <<>> THEN ClearedIn(in(came)) ELSE in(came), id), "ok",
                  IF came = new.pool[store] THEN 0 ELSE 1) : came \in {new.pool[store], <<>>}}
         \cup {Outcome(new, "error", 1)} \cup (IF target = 0 THEN {Outcome(s, "error", 1)} ELSE {})

\* o, and then more on what it left unless it failed.
AndThen(o, more(_)) == IF o.end # "ok" THEN {o} ELSE {[p EXCEPT !.faults = @ + o.faults] : p \in more(o.s)}

BeginDisk(prompt, client, reset) ==
    LET target == Selection(Matches(All, prompt), client, Len(prompt.text))
        parked == IF target # active /\ active # 0 THEN ParkOutcomes(All) ELSE {Outcome(All, "ok", 0)}
        attach(s) == UNION {AndThen([s |-> o.s, end |-> o.end, faults |-> o.faults], LAMBDA t : AttachTo(t, o.target)) :
                              o \in Restored(s, target)}
        ready == UNION {AndThen(o, LAMBDA s : UNION {AndThen(q, attach) : q \in MakeCount(s, target)}) : o \in parked} IN
    /\ disk /\ Arrive
    /\ \E o \in ready :
         /\ faults' = faults + o.faults /\ faults' <= MaxFaults
         /\ Become(o.s)
         /\ turn' = IF o.end = "ok" THEN Mapped(prompt, client, reset, o.s.rows) ELSE Resting

-----------------------------------------------------------------------------
\* llama_driver_check_payload_budget: whole idle conversations are reclaimed
\* for the turn's rows; when that is not enough the request is refused.
Reserve ==
    /\ turn.pc = "reserve"
    /\ \E k \in 0..(IF disk THEN Len(Idle(All, active)) ELSE 0) :
       \E o \in EvictSessions(All, SubSeq(Idle(All, active), 1, k)) :
         \E ok \in IF o.end = "ok" THEN BOOLEAN ELSE {FALSE} :
           /\ faults' = faults + (IF ok THEN 0 ELSE 1) /\ faults' <= MaxFaults
           /\ Become(o.s)
           /\ turn' = IF ok THEN [turn EXCEPT !.pc = "mapped"] ELSE Resting
    /\ UNCHANGED <<rollback, turns, disk>>

\* One id names one conversation.
Bound(s, client) ==
    IF client = NoClient THEN s
    ELSE [s EXCEPT !.conv = [i \in DOMAIN @ |->
            IF i = s.active THEN [@[i] EXCEPT !.client = client]
            ELSE IF @[i].client = client THEN [@[i] EXCEPT !.client = NoClient] ELSE @[i]]]

\* llama_driver_commit and conversation_commit: the payload, the client id, the
\* stamp and the bytes; then the caps are enforced.
Commit ==
    LET done == Bound([Touched(All, active) EXCEPT !.car = Committed, !.table[active].bytes = Len(rows)], turn.client)
        over == PlanEvictions(Matches(done, turn.prompt), active, active, MaxStores, MaxBytes) IN
    /\ turn.pc = "generate"
    /\ \E o \in IF disk THEN MakeRoom(done, active) ELSE {Outcome(EvictAll(done, over), "ok", 0)} :
         /\ faults' = faults + o.faults /\ faults' <= MaxFaults
         /\ Become(o.s)
    /\ rollback' = None /\ turn' = Resting
    /\ UNCHANGED <<turns, disk>>

Serve == Turn /\ UNCHANGED stores

Next ==
    \/ \E prompt \in Prompts, client \in Clients \cup {NoClient} : \E reset \in {FALSE} \cup {client \in Resetters} :
          Begin(prompt, client, reset) \/ BeginDisk(prompt, client, reset)
    \/ Reserve \/ Serve \/ Commit
    \/ turns = MaxTurns /\ turn.pc = "idle" /\ UNCHANGED vars

Spec == Init /\ [][Next]_vars

-----------------------------------------------------------------------------
\* Between two requests the table, the payloads and the adapter's pool name the
\* same stores: no handle without a row and no row without its store; the
\* attached conversation owns the attached store, or nothing is attached (only
\* in disk mode); and no turn is left uncommitted, so that a switch is never
\* refused.  A frozen session is never the attached one, and a client id is
\* answered by one conversation.
StoresNamed ==
    /\ DOMAIN table = DOMAIN conv /\ IsInjective([i \in DOMAIN table |-> table[i].store])
    /\ {table[i].store : i \in DOMAIN table} = DOMAIN pool
    /\ IF active = 0 THEN disk /\ attached = 0 /\ turn.pc = "idle"
       ELSE active \in DOMAIN table /\ table[active].store = attached /\ conv[active].place = "hot"
    /\ (turn.pc = "idle" => rollback = None)
    /\ \A i, j \in DOMAIN conv : i # j /\ conv[i].client # NoClient => conv[i].client # conv[j].client

\* What a conversation at rest claims is what its store holds: its text begins
\* with the store's rows, and each of its checkpoints was taken on those rows
\* and carries the recurrent state of exactly them.
Backed(p, content) ==
    /\ p.text # <<>> => IsPrefix(Toks(content), p.text)
    /\ \A c \in ToSet(p.ckpts) :
          /\ Len(c.data.prefix) = c.row /\ IsPrefix(c.data.prefix, content) /\ c.data.recur = c.data.prefix
          /\ c.row <= Len(p.text)
    /\ p.query # None /\ p.text # <<>> => IsPrefix(p.query, p.text)

PayloadsBacked ==
    /\ \A i \in DOMAIN conv : i # active => Backed(conv[i].kept, pool[table[i].store])
    /\ (active # 0 /\ turn.pc \in {"idle", "reserve", "mapped"} => Backed(car, rows))

\* Whatever was restored, replayed or repaired before, the answer is computed
\* on the rows of this request's text and nothing else, and the recurrent state
\* has read each of them once, in order.
OnOwnText ==
    turn.pc = "generate" => /\ Toks(rows) = turn.prompt.text \o turn.gen
                            /\ recur = rows /\ car.live = Len(rows)

\* A turn that ends without a commit leaves a prefix of the rows it found, or
\* a conversation that claims none.
AbortKeepsPrefix ==
    [][turn.pc \notin {"idle", "reserve"} /\ turn'.pc = "idle" /\ ~Commit
        => IsPrefix(rows', turn.start) \/ (car'.text = <<>> /\ car'.ckpts = <<>>)]_vars

\* The caps hold whatever was opened, refused or rolled back before: never more
\* stores than allowed, and after a commit no more bytes either, unless the
\* attached conversation alone exceeds them (files make the byte cap soft).
CapsKept ==
    [][/\ Cardinality(DOMAIN table') <= MaxStores
       /\ (Commit /\ ~disk /\ MaxBytes # 0 =>
             DOMAIN table' = {active} \/ FoldSet(LAMBDA i, n : n + Len(RowsOf(All, table[i].store)), 0, DOMAIN table') <= MaxBytes)]_vars
=============================================================================
