----------------------- MODULE LaneConversationsProofs -----------------------
(***************************************************************************)
(* The catalog behind the lanes, for every number of lanes, requests,      *)
(* histories, client ids and entries, every limit and any number of        *)
(* failures: who owns an entry and a lane (OwnersExact), what an entry and *)
(* a lane hold (RowsBacked), and the quota (QuotaAfterFinish), whose       *)
(* enforcement always finds a victim.                                      *)
(***************************************************************************)
EXTENDS LaneConversations, FiniteSetTheorems, FunctionTheorems, TLAPS

Rows == Histories \cup {NoRows}
EngineType == [table : Rows, cells : Rows, stale : BOOLEAN, held : {"no", "plan"}]
EntryType ==
    [lane : Lanes \cup {0}, busy : BOOLEAN, switching : BOOLEAN, key : Keys \cup {NoKey}, committed : Rows,
     payload : Rows, parked : Rows, frozen : BOOLEAN, reserved : BOOLEAN]
OpType ==
    [pc : {"away", "queued", "leased", "swapped", "demoting", "attached", "done", "release"},
     want : Rows, key : Keys \cup {NoKey}, reset : BOOLEAN, ref : Ids \cup {0}, pinned : BOOLEAN,
     lane : Lanes \cup {0}, id : Ids \cup {0}, out : Ids \cup {0}, fresh : BOOLEAN, added : BOOLEAN,
     attached : BOOLEAN, ready : BOOLEAN]

TypeOK ==
    /\ mode \in Modes /\ arrivals \in Nat /\ faults \in Nat
    /\ Known \subseteq Ids /\ entries \in [Known -> EntryType]
    /\ resident \in [Lanes -> Ids] /\ engine \in [Lanes -> EngineType] /\ tokens \in [Lanes -> Rows]
    /\ op \in [Requests -> OpType]

\* What the handler of a request has been through.
PhasesExact ==
    /\ \A r \in Requests : LET o == op[r] IN
        /\ o.pc \in {"away", "queued"} <=> o.lane = 0
        /\ o.lane # 0 => o.id \in Ids /\ o.out \in Ids
        /\ o.pc \in {"queued", "leased"} => o.want \in Histories
        /\ o.lane = 0 \/ o.pc = "leased" => ~o.attached /\ ~o.ready
        /\ o.pc = "swapped" => ~o.ready /\ (o.attached <=> o.id # o.out)
        /\ o.pc = "demoting" => ~o.ready /\ o.attached /\ o.id # o.out
        /\ o.pc = "attached" => o.ready
        /\ o.ready => o.attached
        /\ o.added /\ ~o.attached => o.id # o.out
    /\ \A r, x \in Requests : r # x /\ op[r].lane # 0 => op[r].lane # op[x].lane

\* Requests under way have different client ids, and one that is about to
\* publish its id has taken the entry of that id, if there is one.
KeysClaimed ==
    /\ \A r, x \in Requests : r # x /\ op[r].lane # 0 /\ op[x].lane # 0 /\ op[r].key # NoKey => op[r].key # op[x].key
    /\ \A r \in Requests : op[r].pc \in {"leased", "swapped"} /\ op[r].key # NoKey =>
         \A i \in Known : entries[i].key = op[r].key => i = op[r].id

\* The entry a holder works on, and the one it moves out.
HandsExact ==
    \A r \in Requests : Holder(r) =>
        LET o == op[r] IN
        /\ o.id \in Known /\ resident[o.lane] = (IF o.attached THEN o.id ELSE o.out)
        /\ o.id # o.out /\ ~o.attached => entries[o.id].lane = 0
        /\ HandingOver(r) => ~entries[o.out].busy
        /\ HandingOver(r) /\ o.attached => entries[o.out].lane = 0
        /\ o.pc = "leased" /\ o.id # o.out /\ ~o.fresh => entries[o.id].parked = entries[o.id].payload
        /\ o.pc \in {"swapped", "demoting"} /\ o.id # o.out =>
             entries[o.out].payload \in {NoRows, entries[o.out].parked}
        /\ o.pc = "demoting" => entries[o.out].committed = entries[o.out].payload

\* What a finish may not be able to evict fits the limit already: an entry
\* becomes one of these by a finish only.
Held == {i \in Known : ~entries[i].busy /\ entries[i].committed # NoRows /\ (entries[i].lane # 0 \/ entries[i].switching)}
QuotaHeld == mode = "inactive" => Cardinality(Held) <= Limit

IInv ==
    /\ TypeOK /\ PhasesExact /\ KeysUnique /\ KeysClaimed /\ SameHistory /\ QuotaHeld
    /\ HandoverProtected => LanesOwned /\ ClaimsExact /\ OrderExact /\ HandsExact /\ CommittedHeld

-----------------------------------------------------------------------------
(* The start                                                                *)

LEMMA LanesFacts ==
  /\ Lanes \subseteq Ids /\ 0 \notin Lanes /\ 0 \notin Ids /\ Lanes \subseteq Nat
  /\ IsFiniteSet(Ids) /\ NoRows \notin Histories /\ NoKey \notin Keys
  <1>1. MaxEntries \in Nat
    BY LanesAssumption
  <1>2. Lanes \subseteq Ids /\ 0 \notin Lanes /\ 0 \notin Ids /\ Lanes \subseteq Nat
    BY <1>1, LanesAssumption DEF Ids
  <1>3. IsFiniteSet(Ids)
    BY <1>1, FS_Interval DEF Ids
  <1> QED
    BY <1>2, <1>3, LanesAssumption

LEMMA OwnersStart == Init => IInv
  <1> SUFFICES ASSUME Init PROVE IInv
    OBVIOUS
  <1> USE LanesFacts
  <1>0. Known = Lanes /\ \A i \in Lanes : entries[i] = NewEntry(i)
    BY DEF Init, Known
  <1>1. \A r \in Requests : op[r] = Away /\ op[r].pc = "away"
    BY DEF Init, Away
  <1>a. \A i \in Known : /\ entries[i].key = NoKey /\ entries[i].committed = NoRows
                        /\ ~entries[i].busy /\ ~entries[i].switching
    <2>1. ASSUME NEW l PROVE /\ NewEntry(l).key = NoKey /\ NewEntry(l).committed = NoRows
                             /\ NewEntry(l).busy = FALSE /\ NewEntry(l).switching = FALSE
      BY DEF NewEntry
    <2> QED
      BY <1>0, <2>1
  <1>b. \A r \in Requests : ~Holder(r) /\ ~HandingOver(r)
    BY <1>1 DEF Holder, HandingOver
  <1>2. NewEntry(0) \in EntryType /\ \A l \in Lanes : NewEntry(l) \in EntryType
    BY DEF NewEntry, EntryType, Rows
  <1>3. Empty \in EngineType /\ Away \in OpType
    BY DEF Empty, EngineType, Away, OpType, Rows
  <1>4. TypeOK
    BY <1>0, <1>2, <1>3 DEF Init, TypeOK, Rows
  <1>5. PhasesExact /\ KeysClaimed
    BY <1>1 DEF PhasesExact, KeysClaimed, Away
  <1>6. KeysUnique
    BY <1>a DEF KeysUnique
  <1>7. SameHistory
    BY DEF Init, SameHistory, Empty
  <1>8. QuotaHeld
    <2>1. Held = {}
      BY <1>a DEF Held
    <2> QED
      BY <2>1, FS_EmptySet, LanesAssumption DEF QuotaHeld
  <1>9. LanesOwned
    BY <1>0 DEF Init, LanesOwned, NewEntry
  <1>10. ClaimsExact /\ HandsExact
    BY <1>a, <1>b DEF ClaimsExact, HandsExact
  <1>11. OrderExact
    BY <1>0 DEF Init, OrderExact
  <1>12. CommittedHeld
    BY <1>a DEF CommittedHeld
  <1> QED
    BY <1>4, <1>5, <1>6, <1>7, <1>8, <1>9, <1>10, <1>11, <1>12 DEF IInv

-----------------------------------------------------------------------------
(* The steps of a request that leave the catalog and the lanes alone        *)

Steady == IInv /\ HandoverProtected

LEMMA SteadyFacts ==
  ASSUME Steady
  PROVE  /\ TypeOK /\ PhasesExact /\ KeysUnique /\ KeysClaimed /\ SameHistory /\ QuotaHeld
         /\ LanesOwned /\ ClaimsExact /\ OrderExact /\ HandsExact /\ CommittedHeld
  BY DEF Steady, IInv

LEMMA OpKeeps ==
  ASSUME Steady, UNCHANGED <<mode, catalog, lanes>>, arrivals' \in Nat, faults' \in Nat,
         NEW r \in Requests, op' \in [Requests -> OpType],
         \A x \in Requests \ {r} : op'[x] = op[x],
         PhasesExact', KeysClaimed',
         Holder(r)' <=> Holder(r), HandingOver(r)' <=> HandingOver(r),
         Holder(r) => /\ op'[r].id = op[r].id /\ op'[r].out = op[r].out /\ op'[r].lane = op[r].lane
                      /\ op'[r].attached = op[r].attached /\ op'[r].pc \notin {"leased", "swapped", "demoting"}
  PROVE  IInv'
  <1> USE SteadyFacts
  <1>0. UNCHANGED <<mode, entries, older, resident, engine, tokens, Known>>
    BY DEF catalog, lanes, Known
  <1>1. \A x \in Requests : /\ Holder(x)' <=> Holder(x)
                            /\ HandingOver(x)' <=> HandingOver(x)
                            /\ Holder(x) => op'[x].id = op[x].id /\ op'[x].lane = op[x].lane /\ op'[x].out = op[x].out
    BY DEF Holder, HandingOver
  <1>2. \A x \in Requests : HandingOver(x) => Holder(x)
    BY DEF Holder, HandingOver
  <1>3. TypeOK'
    BY <1>0 DEF TypeOK
  <1>4. KeysUnique' /\ SameHistory' /\ QuotaHeld' /\ LanesOwned' /\ OrderExact' /\ CommittedHeld'
    BY <1>0 DEF KeysUnique, SameHistory, QuotaHeld, Held, LanesOwned, OrderExact, CommittedHeld, Idle
  <1>5. ClaimsExact'
    BY <1>0, <1>1, <1>2 DEF ClaimsExact
  <1>6. HandsExact'
    <2> SUFFICES ASSUME NEW x \in Requests, Holder(x)' PROVE HandsExact!(x)!2'
      BY DEF HandsExact
    <2>1. CASE x = r
      BY <1>0, <1>1, <2>1 DEF HandsExact
    <2>2. CASE x # r
      BY <1>0, <1>1, <2>2 DEF HandsExact
    <2> QED
      BY <2>1, <2>2
  <1> QED
    BY <1>3, <1>4, <1>5, <1>6 DEF IInv

LEMMA ArriveKeeps ==
  ASSUME Steady, NEW r \in Requests, NEW want \in Histories, NEW key \in Keys \cup {NoKey},
         NEW reset \in BOOLEAN, Arrive(r, want, key, reset)
  PROVE  IInv'
  <1> USE SteadyFacts, LanesFacts
  <1>1. PICK i \in Known \cup {0} : op' = [op EXCEPT ![r] =
            [Away EXCEPT !.pc = "queued", !.want = want, !.key = key, !.reset = reset, !.pinned = TRUE, !.ref = i]]
    <2> DEFINE here == [Away EXCEPT !.pc = "queued", !.want = want, !.key = key, !.reset = reset, !.pinned = TRUE]
    <2>1. Plans(here) \subseteq Known \cup {0}
      BY DEF Plans, Named
    <2>2. PICK i \in Plans(here) : op' = [op EXCEPT ![r] = [here EXCEPT !.ref = i]]
      BY DEF Arrive
    <2> QED
      BY <2>1, <2>2 DEF Away
  <1>2. op' \in [Requests -> OpType]
    <2>1. i \in Ids \cup {0}
      BY DEF TypeOK
    <2> QED
      BY <1>1, <2>1 DEF TypeOK, OpType, Away, Rows
  <1>3. /\ op[r].pc = "away" /\ \A x \in Requests \ {r} : op'[x] = op[x]
        /\ op'[r].pc = "queued" /\ op'[r].lane = 0 /\ op'[r].want = want
        /\ ~op'[r].attached /\ ~op'[r].ready /\ ~op'[r].added
    BY <1>1 DEF Arrive, Away, TypeOK
  <1>4. PhasesExact'
    BY <1>3 DEF PhasesExact
  <1>5. KeysClaimed'
    BY <1>3 DEF KeysClaimed, PhasesExact, Arrive, catalog, Known
  <1>6. arrivals' \in Nat /\ faults' \in Nat
    BY DEF Arrive, TypeOK
  <1>7. UNCHANGED <<mode, catalog, lanes>> /\ (Holder(r)' <=> Holder(r)) /\ (HandingOver(r)' <=> HandingOver(r)) /\ ~Holder(r)
    BY <1>3 DEF Arrive, Holder, HandingOver
  <1> QED
    BY <1>2, <1>3, <1>4, <1>5, <1>6, <1>7, OpKeeps

\* A request that is not under way forgets everything.
LEMMA LeavesKeeps ==
  ASSUME Steady, NEW r \in Requests, GiveUp(r) \/ Release(r)
  PROVE  IInv'
  <1> USE SteadyFacts, LanesFacts
  <1>1. /\ op' = [op EXCEPT ![r] = Away] /\ op[r].pc \in {"queued", "release"}
        /\ UNCHANGED <<mode, arrivals, catalog, lanes, faults>>
    BY DEF GiveUp, Release
  <1>2. op' \in [Requests -> OpType]
    BY <1>1 DEF TypeOK, OpType, Away, Rows
  <1>3. /\ \A x \in Requests \ {r} : op'[x] = op[x]
        /\ op'[r].pc = "away" /\ op'[r].lane = 0 /\ ~op'[r].attached /\ ~op'[r].ready /\ ~op'[r].added
    BY <1>1 DEF Away, TypeOK
  <1>4. PhasesExact'
    BY <1>3 DEF PhasesExact
  <1>5. KeysClaimed'
    BY <1>1, <1>3 DEF KeysClaimed, PhasesExact, catalog, Known
  <1>6. arrivals' \in Nat /\ faults' \in Nat
    BY <1>1 DEF TypeOK
  <1>7. (Holder(r)' <=> Holder(r)) /\ (HandingOver(r)' <=> HandingOver(r)) /\ ~Holder(r)
    BY <1>1, <1>3 DEF Holder, HandingOver
  <1> QED
    BY <1>1, <1>2, <1>3, <1>4, <1>5, <1>6, <1>7, OpKeeps

LEMMA NotAttachedKeeps == ASSUME Steady, NEW r \in Requests, NotAttached(r) PROVE IInv'
  <1> USE SteadyFacts, LanesFacts
  <1>1. /\ op[r].pc = "leased" /\ op' = [op EXCEPT ![r] = [@ EXCEPT !.pc = "done", !.want = NoRows]]
        /\ UNCHANGED <<mode, arrivals, catalog, lanes>>
    BY DEF NotAttached, Failed
  <1>2. op' \in [Requests -> OpType]
    <2>1. op[r] \in OpType
      BY DEF TypeOK
    <2>2. [op[r] EXCEPT !.pc = "done", !.want = NoRows] \in OpType
      BY <2>1 DEF OpType, Rows
    <2> QED
      BY <1>1, <2>2 DEF TypeOK
  <1>3. /\ \A x \in Requests \ {r} : op'[x] = op[x]
        /\ op'[r].pc = "done"
    BY <1>1 DEF TypeOK, OpType
  <1>a. /\ op'[r].lane = op[r].lane /\ op'[r].id = op[r].id /\ op'[r].out = op[r].out
        /\ op'[r].key = op[r].key /\ op'[r].attached = op[r].attached /\ op'[r].ready = op[r].ready
        /\ op'[r].added = op[r].added
    BY <1>1 DEF TypeOK, OpType
  <1>4. PhasesExact'
    BY <1>1, <1>3, <1>a DEF PhasesExact
  <1>5. KeysClaimed'
    BY <1>1, <1>3, <1>a DEF KeysClaimed, catalog, Known
  <1>6. arrivals' \in Nat /\ faults' \in Nat
    BY <1>1 DEF TypeOK, NotAttached, Fault
  <1>7. (Holder(r)' <=> Holder(r)) /\ (HandingOver(r)' <=> HandingOver(r))
    BY <1>1, <1>3, <1>a DEF Holder, HandingOver, PhasesExact
  <1> QED
    BY <1>1, <1>2, <1>3, <1>a, <1>4, <1>5, <1>6, <1>7, OpKeeps

-----------------------------------------------------------------------------
(* The attach                                                               *)

LEMMA ClearedFacts ==
  ASSUME NEW e \in EngineType
  PROVE  /\ Cleared(e) \in EngineType /\ Cleared(e).table = NoRows /\ Cleared(e).cells = NoRows
         /\ Cleared(e).stale = FALSE
  BY DEF Cleared, Empty, EngineType, Rows

LEMMA ResetFacts ==
  ASSUME NEW e \in EngineType, NEW x \in ResetToEmpty(e)
  PROVE  x \in EngineType /\ x.table \in {NoRows, e.table} /\ (x.cells = x.table \/ x.stale)
  <1>1. Empty \in EngineType /\ Empty.table = NoRows /\ Empty.cells = NoRows
    BY DEF Empty, EngineType, Rows
  <1> DEFINE y == [e EXCEPT !.cells = NoRows, !.stale = TRUE, !.held = "no"]
  <1>2. y \in EngineType /\ y.table = e.table /\ y.stale = TRUE
    BY DEF EngineType, Rows
  <1>3. x \in {Empty, y}
    BY DEF ResetToEmpty
  <1> HIDE DEF y
  <1> QED
    BY <1>1, <1>2, <1>3

LEMMA DrainableFacts ==
  ASSUME NEW e \in EngineType
  PROVE  Drainable(e) \in EngineType /\ Drainable(e).table \in {NoRows, e.table}
  BY ClearedFacts DEF Drainable

\* Every outcome of a swap: the engine holds the rows that came in, or none, or,
\* if neither store changed hands, those it held; what is handed back is what it
\* held, or nothing.
LEMMA SwapFacts ==
  ASSUME NEW e \in EngineType, NEW parked \in Rows, NEW swap \in SwapConv(e, parked)
  PROVE  /\ swap.outcome \in {"throw", "miss", "in"} /\ swap.engine \in EngineType
         /\ swap.engine.cells = swap.engine.table \/ swap.engine.stale
         /\ swap.outcome = "throw" => swap.engine.table \in {NoRows, e.table}
         /\ swap.outcome # "throw" => /\ swap.parked \in {NoRows, e.table}
                                      /\ swap.engine.table \in {NoRows, parked}
         /\ swap.outcome = "in" => parked # NoRows /\ swap.engine.table = parked
  <1>1. Holding(parked) \in EngineType /\ Holding(parked).table = parked /\ Holding(parked).cells = parked
    BY DEF Holding, Empty, EngineType, Rows
  <1>2. CASE swap \in DrainFails(e, parked)
    <2>1. PICK x \in ResetToEmpty(Drainable(e)) : swap = [outcome |-> "throw", engine |-> x, parked |-> parked]
      BY <1>2 DEF DrainFails
    <2> QED
      BY <2>1, DrainableFacts, ResetFacts
  <1>3. CASE swap \in AttachMisses(e, parked)
    <2>1. PICK x \in ResetToEmpty(Holding(parked)) :
             swap = [outcome |-> "miss", engine |-> x, parked |-> Drainable(e).table]
      BY <1>3 DEF AttachMisses
    <2> QED
      BY <1>1, <2>1, DrainableFacts, ResetFacts
  <1>4. CASE swap \in Attaches(e, parked)
    <2>1. parked # NoRows /\ swap = [outcome |-> "in", engine |-> Holding(parked), parked |-> Drainable(e).table]
      BY <1>4 DEF Attaches
    <2> QED
      BY <1>1, <2>1, DrainableFacts
  <1> QED
    BY <1>2, <1>3, <1>4 DEF SwapConv

LEMMA AttachSameKeeps == ASSUME Steady, NEW r \in Requests, AttachSame(r) PROVE IInv'
  <1> USE SteadyFacts, LanesFacts
  <1> DEFINE o == op[r]
  <1>1. o \in OpType /\ o.pc = "leased" /\ o.id = o.out /\ o.lane \in Lanes /\ ~o.attached /\ ~o.ready
    BY DEF AttachSame, PhasesExact, TypeOK, OpType
  <1>2. UNCHANGED <<mode, arrivals, faults, entries, older, resident, Known>>
    BY DEF AttachSame, catalog, Known
  <1>3. op' = [op EXCEPT ![r] = [o EXCEPT !.pc = "swapped", !.fresh = FALSE]]
    BY DEF AttachSame
  <1>4. [o EXCEPT !.pc = "swapped", !.fresh = FALSE] \in OpType
    BY <1>1 DEF OpType
  <1>5. /\ op' \in [Requests -> OpType] /\ \A x \in Requests \ {r} : op'[x] = op[x]
        /\ op'[r].pc = "swapped" /\ op'[r].lane = o.lane /\ op'[r].id = o.id /\ op'[r].out = o.out /\ op'[r].key = o.key
        /\ ~op'[r].attached /\ ~op'[r].ready /\ op'[r].added = o.added
    BY <1>1, <1>3, <1>4 DEF TypeOK, OpType
  <1>6. /\ tokens' \in [Lanes -> Rows] /\ engine' \in [Lanes -> EngineType]
        /\ \A l \in Lanes \ {o.lane} : tokens'[l] = tokens[l] /\ engine'[l] = engine[l]
        /\ SameHistory'
    <2>1. engine[o.lane] \in EngineType
      BY <1>1 DEF TypeOK
    <2> QED
      BY <1>1, <2>1, ClearedFacts DEF TypeOK, AttachSame, SameHistory, Rows
  <1>7. TypeOK'
    BY <1>2, <1>5, <1>6 DEF TypeOK
  <1>8. PhasesExact' /\ KeysClaimed'
    BY <1>1, <1>2, <1>5 DEF PhasesExact, KeysClaimed
  <1>9. KeysUnique' /\ QuotaHeld' /\ LanesOwned' /\ OrderExact'
    BY <1>2 DEF KeysUnique, QuotaHeld, Held, LanesOwned, OrderExact
  <1>10. \A x \in Requests : (Holder(x)' <=> Holder(x)) /\ (HandingOver(x)' <=> HandingOver(x))
    BY <1>1, <1>5 DEF Holder, HandingOver
  <1>11. ClaimsExact'
    <2>1. \A x \in Requests : op'[x].id = op[x].id /\ op'[x].out = op[x].out /\ op'[x].lane = op[x].lane
      BY <1>5
    <2> QED
      BY <1>2, <1>10, <2>1 DEF ClaimsExact
  <1>12. HandsExact'
    BY <1>1, <1>2, <1>5, <1>10 DEF HandsExact
  <1>13. CommittedHeld'
    <2>1. entries[resident[o.lane]].busy
      BY <1>1 DEF HandsExact, ClaimsExact, Holder
    <2>2. ASSUME NEW i \in Known, Idle(i), entries[i].lane # 0 PROVE entries[i].lane \in Lanes \ {o.lane}
      BY <1>1, <2>1, <2>2 DEF LanesOwned, TypeOK, EntryType, Idle
    <2> QED
      BY <1>2, <1>6, <2>2 DEF CommittedHeld, Idle
  <1> QED
    BY <1>6, <1>7, <1>8, <1>9, <1>11, <1>12, <1>13 DEF IInv

\* A holder and the entry another one moves out.
LEMMA Apart ==
  ASSUME Steady
  PROVE  /\ \A x \in Requests : HandingOver(x) => /\ Holder(x) /\ op[x].out \in Known /\ entries[op[x].out].switching
                                                  /\ ~entries[op[x].out].busy
         /\ \A x \in Requests : Holder(x) => op[x].id \in Known /\ entries[op[x].id].busy
         /\ \A x, y \in Requests : HandingOver(x) /\ Holder(y) => op[x].out # op[y].id
         /\ \A x, y \in Requests : x # y /\ Holder(x) /\ Holder(y) => op[x].id # op[y].id /\ op[x].lane # op[y].lane
  <1> USE SteadyFacts
  <1>1. \A x \in Requests : HandingOver(x) => Holder(x)
    BY DEF HandingOver, Holder
  <1>2. \A x \in Requests : Holder(x) => op[x].id \in Known /\ entries[op[x].id].busy
    BY DEF HandsExact, ClaimsExact
  <1>3. \A x \in Requests : HandingOver(x) => op[x].out \in Known /\ entries[op[x].out].switching
    BY DEF Steady, HandoverProtected
  <1>4. \A x \in Requests : HandingOver(x) => ~entries[op[x].out].busy
    BY <1>1 DEF HandsExact
  <1> QED
    BY <1>1, <1>2, <1>3, <1>4 DEF ClaimsExact

\* Two requests that move something out move different entries out.
LEMMA OutsApart ==
  ASSUME Steady, NEW x \in Requests, NEW y \in Requests, x # y, HandingOver(x), HandingOver(y), op[x].pc = "leased"
  PROVE  op[x].out # op[y].out
  <1> USE SteadyFacts, LanesFacts
  <1>0. Holder(x) /\ Holder(y) /\ ~op[x].attached
    BY Apart DEF PhasesExact
  <1>1. op[x].lane \in Lanes /\ op[y].lane \in Lanes /\ op[x].lane # op[y].lane
    BY <1>0, Apart DEF PhasesExact, TypeOK, OpType, Holder
  <1>2. resident[op[x].lane] = op[x].out /\ entries[op[x].out].lane = op[x].lane
    <2>1. resident[op[x].lane] = op[x].out
      BY <1>0 DEF HandsExact
    <2> QED
      BY <1>1, <2>1 DEF LanesOwned
  <1>3. entries[op[y].out].lane \in {0, op[y].lane}
    <2>1. CASE op[y].attached
      BY <1>0, <2>1 DEF HandsExact
    <2>2. CASE ~op[y].attached
      <3>1. resident[op[y].lane] = op[y].out
        BY <1>0, <2>2 DEF HandsExact
      <3> QED
        BY <1>1, <3>1 DEF LanesOwned
    <2> QED
      BY <2>1, <2>2
  <1> QED
    BY <1>1, <1>2, <1>3

LEMMA ThrowsKeeps ==
  ASSUME Steady, NEW r \in Requests, op[r].pc = "leased", op[r].id # op[r].out,
         NEW swap \in SwapConv(engine[op[r].lane], Incoming(op[r])), Throws(r, swap)
  PROVE  IInv'
  <1> USE SteadyFacts, LanesFacts
  <1> DEFINE o == op[r]
  <1>1. /\ o \in OpType /\ o.lane \in Lanes /\ ~o.attached /\ ~o.ready /\ o.id \in Known /\ o.out \in Known
        /\ HandingOver(r) /\ Holder(r)
    BY Apart DEF PhasesExact, TypeOK, OpType, Holder, HandingOver
  <1>2. UNCHANGED <<mode, arrivals, older, resident>> /\ faults' \in Nat
    BY DEF Throws, Fault, TypeOK
  <1>3. op' = [op EXCEPT ![r] = [o EXCEPT !.pc = "done", !.want = NoRows]]
    BY DEF Throws, Failed
  <1>4. [o EXCEPT !.pc = "done", !.want = NoRows] \in OpType
    BY <1>1 DEF OpType, Rows
  <1>5. /\ op' \in [Requests -> OpType] /\ \A x \in Requests \ {r} : op'[x] = op[x]
        /\ op'[r].pc = "done" /\ op'[r].lane = o.lane /\ op'[r].id = o.id /\ op'[r].out = o.out /\ op'[r].key = o.key
        /\ ~op'[r].attached /\ ~op'[r].ready /\ op'[r].added = o.added
    BY <1>1, <1>3, <1>4 DEF TypeOK, OpType
  <1> DEFINE e == entries[o.id]
             f == [e EXCEPT !.parked = Incoming(o), !.frozen = FALSE, !.payload = IF o.fresh THEN NoRows ELSE e.payload]
  <1>6. e \in EntryType /\ Incoming(o) \in Rows
    BY <1>1 DEF TypeOK, Incoming, Rows, EntryType
  <1>7. f \in EntryType /\ f.lane = e.lane /\ f.busy = e.busy /\ f.switching = e.switching /\ f.key = e.key /\ f.committed = e.committed
    <2> HIDE DEF e
    <2> QED
      BY <1>6 DEF EntryType, Rows
  <1>8. entries' = [entries EXCEPT ![o.id] = f]
    BY DEF Throws
  <1> HIDE DEF f
  <1>9. /\ Known' = Known /\ entries' \in [Known -> EntryType]
        /\ \A i \in Known : /\ entries'[i].lane = entries[i].lane /\ entries'[i].busy = entries[i].busy
                            /\ entries'[i].switching = entries[i].switching /\ entries'[i].key = entries[i].key
                            /\ entries'[i].committed = entries[i].committed
        /\ \A i \in Known \ {o.id} : entries'[i] = entries[i]
    BY <1>1, <1>7, <1>8 DEF TypeOK, Known
  <1>10. /\ tokens' \in [Lanes -> Rows] /\ engine' \in [Lanes -> EngineType]
         /\ \A l \in Lanes \ {o.lane} : tokens'[l] = tokens[l] /\ engine'[l] = engine[l]
         /\ SameHistory'
    <2>1. engine[o.lane] \in EngineType /\ swap.outcome = "throw"
      BY <1>1 DEF TypeOK, Throws
    <2>2. swap.engine \in EngineType /\ swap.engine.table \in {NoRows, engine[o.lane].table}
          /\ (swap.engine.cells = swap.engine.table \/ swap.engine.stale)
      BY <1>6, <2>1, SwapFacts
    <2>3. PICK clear \in {swap.engine.table = NoRows /\ tokens[o.lane] # NoRows, FALSE} :
             /\ engine' = [engine EXCEPT ![o.lane] = IF clear THEN Cleared(swap.engine) ELSE swap.engine]
             /\ tokens' = [tokens EXCEPT ![o.lane] = IF clear THEN NoRows ELSE @]
      BY DEF Throws
    <2>4. CASE clear
      BY <1>1, <2>1, <2>2, <2>3, <2>4, ClearedFacts DEF TypeOK, SameHistory, Rows
    <2>5. CASE ~clear
      BY <1>1, <2>1, <2>2, <2>3, <2>5 DEF TypeOK, SameHistory, Rows
    <2> QED
      BY <2>4, <2>5
  <1>11. TypeOK'
    BY <1>2, <1>5, <1>9, <1>10 DEF TypeOK
  <1>12. PhasesExact' /\ KeysClaimed'
    BY <1>1, <1>2, <1>5, <1>9 DEF PhasesExact, KeysClaimed
  <1>13. KeysUnique' /\ LanesOwned' /\ OrderExact'
    BY <1>2, <1>9 DEF KeysUnique, LanesOwned, OrderExact
  <1>14. QuotaHeld'
    <2>1. Held' = Held
      BY <1>9 DEF Held
    <2> QED
      BY <1>2, <2>1 DEF QuotaHeld
  <1>15. \A x \in Requests : (Holder(x)' <=> Holder(x)) /\ (HandingOver(x)' <=> HandingOver(x))
    BY <1>1, <1>5 DEF Holder, HandingOver
  <1>16. ClaimsExact'
    <2>1. \A x \in Requests : op'[x].id = op[x].id /\ op'[x].out = op[x].out /\ op'[x].lane = op[x].lane
      BY <1>5
    <2> QED
      BY <1>9, <1>15, <2>1 DEF ClaimsExact
  <1>17. HandsExact'
    <2>1. \A x \in Requests \ {r} : Holder(x) => op[x].id # o.id
      BY <1>1, Apart
    <2>2. \A x \in Requests \ {r} : HandingOver(x) => op[x].out # o.id /\ op[x].out \in Known
      BY <1>1, Apart
    <2>3. \A x \in Requests : op[x].pc \in {"swapped", "demoting"} /\ op[x].id # op[x].out => HandingOver(x)
      BY DEF HandingOver
    <2>4. \A x \in Requests : op[x].pc = "demoting" => op[x].id # op[x].out
      BY DEF PhasesExact
    <2> QED
      BY <1>1, <1>2, <1>5, <1>9, <1>15, <2>1, <2>2, <2>3, <2>4 DEF HandsExact
  <1>18. CommittedHeld'
    <2>1. entries[o.id].busy /\ entries[o.out].switching /\ resident[o.lane] = o.out
      BY <1>1, Apart DEF HandsExact
    <2>2. ASSUME NEW i \in Known, Idle(i), entries[i].lane # 0 PROVE entries[i].lane \in Lanes \ {o.lane}
      BY <1>1, <2>1, <2>2 DEF LanesOwned, TypeOK, EntryType, Idle
    <2>3. \A i \in Known : Idle(i)' <=> Idle(i)
      BY <1>9 DEF Idle
    <2>4. \A i \in Known : Idle(i) => i # o.id
      BY <2>1 DEF Idle
    <2> SUFFICES ASSUME NEW i \in Known, Idle(i), entries[i].committed # NoRows
                 PROVE  IF entries'[i].lane = 0 THEN entries'[i].parked = entries'[i].committed /\ entries'[i].payload = entries'[i].committed
                        ELSE tokens'[entries'[i].lane] = entries'[i].committed
      BY <1>9, <2>3 DEF CommittedHeld
    <2>5. entries'[i] = entries[i]
      BY <1>9, <2>4
    <2>6. CASE entries[i].lane = 0
      BY <2>5, <2>6 DEF CommittedHeld
    <2>7. CASE entries[i].lane # 0
      <3>1. tokens'[entries[i].lane] = tokens[entries[i].lane]
        BY <1>10, <2>2, <2>7
      <3> QED
        BY <2>5, <2>7, <3>1 DEF CommittedHeld
    <2> QED
      BY <2>6, <2>7
  <1> QED
    BY <1>10, <1>11, <1>12, <1>13, <1>14, <1>16, <1>17, <1>18 DEF IInv

LEMMA HandsKeeps ==
  ASSUME Steady, NEW r \in Requests, op[r].pc = "leased", op[r].id # op[r].out,
         NEW swap \in SwapConv(engine[op[r].lane], Incoming(op[r])), Hands(r, swap)
  PROVE  IInv'
  <1> USE SteadyFacts, LanesFacts
  <1> DEFINE o == op[r]
             came == IF o.fresh THEN NoRows ELSE entries[o.id].payload
  <1>1. /\ o \in OpType /\ o.lane \in Lanes /\ ~o.attached /\ ~o.ready /\ o.id \in Known /\ o.out \in Known
        /\ HandingOver(r) /\ Holder(r) /\ entries[o.id].busy /\ entries[o.out].switching /\ ~entries[o.out].busy
    BY Apart DEF PhasesExact, TypeOK, OpType, Holder, HandingOver
  <1>2. /\ resident[o.lane] = o.out /\ entries[o.out].lane = o.lane /\ entries[o.id].lane = 0
        /\ ~o.fresh => entries[o.id].parked = entries[o.id].payload
    <2>1. resident[o.lane] = o.out /\ entries[o.id].lane = 0
          /\ (~o.fresh => entries[o.id].parked = entries[o.id].payload)
      BY <1>1 DEF HandsExact
    <2> QED
      BY <1>1, <2>1 DEF LanesOwned
  <1>3. UNCHANGED <<mode, arrivals, older>> /\ faults' \in Nat
    BY DEF Hands, Fault, TypeOK
  <1>4. PICK repaired \in IF Lost(swap, came) THEN BOOLEAN ELSE {TRUE} :
          LET clear == Lost(swap, came) /\ repaired IN
          /\ engine' = [engine EXCEPT ![o.lane] = IF clear THEN Cleared(swap.engine) ELSE swap.engine]
          /\ tokens' = [tokens EXCEPT ![o.lane] = IF clear THEN NoRows ELSE came]
          /\ entries' = [entries EXCEPT
               ![o.id] = [@ EXCEPT !.lane = o.lane, !.parked = NoRows, !.payload = NoRows, !.frozen = FALSE],
               ![o.out] = [@ EXCEPT !.lane = 0, !.parked = swap.parked,
                             !.payload = IF repaired /\ swap.parked = NoRows THEN NoRows ELSE tokens[o.lane]]]
          /\ op' = [op EXCEPT ![r] = [@ EXCEPT !.attached = TRUE, !.fresh = FALSE, !.added = FALSE,
                                      !.pc = IF repaired THEN "swapped" ELSE "done"]]
    BY Zenon DEF Hands
  <1>5. repaired \in BOOLEAN /\ (~repaired => Lost(swap, came))
    BY <1>4
  <1>6. resident' = [resident EXCEPT ![o.lane] = o.id]
    BY DEF Hands
  <1> DEFINE p == [o EXCEPT !.attached = TRUE, !.fresh = FALSE, !.added = FALSE, !.pc = IF repaired THEN "swapped" ELSE "done"]
  <1>7. p \in OpType
    BY <1>1 DEF OpType
  <1>8. op' = [op EXCEPT ![r] = p]
    BY <1>4
  <1>9. /\ op' \in [Requests -> OpType] /\ \A x \in Requests \ {r} : op'[x] = op[x]
        /\ op'[r].pc = (IF repaired THEN "swapped" ELSE "done")
        /\ op'[r].lane = o.lane /\ op'[r].id = o.id /\ op'[r].out = o.out /\ op'[r].key = o.key
        /\ op'[r].attached /\ ~op'[r].ready
    BY <1>1, <1>7, <1>8 DEF TypeOK, OpType
  <1>10. came \in Rows /\ Incoming(o) \in Rows /\ entries[o.id] \in EntryType /\ entries[o.out] \in EntryType
         /\ tokens[o.lane] \in Rows /\ engine[o.lane] \in EngineType /\ came = Incoming(o)
    BY <1>1, <1>2 DEF TypeOK, EntryType, Incoming, Rows
  <1>11. /\ swap.outcome \in {"miss", "in"} /\ swap.engine \in EngineType
         /\ swap.engine.cells = swap.engine.table \/ swap.engine.stale
         /\ swap.parked \in {NoRows, engine[o.lane].table} /\ swap.parked \in Rows
         /\ swap.engine.table \in {NoRows, came}
    <2> HIDE DEF came
    <2>1. swap.outcome # "throw"
      BY DEF Hands
    <2>2. engine[o.lane].table \in Rows
      BY <1>10 DEF EngineType
    <2>3. swap \in SwapConv(engine[o.lane], came)
      BY <1>10
    <2>4. /\ swap.outcome \in {"throw", "miss", "in"} /\ swap.engine \in EngineType
          /\ swap.engine.cells = swap.engine.table \/ swap.engine.stale
          /\ swap.outcome # "throw" => /\ swap.parked \in {NoRows, engine[o.lane].table}
                                       /\ swap.engine.table \in {NoRows, came}
      BY <1>10, <2>3, SwapFacts
    <2>5. NoRows \in Rows
      BY DEF Rows
    <2> QED
      BY <2>1, <2>2, <2>4, <2>5
  <1>12. /\ Known' = Known /\ entries' \in [Known -> EntryType]
         /\ \A i \in Known \ {o.id, o.out} : entries'[i] = entries[i]
         /\ entries'[o.id].lane = o.lane /\ entries'[o.out].lane = 0
         /\ entries'[o.out].parked = swap.parked
         /\ entries'[o.out].payload = (IF repaired /\ swap.parked = NoRows THEN NoRows ELSE tokens[o.lane])
         /\ \A i \in Known : /\ entries'[i].busy = entries[i].busy
                             /\ entries'[i].switching = entries[i].switching /\ entries'[i].key = entries[i].key
                             /\ entries'[i].committed = entries[i].committed
    <2> DEFINE g == [entries[o.id] EXCEPT !.lane = o.lane, !.parked = NoRows, !.payload = NoRows, !.frozen = FALSE]
               h == [entries[o.out] EXCEPT !.lane = 0, !.parked = swap.parked,
                             !.payload = IF repaired /\ swap.parked = NoRows THEN NoRows ELSE tokens[o.lane]]
    <2>1. g \in EntryType /\ g.lane = o.lane /\ g.busy = entries[o.id].busy /\ g.switching = entries[o.id].switching
          /\ g.key = entries[o.id].key /\ g.committed = entries[o.id].committed
      BY <1>1, <1>10 DEF EntryType, Rows
    <2>a. (IF repaired /\ swap.parked = NoRows THEN NoRows ELSE tokens[o.lane]) \in Rows
      BY <1>10 DEF Rows
    <2>b. \A x \in Rows : LET y == [entries[o.out] EXCEPT !.lane = 0, !.parked = swap.parked, !.payload = x] IN
            /\ y \in EntryType /\ y.lane = 0 /\ y.busy = entries[o.out].busy /\ y.switching = entries[o.out].switching
            /\ y.key = entries[o.out].key /\ y.committed = entries[o.out].committed /\ y.parked = swap.parked
            /\ y.payload = x
      BY <1>10, <1>11 DEF EntryType
    <2>2. h \in EntryType /\ h.lane = 0 /\ h.busy = entries[o.out].busy /\ h.switching = entries[o.out].switching
          /\ h.key = entries[o.out].key /\ h.committed = entries[o.out].committed /\ h.parked = swap.parked
          /\ h.payload = (IF repaired /\ swap.parked = NoRows THEN NoRows ELSE tokens[o.lane])
      <3> DEFINE x == IF repaired /\ swap.parked = NoRows THEN NoRows ELSE tokens[o.lane]
      <3>1. h = [entries[o.out] EXCEPT !.lane = 0, !.parked = swap.parked, !.payload = x]
        OBVIOUS
      <3> HIDE DEF h, x
      <3>2. x \in Rows
        BY <2>a DEF x
      <3>3. /\ h \in EntryType /\ h.lane = 0 /\ h.busy = entries[o.out].busy /\ h.switching = entries[o.out].switching
            /\ h.key = entries[o.out].key /\ h.committed = entries[o.out].committed /\ h.parked = swap.parked
            /\ h.payload = x
        BY <2>b, <3>1, <3>2
      <3> QED
        BY <3>3 DEF x
    <2>3. entries' = [entries EXCEPT ![o.id] = g, ![o.out] = h]
      BY <1>4
    <2> HIDE DEF g, h
    <2>4. Known' = Known /\ entries' \in [Known -> EntryType] /\ entries'[o.id] = g /\ entries'[o.out] = h
          /\ \A i \in Known \ {o.id, o.out} : entries'[i] = entries[i]
      BY <1>1, <2>1, <2>2, <2>3 DEF TypeOK, Known
    <2> QED
      BY <2>1, <2>2, <2>4
  <1>13. /\ tokens' \in [Lanes -> Rows] /\ engine' \in [Lanes -> EngineType] /\ resident' \in [Lanes -> Ids]
         /\ \A l \in Lanes \ {o.lane} : tokens'[l] = tokens[l] /\ engine'[l] = engine[l] /\ resident'[l] = resident[l]
         /\ resident'[o.lane] = o.id /\ SameHistory'
    <2>1. Cleared(swap.engine) \in EngineType /\ Cleared(swap.engine).table = NoRows /\ Cleared(swap.engine).cells = NoRows
      BY <1>11, ClearedFacts
    <2>2. NoRows \in Rows
      BY DEF Rows
    <2>3. /\ tokens' \in [Lanes -> Rows] /\ engine' \in [Lanes -> EngineType] /\ resident' \in [Lanes -> Ids]
          /\ \A l \in Lanes \ {o.lane} : tokens'[l] = tokens[l] /\ engine'[l] = engine[l] /\ resident'[l] = resident[l]
          /\ resident'[o.lane] = o.id
      BY <1>1, <1>4, <1>6, <1>10, <1>11, <2>1, <2>2 DEF TypeOK
    <2>4. \/ tokens'[o.lane] = NoRows /\ engine'[o.lane] = Cleared(swap.engine)
          \/ tokens'[o.lane] = came /\ engine'[o.lane] = swap.engine
      BY <1>1, <1>4 DEF TypeOK
    <2>5. /\ NoRows \notin {tokens'[o.lane], engine'[o.lane].table} => tokens'[o.lane] = engine'[o.lane].table
          /\ engine'[o.lane].cells = engine'[o.lane].table \/ engine'[o.lane].stale
      BY <1>11, <2>1, <2>4
    <2>6. \A l \in Lanes :
            /\ NoRows \notin {tokens'[l], engine'[l].table} => tokens'[l] = engine'[l].table
            /\ engine'[l].cells = engine'[l].table \/ engine'[l].stale
      BY <2>3, <2>5 DEF SameHistory
    <2>7. SameHistory'
      BY <2>6 DEF SameHistory
    <2> QED
      BY <2>3, <2>7
  <1> HIDE DEF p, came
  <1>14. TypeOK'
    BY <1>3, <1>9, <1>12, <1>13 DEF TypeOK
  <1>15. PhasesExact' /\ KeysClaimed'
    BY <1>1, <1>9, <1>12 DEF PhasesExact, KeysClaimed
  <1>16. KeysUnique' /\ OrderExact'
    BY <1>3, <1>12 DEF KeysUnique, OrderExact
  <1>17. LanesOwned'
    <2>1. ASSUME NEW l \in Lanes PROVE resident'[l] \in Known /\ entries'[resident'[l]].lane = l
      <3>1. CASE l = o.lane
        BY <1>1, <1>12, <1>13, <3>1
      <3>2. CASE l # o.lane
        <4>1. resident[l] \in Known \ {o.id, o.out} /\ entries[resident[l]].lane = l
          BY <1>2, <3>2 DEF LanesOwned
        <4> QED
          BY <1>12, <1>13, <3>2, <4>1
      <3> QED
        BY <3>1, <3>2
    <2>2. ASSUME NEW i \in Known, entries'[i].lane # 0 PROVE resident'[entries'[i].lane] = i
      <3>1. CASE i \in {o.id, o.out}
        BY <1>1, <1>12, <1>13, <2>2, <3>1
      <3>2. CASE i \notin {o.id, o.out}
        <4>1. entries[i] \in EntryType /\ entries'[i] = entries[i] /\ resident[entries[i].lane] = i
          BY <1>12, <2>2, <3>2 DEF TypeOK, LanesOwned
        <4>2. entries[i].lane \in Lanes \ {o.lane}
          BY <1>2, <2>2, <3>2, <4>1 DEF EntryType
        <4> QED
          BY <1>13, <4>1, <4>2
      <3> QED
        BY <3>1, <3>2
    <2> QED
      BY <1>12, <2>1, <2>2 DEF LanesOwned
  <1>18. QuotaHeld'
    <2>1. Held' = Held
      BY <1>1, <1>12 DEF Held
    <2> QED
      BY <1>3, <2>1 DEF QuotaHeld
  <1>19. \A x \in Requests : (Holder(x)' <=> Holder(x)) /\ (HandingOver(x)' <=> HandingOver(x))
    BY <1>1, <1>9 DEF Holder, HandingOver
  <1>20. ClaimsExact'
    <2>1. \A x \in Requests : op'[x].id = op[x].id /\ op'[x].out = op[x].out /\ op'[x].lane = op[x].lane
      BY <1>9
    <2> QED
      BY <1>12, <1>19, <2>1 DEF ClaimsExact
  <1>21. HandsExact'
    <2> SUFFICES ASSUME NEW x \in Requests, Holder(x)' PROVE HandsExact!(x)!2'
      BY DEF HandsExact
    <2>1. CASE x = r
      <3>1. repaired => entries'[o.out].payload \in {NoRows, entries'[o.out].parked}
        <4>1. swap.parked # NoRows => tokens[o.lane] \in {NoRows, swap.parked}
          BY <1>1, <1>11 DEF SameHistory
        <4> QED
          BY <1>12, <4>1
      <3> QED
        BY <1>1, <1>9, <1>12, <1>13, <2>1, <3>1
    <2>2. CASE x # r
      <3>1. Holder(x) /\ op[x].id \in Known \ {o.id, o.out} /\ op[x].lane \in Lanes \ {o.lane} /\ op'[x] = op[x]
        BY <1>1, <1>9, <1>19, <2>2, Apart DEF PhasesExact, TypeOK, OpType, Holder
      <3>2. HandingOver(x) => op[x].out \in Known \ {o.id, o.out} /\ (HandingOver(x)' <=> HandingOver(x))
        BY <1>1, <1>19, <2>2, Apart, OutsApart
      <3>3. op[x].pc \in {"swapped", "demoting"} /\ op[x].id # op[x].out => HandingOver(x)
        BY DEF HandingOver
      <3>4. op[x].pc = "demoting" => HandingOver(x)
        BY <3>3 DEF PhasesExact
      <3>5. entries'[op[x].id] = entries[op[x].id] /\ resident'[op[x].lane] = resident[op[x].lane]
            /\ (HandingOver(x) => entries'[op[x].out] = entries[op[x].out])
        BY <1>12, <1>13, <3>1, <3>2
      <3> QED
        BY <1>12, <1>19, <3>1, <3>2, <3>3, <3>4, <3>5 DEF HandsExact
    <2> QED
      BY <2>1, <2>2
  <1>22. CommittedHeld'
    <2> SUFFICES ASSUME NEW i \in Known, Idle(i)', entries'[i].committed # NoRows
                 PROVE  IF entries'[i].lane = 0 THEN entries'[i].parked = entries'[i].committed /\ entries'[i].payload = entries'[i].committed
                        ELSE tokens'[entries'[i].lane] = entries'[i].committed
      BY <1>12 DEF CommittedHeld
    <2>1. i \notin {o.id, o.out} /\ entries'[i] = entries[i] /\ Idle(i)
      BY <1>1, <1>12 DEF Idle
    <2>2. entries[i].lane # o.lane
      BY <1>1, <1>2, <2>1 DEF LanesOwned
    <2>3. entries[i].lane # 0 => tokens'[entries[i].lane] = tokens[entries[i].lane]
      <3>1. entries[i] \in EntryType
        BY DEF TypeOK
      <3>2. entries[i].lane # 0 => entries[i].lane \in Lanes \ {o.lane}
        BY <2>2, <3>1 DEF EntryType
      <3> QED
        BY <1>13, <3>2
    <2> QED
      BY <2>1, <2>3 DEF CommittedHeld
  <1> QED
    BY <1>13, <1>14, <1>15, <1>16, <1>17, <1>18, <1>20, <1>21, <1>22 DEF IInv

LEMMA AttachOtherKeeps == ASSUME Steady, NEW r \in Requests, AttachOther(r) PROVE IInv'
  BY ThrowsKeeps, HandsKeeps DEF AttachOther

\* Publish and Demoted: the outgoing entry says what it holds.
LEMMA SettlesOutKeeps ==
  ASSUME Steady, NEW r \in Requests, op[r].pc \in {"swapped", "demoting"},
         UNCHANGED <<mode, arrivals, older, resident, lanes, faults>>,
         Known' = Known, entries' \in [Known -> EntryType], op' \in [Requests -> OpType],
         \A i \in Known : /\ entries'[i].lane = entries[i].lane /\ entries'[i].busy = entries[i].busy
                          /\ entries'[i].parked = entries[i].parked /\ entries'[i].payload = entries[i].payload
                          /\ entries'[i].key = entries[i].key \/ (i = op[r].id /\ op[r].pc = "swapped" /\ entries'[i].key = op[r].key)
                          /\ i # op[r].out \/ i = op[r].id =>
                               entries'[i].committed = entries[i].committed /\ entries'[i].switching = entries[i].switching,
         op[r].id # op[r].out => /\ entries'[op[r].out].committed = entries[op[r].out].payload
                                 /\ entries'[op[r].out].switching <=> op'[r].pc = "demoting",
         \A x \in Requests \ {r} : op'[x] = op[x],
         op'[r].pc \in {"demoting", "attached"}, op'[r].pc = "demoting" => mode = "total" /\ op[r].id # op[r].out,
         op'[r].attached, op'[r].ready <=> op'[r].pc = "attached",
         op'[r].id = op[r].id, op'[r].out = op[r].out, op'[r].lane = op[r].lane, op'[r].key = op[r].key,
         op'[r].added = op[r].added
  PROVE  IInv'
  <1> USE SteadyFacts, LanesFacts
  <1> DEFINE o == op[r]
  <1>1. /\ o \in OpType /\ o.lane \in Lanes /\ Holder(r) /\ o.id \in Known /\ entries[o.id].busy
        /\ ~o.ready /\ (o.attached <=> o.id # o.out)
        /\ (HandingOver(r) <=> o.id # o.out) /\ Holder(r)' /\ (HandingOver(r)' <=> op'[r].pc = "demoting")
    BY Apart DEF PhasesExact, TypeOK, OpType, Holder, HandingOver
  <1>2. o.id # o.out => /\ o.out \in Known /\ entries[o.out].lane = 0 /\ ~entries[o.out].busy
                        /\ entries[o.out].payload \in {NoRows, entries[o.out].parked}
    BY <1>1, Apart DEF HandsExact
  <1>3. UNCHANGED <<mode, older, resident, engine, tokens>>
    BY DEF lanes
  <1>4. TypeOK'
    BY <1>3 DEF TypeOK
  <1>5. PhasesExact'
    BY <1>1 DEF PhasesExact
  <1>6. KeysUnique'
    BY DEF KeysUnique, KeysClaimed
  <1>7. KeysClaimed'
    <2>1. \A x \in Requests : op'[x].lane = op[x].lane /\ op'[x].key = op[x].key /\ op'[x].id = op[x].id
      OBVIOUS
    <2>2. ASSUME NEW x \in Requests, op'[x].pc \in {"leased", "swapped"}, op'[x].key # NoKey,
                 NEW i \in Known, entries'[i].key = op'[x].key
          PROVE  i = op'[x].id
      <3>1. x # r /\ op'[x] = op[x] /\ op[x].lane # 0
        BY <2>2 DEF PhasesExact
      <3>2. o.lane # 0 /\ (o.key # NoKey => op[x].key # o.key)
        BY <1>1, <3>1 DEF KeysClaimed
      <3>3. entries[i].key = op[x].key
        BY <2>2, <3>1, <3>2
      <3> QED
        BY <2>2, <3>1, <3>3 DEF KeysClaimed
    <2> QED
      BY <2>1, <2>2 DEF KeysClaimed
  <1>8. SameHistory' /\ OrderExact'
    BY <1>3 DEF SameHistory, OrderExact
  <1>9. QuotaHeld'
    <2> SUFFICES ASSUME mode = "inactive" PROVE Cardinality(Held') <= Limit
      BY <1>3 DEF QuotaHeld
    <2>1. ASSUME NEW i \in Held' PROVE i \in Held
      <3>1. i \in Known /\ ~entries'[i].busy /\ entries'[i].committed # NoRows /\ (entries'[i].lane # 0 \/ entries'[i].switching)
        BY <2>1 DEF Held
      <3>2. CASE o.id = o.out
        BY <1>1, <3>1, <3>2 DEF Held
      <3>3. CASE o.id # o.out /\ i = o.out
        BY <1>2, <3>1, <3>3
      <3>4. CASE i # o.out
        BY <3>1, <3>4 DEF Held
      <3> QED
        BY <3>2, <3>3, <3>4
    <2>2. IsFiniteSet(Held) /\ Held' \subseteq Held
      BY <2>1, FS_Subset DEF Held, TypeOK
    <2>3. Cardinality(Held') <= Cardinality(Held) /\ Cardinality(Held) \in Nat /\ Cardinality(Held') \in Nat
      BY <2>2, FS_Subset, FS_CardinalityType
    <2> QED
      BY <2>3, LanesAssumption DEF QuotaHeld
  <1>10. LanesOwned'
    BY <1>3 DEF LanesOwned
  <1>11. \A x \in Requests : (Holder(x)' <=> Holder(x)) /\ (x # r => (HandingOver(x)' <=> HandingOver(x)))
    BY <1>1 DEF Holder, HandingOver
  <1>12. ClaimsExact'
    <2>1. \A x \in Requests : op'[x].id = op[x].id /\ op'[x].out = op[x].out /\ op'[x].lane = op[x].lane
      OBVIOUS
    <2>2. ASSUME NEW i \in Known, entries'[i].switching PROVE \E x \in Requests : HandingOver(x)' /\ op'[x].out = i
      <3>1. CASE o.id # o.out /\ i = o.out
        BY <1>1, <2>1, <2>2, <3>1
      <3>2. CASE o.id = o.out \/ i # o.out
        <4>1. entries[i].switching
          BY <2>2, <3>2
        <4>2. PICK x \in Requests : HandingOver(x) /\ op[x].out = i
          BY <4>1 DEF ClaimsExact
        <4>3. x # r
          BY <1>1, <3>2, <4>2
        <4> QED
          BY <1>11, <2>1, <4>2, <4>3
      <3> QED
        BY <3>1, <3>2
    <2>3. \A i \in Known : entries'[i].busy <=> (\E x \in Requests : Holder(x)' /\ op'[x].id = i)
      BY <1>11, <2>1 DEF ClaimsExact
    <2>4. \A y, x \in Requests : y # x /\ Holder(y)' /\ Holder(x)' => op'[y].id # op'[x].id /\ op'[y].lane # op'[x].lane
      BY <1>11, <2>1 DEF ClaimsExact
    <2> QED
      BY <2>2, <2>3, <2>4 DEF ClaimsExact
  <1>13. HandsExact'
    <2> SUFFICES ASSUME NEW x \in Requests, Holder(x)' PROVE HandsExact!(x)!2'
      BY DEF HandsExact
    <2>1. CASE x = r
      <3>1. resident[o.lane] = o.id
        BY <1>1 DEF HandsExact
      <3> QED
        BY <1>1, <1>2, <1>3, <2>1, <3>1
    <2>2. CASE x # r
      <3>1. Holder(x) /\ op'[x] = op[x] /\ op[x].id \in Known /\ (HandingOver(x)' <=> HandingOver(x))
        BY <1>11, <2>2, Apart
      <3>2. HandingOver(x) => op[x].out \in Known
        BY Apart
      <3>3. op[x].pc \in {"swapped", "demoting"} /\ op[x].id # op[x].out => HandingOver(x)
        BY DEF HandingOver
      <3>4. op[x].pc = "demoting" => HandingOver(x)
        BY <3>3 DEF PhasesExact
      <3>5. op[x].pc = "demoting" => entries'[op[x].out].committed = entries'[op[x].out].payload
        <4> SUFFICES ASSUME op[x].pc = "demoting" PROVE entries'[op[x].out].committed = entries'[op[x].out].payload
          OBVIOUS
        <4>1. op[x].out \in Known /\ entries[op[x].out].committed = entries[op[x].out].payload
          BY <3>1, <3>2, <3>4 DEF HandsExact
        <4> QED
          BY <4>1
      <3> QED
        BY <1>3, <3>1, <3>2, <3>3, <3>4, <3>5 DEF HandsExact
    <2> QED
      BY <2>1, <2>2
  <1>14. CommittedHeld'
    <2> SUFFICES ASSUME NEW i \in Known, Idle(i)', entries'[i].committed # NoRows
                 PROVE  IF entries'[i].lane = 0 THEN entries'[i].parked = entries'[i].committed /\ entries'[i].payload = entries'[i].committed
                        ELSE tokens'[entries'[i].lane] = entries'[i].committed
      BY DEF CommittedHeld
    <2>1. i # o.id
      BY <1>1 DEF Idle
    <2>2. CASE i = o.out
      BY <1>2, <2>1, <2>2
    <2>3. CASE i # o.out
      <3>1. Idle(i) /\ entries[i].committed # NoRows
        BY <2>3 DEF Idle
      <3> QED
        BY <1>3, <2>3, <3>1 DEF CommittedHeld
    <2> QED
      BY <2>2, <2>3
  <1> QED
    BY <1>4, <1>5, <1>6, <1>7, <1>8, <1>9, <1>10, <1>12, <1>13, <1>14 DEF IInv

LEMMA PublishKeeps == ASSUME Steady, NEW r \in Requests, Publish(r) PROVE IInv'
  <1> USE SteadyFacts, LanesFacts
  <1> DEFINE o == op[r]
             mine == [entries EXCEPT ![o.id].key = o.key]
  <1>1. o \in OpType /\ o.pc = "swapped" /\ o.id \in Known /\ entries[o.id] \in EntryType
        /\ UNCHANGED <<mode, arrivals, older, resident, lanes, faults>>
    BY Apart DEF Publish, TypeOK, Holder
  <1>2. o.id # o.out => o.out \in Known /\ entries[o.out] \in EntryType /\ entries[o.out].lane = 0
    <2>1. o.id # o.out => HandingOver(r) /\ Holder(r) /\ o.attached
      BY <1>1 DEF HandingOver, Holder, PhasesExact
    <2> QED
      BY <2>1, Apart DEF HandsExact, TypeOK
  <1>3. PICK demote \in BOOLEAN :
          /\ demote => mode = "total" /\ o.id # o.out
          /\ entries' = IF o.id = o.out THEN mine
                        ELSE [mine EXCEPT ![o.out] = [@ EXCEPT !.lane = 0, !.committed = entries[o.out].payload,
                                !.switching = demote]]
          /\ op' = [op EXCEPT ![r] = [@ EXCEPT !.pc = IF demote THEN "demoting" ELSE "attached",
                                      !.attached = TRUE, !.ready = ~demote]]
    BY DEF Publish
  <1> DEFINE g == [entries[o.id] EXCEPT !.key = o.key]
             h == [entries[o.out] EXCEPT !.lane = 0, !.committed = entries[o.out].payload, !.switching = demote]
             p == [o EXCEPT !.pc = IF demote THEN "demoting" ELSE "attached", !.attached = TRUE, !.ready = ~demote]
  <1>4. /\ g \in EntryType /\ g.lane = entries[o.id].lane /\ g.busy = entries[o.id].busy /\ g.parked = entries[o.id].parked
        /\ g.payload = entries[o.id].payload /\ g.key = o.key /\ g.committed = entries[o.id].committed
        /\ g.switching = entries[o.id].switching
    BY <1>1 DEF EntryType, OpType
  <1>5. o.id # o.out => /\ h \in EntryType /\ h.lane = entries[o.out].lane /\ h.busy = entries[o.out].busy /\ h.parked = entries[o.out].parked
        /\ h.payload = entries[o.out].payload /\ h.key = entries[o.out].key /\ h.committed = entries[o.out].payload
        /\ h.switching = demote
    BY <1>2 DEF EntryType
  <1>6. /\ p \in OpType /\ p.pc = (IF demote THEN "demoting" ELSE "attached") /\ p.attached = TRUE /\ p.ready = ~demote
        /\ p.id = o.id /\ p.out = o.out /\ p.lane = o.lane /\ p.key = o.key /\ p.added = o.added
    BY <1>1 DEF OpType
  <1>7. /\ op' = [op EXCEPT ![r] = p] /\ mine = [entries EXCEPT ![o.id] = g]
        /\ entries' = IF o.id = o.out THEN mine ELSE [mine EXCEPT ![o.out] = h]
    BY <1>3
  <1> HIDE DEF g, h, p, mine
  <1>8. op' \in [Requests -> OpType] /\ op'[r] = p /\ \A x \in Requests \ {r} : op'[x] = op[x]
    BY <1>6, <1>7 DEF TypeOK
  <1>9. /\ Known' = Known /\ entries' \in [Known -> EntryType]
        /\ \A i \in Known \ {o.id, o.out} : entries'[i] = entries[i]
        /\ entries'[o.id] = g /\ (o.id # o.out => entries'[o.out] = h)
    BY <1>1, <1>2, <1>4, <1>5, <1>7 DEF TypeOK, Known
  <1>10. \A i \in Known : /\ entries'[i].lane = entries[i].lane /\ entries'[i].busy = entries[i].busy
                          /\ entries'[i].parked = entries[i].parked /\ entries'[i].payload = entries[i].payload
                          /\ entries'[i].key = entries[i].key \/ (i = o.id /\ entries'[i].key = o.key)
                          /\ i # o.out \/ i = o.id =>
                               entries'[i].committed = entries[i].committed /\ entries'[i].switching = entries[i].switching
    BY <1>4, <1>5, <1>9
  <1>11. o.id # o.out => entries'[o.out].committed = entries[o.out].payload /\ entries'[o.out].switching = demote
    BY <1>5, <1>9
  <1>12. /\ op'[r].pc \in {"demoting", "attached"} /\ (op'[r].pc = "demoting" <=> demote)
         /\ op'[r].pc = "demoting" => mode = "total" /\ o.id # o.out
         /\ op'[r].attached /\ (op'[r].ready <=> op'[r].pc = "attached")
         /\ op'[r].id = o.id /\ op'[r].out = o.out /\ op'[r].lane = o.lane /\ op'[r].key = o.key /\ op'[r].added = o.added
    <2>1. demote \in BOOLEAN /\ (demote => mode = "total" /\ o.id # o.out)
      BY <1>3
    <2>2. CASE demote
      BY <1>6, <1>8, <2>1, <2>2
    <2>3. CASE ~demote
      BY <1>6, <1>8, <2>1, <2>3
    <2> QED
      BY <2>2, <2>3
  <1>13. o.id # o.out => entries'[o.out].committed = entries[o.out].payload /\ (entries'[o.out].switching <=> op'[r].pc = "demoting")
    BY <1>11, <1>12
  <1>14. \A i \in Known : entries'[i].key = entries[i].key \/ (i = o.id /\ o.pc = "swapped" /\ entries'[i].key = o.key)
    BY <1>1, <1>10
  <1> HIDE DEF o
  <1> QED
    BY <1>1, <1>8, <1>9, <1>10, <1>12, <1>13, <1>14, SettlesOutKeeps DEF o

LEMMA DemotedKeeps == ASSUME Steady, NEW r \in Requests, Demoted(r) PROVE IInv'
  <1> USE SteadyFacts, LanesFacts
  <1> DEFINE o == op[r]
  <1>1. o \in OpType /\ o.pc = "demoting" /\ o.id # o.out /\ o.attached /\ Holder(r) /\ HandingOver(r)
        /\ UNCHANGED <<mode, arrivals, older, resident, lanes, faults>>
    BY DEF Demoted, TypeOK, Holder, HandingOver, PhasesExact
  <1>2. o.out \in Known /\ entries[o.out] \in EntryType /\ entries[o.out].committed = entries[o.out].payload
    BY <1>1, Apart DEF HandsExact, TypeOK
  <1>3. PICK frozen \in BOOLEAN : entries' = [entries EXCEPT ![o.out] = [@ EXCEPT !.frozen = frozen, !.switching = FALSE]]
    BY DEF Demoted
  <1> DEFINE h == [entries[o.out] EXCEPT !.frozen = frozen, !.switching = FALSE]
             p == [o EXCEPT !.pc = "attached", !.ready = TRUE]
  <1>4. /\ h \in EntryType /\ h.lane = entries[o.out].lane /\ h.busy = entries[o.out].busy /\ h.parked = entries[o.out].parked
        /\ h.payload = entries[o.out].payload /\ h.key = entries[o.out].key /\ h.committed = entries[o.out].committed
        /\ h.switching = FALSE
    BY <1>2 DEF EntryType
  <1>5. /\ p \in OpType /\ p.pc = "attached" /\ p.attached = TRUE /\ p.ready = TRUE
        /\ p.id = o.id /\ p.out = o.out /\ p.lane = o.lane /\ p.key = o.key /\ p.added = o.added
    BY <1>1 DEF OpType
  <1>6. op' = [op EXCEPT ![r] = p] /\ entries' = [entries EXCEPT ![o.out] = h]
    BY <1>3 DEF Demoted
  <1> HIDE DEF h, p
  <1>7. op' \in [Requests -> OpType] /\ op'[r] = p /\ \A x \in Requests \ {r} : op'[x] = op[x]
    BY <1>5, <1>6 DEF TypeOK
  <1>8. /\ Known' = Known /\ entries' \in [Known -> EntryType]
        /\ \A i \in Known \ {o.out} : entries'[i] = entries[i]
        /\ entries'[o.out] = h
    BY <1>2, <1>4, <1>6 DEF TypeOK, Known
  <1>9. \A i \in Known : /\ entries'[i].lane = entries[i].lane /\ entries'[i].busy = entries[i].busy
                         /\ entries'[i].parked = entries[i].parked /\ entries'[i].payload = entries[i].payload
                         /\ entries'[i].key = entries[i].key
                         /\ i # o.out => entries'[i].committed = entries[i].committed /\ entries'[i].switching = entries[i].switching
    BY <1>4, <1>8
  <1>10. entries'[o.out].committed = entries[o.out].payload /\ entries'[o.out].switching = FALSE
    BY <1>2, <1>4, <1>8
  <1> QED
    BY <1>1, <1>5, <1>7, <1>8, <1>9, <1>10, SettlesOutKeeps

-----------------------------------------------------------------------------
(* The selection                                                            *)

\* The entry it settles on: in the catalog and free, of the client id if some
\* entry is, and with the wanted history if the plan is to continue one.
LEMMA ChosenFacts ==
  ASSUME Steady, NEW r \in Requests, NEW plan \in Plans(op[r]), NEW old \in Chosen(r, plan)
  PROVE  /\ old = 0 \/ (old \in Known /\ Eligible(old))
         /\ Named(op[r]) # {} => old \in Named(op[r])
         /\ plan # 0 => old # 0 /\ entries[old].committed = op[r].want
  <1> USE SteadyFacts, LanesFacts
  <1>1. Known \subseteq Ids /\ 0 \notin Known /\ Named(op[r]) \subseteq Known
    BY DEF TypeOK, Named
  <1>2. plan \in Known \cup {0} /\ (plan # 0 => entries[plan].committed = op[r].want)
        /\ (plan # 0 /\ Named(op[r]) # {} => plan \in Named(op[r]))
    BY <1>1 DEF Plans
  <1>3. old \in Settled(r, plan) /\ (old = 0 \/ Eligible(old))
    BY DEF Chosen
  <1>4. CASE plan # 0
    BY <1>1, <1>2, <1>3, <1>4 DEF Settled
  <1>5. CASE plan = 0 /\ Named(op[r]) # {}
    BY <1>1, <1>3, <1>5 DEF Settled
  <1>6. CASE plan = 0 /\ Named(op[r]) = {}
    <2>1. Blank \subseteq Known /\ OldestFree \subseteq Known
      BY DEF Blank, OldestFree, Oldest
    <2> QED
      BY <1>3, <1>6, <2>1 DEF Settled
  <1> QED
    BY <1>4, <1>5, <1>6

LEMMA SelectKeeps == ASSUME Steady, NEW r \in Requests, Select(r) PROVE IInv'
  <1> USE SteadyFacts, LanesFacts
  <1>1. PICK plan \in Plans(op[r]) : \E old \in Chosen(r, plan) :
         LET home == IF old = 0 THEN 0 ELSE entries[old].lane IN
         /\ \E l \in IF home # 0 THEN {home} ELSE IdleLanes :
            \E i \in IF old # 0 THEN {old} ELSE NewIds :
              LET added == [x \in Known \cup {i} |-> IF x \in Known THEN entries[x] ELSE NewEntry(0)]
                  taken == [added EXCEPT ![i].busy = TRUE] IN
              /\ entries' = IF i = resident[l] THEN taken
                            ELSE [taken EXCEPT ![resident[l]].switching = TRUE]
              /\ older' = IF old # 0 THEN older ELSE older \cup ({i} \X Known)
              /\ op' = [op EXCEPT ![r] = [@ EXCEPT !.pc = "leased", !.lane = l, !.id = i,
                           !.out = resident[l], !.fresh = (plan = 0), !.added = (old = 0), !.reset = FALSE]]
    BY Zenon DEF Select
  <1>2. PICK old \in Chosen(r, plan) :
         LET home == IF old = 0 THEN 0 ELSE entries[old].lane IN
         /\ \E l \in IF home # 0 THEN {home} ELSE IdleLanes :
            \E i \in IF old # 0 THEN {old} ELSE NewIds :
              LET added == [x \in Known \cup {i} |-> IF x \in Known THEN entries[x] ELSE NewEntry(0)]
                  taken == [added EXCEPT ![i].busy = TRUE] IN
              /\ entries' = IF i = resident[l] THEN taken
                            ELSE [taken EXCEPT ![resident[l]].switching = TRUE]
              /\ older' = IF old # 0 THEN older ELSE older \cup ({i} \X Known)
              /\ op' = [op EXCEPT ![r] = [@ EXCEPT !.pc = "leased", !.lane = l, !.id = i,
                           !.out = resident[l], !.fresh = (plan = 0), !.added = (old = 0), !.reset = FALSE]]
    BY <1>1, Zenon
  <1> DEFINE home == IF old = 0 THEN 0 ELSE entries[old].lane
  <1>3. PICK l \in IF home # 0 THEN {home} ELSE IdleLanes :
            \E i \in IF old # 0 THEN {old} ELSE NewIds :
              LET added == [x \in Known \cup {i} |-> IF x \in Known THEN entries[x] ELSE NewEntry(0)]
                  taken == [added EXCEPT ![i].busy = TRUE] IN
              /\ entries' = IF i = resident[l] THEN taken
                            ELSE [taken EXCEPT ![resident[l]].switching = TRUE]
              /\ older' = IF old # 0 THEN older ELSE older \cup ({i} \X Known)
              /\ op' = [op EXCEPT ![r] = [@ EXCEPT !.pc = "leased", !.lane = l, !.id = i,
                           !.out = resident[l], !.fresh = (plan = 0), !.added = (old = 0), !.reset = FALSE]]
    BY <1>2, Zenon
  <1> DEFINE out == resident[l]
             added(i) == [x \in Known \cup {i} |-> IF x \in Known THEN entries[x] ELSE NewEntry(0)]
             taken(i) == [added(i) EXCEPT ![i].busy = TRUE]
  <1>4. PICK i \in IF old # 0 THEN {old} ELSE NewIds :
              /\ entries' = IF i = out THEN taken(i) ELSE [taken(i) EXCEPT ![out].switching = TRUE]
              /\ older' = IF old # 0 THEN older ELSE older \cup ({i} \X Known)
              /\ op' = [op EXCEPT ![r] = [@ EXCEPT !.pc = "leased", !.lane = l, !.id = i,
                           !.out = out, !.fresh = (plan = 0), !.added = (old = 0), !.reset = FALSE]]
    BY <1>3, Zenon
  <1> DEFINE o == op[r]
  <1>5. /\ o \in OpType /\ o.pc = "queued" /\ o.lane = 0 /\ ~o.attached /\ ~o.ready /\ o.want \in Histories
        /\ ~Holder(r) /\ ~HandingOver(r)
        /\ o.key # NoKey => \A x \in Requests : op[x].lane # 0 => op[x].key # o.key
        /\ UNCHANGED <<mode, arrivals, resident, engine, tokens, faults>>
    BY DEF Select, PhasesExact, TypeOK, Holder, HandingOver, lanes
  <1>6. /\ old = 0 \/ (old \in Known /\ Eligible(old))
        /\ Named(o) # {} => old \in Named(o)
        /\ plan # 0 => old # 0 /\ entries[old].committed = o.want
    BY ChosenFacts
  <1>7. /\ i \in Ids /\ (old # 0 => i = old /\ i \in Known /\ ~entries[i].busy /\ ~entries[i].switching)
        /\ old = 0 => i \notin Known /\ \A x \in Requests : op[x].id # i /\ op[x].out # i
    <2>1. CASE old # 0
      BY <1>4, <1>6, <2>1 DEF Eligible, TypeOK
    <2>2. CASE old = 0
      <3>1. i \in FreeIds
        BY <1>4, <2>2 DEF NewIds
      <3>2. i \in Ids /\ i \notin Known /\ i \notin UNION {{op[x].id, op[x].out, op[x].ref} : x \in Requests}
        BY <3>1 DEF FreeIds
      <3>3. ASSUME NEW x \in Requests PROVE op[x].id # i /\ op[x].out # i
        BY <3>2
      <3> QED
        BY <2>2, <3>2, <3>3
    <2> QED
      BY <2>1, <2>2
  <1>8. /\ l \in Lanes /\ \A x \in Requests : op[x].lane # l
        /\ out \in Known /\ entries[out].lane = l /\ ~entries[out].busy /\ ~entries[out].switching
        /\ i # out => old = 0 \/ entries[i].lane = 0
    <2>1. CASE home # 0
      <3>1. old # 0 /\ i = old /\ old \in Known /\ l = entries[old].lane /\ l # 0 /\ l \notin Leased
        BY <1>3, <1>6, <1>7, <2>1 DEF Eligible
      <3>2. l \in Lanes /\ resident[l] = i
        BY <3>1 DEF LanesOwned, TypeOK, EntryType
      <3>3. \A x \in Requests : op[x].lane # l
        BY <3>1 DEF Leased
      <3> QED
        BY <1>7, <3>1, <3>2, <3>3
    <2>2. CASE home = 0
      <3>1. l \in Lanes /\ l \notin Leased /\ ~entries[resident[l]].busy /\ ~entries[resident[l]].switching
        BY <1>3, <2>2 DEF IdleLanes
      <3>2. \A x \in Requests : op[x].lane # l
        BY <3>1 DEF Leased
      <3>3. resident[l] \in Known /\ entries[resident[l]].lane = l
        BY <3>1 DEF LanesOwned
      <3> QED
        BY <1>7, <2>2, <3>1, <3>2, <3>3
    <2> QED
      BY <2>1, <2>2
  <1>9. l # 0 /\ out \in Ids /\ (old = 0 => i # out)
    BY <1>7, <1>8 DEF TypeOK
  <1> DEFINE p == [o EXCEPT !.pc = "leased", !.lane = l, !.id = i,
                        !.out = out, !.fresh = (plan = 0), !.added = (old = 0), !.reset = FALSE]
  <1>10. /\ p \in OpType /\ p.pc = "leased" /\ p.lane = l /\ p.id = i /\ p.out = out /\ p.fresh = (plan = 0)
         /\ p.added = (old = 0) /\ p.attached = o.attached /\ p.ready = o.ready /\ p.key = o.key /\ p.want = o.want
    <2> DEFINE f == (plan = 0)
               a == (old = 0)
    <2>1. f \in BOOLEAN /\ a \in BOOLEAN
      OBVIOUS
    <2>2. p = [o EXCEPT !.pc = "leased", !.lane = l, !.id = i, !.out = out, !.fresh = f, !.added = a, !.reset = FALSE]
      OBVIOUS
    <2> HIDE DEF o, out, p, f, a
    <2>3. /\ p \in OpType /\ p.pc = "leased" /\ p.lane = l /\ p.id = i /\ p.out = out /\ p.fresh = f
          /\ p.added = a /\ p.attached = o.attached /\ p.ready = o.ready /\ p.key = o.key /\ p.want = o.want
      <3>1. o \in OpType /\ l \in Lanes /\ i \in Ids /\ out \in Ids
        BY <1>5, <1>7, <1>8, <1>9
      <3>2. p \in OpType
        <4>1. "leased" \in {"away", "queued", "leased", "swapped", "demoting", "attached", "done", "release"}
          OBVIOUS
        <4>2. /\ p = [o EXCEPT !.pc = p.pc, !.lane = p.lane, !.id = p.id, !.out = p.out,
                               !.fresh = p.fresh, !.added = p.added, !.reset = p.reset]
              /\ p.pc = "leased" /\ p.lane \in Lanes \cup {0} /\ p.id \in Ids \cup {0} /\ p.out \in Ids \cup {0}
              /\ p.fresh \in BOOLEAN /\ p.added \in BOOLEAN /\ p.reset \in BOOLEAN
          BY <2>1, <2>2, <3>1 DEF OpType
        <4> QED
          BY <3>1, <4>1, <4>2 DEF OpType
      <3>3. /\ p.pc = "leased" /\ p.lane = l /\ p.id = i /\ p.out = out /\ p.fresh = f
            /\ p.added = a /\ p.attached = o.attached /\ p.ready = o.ready /\ p.key = o.key /\ p.want = o.want
        BY <2>1, <2>2, <3>1 DEF OpType
      <3> QED
        BY <3>2, <3>3
    <2> QED
      BY <2>3 DEF f, a
  <1>11. op' = [op EXCEPT ![r] = p] /\ (old # 0 => older' = older) /\ (old = 0 => older' = older \cup ({i} \X Known))
         /\ entries' = IF i = out THEN taken(i) ELSE [taken(i) EXCEPT ![out].switching = TRUE]
    BY <1>4
  <1> DEFINE start == IF i \in Known THEN entries[i] ELSE NewEntry(0)
             g == [start EXCEPT !.busy = TRUE]
             h == [entries[out] EXCEPT !.switching = TRUE]
  <1>12. /\ start \in EntryType /\ start.lane = (IF i \in Known THEN entries[i].lane ELSE 0)
         /\ i \notin Known => start.key = NoKey /\ start.lane = 0
    BY DEF NewEntry, EntryType, TypeOK, Rows
  <1>13. /\ g \in EntryType /\ g.lane = start.lane /\ g.busy = TRUE /\ g.switching = start.switching /\ g.key = start.key
         /\ g.committed = start.committed /\ g.payload = start.payload /\ g.parked = start.parked
    <2> HIDE DEF start
    <2> QED
      BY <1>12 DEF EntryType
  <1>14. /\ h \in EntryType /\ h.lane = entries[out].lane /\ h.busy = entries[out].busy /\ h.switching = TRUE
         /\ h.key = entries[out].key /\ h.committed = entries[out].committed /\ h.payload = entries[out].payload
         /\ h.parked = entries[out].parked
    <2>1. entries[out] \in EntryType
      BY <1>8 DEF TypeOK
    <2> QED
      BY <2>1 DEF EntryType
  <1>15. /\ Known' = Known \cup {i} /\ entries' \in [Known \cup {i} -> EntryType] /\ entries'[i] = g
         /\ i # out => entries'[out] = h
         /\ \A j \in Known \ {i, out} : entries'[j] = entries[j]
    <2>1. DOMAIN added(i) = Known \cup {i} /\ added(i)[i] = start /\ \A j \in Known : added(i)[j] = entries[j]
      OBVIOUS
    <2>2. added(i) \in [Known \cup {i} -> EntryType]
      BY <1>12 DEF TypeOK
    <2>3. taken(i) = [added(i) EXCEPT ![i] = g]
      BY <2>1
    <2> HIDE DEF added, g
    <2>4. taken(i) \in [Known \cup {i} -> EntryType] /\ taken(i)[i] = g /\ \A j \in Known \ {i} : taken(i)[j] = entries[j]
      BY <1>13, <2>1, <2>2, <2>3
    <2> HIDE DEF taken
    <2>5. i # out => entries' = [taken(i) EXCEPT ![out] = h]
      BY <1>8, <1>11, <2>4
    <2> HIDE DEF h
    <2> QED
      BY <1>8, <1>11, <1>14, <2>4, <2>5 DEF Known
  <1>16. op' \in [Requests -> OpType] /\ op'[r] = p /\ \A x \in Requests \ {r} : op'[x] = op[x]
    BY <1>10, <1>11 DEF TypeOK
  <1>17. i \in Known => start = entries[i]
    OBVIOUS
  <1> HIDE DEF added, taken, start, g, h, p
  <1>18. \A j \in Known : /\ entries'[j].lane = entries[j].lane /\ entries'[j].key = entries[j].key
                          /\ entries'[j].committed = entries[j].committed /\ entries'[j].parked = entries[j].parked
                          /\ entries'[j].payload = entries[j].payload
    BY <1>13, <1>14, <1>15, <1>17
  <1>19. /\ entries'[i].busy /\ (i \notin Known => entries'[i].key = NoKey /\ entries'[i].lane = 0)
         /\ i # out => entries'[out].switching /\ ~entries'[out].busy
    BY <1>8, <1>12, <1>13, <1>14, <1>15
  <1>20. \A j \in Known \ {i} : entries'[j].busy = entries[j].busy
    BY <1>14, <1>15
  <1>21. \A j \in Known : j # out \/ i = out => entries'[j].switching = entries[j].switching
    BY <1>13, <1>15, <1>17
  <1>22. TypeOK'
    BY <1>5, <1>7, <1>11, <1>15, <1>16 DEF TypeOK
  <1>23. PhasesExact'
    <2>1. ASSUME NEW x \in Requests PROVE PhasesExact!1!(x)'
      <3>1. CASE x = r
        <4>1. op'[r] = p /\ p.attached = FALSE /\ p.ready = FALSE
          BY <1>5, <1>10, <1>16 DEF OpType
        <4> QED
          BY <1>5, <1>7, <1>8, <1>9, <1>10, <3>1, <4>1
      <3>2. CASE x # r
        BY <1>16, <3>2 DEF PhasesExact
      <3> QED
        BY <3>1, <3>2
    <2>2. ASSUME NEW y \in Requests, NEW x \in Requests, y # x, op'[y].lane # 0 PROVE op'[y].lane # op'[x].lane
      BY <1>8, <1>9, <1>10, <1>16, <2>2 DEF PhasesExact
    <2> QED
      BY <2>1, <2>2 DEF PhasesExact
  <1>24. KeysUnique'
    <2> SUFFICES ASSUME NEW j \in Known', NEW k \in Known', j # k, entries'[j].key = entries'[k].key PROVE entries'[j].key = NoKey
      BY DEF KeysUnique
    <2>1. CASE j \in Known /\ k \in Known
      BY <1>18, <2>1 DEF KeysUnique
    <2>2. CASE j \notin Known \/ k \notin Known
      BY <1>15, <1>19, <2>2
    <2> QED
      BY <2>1, <2>2
  <1>25. KeysClaimed'
    <2>1. ASSUME NEW x \in Requests, NEW y \in Requests, x # y, op'[x].lane # 0, op'[y].lane # 0, op'[x].key # NoKey
          PROVE  op'[x].key # op'[y].key
      BY <1>5, <1>10, <1>16, <2>1 DEF KeysClaimed
    <2>2. ASSUME NEW x \in Requests, op'[x].pc \in {"leased", "swapped"}, op'[x].key # NoKey,
                 NEW j \in Known', entries'[j].key = op'[x].key
          PROVE  j = op'[x].id
      <3>1. j \in Known /\ entries[j].key = op'[x].key
        BY <1>15, <1>18, <1>19, <2>2
      <3>2. CASE x = r
        <4>1. o.key # NoKey /\ entries[j].key = o.key
          BY <1>10, <1>16, <2>2, <3>1, <3>2
        <4>2. j \in Named(o)
          BY <3>1, <4>1 DEF Named
        <4>3. old \in Named(o)
          BY <1>6, <4>2
        <4>4. old \in Known /\ entries[old].key = o.key
          BY <4>3 DEF Named
        <4>5. old = j
          BY <3>1, <4>1, <4>4 DEF KeysUnique
        <4>6. old # 0
          BY <4>4 DEF TypeOK
        <4> QED
          BY <1>7, <1>10, <1>16, <3>2, <4>5, <4>6
      <3>3. CASE x # r
        BY <1>16, <2>2, <3>1, <3>3 DEF KeysClaimed
      <3> QED
        BY <3>2, <3>3
    <2> QED
      BY <2>1, <2>2 DEF KeysClaimed
  <1>26. SameHistory'
    BY <1>5 DEF SameHistory
  <1>27. QuotaHeld'
    <2>1. Held' \subseteq Held
      <3> SUFFICES ASSUME NEW j \in Held' PROVE j \in Held
        OBVIOUS
      <3>1. j \in Known' /\ ~entries'[j].busy /\ entries'[j].committed # NoRows /\ (entries'[j].lane # 0 \/ entries'[j].switching)
        BY DEF Held
      <3>2. j \in Known \ {i} /\ ~entries[j].busy /\ entries[j].committed # NoRows
        BY <1>15, <1>18, <1>19, <1>20, <3>1
      <3>3. CASE j = out
        BY <1>8, <1>9, <3>2, <3>3 DEF Held
      <3>4. CASE j # out
        BY <1>18, <1>21, <3>1, <3>2, <3>4 DEF Held
      <3> QED
        BY <3>3, <3>4
    <2>2. IsFiniteSet(Held)
      BY FS_Subset DEF Held, TypeOK
    <2>3. Cardinality(Held') <= Cardinality(Held) /\ Cardinality(Held) \in Nat /\ Cardinality(Held') \in Nat
      BY <2>1, <2>2, FS_Subset, FS_CardinalityType
    <2> QED
      BY <1>5, <2>3, LanesAssumption DEF QuotaHeld
  <1>28. LanesOwned'
    BY <1>5, <1>15, <1>18, <1>19 DEF LanesOwned
  <1>29. /\ Holder(r)' /\ (HandingOver(r)' <=> i # out)
         /\ \A x \in Requests \ {r} : (Holder(x)' <=> Holder(x)) /\ (HandingOver(x)' <=> HandingOver(x))
    BY <1>10, <1>16 DEF Holder, HandingOver
  <1>30. \A x \in Requests : Holder(x) => op[x].id \in Known /\ op[x].id # i /\ op[x].lane # l
    <2>1. \A x \in Requests : Holder(x) => op[x].id \in Known /\ entries[op[x].id].busy
      BY Apart
    <2> QED
      BY <1>7, <1>8, <2>1
  <1>31. ClaimsExact'
    <2>1. ASSUME NEW j \in Known', entries'[j].switching PROVE \E x \in Requests : HandingOver(x)' /\ op'[x].out = j
      <3>1. CASE j = out /\ i # out
        BY <1>10, <1>16, <1>29, <3>1
      <3>2. CASE j # out \/ i = out
        <4>1. CASE j \in Known
          <5>1. PICK x \in Requests : HandingOver(x) /\ op[x].out = j
            BY <1>21, <2>1, <3>2, <4>1 DEF ClaimsExact
          <5> QED
            BY <1>5, <1>16, <1>29, <5>1
        <4>2. CASE j \notin Known
          <5>1. j = i /\ entries'[j].switching = NewEntry(0).switching
            BY <1>13, <1>15, <4>2 DEF start
          <5> QED
            BY <2>1, <5>1 DEF NewEntry
        <4> QED
          BY <4>1, <4>2
      <3> QED
        BY <3>1, <3>2
    <2>2. ASSUME NEW j \in Known' PROVE entries'[j].busy <=> (\E x \in Requests : Holder(x)' /\ op'[x].id = j)
      <3>1. CASE j = i
        BY <1>10, <1>16, <1>19, <1>29, <3>1
      <3>2. CASE j # i
        <4>1. j \in Known /\ (entries'[j].busy <=> entries[j].busy)
          BY <1>15, <1>20, <3>2
        <4>2. entries[j].busy <=> (\E x \in Requests : Holder(x) /\ op[x].id = j)
          BY <4>1 DEF ClaimsExact
        <4>3. ASSUME NEW x \in Requests PROVE (Holder(x)' /\ op'[x].id = j) <=> (Holder(x) /\ op[x].id = j)
          <5>1. CASE x = r
            BY <1>5, <1>10, <1>16, <1>29, <3>2, <5>1
          <5>2. CASE x # r
            BY <1>16, <1>29, <5>2
          <5> QED
            BY <5>1, <5>2
        <4> QED
          BY <4>1, <4>2, <4>3
      <3> QED
        BY <3>1, <3>2
    <2>3. \A y, x \in Requests : y # x /\ Holder(y)' /\ Holder(x)' => op'[y].id # op'[x].id /\ op'[y].lane # op'[x].lane
      BY <1>10, <1>16, <1>29, <1>30 DEF ClaimsExact
    <2> QED
      BY <2>1, <2>2, <2>3 DEF ClaimsExact
  <1>32. OrderExact'
    <2>1. CASE old # 0
      <3>1. Known' = Known /\ older' = older
        BY <1>7, <1>11, <1>15, <2>1
      <3> QED
        BY <3>1 DEF OrderExact
    <2>2. CASE old = 0
      <3>1. /\ Known' = Known \cup {i} /\ i \notin Known
            /\ older' \subseteq (Known \cup {i}) \X (Known \cup {i})
            /\ \A j, k \in Known : <<j, k>> \in older' <=> <<j, k>> \in older
            /\ \A k \in Known : <<i, k>> \in older' /\ <<k, i>> \notin older'
            /\ <<i, i>> \notin older'
        BY <1>7, <1>11, <1>15, <2>2 DEF OrderExact
      <3>2. \A j, k \in Known' : <<j, k>> \in older' <=> j # k /\ <<k, j>> \notin older'
        BY <3>1 DEF OrderExact
      <3>3. \A j, k, m \in Known' : <<j, k>> \in older' /\ <<k, m>> \in older' => <<j, m>> \in older'
        <4> SUFFICES ASSUME NEW j \in Known', NEW k \in Known', NEW m \in Known', <<j, k>> \in older', <<k, m>> \in older'
                     PROVE  <<j, m>> \in older'
          OBVIOUS
        <4>1. k \in Known /\ m \in Known
          BY <3>1
        <4>2. CASE j = i
          BY <3>1, <4>1, <4>2
        <4>3. CASE j \in Known
          BY <3>1, <4>1, <4>3 DEF OrderExact
        <4> QED
          BY <3>1, <4>2, <4>3
      <3> QED
        BY <3>1, <3>2, <3>3 DEF OrderExact
    <2> QED
      BY <2>1, <2>2
  <1>33. HandsExact'
    <2> SUFFICES ASSUME NEW x \in Requests, Holder(x)' PROVE HandsExact!(x)!2'
      BY DEF HandsExact
    <2>1. CASE x = r
      <3>1. i # out => entries'[i].lane = 0
        <4>1. CASE i \in Known
          BY <1>8, <1>9, <1>18, <4>1, <1>7
        <4>2. CASE i \notin Known
          BY <1>19, <4>2
        <4> QED
          BY <4>1, <4>2
      <3>2. ASSUME i # out, plan # 0 PROVE entries'[i].parked = entries'[i].payload
        <4>1. i \in Known /\ entries[i].lane = 0 /\ entries[i].committed \in Histories /\ Idle(i)
          BY <1>5, <1>6, <1>7, <1>8, <3>2 DEF Idle
        <4>2. entries[i].parked = entries[i].payload
          BY <4>1 DEF CommittedHeld
        <4> QED
          BY <1>18, <4>1, <4>2
      <3> QED
        BY <1>5, <1>10, <1>15, <1>16, <1>19, <1>29, <2>1, <3>1, <3>2
    <2>2. CASE x # r
      <3>1. Holder(x) /\ op'[x] = op[x] /\ op[x].id \in Known /\ (HandingOver(x)' <=> HandingOver(x))
        BY <1>16, <1>29, <2>2, Apart
      <3>2. HandingOver(x) => op[x].out \in Known \ {i}
        BY <1>7, Apart
      <3>3. op[x].pc \in {"swapped", "demoting"} /\ op[x].id # op[x].out => HandingOver(x)
        BY DEF HandingOver
      <3>4. op[x].pc = "demoting" => HandingOver(x)
        BY <3>3 DEF PhasesExact
      <3>5. resident' = resident /\ op[x].id \in Known'
        BY <1>5, <1>15, <3>1
      <3> QED
        BY <1>18, <1>20, <3>1, <3>2, <3>3, <3>4, <3>5 DEF HandsExact
    <2> QED
      BY <2>1, <2>2
  <1>34. CommittedHeld'
    <2> SUFFICES ASSUME NEW j \in Known', Idle(j)', entries'[j].committed # NoRows
                 PROVE  IF entries'[j].lane = 0 THEN entries'[j].parked = entries'[j].committed /\ entries'[j].payload = entries'[j].committed
                        ELSE tokens'[entries'[j].lane] = entries'[j].committed
      BY DEF CommittedHeld
    <2>1. j # i /\ j # out
      BY <1>19 DEF Idle
    <2>2. j \in Known /\ entries'[j] = entries[j] /\ Idle(j)
      BY <1>15, <2>1 DEF Idle
    <2> QED
      BY <1>5, <2>2 DEF CommittedHeld
  <1> QED
    BY <1>22, <1>23, <1>24, <1>25, <1>26, <1>27, <1>28, <1>31, <1>32, <1>33, <1>34 DEF IInv

-----------------------------------------------------------------------------
(* The order of use                                                         *)

Ordered(order, S) ==
    /\ \A i, j \in S : <<i, j>> \in order <=> i # j /\ <<j, i>> \notin order
    /\ \A i, j, k \in S : <<i, j>> \in order /\ <<j, k>> \in order => <<i, k>> \in order

LEMMA AmongOrdered ==
  ASSUME NEW order, NEW T, NEW S \in SUBSET T, Ordered(order, T), order \subseteq T \X T
  PROVE  Among(S, order) \subseteq S \X S /\ Ordered(Among(S, order), S)
  <1>1. \A i, j \in S : <<i, j>> \in Among(S, order) <=> <<i, j>> \in order
    BY DEF Among
  <1>2. Among(S, order) \subseteq S \X S
    <2> SUFFICES ASSUME NEW p \in Among(S, order) PROVE p \in S \X S
      OBVIOUS
    <2>1. p \in T \X T /\ p[1] \in S /\ p[2] \in S
      BY DEF Among
    <2> QED
      BY <2>1
  <1> QED
    BY <1>1, <1>2 DEF Ordered

\* The entry used last comes last.
LEMMA TouchedOrdered ==
  ASSUME OrderExact, NEW a \in Known
  PROVE  Touched(a) \subseteq Known \X Known /\ Ordered(Touched(a), Known)
  <1> DEFINE rest == Known \ {a}
  <1>1. Among(rest, older) \subseteq rest \X rest /\ Ordered(Among(rest, older), rest)
    <2>1. Ordered(older, Known) /\ older \subseteq Known \X Known
      BY DEF OrderExact, Ordered
    <2> QED
      BY <2>1, AmongOrdered
  <1>2. Touched(a) = Among(rest, older) \cup (rest \X {a})
    BY DEF Touched
  <1> DEFINE t == Touched(a)
  <1>3. /\ t \subseteq Known \X Known
        /\ \A i, j \in rest : <<i, j>> \in t <=> <<i, j>> \in Among(rest, older)
        /\ \A i \in rest : <<i, a>> \in t /\ <<a, i>> \notin t
        /\ <<a, a>> \notin t
    BY <1>1, <1>2
  <1> HIDE DEF t
  <1>4. ASSUME NEW i \in Known, NEW j \in Known PROVE <<i, j>> \in t <=> i # j /\ <<j, i>> \notin t
    <2>1. CASE i \in rest /\ j \in rest
      BY <1>1, <1>3, <2>1 DEF Ordered
    <2>2. CASE i = a \/ j = a
      BY <1>3, <2>2
    <2> QED
      BY <2>1, <2>2
  <1>5. ASSUME NEW i \in Known, NEW j \in Known, NEW k \in Known, <<i, j>> \in t, <<j, k>> \in t PROVE <<i, k>> \in t
    <2>1. i \in rest /\ j \in rest
      BY <1>3, <1>5
    <2>2. CASE k = a
      BY <1>3, <2>1, <2>2
    <2>3. CASE k \in rest
      BY <1>1, <1>3, <1>5, <2>1, <2>3 DEF Ordered
    <2> QED
      BY <2>2, <2>3
  <1> QED
    BY <1>3, <1>4, <1>5 DEF Ordered, t

\* In an order of use, the n oldest of n or more entries are n entries.
LEMMA OldestCount ==
  ASSUME NEW S, IsFiniteSet(S), NEW order, Ordered(order, S), NEW n \in Nat, n <= Cardinality(S)
  PROVE  Cardinality(Oldest(n, S, order)) = n
  <1> DEFINE pred(i) == {j \in S : <<j, i>> \in order}
             rank == [i \in S |-> Cardinality(pred(i))]
             N == Cardinality(S)
  <1>0. N \in Nat
    BY FS_CardinalityType
  <1>1. ASSUME NEW i \in S
        PROVE  IsFiniteSet(pred(i)) /\ i \notin pred(i) /\ rank[i] = Cardinality(pred(i)) /\ rank[i] \in 0 .. (N - 1)
    <2>1. pred(i) \in SUBSET S /\ i \notin pred(i)
      BY DEF Ordered
    <2>2. IsFiniteSet(pred(i)) /\ Cardinality(pred(i)) <= N /\ Cardinality(pred(i)) # N
      BY <2>1, FS_Subset
    <2>3. Cardinality(pred(i)) \in Nat
      BY <2>2, FS_CardinalityType
    <2> QED
      BY <1>0, <2>1, <2>2, <2>3
  <1>2. ASSUME NEW i \in S, NEW j \in S, <<i, j>> \in order PROVE rank[i] < rank[j]
    <2>1. pred(i) \in SUBSET pred(j) /\ i \in pred(j)
      BY <1>2 DEF Ordered
    <2>2. Cardinality(pred(i)) <= Cardinality(pred(j)) /\ (Cardinality(pred(j)) = Cardinality(pred(i)) => pred(j) = pred(i))
      BY <1>1, <2>1, FS_Subset
    <2>3. pred(j) # pred(i)
      BY <1>1, <2>1
    <2> HIDE DEF pred, rank, N
    <2> QED
      BY <1>0, <1>1, <2>2, <2>3
  <1>3. rank \in [S -> 0 .. (N - 1)]
    BY <1>1
  <1>4. \A i, j \in S : rank[i] = rank[j] => i = j
    <2> SUFFICES ASSUME NEW i \in S, NEW j \in S, i # j PROVE rank[i] # rank[j]
      OBVIOUS
    <2>1. <<i, j>> \in order \/ <<j, i>> \in order
      BY DEF Ordered
    <2> HIDE DEF rank, pred, N
    <2> QED
      BY <1>0, <1>1, <1>2, <2>1
  <1> HIDE DEF rank, pred, N
  <1>5. rank \in Injection(S, 0 .. (N - 1))
    BY <1>3, <1>4, Fun_IsInj
  <1>6. IsFiniteSet(0 .. (N - 1)) /\ Cardinality(0 .. (N - 1)) = N
    BY <1>0, FS_Interval
  <1>7. \A m \in 0 .. (N - 1) : \E i \in S : rank[i] = m
    <2>1. rank \in Surjection(S, 0 .. (N - 1))
      BY <1>5, <1>6, FS_Injection DEF N
    <2> QED
      BY <2>1, Fun_SurjectionProperties
  <1> DEFINE T == Oldest(n, S, order)
             f == [i \in T |-> rank[i]]
  <1>8. T = {i \in S : rank[i] < n}
    BY DEF Oldest, rank, pred
  <1>9. f \in [T -> 0 .. (n - 1)]
    BY <1>0, <1>3, <1>8
  <1>10. f \in Injection(T, 0 .. (n - 1))
    BY <1>4, <1>8, <1>9, Fun_IsInj
  <1>11. f \in Surjection(T, 0 .. (n - 1))
    <2>1. ASSUME NEW m \in 0 .. (n - 1) PROVE \E i \in T : f[i] = m
      <3>1. m \in 0 .. (N - 1)
        BY <1>0, <2>1 DEF N
      <3>2. PICK i \in S : rank[i] = m
        BY <1>7, <3>1
      <3>3. i \in T
        BY <1>8, <3>2
      <3> QED
        BY <3>2, <3>3
    <2> QED
      BY <1>9, <2>1, Fun_IsSurj
  <1>12. IsFiniteSet(0 .. (n - 1)) /\ Cardinality(0 .. (n - 1)) = n
    BY FS_Interval
  <1> HIDE DEF f, T
  <1>13. Cardinality(T) = n
    BY <1>10, <1>11, <1>12, FS_Injection
  <1> QED
    BY <1>13 DEF T

-----------------------------------------------------------------------------
(* The room for a turn, and the turn                                        *)

LEMMA OldestWithin == ASSUME NEW n, NEW S, NEW order PROVE Oldest(n, S, order) \subseteq S
  BY DEF Oldest

LEMMA TurnFacts ==
  ASSUME NEW e \in EngineType, NEW history \in Rows, NEW want \in Rows, NEW t \in Turn(e, history, want),
         NoRows \notin {history, e.table} => history = e.table,
         e.cells = e.table \/ e.stale
  PROVE  /\ t.engine \in EngineType /\ t.tokens \in Rows
         /\ NoRows \notin {t.tokens, t.engine.table} => t.tokens = t.engine.table
         /\ t.engine.cells = t.engine.table \/ t.engine.stale
  <1> DEFINE opened(x) == {x, [x EXCEPT !.held = "plan"]}
  <1>1. ASSUME NEW x \in EngineType, NEW y \in opened(x)
        PROVE  y \in EngineType /\ y.table = x.table /\ y.cells = x.cells /\ y.stale = x.stale
    BY DEF EngineType
  <1>2. CASE t \in {[engine |-> IF e.stale THEN [e EXCEPT !.table = want] ELSE Holding(want), tokens |-> want, failed |-> FALSE]}
    <2>1. t.tokens = want /\ t.engine = (IF e.stale THEN [e EXCEPT !.table = want] ELSE Holding(want))
      BY <1>2
    <2>2. Holding(want) \in EngineType /\ Holding(want).table = want /\ Holding(want).cells = want
      BY DEF Holding, Empty, EngineType, Rows
    <2>3. [e EXCEPT !.table = want] \in EngineType /\ [e EXCEPT !.table = want].table = want
          /\ [e EXCEPT !.table = want].stale = e.stale
      BY DEF EngineType
    <2> QED
      BY <2>1, <2>2, <2>3
  <1>3. CASE t \in [engine : opened(e), tokens : {history}, failed : {TRUE}]
    <2>1. t.engine \in opened(e) /\ t.tokens = history
      BY <1>3
    <2> QED
      BY <1>1, <2>1
  <1>4. CASE t \in [engine : opened(Cleared(e)) \cup opened(e), tokens : {NoRows}, failed : {TRUE}]
    <2>1. t.engine \in opened(Cleared(e)) \cup opened(e) /\ t.tokens = NoRows
      BY <1>4
    <2>2. Cleared(e) \in EngineType /\ Cleared(e).table = Cleared(e).cells
      BY ClearedFacts
    <2>3. NoRows \in Rows
      BY DEF Rows
    <2> QED
      BY <1>1, <2>1, <2>2, <2>3
  <1> QED
    BY <1>2, <1>3, <1>4 DEF Turn

\* What the reservation takes from the catalog, and what the turn leaves on the lane.
LEMMA ServeFacts ==
  ASSUME Steady, NEW r \in Requests, Serve(r)
  PROVE  /\ Known' \subseteq Known /\ older' = Among(Known', older) /\ entries' \in [Known' -> EntryType]
         /\ UNCHANGED <<mode, arrivals, resident>> /\ faults' \in Nat
         /\ \A i \in Known \ Known' : entries[i].lane = 0 /\ Idle(i) /\ i # op[r].out
         /\ \A i \in Known' :
              \/ /\ entries'[i].lane = entries[i].lane /\ entries'[i].busy = entries[i].busy
                 /\ entries'[i].switching = entries[i].switching /\ entries'[i].key = entries[i].key
                 /\ entries'[i].committed = entries[i].committed
                 /\ entries'[i].payload = entries[i].payload /\ entries'[i].parked = entries[i].parked
              \/ /\ entries[i].lane = 0 /\ Idle(i) /\ i = op[r].out /\ i # op[r].id
                 /\ entries'[i].lane = 0 /\ ~entries'[i].busy /\ ~entries'[i].switching
                 /\ entries'[i].key = NoKey /\ entries'[i].committed = NoRows
                 /\ entries'[i].payload = NoRows /\ entries'[i].parked = NoRows
         /\ tokens' \in [Lanes -> Rows] /\ engine' \in [Lanes -> EngineType] /\ SameHistory'
         /\ \A l \in Lanes \ {op[r].lane} : tokens'[l] = tokens[l]
         /\ op' \in [Requests -> OpType] /\ \A x \in Requests \ {r} : op'[x] = op[x]
         /\ op'[r].pc = "done" /\ op'[r].lane = op[r].lane /\ op'[r].id = op[r].id /\ op'[r].out = op[r].out
         /\ op'[r].key = op[r].key /\ op'[r].attached = op[r].attached /\ op'[r].ready = op[r].ready
         /\ op'[r].added = op[r].added
  <1> USE SteadyFacts, LanesFacts
  <1> DEFINE o == op[r]
             others == Cardinality({i \in Known \ {o.id} : Charged(i)})
             victims == {i \in Known \ {o.id} : entries[i].lane = 0 /\ Idle(i) /\ ~Protected(i) /\ Stored(i)}
             short == IF ~Disk \/ others < Budget THEN 0 ELSE others + 1 - Budget
             gone == Oldest(short, victims, older)
             left == [i \in Known \ (gone \ {o.out}) |-> IF i \in gone THEN Blanked(entries[i]) ELSE entries[i]]
  <1>1. /\ o \in OpType /\ o.pc = "attached" /\ o.id \in Known /\ o.lane \in Lanes
        /\ UNCHANGED <<mode, arrivals, resident>>
        /\ older' = Among(DOMAIN left, older)
    BY Apart DEF Serve, TypeOK, OpType, PhasesExact, Holder
  <1>2. \/ entries' = left /\ Failed(r) /\ UNCHANGED <<lanes, faults>>
        \/ /\ entries' = [left EXCEPT ![o.id].reserved = Disk]
           /\ \E t \in Turn(engine[o.lane], tokens[o.lane], o.want) :
                /\ engine' = [engine EXCEPT ![o.lane] = t.engine]
                /\ tokens' = [tokens EXCEPT ![o.lane] = t.tokens]
                /\ Fault(t.failed)
           /\ \E streamed \in BOOLEAN :
                op' = [op EXCEPT ![r] = [@ EXCEPT !.pc = "done", !.want = NoRows, !.pinned = ~streamed]]
    BY Zenon DEF Serve
  <1>3. gone \subseteq Known /\ o.id \notin gone /\ \A i \in gone : entries[i].lane = 0 /\ Idle(i)
    <2>1. gone \subseteq victims
      BY OldestWithin
    <2> QED
      BY <2>1
  <1> HIDE DEF gone, others, victims, short
  <1>4. ASSUME NEW i \in Known
        PROVE  /\ Blanked(entries[i]) \in EntryType /\ Blanked(entries[i]).lane = entries[i].lane
               /\ Blanked(entries[i]).busy = entries[i].busy /\ Blanked(entries[i]).switching = entries[i].switching
               /\ Blanked(entries[i]).key = NoKey /\ Blanked(entries[i]).committed = NoRows
               /\ Blanked(entries[i]).payload = NoRows /\ Blanked(entries[i]).parked = NoRows
    <2>1. entries[i] \in EntryType
      BY DEF TypeOK
    <2> QED
      BY <2>1 DEF Blanked, EntryType, Rows
  <1>5. /\ DOMAIN left = Known \ (gone \ {o.out}) /\ left \in [DOMAIN left -> EntryType] /\ left[o.id] = entries[o.id]
        /\ \A i \in DOMAIN left : left[i] = entries[i] \/ (i \in gone /\ i = o.out /\ left[i] = Blanked(entries[i]))
    BY <1>1, <1>3, <1>4 DEF TypeOK
  <1> HIDE DEF left
  <1> DEFINE g == [left[o.id] EXCEPT !.reserved = Disk]
  <1>6. /\ g \in EntryType /\ g.lane = entries[o.id].lane /\ g.busy = entries[o.id].busy
        /\ g.switching = entries[o.id].switching /\ g.key = entries[o.id].key /\ g.committed = entries[o.id].committed
        /\ g.payload = entries[o.id].payload /\ g.parked = entries[o.id].parked
    <2>1. left[o.id] = entries[o.id] /\ entries[o.id] \in EntryType /\ Disk \in BOOLEAN
      BY <1>1, <1>5 DEF TypeOK, Disk
    <2> HIDE DEF Disk
    <2> QED
      BY <2>1 DEF EntryType
  <1>7. entries' = left \/ entries' = [left EXCEPT ![o.id] = g]
    BY <1>2
  <1> HIDE DEF g
  <1>8. o.id \in DOMAIN left
    BY <1>1, <1>3, <1>5
  <1>9. /\ Known' = DOMAIN left /\ entries' \in [Known' -> EntryType]
        /\ \A i \in Known' \ {o.id} : entries'[i] = left[i]
        /\ entries'[o.id] \in {entries[o.id], g}
    BY <1>5, <1>6, <1>7, <1>8 DEF Known
  <1>10. Known' \subseteq Known /\ older' = Among(Known', older)
         /\ \A i \in Known \ Known' : entries[i].lane = 0 /\ Idle(i) /\ i # o.out
    BY <1>1, <1>3, <1>5, <1>9
  <1>11. ASSUME NEW i \in Known'
         PROVE \/ /\ entries'[i].lane = entries[i].lane /\ entries'[i].busy = entries[i].busy
                  /\ entries'[i].switching = entries[i].switching /\ entries'[i].key = entries[i].key
                  /\ entries'[i].committed = entries[i].committed
                  /\ entries'[i].payload = entries[i].payload /\ entries'[i].parked = entries[i].parked
               \/ /\ entries[i].lane = 0 /\ Idle(i) /\ i = o.out /\ i # o.id
                  /\ entries'[i].lane = 0 /\ ~entries'[i].busy /\ ~entries'[i].switching
                  /\ entries'[i].key = NoKey /\ entries'[i].committed = NoRows
                  /\ entries'[i].payload = NoRows /\ entries'[i].parked = NoRows
    <2>1. CASE i = o.id
      BY <1>6, <1>9, <2>1
    <2>2. CASE i # o.id /\ left[i] = entries[i]
      BY <1>9, <2>2
    <2>3. CASE i # o.id /\ i \in gone /\ i = o.out /\ left[i] = Blanked(entries[i])
      BY <1>3, <1>4, <1>9, <2>3 DEF Idle
    <2> QED
      BY <1>5, <1>9, <2>1, <2>2, <2>3
  <1>12. /\ tokens' \in [Lanes -> Rows] /\ engine' \in [Lanes -> EngineType] /\ SameHistory' /\ faults' \in Nat
         /\ \A l \in Lanes \ {o.lane} : tokens'[l] = tokens[l]
    <2>1. CASE UNCHANGED <<lanes, faults>>
      BY <2>1 DEF lanes, TypeOK, SameHistory
    <2>2. CASE \E t \in Turn(engine[o.lane], tokens[o.lane], o.want) :
                /\ engine' = [engine EXCEPT ![o.lane] = t.engine]
                /\ tokens' = [tokens EXCEPT ![o.lane] = t.tokens]
                /\ Fault(t.failed)
      <3>1. PICK t \in Turn(engine[o.lane], tokens[o.lane], o.want) :
                /\ engine' = [engine EXCEPT ![o.lane] = t.engine]
                /\ tokens' = [tokens EXCEPT ![o.lane] = t.tokens]
                /\ Fault(t.failed)
        BY <2>2
      <3>2. engine[o.lane] \in EngineType /\ tokens[o.lane] \in Rows /\ o.want \in Rows
            /\ (NoRows \notin {tokens[o.lane], engine[o.lane].table} => tokens[o.lane] = engine[o.lane].table)
            /\ (engine[o.lane].cells = engine[o.lane].table \/ engine[o.lane].stale)
        BY <1>1 DEF TypeOK, OpType, SameHistory
      <3>3. /\ t.engine \in EngineType /\ t.tokens \in Rows
            /\ NoRows \notin {t.tokens, t.engine.table} => t.tokens = t.engine.table
            /\ t.engine.cells = t.engine.table \/ t.engine.stale
        BY <3>2, TurnFacts
      <3>4. faults' \in Nat
        BY <3>1 DEF Fault, TypeOK
      <3>5. /\ tokens' \in [Lanes -> Rows] /\ engine' \in [Lanes -> EngineType]
            /\ tokens'[o.lane] = t.tokens /\ engine'[o.lane] = t.engine
            /\ \A l \in Lanes \ {o.lane} : tokens'[l] = tokens[l] /\ engine'[l] = engine[l]
        BY <1>1, <3>1, <3>3 DEF TypeOK
      <3>6. SameHistory'
        BY <3>3, <3>5 DEF SameHistory
      <3> QED
        BY <3>4, <3>5, <3>6
    <2> QED
      BY <1>2, <2>1, <2>2
  <1>13. /\ op' \in [Requests -> OpType] /\ \A x \in Requests \ {r} : op'[x] = op[x]
         /\ op'[r].pc = "done" /\ op'[r].lane = o.lane /\ op'[r].id = o.id /\ op'[r].out = o.out
         /\ op'[r].key = o.key /\ op'[r].attached = o.attached /\ op'[r].ready = o.ready
         /\ op'[r].added = o.added
    <2>1. CASE Failed(r)
      <3> DEFINE p == [o EXCEPT !.pc = "done", !.want = NoRows]
      <3>1. p \in OpType /\ p.pc = "done" /\ p.lane = o.lane /\ p.id = o.id /\ p.out = o.out
            /\ p.key = o.key /\ p.attached = o.attached /\ p.ready = o.ready /\ p.added = o.added
        BY <1>1 DEF OpType, Rows
      <3>2. op' = [op EXCEPT ![r] = p]
        BY <2>1 DEF Failed
      <3> HIDE DEF p
      <3> QED
        BY <3>1, <3>2 DEF TypeOK
    <2>2. CASE \E streamed \in BOOLEAN :
                op' = [op EXCEPT ![r] = [@ EXCEPT !.pc = "done", !.want = NoRows, !.pinned = ~streamed]]
      <3>1. PICK pinned \in BOOLEAN : op' = [op EXCEPT ![r] = [@ EXCEPT !.pc = "done", !.want = NoRows, !.pinned = pinned]]
        BY <2>2
      <3> DEFINE p == [o EXCEPT !.pc = "done", !.want = NoRows, !.pinned = pinned]
      <3>2. p \in OpType /\ p.pc = "done" /\ p.lane = o.lane /\ p.id = o.id /\ p.out = o.out
            /\ p.key = o.key /\ p.attached = o.attached /\ p.ready = o.ready /\ p.added = o.added
        BY <1>1 DEF OpType, Rows
      <3>3. op' = [op EXCEPT ![r] = p]
        BY <3>1
      <3> HIDE DEF p
      <3> QED
        BY <3>2, <3>3 DEF TypeOK
    <2> QED
      BY <1>2, <2>1, <2>2
  <1> QED
    BY <1>1, <1>9, <1>10, <1>11, <1>12, <1>13

LEMMA ServeKeeps == ASSUME Steady, NEW r \in Requests, Serve(r) PROVE IInv'
  <1> USE SteadyFacts, LanesFacts
  <1> DEFINE o == op[r]
  <1>1. /\ o \in OpType /\ o.pc = "attached" /\ o.ready /\ o.attached /\ o.lane \in Lanes
        /\ Holder(r) /\ ~HandingOver(r) /\ o.id \in Known /\ entries[o.id].busy /\ resident[o.lane] = o.id
    BY Apart DEF Serve, TypeOK, OpType, PhasesExact, Holder, HandingOver, HandsExact
  <1>2. /\ Known' \subseteq Known /\ older' = Among(Known', older) /\ entries' \in [Known' -> EntryType]
        /\ UNCHANGED <<mode, arrivals, resident>> /\ faults' \in Nat
    BY ServeFacts
  <1>3. \A i \in Known \ Known' : entries[i].lane = 0 /\ Idle(i)
    BY ServeFacts
  <1>4. /\ tokens' \in [Lanes -> Rows] /\ engine' \in [Lanes -> EngineType] /\ SameHistory'
        /\ \A l \in Lanes \ {o.lane} : tokens'[l] = tokens[l]
    BY ServeFacts
  <1>5. /\ op' \in [Requests -> OpType] /\ \A x \in Requests \ {r} : op'[x] = op[x]
        /\ op'[r].pc = "done" /\ op'[r].lane = o.lane /\ op'[r].id = o.id /\ op'[r].out = o.out
        /\ op'[r].key = o.key /\ op'[r].attached = o.attached /\ op'[r].ready = o.ready
        /\ op'[r].added = o.added
    BY ServeFacts
  <1>6. \A i \in Known' :
          /\ entries'[i].lane = entries[i].lane /\ entries'[i].busy = entries[i].busy
          /\ entries'[i].switching = entries[i].switching
          /\ entries'[i].key \in {NoKey, entries[i].key}
          /\ entries'[i].committed \in {NoRows, entries[i].committed}
    <2> SUFFICES ASSUME NEW i \in Known' PROVE
          /\ entries'[i].lane = entries[i].lane /\ entries'[i].busy = entries[i].busy
          /\ entries'[i].switching = entries[i].switching
          /\ entries'[i].key \in {NoKey, entries[i].key}
          /\ entries'[i].committed \in {NoRows, entries[i].committed}
      OBVIOUS
    <2>1. entries[i] \in EntryType /\ entries'[i] \in EntryType
      BY <1>2 DEF TypeOK
    <2>2. entries[i].busy \in BOOLEAN /\ entries[i].switching \in BOOLEAN /\ entries'[i].busy \in BOOLEAN /\ entries'[i].switching \in BOOLEAN
      BY <2>1 DEF EntryType
    <2> QED
      BY <2>2, ServeFacts DEF Idle
  <1>7. \A i \in Known' : entries[i].busy \/ entries[i].switching \/ entries'[i].committed # NoRows =>
          /\ entries'[i].committed = entries[i].committed
          /\ entries'[i].payload = entries[i].payload /\ entries'[i].parked = entries[i].parked
    BY ServeFacts DEF Idle
  <1>8. TypeOK'
    BY <1>2, <1>4, <1>5 DEF TypeOK
  <1>9. PhasesExact'
    <2>1. ASSUME NEW x \in Requests PROVE PhasesExact!1!(x)'
      <3>1. CASE x = r
        BY <1>1, <1>5, <3>1 DEF PhasesExact
      <3>2. CASE x # r
        BY <1>5, <3>2 DEF PhasesExact
      <3> QED
        BY <3>1, <3>2
    <2>2. \A x, y \in Requests : x # y /\ op'[x].lane # 0 => op'[x].lane # op'[y].lane
      BY <1>5 DEF PhasesExact
    <2> QED
      BY <2>1, <2>2 DEF PhasesExact
  <1>10. KeysUnique'
    BY <1>2, <1>6 DEF KeysUnique
  <1>11. KeysClaimed'
    <2>1. \A x \in Requests : op'[x].lane = op[x].lane /\ op'[x].key = op[x].key /\ op'[x].id = op[x].id
      BY <1>5
    <2>2. \A x \in Requests : op'[x].pc \in {"leased", "swapped"} => op[x].pc \in {"leased", "swapped"}
      BY <1>5
    <2> QED
      BY <1>2, <1>6, <2>1, <2>2 DEF KeysClaimed
  <1>12. QuotaHeld'
    <2>1. Held' \subseteq Held
      BY <1>2, <1>6 DEF Held
    <2>2. IsFiniteSet(Held)
      BY FS_Subset DEF Held, TypeOK
    <2>3. Cardinality(Held') <= Cardinality(Held) /\ Cardinality(Held) \in Nat /\ Cardinality(Held') \in Nat
      BY <2>1, <2>2, FS_Subset, FS_CardinalityType
    <2> QED
      BY <1>2, <2>3, LanesAssumption DEF QuotaHeld
  <1>13. LanesOwned'
    <2>1. ASSUME NEW l \in Lanes PROVE resident[l] \in Known' /\ entries'[resident[l]].lane = l
      <3>1. resident[l] \in Known /\ entries[resident[l]].lane = l /\ l # 0
        BY DEF LanesOwned
      <3>2. resident[l] \in Known'
        BY <1>3, <3>1
      <3> QED
        BY <1>6, <3>1, <3>2
    <2> QED
      BY <1>2, <1>6, <2>1 DEF LanesOwned
  <1>14. \A x \in Requests : /\ (Holder(x)' <=> Holder(x)) /\ (HandingOver(x)' <=> HandingOver(x))
                             /\ op'[x].id = op[x].id /\ op'[x].lane = op[x].lane /\ op'[x].out = op[x].out
    BY <1>1, <1>5 DEF Holder, HandingOver
  <1>15. \A x \in Requests : Holder(x) => op[x].id \in Known' /\ entries[op[x].id].busy
    BY <1>3, Apart DEF Idle
  <1>16. ClaimsExact'
    BY <1>2, <1>6, <1>14, <1>15 DEF ClaimsExact
  <1>17. OrderExact'
    <2>1. Ordered(older, Known) /\ older \subseteq Known \X Known
      BY DEF OrderExact, Ordered
    <2>2. older' \subseteq Known' \X Known' /\ Ordered(older', Known')
      BY <1>2, <2>1, AmongOrdered
    <2> QED
      BY <2>2 DEF OrderExact, Ordered
  <1>18. HandsExact'
    <2> SUFFICES ASSUME NEW x \in Requests, Holder(x)' PROVE HandsExact!(x)!2'
      BY DEF HandsExact
    <2>1. CASE x = r
      BY <1>1, <1>2, <1>5, <1>14, <1>15, <2>1
    <2>2. CASE x # r
      <3>1. Holder(x) /\ op'[x] = op[x] /\ op[x].id \in Known' /\ (HandingOver(x)' <=> HandingOver(x))
        BY <1>5, <1>14, <1>15, <2>2
      <3>2. HandingOver(x) => op[x].out \in Known' /\ entries[op[x].out].switching
        BY <1>3, Apart DEF Idle
      <3>3. op[x].pc \in {"swapped", "demoting"} /\ op[x].id # op[x].out => HandingOver(x)
        BY DEF HandingOver
      <3>4. op[x].pc = "demoting" => HandingOver(x)
        BY <3>3 DEF PhasesExact
      <3>5. /\ entries'[op[x].id].lane = entries[op[x].id].lane
            /\ entries'[op[x].id].parked = entries[op[x].id].parked
            /\ entries'[op[x].id].payload = entries[op[x].id].payload
        BY <1>6, <1>7, <1>15, <3>1
      <3>6. HandingOver(x) =>
              /\ entries'[op[x].out].lane = entries[op[x].out].lane /\ entries'[op[x].out].busy = entries[op[x].out].busy
              /\ entries'[op[x].out].committed = entries[op[x].out].committed
              /\ entries'[op[x].out].parked = entries[op[x].out].parked
              /\ entries'[op[x].out].payload = entries[op[x].out].payload
        BY <1>6, <1>7, <3>2
      <3> QED
        BY <1>2, <3>1, <3>2, <3>3, <3>4, <3>5, <3>6 DEF HandsExact
    <2> QED
      BY <2>1, <2>2
  <1>19. CommittedHeld'
    <2> SUFFICES ASSUME NEW i \in Known', Idle(i)', entries'[i].committed # NoRows
                 PROVE  IF entries'[i].lane = 0 THEN entries'[i].parked = entries'[i].committed /\ entries'[i].payload = entries'[i].committed
                        ELSE tokens'[entries'[i].lane] = entries'[i].committed
      BY DEF CommittedHeld
    <2>1. /\ i \in Known /\ Idle(i) /\ entries'[i].committed = entries[i].committed /\ entries'[i].lane = entries[i].lane
          /\ entries'[i].payload = entries[i].payload /\ entries'[i].parked = entries[i].parked
      BY <1>2, <1>6, <1>7 DEF Idle
    <2>2. CASE entries[i].lane = 0
      BY <2>1, <2>2 DEF CommittedHeld
    <2>3. CASE entries[i].lane # 0
      <3>1. entries[i].lane \in Lanes
        BY <2>1, <2>3 DEF TypeOK, EntryType
      <3>2. entries[i].lane # o.lane
        BY <1>1, <2>1, <2>3 DEF LanesOwned, Idle
      <3> QED
        BY <1>4, <2>1, <2>3, <3>1, <3>2 DEF CommittedHeld
    <2> QED
      BY <2>2, <2>3
  <1> QED
    BY <1>4, <1>8, <1>9, <1>10, <1>11, <1>12, <1>13, <1>16, <1>17, <1>18, <1>19 DEF IInv

-----------------------------------------------------------------------------
(* The end of a request                                                     *)

\* The request that finishes, and the entry its lane ended on.
LEMMA DoneFacts ==
  ASSUME Steady, NEW r \in Requests, op[r].pc = "done"
  PROVE  /\ op[r] \in OpType /\ op[r].lane \in Lanes /\ Holder(r)
         /\ op[r].id \in Known /\ entries[op[r].id].busy /\ ~entries[op[r].id].switching
         /\ Active(r) \in Known /\ resident[op[r].lane] = Active(r) /\ entries[Active(r)].lane = op[r].lane
         /\ op[r].id # Active(r) => entries[op[r].id].lane = 0 /\ ~op[r].attached
         /\ op[r].out \notin Known => op[r].ready
         /\ op[r].out # op[r].id /\ ~op[r].ready => HandingOver(r) /\ ~entries[op[r].out].busy
         /\ op[r].added /\ ~op[r].attached => op[r].id # op[r].out
         /\ op[r].ready => op[r].attached
  <1> USE SteadyFacts, LanesFacts
  <1> DEFINE o == op[r]
  <1>1. /\ o \in OpType /\ o.lane \in Lanes /\ Holder(r) /\ o.id \in Known /\ entries[o.id].busy
        /\ (o.ready => o.attached) /\ (o.added /\ ~o.attached => o.id # o.out)
    BY Apart DEF TypeOK, OpType, PhasesExact, Holder
  <1>2. resident[o.lane] = Active(r) /\ (o.id # o.out /\ ~o.attached => entries[o.id].lane = 0)
    BY <1>1 DEF HandsExact, Active
  <1>3. Active(r) \in Known /\ entries[Active(r)].lane = o.lane
    BY <1>1, <1>2 DEF LanesOwned
  <1>4. o.out # o.id /\ ~o.ready => HandingOver(r) /\ ~entries[o.out].busy
    BY <1>1, Apart DEF HandingOver
  <1>5. ~entries[o.id].switching
    <2> SUFFICES ASSUME entries[o.id].switching PROVE FALSE
      OBVIOUS
    <2>1. PICK x \in Requests : HandingOver(x) /\ op[x].out = o.id
      BY <1>1 DEF ClaimsExact
    <2> QED
      BY <1>1, <2>1, Apart
  <1>6. o.out \notin Known => o.ready
    BY <1>1, <1>4, Apart
  <1> QED
    BY <1>1, <1>2, <1>3, <1>4, <1>5, <1>6 DEF Active

LEMMA SettleFacts ==
  ASSUME Steady, NEW r \in Requests, op[r].pc = "done"
  PROVE  /\ DOMAIN Settle(r) = Known \ (IF ~op[r].attached /\ op[r].added THEN {op[r].id} ELSE {})
         /\ Settle(r) \in [DOMAIN Settle(r) -> EntryType]
         /\ \A i \in DOMAIN Settle(r) :
              /\ Settle(r)[i].lane = entries[i].lane /\ Settle(r)[i].key = entries[i].key
              /\ Settle(r)[i].payload = entries[i].payload /\ Settle(r)[i].parked = entries[i].parked
              /\ Settle(r)[i].busy <=> entries[i].busy /\ i # op[r].id
              /\ i # op[r].out => (Settle(r)[i].switching <=> entries[i].switching)
              /\ \/ Settle(r)[i].committed = NoRows
                 \/ i = Active(r) /\ Settle(r)[i].committed = tokens[op[r].lane]
                 \/ /\ i # op[r].id /\ i # Active(r) /\ (i = op[r].out => op[r].ready)
                    /\ Settle(r)[i].committed = entries[i].committed
              /\ i # op[r].id /\ i # op[r].out => Settle(r)[i].committed = entries[i].committed
  <1> USE SteadyFacts, LanesFacts
  <1> DEFINE o == op[r]
             a == Active(r)
             c == IF o.attached /\ ~o.ready THEN NoRows ELSE tokens[o.lane]
             u == [entries[a] EXCEPT !.reserved = FALSE, !.switching = FALSE, !.committed = c]
             held == [entries EXCEPT ![a] = u]
             kept == IF ~o.attached /\ o.added THEN Erased(held, {o.id}) ELSE [held EXCEPT ![o.id].busy = FALSE]
  <1>1. /\ o \in OpType /\ o.lane \in Lanes /\ o.id \in Known /\ a \in Known /\ ~entries[o.id].switching
        /\ (o.ready => o.attached) /\ a \in {o.id, o.out}
    BY DoneFacts DEF Active
  <1>2. Settle(r) = IF o.ready THEN kept
                    ELSE [i \in DOMAIN kept |-> IF i = o.id \/ (o.attached /\ i = o.out)
                                                THEN [kept[i] EXCEPT !.committed = NoRows] ELSE kept[i]]
    BY DEF Settle, Active
  <1>3. c \in Rows /\ entries[a] \in EntryType
    BY <1>1 DEF TypeOK, Rows
  <1>4. /\ u \in EntryType /\ u.lane = entries[a].lane /\ u.key = entries[a].key /\ u.payload = entries[a].payload
        /\ u.parked = entries[a].parked /\ u.busy = entries[a].busy /\ u.switching = FALSE /\ u.committed = c
    <2> HIDE DEF c
    <2> QED
      BY <1>3 DEF EntryType
  <1> HIDE DEF u
  <1>5. /\ held \in [Known -> EntryType] /\ DOMAIN held = Known /\ held[a] = u
        /\ \A i \in Known \ {a} : held[i] = entries[i]
    BY <1>1, <1>4 DEF TypeOK, Known
  <1> HIDE DEF held
  <1>6. /\ DOMAIN kept = Known \ (IF ~o.attached /\ o.added THEN {o.id} ELSE {})
        /\ kept \in [DOMAIN kept -> EntryType]
        /\ \A i \in DOMAIN kept :
             /\ kept[i] \in EntryType
             /\ kept[i].lane = held[i].lane /\ kept[i].key = held[i].key
             /\ kept[i].payload = held[i].payload /\ kept[i].parked = held[i].parked
             /\ kept[i].busy <=> held[i].busy /\ i # o.id
             /\ kept[i].switching = held[i].switching /\ kept[i].committed = held[i].committed
    <2>1. CASE ~o.attached /\ o.added
      <3>0. kept = [i \in Known \ {o.id} |-> held[i]]
        BY <1>5, <2>1 DEF Erased
      <3>1. DOMAIN kept = Known \ {o.id} /\ \A i \in Known \ {o.id} : kept[i] = held[i] /\ held[i] \in EntryType
        BY <1>5, <3>0
      <3> HIDE DEF kept
      <3>2. kept \in [DOMAIN kept -> EntryType]
        BY <3>0, <3>1
      <3> QED
        BY <2>1, <3>1, <3>2
    <2>2. CASE ~(~o.attached /\ o.added)
      <3> DEFINE v == [held[o.id] EXCEPT !.busy = FALSE]
      <3>1. held[o.id] \in EntryType
        BY <1>1, <1>5
      <3>2. /\ v \in EntryType /\ v.lane = held[o.id].lane /\ v.key = held[o.id].key /\ v.payload = held[o.id].payload
            /\ v.parked = held[o.id].parked /\ v.busy = FALSE /\ v.switching = held[o.id].switching
            /\ v.committed = held[o.id].committed
        BY <3>1 DEF EntryType
      <3>3. kept = [held EXCEPT ![o.id] = v]
        BY <2>2
      <3> HIDE DEF v, kept
      <3>4. kept \in [Known -> EntryType] /\ DOMAIN kept = Known /\ kept[o.id] = v /\ \A i \in Known \ {o.id} : kept[i] = held[i] /\ held[i] \in EntryType
        BY <1>1, <1>5, <3>2, <3>3
      <3> QED
        BY <2>2, <3>2, <3>4
    <2> QED
      BY <2>1, <2>2
  <1> HIDE DEF kept
  <1>7. ASSUME NEW i \in DOMAIN kept
        PROVE  /\ [kept[i] EXCEPT !.committed = NoRows] \in EntryType
               /\ LET w == [kept[i] EXCEPT !.committed = NoRows] IN
                  /\ w.lane = kept[i].lane /\ w.key = kept[i].key /\ w.payload = kept[i].payload /\ w.parked = kept[i].parked
                  /\ w.busy = kept[i].busy /\ w.switching = kept[i].switching /\ w.committed = NoRows
    <2>1. kept[i] \in EntryType
      BY <1>6
    <2> QED
      BY <2>1 DEF EntryType, Rows
  <1>8. /\ DOMAIN Settle(r) = DOMAIN kept
        /\ \A i \in DOMAIN kept :
             /\ Settle(r)[i] \in EntryType
             /\ Settle(r)[i].lane = kept[i].lane /\ Settle(r)[i].key = kept[i].key
             /\ Settle(r)[i].payload = kept[i].payload /\ Settle(r)[i].parked = kept[i].parked
             /\ Settle(r)[i].busy = kept[i].busy /\ Settle(r)[i].switching = kept[i].switching
             /\ Settle(r)[i].committed =
                  (IF ~o.ready /\ (i = o.id \/ (o.attached /\ i = o.out)) THEN NoRows ELSE kept[i].committed)
    <2>1. CASE o.ready
      BY <1>2, <1>6, <2>1
    <2>2. CASE ~o.ready
      <3>1. Settle(r) = [i \in DOMAIN kept |-> IF i = o.id \/ (o.attached /\ i = o.out)
                                               THEN [kept[i] EXCEPT !.committed = NoRows] ELSE kept[i]]
        BY <1>2, <2>2
      <3> DEFINE s == Settle(r)
      <3>2. DOMAIN s = DOMAIN kept
            /\ \A i \in DOMAIN kept : s[i] = IF i = o.id \/ (o.attached /\ i = o.out)
                                             THEN [kept[i] EXCEPT !.committed = NoRows] ELSE kept[i]
        BY <3>1
      <3> HIDE DEF s
      <3>3. ASSUME NEW i \in DOMAIN kept
            PROVE  /\ s[i] \in EntryType
                   /\ s[i].lane = kept[i].lane /\ s[i].key = kept[i].key
                   /\ s[i].payload = kept[i].payload /\ s[i].parked = kept[i].parked
                   /\ s[i].busy = kept[i].busy /\ s[i].switching = kept[i].switching
                   /\ s[i].committed = (IF i = o.id \/ (o.attached /\ i = o.out) THEN NoRows ELSE kept[i].committed)
        <4>1. CASE i = o.id \/ (o.attached /\ i = o.out)
          <5>1. s[i] = [kept[i] EXCEPT !.committed = NoRows]
            BY <3>2, <4>1
          <5> QED
            BY <1>7, <4>1, <5>1
        <4>2. CASE ~(i = o.id \/ (o.attached /\ i = o.out))
          BY <1>6, <3>2, <4>2
        <4> QED
          BY <4>1, <4>2
      <3> QED
        BY <2>2, <3>2, <3>3 DEF s
    <2> QED
      BY <2>1, <2>2
  <1>9. \A i \in Known : /\ held[i].lane = entries[i].lane /\ held[i].key = entries[i].key
                         /\ held[i].payload = entries[i].payload /\ held[i].parked = entries[i].parked
                         /\ held[i].busy = entries[i].busy
                         /\ i # o.out => (held[i].switching <=> entries[i].switching)
                         /\ held[i].committed = (IF i = a THEN c ELSE entries[i].committed)
    BY <1>1, <1>4, <1>5
  <1> DEFINE s == Settle(r)
  <1>10. Settle(r) \in [DOMAIN s -> EntryType]
    <2>1. CASE o.ready
      BY <1>2, <1>6, <2>1
    <2>2. CASE ~o.ready
      BY <1>2, <1>6, <1>7, <2>2
    <2> QED
      BY <2>1, <2>2
  <1> HIDE DEF s, a, c
  <1>11. ASSUME NEW i \in DOMAIN kept
         PROVE  /\ s[i].lane = entries[i].lane /\ s[i].key = entries[i].key
                /\ s[i].payload = entries[i].payload /\ s[i].parked = entries[i].parked
                /\ s[i].busy <=> entries[i].busy /\ i # o.id
                /\ i # o.out => (s[i].switching <=> entries[i].switching)
    <2>1. i \in Known
      BY <1>6
    <2> QED
      BY <1>6, <1>8, <1>9, <2>1 DEF s
  <1>12. ASSUME NEW i \in DOMAIN kept
         PROVE  /\ \/ s[i].committed = NoRows
                   \/ i = a /\ s[i].committed = tokens[o.lane]
                   \/ /\ i # o.id /\ i # a /\ (i = o.out => o.ready)
                      /\ s[i].committed = entries[i].committed
                /\ i # o.id /\ i # o.out => s[i].committed = entries[i].committed
    <2>1. i \in Known
      BY <1>6
    <2>2. s[i].committed = (IF ~o.ready /\ (i = o.id \/ (o.attached /\ i = o.out)) THEN NoRows
                            ELSE IF i = a THEN c ELSE entries[i].committed)
      BY <1>6, <1>8, <1>9, <2>1 DEF s
    <2> QED
      BY <1>1, <2>2 DEF a, c, Active
  <1> QED
    BY <1>6, <1>8, <1>10, <1>11, <1>12 DEF s, a

\* The marks of this request are gone.
LEMMA CalmFacts ==
  ASSUME Steady, NEW r \in Requests, op[r].pc = "done"
  PROVE  /\ DOMAIN Calm(r) = Known \ (IF ~op[r].attached /\ op[r].added THEN {op[r].id} ELSE {})
         /\ Calm(r) \in [DOMAIN Calm(r) -> EntryType]
         /\ \A i \in DOMAIN Calm(r) :
              /\ Calm(r)[i].lane = entries[i].lane /\ Calm(r)[i].key = entries[i].key
              /\ Calm(r)[i].payload = entries[i].payload /\ Calm(r)[i].parked = entries[i].parked
              /\ Calm(r)[i].busy <=> entries[i].busy /\ i # op[r].id
              /\ Calm(r)[i].switching <=> entries[i].switching /\ i # op[r].out
              /\ \/ Calm(r)[i].committed = NoRows
                 \/ i = Active(r) /\ Calm(r)[i].committed = tokens[op[r].lane]
                 \/ /\ i # op[r].id /\ i # Active(r) /\ (i = op[r].out => op[r].ready)
                    /\ Calm(r)[i].committed = entries[i].committed
              /\ i # op[r].id /\ i # op[r].out => Calm(r)[i].committed = entries[i].committed
  <1> DEFINE s == Settle(r)
             out == op[r].out
             m == Calm(r)
             w == [s[out] EXCEPT !.switching = FALSE]
  <1>1. s \in [DOMAIN s -> EntryType]
    BY SettleFacts
  <1>2. m = [s EXCEPT ![out] = w]
    BY DEF Calm
  <1>3. out \in DOMAIN s => /\ w \in EntryType /\ w.lane = s[out].lane /\ w.key = s[out].key /\ w.payload = s[out].payload
                            /\ w.parked = s[out].parked /\ w.busy = s[out].busy /\ w.switching = FALSE
                            /\ w.committed = s[out].committed
    <2> SUFFICES ASSUME out \in DOMAIN s
                 PROVE  /\ w \in EntryType /\ w.lane = s[out].lane /\ w.key = s[out].key /\ w.payload = s[out].payload
                        /\ w.parked = s[out].parked /\ w.busy = s[out].busy /\ w.switching = FALSE
                        /\ w.committed = s[out].committed
      OBVIOUS
    <2>1. s[out] \in EntryType
      BY <1>1
    <2> HIDE DEF s, out
    <2> QED
      BY <2>1 DEF EntryType
  <1> HIDE DEF s, w, m
  <1>4. m \in [DOMAIN s -> EntryType] /\ DOMAIN m = DOMAIN s
        /\ (\A i \in DOMAIN s \ {out} : m[i] = s[i]) /\ (out \in DOMAIN s => m[out] = w)
    BY <1>1, <1>2, <1>3
  <1>5. \A i \in DOMAIN s : /\ m[i].lane = s[i].lane /\ m[i].key = s[i].key /\ m[i].payload = s[i].payload
                            /\ m[i].parked = s[i].parked /\ m[i].busy = s[i].busy /\ m[i].committed = s[i].committed
                            /\ m[i].switching = (IF i = out THEN FALSE ELSE s[i].switching)
    BY <1>3, <1>4
  <1>6. /\ DOMAIN s = Known \ (IF ~op[r].attached /\ op[r].added THEN {op[r].id} ELSE {})
        /\ \A i \in DOMAIN s :
              /\ s[i].lane = entries[i].lane /\ s[i].key = entries[i].key
              /\ s[i].payload = entries[i].payload /\ s[i].parked = entries[i].parked
              /\ s[i].busy <=> entries[i].busy /\ i # op[r].id
              /\ i # out => (s[i].switching <=> entries[i].switching)
              /\ \/ s[i].committed = NoRows
                 \/ i = Active(r) /\ s[i].committed = tokens[op[r].lane]
                 \/ /\ i # op[r].id /\ i # Active(r) /\ (i = out => op[r].ready)
                    /\ s[i].committed = entries[i].committed
              /\ i # op[r].id /\ i # out => s[i].committed = entries[i].committed
    BY SettleFacts DEF s
  <1> HIDE DEF out
  <1>7. ASSUME NEW i \in DOMAIN m
        PROVE /\ m[i].lane = entries[i].lane /\ m[i].key = entries[i].key
              /\ m[i].payload = entries[i].payload /\ m[i].parked = entries[i].parked
              /\ m[i].busy <=> entries[i].busy /\ i # op[r].id
              /\ m[i].switching <=> entries[i].switching /\ i # out
              /\ \/ m[i].committed = NoRows
                 \/ i = Active(r) /\ m[i].committed = tokens[op[r].lane]
                 \/ /\ i # op[r].id /\ i # Active(r) /\ (i = out => op[r].ready)
                    /\ m[i].committed = entries[i].committed
              /\ i # op[r].id /\ i # out => m[i].committed = entries[i].committed
    <2>0. i \in DOMAIN s
      BY <1>4
    <2>a. /\ s[i].lane = entries[i].lane /\ s[i].key = entries[i].key
          /\ s[i].payload = entries[i].payload /\ s[i].parked = entries[i].parked
          /\ s[i].busy <=> entries[i].busy /\ i # op[r].id
      BY <1>6, <2>0
    <2>b. /\ \/ s[i].committed = NoRows
             \/ i = Active(r) /\ s[i].committed = tokens[op[r].lane]
             \/ /\ i # op[r].id /\ i # Active(r) /\ (i = out => op[r].ready)
                /\ s[i].committed = entries[i].committed
          /\ i # op[r].id /\ i # out => s[i].committed = entries[i].committed
      BY <1>6, <2>0
    <2>c. /\ m[i].lane = s[i].lane /\ m[i].key = s[i].key /\ m[i].payload = s[i].payload
          /\ m[i].parked = s[i].parked /\ m[i].busy = s[i].busy /\ m[i].committed = s[i].committed
      BY <1>5, <2>0
    <2>1. /\ m[i].lane = entries[i].lane /\ m[i].key = entries[i].key
          /\ m[i].payload = entries[i].payload /\ m[i].parked = entries[i].parked
          /\ m[i].busy <=> entries[i].busy /\ i # op[r].id
      BY <2>a, <2>c
    <2>2. m[i].switching <=> entries[i].switching /\ i # out
      <3>1. CASE i = out
        BY <1>5, <2>0, <3>1
      <3>2. CASE i # out
        BY <1>5, <1>6, <2>0, <3>2
      <3> QED
        BY <3>1, <3>2
    <2>3. /\ \/ m[i].committed = NoRows
             \/ i = Active(r) /\ m[i].committed = tokens[op[r].lane]
             \/ /\ i # op[r].id /\ i # Active(r) /\ (i = out => op[r].ready)
                /\ m[i].committed = entries[i].committed
          /\ i # op[r].id /\ i # out => m[i].committed = entries[i].committed
      BY <2>b, <2>c
    <2> QED
      BY <2>1, <2>2, <2>3
  <1> QED
    BY <1>4, <1>6, <1>7 DEF m, out

\* enforce_sessions always finds as many victims as it needs: what it may not
\* evict fits the limit, and was inactive before this turn.
LEMMA QuotaRoom ==
  ASSUME Steady, NEW r \in Requests, op[r].pc = "done"
  PROVE  LET calm == Calm(r) IN
         /\ Retained(calm) \subseteq Known /\ IsFiniteSet(Retained(calm)) /\ Evictable(calm, r) \subseteq Retained(calm)
         /\ Excess(calm) \in Nat /\ Excess(calm) <= Cardinality(Evictable(calm, r))
         /\ mode = "inactive" => Cardinality(Retained(calm)) <= Limit + Excess(calm)
  <1> USE SteadyFacts, LanesFacts
  <1> DEFINE o == op[r]
             m == Calm(r)
             old == Evictable(m, r)
             all == Retained(m)
  <1>1. /\ DOMAIN m \subseteq Known
        /\ \A i \in DOMAIN m :
              /\ m[i].lane = entries[i].lane
              /\ m[i].busy <=> entries[i].busy /\ i # o.id
              /\ m[i].switching <=> entries[i].switching /\ i # o.out
              /\ \/ m[i].committed = NoRows
                 \/ i = Active(r) /\ m[i].committed = tokens[o.lane]
                 \/ /\ i # o.id /\ i # Active(r) /\ (i = o.out => o.ready)
                    /\ m[i].committed = entries[i].committed
    <2>1. /\ DOMAIN m = Known \ (IF ~o.attached /\ o.added THEN {o.id} ELSE {})
          /\ m \in [DOMAIN m -> EntryType]
          /\ \A i \in DOMAIN m :
              /\ m[i].lane = entries[i].lane /\ m[i].key = entries[i].key
              /\ m[i].payload = entries[i].payload /\ m[i].parked = entries[i].parked
              /\ m[i].busy <=> entries[i].busy /\ i # o.id
              /\ m[i].switching <=> entries[i].switching /\ i # o.out
              /\ \/ m[i].committed = NoRows
                 \/ i = Active(r) /\ m[i].committed = tokens[o.lane]
                 \/ /\ i # o.id /\ i # Active(r) /\ (i = o.out => o.ready)
                    /\ m[i].committed = entries[i].committed
              /\ i # o.id /\ i # o.out => m[i].committed = entries[i].committed
      BY CalmFacts
    <2> HIDE DEF m, o
    <2> QED
      BY <2>1
  <1>2. /\ Active(r) \in Known /\ entries[Active(r)].lane = o.lane
    BY DoneFacts
  <1>3. ~o.ready \/ o.out # Active(r) \/ o.id = o.out
    BY DoneFacts DEF Active
  <1> HIDE DEF m, o
  <1>4. all \subseteq Known /\ old \subseteq all
    BY <1>1 DEF Retained, Evictable
  <1>5. IsFiniteSet(all) /\ IsFiniteSet(old) /\ IsFiniteSet(all \ old)
    <2>1. all \in SUBSET Ids /\ old \in SUBSET all /\ (all \ old) \in SUBSET all
      BY <1>4 DEF TypeOK
    <2>2. IsFiniteSet(all)
      BY <2>1, FS_Subset
    <2> QED
      BY <2>1, <2>2, FS_Subset
  <1>6. all \ old \subseteq Held
    <2> SUFFICES ASSUME NEW i \in all, i \notin old PROVE i \in Held
      OBVIOUS
    <2>1. i \in DOMAIN m /\ ~m[i].busy /\ m[i].committed # NoRows
      BY DEF Retained
    <2>2. m[i].switching \/ (m[i].lane # 0 /\ m[i].lane # o.lane)
      BY DEF Evictable, o
    <2>3. i # Active(r)
      <3> SUFFICES ASSUME i = Active(r) PROVE FALSE
        OBVIOUS
      <3>1. m[i].lane = o.lane /\ m[i].switching
        BY <1>1, <1>2, <2>1, <2>2
      <3>2. i # o.out /\ entries[i].switching
        BY <1>1, <2>1, <3>1
      <3>3. i = o.id
        BY <3>2 DEF Active, o
      <3> QED
        BY <3>2, <3>3, DoneFacts DEF o
    <2>4. i # o.id /\ m[i].committed = entries[i].committed
      BY <1>1, <2>1, <2>3
    <2> QED
      BY <1>1, <2>1, <2>2, <2>4 DEF Held
  <1> HIDE DEF all, old
  <1>7. Cardinality(all) \in Nat /\ Cardinality(old) \in Nat /\ Cardinality(all) = Cardinality(all \ old) + Cardinality(old)
    <2>1. Cardinality(all \ old) = Cardinality(all) - Cardinality(all \cap old) /\ all \cap old = old
      BY <1>4, <1>5, FS_Difference
    <2>2. Cardinality(all) \in Nat /\ Cardinality(old) \in Nat /\ Cardinality(all \ old) \in Nat
      BY <1>5, FS_CardinalityType
    <2>3. Cardinality(all \ old) = Cardinality(all) - Cardinality(old)
      BY <2>1
    <2> QED
      BY <2>2, <2>3
  <1>8. mode = "inactive" => Cardinality(all \ old) <= Limit
    <2>1. IsFiniteSet(Held)
      BY FS_Subset DEF Held, TypeOK
    <2>2. Cardinality(all \ old) <= Cardinality(Held) /\ Cardinality(Held) \in Nat
      BY <1>6, <2>1, FS_Subset, FS_CardinalityType
    <2>3. Cardinality(all \ old) \in Nat
      BY <1>5, FS_CardinalityType
    <2> QED
      BY <2>2, <2>3, LanesAssumption DEF QuotaHeld
  <1>9. Cardinality(all \ old) \in Nat /\ Limit \in Nat
    BY <1>5, FS_CardinalityType, LanesAssumption
  <1>10. Excess(m) = IF mode = "inactive" /\ Cardinality(all) > Limit THEN Cardinality(all) - Limit ELSE 0
    BY DEF Excess, all
  <1>11. Excess(m) \in Nat /\ Excess(m) <= Cardinality(old) /\ (mode = "inactive" => Cardinality(all) <= Limit + Excess(m))
    BY <1>7, <1>8, <1>9, <1>10
  <1> QED
    BY <1>4, <1>5, <1>11 DEF all, old, m

\* What a finish does to the catalog and the lanes.
LEMMA FinishFacts ==
  ASSUME Steady, NEW r \in Requests, Finish(r)
  PROVE  /\ Known' \subseteq Known /\ older' = Among(Known', Touched(Active(r))) /\ entries' \in [Known' -> EntryType]
         /\ \A i \in Known \ Known' : entries[i].lane = 0 /\ (~entries[i].busy \/ i = op[r].id)
         /\ \A i \in Known' :
              /\ entries'[i].lane = entries[i].lane /\ entries'[i].key \in {NoKey, entries[i].key}
              /\ entries'[i].payload = entries[i].payload /\ entries'[i].parked = entries[i].parked
              /\ entries'[i].busy <=> entries[i].busy /\ i # op[r].id
              /\ entries'[i].switching <=> entries[i].switching /\ i # op[r].out
              /\ \/ entries'[i].committed = NoRows
                 \/ i = Active(r) /\ entries'[i].committed = tokens[op[r].lane]
                 \/ /\ i # op[r].id /\ i # Active(r) /\ (i = op[r].out => op[r].ready)
                    /\ entries'[i].committed = entries[i].committed
              /\ i # op[r].id /\ entries'[i].switching => entries'[i].committed = entries[i].committed
         /\ tokens' \in [Lanes -> Rows] /\ engine' \in [Lanes -> EngineType]
         /\ \A l \in Lanes :
              \/ tokens'[l] = tokens[l] /\ engine'[l] = engine[l]
              \/ /\ tokens'[l] = NoRows /\ engine'[l] = Cleared(engine[l])
                 /\ \E i \in Known' : entries'[i].lane = l /\ entries'[i].committed = NoRows
         /\ mode = "inactive" => Cardinality(Held') <= Limit
         /\ mode = "inactive" /\ op[r].out \in Known => Cardinality(Retained(entries')) <= Limit
  <1> USE SteadyFacts, LanesFacts
  <1> DEFINE o == op[r]
             s == Settle(r)
             m == Calm(r)
             order == Touched(Active(r))
             old == Evictable(m, r)
             gone == Oldest(Excess(m), old, order)
             wiped == {m[i].lane : i \in gone} \ {0}
             left == Forgotten(m, gone)
  <1>1. /\ o.pc = "done" /\ older' = Among(DOMAIN entries', order)
        /\ UNCHANGED <<mode, arrivals, resident, faults>>
        /\ IF o.out \notin Known THEN entries' = Unnamed(r, s) /\ UNCHANGED lanes
           ELSE /\ engine' = [l \in Lanes |-> IF l \in wiped THEN Cleared(engine[l]) ELSE engine[l]]
                /\ tokens' = [l \in Lanes |-> IF l \in wiped THEN NoRows ELSE tokens[l]]
                /\ IF Excess(m) > Cardinality(old) THEN entries' = Unnamed(r, left)
                   ELSE LET rest == IF mode = "inactive" THEN Erased(left, Rowless(left)) ELSE left
                            spare == Parked(rest) IN
                        \E n \in IF mode = "total" THEN 0..Cardinality(spare) ELSE {0} :
                           entries' = Erased(rest, Oldest(n, spare, order))
    BY Zenon DEF Finish, Wipe
  <1>2. /\ Retained(m) \subseteq Known /\ IsFiniteSet(Retained(m)) /\ old \subseteq Retained(m)
        /\ Excess(m) \in Nat /\ Excess(m) <= Cardinality(old)
        /\ mode = "inactive" => Cardinality(Retained(m)) <= Limit + Excess(m)
    BY <1>1, QuotaRoom
  <1>3. /\ o \in OpType /\ o.lane \in Lanes /\ o.id \in Known /\ Active(r) \in Known
        /\ o.out \notin Known => o.ready /\ o.attached
        /\ (o.added /\ ~o.attached => o.id # o.out /\ entries[o.id].lane = 0)
    BY <1>1, DoneFacts DEF Active
  <1>4. /\ DOMAIN m = Known \ (IF ~o.attached /\ o.added THEN {o.id} ELSE {})
        /\ m \in [DOMAIN m -> EntryType]
        /\ \A i \in DOMAIN m :
              /\ m[i].lane = entries[i].lane /\ m[i].key = entries[i].key
              /\ m[i].payload = entries[i].payload /\ m[i].parked = entries[i].parked
              /\ m[i].busy <=> entries[i].busy /\ i # o.id
              /\ m[i].switching <=> entries[i].switching /\ i # o.out
              /\ \/ m[i].committed = NoRows
                 \/ i = Active(r) /\ m[i].committed = tokens[o.lane]
                 \/ /\ i # o.id /\ i # Active(r) /\ (i = o.out => o.ready)
                    /\ m[i].committed = entries[i].committed
              /\ i # o.id /\ i # o.out => m[i].committed = entries[i].committed
    BY <1>1, CalmFacts
  <1>5. gone \subseteq old
    BY OldestWithin
  <1>6. CASE o.out \notin Known
    <2>1. entries' = Unnamed(r, s) /\ UNCHANGED lanes /\ o.ready /\ o.attached /\ o.id # o.out
      BY <1>1, <1>3, <1>6
    <2>2. /\ DOMAIN s = Known /\ s \in [Known -> EntryType]
          /\ \A i \in Known :
              /\ s[i].lane = entries[i].lane /\ s[i].key = entries[i].key
              /\ s[i].payload = entries[i].payload /\ s[i].parked = entries[i].parked
              /\ s[i].busy <=> entries[i].busy /\ i # o.id
              /\ s[i].switching <=> entries[i].switching /\ i # o.out
              /\ i # o.id => s[i].committed = entries[i].committed
      <3>1. \A i \in Known : i # o.out
        BY <1>6
      <3> QED
        BY <1>1, <2>1, <3>1, SettleFacts
    <2> DEFINE w == [s[o.id] EXCEPT !.busy = FALSE, !.reserved = FALSE, !.committed = NoRows]
    <2> HIDE DEF s
    <2>3. /\ w \in EntryType /\ w.lane = s[o.id].lane /\ w.key = s[o.id].key /\ w.payload = s[o.id].payload
          /\ w.parked = s[o.id].parked /\ w.busy = FALSE /\ w.switching = s[o.id].switching /\ w.committed = NoRows
      <3>1. s[o.id] \in EntryType
        BY <1>3, <2>2
      <3> QED
        BY <3>1 DEF EntryType, Rows
    <2>4. Known' = Known /\ entries' = [i \in Known |-> IF i = o.id THEN w ELSE s[i]]
      BY <1>6, <2>1, <2>2 DEF Unnamed, Known
    <2> HIDE DEF w
    <2>5. \A i \in Known :
              /\ entries'[i].lane = entries[i].lane /\ entries'[i].key = entries[i].key
              /\ entries'[i].payload = entries[i].payload /\ entries'[i].parked = entries[i].parked
              /\ entries'[i].busy <=> entries[i].busy /\ i # o.id
              /\ entries'[i].switching <=> entries[i].switching /\ i # o.out
              /\ i # o.id => entries'[i].committed = entries[i].committed
              /\ i = o.id => entries'[i].committed = NoRows
      BY <2>2, <2>3, <2>4
    <2>6. entries' \in [Known -> EntryType] /\ older' = Among(Known', order)
      BY <1>1, <2>2, <2>3, <2>4 DEF Known
    <2>7. tokens' = tokens /\ engine' = engine
      BY <2>1 DEF lanes
    <2>8. mode = "inactive" => Cardinality(Held') <= Limit
      <3>1. Held' \subseteq Held
        BY <2>4, <2>5 DEF Held
      <3>2. IsFiniteSet(Held)
        BY FS_Subset DEF Held, TypeOK
      <3>3. Cardinality(Held') <= Cardinality(Held) /\ Cardinality(Held) \in Nat /\ Cardinality(Held') \in Nat
        BY <3>1, <3>2, FS_Subset, FS_CardinalityType
      <3> QED
        BY <3>3, LanesAssumption DEF QuotaHeld
    <2>9. Active(r) = o.id /\ \A i \in Known : i # o.out
      BY <1>6, <2>1 DEF Active
    <2> HIDE DEF order
    <2>10. \A i \in Known : \/ entries'[i].committed = NoRows
                            \/ /\ i # o.id /\ i # Active(r) /\ (i = o.out => o.ready)
                               /\ entries'[i].committed = entries[i].committed
      BY <2>5, <2>9
    <2>11. tokens' \in [Lanes -> Rows] /\ engine' \in [Lanes -> EngineType]
      BY <2>7 DEF TypeOK
    <2> QED
      BY <1>6, <2>4, <2>5, <2>6, <2>7, <2>8, <2>10, <2>11 DEF order
  <1>7. CASE o.out \in Known
    <2> DEFINE rest == IF mode = "inactive" THEN Erased(left, Rowless(left)) ELSE left
               spare == Parked(rest)
    <2>1. /\ \E n \in IF mode = "total" THEN 0..Cardinality(spare) ELSE {0} :
               entries' = Erased(rest, Oldest(n, spare, order))
          /\ engine' = [l \in Lanes |-> IF l \in wiped THEN Cleared(engine[l]) ELSE engine[l]]
          /\ tokens' = [l \in Lanes |-> IF l \in wiped THEN NoRows ELSE tokens[l]]
      <3>1. ~(Excess(m) > Cardinality(old))
        <4>1. IsFiniteSet(old)
          BY <1>2, FS_Subset
        <4>2. Cardinality(old) \in Nat
          BY <4>1, FS_CardinalityType
        <4> HIDE DEF old, m
        <4> QED
          BY <1>2, <4>2
      <3> HIDE DEF old, m, left, wiped, order
      <3> QED
        BY <1>1, <1>7, <3>1
    <2>2. PICK n \in IF mode = "total" THEN 0..Cardinality(spare) ELSE {0} :
               entries' = Erased(rest, Oldest(n, spare, order))
      BY <2>1
    <2>3. \A i \in gone : i \in DOMAIN m /\ ~m[i].busy /\ ~m[i].switching /\ m[i].committed # NoRows
      BY <1>5 DEF Evictable, Retained
    <2> DEFINE f(i) == [m[i] EXCEPT !.committed = NoRows, !.key = NoKey]
    <2>4. left = [i \in {x \in DOMAIN m : x \notin gone \/ m[x].lane # 0} |-> IF i \in gone THEN f(i) ELSE m[i]]
      BY DEF Forgotten
    <2>5. Oldest(n, spare, order) \subseteq spare
      BY OldestWithin
    <2> DEFINE lost == Oldest(n, spare, order)
    <2>6. entries' = Erased(rest, lost)
      BY <2>2
    <2> HIDE DEF m, gone, wiped, lost, order
    <2>7. ASSUME NEW i \in DOMAIN m
          PROVE  /\ m[i] \in EntryType /\ f(i) \in EntryType
                 /\ f(i).lane = m[i].lane /\ f(i).payload = m[i].payload /\ f(i).parked = m[i].parked
                 /\ f(i).busy = m[i].busy /\ f(i).switching = m[i].switching /\ f(i).committed = NoRows /\ f(i).key = NoKey
      <3>1. m[i] \in EntryType
        BY <1>4
      <3> QED
        BY <3>1 DEF EntryType, Rows
    <2> HIDE DEF f
    <2>8. /\ DOMAIN left = {x \in DOMAIN m : x \notin gone \/ m[x].lane # 0}
          /\ left \in [DOMAIN left -> EntryType]
          /\ \A i \in DOMAIN left : left[i] = IF i \in gone THEN f(i) ELSE m[i]
      BY <2>4, <2>7
    <2> HIDE DEF left
    <2>9. /\ DOMAIN rest \subseteq DOMAIN left /\ rest \in [DOMAIN rest -> EntryType]
          /\ \A i \in DOMAIN rest : rest[i] = left[i]
          /\ \A i \in DOMAIN left \ DOMAIN rest : left[i].lane = 0 /\ ~left[i].busy
      <3>1. CASE mode = "inactive"
        <4>1. rest = [i \in DOMAIN left \ Rowless(left) |-> left[i]]
          BY <3>1 DEF Erased
        <4>2. \A i \in Rowless(left) : left[i].lane = 0 /\ ~left[i].busy
          BY DEF Rowless
        <4> HIDE DEF rest
        <4> QED
          BY <2>8, <4>1, <4>2
      <3>2. CASE mode # "inactive"
        BY <2>8, <3>2
      <3> QED
        BY <3>1, <3>2
    <2>10. \A i \in lost : i \in DOMAIN rest /\ rest[i].lane = 0 /\ ~rest[i].busy
      <3>1. lost \subseteq Parked(rest)
        BY <2>5 DEF lost
      <3> QED
        BY <3>1 DEF Parked
    <2> HIDE DEF rest
    <2>11. /\ Known' = DOMAIN rest \ lost /\ entries' \in [Known' -> EntryType]
           /\ \A i \in Known' : entries'[i] = rest[i]
      <3>1. entries' = [i \in DOMAIN rest \ lost |-> rest[i]]
        BY <2>6 DEF Erased
      <3>2. Known' = DOMAIN rest \ lost
        BY <3>1 DEF Known
      <3> QED
        BY <2>9, <3>1, <3>2
    <2>12. /\ Known' \subseteq DOMAIN m /\ Known' \subseteq Known
           /\ \A i \in Known' : entries'[i] = IF i \in gone THEN f(i) ELSE m[i]
      BY <1>4, <2>8, <2>9, <2>11
    <2>13. ASSUME NEW i \in Known \ Known' PROVE entries[i].lane = 0 /\ (~entries[i].busy \/ i = o.id)
      <3>1. CASE i \notin DOMAIN m
        BY <1>3, <1>4, <3>1
      <3>2. CASE i \in DOMAIN m
        <4>1. m[i].lane = 0 /\ ~m[i].busy
          <5>1. CASE i \notin DOMAIN left
            BY <2>3, <2>8, <3>2, <5>1
          <5>2. CASE i \in DOMAIN left
            <6>1. left[i].lane = 0 /\ ~left[i].busy
              BY <2>9, <2>10, <2>11, <5>2
            <6>2. left[i] = IF i \in gone THEN f(i) ELSE m[i]
              BY <2>8, <5>2
            <6> QED
              BY <2>7, <3>2, <6>1, <6>2
          <5> QED
            BY <5>1, <5>2
        <4> QED
          BY <1>4, <3>2, <4>1
      <3> QED
        BY <3>1, <3>2
    <2>14. ASSUME NEW i \in Known'
           PROVE  /\ entries'[i].lane = m[i].lane /\ entries'[i].payload = m[i].payload /\ entries'[i].parked = m[i].parked
                  /\ entries'[i].busy = m[i].busy /\ entries'[i].switching = m[i].switching
                  /\ entries'[i].key \in {NoKey, m[i].key}
                  /\ entries'[i].committed = (IF i \in gone THEN NoRows ELSE m[i].committed)
      BY <2>7, <2>12
    <2>15. ASSUME NEW i \in Known'
           PROVE  /\ entries'[i].lane = entries[i].lane /\ entries'[i].key \in {NoKey, entries[i].key}
                  /\ entries'[i].payload = entries[i].payload /\ entries'[i].parked = entries[i].parked
                  /\ entries'[i].busy <=> entries[i].busy /\ i # o.id
                  /\ entries'[i].switching <=> entries[i].switching /\ i # o.out
                  /\ \/ entries'[i].committed = NoRows
                     \/ i = Active(r) /\ entries'[i].committed = tokens[o.lane]
                     \/ /\ i # o.id /\ i # Active(r) /\ (i = o.out => o.ready)
                        /\ entries'[i].committed = entries[i].committed
                  /\ i # o.id /\ entries'[i].switching => entries'[i].committed = entries[i].committed
      <3>1. i \in DOMAIN m
        BY <2>12
      <3>2. /\ m[i].lane = entries[i].lane /\ m[i].key = entries[i].key
            /\ m[i].payload = entries[i].payload /\ m[i].parked = entries[i].parked
            /\ m[i].busy <=> entries[i].busy /\ i # o.id
            /\ m[i].switching <=> entries[i].switching /\ i # o.out
        BY <1>4, <3>1
      <3>3. /\ \/ m[i].committed = NoRows
               \/ i = Active(r) /\ m[i].committed = tokens[o.lane]
               \/ /\ i # o.id /\ i # Active(r) /\ (i = o.out => o.ready)
                  /\ m[i].committed = entries[i].committed
            /\ i # o.id /\ i # o.out => m[i].committed = entries[i].committed
        BY <1>4, <3>1
      <3>4. m[i].switching => i \notin gone /\ i # o.out
        BY <2>3, <3>2
      <3>5. entries'[i].switching => i # o.out /\ entries'[i].committed = m[i].committed
        BY <2>14, <3>4
      <3> QED
        BY <2>14, <3>2, <3>3, <3>5
    <2>16. ASSUME NEW l \in Lanes
           PROVE  \/ tokens'[l] = tokens[l] /\ engine'[l] = engine[l]
                  \/ /\ tokens'[l] = NoRows /\ engine'[l] = Cleared(engine[l])
                     /\ \E i \in Known' : entries'[i].lane = l /\ entries'[i].committed = NoRows
      <3>1. CASE l \notin wiped
        BY <2>1, <3>1
      <3>2. CASE l \in wiped
        <4>1. PICK i \in gone : m[i].lane = l
          BY <3>2 DEF wiped
        <4>2. i \in DOMAIN left /\ left[i] = f(i) /\ left[i].lane = l /\ l # 0
          BY <2>3, <2>7, <2>8, <4>1
        <4>3. i \in DOMAIN rest /\ i \notin lost
          BY <2>9, <2>10, <4>2
        <4>4. i \in Known' /\ entries'[i].lane = l /\ entries'[i].committed = NoRows
          BY <2>11, <2>14, <4>1, <4>3
        <4>5. tokens'[l] = NoRows /\ engine'[l] = Cleared(engine[l])
          BY <2>1, <3>2
        <4> QED
          BY <4>4, <4>5
      <3> QED
        BY <3>1, <3>2
    <2>17. tokens' \in [Lanes -> Rows] /\ engine' \in [Lanes -> EngineType]
      <3>1. \A l \in Lanes : Cleared(engine[l]) \in EngineType /\ engine[l] \in EngineType /\ tokens[l] \in Rows
        BY ClearedFacts DEF TypeOK
      <3> QED
        BY <2>1, <3>1 DEF Rows
    <2>18. mode = "inactive" => Cardinality(Retained(entries')) <= Limit /\ Cardinality(Held') <= Limit
      <3> SUFFICES ASSUME mode = "inactive" PROVE Cardinality(Retained(entries')) <= Limit /\ Cardinality(Held') <= Limit
        OBVIOUS
      <3>1. Ordered(order, Known)
        BY <1>3, TouchedOrdered DEF order
      <3>2. Ordered(order, old) /\ IsFiniteSet(old)
        <4>1. old \subseteq Known
          BY <1>2
        <4> HIDE DEF old
        <4> QED
          BY <1>2, <3>1, <4>1, FS_Subset DEF Ordered
      <3>3. Cardinality(gone) = Excess(m)
        <4> HIDE DEF old
        <4> QED
          BY <1>2, <3>2, OldestCount DEF gone
      <3>4. Retained(entries') \subseteq Retained(m) \ gone
        <4> SUFFICES ASSUME NEW i \in Retained(entries') PROVE i \in Retained(m) \ gone
          OBVIOUS
        <4>1. i \in Known' /\ ~entries'[i].busy /\ entries'[i].committed # NoRows
          BY DEF Retained, Known
        <4>2. i \notin gone /\ i \in DOMAIN m /\ ~m[i].busy /\ m[i].committed # NoRows
          BY <2>12, <2>14, <4>1
        <4> QED
          BY <4>2 DEF Retained
      <3>5. Cardinality(Retained(m) \ gone) = Cardinality(Retained(m)) - Excess(m) /\ IsFiniteSet(Retained(m) \ gone)
        <4>1. Retained(m) \cap gone = gone
          BY <1>2, <1>5
        <4> DEFINE all == Retained(m)
        <4>2. IsFiniteSet(all) /\ all \cap gone = gone
          BY <1>2, <4>1
        <4> HIDE DEF all
        <4>3. IsFiniteSet(all \ gone) /\ Cardinality(all \ gone) = Cardinality(all) - Cardinality(all \cap gone)
          BY <4>2, FS_Difference
        <4>4. Cardinality(all \ gone) = Cardinality(all) - Excess(m)
          BY <3>3, <4>2, <4>3
        <4> QED
          BY <4>3, <4>4 DEF all
      <3>6. Cardinality(Retained(m)) \in Nat /\ Limit \in Nat
        BY <1>2, FS_CardinalityType, LanesAssumption
      <3>7. Cardinality(Retained(m) \ gone) <= Limit
        BY <1>2, <3>5, <3>6
      <3>8. Held' \subseteq Retained(entries')
        BY DEF Held, Retained, Known
      <3>9. /\ Cardinality(Retained(entries')) <= Cardinality(Retained(m) \ gone) /\ Cardinality(Held') <= Cardinality(Retained(entries'))
            /\ Cardinality(Retained(m) \ gone) \in Nat /\ Cardinality(Retained(entries')) \in Nat /\ Cardinality(Held') \in Nat
        <4>1. IsFiniteSet(Retained(entries')) /\ Cardinality(Retained(entries')) <= Cardinality(Retained(m) \ gone)
          BY <3>4, <3>5, FS_Subset
        <4>2. IsFiniteSet(Held') /\ Cardinality(Held') <= Cardinality(Retained(entries'))
          BY <3>8, <4>1, FS_Subset
        <4> QED
          BY <3>5, <4>1, <4>2, FS_CardinalityType
      <3> QED
        BY <3>6, <3>7, <3>9
    <2>19. older' = Among(Known', order)
      BY <1>1 DEF Known
    <2> QED
      BY <2>11, <2>12, <2>13, <2>15, <2>16, <2>17, <2>18, <2>19 DEF order
  <1> QED
    BY <1>6, <1>7

\* The same, and no more histories than before, when the clear of a victim throws.
LEMMA FinishThrowsFacts ==
  ASSUME Steady, NEW r \in Requests, FinishThrows(r)
  PROVE  /\ Known' \subseteq Known /\ older' = Among(Known', Touched(Active(r))) /\ entries' \in [Known' -> EntryType]
         /\ \A i \in Known \ Known' : entries[i].lane = 0 /\ (~entries[i].busy \/ i = op[r].id)
         /\ \A i \in Known' :
              /\ entries'[i].lane = entries[i].lane /\ entries'[i].key \in {NoKey, entries[i].key}
              /\ entries'[i].payload = entries[i].payload /\ entries'[i].parked = entries[i].parked
              /\ entries'[i].busy <=> entries[i].busy /\ i # op[r].id
              /\ entries'[i].switching <=> entries[i].switching /\ i # op[r].out
              /\ \/ entries'[i].committed = NoRows
                 \/ i = Active(r) /\ entries'[i].committed = tokens[op[r].lane]
                 \/ /\ i # op[r].id /\ i # Active(r) /\ (i = op[r].out => op[r].ready)
                    /\ entries'[i].committed = entries[i].committed
              /\ i # op[r].id /\ entries'[i].switching => entries'[i].committed = entries[i].committed
         /\ tokens' \in [Lanes -> Rows] /\ engine' \in [Lanes -> EngineType]
         /\ \A l \in Lanes :
              \/ tokens'[l] = tokens[l] /\ engine'[l] = engine[l]
              \/ /\ tokens'[l] = NoRows /\ engine'[l] = Cleared(engine[l])
                 /\ \E i \in Known' : entries'[i].lane = l /\ entries'[i].committed = NoRows
         /\ mode = "inactive" => Cardinality(Held') <= Limit
  <1> USE SteadyFacts, LanesFacts
  <1> DEFINE o == op[r]
             m == Calm(r)
             order == Touched(Active(r))
             old == Evictable(m, r)
  <1>1. PICK n \in 1 .. Excess(m) :
             /\ Wipe({m[i].lane : i \in Oldest(n - 1, old, order)} \ {0})
             /\ entries' = Unnamed(r, Forgotten(m, Oldest(n - 1, old, order)))
    BY Zenon DEF FinishThrows
  <1> DEFINE gone == Oldest(n - 1, old, order)
             wiped == {m[i].lane : i \in gone} \ {0}
             left == Forgotten(m, gone)
  <1>2. /\ o.pc = "done" /\ o.out \in Known /\ older' = Among(DOMAIN entries', order)
        /\ mode' = mode
    BY Zenon DEF FinishThrows
  <1>3. /\ o \in OpType /\ o.lane \in Lanes /\ o.id \in Known /\ Active(r) \in Known
        /\ (o.attached => Active(r) = o.id) /\ (~o.attached => Active(r) = o.out)
        /\ (o.added /\ ~o.attached => o.id # o.out /\ entries[o.id].lane = 0)
        /\ entries[o.id].busy
    BY <1>2, DoneFacts DEF Active
  <1>4. /\ DOMAIN m = Known \ (IF ~o.attached /\ o.added THEN {o.id} ELSE {})
        /\ m \in [DOMAIN m -> EntryType]
        /\ \A i \in DOMAIN m :
              /\ m[i].lane = entries[i].lane /\ m[i].key = entries[i].key
              /\ m[i].payload = entries[i].payload /\ m[i].parked = entries[i].parked
              /\ m[i].busy <=> entries[i].busy /\ i # o.id
              /\ m[i].switching <=> entries[i].switching /\ i # o.out
              /\ \/ m[i].committed = NoRows
                 \/ i = Active(r) /\ m[i].committed = tokens[o.lane]
                 \/ /\ i # o.id /\ i # Active(r) /\ (i = o.out => o.ready)
                    /\ m[i].committed = entries[i].committed
              /\ i # o.id /\ i # o.out => m[i].committed = entries[i].committed
    BY <1>2, CalmFacts
  <1>5. \A i \in gone : i \in DOMAIN m /\ ~m[i].busy /\ ~m[i].switching /\ m[i].committed # NoRows
    <2>1. gone \subseteq old
      BY OldestWithin
    <2> QED
      BY <2>1 DEF Evictable, Retained
  <1> DEFINE f(i) == [m[i] EXCEPT !.committed = NoRows, !.key = NoKey]
             g(i) == [left[i] EXCEPT !.busy = FALSE, !.reserved = FALSE,
                        !.committed = IF o.attached \/ i = o.out THEN NoRows ELSE @]
             h(i) == [left[i] EXCEPT !.switching = FALSE, !.committed = NoRows, !.busy = @ /\ o.attached]
  <1>6. left = [i \in {x \in DOMAIN m : x \notin gone \/ m[x].lane # 0} |-> IF i \in gone THEN f(i) ELSE m[i]]
    BY DEF Forgotten
  <1>7. entries' = [i \in DOMAIN left |-> CASE i = o.id -> g(i) [] i = o.out /\ i # o.id -> h(i) [] OTHER -> left[i]]
    BY <1>1 DEF Unnamed
  <1>8. /\ engine' = [l \in Lanes |-> IF l \in wiped THEN Cleared(engine[l]) ELSE engine[l]]
        /\ tokens' = [l \in Lanes |-> IF l \in wiped THEN NoRows ELSE tokens[l]]
    BY <1>1 DEF Wipe
  <1> HIDE DEF m, gone, wiped, order
  <1>9. ASSUME NEW i \in DOMAIN m
        PROVE  /\ m[i] \in EntryType /\ f(i) \in EntryType
               /\ f(i).lane = m[i].lane /\ f(i).payload = m[i].payload /\ f(i).parked = m[i].parked
               /\ (f(i).busy <=> m[i].busy) /\ (f(i).switching <=> m[i].switching) /\ f(i).committed = NoRows /\ f(i).key = NoKey
    <2>1. m[i] \in EntryType
      BY <1>4
    <2> QED
      BY <2>1 DEF EntryType, Rows
  <1> HIDE DEF f
  <1>10. /\ DOMAIN left = {x \in DOMAIN m : x \notin gone \/ m[x].lane # 0}
         /\ \A i \in DOMAIN left :
              /\ left[i] \in EntryType /\ left[i].lane = m[i].lane /\ left[i].payload = m[i].payload
              /\ left[i].parked = m[i].parked /\ (left[i].busy <=> m[i].busy) /\ (left[i].switching <=> m[i].switching)
              /\ left[i].key \in {NoKey, m[i].key}
              /\ left[i].committed = (IF i \in gone THEN NoRows ELSE m[i].committed)
    BY <1>6, <1>9
  <1> HIDE DEF left
  <1>11. ASSUME NEW i \in DOMAIN left
         PROVE  /\ g(i) \in EntryType /\ g(i).lane = left[i].lane /\ g(i).payload = left[i].payload /\ g(i).parked = left[i].parked
                /\ g(i).key = left[i].key /\ ~g(i).busy /\ (g(i).switching <=> left[i].switching)
                /\ g(i).committed = (IF o.attached \/ i = o.out THEN NoRows ELSE left[i].committed)
                /\ h(i) \in EntryType /\ h(i).lane = left[i].lane /\ h(i).payload = left[i].payload /\ h(i).parked = left[i].parked
                /\ h(i).key = left[i].key /\ (h(i).busy <=> left[i].busy /\ o.attached) /\ ~h(i).switching
                /\ h(i).committed = NoRows
    <2>1. left[i] \in EntryType /\ o.attached \in BOOLEAN
      BY <1>3, <1>10 DEF OpType
    <2> QED
      BY <2>1 DEF EntryType, Rows
  <1> HIDE DEF g, h
  <1>12. Known' = DOMAIN left /\ entries' \in [Known' -> EntryType] /\ older' = Among(Known', order)
    <2>1. Known' = DOMAIN left
      BY <1>7 DEF Known
    <2> QED
      BY <1>2, <1>7, <1>10, <1>11, <2>1 DEF Known
  <1>13. Known' \subseteq DOMAIN m /\ Known' \subseteq Known
    BY <1>4, <1>10, <1>12
  <1>14. ASSUME NEW i \in Known \ Known' PROVE entries[i].lane = 0 /\ (~entries[i].busy \/ i = o.id)
    <2>1. CASE i \notin DOMAIN m
      BY <1>3, <1>4, <2>1
    <2>2. CASE i \in DOMAIN m
      <3>1. i \in gone /\ m[i].lane = 0 /\ ~m[i].busy
        BY <1>5, <1>10, <1>12, <2>2
      <3> QED
        BY <1>4, <2>2, <3>1
    <2> QED
      BY <2>1, <2>2
  <1>15. ASSUME NEW i \in Known'
         PROVE  /\ entries'[i].lane = m[i].lane /\ entries'[i].payload = m[i].payload /\ entries'[i].parked = m[i].parked
                /\ entries'[i].key \in {NoKey, m[i].key}
                /\ i # o.id /\ i # o.out => (entries'[i].busy <=> m[i].busy)
                /\ i = o.out /\ i # o.id => (entries'[i].busy <=> m[i].busy /\ o.attached)
                /\ i = o.id => ~entries'[i].busy
                /\ entries'[i].switching <=> m[i].switching /\ (i = o.id \/ i # o.out)
                /\ \/ entries'[i].committed = NoRows
                   \/ /\ i # o.out /\ i \notin gone /\ (i = o.id => ~o.attached)
                      /\ entries'[i].committed = m[i].committed
    <2>1. i \in DOMAIN left
      BY <1>12
    <2>2. m[i].switching \in BOOLEAN /\ m[i].busy \in BOOLEAN
      BY <1>9, <1>13 DEF EntryType
    <2>3. CASE i = o.id
      <3>1. entries'[i] = g(i)
        BY <1>7, <2>1, <2>3
      <3> QED
        BY <1>10, <1>11, <2>1, <2>2, <2>3, <3>1
    <2>4. CASE i = o.out /\ i # o.id
      <3>1. entries'[i] = h(i)
        BY <1>7, <2>1, <2>4
      <3> QED
        BY <1>10, <1>11, <2>1, <2>2, <2>4, <3>1
    <2>5. CASE i # o.out /\ i # o.id
      <3>1. entries'[i] = left[i]
        BY <1>7, <2>1, <2>5
      <3> QED
        BY <1>10, <2>1, <2>2, <2>5, <3>1
    <2> QED
      BY <2>3, <2>4, <2>5
  <1>16. /\ ~o.attached /\ o.out # o.id => ~entries[o.out].busy
         /\ Active(r) \in {o.id, o.out}
    BY <1>2, <1>3, DoneFacts
  <1>17. ASSUME NEW i \in Known'
         PROVE  /\ entries'[i].lane = entries[i].lane /\ entries'[i].key \in {NoKey, entries[i].key}
                /\ entries'[i].payload = entries[i].payload /\ entries'[i].parked = entries[i].parked
                /\ entries'[i].busy <=> entries[i].busy /\ i # o.id
                /\ entries'[i].switching <=> entries[i].switching /\ i # o.out
                /\ \/ entries'[i].committed = NoRows
                   \/ /\ i # o.id /\ i # o.out /\ i # Active(r) /\ entries'[i].committed = entries[i].committed
                /\ i # o.id /\ entries'[i].switching => entries'[i].committed = entries[i].committed
    <2>1. i \in DOMAIN m /\ i \in Known
      BY <1>13
    <2>2. /\ m[i].lane = entries[i].lane /\ m[i].key = entries[i].key
          /\ m[i].payload = entries[i].payload /\ m[i].parked = entries[i].parked
          /\ m[i].busy <=> entries[i].busy /\ i # o.id
          /\ m[i].switching <=> entries[i].switching /\ i # o.out
          /\ i # o.id /\ i # o.out => m[i].committed = entries[i].committed
      BY <1>4, <2>1
    <2>3. /\ m[i].busy \in BOOLEAN /\ m[i].switching \in BOOLEAN /\ entries[i].busy \in BOOLEAN /\ entries[i].switching \in BOOLEAN
      BY <1>9, <2>1 DEF EntryType, TypeOK
    <2>4. /\ entries'[i].lane = entries[i].lane /\ entries'[i].key \in {NoKey, entries[i].key}
          /\ entries'[i].payload = entries[i].payload /\ entries'[i].parked = entries[i].parked
      BY <1>15, <2>2
    <2>5. entries'[i].busy <=> entries[i].busy /\ i # o.id
      BY <1>15, <1>16, <2>2, <2>3
    <2>6. entries'[i].switching <=> entries[i].switching /\ i # o.out
      BY <1>15, <2>2, <2>3
    <2>7. i = o.id /\ ~o.attached /\ i # o.out => m[i].committed = NoRows
      <3> SUFFICES ASSUME i = o.id, ~o.attached, i # o.out PROVE m[i].committed = NoRows
        OBVIOUS
      <3>1. i # Active(r)
        BY <1>3
      <3> QED
        BY <1>4, <2>1, <3>1
    <2>8. \/ entries'[i].committed = NoRows
          \/ /\ i # o.id /\ i # o.out /\ i # Active(r) /\ entries'[i].committed = entries[i].committed
      BY <1>15, <1>16, <2>2, <2>7
    <2>9. i # o.id /\ entries'[i].switching => entries'[i].committed = entries[i].committed
      <3> SUFFICES ASSUME i # o.id, entries'[i].switching PROVE entries'[i].committed = entries[i].committed
        OBVIOUS
      <3>1. i # o.out /\ i \notin gone
        BY <1>5, <2>2, <2>6
      <3>2. entries'[i] = left[i] /\ left[i].committed = m[i].committed
        BY <1>7, <1>10, <1>12, <3>1
      <3> QED
        BY <2>2, <3>1, <3>2
    <2> QED
      BY <2>4, <2>5, <2>6, <2>8, <2>9
  <1>18. ASSUME NEW l \in Lanes
         PROVE  \/ tokens'[l] = tokens[l] /\ engine'[l] = engine[l]
                \/ /\ tokens'[l] = NoRows /\ engine'[l] = Cleared(engine[l])
                   /\ \E i \in Known' : entries'[i].lane = l /\ entries'[i].committed = NoRows
    <2>1. CASE l \notin wiped
      BY <1>8, <2>1
    <2>2. CASE l \in wiped
      <3>1. PICK i \in gone : m[i].lane = l /\ l # 0
        BY <2>2 DEF wiped
      <3>2. i \in Known' /\ left[i].committed = NoRows
        BY <1>5, <1>10, <1>12, <3>1
      <3>3. entries'[i].lane = l /\ entries'[i].committed = NoRows
        BY <1>15, <3>1, <3>2
      <3>4. tokens'[l] = NoRows /\ engine'[l] = Cleared(engine[l])
        BY <1>8, <2>2
      <3> QED
        BY <3>2, <3>3, <3>4
    <2> QED
      BY <2>1, <2>2
  <1>19. tokens' \in [Lanes -> Rows] /\ engine' \in [Lanes -> EngineType]
    <2>1. \A l \in Lanes : Cleared(engine[l]) \in EngineType /\ engine[l] \in EngineType /\ tokens[l] \in Rows
      BY ClearedFacts DEF TypeOK
    <2> QED
      BY <1>8, <2>1 DEF Rows
  <1>20. mode = "inactive" => Cardinality(Held') <= Limit
    <2>1. Held' \subseteq Held
      BY <1>13, <1>17 DEF Held
    <2>2. IsFiniteSet(Held)
      BY FS_Subset DEF Held, TypeOK
    <2>3. Cardinality(Held') <= Cardinality(Held) /\ Cardinality(Held) \in Nat /\ Cardinality(Held') \in Nat
      BY <2>1, <2>2, FS_Subset, FS_CardinalityType
    <2> QED
      BY <2>3, LanesAssumption DEF QuotaHeld
  <1> QED
    BY <1>12, <1>13, <1>14, <1>17, <1>18, <1>19, <1>20 DEF order

LEMMA FinishKeeps == ASSUME Steady, NEW r \in Requests, Finish(r) \/ FinishThrows(r) PROVE IInv'
  <1> USE SteadyFacts, LanesFacts
  <1> DEFINE o == op[r]
  <1>1. /\ o \in OpType /\ o.pc = "done" /\ o.lane \in Lanes /\ Holder(r) /\ o.id \in Known /\ entries[o.id].busy
        /\ Active(r) \in Known /\ resident[o.lane] = Active(r) /\ entries[Active(r)].lane = o.lane
        /\ Active(r) \in {o.id, o.out}
        /\ (o.id # Active(r) => ~o.attached)
    BY DoneFacts DEF Finish, FinishThrows, Active
  <1>2. UNCHANGED <<mode, arrivals, resident>> /\ op' = [op EXCEPT ![r].pc = "release"] /\ faults' \in Nat
    BY DEF Finish, FinishThrows, Fault, TypeOK
  <1>3. /\ Known' \subseteq Known /\ older' = Among(Known', Touched(Active(r))) /\ entries' \in [Known' -> EntryType]
        /\ tokens' \in [Lanes -> Rows] /\ engine' \in [Lanes -> EngineType]
        /\ mode = "inactive" => Cardinality(Held') <= Limit
    BY FinishFacts, FinishThrowsFacts
  <1>4. \A i \in Known \ Known' : entries[i].lane = 0 /\ (~entries[i].busy \/ i = o.id)
    BY FinishFacts, FinishThrowsFacts
  <1>5. \A i \in Known' :
          /\ entries'[i].lane = entries[i].lane /\ entries'[i].key \in {NoKey, entries[i].key}
          /\ entries'[i].payload = entries[i].payload /\ entries'[i].parked = entries[i].parked
          /\ entries'[i].busy <=> entries[i].busy /\ i # o.id
          /\ entries'[i].switching <=> entries[i].switching /\ i # o.out
          /\ \/ entries'[i].committed = NoRows
             \/ i = Active(r) /\ entries'[i].committed = tokens[o.lane]
             \/ /\ i # o.id /\ i # Active(r) /\ (i = o.out => o.ready)
                /\ entries'[i].committed = entries[i].committed
          /\ i # o.id /\ entries'[i].switching => entries'[i].committed = entries[i].committed
    BY FinishFacts, FinishThrowsFacts
  <1>6. \A l \in Lanes :
          \/ tokens'[l] = tokens[l] /\ engine'[l] = engine[l]
          \/ /\ tokens'[l] = NoRows /\ engine'[l] = Cleared(engine[l])
             /\ \E i \in Known' : entries'[i].lane = l /\ entries'[i].committed = NoRows
    BY FinishFacts, FinishThrowsFacts
  <1>7. /\ op' \in [Requests -> OpType] /\ \A x \in Requests \ {r} : op'[x] = op[x]
        /\ op'[r].pc = "release" /\ op'[r].lane = o.lane /\ op'[r].id = o.id /\ op'[r].out = o.out
        /\ op'[r].key = o.key /\ op'[r].attached = o.attached /\ op'[r].ready = o.ready
        /\ op'[r].added = o.added
    <2> DEFINE p == [o EXCEPT !.pc = "release"]
    <2>1. p \in OpType /\ p.pc = "release" /\ p.lane = o.lane /\ p.id = o.id /\ p.out = o.out
          /\ p.key = o.key /\ p.attached = o.attached /\ p.ready = o.ready /\ p.added = o.added
      BY <1>1 DEF OpType
    <2>2. op' = [op EXCEPT ![r] = p]
      BY <1>2
    <2> HIDE DEF p
    <2> QED
      BY <2>1, <2>2 DEF TypeOK
  <1>8. TypeOK'
    BY <1>2, <1>3, <1>7 DEF TypeOK
  <1>9. PhasesExact'
    <2>1. ASSUME NEW x \in Requests PROVE PhasesExact!1!(x)'
      <3>1. CASE x = r
        BY <1>1, <1>7, <3>1 DEF PhasesExact
      <3>2. CASE x # r
        BY <1>7, <3>2 DEF PhasesExact
      <3> QED
        BY <3>1, <3>2
    <2>2. \A x, y \in Requests : x # y /\ op'[x].lane # 0 => op'[x].lane # op'[y].lane
      BY <1>7 DEF PhasesExact
    <2> QED
      BY <2>1, <2>2 DEF PhasesExact
  <1>10. KeysUnique'
    BY <1>3, <1>5 DEF KeysUnique
  <1>11. KeysClaimed'
    <2>1. \A x \in Requests : op'[x].lane = op[x].lane /\ op'[x].key = op[x].key /\ op'[x].id = op[x].id
      BY <1>7
    <2>2. \A x \in Requests : op'[x].pc \in {"leased", "swapped"} => op[x].pc \in {"leased", "swapped"}
      BY <1>7
    <2>3. \A i \in Known' : i \in Known /\ (entries'[i].key = NoKey \/ entries'[i].key = entries[i].key)
      BY <1>3, <1>5
    <2> QED
      BY <2>1, <2>2, <2>3 DEF KeysClaimed
  <1>12. SameHistory'
    <2> SUFFICES ASSUME NEW l \in Lanes
                 PROVE  /\ NoRows \notin {tokens'[l], engine'[l].table} => tokens'[l] = engine'[l].table
                        /\ engine'[l].cells = engine'[l].table \/ engine'[l].stale
      BY DEF SameHistory
    <2>1. Cleared(engine[l]).table = NoRows /\ Cleared(engine[l]).cells = NoRows
      BY ClearedFacts DEF TypeOK
    <2> QED
      BY <1>6, <2>1 DEF SameHistory
  <1>13. QuotaHeld'
    BY <1>2, <1>3 DEF QuotaHeld
  <1>14. \A x \in Requests : /\ op'[x].id = op[x].id /\ op'[x].lane = op[x].lane /\ op'[x].out = op[x].out
                             /\ Holder(x)' <=> Holder(x) /\ x # r
                             /\ HandingOver(x)' <=> HandingOver(x) /\ x # r
    <2>1. ~Holder(r)' /\ ~HandingOver(r)'
      BY <1>7 DEF Holder, HandingOver
    <2>2. ASSUME NEW x \in Requests, x # r PROVE op'[x] = op[x] /\ (Holder(x)' <=> Holder(x)) /\ (HandingOver(x)' <=> HandingOver(x))
      BY <1>7, <2>2 DEF Holder, HandingOver
    <2> QED
      BY <1>7, <2>1, <2>2
  <1>15. ASSUME HandoverProtected' PROVE LanesOwned' /\ ClaimsExact' /\ OrderExact' /\ HandsExact' /\ CommittedHeld'
    <2>1. LanesOwned'
      <3>1. ASSUME NEW l \in Lanes PROVE resident[l] \in Known' /\ entries'[resident[l]].lane = l
        <4>1. resident[l] \in Known /\ entries[resident[l]].lane = l /\ l # 0
          BY DEF LanesOwned
        <4>2. resident[l] \in Known'
          BY <1>4, <4>1
        <4> QED
          BY <1>5, <4>1, <4>2
      <3> QED
        BY <1>2, <1>3, <1>5, <3>1 DEF LanesOwned
    <2>2. \A x \in Requests : HandingOver(x)' => op[x].out \in Known' /\ entries'[op[x].out].switching /\ entries[op[x].out].switching
                                                 /\ op[x].out # o.out
      BY <1>5, <1>14, <1>15 DEF HandoverProtected
    <2>3. \A x \in Requests : Holder(x)' => op[x].id \in Known' /\ op[x].id # o.id /\ entries[op[x].id].busy
      <3>1. \A x \in Requests : Holder(x)' => op[x].id \in Known /\ op[x].id # o.id /\ entries[op[x].id].busy
        BY <1>1, <1>14, Apart
      <3> QED
        BY <1>4, <3>1
    <2>4. ClaimsExact'
      <3>1. ASSUME NEW i \in Known' PROVE entries'[i].busy <=> (\E x \in Requests : Holder(x)' /\ op'[x].id = i)
        <4>1. entries[i].busy <=> (\E x \in Requests : Holder(x) /\ op[x].id = i)
          BY <1>3 DEF ClaimsExact
        <4>2. CASE i = o.id
          BY <1>5, <1>14, <2>3, <4>2
        <4>3. CASE i # o.id
          <5>1. \A x \in Requests : (Holder(x)' /\ op'[x].id = i) <=> (Holder(x) /\ op[x].id = i)
            BY <1>14, <4>3
          <5> QED
            BY <1>5, <4>1, <4>3, <5>1
        <4> QED
          BY <4>2, <4>3
      <3>2. \A y, x \in Requests : y # x /\ Holder(y)' /\ Holder(x)' => op'[y].id # op'[x].id /\ op'[y].lane # op'[x].lane
        BY <1>14 DEF ClaimsExact
      <3>3. ASSUME NEW i \in Known', entries'[i].switching PROVE \E x \in Requests : HandingOver(x)' /\ op'[x].out = i
        <4>1. i \in Known /\ entries[i].switching /\ i # o.out
          BY <1>3, <1>5, <3>3
        <4>2. PICK x \in Requests : HandingOver(x) /\ op[x].out = i
          BY <4>1 DEF ClaimsExact
        <4> QED
          BY <1>14, <4>1, <4>2
      <3> QED
        BY <3>1, <3>2, <3>3 DEF ClaimsExact
    <2>5. OrderExact'
      <3>1. Touched(Active(r)) \subseteq Known \X Known /\ Ordered(Touched(Active(r)), Known)
        BY <1>1, TouchedOrdered
      <3>2. older' \subseteq Known' \X Known' /\ Ordered(older', Known')
        BY <1>3, <3>1, AmongOrdered
      <3> QED
        BY <3>2 DEF OrderExact, Ordered
    <2>6. HandsExact'
      <3> SUFFICES ASSUME NEW x \in Requests, Holder(x)' PROVE HandsExact!(x)!2'
        BY DEF HandsExact
      <3>1. Holder(x) /\ x # r /\ op'[x] = op[x] /\ op[x].id \in Known'
            /\ (HandingOver(x)' <=> HandingOver(x))
        BY <1>7, <1>14, <2>3
      <3>2. HandingOver(x) => op[x].out \in Known' /\ entries'[op[x].out].switching /\ op[x].out # o.id
        BY <1>1, <2>2, <3>1, Apart
      <3>3. op[x].pc \in {"swapped", "demoting"} /\ op[x].id # op[x].out => HandingOver(x)
        BY DEF HandingOver
      <3>4. op[x].pc = "demoting" => HandingOver(x)
        BY <3>3 DEF PhasesExact
      <3>5. /\ entries'[op[x].id].lane = entries[op[x].id].lane
            /\ entries'[op[x].id].parked = entries[op[x].id].parked
            /\ entries'[op[x].id].payload = entries[op[x].id].payload
        BY <1>5, <3>1
      <3>6. HandingOver(x) =>
              /\ entries'[op[x].out].lane = entries[op[x].out].lane /\ (entries'[op[x].out].busy => entries[op[x].out].busy)
              /\ entries'[op[x].out].committed = entries[op[x].out].committed
              /\ entries'[op[x].out].parked = entries[op[x].out].parked
              /\ entries'[op[x].out].payload = entries[op[x].out].payload
        BY <1>5, <3>2
      <3> QED
        BY <1>2, <3>1, <3>2, <3>3, <3>4, <3>5, <3>6 DEF HandsExact
    <2>7. CommittedHeld'
      <3> SUFFICES ASSUME NEW i \in Known', Idle(i)', entries'[i].committed # NoRows
                   PROVE  IF entries'[i].lane = 0 THEN entries'[i].parked = entries'[i].committed /\ entries'[i].payload = entries'[i].committed
                          ELSE tokens'[entries'[i].lane] = entries'[i].committed
        BY DEF CommittedHeld
      <3>1. /\ i \in Known /\ entries'[i].lane = entries[i].lane
            /\ entries'[i].payload = entries[i].payload /\ entries'[i].parked = entries[i].parked
        BY <1>3, <1>5
      <3>2. ASSUME entries[i].lane # 0 PROVE entries[i].lane \in Lanes /\ tokens'[entries[i].lane] = tokens[entries[i].lane]
        <4>1. entries[i] \in EntryType
          BY <3>1 DEF TypeOK
        <4>2. entries[i].lane \in Lanes
          BY <3>2, <4>1 DEF EntryType
        <4>3. \A j \in Known' : entries'[j].lane = entries[i].lane => j = i
          BY <1>2, <2>1, <3>1, <3>2 DEF LanesOwned
        <4> QED
          BY <1>6, <4>2, <4>3
      <3>3. CASE i = Active(r) /\ entries'[i].committed = tokens[o.lane]
        <4>1. entries[i].lane = o.lane /\ o.lane # 0
          BY <1>1, <3>3
        <4> QED
          BY <3>1, <3>2, <3>3, <4>1
      <3>4. CASE i # o.id /\ i # Active(r) /\ (i = o.out => o.ready) /\ entries'[i].committed = entries[i].committed
        <4>1. ~entries[i].busy
          BY <1>5, <3>4 DEF Idle
        <4>2. ~entries[i].switching
          <5> SUFFICES ASSUME entries[i].switching PROVE FALSE
            OBVIOUS
          <5>1. i = o.out /\ o.ready
            BY <1>5, <3>4 DEF Idle
          <5>2. PICK x \in Requests : HandingOver(x) /\ op[x].out = i
            BY <3>1 DEF ClaimsExact
          <5>3. x # r
            BY <1>1, <5>1, <5>2 DEF HandingOver
          <5> QED
            BY <1>14, <2>2, <5>1, <5>2, <5>3
        <4>3. Idle(i) /\ entries[i].committed # NoRows
          BY <3>4, <4>1, <4>2 DEF Idle
        <4> QED
          BY <3>1, <3>2, <3>4, <4>3 DEF CommittedHeld
      <3> QED
        BY <1>5, <3>3, <3>4
    <2> QED
      BY <2>1, <2>4, <2>5, <2>6, <2>7
  <1> QED
    BY <1>8, <1>9, <1>10, <1>11, <1>12, <1>13, <1>15 DEF IInv

-----------------------------------------------------------------------------
(* The theorems                                                             *)

LEMMA OwnersStep == IInv /\ [Next]_vars => IInv'
  <1> SUFFICES ASSUME IInv, [Next]_vars PROVE IInv'
    OBVIOUS
  <1>1. CASE Next
    <2>1. Steady
      BY <1>1 DEF Steady, Next
    <2>2. PICK r \in Requests :
        \/ \E want \in Histories, key \in Keys \cup {NoKey}, reset \in BOOLEAN : Arrive(r, want, key, reset)
        \/ GiveUp(r) \/ Select(r) \/ NotAttached(r) \/ AttachSame(r) \/ AttachOther(r)
        \/ Publish(r) \/ Demoted(r) \/ Serve(r) \/ Finish(r) \/ FinishThrows(r) \/ Release(r)
      BY <1>1 DEF Next
    <2>3. CASE \E want \in Histories, key \in Keys \cup {NoKey}, reset \in BOOLEAN : Arrive(r, want, key, reset)
      BY <2>1, <2>3, ArriveKeeps
    <2>4. CASE GiveUp(r) \/ Release(r)
      BY <2>1, <2>4, LeavesKeeps
    <2>5. CASE Select(r)
      BY <2>1, <2>5, SelectKeeps
    <2>6. CASE NotAttached(r)
      BY <2>1, <2>6, NotAttachedKeeps
    <2>7. CASE AttachSame(r)
      BY <2>1, <2>7, AttachSameKeeps
    <2>8. CASE AttachOther(r)
      BY <2>1, <2>8, AttachOtherKeeps
    <2>9. CASE Publish(r)
      BY <2>1, <2>9, PublishKeeps
    <2>10. CASE Demoted(r)
      BY <2>1, <2>10, DemotedKeeps
    <2>11. CASE Serve(r)
      BY <2>1, <2>11, ServeKeeps
    <2>12. CASE Finish(r) \/ FinishThrows(r)
      BY <2>1, <2>12, FinishKeeps
    <2> QED
      BY <2>2, <2>3, <2>4, <2>5, <2>6, <2>7, <2>8, <2>9, <2>10, <2>11, <2>12
  <1>2. CASE UNCHANGED vars
    <2>1. UNCHANGED <<mode, entries, older, resident, engine, tokens, op, arrivals, faults, Known>>
      BY <1>2 DEF vars, Known
    <2>2. TypeOK' /\ PhasesExact' /\ KeysUnique' /\ KeysClaimed' /\ SameHistory' /\ QuotaHeld'
      BY <2>1 DEF IInv, TypeOK, PhasesExact, KeysUnique, KeysClaimed, SameHistory, QuotaHeld, Held
    <2>3. HandoverProtected' => HandoverProtected
      BY <2>1 DEF HandoverProtected, HandingOver
    <2>4. ASSUME HandoverProtected PROVE LanesOwned' /\ ClaimsExact' /\ OrderExact' /\ HandsExact' /\ CommittedHeld'
      BY <2>1, <2>4 DEF IInv, LanesOwned, ClaimsExact, OrderExact, HandsExact, CommittedHeld, Idle, Holder, HandingOver
    <2> QED
      BY <2>2, <2>3, <2>4 DEF IInv
  <1> QED
    BY <1>1, <1>2

\* Every reachable state: who holds an entry and a lane, what each of them holds, and
\* how far a handover has come.
THEOREM LanesInvariant == Spec => []IInv
  BY OwnersStart, OwnersStep, PTL DEF Spec

\* OwnersExact, for every number of lanes, requests, client ids and entries.
THEOREM OwnersTheorem == Spec => []OwnersExact
  <1>1. IInv => OwnersExact
    BY DEF IInv, OwnersExact
  <1> QED
    BY <1>1, LanesInvariant, PTL

\* RowsBacked, through every failure of a swap, a turn or a rollback.
THEOREM RowsTheorem == Spec => []RowsBacked
  <1>1. IInv => RowsBacked
    BY DEF IInv, RowsBacked
  <1> QED
    BY <1>1, LanesInvariant, PTL

\* QuotaAfterFinish, for every limit: a finish always finds the victims it needs
\* (QuotaRoom), the histories on locked lanes included in the limit.
THEOREM QuotaTheorem == Spec => QuotaAfterFinish
  <1> DEFINE Kept == \A r \in Requests : mode = "inactive" /\ op[r].pc = "done" /\ op'[r].pc = "release" /\ op[r].out \in Known /\ faults' = faults
                       => Cardinality(Retained(entries')) <= Limit
  <1>1. IInv /\ [Next]_vars => [Kept]_vars
    <2> SUFFICES ASSUME IInv, Next, NEW r \in Requests, mode = "inactive", op[r].pc = "done", op'[r].pc = "release", op[r].out \in Known, faults' = faults
                 PROVE  Cardinality(Retained(entries')) <= Limit
      BY DEF vars
    <2>1. Steady /\ op \in [Requests -> OpType]
      BY DEF Steady, Next, IInv, TypeOK
    <2>2. PICK x \in Requests :
        \/ \E want \in Histories, key \in Keys \cup {NoKey}, reset \in BOOLEAN : Arrive(x, want, key, reset)
        \/ GiveUp(x) \/ Select(x) \/ NotAttached(x) \/ AttachSame(x) \/ AttachOther(x)
        \/ Publish(x) \/ Demoted(x) \/ Serve(x) \/ Finish(x) \/ FinishThrows(x) \/ Release(x)
      BY DEF Next
    <2>3. CASE Finish(x)
      <3>1. x = r
        BY <2>1, <2>3 DEF Finish
      <3> QED
        BY <2>1, <2>3, <3>1, FinishFacts
    <2>4. CASE FinishThrows(x)
      BY <2>1, <2>4 DEF FinishThrows, Fault, IInv, TypeOK
    <2>5. CASE ~Finish(x) /\ ~FinishThrows(x)
      <3>1. CASE Serve(x)
        <4>1. op'[x].pc = "done" /\ \A y \in Requests \ {x} : op'[y] = op[y]
          BY <2>1, <3>1, ServeFacts
        <4> QED
          BY <4>1
      <3>2. CASE ~Serve(x)
        <4>1. \A y \in Requests \ {x} : op'[y] = op[y]
          BY <2>1, <2>2, <2>5, <3>2 DEF Arrive, GiveUp, Select, NotAttached, Failed, AttachSame, AttachOther, Throws, Hands, Publish, Demoted, Release
        <4>2. x = r
          BY <4>1
        <4>3. Release(x) => op[r].pc = "release"
          BY <4>2 DEF Release
        <4> QED
          BY <2>1, <2>2, <2>5, <3>2, <4>2, <4>3 DEF Arrive, GiveUp, Select, NotAttached, AttachSame, AttachOther, Publish, Demoted
      <3> QED
        BY <3>1, <3>2
    <2> QED
      BY <2>3, <2>4, <2>5
  <1> QED
    BY <1>1, LanesInvariant, PTL DEF Spec, QuotaAfterFinish

\* enforce_sessions never throws for want of an idle victim (the guard of its
\* eviction loop): whatever the limit and the lane mutexes held, a finish has at
\* least as many entries it may evict as the limit asks it to.
THEOREM VictimsTheorem ==
  Spec => [](HandoverProtected => \A r \in Requests : op[r].pc = "done" =>
               Excess(Calm(r)) <= Cardinality(Evictable(Calm(r), r)))
  <1>1. IInv => (HandoverProtected => \A r \in Requests : op[r].pc = "done" =>
               Excess(Calm(r)) <= Cardinality(Evictable(Calm(r), r)))
    BY QuotaRoom DEF Steady
  <1> QED
    BY <1>1, LanesInvariant, PTL
===============================================================================
