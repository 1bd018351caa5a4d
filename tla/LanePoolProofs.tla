---------------------------- MODULE LanePoolProofs ----------------------------
(***************************************************************************)
(* The admission protocol of tools/kvmem-lane-pool.h for any number of     *)
(* requests, conversations and lanes and any choice of suitable lanes:     *)
(* PoolExact, TurnKept and ArrivalOrder of LanePool.                       *)
(***************************************************************************)
EXTENDS LanePool, SequenceTheorems, TLAPS

-----------------------------------------------------------------------------
(* The queue                                                                *)

LEMMA RemovedAt ==
  ASSUME NEW S, NEW s \in Seq(S), NEW i \in 1 .. Len(s)
  PROVE  /\ RemoveAt(s, i) \in Seq(S)
         /\ Len(RemoveAt(s, i)) = Len(s) - 1
         /\ \A j \in 1 .. Len(s) - 1 : RemoveAt(s, i)[j] = IF j < i THEN s[j] ELSE s[j + 1]
  <1> DEFINE a == SubSeq(s, 1, i - 1)
             b == SubSeq(s, i + 1, Len(s))
  <1>1. Len(s) \in Nat /\ \A k \in 1 .. Len(s) : s[k] \in S
    OBVIOUS
  <1>2. /\ a \in Seq(S) /\ Len(a) = i - 1
        /\ \A k \in 1 .. i - 1 : a[k] = s[k]
    <2>1. \A k \in 1 .. i - 1 : s[k] \in S
      BY <1>1
    <2> QED
      BY <1>1, <2>1, SubSeqProperties
  <1>3. /\ b \in Seq(S) /\ Len(b) = Len(s) - i
        /\ \A k \in 1 .. Len(s) - i : b[k] = s[i + k]
    <2>1. \A k \in i + 1 .. Len(s) : s[k] \in S
      BY <1>1
    <2> QED
      BY <1>1, <2>1, SubSeqProperties
  <1> HIDE DEF a, b
  <1>4. /\ a \o b \in Seq(S) /\ Len(a \o b) = Len(s) - 1
        /\ \A j \in 1 .. Len(s) - 1 : (a \o b)[j] = IF j < i THEN s[j] ELSE s[j + 1]
    <2>1. /\ a \o b \in Seq(S) /\ Len(a \o b) = Len(a) + Len(b)
          /\ \A j \in 1 .. Len(a) + Len(b) :
                (a \o b)[j] = IF j <= Len(a) THEN a[j] ELSE b[j - Len(a)]
      BY <1>2, <1>3, ConcatProperties
    <2>2. ASSUME NEW j \in 1 .. Len(s) - 1
          PROVE  (a \o b)[j] = IF j < i THEN s[j] ELSE s[j + 1]
      <3>1. CASE j < i
        BY <1>1, <1>2, <1>3, <2>1, <3>1
      <3>2. CASE ~(j < i)
        <4>1. (a \o b)[j] = b[j - (i - 1)] /\ j - (i - 1) \in 1 .. Len(s) - i
          BY <1>1, <1>2, <1>3, <2>1, <3>2
        <4>2. b[j - (i - 1)] = s[i + (j - (i - 1))] /\ i + (j - (i - 1)) = j + 1
          BY <1>1, <1>3, <4>1
        <4> QED
          BY <3>2, <4>1, <4>2
      <3> QED
        BY <3>1, <3>2
    <2> QED
      BY <1>1, <1>2, <1>3, <2>1, <2>2
  <1> QED
    BY <1>4 DEF a, b, RemoveAt

\* Nobody overtakes: whoever is in the queue after the step was there before,
\* and any two of them stand in the order they had.
Shrunk ==
    /\ waiting' \in Seq(Requests)
    /\ Range(waiting') \subseteq Range(waiting)
    /\ \A i, j \in DOMAIN waiting' : i < j =>
         \E k, l \in DOMAIN waiting :
            k < l /\ waiting[k] = waiting'[i] /\ waiting[l] = waiting'[j]

OnceInQueue == \A i, j \in DOMAIN waiting : waiting[i] = waiting[j] => i = j

LEMMA PositionOf ==
  ASSUME NEW r \in Range(waiting)
  PROVE  Position(r) \in DOMAIN waiting /\ waiting[Position(r)] = r
  BY DEF Position, Range

LEMMA KeptQueue ==
  ASSUME waiting \in Seq(Requests), UNCHANGED waiting
  PROVE  Shrunk
  BY DEF Shrunk

LEMMA Erasing ==
  ASSUME waiting \in Seq(Requests), OnceInQueue, NEW r, EraseWaiter(r)
  PROVE  Shrunk /\ r \notin Range(waiting') /\ Range(waiting) \ {r} \subseteq Range(waiting')
  <1>1. CASE r \notin Range(waiting)
    BY <1>1, KeptQueue DEF EraseWaiter
  <1>2. CASE r \in Range(waiting)
    <2> DEFINE p == Position(r)
               t == RemoveAt(waiting, p)
    <2>1. p \in 1 .. Len(waiting) /\ waiting[p] = r /\ waiting' = t /\ Len(waiting) \in Nat
      BY <1>2, PositionOf DEF EraseWaiter
    <2>2. /\ t \in Seq(Requests) /\ Len(t) = Len(waiting) - 1
          /\ \A j \in 1 .. Len(waiting) - 1 :
                t[j] = IF j < p THEN waiting[j] ELSE waiting[j + 1]
      BY <2>1, RemovedAt
    <2> HIDE DEF p, t
    <2> DEFINE old(j) == IF j < p THEN j ELSE j + 1
    <2>3. DOMAIN t = 1 .. Len(waiting) - 1 /\ DOMAIN waiting = 1 .. Len(waiting)
      BY <2>2
    <2>4. \A j \in DOMAIN t : old(j) \in DOMAIN waiting /\ old(j) # p /\ waiting[old(j)] = t[j]
      BY <2>1, <2>2, <2>3
    <2>5. \A i, j \in DOMAIN t : i < j => old(i) < old(j)
      BY <2>1, <2>3
    <2>6. \A k \in DOMAIN waiting : k # p => \E j \in DOMAIN t : old(j) = k
      <3> SUFFICES ASSUME NEW k \in DOMAIN waiting, k # p PROVE \E j \in DOMAIN t : old(j) = k
        OBVIOUS
      <3>1. CASE k < p
        BY <2>1, <2>3, <3>1
      <3>2. CASE p < k
        <4>1. k - 1 \in DOMAIN t /\ old(k - 1) = k
          BY <2>1, <2>3, <3>2
        <4> QED
          BY <4>1
      <3> QED
        BY <2>1, <2>3, <3>1, <3>2
    <2> HIDE DEF old
    <2>7. Shrunk
      BY <2>1, <2>2, <2>4, <2>5 DEF Shrunk, Range
    <2>8. r \notin Range(waiting')
      BY <2>1, <2>3, <2>4 DEF Range, OnceInQueue
    <2>9. Range(waiting) \ {r} \subseteq Range(waiting')
      <3> SUFFICES ASSUME NEW k \in DOMAIN waiting, waiting[k] # r
                   PROVE  waiting[k] \in Range(waiting')
        BY DEF Range
      <3>1. PICK j \in DOMAIN t : old(j) = k
        BY <2>1, <2>6
      <3> QED
        BY <2>1, <2>4, <3>1 DEF Range
    <2> QED
      BY <2>7, <2>8, <2>9
  <1> QED
    BY <1>1, <1>2

-----------------------------------------------------------------------------
(* The invariant                                                            *)

HandlerStates == {"new", "turn", "preparing", "acquiring", "running", "leaving", "ended"}
InQueue == {"turn", "preparing", "acquiring"}

PoolTypes ==
    /\ waiting \in Seq(Requests)
    /\ busy \subseteq Lanes
    /\ keys \in [Lanes -> {Key[r] : r \in Requests} \cup {NoKey}]
    /\ state \in [Requests -> HandlerStates]
    /\ lane \in [Requests -> Lanes \cup {NoLane}]

\* A lane is busy for the one handler that runs on it, and has its key.
LanesHeld ==
    /\ \A r \in Requests : state[r] = "running" <=> lane[r] # NoLane
    /\ \A r \in Requests : lane[r] # NoLane => lane[r] \in busy /\ keys[lane[r]] = Key[r]
    /\ \A l \in busy : \E r \in Requests : lane[r] = l
    /\ \A r, q \in Requests : lane[r] # NoLane /\ lane[r] = lane[q] => r = q
    /\ \A l \in Lanes \ busy : keys[l] = NoKey

\* A handler that still wants a lane has its ticket in the queue, and a ticket
\* in the queue is one of a handler that has not ended.
QueueExact ==
    /\ OnceInQueue
    /\ \A r \in Range(waiting) : state[r] \in InQueue \cup {"leaving"}
    /\ \A r \in Requests : state[r] \in InQueue => r \in Range(waiting)

\* Of one conversation, only the oldest ticket may be past wait_turn, and that
\* only while nobody runs it.
OldestOnly ==
    /\ \A r, q \in Requests :
          r # q /\ Key[r] = Key[q] /\ Key[r] # NoKey
            /\ state[r] \in {"preparing", "acquiring", "running"} => lane[q] = NoLane
    /\ \A i, j \in DOMAIN waiting :
          i < j /\ Key[waiting[i]] = Key[waiting[j]] /\ Key[waiting[j]] # NoKey =>
            state[waiting[j]] \notin {"preparing", "acquiring"}

PoolInv == PoolTypes /\ LanesHeld /\ QueueExact /\ OldestOnly

LEMMA PoolStarts == Init => PoolInv
  <1> SUFFICES ASSUME Init PROVE PoolInv
    OBVIOUS
  <1>1. PoolTypes /\ QueueExact /\ Range(waiting) = {}
    BY DEF Init, PoolTypes, QueueExact, OnceInQueue, HandlerStates, InQueue, Range
  <1>2. LanesHeld
    BY PoolAssumption DEF Init, LanesHeld
  <1>3. OldestOnly
    BY DEF Init, OldestOnly
  <1> QED
    BY <1>1, <1>2, <1>3 DEF PoolInv

\* A step of one handler that neither takes nor gives back a lane.
LEMMA HandlerMoves ==
  ASSUME PoolInv, Shrunk, UNCHANGED <<keys, busy, lane>>,
         NEW r \in Requests, NEW s \in HandlerStates \ {"running"},
         state[r] # "running", state' = [state EXCEPT ![r] = s],
         Range(waiting) \ {r} \subseteq Range(waiting'),
         s \in InQueue => r \in Range(waiting'),
         r \in Range(waiting') => s \in InQueue \cup {"leaving"},
         s \in {"preparing", "acquiring"} =>
            state[r] \in {"preparing", "acquiring"} \/ (r \in Range(waiting) /\ GroupReady(r))
  PROVE  PoolInv'
  <1>1. PoolTypes'
    BY DEF PoolInv, PoolTypes, Shrunk
  <1>2. \A q \in Requests : state'[q] = IF q = r THEN s ELSE state[q]
    BY DEF PoolInv, PoolTypes
  <1>3. LanesHeld'
    BY <1>2 DEF PoolInv, LanesHeld
  <1>4. QueueExact'
    <2>1. OnceInQueue'
      <3> SUFFICES ASSUME NEW i \in DOMAIN waiting', NEW j \in DOMAIN waiting', i < j
                   PROVE  waiting'[i] # waiting'[j]
        BY DEF OnceInQueue, Shrunk
      <3>1. PICK k \in DOMAIN waiting, l \in DOMAIN waiting :
               k < l /\ waiting[k] = waiting'[i] /\ waiting[l] = waiting'[j]
        BY DEF Shrunk
      <3> QED
        BY <3>1 DEF PoolInv, PoolTypes, QueueExact, OnceInQueue
    <2>2. \A q \in Range(waiting)' : state'[q] \in InQueue \cup {"leaving"}
      <3> SUFFICES ASSUME NEW q \in Range(waiting')
                   PROVE  state'[q] \in InQueue \cup {"leaving"}
        BY DEF Range
      <3>1. q \in Range(waiting) /\ q \in Requests
        BY DEF Shrunk, Range
      <3> QED
        BY <1>2, <3>1 DEF PoolInv, QueueExact
    <2>3. \A q \in Requests : state'[q] \in InQueue => q \in Range(waiting)'
      BY <1>2 DEF PoolInv, QueueExact, Range
    <2> QED
      BY <2>1, <2>2, <2>3 DEF QueueExact
  <1>5. OldestOnly'
    <2>1. ASSUME s \in {"preparing", "acquiring"}, state[r] \notin {"preparing", "acquiring"}
          PROVE  r \in Range(waiting) /\ GroupReady(r)
      BY <2>1
    <2>2. ASSUME NEW p \in Requests, NEW q \in Requests, p # q, Key[p] = Key[q], Key[p] # NoKey,
                 state'[p] \in {"preparing", "acquiring", "running"}
          PROVE  lane'[q] = NoLane
      <3>1. CASE state[p] \in {"preparing", "acquiring", "running"}
        BY <2>2, <3>1 DEF PoolInv, OldestOnly
      <3>2. CASE state[p] \notin {"preparing", "acquiring", "running"}
        <4>1. p = r /\ GroupReady(r)
          BY <1>2, <2>1, <2>2, <3>2
        <4>2. \A l \in Lanes : keys[l] # Key[r]
          BY <2>2, <4>1 DEF GroupReady
        <4> QED
          BY <2>2, <4>1, <4>2 DEF PoolInv, PoolTypes, LanesHeld
      <3> QED
        BY <3>1, <3>2
    <2>3. ASSUME NEW i \in DOMAIN waiting', NEW j \in DOMAIN waiting', i < j,
                 Key[waiting'[i]] = Key[waiting'[j]], Key[waiting'[j]] # NoKey
          PROVE  state'[waiting'[j]] \notin {"preparing", "acquiring"}
      <3>1. PICK k \in DOMAIN waiting, l \in DOMAIN waiting :
               k < l /\ waiting[k] = waiting'[i] /\ waiting[l] = waiting'[j]
        BY <2>3 DEF Shrunk
      <3>2. state[waiting[l]] \notin {"preparing", "acquiring"} /\ waiting[l] \in Requests
        BY <2>3, <3>1 DEF PoolInv, PoolTypes, OldestOnly
      <3>3. CASE waiting[l] # r
        BY <1>2, <3>1, <3>2, <3>3
      <3>4. CASE waiting[l] = r
        <4> SUFFICES ASSUME s \in {"preparing", "acquiring"} PROVE FALSE
          BY <1>2, <3>1, <3>4
        <4>1. r \in Range(waiting) /\ GroupReady(r)
          BY <2>1, <3>2, <3>4
        <4>2. Position(r) = l
          BY <3>4, <4>1, PositionOf DEF PoolInv, QueueExact, OnceInQueue
        <4>3. k \in 1 .. Position(r) - 1
          BY <3>1, <4>2 DEF PoolInv, PoolTypes
        <4>4. Key[waiting[k]] # Key[r]
          BY <2>3, <3>1, <3>4, <4>1, <4>3 DEF GroupReady
        <4> QED
          BY <2>3, <3>1, <3>4, <4>4
      <3> QED
        BY <3>3, <3>4
    <2> QED
      BY <2>2, <2>3 DEF OldestOnly
  <1> QED
    BY <1>1, <1>3, <1>4, <1>5 DEF PoolInv

LEMMA Enqueues == ASSUME PoolInv, NEW r \in Requests, Enqueue(r) PROVE PoolInv'
  <1>1. /\ waiting' = Append(waiting, r) /\ state' = [state EXCEPT ![r] = "turn"]
        /\ UNCHANGED <<keys, busy, lane>> /\ state[r] = "new"
    BY DEF Enqueue
  <1>2. PoolTypes' /\ \A q \in Requests : state'[q] = IF q = r THEN "turn" ELSE state[q]
    BY <1>1 DEF PoolInv, PoolTypes, HandlerStates
  <1>3. LanesHeld'
    BY <1>1, <1>2 DEF PoolInv, LanesHeld
  <1>4. /\ Len(waiting) \in Nat /\ DOMAIN waiting = 1 .. Len(waiting)
        /\ DOMAIN waiting' = 1 .. Len(waiting) + 1 /\ waiting'[Len(waiting) + 1] = r
        /\ \A i \in DOMAIN waiting : waiting'[i] = waiting[i] /\ waiting[i] \in Requests
    BY <1>1 DEF PoolInv, PoolTypes
  <1>5. r \notin Range(waiting)
    BY <1>1 DEF PoolInv, QueueExact, InQueue
  <1>6. QueueExact'
    <2>1. OnceInQueue'
      BY <1>4, <1>5 DEF PoolInv, QueueExact, OnceInQueue, Range
    <2>2. \A q \in Range(waiting)' : state'[q] \in InQueue \cup {"leaving"}
      BY <1>2, <1>4 DEF PoolInv, QueueExact, Range, InQueue
    <2>3. \A q \in Requests : state'[q] \in InQueue => q \in Range(waiting)'
      BY <1>2, <1>4 DEF PoolInv, QueueExact, Range
    <2> QED
      BY <2>1, <2>2, <2>3 DEF QueueExact
  <1>7. OldestOnly'
    BY <1>1, <1>2, <1>4 DEF PoolInv, OldestOnly
  <1> QED
    BY <1>2, <1>3, <1>6, <1>7 DEF PoolInv

LEMMA Admits ==
  ASSUME PoolInv, NEW r \in Requests, NEW l \in Selectable(r), Admit(r, l)
  PROVE  PoolInv'
  <1>1. /\ busy' = busy \cup {l} /\ keys' = [keys EXCEPT ![l] = Key[r]]
        /\ lane' = [lane EXCEPT ![r] = l] /\ state' = [state EXCEPT ![r] = "running"]
        /\ EraseWaiter(r) /\ state[r] = "acquiring" /\ r \in Range(waiting)
    BY DEF Admit, First, Admissible
  <1>2. l \in Lanes /\ l \notin busy /\ l # NoLane
    BY PoolAssumption DEF Selectable
  <1>3. /\ Shrunk /\ r \notin Range(waiting')
        /\ Range(waiting) \ {r} \subseteq Range(waiting')
    BY <1>1, Erasing DEF PoolInv, PoolTypes, QueueExact
  <1>4. /\ \A q \in Requests : state'[q] = IF q = r THEN "running" ELSE state[q]
        /\ \A q \in Requests : lane'[q] = IF q = r THEN l ELSE lane[q]
        /\ \A m \in Lanes : keys'[m] = IF m = l THEN Key[r] ELSE keys[m]
    BY <1>1, <1>2 DEF PoolInv, PoolTypes
  <1>5. PoolTypes'
    BY <1>1, <1>2, <1>3 DEF PoolInv, PoolTypes, Shrunk, HandlerStates
  <1>6. LanesHeld'
    <2>1. \A q \in Requests : lane[q] # l /\ (lane[q] # NoLane => lane[q] \in Lanes)
      BY <1>2 DEF PoolInv, LanesHeld, PoolTypes
    <2>2. \A q \in Requests : state'[q] = "running" <=> lane'[q] # NoLane
      BY <1>2, <1>4 DEF PoolInv, LanesHeld
    <2>3. \A q \in Requests : lane'[q] # NoLane => lane'[q] \in busy' /\ keys'[lane'[q]] = Key[q]
      BY <1>1, <1>2, <1>4, <2>1 DEF PoolInv, LanesHeld
    <2>4. \A m \in busy' : \E q \in Requests : lane'[q] = m
      <3> SUFFICES ASSUME NEW m \in busy' PROVE \E q \in Requests : lane'[q] = m
        OBVIOUS
      <3>1. CASE m = l
        BY <1>4, <3>1
      <3>2. CASE m # l
        <4>1. PICK q \in Requests : lane[q] = m
          BY <1>1, <3>2 DEF PoolInv, LanesHeld
        <4>2. q # r
          BY <1>1, <3>2, <4>1, PoolAssumption DEF PoolInv, PoolTypes, LanesHeld
        <4> QED
          BY <1>4, <4>1, <4>2
      <3> QED
        BY <3>1, <3>2
    <2>5. \A p, q \in Requests : lane'[p] # NoLane /\ lane'[p] = lane'[q] => p = q
      BY <1>4, <2>1 DEF PoolInv, LanesHeld
    <2>6. \A m \in Lanes \ busy' : keys'[m] = NoKey
      BY <1>1, <1>4 DEF PoolInv, LanesHeld
    <2> QED
      BY <2>2, <2>3, <2>4, <2>5, <2>6, Zenon DEF LanesHeld
  <1>7. QueueExact'
    <2>1. OnceInQueue'
      <3> SUFFICES ASSUME NEW i \in DOMAIN waiting', NEW j \in DOMAIN waiting', i < j
                   PROVE  waiting'[i] # waiting'[j]
        BY <1>3 DEF OnceInQueue, Shrunk
      <3>1. PICK k \in DOMAIN waiting, m \in DOMAIN waiting :
               k < m /\ waiting[k] = waiting'[i] /\ waiting[m] = waiting'[j]
        BY <1>3 DEF Shrunk
      <3> QED
        BY <3>1 DEF PoolInv, PoolTypes, QueueExact, OnceInQueue
    <2>2. \A q \in Range(waiting') : q \in Range(waiting) /\ q \in Requests /\ q # r
      BY <1>3 DEF Shrunk, Range
    <2>3. \A q \in Range(waiting') : state'[q] \in InQueue \cup {"leaving"}
      BY <1>4, <2>2 DEF PoolInv, QueueExact
    <2>4. \A q \in Requests : state'[q] \in InQueue => q \in Range(waiting')
      BY <1>3, <1>4 DEF PoolInv, QueueExact, InQueue
    <2> QED
      BY <2>1, <2>3, <2>4 DEF QueueExact, Range
  <1>8. OldestOnly'
    <2>1. ASSUME NEW p \in Requests, NEW q \in Requests, p # q, Key[p] = Key[q], Key[p] # NoKey,
                 state'[p] \in {"preparing", "acquiring", "running"}
          PROVE  lane'[q] = NoLane
      <3>1. state[p] \in {"preparing", "acquiring", "running"}
        BY <1>1, <1>4, <2>1
      <3>2. CASE q # r
        BY <1>4, <2>1, <3>1, <3>2 DEF PoolInv, OldestOnly
      <3>3. CASE q = r
        <4>1. state[p] # "running"
          BY <1>1, <2>1, <3>3 DEF PoolInv, OldestOnly, LanesHeld
        <4>2. p \in Range(waiting) /\ q \in Range(waiting)
          BY <1>1, <3>1, <3>3, <4>1 DEF PoolInv, QueueExact, InQueue
        <4>3. PICK i \in DOMAIN waiting, j \in DOMAIN waiting : waiting[i] = p /\ waiting[j] = q
          BY <4>2 DEF Range
        <4>4. i \in Nat /\ j \in Nat /\ i # j
          BY <2>1, <4>3 DEF PoolInv, PoolTypes
        <4>5. i < j \/ j < i
          BY <4>4
        <4> QED
          BY <1>1, <2>1, <3>1, <3>3, <4>1, <4>3, <4>5 DEF PoolInv, OldestOnly
      <3> QED
        BY <3>2, <3>3
    <2>2. ASSUME NEW i \in DOMAIN waiting', NEW j \in DOMAIN waiting', i < j,
                 Key[waiting'[i]] = Key[waiting'[j]], Key[waiting'[j]] # NoKey
          PROVE  state'[waiting'[j]] \notin {"preparing", "acquiring"}
      <3>1. PICK k \in DOMAIN waiting, m \in DOMAIN waiting :
               k < m /\ waiting[k] = waiting'[i] /\ waiting[m] = waiting'[j]
        BY <1>3, <2>2 DEF Shrunk
      <3>2. waiting[m] \in Requests /\ waiting[m] # r
        BY <1>3, <2>2, <3>1 DEF PoolInv, PoolTypes, Range
      <3> QED
        BY <1>4, <2>2, <3>1, <3>2 DEF PoolInv, OldestOnly
    <2> QED
      BY <2>1, <2>2 DEF OldestOnly
  <1> QED
    BY <1>5, <1>6, <1>7, <1>8 DEF PoolInv

LEMMA Releases == ASSUME PoolInv, NEW r \in Requests, Release(r) PROVE PoolInv'
  <1>1. /\ busy' = busy \ {lane[r]} /\ keys' = [keys EXCEPT ![lane[r]] = NoKey]
        /\ lane' = [lane EXCEPT ![r] = NoLane] /\ state' = [state EXCEPT ![r] = "ended"]
        /\ waiting' = waiting /\ state[r] = "running"
    BY DEF Release
  <1>2. lane[r] \in Lanes /\ lane[r] # NoLane /\ NoLane \notin Lanes
    BY <1>1, PoolAssumption DEF PoolInv, PoolTypes, LanesHeld
  <1>3. /\ \A q \in Requests : state'[q] = IF q = r THEN "ended" ELSE state[q]
        /\ \A q \in Requests : lane'[q] = IF q = r THEN NoLane ELSE lane[q]
        /\ \A m \in Lanes : keys'[m] = IF m = lane[r] THEN NoKey ELSE keys[m]
    BY <1>1, <1>2 DEF PoolInv, PoolTypes
  <1>4. PoolTypes'
    BY <1>1, <1>2 DEF PoolInv, PoolTypes, HandlerStates
  <1>5. LanesHeld'
    <2>1. \A q \in Requests : q # r => lane[q] # lane[r]
      BY <1>2 DEF PoolInv, LanesHeld
    <2>2. \A m \in Lanes \ busy' : keys'[m] = NoKey
      BY <1>1, <1>3 DEF PoolInv, LanesHeld
    <2>3. \A m \in busy' : \E q \in Requests : lane'[q] = m
      <3> SUFFICES ASSUME NEW m \in busy' PROVE \E q \in Requests : lane'[q] = m
        OBVIOUS
      <3>1. PICK q \in Requests : lane[q] = m
        BY <1>1 DEF PoolInv, LanesHeld
      <3> QED
        BY <1>1, <1>3, <3>1
    <2>4. \A q \in Requests : lane'[q] # NoLane => lane'[q] \in busy' /\ keys'[lane'[q]] = Key[q]
      BY <1>1, <1>3, <2>1 DEF PoolInv, LanesHeld, PoolTypes
    <2>5. \A q \in Requests : state'[q] = "running" <=> lane'[q] # NoLane
      BY <1>3 DEF PoolInv, LanesHeld
    <2>6. \A p, q \in Requests : lane'[p] # NoLane /\ lane'[p] = lane'[q] => p = q
      BY <1>3 DEF PoolInv, LanesHeld
    <2> QED
      BY <2>2, <2>3, <2>4, <2>5, <2>6, Zenon DEF LanesHeld
  <1>6. \A q \in Range(waiting) : q \in Requests /\ q # r
    BY <1>1 DEF PoolInv, PoolTypes, QueueExact, Range, InQueue
  <1>7. QueueExact'
    BY <1>1, <1>3, <1>6 DEF PoolInv, QueueExact, OnceInQueue, Range, InQueue
  <1>8. OldestOnly'
    <2>1. \A j \in DOMAIN waiting : waiting[j] \in Requests /\ waiting[j] # r
      BY <1>6 DEF Range
    <2> QED
      BY <1>1, <1>3, <2>1 DEF PoolInv, OldestOnly
  <1> QED
    BY <1>4, <1>5, <1>7, <1>8 DEF PoolInv

LEMMA PoolSteps == PoolInv /\ [Next]_vars => PoolInv'
  <1> SUFFICES ASSUME PoolInv, [Next]_vars PROVE PoolInv'
    OBVIOUS
  <1>0. waiting \in Seq(Requests) /\ OnceInQueue
    BY DEF PoolInv, PoolTypes, QueueExact
  <1>1. ASSUME NEW r \in Requests, TurnComes(r) PROVE PoolInv'
    <2>1. /\ UNCHANGED <<waiting, keys, busy, lane>> /\ state[r] = "turn" /\ GroupReady(r)
          /\ state' = [state EXCEPT ![r] = "preparing"]
      BY <1>1 DEF TurnComes
    <2>2. r \in Range(waiting) /\ Shrunk
      BY <1>0, <2>1, KeptQueue DEF PoolInv, QueueExact, InQueue
    <2> QED
      BY <2>1, <2>2, HandlerMoves DEF HandlerStates, InQueue
  <1>2. ASSUME NEW r \in Requests, Cancelled(r) PROVE PoolInv'
    <2>1. /\ UNCHANGED <<keys, busy, lane>> /\ state[r] \in {"turn", "acquiring"}
          /\ state' = [state EXCEPT ![r] = "leaving"]
          /\ UNCHANGED waiting \/ EraseWaiter(r)
      BY <1>2 DEF Cancelled
    <2>2. Shrunk /\ Range(waiting) \ {r} \subseteq Range(waiting')
      BY <1>0, <2>1, KeptQueue, Erasing
    <2> QED
      BY <2>1, <2>2, HandlerMoves DEF HandlerStates, InQueue
  <1>3. ASSUME NEW r \in Requests, Prepared(r) \/ AskPrepare(r) \/ Reject(r) PROVE PoolInv'
    <2>1. /\ UNCHANGED <<waiting, keys, busy, lane>> /\ state[r] \in {"preparing", "acquiring"}
          /\ \E s \in {"preparing", "acquiring", "leaving"} : state' = [state EXCEPT ![r] = s]
      BY <1>3 DEF Prepared, AskPrepare, Reject
    <2>2. r \in Range(waiting) /\ Shrunk
      BY <1>0, <2>1, KeptQueue DEF PoolInv, QueueExact, InQueue
    <2>3. PICK s \in {"preparing", "acquiring", "leaving"} : state' = [state EXCEPT ![r] = s]
      BY <2>1
    <2> QED
      BY <2>1, <2>2, <2>3, HandlerMoves DEF HandlerStates, InQueue
  <1>4. ASSUME NEW r \in Requests, DropTicket(r) PROVE PoolInv'
    <2>1. /\ UNCHANGED <<keys, busy, lane>> /\ state[r] = "leaving" /\ EraseWaiter(r)
          /\ state' = [state EXCEPT ![r] = "ended"]
      BY <1>4 DEF DropTicket
    <2>2. Shrunk /\ r \notin Range(waiting') /\ Range(waiting) \ {r} \subseteq Range(waiting')
      BY <1>0, <2>1, Erasing
    <2> QED
      BY <2>1, <2>2, HandlerMoves DEF HandlerStates, InQueue
  <1>5. CASE UNCHANGED <<waiting, keys, busy, state, lane>>
    BY <1>5 DEF PoolInv, PoolTypes, LanesHeld, QueueExact, OnceInQueue, OldestOnly
  <1>6. ASSUME NEW r \in Requests, Disconnect(r) PROVE PoolInv'
    BY <1>5, <1>6 DEF Disconnect
  <1> QED
    BY <1>1, <1>2, <1>3, <1>4, <1>5, <1>6, Enqueues, Admits, Releases DEF Next, Step, vars

-----------------------------------------------------------------------------
(* What the server relies on                                                *)

LEMMA PoolIsExact == PoolInv => PoolExact
  <1> SUFFICES ASSUME PoolInv PROVE PoolExact
    OBVIOUS
  <1>1. ASSUME NEW l \in Lanes
        PROVE  /\ l \in busy <=> \E r \in Requests : lane[r] = l
               /\ \A r, q \in Requests : lane[r] = l /\ lane[q] = l => r = q
               /\ keys[l] = (IF l \in busy
                             THEN Key[CHOOSE r \in Requests : lane[r] = l] ELSE NoKey)
    <2>1. l # NoLane
      BY PoolAssumption
    <2>2. /\ l \in busy <=> \E r \in Requests : lane[r] = l
          /\ \A r, q \in Requests : lane[r] = l /\ lane[q] = l => r = q
      BY <2>1 DEF PoolInv, LanesHeld
    <2>3. CASE l \in busy
      <3> DEFINE h == CHOOSE r \in Requests : lane[r] = l
      <3>1. h \in Requests /\ lane[h] = l
        BY <2>2, <2>3
      <3> HIDE DEF h
      <3>2. keys[l] = Key[h]
        BY <2>1, <3>1 DEF PoolInv, LanesHeld
      <3> QED
        BY <2>2, <2>3, <3>2 DEF h
    <2>4. CASE l \notin busy
      BY <2>2, <2>4 DEF PoolInv, LanesHeld
    <2> QED
      BY <2>3, <2>4
  <1>2. /\ \A r \in Range(waiting) : state[r] \in {"turn", "preparing", "acquiring", "leaving"}
        /\ \A i, j \in DOMAIN waiting : waiting[i] = waiting[j] => i = j
    BY DEF PoolInv, QueueExact, OnceInQueue, InQueue
  <1> QED
    BY <1>1, <1>2 DEF PoolExact

LEMMA PoolKeepsTurns == PoolInv => TurnKept
  <1> SUFFICES ASSUME PoolInv, NEW r \in Requests, NEW q \in Requests,
                      r # q, Key[r] = Key[q], Key[r] # NoKey,
                      state[r] \in {"preparing", "acquiring", "running"}
               PROVE  /\ lane[q] = NoLane
                      /\ q \in Range(waiting) /\ state[r] # "running" => Position(r) < Position(q)
    BY DEF TurnKept
  <1>1. lane[q] = NoLane
    BY DEF PoolInv, OldestOnly
  <1>2. ASSUME q \in Range(waiting), state[r] # "running" PROVE Position(r) < Position(q)
    <2>1. r \in Range(waiting)
      BY <1>2 DEF PoolInv, QueueExact, InQueue
    <2>2. /\ Position(r) \in DOMAIN waiting /\ waiting[Position(r)] = r
          /\ Position(q) \in DOMAIN waiting /\ waiting[Position(q)] = q
      BY <1>2, <2>1, PositionOf
    <2>3. ~(Position(q) < Position(r))
      BY <1>2, <2>2 DEF PoolInv, OldestOnly
    <2>4. Position(q) \in Nat /\ Position(r) \in Nat /\ Position(q) # Position(r)
      BY <2>2 DEF PoolInv, PoolTypes
    <2> QED
      BY <2>3, <2>4
  <1> QED
    BY <1>1, <1>2

\* A lane is busy exactly while one handler runs on it, it carries the key of
\* the conversation that handler runs, and the queue of raw ticket pointers
\* (kvmem-lane-pool.h, waiting_) holds live tickets only, each once.
THEOREM PoolIsConsistent == Spec => []PoolExact
  BY PoolStarts, PoolSteps, PoolIsExact, PTL DEF Spec

\* From the return of wait_turn until the lease is given back no other request
\* of the conversation runs, and until the lease is taken none is ahead of it,
\* though the input is prepared outside the mutex of the pool.
THEOREM TurnsAreKept == Spec => []TurnKept
  BY PoolStarts, PoolSteps, PoolKeepsTurns, PTL DEF Spec

-----------------------------------------------------------------------------
(* The order of arrival                                                     *)

\* The queue is in the order of arrival, which is an order of the requests that
\* have arrived; and whoever waits for a lane is marked ready.
ArrivalsOK ==
    /\ earlier \in [Requests -> SUBSET Requests]
    /\ \A r, q \in Requests : q \in earlier[r] => state[q] # "new" /\ r \notin earlier[q]
    /\ \A i, j \in DOMAIN waiting : i < j => waiting[i] \in earlier[waiting[j]]
    /\ \A r \in Requests : state[r] = "acquiring" => r \in ready

LEMMA ArrivalsStart == Init => ArrivalsOK
  BY DEF Init, ArrivalsOK

\* A request arrives: all that came before it are earlier, it is earlier than none.
LEMMA ArrivalsGrow ==
  ASSUME PoolInv, ArrivalsOK, NEW r \in Requests, Enqueue(r)
  PROVE  ArrivalsOK'
  <1> DEFINE came == {q \in Requests : state[q] # "new"}
  <1>1. /\ waiting' = Append(waiting, r) /\ state' = [state EXCEPT ![r] = "turn"]
        /\ earlier' = [earlier EXCEPT ![r] = came] /\ ready' = ready /\ state[r] = "new"
    BY DEF Enqueue
  <1>2. /\ \A q \in Requests : state'[q] = IF q = r THEN "turn" ELSE state[q]
        /\ earlier' \in [Requests -> SUBSET Requests]
        /\ \A q \in Requests : earlier'[q] = IF q = r THEN came ELSE earlier[q]
    BY <1>1 DEF PoolInv, PoolTypes, ArrivalsOK
  <1>3. \A p, q \in Requests : q \in earlier'[p] => state'[q] # "new" /\ p \notin earlier'[q]
    <2> SUFFICES ASSUME NEW p \in Requests, NEW q \in Requests, q \in earlier'[p]
                 PROVE  state'[q] # "new" /\ p \notin earlier'[q]
      OBVIOUS
    <2>1. CASE p = r
      <3>1. q # r /\ state[q] # "new" /\ earlier'[q] = earlier[q]
        BY <1>1, <1>2, <2>1
      <3>2. r \notin earlier[q]
        BY <1>1, <3>1 DEF ArrivalsOK
      <3> QED
        BY <1>2, <2>1, <3>1, <3>2
    <2>2. CASE p # r
      <3>1. q \in earlier[p] /\ state[q] # "new" /\ p \notin earlier[q] /\ q # r
        BY <1>1, <1>2, <2>2 DEF ArrivalsOK
      <3> QED
        BY <1>2, <3>1
    <2> QED
      BY <2>1, <2>2
  <1>4. /\ Len(waiting) \in Nat /\ DOMAIN waiting = 1 .. Len(waiting)
        /\ DOMAIN waiting' = 1 .. Len(waiting) + 1 /\ waiting'[Len(waiting) + 1] = r
        /\ \A i \in DOMAIN waiting : waiting'[i] = waiting[i] /\ waiting[i] \in Requests
    BY <1>1 DEF PoolInv, PoolTypes
  <1>5. \A i \in DOMAIN waiting : waiting[i] \in came /\ waiting[i] # r
    BY <1>1, <1>4 DEF PoolInv, QueueExact, InQueue, Range
  <1>6. \A i, j \in DOMAIN waiting' : i < j => waiting'[i] \in earlier'[waiting'[j]]
    <2> SUFFICES ASSUME NEW i \in DOMAIN waiting', NEW j \in DOMAIN waiting', i < j
                 PROVE  waiting'[i] \in earlier'[waiting'[j]]
      OBVIOUS
    <2>1. i \in DOMAIN waiting
      BY <1>4
    <2>2. CASE j = Len(waiting) + 1
      BY <1>2, <1>4, <1>5, <2>1, <2>2
    <2>3. CASE j # Len(waiting) + 1
      <3>1. j \in DOMAIN waiting
        BY <1>4, <2>3
      <3> QED
        BY <1>2, <1>4, <1>5, <2>1, <3>1 DEF ArrivalsOK
    <2> QED
      BY <2>2, <2>3
  <1>7. \A q \in Requests : state'[q] = "acquiring" => q \in ready'
    BY <1>1, <1>2 DEF ArrivalsOK
  <1> QED
    BY <1>2, <1>3, <1>6, <1>7 DEF ArrivalsOK

\* Every other step takes at most some requests out of the queue.
LEMMA ArrivalsStay ==
  ASSUME PoolInv, ArrivalsOK, Shrunk, earlier' = earlier,
         NEW r \in Requests, NEW s \in HandlerStates \ {"new"}, state' = [state EXCEPT ![r] = s],
         ready \ {r} \subseteq ready', s = "acquiring" => r \in ready'
  PROVE  ArrivalsOK'
  <1>1. \A q \in Requests : state'[q] = IF q = r THEN s ELSE state[q]
    BY DEF PoolInv, PoolTypes
  <1>2. \A i, j \in DOMAIN waiting' : i < j => waiting'[i] \in earlier[waiting'[j]]
    <2> SUFFICES ASSUME NEW i \in DOMAIN waiting', NEW j \in DOMAIN waiting', i < j
                 PROVE  waiting'[i] \in earlier[waiting'[j]]
      OBVIOUS
    <2>1. PICK k \in DOMAIN waiting, l \in DOMAIN waiting :
             k < l /\ waiting[k] = waiting'[i] /\ waiting[l] = waiting'[j]
      BY DEF Shrunk
    <2> QED
      BY <2>1 DEF ArrivalsOK
  <1>3. \A q \in Requests : state'[q] = "acquiring" => q \in ready'
    BY <1>1 DEF ArrivalsOK
  <1>4. \A p, q \in Requests : q \in earlier[p] => state'[q] # "new" /\ p \notin earlier[q]
    BY <1>1 DEF ArrivalsOK
  <1> QED
    BY <1>2, <1>3, <1>4 DEF ArrivalsOK

LEMMA ArrivalSteps == PoolInv /\ ArrivalsOK /\ [Next]_vars => ArrivalsOK'
  <1> SUFFICES ASSUME PoolInv, ArrivalsOK, [Next]_vars PROVE ArrivalsOK'
    OBVIOUS
  <1>0. waiting \in Seq(Requests) /\ OnceInQueue
    BY DEF PoolInv, PoolTypes, QueueExact
  <1>1. ASSUME NEW r \in Requests,
               TurnComes(r) \/ Cancelled(r) \/ Prepared(r) \/ AskPrepare(r) \/ DropTicket(r)
                 \/ Release(r) \/ Reject(r)
        PROVE  ArrivalsOK'
    <2>1. /\ earlier' = earlier
          /\ UNCHANGED waiting \/ EraseWaiter(r)
          /\ ready \ {r} \subseteq ready'
          /\ \E s \in {"preparing", "acquiring", "leaving", "ended"} :
                state' = [state EXCEPT ![r] = s] /\ (s = "acquiring" => r \in ready')
      BY <1>1 DEF TurnComes, Cancelled, Prepared, AskPrepare, DropTicket, Release, Reject
    <2>2. Shrunk
      BY <1>0, <2>1, KeptQueue, Erasing
    <2>3. PICK s \in {"preparing", "acquiring", "leaving", "ended"} :
             state' = [state EXCEPT ![r] = s] /\ (s = "acquiring" => r \in ready')
      BY <2>1
    <2>4. s \in HandlerStates \ {"new"}
      BY DEF HandlerStates
    <2> QED
      BY <2>1, <2>2, <2>3, <2>4, ArrivalsStay
  <1>2. ASSUME NEW r \in Requests, NEW l \in Selectable(r), Admit(r, l) PROVE ArrivalsOK'
    <2>1. /\ earlier' = earlier /\ EraseWaiter(r) /\ ready' = ready
          /\ state' = [state EXCEPT ![r] = "running"]
      BY <1>2 DEF Admit
    <2>2. Shrunk /\ "running" \in HandlerStates \ {"new"}
      BY <1>0, <2>1, Erasing DEF HandlerStates
    <2> QED
      BY <2>1, <2>2, ArrivalsStay
  <1>3. ASSUME NEW r \in Requests, Disconnect(r) PROVE ArrivalsOK'
    BY <1>3 DEF Disconnect, ArrivalsOK
  <1>4. CASE UNCHANGED vars
    BY <1>4 DEF vars, ArrivalsOK
  <1> QED
    BY <1>1, <1>2, <1>3, <1>4, ArrivalsGrow DEF Next, Step

\* Requests take their lanes in the order of their arrival, but for those still
\* preparing and for lanes that do not suit the earlier one; the turn of a
\* request, once it came, lasts until it has a lane (acquire, group_ready).
THEOREM AdmittedInOrder == Spec => ArrivalOrder
  <1>1. PoolInv /\ ArrivalsOK /\ [Next]_vars =>
           \A r, q \in Requests :
             lane[r] = NoLane /\ lane'[r] # NoLane /\ q \in earlier[r] =>
                /\ state[q] = "acquiring" => lane'[r] \notin Suitable[q]
                /\ Key[q] = Key[r] /\ Key[r] # NoKey => state[q] \in {"leaving", "ended"}
    <2> SUFFICES ASSUME PoolInv, ArrivalsOK, [Next]_vars, NEW r \in Requests, NEW q \in Requests,
                        lane[r] = NoLane, lane'[r] # NoLane, q \in earlier[r]
                 PROVE  /\ state[q] = "acquiring" => lane'[r] \notin Suitable[q]
                        /\ Key[q] = Key[r] /\ Key[r] # NoKey => state[q] \in {"leaving", "ended"}
      OBVIOUS
    <2>1. \E l \in Selectable(r) : Admit(r, l)
      <3>1. PICK p \in Requests : \/ \E l \in Selectable(p) : Admit(p, l)
                                 \/ lane' = [lane EXCEPT ![p] = NoLane]
                                 \/ UNCHANGED lane
        BY DEF Next, Step, vars, TurnComes, Cancelled, Prepared, AskPrepare, DropTicket, Release,
               Enqueue, Reject, Disconnect
      <3>2. lane' # [lane EXCEPT ![p] = NoLane] /\ lane' # lane
        BY DEF PoolInv, PoolTypes
      <3>3. PICK l \in Selectable(p) : Admit(p, l)
        BY <3>1, <3>2
      <3>4. lane' = [lane EXCEPT ![p] = l]
        BY <3>3 DEF Admit
      <3>5. p = r
        BY <3>4 DEF PoolInv, PoolTypes
      <3> QED
        BY <3>3, <3>5
    <2>2. PICK l \in Selectable(r) : Admit(r, l)
      BY <2>1
    <2>3. /\ First(r) /\ r \in Range(waiting) /\ l \notin busy /\ l \in Lanes /\ lane'[r] = l
          /\ state[r] = "acquiring" /\ GroupReady(r)
      BY <2>2, PoolAssumption DEF Admit, First, Admissible, Selectable, PoolInv, PoolTypes
    <2>4. q # r /\ r \notin earlier[q] /\ state[q] # "new"
      BY DEF ArrivalsOK
    <2>5. Position(r) \in DOMAIN waiting /\ waiting[Position(r)] = r
      BY <2>3, PositionOf
    <2>6. ASSUME q \in Range(waiting)
          PROVE  /\ Position(q) \in DOMAIN waiting /\ waiting[Position(q)] = q
                 /\ Position(q) < Position(r)
      <3>1. Position(q) \in DOMAIN waiting /\ waiting[Position(q)] = q
        BY <2>6, PositionOf
      <3>2. ~(Position(r) < Position(q))
        BY <2>4, <2>5, <3>1 DEF ArrivalsOK
      <3>3. Position(q) \in Nat /\ Position(r) \in Nat /\ Position(q) # Position(r)
        BY <2>4, <2>5, <3>1 DEF PoolInv, PoolTypes
      <3> QED
        BY <3>1, <3>2, <3>3
    <2>7. ASSUME state[q] = "acquiring", l \in Suitable[q] PROVE FALSE
      <3>1. q \in Range(waiting) /\ q \in ready /\ l \in Selectable(q)
        BY <2>3, <2>7 DEF PoolInv, QueueExact, InQueue, ArrivalsOK, Selectable
      <3>2. GroupReady(q)
        <4> SUFFICES ASSUME Key[q] # NoKey
                     PROVE  /\ \A m \in Lanes : keys[m] # Key[q]
                            /\ \A i \in 1 .. Position(q) - 1 : Key[waiting[i]] # Key[q]
          BY DEF GroupReady
        <4>1. ASSUME NEW m \in Lanes, keys[m] = Key[q] PROVE FALSE
          <5>1. PICK p \in Requests : lane[p] = m /\ keys[lane[p]] = Key[p] /\ lane[p] # NoLane
            BY <4>1, PoolAssumption DEF PoolInv, LanesHeld
          <5>2. p # q
            BY <2>7, <5>1 DEF PoolInv, LanesHeld
          <5> QED
            BY <2>7, <4>1, <5>1, <5>2 DEF PoolInv, OldestOnly
        <4>2. ASSUME NEW i \in 1 .. Position(q) - 1, Key[waiting[i]] = Key[q] PROVE FALSE
          <5>1. i \in DOMAIN waiting /\ i < Position(q)
            BY <2>6, <3>1 DEF PoolInv, PoolTypes
          <5> QED
            BY <2>6, <2>7, <3>1, <4>2, <5>1 DEF PoolInv, OldestOnly
        <4> QED
          BY <4>1, <4>2
      <3>3. Position(r) <= Position(q)
        BY <2>3, <3>1, <3>2 DEF First, Admissible
      <3> QED
        BY <2>5, <2>6, <3>1, <3>3 DEF PoolInv, PoolTypes
    <2>8. ASSUME Key[q] = Key[r], Key[r] # NoKey PROVE state[q] \in {"leaving", "ended"}
      <3>1. q \notin Range(waiting)
        <4> SUFFICES ASSUME q \in Range(waiting) PROVE FALSE
          OBVIOUS
        <4>1. Position(q) \in 1 .. Position(r) - 1
          BY <2>5, <2>6 DEF PoolInv, PoolTypes
        <4> QED
          BY <2>3, <2>6, <2>8, <4>1 DEF GroupReady
      <3>2. state[q] \notin InQueue
        BY <3>1 DEF PoolInv, QueueExact
      <3>3. state[q] # "running"
        BY <2>3, <2>4, <2>8 DEF PoolInv, OldestOnly, LanesHeld
      <3> QED
        BY <2>4, <3>2, <3>3 DEF PoolInv, PoolTypes, HandlerStates, InQueue
    <2> QED
      BY <2>3, <2>7, <2>8
  <1> QED
    BY <1>1, PoolStarts, PoolSteps, ArrivalsStart, ArrivalSteps, PTL DEF Spec, ArrivalOrder

===============================================================================
