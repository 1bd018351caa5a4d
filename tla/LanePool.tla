------------------------------- MODULE LanePool -------------------------------
(***************************************************************************)
(* Slot admission of the server (tools/kvmem-lane-pool.h) as a request     *)
(* handler drives it (tools/llama-kvmem-server.cpp): enqueue a ticket,     *)
(* wait_turn for the conversation, prepare, acquire a lane, run, release.  *)
(*                                                                         *)
(* Every operation runs under mu_ and is one step.  A waiter re-tests its  *)
(* condition at least every 50 ms, so a wait is a step that becomes        *)
(* possible, never a sleep that must be interrupted.  Which lanes suit a   *)
(* request, and whether its input is prepared, is decided by the select_   *)
(* callback (kvmem_lane_conversations::select).                            *)
(***************************************************************************)
EXTENDS Integers, FiniteSets, Sequences, SequencesExt

CONSTANTS
    Requests, Lanes,
    Key,            \* conversation of each request; NoKey when it has none
    Suitable,       \* lanes select_ may choose for each request
    MaxPrepares,    \* bound: preparations select_ asks of one request
    NoKey, NoLane

ASSUME PoolAssumption ==
    /\ Lanes # {} /\ NoLane \notin Lanes
    /\ Suitable \in [Requests -> (SUBSET Lanes) \ {{}}]
    /\ MaxPrepares \in Nat

VARIABLES
    waiting,    \* waiting_: tickets in order of arrival
    ready,      \* tickets with ready_ set
    keys,       \* keys_ of the busy lanes
    busy,       \* busy_: the lanes taken
    state,      \* where each handler is
    lane,       \* the lease each handler holds
    prepares,   \* how often select_ may still ask for preparation
    gone,       \* requests whose connection is closed
    earlier     \* ghost: the requests that had arrived before each one

vars == <<waiting, ready, keys, busy, state, lane, prepares, gone, earlier>>

Init ==
    /\ waiting = <<>> /\ ready = {} /\ busy = {} /\ gone = {}
    /\ keys = [l \in Lanes |-> NoKey]
    /\ state = [r \in Requests |-> "new"]
    /\ lane = [r \in Requests |-> NoLane]
    /\ prepares = [r \in Requests |-> MaxPrepares]
    /\ earlier = [r \in Requests |-> {}]

Position(r) == CHOOSE i \in DOMAIN waiting : waiting[i] = r

\* A turn that does not look at who came first.
GroupReadyIgnoresQueue(r) ==
    \/ Key[r] = NoKey
    \/ \A l \in Lanes : keys[l] # Key[r]

\* No lane runs the conversation and nobody earlier waits for it.
GroupReady(r) ==
    \/ Key[r] = NoKey
    \/ /\ \A l \in Lanes : keys[l] # Key[r]
       /\ \A i \in 1 .. Position(r) - 1 : Key[waiting[i]] # Key[r]

\* select_(busy_, false) >= 0 when this is not empty.
Selectable(r) == Suitable[r] \ busy

EraseWaiter(r) ==
    waiting' = IF r \in Range(waiting) THEN RemoveAt(waiting, Position(r)) ELSE waiting

-----------------------------------------------------------------------------

Enqueue(r) ==
    /\ state[r] = "new"
    /\ waiting' = Append(waiting, r)
    /\ state' = [state EXCEPT ![r] = "turn"]
    /\ earlier' = [earlier EXCEPT ![r] = {q \in Requests : state[q] # "new"}]
    /\ UNCHANGED <<ready, keys, busy, lane, prepares, gone>>

\* wait_turn returns true.
TurnComes(r) ==
    /\ state[r] = "turn" /\ GroupReady(r) /\ r \notin gone
    /\ state' = [state EXCEPT ![r] = "preparing"]
    /\ UNCHANGED <<waiting, ready, keys, busy, lane, prepares, gone, earlier>>

\* A cancelled handler whose ticket stays queued.
CancelledKeepsTicket(r) ==
    /\ r \in gone /\ state[r] \in {"turn", "acquiring"}
    /\ state' = [state EXCEPT ![r] = "ended"]
    /\ UNCHANGED <<waiting, ready, keys, busy, lane, prepares, gone, earlier>>

\* wait_turn or acquire notices that the connection is closed.  Only a waiter
\* that is not its group's turn yet is erased by wait_turn itself.
Cancelled(r) ==
    /\ r \in gone /\ state[r] \in {"turn", "acquiring"}
    /\ IF state[r] = "turn" /\ GroupReady(r) THEN UNCHANGED waiting ELSE EraseWaiter(r)
    /\ state' = [state EXCEPT ![r] = "leaving"]
    /\ UNCHANGED <<ready, keys, busy, lane, prepares, gone, earlier>>

\* The input is parsed and prepared outside the pool; acquire is entered.
Prepared(r) ==
    /\ state[r] = "preparing"
    /\ ready' = ready \cup {r}
    /\ state' = [state EXCEPT ![r] = "acquiring"]
    /\ UNCHANGED <<waiting, keys, busy, lane, prepares, gone, earlier>>

\* A request sent back for its input that queues up again behind the others.
AskPrepareRequeues(r) ==
    /\ state[r] = "acquiring" /\ r \notin gone /\ prepares[r] > 0
    /\ prepares' = [prepares EXCEPT ![r] = @ - 1]
    /\ ready' = ready \ {r}
    /\ waiting' = Append(RemoveAt(waiting, Position(r)), r)
    /\ state' = [state EXCEPT ![r] = "preparing"]
    /\ UNCHANGED <<keys, busy, lane, gone, earlier>>

\* select_ answers -2: missing input, keep the place in the queue.
AskPrepare(r) ==
    /\ state[r] = "acquiring" /\ r \notin gone /\ prepares[r] > 0
    /\ prepares' = [prepares EXCEPT ![r] = @ - 1]
    /\ ready' = ready \ {r}
    /\ state' = [state EXCEPT ![r] = "preparing"]
    /\ UNCHANGED <<waiting, keys, busy, lane, gone, earlier>>

\* The waiters the scan of acquire would accept.
Admissible == {q \in Range(waiting) : q \in ready /\ GroupReady(q) /\ Selectable(q) # {}}

\* The oldest of them.
First(r) == r \in Admissible /\ \A q \in Admissible : Position(r) <= Position(q)

\* acquire returns a lease.
Admit(r, l) ==
    /\ state[r] = "acquiring" /\ r \notin gone
    /\ First(r) /\ l \in Selectable(r)
    /\ busy' = busy \cup {l} /\ keys' = [keys EXCEPT ![l] = Key[r]]
    /\ EraseWaiter(r)
    /\ lane' = [lane EXCEPT ![r] = l]
    /\ state' = [state EXCEPT ![r] = "running"]
    /\ UNCHANGED <<ready, prepares, gone, earlier>>

\* A request is rejected, or select_ throws: the handler unwinds with its
\* ticket still queued, and still ready if it was.
Reject(r) ==
    /\ state[r] \in {"preparing", "acquiring"}
    /\ state' = [state EXCEPT ![r] = "leaving"]
    /\ UNCHANGED <<waiting, ready, keys, busy, lane, prepares, gone, earlier>>

\* ~ticket.
DropTicket(r) ==
    /\ state[r] = "leaving"
    /\ EraseWaiter(r)
    /\ ready' = ready \ {r}
    /\ state' = [state EXCEPT ![r] = "ended"]
    /\ UNCHANGED <<keys, busy, lane, prepares, gone, earlier>>

\* A release that leaves the conversation on the lane.
ReleaseKeepsKey(r) ==
    /\ state[r] = "running"
    /\ busy' = busy \ {lane[r]}
    /\ lane' = [lane EXCEPT ![r] = NoLane]
    /\ state' = [state EXCEPT ![r] = "ended"]
    /\ UNCHANGED <<waiting, ready, keys, prepares, gone, earlier>>

\* lease::release, by the end of the generation or by ~lease.
Release(r) ==
    /\ state[r] = "running"
    /\ busy' = busy \ {lane[r]} /\ keys' = [keys EXCEPT ![lane[r]] = NoKey]
    /\ lane' = [lane EXCEPT ![r] = NoLane]
    /\ state' = [state EXCEPT ![r] = "ended"]
    /\ UNCHANGED <<waiting, ready, prepares, gone, earlier>>

\* The client goes away.
Disconnect(r) ==
    /\ r \notin gone /\ state[r] # "ended"
    /\ gone' = gone \cup {r}
    /\ UNCHANGED <<waiting, ready, keys, busy, state, lane, prepares, earlier>>

\* What the handler of r does by itself.
Step(r) == \/ TurnComes(r) \/ Cancelled(r) \/ Prepared(r) \/ AskPrepare(r)
           \/ \E l \in Selectable(r) : Admit(r, l)
           \/ DropTicket(r) \/ Release(r)

Next == \E r \in Requests : Step(r) \/ Enqueue(r) \/ Reject(r) \/ Disconnect(r)

Spec == Init /\ [][Next]_vars

\* Handlers keep running, preparations and generations end.
FairSpec == Spec /\ \A r \in Requests : WF_vars(Step(r))

-----------------------------------------------------------------------------
(* Properties                                                               *)

\* A lane is busy for exactly one running handler and carries the key of the
\* conversation it runs; and the queue, which holds raw pointers to tickets of
\* request threads, holds only tickets that still exist, each once.
PoolExact ==
    /\ \A l \in Lanes :
        /\ l \in busy <=> \E r \in Requests : lane[r] = l
        /\ \A r, q \in Requests : lane[r] = l /\ lane[q] = l => r = q
        /\ keys[l] = (IF l \in busy
                      THEN Key[CHOOSE r \in Requests : lane[r] = l] ELSE NoKey)
    /\ \A r \in Range(waiting) :
            state[r] \in {"turn", "preparing", "acquiring", "leaving"}
    /\ \A i, j \in DOMAIN waiting : waiting[i] = waiting[j] => i = j

\* Between wait_turn and the lease no other request of the conversation runs
\* or is ahead in the queue, so what the handler learned about the
\* conversation while it prepared, outside the pool, is still so when it is
\* admitted; and while it runs no other request of the conversation does.
TurnKept ==
    \A r, q \in Requests :
        r # q /\ Key[r] = Key[q] /\ Key[r] # NoKey
          /\ state[r] \in {"preparing", "acquiring", "running"}
        => /\ lane[q] = NoLane
           /\ q \in Range(waiting) /\ state[r] # "running" => Position(r) < Position(q)

\* Who has come back from wait_turn and waits for a lane is never overtaken on a
\* lane that suits him by a request that arrived later, however often either was
\* sent back to prepare its input and whoever gave up in between; and the
\* requests of one conversation are taken in the order of their arrival
\* ("queued requests retain FIFO order", kvmem-lane-pool.h).
ArrivalOrder ==
    [][\A r, q \in Requests :
         lane[r] = NoLane /\ lane'[r] # NoLane /\ q \in earlier[r] =>
            /\ state[q] = "acquiring" => lane'[r] \notin Suitable[q]
            /\ Key[q] = Key[r] /\ Key[r] # NoKey => state[q] \in {"leaving", "ended"}]_vars

\* Every request that entered the queue leaves it, by admission or because it
\* was given up: neither a closed connection, nor a preparation asked again,
\* nor a waiter bound to a busy lane holds the others up for ever.
QueueDrains == \A r \in Requests : state[r] = "turn" ~> state[r] \in {"running", "ended"}

===============================================================================
