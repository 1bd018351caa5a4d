------------------------------ MODULE KvRecords ------------------------------
(***************************************************************************)
(* What the tiered host KV storage promises the engine (host_kv_storage.   *)
(* hpp): records with a content that only their owner changes, and never   *)
(* while somebody reads them.  Nothing here moves between RAM and disk.    *)
(***************************************************************************)
EXTENDS Naturals

CONSTANTS Records, Values, None

VARIABLES
    value,      \* content of each record; None when it does not exist
    users       \* leases and sources outstanding on it

recordVars == <<value, users>>

Init == /\ value = [r \in Records |-> None]
        /\ users = [r \in Records |-> 0]

Create(r, v) ==
    /\ value[r] = None
    /\ value' = [value EXCEPT ![r] = v]
    /\ UNCHANGED users

\* The owner writes: nobody else may be reading.
Write(r, v) ==
    /\ value[r] # None /\ users[r] = 0
    /\ value' = [value EXCEPT ![r] = v]
    /\ UNCHANGED users

Open(r) ==
    /\ value[r] # None
    /\ users' = [users EXCEPT ![r] = @ + 1]
    /\ UNCHANGED value

\* A handle is dropped; the content goes with the last one.
Close(r) ==
    /\ users[r] > 0
    /\ users' = [users EXCEPT ![r] = @ - 1]
    /\ \/ UNCHANGED value
       \/ users[r] = 1 /\ value' = [value EXCEPT ![r] = None]

Forget(r) ==
    /\ value[r] # None /\ users[r] = 0
    /\ value' = [value EXCEPT ![r] = None]
    /\ UNCHANGED users

Next == \E r \in Records :
            \/ \E v \in Values : Create(r, v) \/ Write(r, v)
            \/ Open(r) \/ Close(r) \/ Forget(r)

Spec == Init /\ [][Next]_recordVars

=============================================================================
