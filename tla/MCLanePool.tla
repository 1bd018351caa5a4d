------------------------------ MODULE MCLanePool ------------------------------
(* LanePool for TLC: two requests of one conversation and one without a       *)
(* conversation that only one lane suits.                                     *)
EXTENDS LanePool

CONSTANTS a1, a2, x1, L1, L2, A

MCKey == [r \in Requests |-> IF r = x1 THEN NoKey ELSE A]
MCSuitable == [r \in Requests |-> IF r = x1 THEN {L1} ELSE Lanes]
===============================================================================
