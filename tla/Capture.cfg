SPECIFICATION Spec
CONSTANTS
    Rows = 5
    BT = 2
    UB = 2
    MaxCalls = 4
    MaxTurns = 2
    MaxFaults = 1
INVARIANTS
    MeansExact
    QueryExact
    PackedCurrent
PROPERTIES
    Harvested
CHECK_DEADLOCK FALSE
