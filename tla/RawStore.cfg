\* Two blocks of two tokens, two NVMe slots, one fault: the three families of
\* writers, the writer thread, truncation and clear.
SPECIFICATION FairSpec
CONSTANTS
    NB = 2
    BT = 2
    Slots = 2
    MaxWrites = 2
    MaxFaults = 1
    None = None
CHECK_DEADLOCK FALSE
INVARIANTS
    RowsCurrent
    MeanExact
PROPERTIES
    FlushExcludesMutation
    CallsReturn
