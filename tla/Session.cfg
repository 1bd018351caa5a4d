\* Three blocks of two rows, two pages, two host records: open tails, blocks left out
\* and truncated inside, replays from inside a block, every failure and edit.
SPECIFICATION FairSpec
CONSTANTS
    Leases = {}
    BlockTokens = 2
    MaxTokens = 5
    MaxRevision = 6
    MaxView = 3
    DeviceBlocks = 2
    HostBlocks = 2
INVARIANTS
    SessionExact
    HistoryKept
    ViewComplete
PROPERTIES
    PlanKept
    TransactionEnds
