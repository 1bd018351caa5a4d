\* Where a resident block lacks rows of the history.
SPECIFICATION SSpec
CONSTANTS
    Leases = {}
    BlockTokens = 2
    MaxTokens = 5
    MaxRevision = 6
    MaxView = 3
    DeviceBlocks = 2
    HostBlocks = 2
INVARIANT ResidentComplete
