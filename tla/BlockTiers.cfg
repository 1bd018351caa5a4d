SPECIFICATION Spec
CONSTANTS
    MaxBlocks = 4
    BlockRows = 2
    GpuSlots = 2
    CpuSlots = 1
    NvmeSlots = 1
    MaxVersion = 4
    MaxFaults = 1
INVARIANTS SlotsExact ActiveIsLast ResidentBytes
CHECK_DEADLOCK FALSE
