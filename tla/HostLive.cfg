\* Records of two sizes, in a file that holds one of each, that a batch packs when the
\* headroom is whole and must not pack when another thread holds a part of it; two
\* threads that must wait for each other's relocations, trims.
SPECIFICATION FairSpec
CONSTANTS
    a = a
    b = b
    c = c
    t1 = t1
    t2 = t2
    v1 = v1
    v2 = v2
    None = None
    Threads = {t1, t2}
    Records = {a, c}
    Size <- MCSize
    Values = {v1}
    RamCapacity = 6
    BatchBytes = 3
    MaxBatch = 2
    PurgeEvery = 1
    Demands = {3}
    Targets = {5}
    MaxHandles = 0
    DiskCapacity = 3
INVARIANTS
    PackingFits
PROPERTIES
    Progress
