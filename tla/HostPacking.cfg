\* Two sealed records packed into one write, every failure.
SPECIFICATION Spec
CONSTANTS
    a = a
    b = b
    c = c
    t1 = t1
    t2 = t2
    v1 = v1
    v2 = v2
    None = None
    Threads = {t1, t2}
    Records = {a, b}
    Size <- MCSize
    Values = {v1, v2}
    RamCapacity = 4
    BatchBytes = 2
    MaxBatch = 2
    PurgeEvery = 2
    Demands = {2}
    Targets = {}
    MaxHandles = 1
    DiskCapacity = 2
SYMMETRY Symmetry
INVARIANTS
    DiskInv
    RefusedOnlyWhenFull
    RecordsExact
PROPERTIES
    LeaseStable
    Implements
