\* Three requests on two lanes: turns, disconnections, rejections, and every
\* request leaves the queue.
SPECIFICATION FairSpec
CONSTANTS
    a1 = a1
    a2 = a2
    x1 = x1
    L1 = L1
    L2 = L2
    A = A
    NoKey = NoKey
    NoLane = NoLane
    Requests = {a1, a2, x1}
    Lanes = {L1, L2}
    Key <- MCKey
    Suitable <- MCSuitable
    MaxPrepares = 1
CHECK_DEADLOCK FALSE
INVARIANTS
    PoolExact
    TurnKept
PROPERTIES
    ArrivalOrder
    QueueDrains
