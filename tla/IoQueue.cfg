\* Two workers, one waiting caller, three jobs over the limits, cancellation and
\* shutdown.
SPECIFICATION FairSpec
CONSTANTS
    j1 = j1
    j2 = j2
    j3 = j3
    NoJob = NoJob
    Jobs = {j1, j2, j3}
    Workers = {w1, w2}
    Callers = {c1}
    JobBytes <- MCBytes
    MaxJobs = 2
    MaxPinned = 2
CHECK_DEADLOCK FALSE
INVARIANTS
    OutcomeExact
PROPERTIES
    Progress
