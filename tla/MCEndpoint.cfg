\* Everybody may have returned.
CHECK_DEADLOCK FALSE
CONSTANTS
    Binders = {b1, b2, b3}
    Inodes = {1, 2, 3}
    ReuseInodes = FALSE
    Retries = 2
    Publishers = {p1, p2}
    Readers = {r1}
    DeniedRetries = 1
    MaxOps = 3
    MaxLosses = 1
    Callers = {c1, c2, c3}
    MaxCrashes = 2
    MaxU = 15
    Bits = 4
    MaxTime = 12
    Processes = {"l1", "l2"}
    FIRST = 1
    LONGEST = 2
    Allowances = {0, 2}
    MaxCalls = 3
    Limit = 4
    Interval = 1
    Deadlines = {1, 4}
    Runaway = 2
    Longest = 8
SPECIFICATION Spec
INVARIANTS
    EndpointStays
    RecordsAreTrue
    ReplacesOnce
    LockIsTrue
    ExitsAreTrue
    StartsAreTrue
PROPERTIES
    StandDownIsJustified
    EveryCallReturns
