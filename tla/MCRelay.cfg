\* A session stops when everything has been sent.
CHECK_DEADLOCK FALSE
CONSTANTS
    Keys = {k1, k2}
    Capacity = 2
    Waiters = {w1, w2}
    Failers = {f1}
    Movers = {m1}
    MaxRequests = 3
    MaxEpoch = 2
    MaxWindows = 3
    MaxReplaced = 2
    Bootstraps = {0, 1}
    MaxOffset = 2
    MaxBytes = 3
    MaxInterrupts = 2
    Blocking = {"b"}
    Polled = {"p"}
    EventCapacity = 1
    MaxEvents = 4
SPECIFICATION RelaySpec
INVARIANTS
    OutstandingIsExact
    BytesArriveOnce
    CountersAddUp
PROPERTIES
    WaitersAreReleased
