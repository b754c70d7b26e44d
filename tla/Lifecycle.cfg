\* Two sessions and one future of each kind: enough for every pair of calls to
\* race with admission, with the last drop and with the deadline.
\* A drained daemon has nothing left to do: the run may stop.
CHECK_DEADLOCK FALSE
CONSTANTS
    Requests = {r1, r2}
    Observers = {o1}
    Selectors = {s1}
    Drainers = {d1}
    TimedDrainers = {t1}
SPECIFICATION FairSpec
INVARIANTS
    ResultsStayTrue
PROPERTIES
    ImplementsGate
    WaitsEnd
