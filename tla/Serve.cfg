\* Three connections for two small pools that others use too, and one pool that
\* is disabled: every outcome of admission, and handlers that end before, during
\* and after the drain budget.
\* A service that returned has nothing left to do: the run may stop.
CHECK_DEADLOCK FALSE
CONSTANTS
    Connections = {c1, c2, c3}
    HandshakeLimit = 0
    ApplicationLimit = 2
    ControlLimit = 1
    MaxOthers = 1
    DrainBudget = 1
SPECIFICATION FairSpec
INVARIANTS
    AdmitsRightly
    ReportIsTrue
PROPERTIES
    DrainEnds
