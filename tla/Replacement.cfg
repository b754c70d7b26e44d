\* A transaction that has returned takes no further step.
CHECK_DEADLOCK FALSE
CONSTANTS
    SetupBudgets = {0, 1, 3}
    DrainBudgets = {{}, {0}, {2}}
    PollInterval = 2
SPECIFICATION FairTransaction
INVARIANTS
    ReportsAreTrue
    OrderIsKept
PROPERTIES
    AsksAreBounded
    Returns
