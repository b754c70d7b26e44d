CONSTANTS
    Own = 2
    MaxEpoch = 4
    Sessions = {s1, s2}
    StagingLifetime = 2
    Interval = 3
    DrainLimits = {{}, {0}, {2}}
    RefreshLimit = 1
    CommitBy = 1
    MaxCallers = 1
SPECIFICATION FairSpec
INVARIANTS
    RetirementIsTrue
PROPERTIES
    ForwardOnly
    RetirementComes
