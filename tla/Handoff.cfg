\* Updaters end and epochs run out: the run may stop.
CHECK_DEADLOCK FALSE
CONSTANTS
    Updaters = {u1, u2}
    MaxEpoch = 3
    MaxLeases = 1
    MaxCrashes = 2
    Nobody = Nobody
SPECIFICATION FairSpec
INVARIANTS
    EpochsAreUnique
    NobodyIsCutOff
PROPERTIES
    OnlyNeededReplacements
    LeftoversEnd
