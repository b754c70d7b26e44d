CONSTANTS
    CommitBudget = 3
    ProofBudgets = {0, 1, 4}
    PollInterval = 2
SPECIFICATION FairSpec
INVARIANT
    NotCommittedMeansUnnamed
