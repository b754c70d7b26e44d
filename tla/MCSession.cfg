CONSTANTS
    Hellos <- Offers
    Messages <- ControlMessages
    MaxFrames = 2
    Own = 1
    Generations = {0, 1, 2}
    Builds = {"own", "other"}
    OwnBuild = "own"
    Buffered = 1
    Pids = {p1, p2, p3}
    OwnUser = {p1, p2}
    NoPid = NoPid
    MaxMoves = 2
    CommitBudget = 3
    ProofBudgets = {0, 1, 4}
    PollInterval = 2
SPECIFICATION Spec
INVARIANTS
    SessionIsAgreed
    AnswersAreTrue
    IoIsSafe
    EvidenceIsReal
    GivesUpRightly
PROPERTIES
    NobodyWaitsForever
\* Sessions, subscriptions and requests end: the run may stop.
CHECK_DEADLOCK FALSE
