CONSTANTS
    Silence = 1
    Budget = 2
    MaxSaid = 2
    Threads = {t1, t2}
    MaxWritten = 2
    Std = {"h1", "h2"}
    Spawners = {"t1", "t2"}
    ArgLength = 4
    MaxChanges = 3
    Top = 5
    CAP = 6
    UNKNOWN = 4
    Limits = {4, 7}
    Sids = {"s1", "s2"}
    Ids = {"u1", "u2"}
    MAX_COMPONENT = 3
    MAX_NAME_BYTES = 3
    MAX_SOCKET_PATH_BYTES = {5}
    MAX_PIPE_NAME_UNITS = 12
    MaxDir = 4
    Pids = {1, 2}
    MaxLength = 6
    Older = {3, 6}
    MaxSet = 2
SPECIFICATION Spec
INVARIANTS
    ChannelTellsAll
    SpawnsAreClean
    PeersAreKnown
    MessagesSurvive
PROPERTIES
    EveryWaitEnds
\* Launches end, and so does what is compared: the run may stop.
CHECK_DEADLOCK FALSE
