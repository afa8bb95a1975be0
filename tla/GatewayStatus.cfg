CONSTANTS
    Conns = {c1}
    Threads = {t1}
    NoThread = noThread
    Requests = {}
    Statuses = {"active", "idle"}
    QueueSize = 2
    MaxRunning = 2
    MaxCount = 6
    Overlapping = FALSE
SPECIFICATION FairSpec
INVARIANTS RunningTurnCounts NoTurnsAfterTeardown
PROPERTIES TeardownCompletes
