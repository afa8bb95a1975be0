CONSTANTS
    Conns = {c1}
    Threads = {t1, t2}
    NoThread = noThread
    Requests = {r1, r2}
    Statuses = {}
    QueueSize = 1
    MaxRunning = 2
    MaxCount = 6
    Overlapping = FALSE
SPECIFICATION Spec
INVARIANTS TypeOK RecordedThreadIsOpened IdleSessionIsFree
SYMMETRY Symmetry
