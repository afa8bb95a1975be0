CONSTANTS
    Sessions = {w1, w2}
    Threads = {t1}
    NoThread = noThread
    NoRecord = noRecord
    NoUpdate = noUpdate
    Unreadable = unreadable
    Empty = empty
    Absent = absent
    Overlap = TRUE
    DiskFails = FALSE
SPECIFICATION Spec
INVARIANTS MirrorsLiveSessions
