CONSTANTS
    Known = {pA}
    New = {pB}
    Windows = {w1, w2}
    Callers = {w2}
    Backgrounds = {b1, b2}
    Nobody = nobody
    MaxJobs = 1
    MaxFaults = 1
SPECIFICATION FairSpec
INVARIANTS TypeOK OneRefreshAtATime FlagMeansWork ForcedChecksAll
PROPERTIES DueProfilesGetChecked
