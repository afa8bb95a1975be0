CONSTANTS
    Slots = {s1, s2}
    MaxProfiles = 2
    MaxChanges = 2
    MaxFaults = 1
SPECIFICATION HomeFairSpec
INVARIANTS HomeTypeOK
PROPERTIES ScreenCatchesUp
CHECK_DEADLOCK FALSE
