CONSTANTS
    Windows = {w1, w2}
    MaxEpoch = 2
    Failures = {"ensure", "snapshot", "kill"}
SPECIFICATION FairSpec
INVARIANTS TypeOK NoLostNotice
PROPERTIES EachReloadAdvances StaleWindowReloads
