CONSTANTS
    Profiles = {pA, pB}
    Sessions = {w1, w2}
    NoProfile = noProfile
    NoSession = noSession
    Conns = {c1}
    MaxEpoch = 1
    MaxTurns = 1
    Failures = {}
SPECIFICATION FairSpec
INVARIANTS TypeOK NoLostWakeup BlockingCountCurrent NoZombieEntry
PROPERTIES OwnerKeepsPending ImplementsProfileSwitch SettlesWhenIdle
CHECK_DEADLOCK FALSE
