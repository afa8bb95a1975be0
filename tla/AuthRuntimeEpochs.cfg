CONSTANTS
    Profiles = {pA, pB}
    Launchers = {w1}
    Pids = {i1}
    NoProfile = noProfile
    NoPid = noPid
    Overlap = {"launch"}
    Events = {"copy_in_fails", "refresh_in_switch", "usage_refresh"}
    MaxEpoch = 2
    MaxVersion = 1
SPECIFICATION Spec
INVARIANTS TypeOK EpochNamesOneProfile 
SYMMETRY Symmetry
