CONSTANTS
    Profiles = {pA, pB, pC}
    Launchers = {w1}
    Pids = {i1, i2}
    NoProfile = noProfile
    NoPid = noPid
    Overlap = {}
    Events = {"usage_refresh"}
    MaxEpoch = 2
    MaxVersion = 1
SPECIFICATION Spec
INVARIANTS VaultsPure ReusedServerIsSelected ActiveMatchesSelected
SYMMETRY Symmetry
