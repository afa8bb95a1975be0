CONSTANTS
    Brokers = {b1, b2}
    NoBroker = noBroker
    Windows = {w1, w2}
    Commands = {x1}
SPECIFICATION Spec
INVARIANTS TypeOK LaunchHasServer LoserLeavesNoServer NoLostIdleCheck
SYMMETRY Symmetry
CHECK_DEADLOCK FALSE
