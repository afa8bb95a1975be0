CONSTANTS
    Calls = {c1, c2, c3}
    Deadlined = {c1}
    Refused = {c2}
    Events = {e1}
    Capacity = 1
    ReadLoop = readLoop
    Owner = owner
    Nobody = nobody
SPECIFICATION FairSpec
INVARIANTS TypeOK
PROPERTIES ImplementsRemoteCalls CallsEnd EventsGetThrough
CHECK_DEADLOCK FALSE
