SPECIFICATION FairSpec
CONSTANTS
    Players = {p}
    Handlers = {h}
    MaxConnects = 2
    MaxVoice <- MCVoice
    MaxRings = 1
INVARIANTS
    TypeOK
    WaiterReachable
    NoGhostCall
    ConfigHeld
PROPERTY
    PlaysReturn
CHECK_DEADLOCK FALSE
