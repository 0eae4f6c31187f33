SPECIFICATION FairSpec
CONSTANTS
    l1 = l1
    l2 = l2
    Loaders = {l1, l2}
    None = None
    Pieces = 2
    MaxLoads = 4
    MaxFaults = 2
    MaxCrashes = 1
INVARIANTS ServedWhole AtRestWhole
PROPERTY LoadsReturn
CHECK_DEADLOCK FALSE
