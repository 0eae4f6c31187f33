\* Two broadcasts that may overlap, a flood error and a cancellation at any step.
CONSTANTS
    Handlers = {h1, h2}
    Workers = {w1, w2}
    Targets = {i1, i2}
    MaxRetries = 1
    Nobody = Nobody

SPECIFICATION FairSpec
INVARIANTS TypeOK Accounted ServedOnce
PROPERTIES BroadcastEnds

\* Each command is sent once: in the end there may be nothing left to do.
CHECK_DEADLOCK FALSE
