\* Handlers that do not overlap, every command, downloads and calls that fail.
CONSTANTS
    e1 = e1
    e2 = e2
    e3 = e3
    e4 = e4
    e5 = e5
    a = a
    b = b
    c = c
    x = x
    y = y
    None = None
    Threads = {t1}
    Entries = {e1, e2, e3, e4}
    Ids = {a, b, c}
    Titles = {x, y}
    IdOf <- MCIdOf
    TitleOf <- MCTitleOf
    HistoryCap = 2
    AutoplayLimit = 2
    QueueMax = 1
    LoopChoices = {0, 1}
    BatchMax = 2
    Commands = {"play", "playlist", "skip", "stop", "loop", "remove", "retune", "clear", "botLeft", "autoplay"}
    Faults = {"download", "join", "stream"}

SPECIFICATION FairSpec
PROPERTIES ServesInOrder EveryTrackGetsItsTurn
INVARIANTS HeadOnAir
