\* Recursion of PlayNext through downloads, messages and calls that fail.
CONSTANTS
    e1 = e1
    e2 = e2
    e3 = e3
    e4 = e4
    e5 = e5
    a = a
    b = b
    c = c
    x = x
    y = y
    None = None
    Threads = {t1, t2}
    Entries = {e1, e2}
    Ids = {a, b, c}
    Titles = {x, y}
    IdOf <- MCIdOf
    TitleOf <- MCTitleOf
    HistoryCap = 1
    AutoplayLimit = 2
    QueueMax = 1
    LoopChoices = {0, 1}
    BatchMax = 2
    Commands = {"play", "playlist", "skip", "stop", "autoplay"}
    Faults = {"download", "send", "assistant"}

SPECIFICATION FairSpec
PROPERTIES GoroutinesReturn

\* Only so many requests are in Entries: in the end nobody has anything to do.
CHECK_DEADLOCK FALSE
