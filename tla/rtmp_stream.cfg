\* Streams of one chat: two handlers that start or stop them, in any order.
CONSTANTS
    Threads = {t1, t2}
    Streams = {s1, s2, s3}
    None = None

SPECIFICATION FairSpec
INVARIANTS NoOrphan
PROPERTIES EntryCleared

\* Each stream object is used once: in the end all of them have exited.
CHECK_DEADLOCK FALSE
