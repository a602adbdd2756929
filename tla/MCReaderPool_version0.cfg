SPECIFICATION Spec
CONSTANTS
    t1 = t1
    t2 = t2
    Threads = {t1}
    Queries = {q, r}
    MaxReaders = 2
    CacheSize = 1
    MaxMissed = 0
    MaxPublish = 1
INVARIANT
    ReaderShowsSnapshot
