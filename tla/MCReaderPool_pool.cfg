SPECIFICATION Spec
CONSTANTS
    t1 = t1
    t2 = t2
    Threads <- TwoThreads
    Queries = {q, r}
    MaxReaders = 2
    CacheSize = 1
    MaxMissed = 1
    MaxPublish = 3
SYMMETRY ThreadSymmetry
INVARIANTS
    TypeOK
    SegmentReadersTracked
    CachedReadersFaithful
    AnswersAreSnapshots
