SPECIFICATION Spec
CONSTANTS
    Sessions = {s1, s2}
    SessionDocs = {1, 3}
    U32 = 2
    MaxLogged = 2
    DocBuffer = 1
    SegmentBuffer = 1
    BatchSize = 2
    MaxSent = 5
    MaxFlushes = 1
    MaxFaults = 1
    Writers = {w1, w2}
    DocSizes = {2, 3}
    DeleteSize = 4
    HeapLimit = 4
    UsizeRange = 12
    MaxEnabled = 2
    MaxDeletes = 1
    Classes = {2, 8}
    MaxBuffers = 2
    RequestSizes = {1, 2, 3, 7, 8}
    PrefixLen = 1
    Pages = {1, 2}
    PageSizes = {2, 3}
    SwapThreshold = 2
    Loaders = {l1, l2}
    IndexSegments = {1, 2}
    LargeSegments = {1}
    TermsOfIndex <- SomeIndexTerms
    IndexTerms = {1, 2, 3, 4}
    MaxCached = 1
    LazyCacheSize = 2
    MaxOperations = 4
    MaxCheckpoints = 2
    MaxCrashes = 2
CHECK_DEADLOCK FALSE
INVARIANTS
    PublishedIsDurable
    CommitsKept
    PipelineExact
    MemoryExact
    CachesAgree
    
PROPERTIES
    FreshStaysFresh
    
