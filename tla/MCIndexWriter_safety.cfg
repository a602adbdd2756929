SPECIFICATION Spec
CONSTANTS
    Docs = {1, 5}
    U32 = 4
    BatchSize = 2
    MinMerge = 2
    MaxBatch = 2
    MaxLog = 4
    MaxCrashes = 1
INVARIANTS
    WriterInv
    DocsConserved
    NothingPublishedTwice
    CommitCovers
    HiddenByLoggedDelete
