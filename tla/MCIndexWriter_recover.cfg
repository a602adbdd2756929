SPECIFICATION Spec
CONSTANTS
    Docs = {1, 2}
    U32 = 4
    BatchSize = 2
    MinMerge = 2
    MaxBatch = 1
    MaxLog = 3
    MaxCrashes = 1
INVARIANT
    RecoverRestores
