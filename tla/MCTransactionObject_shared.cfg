SPECIFICATION Spec
CONSTANTS
    t1 = t1
    t2 = t2
    t3 = t3
    Threads <- AllThreads
    Ids = {1, 2}
    Validates = TRUE
    MaxCalls = 3
SYMMETRY ThreadSymmetry
INVARIANTS
    SharedInv
    CommitsOnce
    AcknowledgedAreCommitted
PROPERTIES
    FinishedIsFinal
