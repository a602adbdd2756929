SPECIFICATION Spec
CONSTANTS
    t1 = t1
    t2 = t2
    None = None
    Txs <- TwoTxs
    Ids = {1}
    Levels = {"Serializable"}
    BatchSize = 2
    WriteErrors = FALSE
    MaxOps = 1
CHECK_DEADLOCK FALSE
INVARIANT
    NoLostUpdate
