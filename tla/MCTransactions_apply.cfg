SPECIFICATION FairSpec
CONSTANTS
    t1 = t1
    t2 = t2
    None = None
    Txs <- TwoTxs
    Ids = {1}
    Levels = {"Serializable"}
    BatchSize = 2
    WriteErrors = TRUE
    MaxOps = 2
CHECK_DEADLOCK FALSE
INVARIANTS
    OnlyCommittedData
    
    
    StaleOnlyAtVersionZero
PROPERTIES
    TransactionsEnd
