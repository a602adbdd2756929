SPECIFICATION FairSpec
CONSTANTS
    c1 = c1
    c2 = c2
    Clients <- BothClients
    TxClients <- BothClients
    Contents = {blank, x}
    Blank = blank
    MaxVersions = 1
    MaxPublish = 3
INVARIANTS
    IndInv
    GuardedVersionsRetained
PROPERTIES
    ImplementsSnapshotStore
    PublicationTerminates
    UnheldCollected
