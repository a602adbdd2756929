SPECIFICATION Spec
CONSTANTS
    Base = 4
    Payloads <- SomePayloads
    BufferLimit = 40
    MaxDocs = 4
CHECK_DEADLOCK FALSE
INVARIANTS
    SearchReadsBack
    
