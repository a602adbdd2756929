SPECIFICATION Spec
CONSTANTS
    Group = 8
    WordBytes = 2
    MaxGroups = 3
    GALLOP_THRESHOLD = 2
    MinInterval = 4
    Star = 8
    OneChar = 9
    MinPrefixLen = 1
    MaxPerTier = 3
    MaxSegmentSize = 8
    MinToMerge = 2
    MaxToMerge = 3
    SmallSize = 3
    SizeRatio = 2
    MinMergeSize = 2
    TierFull = 2
    MergeFactor = 2
    Length <- Quarters
    Lower <- Lowered
    Stem <- Stemmed
    StopWords = {2}
    MaxTokenLength = 3
    MinGram = 1
    MaxGram = 2
    AND <- And
    OR <- Or
    NOT <- Not
    Space = 7
    MaxQueryDepth = 2
    MaxBoolClauses = 2
    MaxFuzzy = 2
    Letters = {1, 2}
    NumberLists <- SomeNumberLists
    AscendingLists <- SomeAscendingLists
    WordList <- SomeWordList
    Patterns <- SomePatterns
    SizeLists <- SomeSizeLists
    FieldLists <- SomeFieldLists
    PositionLists <- SomePositionLists
    Slops = {0, 1, 2}
    Plans <- SomePlans
    MatchLists <- SomeMatchLists
    PageLimits = {0, 1, 2, 99}
    MarkWord = 5
    NoLimit = 99
    DocIds <- SomeDocIds
    Texts <- SomeTokens
    MaxAdds = 3
    Docs <- SomeDocs
    Vocabulary <- SomeWords
    IdWord = 8
    Jobs <- SomeJobs
    Deletions = {{}, {2}}
    Indexes = {{}, {1, 2, 3, 4}}
CHECK_DEADLOCK FALSE
INVARIANTS
    
    
    MergesSound
    PagesFull
    
    ResultsExact
    
