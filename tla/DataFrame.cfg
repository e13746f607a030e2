SPECIFICATION Spec
CONSTANTS
    Rows <- MCRows
    FetchLimit = 4
    ServerLimit = 2
    StoredLimit = 2
    Sessions <- AllSessions
    Alphabet <- FullAlphabet
    MaxSteps = 3
    LongSessions <- LongTopics
    LongAlphabet <- LongWords
INVARIANTS
    TypeOK
    CompleteUnlessWarned
    PreviewComplete
CHECK_DEADLOCK FALSE
