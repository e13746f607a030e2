SPECIFICATION Spec
CONSTANTS
    Rows <- MCRows
    FetchLimit = 4
    ServerLimit = 2
    StoredLimit = 2
    Sessions <- AllSessions
    Alphabet <- OrderAlphabet
    MaxSteps = 3
    LongSessions = {}
    LongAlphabet = {}
INVARIANT
    OrderKept
CHECK_DEADLOCK FALSE
