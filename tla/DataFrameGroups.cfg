SPECIFICATION Spec
CONSTANTS
    Rows <- MCRows
    FetchLimit = 4
    ServerLimit = 2
    StoredLimit = 2
    Sessions <- AllSessions
    Alphabet <- GroupAlphabet
    MaxSteps = 2
    LongSessions = {}
    LongAlphabet = {}
INVARIANT
    OneRowPerGroup
CHECK_DEADLOCK FALSE
