SPECIFICATION Spec
CONSTANTS
    Rows <- MCRows
    Tests <- MCTests
    Common <- MCCommon
    MaxNodes = 5
INVARIANTS
    TypeOK
    TiersAgree
    NullsStayOut
CHECK_DEADLOCK FALSE
