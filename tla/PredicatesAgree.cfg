SPECIFICATION Spec
CONSTANTS
    Rows <- MCRows
    Tests <- FewTests
    Common <- FewTests
    MaxNodes = 2
INVARIANT PredicatesAgree
CHECK_DEADLOCK FALSE
