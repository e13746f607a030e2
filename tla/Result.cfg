SPECIFICATION Spec
CONSTANTS
    Bases = {"state", "month", "sales", "x", "y"}
    Measures = {"sales"}
    StoredFields <- MCStoredFields
    Selections <- MCSelections
    Narrowings <- MCNarrowings
    Columns <- MCColumns
    MaxSelects = 2
    MaxDerived = 2
    Requests <- MCRequests
INVARIANTS
    TypeOK
    AnswersAsSelected
    TotalsApart
    NamesAgree
    NeverPartial
    RefusedEarly
