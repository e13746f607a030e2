CONSTANTS
    a = a
    b = b
    Order <- TwoModels
    NameOf <- CaseApart
    Uuids = {a}
    Unnamed = ""
    Fold <- IgnoreCase
    Wanted = {a, b, "Orders", ""}
    Entries = {"t"}
    PageSize = 1
    MaxPages = 3
    Drifts = TRUE
    Volatile = {"topic"}
SPECIFICATION Spec
INVARIANTS
    TypeOK
    ScanIsSound
    ListingIsComplete
    ResolutionIsSound
PROPERTY
    ImplementsReadThrough
