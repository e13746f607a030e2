SPECIFICATION Spec
CONSTANTS
    Sides <- Two
    Combinations <- JoinTwo
    Again <- JoinTwo
    Filtered <- MCFiltered
    Selections <- MCSelections
    MaxSteps = 2
INVARIANT
    ReadsWhatItNames
CHECK_DEADLOCK FALSE
