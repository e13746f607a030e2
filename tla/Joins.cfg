SPECIFICATION Spec
CONSTANTS
    Sides <- MCSides
    Combinations <- MCCombinations
    Again <- MCAgain
    Filtered <- MCFiltered
    Selections <- MCSelections
    MaxSteps = 3
INVARIANTS
    TypeOK
    AnswersAsMeant
    RefusedRightly
    RefusedEarly
\* A frame that was collected stays collected.
CHECK_DEADLOCK FALSE
