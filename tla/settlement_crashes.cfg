CONSTANTS
    c1 = c1
    c2 = c2
    Refs <- TwoRefs
    MaxCrashes = 2
    Lossy = TRUE

SPECIFICATION Spec
INVARIANTS
    DisbursedAtMostOnce
    FinalizedAtMostOnce
    RowTellsTheTruth
PROPERTIES
    ImplementsPromise
