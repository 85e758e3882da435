CONSTANTS
    c1 = c1
    c2 = c2
    Cids <- TwoCids
    Times = {1, 2}
    Amounts = {5}
    None = None
    MaxRows = 3
    MaxCrashes = 2
SPECIFICATION FairSpec
INVARIANTS
    StampsAreTrue
    ServesWhole
    QueueOrderKept
    BudgetIsPledge
PROPERTIES
    ClaimsSurvive
    BootsUnlessTorn
CHECK_DEADLOCK FALSE
