SPECIFICATION FairSpec
CONSTANTS
    alice = alice
    bob = bob
    carol = carol
    o1 = o1
    Nil = Nil
    Accounts <- People
    Orders <- OneOrder
    Owners <- Uploaders
    MaxRequests = 3
    Policies <- Offered
    MaxFaults = 1
INVARIANTS
    ReleasedWithAuthority
    RecordsAreTrue
    UnanimousIsReleased
    EndedOnce
PROPERTIES
    RetryHeals
    EnoughIsEnough
CHECK_DEADLOCK FALSE
