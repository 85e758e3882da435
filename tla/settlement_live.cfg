CONSTANTS
    c1 = c1
    c2 = c2
    Refs <- OneRef
    MaxCrashes = 2
    Lossy = TRUE
SPECIFICATION FairSpec
PROPERTIES
    QueuedReportsAreAnswered
    EveryCancelIsClosed
