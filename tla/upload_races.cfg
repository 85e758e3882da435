SPECIFICATION FairSpec
CONSTANTS
    Nil = Nil
    a1 = a1
    r1 = r1
    r2 = r2
    t1 = t1
    t2 = t2
    q1 = q1
    q2 = q2
    Accounts <- OneAccount
    Reservations <- TwoReservations
    Txs <- OneTx
    Requests <- TwoRequests
    DiskLimit = 2
    Cap = 3
    MaxPending = 2
    MaxCrashes = 1
INVARIANTS
    HostedWasPaid
    PaymentBuysOneUpload
PROPERTIES
    FinalIsFinal
    LimitsYieldToUploads
    ReservationsResolve
