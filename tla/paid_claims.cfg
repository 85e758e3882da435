SPECIFICATION Spec
CONSTANTS
    t1 = t1
    t2 = t2
    Nil = Nil
    MBDivisor = 2
    MinHours = 1
    NodeCount = 3
    MinRefund = 1
    FeePct = 30
    Grain = 5
    Hour = 1
    PermanentExpiry = 99
    Txs <- TwoTxs
    MaxRequests = 3
    Bytes = 1
    Sizes = {1}
    Hours = {2}
    Copies = {4}
    Amounts = {10}
    Configs <- Settings
    Exempt = {2}
    MaxEnds = 1
    MaxTime = 3
    MaxFaults = 1
INVARIANTS
    RefundWithinDeposit
    PaymentBuysOneThing
    TimerIsWhatWasBought
    RefundRowIsTrue
PROPERTIES
    PaidIsServed
CHECK_DEADLOCK FALSE

SYMMETRY AnyTx
