SPECIFICATION Spec
CONSTANTS
    t1 = t1
    t2 = t2
    Nil = Nil
    MBDivisor = 2
    MinHours = 1
    NodeCount = 3
    MinRefund = 1
    FeePct = 30
    Grain = 5
    Hour = 1
    PermanentExpiry = 99
    Txs <- TwoTxs
    MaxRequests = 1
    Bytes = 1
    Sizes = {1}
    Hours = {2}
    Copies = {4}
    Amounts = {1}
    Configs <- Settings
    Exempt = {1}
    MaxEnds = 1
    MaxTime = 3
    MaxFaults = 0
INVARIANT RefundsAreCovered
CHECK_DEADLOCK FALSE
