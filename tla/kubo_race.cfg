SPECIFICATION Spec
CONSTANTS
    Nil = Nil
    c1 = c1
    c2 = c2
    h1 = h1
    h2 = h2
    h3 = h3
    Cids <- OneCid
    Hostings <- TwoHostings
    MaxFaults = 0
    MaxErrands = 0
INVARIANTS
    FundedIsStored
CHECK_DEADLOCK FALSE
