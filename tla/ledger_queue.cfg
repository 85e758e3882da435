SPECIFICATION Spec
CONSTANTS
  a1 = a1  a2 = a2  c1 = c1  c2 = c2  k1 = k1  k2 = k2  k3 = k3  k4 = k4
  Nil = Nil
  Accounts <- TwoAccounts
  Cids <- OneCid
  Ids <- ThreeRows
  Hours = {1}
  MaxTime = 2
  MaxExpiry = 2
  PermanentExpiry = 9
  HostingPermanent = FALSE
  StaleChecks = FALSE
  MaxOrphans = 0
SYMMETRY Symmetry
INVARIANT NobodyQueuesBehindNothing
INVARIANT BannedHoldsNothing
PROPERTY BatonIsNeverDropped
PROPERTY ImplementsQueue
