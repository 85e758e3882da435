SPECIFICATION FairSpec
CONSTANTS
    Nil = Nil
    c1 = c1
    c2 = c2
    h1 = h1
    h2 = h2
    h3 = h3
    Cids <- OneCid
    Hostings <- ThreeHostings
    MaxFaults = 2
    MaxErrands = 1
INVARIANTS
    OnlyRacesLoseBytes
PROPERTIES
    UnfundedIsUnpinned
