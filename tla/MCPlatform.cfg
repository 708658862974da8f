SPECIFICATION MCSpec
CONSTANTS
    Calls = {c1, c2, c3}
    NoCall = NoCall
    Ttl = 2
    MaxClock = 3
    MaxRegress = 1
    MaxWrites = 2
    p1 = p1
    p2 = p2
    p3 = p3
    Starter = {p1, p2, p3}
    Nobody = Nobody
    MaxVersion = 3
    Code <- TheCode
    MaxFailures = 2
    Limit = 2
    MaxBlocks = 4
SYMMETRY CallSymmetry
INVARIANTS
    FencingSound
    LedgerIsSound
    ResultIsWhole
PROPERTIES
    ImplementsFencedLease
    RunEndsThere
CHECK_DEADLOCK FALSE
