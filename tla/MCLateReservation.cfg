SPECIFICATION Spec
CONSTANTS
    small = small
    large = large
    Orders = {small, large}
    Notional <- Sizes
    Cap = 2
    Calls = {c1, c2}
    NoCall = NoCall
    MaxAttempt = 1
    LastDay = 1
SYMMETRY CallSymmetry
INVARIANTS
    RejectionReleases
CHECK_DEADLOCK FALSE
