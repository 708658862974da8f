SPECIFICATION MCFairSpec
CONSTANTS
    b1 = b1
    b2 = b2
    s1 = s1
    Calls = {c1, c2}
    Buys = {b1, b2}
    Sells = {s1, s2}
    None = None
    Cash = 3
    Shares = 1
    Notional = 2
    Slippage = 1
    Reasons = {"EXPIRED"}
    Again = TRUE
    Unpriced = TRUE
    External = TRUE
    MaxStarts = 3
    MaxRequests = 8
    Submitter = {u1}
    Syncer = {y1}
    Quantity = 3
    Funds = {1, 3}
    MaxCrashes = 2
INVARIANTS
    PositionSound
    ReleasedOnceAlone
    NeverOverdrawn
    NoStaleAnswer
    BookedAsFilled
PROPERTIES
    OrderIsResolved
CHECK_DEADLOCK FALSE
