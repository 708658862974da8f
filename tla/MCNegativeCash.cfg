SPECIFICATION Spec
CONSTANTS
    Calls = {c1}
    Buys = {b1}
    Sells = {}
    None = None
    Cash = 2
    Shares = 0
    Notional = 2
    Slippage = 1
    Reasons = {"EXPIRED"}
    Again = FALSE
    Unpriced = FALSE
    External = FALSE
INVARIANTS
    NoNegativeCash
CHECK_DEADLOCK FALSE
