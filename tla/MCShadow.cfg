SPECIFICATION MCSpec
CONSTANTS
  DayRows = 2
  r1 = r1
  r2 = r2
  u1 = u1
  a1 = a1
  a2 = a2
  a3 = a3
  Runner = {r1, r2}
  Operator = {u1}
  Days = 2
  TradingDay = {0, 1, 2}
  MaxCatchUp = 1
  Lookback = 2
  LeaseTtl = 1
  Cap = 1
  SlotCost = 1
  CallCost = 1
  MaxCalls = 2
  MaxRows = 3
  Scopes = 2
  WarnAfter = 1
  RecommendAfter = 2
  RequireAfter = 2
  RecoveryStreak = 2
  Policy = {"p1", "p2"}
  MaxEvals = 3
  Report = {a1, a2, a3}
  Condition = {"c1", "c2"}
  NoReport = NoReport
  MaxSinks = 2
  MaxTries = 2
  DedupWindow = 1
  MaxInstant = 2
SYMMETRY Symmetry
INVARIANTS
    SlotWorkedOnce
    SpendingBounded
    StreaksDecide
    NothingIsLost
PROPERTIES
    ServesOldestFirst
    StructuralFailureStops
CHECK_DEADLOCK FALSE
