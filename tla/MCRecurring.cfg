SPECIFICATION MCSpec
CONSTANTS
  x = x
  y = y
  c1 = c1
  r1 = r1
  Owner = {x, y}
  Cycle = {c1}
  NoOwner = NoOwner
  MaxSlot = 2
  MaxTime = 2
  LeaseTtl = 1
  MaxRuntime = 1
  CyclesPerRun = 1
  MaxItems = 2
  MaxStarts = 2
  Caller = {x, y}
  MaxLogTime = 2
  MaxEvents = 5
  Daily = {r1}
  Entry = {x, y}
  LastDay = 3
  Price = {0, 2, 3, 4}
  Atr = {0, 1}
  Size = 2
  ClosePercent = 50
  KeepShares = 0
  StageAt = 1
  BreakevenAt = 1
  TrailAt = 1
  StopMultiple = 1
  TargetMultiple = 3
  TrailMultiple = 1
  FixedStop = 1
  FixedTarget = 2
  MaxHold = 3
  ExpireAfter = 2
  MaxKills = 1
SYMMETRY Symmetry
INVARIANTS
    LeaseExcludes
    QueueIsSound
    ReplayFollowsCalls
    ExitsAreSound
PROPERTIES
    TerminalRowsStay
    StopNeverLoosens
CHECK_DEADLOCK FALSE
