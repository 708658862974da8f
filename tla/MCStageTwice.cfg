SPECIFICATION ExitSpec
CONSTANTS
  Daily = {r1}
  Entry = {e1}
  LastDay = 4
  Price = {2, 3, 4, 5}
  Atr = {1}
  Size = 2
  ClosePercent = 50
  KeepShares = 0
  StageAt = 1
  BreakevenAt = 1
  TrailAt = 1
  StopMultiple = 1
  TargetMultiple = 4
  TrailMultiple = 1
  FixedStop = 1
  FixedTarget = 2
  MaxHold = 4
  ExpireAfter = 2
  MaxKills = 0
INVARIANTS
  StageOnce
CHECK_DEADLOCK FALSE
