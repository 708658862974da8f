SPECIFICATION ExitSpec
CONSTANTS
  Daily = {r1,r2}
  Entry = {e1}
  LastDay = 3
  Price = {3,4}
  Atr = {1}
  Size = 2
  ClosePercent = 50
  KeepShares = 0
  StageAt = 1
  BreakevenAt = 1
  TrailAt = 1
  StopMultiple = 1
  TargetMultiple = 3
  TrailMultiple = 1
  FixedStop = 1
  FixedTarget = 2
  MaxHold = 3
  ExpireAfter = 2
  MaxKills = 0
PROPERTIES
  StopNeverLoosens
CHECK_DEADLOCK FALSE
