SPECIFICATION CampaignSpec
CONSTANTS
  Runner = {r1}
  Reviewer = {u1}
  NoOperator = NoOperator
  MaxDay = 2
  StopConfig = TRUE
  MinDays = 1
  MaxAttempt = 2
  MaxCrashes = 1
  MaxPauses = 1
INVARIANTS
  BlockingDateKept
CHECK_DEADLOCK FALSE
