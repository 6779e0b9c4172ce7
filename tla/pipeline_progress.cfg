SPECIFICATION FairSpec
CONSTANTS
  Actions = {a1, a2}
  e1 = e1
  e2 = e2
  Entities <- TwoEntities
  EntityOf <- Separate
  Values = {v1}
  Workers = {w1}
  LiveWorkers = {w1}
  None = None
  MaxRetries = 1
  DailyLimit = 1
  MaxReplays = 0
  MaxEvents = 2
INVARIANT DailyLimitRespected
PROPERTIES ApprovedIsResolved
