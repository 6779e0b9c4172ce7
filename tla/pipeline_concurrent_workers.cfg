SPECIFICATION FairSpec
CONSTANTS
  Actions = {a1}
  e1 = e1
  e2 = e2
  Entities <- OneEntity
  EntityOf <- Shared
  Values = {v1, v2}
  Workers = {w1, w2}
  LiveWorkers = {w1, w2}
  None = None
  MaxRetries = 1
  DailyLimit = 1
  MaxReplays = 0
  MaxEvents = 0
PROPERTY NoStateSkipped
