SPECIFICATION Spec
CONSTANTS
  Actions = {a1, a2}
  e1 = e1
  e2 = e2
  Entities <- TwoEntities
  EntityOf <- Separate
  Values = {v1}
  Workers = {w1, w2}
  LiveWorkers = {w1}
  None = None
  MaxRetries = 0
  DailyLimit = 2
  MaxReplays = 0
  MaxEvents = 2
INVARIANT StandingControlRespected
