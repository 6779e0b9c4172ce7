SPECIFICATION Spec
CONSTANTS
  Actions = {a1, a2}
  e1 = e1
  e2 = e2
  Entities <- OneEntity
  EntityOf <- Shared
  Values = {v1, v2}
  Workers = {w1}
  LiveWorkers = {w1}
  None = None
  MaxRetries = 1
  DailyLimit = 2
  MaxReplays = 1
  MaxEvents = 2
SYMMETRY RowSymmetry
INVARIANTS RetryBudget FailureAccounted AppliedWasAnswered
PROPERTIES StateMachine SentOncePerApproval
