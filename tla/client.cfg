SPECIFICATION FairSpec
CONSTANTS
  Paced = {"get"}
  Documents = TRUE
  NonRetryable = {"create"}
  Rate = 1
  Unit = 2
  Burst = 2
  SleepCap = 1
  MaxAttempts = 3
  BackoffCap = 2
  RetryAfter = {1}
  PollWait = 1
  Timeout = 3
  Persists = TRUE
  LastStart = 3
  MaxRuns = 2
INVARIANTS GrantsConform CreatedOnce RotatedIsStored
PROPERTIES RunEnds
CHECK_DEADLOCK FALSE
