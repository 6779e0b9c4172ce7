SPECIFICATION FairSpec
CONSTANTS
  Keys = {k1}
  Scopes = {s1}
  Contents = {c1}
  Procs = {p1, p2}
  WorkerId <- SharedId
  MaxAttempts = 2
  None = None
  MaxEvents = 1
PROPERTY ClaimedIsFinished
