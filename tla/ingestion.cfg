SPECIFICATION FairSpec
CONSTANTS
  Ads <- AdsSeq
  Sales = "sales"
  Backfill <- Windows
  Reingest = 2
  CatchUp = 3
  Lag = 1
  MaxAge = 2
  StaleAfter = 1
  Runners = {r1, r2}
  Replayers = {r2}
  Modes = {"live"}
  FirstDay = 4
  MaxDay = 6
  MaxFaults = 1
INVARIANTS ReplayCoversGap FreshMeansLoaded
PROPERTIES KeepsLedger YesterdayArrives FailureIsAlerted
