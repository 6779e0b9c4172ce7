SPECIFICATION Spec
CONSTANTS
  Ads <- AdsSeq
  Sales = "sales"
  Backfill <- Windows
  Reingest = 2
  CatchUp = 3
  Lag = 1
  MaxAge = 2
  StaleAfter = 1
  Runners = {r1}
  Replayers = {}
  Modes = {"live", "dry"}
  FirstDay = 4
  MaxDay = 6
  MaxFaults = 1
INVARIANT FreshMeansLoaded
