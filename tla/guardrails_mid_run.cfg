SPECIFICATION Spec
CONSTANTS
  Settings <- ManySettings
  StartBids = {1, 2, 3, 4, 5, 10, 20}
  RuleOps <- Rules
  Metrics <- Seen
  None = None
  MinClicks = 15
  MinImpressions = 500
  LoadAges = {24, 48, 49}
  MaxEvents = 3
PROPERTIES KillSwitchBeatsEverything
CHECK_DEADLOCK FALSE
