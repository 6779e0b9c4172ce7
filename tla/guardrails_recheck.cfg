SPECIFICATION Spec
CONSTANTS
  Settings <- OneSetting
  StartBids = {3, 5}
  RuleOps <- Rules
  Metrics <- Plenty
  None = None
  MinClicks = 15
  MinImpressions = 500
  LoadAges = {24}
  MaxEvents = 0
PROPERTY RefusedOnlyIfMoved
CHECK_DEADLOCK FALSE
