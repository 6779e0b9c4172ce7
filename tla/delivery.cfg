SPECIFICATION DeliverySpec
CONSTANTS
  Schedules = {s1}
  MaxSlot = 2
  WebKeys = {}
  Keys <- AllKeys
  Scopes = {x, y}
  ScheduledScope = x
  Contents = {c1}
  Procs = {p1, p2}
  WorkerId <- SharedId
  MaxAttempts = 2
  None = None
  MaxEvents = 2
INVARIANTS OneRunner SucceededIsStored AcceptedScope NoSlotSkipped
PROPERTIES NeverRaises NotifiedIsDownloadable
