SPECIFICATION FairSpec
CONSTANTS
  l1 = l1
  l2 = l2
  None = None
  Logs = {l1}
  Billable = {l1}
  Announcing = {"TimerStopped"}
  OtherEvents = {"ProjectCreated"}
  Words <- AroundThreshold
  MaxEvents = 2
  MaxBuffer = 2
  Fragile = {"ai"}
  MaxDrops = 1
  BatchSize = 1
  MaxInvoices = 1
CHECK_DEADLOCK FALSE
INVARIANTS TypeOK InsightFindsItem CaughtUp IndexedWasAnalysed
PROPERTIES ComesToRest JudgedInTheEnd
