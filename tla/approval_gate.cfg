SPECIFICATION FairSpec
CONSTANTS
  l1 = l1
  l2 = l2
  None = None
  Logs = {l1}
  Billable = {l1}
  Announcing = {}
  OtherEvents = {"ProjectCreated"}
  Words <- AroundThreshold
  MaxEvents = 1
  MaxBuffer = 2
  Fragile = {}
  MaxDrops = 0
  BatchSize = 1
  MaxInvoices = 1
CHECK_DEADLOCK FALSE
PROPERTIES ApprovalTriggersAI
