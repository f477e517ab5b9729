SPECIFICATION FairSpec
CONSTANTS
  p1 = p1
  w1 = w1
  w2 = w2
  None = None
  Projects = {p1}
  Workers = {w1, w2}
  Asked <- HoldOrArchive
  Limit = 2
  MaxRequests = 3
  MaxFaults = 1
CHECK_DEADLOCK FALSE
INVARIANTS TypeOK StaleIsExplained NeverStuckQuietly
PROPERTIES FreshInTheEnd BlockEnds AuditedInTheEnd
