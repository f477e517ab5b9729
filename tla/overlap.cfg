SPECIFICATION FairSpec
CONSTANTS
  l1 = l1
  l2 = l2
  t1 = t1
  t2 = t2
  u1 = u1
  w1 = w1
  w2 = w2
  None = None
  Logs = {l1, l2}
  Sheets = {t1, t2}
  Users = {u1}
  Days = {1}
  DayCap = 2
  MaxSeconds = 0
  SecondsPerUnit = 1
  Weeks <- DisjointWeeks
  PageLimit = 2
  Workers = {w1, w2}
  Ops <- Submitting
  Solo = {}
CHECK_DEADLOCK FALSE
INVARIANTS NoDanglingLink ApprovalsAccountedFor
PROPERTIES RequestsEnd
