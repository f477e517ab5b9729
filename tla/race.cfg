SPECIFICATION Spec
CONSTANTS
  l1 = l1
  l2 = l2
  t1 = t1
  t2 = t2
  u1 = u1
  w1 = w1
  w2 = w2
  None = None
  Logs = {l1, l2}
  Sheets = {t1}
  Users = {u1}
  Days = {1}
  DayCap = 2
  MaxSeconds = 0
  SecondsPerUnit = 1
  Weeks <- DisjointWeeks
  PageLimit = 2
  Workers = {w1, w2}
  Ops <- DecisionsAndRecording
  Solo <- Recording
CHECK_DEADLOCK FALSE
SYMMETRY Interchangeable
INVARIANTS TypeOK NothingLeftPending NeverDeadlocked
PROPERTIES ApprovalStands
