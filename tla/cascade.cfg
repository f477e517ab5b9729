SPECIFICATION Spec
CONSTANTS
  l1 = l1
  l2 = l2
  t1 = t1
  t2 = t2
  u1 = u1
  u2 = u2
  None = None
  Logs = {l1}
  Sheets = {t1}
  Users = {u1}
  Days = {1}
  DayCap = 1
  MaxSeconds = 0
  SecondsPerUnit = 1
  Weeks <- AnyWeeks
  PageLimit = 2
SYMMETRY Interchangeable
INVARIANTS CascadeReachesAll
