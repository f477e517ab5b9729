SPECIFICATION Spec
CONSTANTS
  l1 = l1
  l2 = l2
  t1 = t1
  t2 = t2
  u1 = u1
  u2 = u2
  None = None
  Logs = {l1}
  Sheets = {t1, t2}
  Users = {u1, u2}
  Days = {1, 2}
  DayCap = 1
  MaxSeconds = 1
  SecondsPerUnit = 2
  Weeks <- AnyWeeks
  PageLimit = 1
SYMMETRY Interchangeable
INVARIANTS TypeOK OneSheetPerWeek LinksAreSound DecisionsSettleLogs ApprovalsAccountedFor
PROPERTIES ApprovedSheetIsFinal ApprovalLostOnlyBy
