SPECIFICATION Spec
CONSTANTS
  l1 = l1
  l2 = l2
  l3 = l3
  u1 = u1
  u2 = u2
  p1 = p1
  p2 = p2
  None = None
  Logs = {l1, l2, l3}
  Users = {u1, u2}
  Projects = {p1, p2}
  Dates <- FewDates
  Categories = {"Development", "Meetings"}
  Approvals <- ThreeWeeks
  Budgets <- SomeBudget
  Insights <- OneAndThreeWords
  Recent = 1
  Top = 1
  MaxEvents = 4
CHECK_DEADLOCK FALSE
INVARIANTS TypeOK ReportsAgree CriticalNeedsOvertime RiskIsNonBillableShare SlopeIsLeastSquares MarginNeedsReapproval
PROPERTIES PaidAmountIsKept
