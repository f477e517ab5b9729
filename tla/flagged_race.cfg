SPECIFICATION Spec
CONSTANTS
  i1 = i1
  i2 = i2
  n1 = n1
  n2 = n2
  p1 = p1
  None = None
  Items = {i1, i2}
  Invoices = {n1, n2}
  Pool = {p1}
  BatchSize = 2
  MaxCrashes = 0
SYMMETRY Interchangeable
PROPERTIES PendingReviewNotBilled
