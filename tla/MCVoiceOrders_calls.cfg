\* Two calls of one caller and one of another.
CONSTANTS
  c1 = c1  c2 = c2  c3 = c3  p1 = p1  p2 = p2
  Calls = {c1, c2, c3}
  Callers = {p1, p2}
  CallerOf <- TwoCallers
  MaxRequests = 1
  MaxRetries = 0
  MaxOrders = 2
  ItemRows = 1
  Workers = 2
  MaxRest = 0
  Statuses = {}
  Asks <- CreateOrCancel
  None = None
SPECIFICATION Spec
INVARIANTS OwnOrders
SYMMETRY Symmetry
CHECK_DEADLOCK FALSE
