\* Liveness of one request and its retry, with operations of the staff between its statements.
CONSTANTS
  c1 = c1  c2 = c2  c3 = c3  p1 = p1  p2 = p2
  Calls = {c1}
  Callers = {p1, p2}
  CallerOf <- OneCaller
  MaxRequests = 1
  MaxRetries = 1
  MaxOrders = 2
  ItemRows = 2
  Workers = 2
  MaxRest = 1
  Statuses = {}
  Asks <- CreateOrCancel
  None = None
SPECIFICATION FairSpec
INVARIANTS WholeOrders
PROPERTIES BookSpec Settled
CHECK_DEADLOCK FALSE
