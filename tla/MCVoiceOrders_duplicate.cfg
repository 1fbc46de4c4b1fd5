\* The guardrail of create_order against a timeout and a retry.
CONSTANTS
  c1 = c1  c2 = c2  c3 = c3  p1 = p1  p2 = p2
  Calls = {c1}
  Callers = {p1, p2}
  CallerOf <- OneCaller
  MaxRequests = 1
  MaxRetries = 1
  MaxOrders = 2
  ItemRows = 1
  Workers = 2
  MaxRest = 0
  Statuses = {}
  Asks <- CreateOnly
  None = None
SPECIFICATION Spec
INVARIANTS NoDuplicateOrder
CHECK_DEADLOCK FALSE
