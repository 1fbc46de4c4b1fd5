\* One call with two requests: timeouts, orphaned threads, errors, the end of the call.
CONSTANTS
  c1 = c1  c2 = c2  c3 = c3  p1 = p1  p2 = p2
  Calls = {c1}
  Callers = {p1, p2}
  CallerOf <- OneCaller
  MaxRequests = 2
  MaxRetries = 1
  MaxOrders = 4
  ItemRows = 1
  Workers = 2
  MaxRest = 0
  Statuses = {}
  Asks <- CreateOrUpdate
  None = None
SPECIFICATION Spec
INVARIANTS SingleOrder SerialCallsDoNotTear AnnouncedOnce
PROPERTIES NoStaleContent
CHECK_DEADLOCK FALSE
