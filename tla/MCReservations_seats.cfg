\* One call whose thread outlives its await, and the staff and the public beside it.
CONSTANTS
  c1 = c1  p1 = p1  p2 = p2  t1 = t1  t2 = t2  s1 = s1
  Calls = {c1}
  Callers = {p1}
  CallerOf <- OneCaller
  MaxJobs = 1
  Times = {t1, t2, s1}
  MinuteOf <- Minutes
  Seats = 2
  Parties = {1, 2}
  Asks <- AllAsks
  Edits <- AllEdits
  MaxRows = 2
  MaxRest = 4
  None = None
SPECIFICATION Spec
INVARIANTS SeatsKept OrphansAreFailures
PROPERTIES CancelSticks
CHECK_DEADLOCK FALSE
