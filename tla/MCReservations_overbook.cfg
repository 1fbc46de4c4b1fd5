\* An update of the agent that moves a confirmed reservation.
CONSTANTS
  c1 = c1  p1 = p1  p2 = p2  t1 = t1  t2 = t2  s1 = s1
  Calls = {c1}
  Callers = {p1}
  CallerOf <- OneCaller
  MaxJobs = 1
  Times = {t1, t2}
  MinuteOf <- Minutes
  Seats = 2
  Parties = {2}
  Asks <- MoveAsks
  Edits = {}
  MaxRows = 2
  MaxRest = 2
  None = None
SPECIFICATION Spec
INVARIANTS NoOverbooking
CHECK_DEADLOCK FALSE
