\* The call is over when its handler has returned: the system really stops.
SPECIFICATION Spec
CHECK_DEADLOCK FALSE
CONSTANTS
  MaxTalks = 1
  MaxCalls = 1
INVARIANTS CleanExit 
PROPERTIES EscalationSticks FarewellHeardUnfilled CallEnds
