\* One filler, one function that ends the call: what closes it?
SPECIFICATION Spec
CHECK_DEADLOCK FALSE
CONSTANTS
  MaxTalks = 1
  MaxCalls = 1
PROPERTIES FarewellHeard
