SPECIFICATION FairSpec
CONSTANTS
  x1 = x1
  x2 = x2
  r1 = r1
  Clients = {x1, x2}
  Restaurants = {r1}
  Admin = Admin
  Everyone = Everyone
  Subscribed <- OneOfEach
  Readers = {x1}
  Capacity = 2
  MaxEvents = 4
INVARIANTS RegistryAgrees
PROPERTIES FeedSpec CaughtUp
CHECK_DEADLOCK FALSE
