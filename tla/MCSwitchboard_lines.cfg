CONSTANTS
  bistro = bistro
  diner = diner
  line = line
  desk = desk
  link = link
  caller = caller
  Null = Null
  Gone = Gone
  Week = 3
  DayLength = 4
  Kinds = {"orders"}
  Restaurants = {bistro, diner}
  Numbers = {line}
  Phones = {desk}
  Urls = {link}
  Calls = {caller}
  RestaurantRows <- MCRows
  FeatureRows <- MCFeatures
  Payloads <- MCPayloads
  Zone = 1
  Nows = {2, 6}
  MaxEdits = 2
  MaxFaults = 2
  MaxEscalations = 1
SPECIFICATION SwitchSpec
INVARIANTS SettingsHold ToldOnce TransferKept BypassAccounted NeverTurnedAway
CHECK_DEADLOCK FALSE
PROPERTIES CallsSettle
