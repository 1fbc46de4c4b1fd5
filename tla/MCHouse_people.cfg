CONSTANTS
  bistro = bistro
  diner = diner
  ann = ann
  bob = bob
  home = home
  work = work
  name = name
  NoData = NoData
  Ressy = Ressy
  Venues = {bistro, diner}
  Uuids = {1, 2}
  Emails = {ann, bob}
  Lines = {home, work}
  Names = {name}
  Writers = {1, 2}
  Signups <- Staff
  MaxSessions = 2
  MaxRenewals = 1
  MaxChanges = 3
  None = None
  Wanted = {"pending", "confirmed", "cancelled"}
  MaxRows = 1
  MaxRequests = 2
  MaxStumbles = 1
  Null = Null
  Week = 2
  DayLength = 12
  Kinds = {"orders"}
  Grain = 2
  SlotLength = 4
  Zone <- Behind
  Weeks <- HouseWeeks
  Capacity = 2
  Advance = 12
  Forward = 10
  Backwards = {0, 8}
  Sizes = {1, 2}
  PromptParty = 2
  Requested = {3, 6, 9, 12, 20, 24}
  TableTimes <- HouseTables
  MaxNow = 5
  MaxBooked = 2
  Threads = {1, 2}
  PoolSize = 1
  BatchSize = 2
  MaxStatements = 2
  MaxPools = 2
  ChunkSize = 2
  QueueSize = 2
  MaxBurst = 3
  MaxTurns = 2
  MaxPieces = 4
SPECIFICATION HouseSpec
INVARIANTS  FiledUnderTheCaller  HistoryChains ToldInOrder  StatementsHold CallerHears
PROPERTIES SomebodyCanManage 
CHECK_DEADLOCK FALSE
