\* One agent in a dialogue and an order, and two edits of the dashboards.
CONSTANTS
  r1 = r1  r2 = r2  n1 = n1  n2 = n2  Null = Null  Gone = Gone
  Restaurants = {r1, r2}
  Names = {n1, n2}
  Limits = {0, 1, 2}
  Items = {1, 2, 3}
  Groups = {1, 2, 3}
  Values = {1, 2, 3, 4, 5}
  MenuRows <- Menu0
  GroupRows <- Groups0
  ValueRows <- Values0
  Attached <- Attached0
  NewGroups <- Rows
  NewOverrides <- Overrides
  NewPrices = {2}
  Payloads <- Orders0
  Ours = r1
  Referenced = {2}
  MaxSpent = 6
  MaxRetries = 1
  MaxOrders = 1
SPECIFICATION FairSpec
INVARIANTS RowsAgree CompletedIsOrderable PaidFor RightOnesOff
PROPERTIES DialogueEnds
CHECK_DEADLOCK FALSE
