SPECIFICATION FairSpec
CONSTANTS
  acc = acc
  d1 = d1
  d2 = d2
  c1 = c1
  c2 = c2
  x = x
  Accounts = {acc}
  Devices = {d1, d2}
  Ids = {c1, c2}
  Payloads = {c1, c2}
  Clears = {}
  Author <- MCOneWay
  NoId = NoId
  AccountOf <- MCAccountOf
  SizeOf <- MCBig
  MaxItems = 2
  ItemTtl = 0
  MaxPageItems = 2
  MaxPageBytes = 2
  Attempts = 1
  MaxTroubles = 1
PROPERTIES CopiesArrive
CHECK_DEADLOCK FALSE
