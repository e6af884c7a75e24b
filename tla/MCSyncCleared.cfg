SPECIFICATION Spec
CONSTANTS
  acc = acc
  d1 = d1
  d2 = d2
  c1 = c1
  c2 = c2
  x = x
  Accounts = {acc}
  Devices = {d1, d2}
  Ids = {c1, x}
  Payloads = {c1, x}
  Clears = {x}
  Author <- MCClearHere
  NoId = NoId
  AccountOf <- MCAccountOf
  SizeOf <- MCSizeOf
  MaxItems = 2
  ItemTtl = 0
  MaxPageItems = 2
  MaxPageBytes = 2
  Attempts = 2
  MaxTroubles = 1
INVARIANTS ClearedEverywhere
CHECK_DEADLOCK FALSE
