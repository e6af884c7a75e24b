SPECIFICATION Spec
CONSTANTS
  a1 = a1
  a2 = a2
  d1 = d1
  d2 = d2
  d3 = d3
  small = small
  big = big
  Accounts = {a1, a2}
  Devices = {d1, d2, d3}
  Ids = {i1, i2, i3}
  Payloads = {small, big}
  AccountOf <- MCAccountOf
  SizeOf <- MCSizeOf
  MaxItems = 2
  ItemTtl = 0
  MaxPageItems = 2
  MaxPageBytes = 2
  MaxSeq = 3
  MaxNow = 1
INVARIANTS FeedInv NothingSkipped KeepsTheNewest
PROPERTIES StoredOnce ImplementsSubscription
SYMMETRY MCIdSymmetry
CHECK_DEADLOCK FALSE
