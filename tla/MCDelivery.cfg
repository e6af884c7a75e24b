SPECIFICATION FairSpec
CONSTANTS
  d1 = d1
  d2 = d2
  i1 = i1
  i2 = i2
  x = x
  Devices = {d1, d2}
  Ids = {i1, x}
  Clears = {x}
  Author <- MCOneCopies
  Created <- MCCreated
  MaxLedger = 2
  ReceiptPage = 1
  MaxReceipts = 2
  MaxSerial = 2
  MaxRestarts = 1
  MaxFaults = 1
INVARIANTS DeliveryInv ConfirmedWasKept ReceiptBeforeCursor OneReceiptEach
PROPERTIES ConfirmationArrives
CHECK_DEADLOCK FALSE
