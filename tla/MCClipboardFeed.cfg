SPECIFICATION FairSpec
CONSTANTS
  a = a
  b = b
  Blank = Blank
  Clear = Clear
  Texts = {a, b}
  Feed <- MCMixed
  EchoWindow = 1
  MaxSkew = 1
  SendTicks = 0
  MaxCopies = 1
  MaxNow = 2
  MaxFaults = 2
  MaxRestarts = 0
INVARIANTS ClipboardMovesForward
PROPERTIES FeedDrains
CHECK_DEADLOCK FALSE
