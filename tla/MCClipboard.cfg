SPECIFICATION Spec
CONSTANTS
  a = a
  b = b
  Blank = Blank
  Clear = Clear
  Texts = {a, b}
  Feed <- MCTwoItems
  EchoWindow = 3
  MaxSkew = 1
  SendTicks = 1
  MaxCopies = 1
  MaxNow = 4
  MaxFaults = 1
  MaxRestarts = 1
INVARIANTS ClipboardInv NoBounce
PROPERTIES NewCopiesOnly
CHECK_DEADLOCK FALSE
