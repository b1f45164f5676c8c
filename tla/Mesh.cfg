CONSTANTS
  a = a
  b = b
  x = x
  y = y
  None = None
  Relay <- MCPair
  Verified <- MCPairVerified
  Named <- MCOne
  Item <- MCTwoItems
  Entry <- MCOne
  MaxFailures = 1
SPECIFICATION LiveSpec
INVARIANT TypeOK
PROPERTIES DismissedIsHeld Spreads DiesOut
