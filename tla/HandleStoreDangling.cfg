CONSTANTS
  h1 = h1
  h2 = h2
  SubZones <- MCSub
  RootZones <- MCRoot
  Addressed <- MCAddressed
  Primary <- MCPrimary
  Handler <- MCOne
  Skew = 1
  MaxClock = 2
  Pressure = TRUE
SPECIFICATION Spec
INVARIANT NothingDangles
