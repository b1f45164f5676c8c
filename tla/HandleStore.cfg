CONSTANTS
  h1 = h1
  h2 = h2
  SubZones <- MCSub
  RootZones <- MCRoot
  Addressed <- MCAddressed
  Primary <- MCPrimary
  Handler <- MCTwo
  Skew = 1
  MaxClock = 2
  Pressure = TRUE
SPECIFICATION Spec
SYMMETRY Symmetry
INVARIANTS TypeOK NotPinned RecordsOfOwner
PROPERTIES OwnerRecordsKept FreshProofServed ReceiptKept
