CONSTANTS
  a = a
  a1 = a1
  b = b
  w1 = w1
  None = None
  Handle <- MCHandle
  SpaceOf <- MCSpaceOf
  Epoch <- MCEpoch
  Size <- MCSize
  Writer <- MCWriter
  Budget = 2
  LowWater = 1
  Entitlement = 1
  Batch = 1
  MaxBatches = 4
SPECIFICATION LiveSpec
INVARIANTS TypeOK AccountingTrue
PROPERTIES EntitlementKept RootsKept PressureRelieved
