CONSTANTS
  a = a
  a1 = a1
  b = b
  b1 = b1
  Handle <- MCHandle
  SpaceOf <- MCSpaceOf
  Size <- MCSize
  MaxSeq = 4
  Limit <- MCLimit
  MaxBytes = 2
  MaxRow = 3
SPECIFICATION Spec
INVARIANTS TypeOK PageFaithful PullerAccepts
