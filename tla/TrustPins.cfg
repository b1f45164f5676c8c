CONSTANTS
  s1 = s1
  s2 = s2
  fake = fake
  r1 = r1
  r2 = r2
  r3 = r3
  c1 = c1
  c2 = c2
  None = None
  Set <- MCSet
  Anchors <- MCAnchors
  Relay <- MCRelay
  Honest <- MCHonest
  Real <- MCReal
  Config <- MCConfig
  Call <- MCTwo
  Budget = 4
SPECIFICATION Spec
CHECK_DEADLOCK FALSE
SYMMETRY Symmetry
INVARIANTS TypeOK TrustedWins PinnedIsStored
PROPERTY MinorityCannotPin
