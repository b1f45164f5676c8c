CONSTANTS
  alpha = alpha
  subAlpha = subAlpha
  beta = beta
  interval = interval
  poke = poke
  Handle <- MCHandle
  SpaceOf <- MCSpaceOf
  Version <- MCVersion
  Session <- MCTwoSessions
  Suspect <- MCBoth
  Gated <- MCAlpha
  Unfit <- MCAlpha
  Elsewhere <- MCAlpha
  Headless = FALSE
  PageLimit = 2
  MaxPages = 2
  MaxFailed = 0
  MaxSeq = 3
  MaxWipes = 0
SPECIFICATION Spec
CONSTRAINT Few
SYMMETRY Symmetry
INVARIANTS TypeOK WatermarkSound OrphansHaveDroppedRoot
PROPERTIES GatePassesUpdates KeepsPromise
