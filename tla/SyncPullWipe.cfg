CONSTANTS
  alpha = alpha
  subAlpha = subAlpha
  beta = beta
  interval = interval
  poke = poke
  Handle <- MCHandle
  SpaceOf <- MCSpaceOf
  Version <- MCVersion
  Session <- MCOneSession
  Suspect <- MCNone
  Gated <- MCNone
  Unfit <- MCNone
  Elsewhere <- MCNone
  Headless = FALSE
  PageLimit = 2
  MaxPages = 2
  MaxFailed = 0
  MaxSeq = 3
  MaxWipes = 1
SPECIFICATION Spec
PROPERTIES NothingMissed
