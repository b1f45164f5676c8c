CONSTANTS
  alpha = alpha
  subAlpha = subAlpha
  beta = beta
  interval = interval
  poke = poke
  Handle <- MCAlphaOnly
  SpaceOf <- MCAlphaSpaceOf
  Version <- MCOneVersion
  Session <- MCOneSession
  Suspect <- MCAlpha
  Gated <- MCNone
  Unfit <- MCAlpha
  Elsewhere <- MCNone
  Headless = TRUE
  PageLimit = 1
  MaxPages = 1
  MaxFailed = 1
  MaxSeq = 3
  MaxWipes = 1
SPECIFICATION LiveSpec
PROPERTIES Delivered Recovers
