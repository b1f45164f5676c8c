CONSTANTS
  h = h
  f = f
  g = g
  e = e
  c1 = c1
  c2 = c2
  None = None
  Relay <- MCRelay
  Faulty <- MCFaulty
  Seeds <- MCSeeds
  Known <- MCKnown
  Count = 2
  Task <- MCTask
  Start <- MCStart
  Space = "@s"
  Row <- MCRow
  Claim <- MCClaim
  MaxFailures = 2
SPECIFICATION Spec
INVARIANTS TypeOK
PROPERTIES HonestVerifies CacheForward FreshestFirst Answered
