CONSTANTS
  a = a
  b = b
  c = c
  d = d
  me = me
  ip1 = ip1
  ip2 = ip2
  None = None
  Url <- MCOwn
  Self = me
  Ip <- MCOneIp
  Seeds <- MCSeeds
  Reachable <- MCAlive
  MaxUnverified = 2
  MaxVerified = 2
  VerifiedTTL = 2
  UnverifiedTTL = 2
  Strikes = 2
  PerTick = 1
  MaxAge = 2
SPECIFICATION LiveSpec
PROPERTIES SeedReturns DeadLeaves
