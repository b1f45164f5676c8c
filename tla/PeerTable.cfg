CONSTANTS
  a = a
  b = b
  c = c
  d = d
  me = me
  ip1 = ip1
  ip2 = ip2
  None = None
  Url <- MCUrl
  Self = me
  Ip <- MCIp
  Seeds <- MCNone
  Reachable <- MCNone
  MaxUnverified = 1
  MaxVerified = 2
  VerifiedTTL = 1
  UnverifiedTTL = 1
  Strikes = 2
  PerTick = 1
  MaxAge = 1
SPECIFICATION Spec
SYMMETRY Symmetry
INVARIANTS TypeOK TableBounded AnnouncedBacked
PROPERTY PropagatedDisplacesNothing
