SPECIFICATION FairSpec
CONSTANTS
  p1 = p1
  p2 = p2
  Phones <- MCPhones
  Services <- MCServices
  Requests <- MCRequests
  Access = "tailnet"
  MaxStarts = 2
  MaxPairings = 2
  MaxRequests = 1
INVARIANT OneDevicePerCode
INVARIANT RevokedIsCutOff
INVARIANT GrantBoundsEffects
PROPERTY RequestsAnswered
CHECK_DEADLOCK FALSE
