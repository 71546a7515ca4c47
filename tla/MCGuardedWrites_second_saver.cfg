SPECIFICATION Spec
CONSTANTS
  r1 = r1
  r2 = r2
  a = a
  b = b
  Empty = Empty
  Nobody = Nobody
  Requests <- MCRequests
  Contents <- MCContents
  MaxAgentWrites = 0
  MaxDisconnects = 1
PROPERTY SecondSaverIsRefused
CHECK_DEADLOCK FALSE
