SPECIFICATION FairSpec
CONSTANTS
  r1 = r1
  r2 = r2
  a = a
  b = b
  Empty = Empty
  Nobody = Nobody
  Requests <- MCRequests
  Contents <- MCContents
  MaxAgentWrites = 2
  MaxDisconnects = 1
PROPERTY SavesAreSerial
PROPERTY AgentWorkIsChecked
PROPERTY SavesAreAnswered
CHECK_DEADLOCK FALSE
