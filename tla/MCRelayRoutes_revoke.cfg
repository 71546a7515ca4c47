SPECIFICATION FairSpec
CONSTANTS
  r1 = r1
  c1 = c1
  c2 = c2
  c3 = c3
  None = None
  Routes <- MCRoutes
  Connections <- MCTwoConnections
  Ring = 1
  MaxFrames = 1
PROPERTY RevokedRouteEmpties
CHECK_DEADLOCK FALSE
