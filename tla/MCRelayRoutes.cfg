SPECIFICATION FairSpec
CONSTANTS
  r1 = r1
  c1 = c1
  c2 = c2
  c3 = c3
  None = None
  Routes <- MCRoutes
  Connections <- MCThreeConnections
  Ring = 1
  MaxFrames = 2
INVARIANT NoGap
PROPERTY FramesArrive
CHECK_DEADLOCK FALSE
