SPECIFICATION Spec
CONSTANTS
  t1 = t1
  s1 = s1
  s2 = s2
  v1 = v1
  v2 = v2
  w1 = w1
  o1 = o1
  o2 = o2
  q1 = q1
  p1 = p1
  p2 = p2
  c0 = c0
  c1 = c1
  b1 = b1
  b2 = b2
  n1 = n1
  n2 = n2
  Shells <- MCShells
  Sockets <- MCSockets
  Nobody = Nobody
  PtyRoom = 2
  Ring = 2
  FrameUnits = 2
  MaxFrames = 1
  MaxPrinted = 4
  Views <- MCViews
  NoView = NoView
  Windows <- MCWindows
  Ports <- MCPorts
  Origins <- MCOrigins
  Blank = Blank
  ControlRoom = 1
  Paths <- MCPaths
  Contents <- MCContents
  Absent = Absent
  Branches <- MCBranches
  NoBranch = NoBranch
  MaxCommits = 1
  Names <- MCNames
  NoChange = NoChange
  NoReview = NoReview
INVARIANT TabShowsOnePiece
INVARIANT FramesArriveWhole
INVARIANT PageStaysApproved
INVARIANT NoOrphanBrowser
INVARIANT OnlyReviewedAndGranted
PROPERTY WorkSurvives
PROPERTY ShellNeverStalls
CHECK_DEADLOCK FALSE
