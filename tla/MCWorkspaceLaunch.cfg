SPECIFICATION FairSpec
CONSTANTS
  l1 = l1
  l2 = l2
  t1 = t1
  f1 = f1
  f2 = f2
  Launches <- MCLaunches
  Connects <- MCConnects
  Folders <- MCFolders
  Asks <- MCAsks
  Service = Service
  None = None
 
INVARIANT ExposesOnlyWhatWasAsked
PROPERTY LaunchesEnd
CHECK_DEADLOCK FALSE
