SPECIFICATION FairSpec
CONSTANTS
  Ring = 1
  PageLimit = 2
  MaxEvents = 3
  MaxDrops = 1
  MaxReloads = 1
INVARIANT ShownIsLogged
INVARIANT PageInLogOrder
INVARIANT NoSilentLoss
PROPERTY LiveEventsAreShown
CHECK_DEADLOCK FALSE
