SPECIFICATION HistorySpec
CONSTANTS
  Ring = 2
  PageLimit = 3
  MaxEvents = 2
  MaxDrops = 1
  MaxReloads = 0
INVARIANT RecoversAfterReconnect
CHECK_DEADLOCK FALSE
