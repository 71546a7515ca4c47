SPECIFICATION FairSpec
CONSTANTS
  s1 = s1
  s2 = s2
  c1 = c1
  c2 = c2
  c3 = c3
  Sessions <- MCTwoSessions
  Commands <- MCThreeCommands
  Target <- MCTarget
  None = None
  Capacity = 2
  MaxCalls = 5
  MaxCrashes = 1
  MaxFaults = 1
INVARIANT AtMostOnce
INVARIANT RecordedBeforeDelivery
INVARIANT ClaimedIsAccountedFor
INVARIANT OneTurnUnlessOvertaken
INVARIANT WorkingHasTurn
PROPERTY ImplementsLedger
PROPERTY QueueDrains
PROPERTY WorkingEnds
CHECK_DEADLOCK FALSE
