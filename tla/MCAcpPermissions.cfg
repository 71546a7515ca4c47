SPECIFICATION FairSpec
CONSTANTS
  q1 = q1
  q2 = q2
  s1 = s1
  s2 = s2
  allow = allow
  reject = reject
  Denied = Denied
  Nothing = Nothing
  Requests <- MCRequests
  Sessions <- MCSessions
  Options <- MCOptions
  SessionOf <- MCSessionOf
  Offered <- MCOffered
  MaxCancels = 2
  MaxFaults = 1
INVARIANT AckedUnlessRaced
INVARIANT PendingHasTask
INVARIANT SweptIsNeverApproved
INVARIANT LogMatchesAnswer
PROPERTY NoSecondDecision
PROPERTY RequestsAreAnswered
CHECK_DEADLOCK FALSE
