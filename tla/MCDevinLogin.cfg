SPECIFICATION FairLoginSpec
CONSTANTS
  h1 = h1
  h2 = h2
  NoLogin = NoLogin
  Logins <- MCLogins
INVARIANT NoOrphanLogin
PROPERTY LoginsAnswered
PROPERTY CeilingHolds
CHECK_DEADLOCK FALSE
