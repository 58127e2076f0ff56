CONSTANTS
  AltMax = 8
  MaxRequests = 4
SPECIFICATION FairSpec
INVARIANT TypeOK
INVARIANT EndpointsFollowHost
INVARIANT BuffersApart
PROPERTY InIsPipe
PROPERTY OutIsPipe
PROPERTY ReportsKeepComing
CHECK_DEADLOCK FALSE
