CONSTANTS
  b1 = b1
  b2 = b2
  Buttons = {b1, b2}
  Modulus = 9
  FastestPoll = 2
  SlowestPoll = 3
  Pauses = {8}
  IdleRates = {0, 1, 5}
  MaxChanges = 2
  MaxRequests = 3
SPECIFICATION FairSpec
INVARIANT TypeOK
INVARIANT IdleHonoured
PROPERTY NoGlitchReported
PROPERTY HostLearnsKeys
PROPERTY DiagnosticsKeepComing
CHECK_DEADLOCK FALSE
