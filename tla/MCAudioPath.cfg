CONSTANTS
  Alts = {0, 1, 8}
  Rates = {48, 96}
  USB_QUEUE_LENGTH = 6
  MaxRequests = 4
  PausesForRate = TRUE
SPECIFICATION FairSpec
INVARIANT TypeOK
INVARIANT Consistent
INVARIANT NoStaleAudio
INVARIANT NoOldRate
PROPERTY NoFlapping
PROPERTY Recovers
CHECK_DEADLOCK FALSE
