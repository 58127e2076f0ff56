\* The host goes on sending while it asks for another sampling rate.
CONSTANTS
  Alts = {0, 1}
  Rates = {48, 96}
  USB_QUEUE_LENGTH = 6
  MaxRequests = 3
  PausesForRate = FALSE
SPECIFICATION Spec
INVARIANT NoOldRate
CHECK_DEADLOCK FALSE
