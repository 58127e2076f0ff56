\* The host may abandon a transfer at any moment.
CONSTANTS
  MaxTransfers = 3
  MaxPackets = 1
  MaxResets = 0
  AbandonsAnyTime = TRUE
SPECIFICATION Spec
INVARIANT OwnAnswer
CHECK_DEADLOCK FALSE
