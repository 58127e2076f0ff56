CONSTANTS
  MaxTransfers = 4
  MaxPackets = 2
  MaxResets = 2
  AbandonsAnyTime = FALSE
SPECIFICATION FairSpec
INVARIANT TypeOK
INVARIANT OwnAnswer
INVARIANT OwnData
PROPERTY AddressAfterStatus
PROPERTY TransferEnds
CHECK_DEADLOCK FALSE
