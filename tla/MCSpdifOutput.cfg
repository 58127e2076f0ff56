\* Five blocks fill both slots twice over, across a stop and a change of format.
CONSTANTS
  BothOutputs = TRUE
  MaxBlocks = 5
SPECIFICATION FairSpec
INVARIANT TypeOK
INVARIANT NoTornBlock
INVARIANT SlotOwnership
INVARIANT ReceiverGetsSamples
INVARIANT ReceiverKnowsFormat
INVARIANT ReceiverFindsSubframes
PROPERTY OneProgram
PROPERTY BlockIsPlayed
PROPERTY WriterIsServed
