\* Four block numbers tell a block from the three around it, which is more than the
\* two buffers and the wire hold at once.
CONSTANTS
  Blocks = 4
SPECIFICATION FairSpec
INVARIANT TypeOK
INVARIANT LateCostsTwoBlocks
INVARIANT WriterKeepsOff
PROPERTY WriterIsServed
