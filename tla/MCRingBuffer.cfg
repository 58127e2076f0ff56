CONSTANTS
  Data = {0, 1}
  MaxRequest = 4
  Sizes = {2, 3, 4}
  Reserved = 3
SPECIFICATION Spec
INVARIANT IndexesOK
PROPERTY IsFifo
