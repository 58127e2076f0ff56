CONSTANTS
  Blocks = 4
SPECIFICATION Spec
INVARIANT FreshStart
