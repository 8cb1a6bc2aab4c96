SPECIFICATION Spec
CONSTANTS
  Song = {s1, s2}
  None = None
  Chunks = 2
  Chunk = {1, 2}
  MaxKept = 2
  OwnBlocks <- MCOwnBlocks
  Parallel = 2
SYMMETRY Symmetry
CHECK_DEADLOCK FALSE
INVARIANT UntouchedOnError
