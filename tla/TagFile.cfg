SPECIFICATION Spec
CONSTANTS
  Song = {s1, s2}
  None = None
  Chunks = 2
  Chunk = {1, 2}
  MaxKept = 2
  OwnBlocks <- MCOwnBlocks
  Parallel = 2
INVARIANT SongPlays
INVARIANT TagsTaken
INVARIANT FailureLeavesNothing
PROPERTY CoverWhole
SYMMETRY Symmetry
CHECK_DEADLOCK FALSE
