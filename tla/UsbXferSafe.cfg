SPECIFICATION Spec
CONSTANTS
  Blocks = {b1, b2, b3}
  Null = null
  ReadMax = 2
  DrainMax = 1
  WalkMax = 4
  FailKinds = {"read", "write", "bulk"}
SYMMETRY Symmetry
INVARIANTS
  TypeOK
  ListIsOutstanding
  CountsAreBlocks
  BlockOutlivesTransfer
  NoMemoryFault
  CancelsCovered
PROPERTIES
  ReleaseReachesAll
  KeepsPromise
CHECK_DEADLOCK FALSE
