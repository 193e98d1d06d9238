SPECIFICATION Spec
CONSTANTS
  Blocks = {b1, b2}
  Null = null
  ReadMax = 1
  DrainMax = 1
  WalkMax = 2
  FailKinds = {}
SYMMETRY Symmetry
PROPERTIES
  NoEventAfterRemove
CHECK_DEADLOCK FALSE
