SPECIFICATION Spec
CONSTANTS
  Blocks = {b1, b2}
  Null = null
  ReadMax = 2
  DrainMax = 1
  WalkMax = 4
  FailKinds = {"bulk"}
SYMMETRY Symmetry
INVARIANTS
  NoSelfLoop
CHECK_DEADLOCK FALSE
