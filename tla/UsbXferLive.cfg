SPECIFICATION FairSpec
CONSTANTS
  Blocks = {b1, b2}
  Null = null
  ReadMax = 2
  DrainMax = 1
  WalkMax = 4
  FailKinds = {}
PROPERTIES
  FinishedIsReported
  CloseCompletes
CHECK_DEADLOCK FALSE
