SPECIFICATION FairSpec
CONSTANTS
  dark = dark
  red = red
  blue = blue
  Images <- MCImages
  Dark = dark
  WriteMax = 4
INVARIANTS
  TypeOK
  NotLost
  DarkWhenClosed
PROPERTIES
  LightsShown
CHECK_DEADLOCK FALSE
