SPECIFICATION Spec
CONSTANTS
  Drivers = {"f1", "z1", "x1", "s2", "s5", "d2", "jam", "mikro2", "mk3"}
  WriteLimit = 5
  MaxSets = 2
  MaxExtras = 1
  MaxTouches = 2
  Touchable = {0, 15}
INVARIANTS TypeOK LightsShown HandlesOpen DarkAfterClose
PROPERTIES FirstReportShown AllShownWhenCaughtUp
CHECK_DEADLOCK FALSE
