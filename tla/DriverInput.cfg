SPECIFICATION Spec
CONSTANTS
  Drivers = {"f1", "z1", "x1", "s2", "s5", "d2", "jam", "mikro2", "mikro3", "mk3", "mouse", "firmata"}
  Faulty = FALSE
INVARIANTS TypeOK ViewIsHardware ViewIsMemory EventsDeclared EventsNamed WheelNear
PROPERTIES EventsAreChanges TurnTold
