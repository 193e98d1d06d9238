SPECIFICATION Spec
CONSTANTS
  Drivers = {"jam"}
  Faulty = TRUE
PROPERTIES EventsAreChanges
