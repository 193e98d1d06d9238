SPECIFICATION Spec
CONSTANTS
  u1 = u1
  u2 = u2
  mk3 = mk3
  jam = jam
  mikro2 = mikro2
  hub = hub
  firmata = firmata
  None = none
  Units = {u1, u2}
  Models <- MCModels
  ModelOf <- Quirky
  QuirkOf <- NoQuirk
  LeftQuirk = {mikro2}
  UsbDrivers = {mk3, mikro2}
  SerialDrivers = {firmata}
  Virtual = {mikro2}
  AppRefuses = TRUE
  OpenFails = TRUE
  MaxPlugs = 1
INVARIANTS
  TypeOK
  ListsHoldAlive
  BanishedDrained
  ExitDisconnectsAll
PROPERTIES
  ImplementsSession
CHECK_DEADLOCK FALSE
