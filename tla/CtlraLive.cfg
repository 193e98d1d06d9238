SPECIFICATION FairSpec
CONSTANTS
  u1 = u1
  u2 = u2
  mk3 = mk3
  jam = jam
  mikro2 = mikro2
  hub = hub
  firmata = firmata
  None = none
  Units = {u1, u2}
  Models <- MCModels
  ModelOf <- Different
  QuirkOf <- NoQuirk
  LeftQuirk = {}
  UsbDrivers = {mk3, jam}
  SerialDrivers = {}
  Virtual = {}
  AppRefuses = FALSE
  OpenFails = FALSE
  MaxPlugs = 2
PROPERTIES
  UnpluggedIsRemoved
  PluggedIsDriven
CHECK_DEADLOCK FALSE
