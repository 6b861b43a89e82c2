CONSTANTS
  Device = {d1, d2}
  NoDevice = NoDevice
  Faults = {}
  MaxConn = 2
  NumStages = 1
SPECIFICATION HubSpec
PROPERTY
  SelfHeals
