CONSTANTS
  Device = {d1, d2}
  NoDevice = NoDevice
  Faults = {"cut_short"}
  MaxConn = 2
  NumStages = 1
  Burst = 1
  HubTimeout = 4
  BurstTimeout = 1
  GoBound = 1
  DoneBound = 1
SPECIFICATION ReadySpec
SYMMETRY SwapSymmetry
INVARIANTS
  Exclusive
PROPERTY
  TokenImplemented
CONSTRAINT OneLinkDown
