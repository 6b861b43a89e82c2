CONSTANTS
  Initiator = {i1, i2}
  MaxConn = 2
  Attempts = 1
  Faults = 1
  NULL = NULL
SPECIFICATION RasSpec
INVARIANT
  RasSafe
PROPERTIES
  EndsByOwn
  HandsOneTurn
  EveryReadyServed
CHECK_DEADLOCK FALSE
