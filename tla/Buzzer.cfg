CONSTANTS
  Endpoint = {buzz, door}
  buzz = buzz
  door = door
  MaxCommands = 3
  MaxUnlocks = 3
  MaxMin = 4
  Faults = TRUE
  MaxUsers = 2
  MaxPins = 2
  PinsPerUser = 2
  MaxSchedules = 1
  Owners <- ThreeKinds
  UniqueIds = {u1, u2}
  Secrets = {s1, s2}
  Times = {t1}
  None = None
  Sets = 3
  Failures = 1
SPECIFICATION BuzzerSpec
INVARIANTS
  RelayHasOff
  RelayHolds
  AttributesAgree
  CountersIncrease
  IndexListsFit
  KeptIsDurable
PROPERTIES
  GoesBackToLocked
  OpensOnce
  RestartKeepsPins
CHECK_DEADLOCK FALSE
