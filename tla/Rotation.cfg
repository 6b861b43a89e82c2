CONSTANTS
  Anchor = {a1, a2}
  MaxConn = 2
  NoSlot = NoSlot
SPECIFICATION RotSpec
INVARIANTS
  NewConnsKept
  NoDuplicates
  DoneIsOfTurn
  AdvertisesUnlessFailed
PROPERTIES
  EveryLinkServed
