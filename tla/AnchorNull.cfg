CONSTANTS
  MaxAttempts = 2
  MaxNoGrant = 2
  NumStages = 1
  Faults = {}
SPECIFICATION AncSpec
INVARIANT
  NoNullConnection
