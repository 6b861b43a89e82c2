CONSTANTS
  Endpoint = {buzz, door}
  MaxCommands = 4
SPECIFICATION BuzzSpec
INVARIANT
  UnlockBuzzes
CHECK_DEADLOCK FALSE
