CONSTANTS
  MaxProc = 3
  Subevents = 2
  Faults = 2
SPECIFICATION CycSpec
INVARIANT
  CycSafe
PROPERTY
  NeverHangs
CHECK_DEADLOCK FALSE
