CONSTANT
  Faults = 2
SPECIFICATION SoakSpec
INVARIANT
  SoakSafe
PROPERTY
  NeverStalls
CHECK_DEADLOCK FALSE
