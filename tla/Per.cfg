CONSTANTS
  Device = {d1}
  NoDevice = NoDevice
  Faults = {"cut_short", "preempted", "hci_errors"}
  Burst = 2
SPECIFICATION PersSpec
INVARIANTS
  CsInTurns
  BurstCompleteIsOwn
  ToneBufferExclusive
PROPERTIES
  TurnEnds
  RxResumes
  KeptOn
CHECK_DEADLOCK FALSE
