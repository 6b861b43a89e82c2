CONSTANTS
  Device = {d1, d2}
  NoDevice = NoDevice
  MaxConn = 2
  NumStages = 1
  Faults = {"late_events", "hci_errors"}
SPECIFICATION HubsSpec
INVARIANTS
  SlotsConsistent
  ReadyIsSetUp
  NoRadioInTurn
  CadencesDistinct
PROPERTIES
  EverySlotVisited
  ReadyIsAssigned
