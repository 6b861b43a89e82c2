CONSTANTS
  MaxAttempts = 2
  MaxNoGrant = 2
  NumStages = 2
  Faults = {"late_connect", "slow_disconnect", "late_results", "preempted"}
SPECIFICATION AncSpec
INVARIANTS
  RangesOnGrant
  IqExclusive
PROPERTY
  KeepsAsking
