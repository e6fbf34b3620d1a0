SPECIFICATION Spec
CONSTANTS
  InitRolling = TRUE
  Inputs <- HoldInputs
  Faults <- NoFaults
  MaxInputs = 2
  MaxFaults = 0
INVARIANTS
  PendingFinalIsItsOwn
  StreamIsHeard
  NoWordsLost
CHECK_DEADLOCK FALSE
