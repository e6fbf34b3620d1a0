SPECIFICATION Spec
CONSTANTS
  InitRolling = TRUE
  Inputs <- TrayOnly
  Faults <- Panic
  MaxInputs = 2
  MaxFaults = 1
INVARIANT
  StreamIsHeard
CHECK_DEADLOCK FALSE
