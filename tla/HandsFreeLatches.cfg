SPECIFICATION Spec
CONSTANTS
  InitRolling = TRUE
  Inputs <- TrayOnly
  Faults <- MicFails
  MaxInputs = 2
  MaxFaults = 1
INVARIANT
  HandsFreeOnlyWhileRecording
CHECK_DEADLOCK FALSE
