SPECIFICATION FairSpec
CONSTANTS
  InitRolling = TRUE
  Inputs <- RoughInputs
  Faults <- RoughFaults
  MaxInputs = 2
  MaxFaults = 2
INVARIANT
  RecordingHasEnd
PROPERTY
  IdleAgain
CHECK_DEADLOCK FALSE
