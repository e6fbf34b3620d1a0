SPECIFICATION FairSpec
CONSTANTS
  InitRolling = TRUE
  Inputs <- TrayOnly
  Faults <- WorkerDies
  MaxInputs = 2
  MaxFaults = 1
PROPERTY
  IdleAgain
CHECK_DEADLOCK FALSE
