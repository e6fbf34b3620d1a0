SPECIFICATION FairSpec
CONSTANTS
  InitRolling = TRUE
  Inputs <- VoiceInputs
  Faults <- VoiceFaults
  MaxInputs = 3
  MaxFaults = 1
INVARIANTS
  TypeOK
  TranscribingHasEnd
  ListenAnswersItsOwnTake
  DeliveredAtMostOnce
PROPERTIES
  BusyIsNotInterrupted
  ListensAnswered
  WordsArePromised
CHECK_DEADLOCK FALSE
