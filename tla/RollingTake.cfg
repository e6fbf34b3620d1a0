SPECIFICATION FairRollingSpec
CONSTANTS
  SinglePassMax = 2
  CutWindowMin = 1
  Overlap = 1
  SeamWords = 2
  MinTail = 1
  ResplitMin = 2
  MaxLoadWait = 1
  MaxAudio = 4
  MaxQuiet = 1
  MaxFaults = 2
  Repeats = FALSE
INVARIANTS
  RollingTypeOK
  EveryPartIsOwed
  CutAsBatch
  NothingSaidTwice
  CompleteHasEveryWord
PROPERTIES
  FinishIsAnswered
CHECK_DEADLOCK FALSE
