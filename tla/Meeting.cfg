SPECIFICATION MeetingSpec
CONSTANTS
  StartPolls = 2  EndPolls = 3  MaxSessions = 2  MaxChanges = 2  MaxWindows = 3
  MaxFrames = 2  HoldFrames = 1  RetainFrames = 2  SummaryLines = 2
  Levels <- MCLevels  MaxHeard <- MCHeard  MaxDelay = 1
INVARIANTS MeetingTypeOK NoOrphanSession NothingUnheard EchoWasSaid
PROPERTIES AutoSessionEnds StopIsAnswered
CHECK_DEADLOCK FALSE
