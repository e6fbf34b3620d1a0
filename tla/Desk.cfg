SPECIFICATION DeskSpec
CONSTANTS
  Parts <- MCParts  Spoken <- MCSpoken
  Verifies = TRUE  MaxTexts = 2  MaxCopies = 2
  SinglePassMax = 3  CutWindowMin = 2  Overlap = 1  SeamWords = 2
  MaxFaults = 1
  Recordings <- MCRecordings  MaxAsks = 2  MaxSaves = 1  MaxLive = 1
  SegmentAbove = 4  SegmentMin = 3  SegmentMax = 4  SegmentMinTail = 2
  Texts <- MCTexts  MaxRequests = 2  MaxWarmups = 1  MaxMishaps = 1
INVARIANTS DeskTypeOK UserContentIsHeld RecoveredIsComplete NoOrphanGeneration
           CleanedIsWhole SegmentsAreWhole
PROPERTIES ClipboardIsGivenBack RecoveryEnds ManagerComesBack
CHECK_DEADLOCK FALSE
