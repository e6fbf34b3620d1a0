SPECIFICATION DeskSafety
CONSTANTS
  Parts <- MCPaste  Spoken <- MCSpoken
  Verifies = TRUE  MaxTexts = 1  MaxCopies = 0
  SinglePassMax = 3  CutWindowMin = 2  Overlap = 1  SeamWords = 2
  MaxFaults = 0
  Recordings <- MCRecordings  MaxAsks = 0  MaxSaves = 0  MaxLive = 0
  SegmentAbove = 4  SegmentMin = 3  SegmentMax = 4  SegmentMinTail = 2
  Texts <- MCTexts  MaxRequests = 0  MaxWarmups = 0  MaxMishaps = 0
INVARIANT ToldTrue
CHECK_DEADLOCK FALSE
