SPECIFICATION HotkeySpec
CONSTANTS
  Keys <- MCKeys  Bit <- MCBit
  MaxPresses = 2  MaxDisables = 1  MaxSettings = 1  MaxFailures = 1
INVARIANT HoldIsReported
PROPERTIES NoLiveHoldIsCut ReleaseIsReported
