SPECIFICATION SharedSpec
CONSTANTS
  Parts <- MCEither
  Clients <- MCApp  Size = 2  MaxFaults = 3  MaxInodes = 7
  Requests <- MCRequests  MaxLaunches = 2  MaxApps = 1
  MaxCalls = 2  MaxToggles = 1  MaxCrashes = 1  MaxWedges = 1
INVARIANT TrustedIsGood
PROPERTIES InstallConverges LaunchIsReachable CallsAreAnswered
CHECK_DEADLOCK FALSE
